------------------------------ MODULE MCWorkers ------------------------------
(***************************************************************************)
(* Four parts that share no state, checked in one run: the mining          *)
(* metronome (AutoMine), the sustained send (SendController), the funding  *)
(* of the wallet (TopUp) and its services (WalletLink).  Their actions     *)
(* commute, so their product would show nothing more: a behaviour is one   *)
(* of one worker, and the others stay as they begin.                       *)
(***************************************************************************)
EXTENDS Integers

CONSTANTS
  Clients, Nodes, Intervals, MaxLate,       \* AutoMine
  Workers, MaxGen, MaxSends,                \* SendController
  Calls, Maturity, Window, Period, MaxTip,  \* TopUp
  Limit, MaxStored, MaxChanges              \* WalletLink

VARIABLES
  worker,   \* the worker this behaviour is of
  cfg, left, reset, pc, copy, timer, req, copied, stale, burst,
  running, draining, gen, reason, attempted, ended, prod, ctx, jobs, closed,
  busy, stops, asked, begun, late,
  tip, tx, funding, tool, mine, at, base, coin, polls, result, told, credited,
  storage, changes, daemon, connected, losses, stored, unanswered, rows,
  health, sweep, page

Mine == INSTANCE AutoMine
Send == INSTANCE SendController
Fund == INSTANCE TopUp WITH pc <- funding
Link == INSTANCE WalletLink

ASSUME WorkersAssumption ==
  /\ Mine!AutoMineAssumption /\ Send!SendAssumption
  /\ Fund!TopUpAssumption /\ Link!LinkAssumption

mineVars == <<cfg, left, reset, pc, copy, timer, req, copied, stale, burst>>
sendVars == <<running, draining, gen, reason, attempted, ended, prod, ctx, jobs,
              closed, busy, stops, asked, begun, late>>
fundVars == <<tip, tx, funding, tool, mine, at, base, coin, polls, result, told,
              credited>>
linkVars == <<storage, changes, daemon, connected, losses, stored, unanswered, rows,
              health, sweep, page>>
vars == <<worker, mineVars, sendVars, fundVars, linkVars>>

Init ==
  /\ worker \in {"mine", "send", "fund", "link"}
  /\ Mine!Init /\ Send!Init /\ Fund!Init /\ Link!Init
  /\ worker # "mine" => cfg = CHOOSE c \in Mine!Config : ~c.enabled
  /\ worker # "fund" => tip = 0
  /\ worker # "link" => ~storage /\ daemon = "down"

Next ==
  /\ UNCHANGED worker
  /\ \/ worker = "mine" /\ Mine!Next /\ UNCHANGED <<sendVars, fundVars, linkVars>>
     \/ worker = "send" /\ Send!Next /\ UNCHANGED <<mineVars, fundVars, linkVars>>
     \/ worker = "fund" /\ Fund!Next /\ UNCHANGED <<mineVars, sendVars, linkVars>>
     \/ worker = "link" /\ Link!Next /\ UNCHANGED <<mineVars, sendVars, fundVars>>

\* The fairness each module states for itself.
Fairness ==
  /\ WF_mineVars(worker = "mine" /\ Mine!Loop)
  /\ WF_mineVars(worker = "mine" /\ Mine!Tick)
  /\ \A g \in Send!Gens :
       /\ WF_sendVars(worker = "send" /\ Send!Run(g))
       /\ WF_sendVars(worker = "send" /\ Send!Cancel(g))
  /\ \A c \in Calls :
       /\ WF_fundVars(worker = "fund" /\ Fund!Working(c))
       /\ WF_fundVars(worker = "fund" /\ Fund!Reach(c))
       /\ WF_fundVars(worker = "fund" /\ Fund!Prove(c))
       /\ SF_fundVars(worker = "fund" /\ Fund!Poll(c) /\ Fund!Mines(c))
  /\ WF_linkVars(worker = "link" /\ Link!Run)
  /\ WF_linkVars(worker = "link" /\ Link!Serve)
  /\ WF_linkVars(worker = "link" /\ Link!AskState)
  /\ WF_linkVars(worker = "link" /\ Link!Answered)

Spec == Init /\ [][Next]_vars
FairSpec == Spec /\ Fairness

------------------------------------------------------------------------------
(* Properties *)

\* The miner neither mines with what was replaced twice nor catches up
\* (automine.go:121-157).
MinerInv == Mine!MineTypeOK /\ Mine!StaleAtMostOnce /\ Mine!NoCatchingUp

\* An enabled miner left alone mines again and again (automine.go:114-115).
KeepsMining == worker = "mine" => Mine!KeepsMining

\* One send at a time, and when it is over every attempt has one outcome
\* (send.go:84-95, 195-201, 217-261).
SendInv == Send!SendTypeOK /\ Send!OneSend /\ Send!BooksBalance

\* A stop cancels the send it found and no other, and a bounded number of
\* transactions are still sent (send.go:184-197, 309-314).
StopIsExact == Send!StopHitsItsRun /\ Send!StopBoundsSends

\* A stopped or expired send drains and ends (send.go:122-123, 301-322).
StopEnds == worker = "send" => Send!StopEnds

\* What is credited is proven, a success is credited, and a failed top-up whose
\* payment may be on its way answers with its txid (wallet.go:288-298, 384-417).
FundingInv == Fund!TopUpTypeOK /\ Fund!CreditedIsProven /\ Fund!NothingLost

\* A top-up that mines gets its proof (wallet.go:421-440, topup.go:99-131).
FundingProven == worker = "fund" => Fund!FundingProven

\* In an outage at most one connection is lost (walletd/wallet.go:74-75).
LinkInv == Link!LinkTypeOK /\ Link!OneLossPerOutage

\* Once nothing is away any more, the services find each other and every
\* transaction among the newest gets its row (wallet.go:70-92, service.go:148-160).
LinkSettles == worker = "link" => Link!LinkFollows /\ Link!StoredIsTracked
==============================================================================
