-------------------------------- MODULE TopUp --------------------------------
(***************************************************************************)
(* Funding the wallet from a coinbase: WalletTopUp and WalletInternalize   *)
(* of internal/api/wallet.go, Internalize of walletd, and stackctl topup.  *)
(*                                                                         *)
(* Top-ups run beside each other without a lock.  Each looks for a mature  *)
(* coinbase the node shows unspent, pays it to the wallet through arcade,  *)
(* mines until arcade has the proof, and has walletd credit the payment.   *)
(* Arcade, the network and the storage server are external.                *)
(***************************************************************************)
EXTENDS Integers, FiniteSets

CONSTANTS
  Calls,     \* top-ups
  Maturity,  \* blocks a coinbase waits (100)
  Window,    \* eligible blocks a top-up looks at (25)
  Period,    \* polls between two blocks mined while waiting (5)
  MaxTip     \* bound: height; at the bound blocks still seal the mempool

TopUpAssumption ==
  /\ {Maturity, Window, Period} \subseteq Nat \ {0}
  /\ MaxTip \in Nat /\ MaxTip >= Maturity + 2

VARIABLES
  tip,             \* height of the node's chain
  tx,              \* where each funding transaction is
  pc, tool, mine,  \* where each call is; who runs it; does it mine?
  at, base,        \* height it looks at; tip it has read
  coin,            \* height of the coinbase it spends, 0 before
  polls,           \* polls since it last mined
  result, told,    \* its outcome; does its answer carry the txid?
  credited         \* calls whose payment the storage server has credited

call == <<pc, tool, mine, at, base, coin, polls, result, told>>
vars == <<tip, tx, call, credited>>

Known == {"pool", "mined", "proven"}   \* the node has the transaction

TopUpTypeOK ==
  /\ tip \in 0..MaxTip
  /\ tx \in [Calls -> {"none", "sent", "refused"} \cup Known]
  /\ pc \in [Calls -> {"idle", "tip", "look", "submit", "mempool", "proof", "credit", "done"}]
  /\ tool \in [Calls -> {"api", "stackctl"}] /\ mine \in [Calls -> BOOLEAN]
  /\ at \in [Calls -> 0..MaxTip + 1] /\ base \in [Calls -> 0..MaxTip]
  /\ coin \in [Calls -> 0..MaxTip] /\ polls \in [Calls -> 0..Period]
  /\ result \in [Calls -> {"", "ok", "rpc", "immature", "no_coinbase", "rejected", "timeout", "internalize"}]
  /\ told \in [Calls -> BOOLEAN]
  /\ credited \subseteq Calls
  /\ \A c \in Calls : coin[c] > 0 => coin[c] + Maturity <= tip

Init ==
  /\ tip \in {0, Maturity + 1}
  /\ tx = [c \in Calls |-> "none"]
  /\ pc = [c \in Calls |-> "idle"] /\ tool = [c \in Calls |-> "api"] /\ mine = [c \in Calls |-> FALSE]
  /\ at = [c \in Calls |-> 0] /\ base = at /\ coin = at /\ polls = at
  /\ result = [c \in Calls |-> ""] /\ told = [c \in Calls |-> FALSE]
  /\ credited = {}

Goes(c, point) == pc' = [pc EXCEPT ![c] = point]

\* The call answers; "api" answers carry the result they have so far.
Fails(c, reason) ==
  /\ Goes(c, "done") /\ result' = [result EXCEPT ![c] = reason]
  /\ told' = [told EXCEPT ![c] = coin[c] > 0 /\ (tool[c] = "api" \/ reason = "timeout")]

\* Generate: blocks on the node, the first one seals its mempool.
Generate(blocks) ==
  /\ tip' = (IF tip + blocks > MaxTip THEN MaxTip ELSE tip + blocks)
  /\ tx' = [d \in Calls |-> IF tx[d] = "pool" THEN "mined" ELSE tx[d]]

------------------------------------------------------------------------------
(* Finding a coinbase *)

Begin(c, who, mines) ==
  /\ pc[c] = "idle" /\ Goes(c, "tip")
  /\ tool' = [tool EXCEPT ![c] = who] /\ mine' = [mine EXCEPT ![c] = mines]
  /\ UNCHANGED <<tip, tx, at, base, coin, polls, result, told, credited>>

\* Mutant: one block too young.
FirstYoung(c) == IF tool[c] = "api" THEN tip - Maturity + 1 ELSE 1

\* findSpendableCoinbase walks down from maturity, stackctl up from block 1.
First(c) == IF tool[c] = "api" THEN tip - Maturity ELSE 1

\* The tip is read; on a young chain the orchestrator mines up to maturity and
\* reads it again.
ReadTip(c) ==
  /\ pc[c] = "tip"
  /\ \/ /\ tip >= Maturity + 1
        /\ Goes(c, "look") /\ base' = [base EXCEPT ![c] = tip]
        /\ at' = [at EXCEPT ![c] = First(c)]
        /\ UNCHANGED <<tip, tx, result, told>>
     \/ /\ tip < Maturity + 1
        /\ IF mine[c] /\ tool[c] = "api"
           THEN Generate(Maturity + 1 - tip + 1) /\ UNCHANGED <<pc, result, told>>
           ELSE Fails(c, "immature") /\ UNCHANGED <<tip, tx>>
        /\ UNCHANGED <<at, base>>
     \/ Fails(c, "rpc") /\ UNCHANGED <<tip, tx, at, base>>
  /\ UNCHANGED <<tool, mine, coin, polls, credited>>

\* What the node shows of a coinbase: a transaction it has spends it.
Spent(h) == \E d \in Calls : coin[d] = h /\ tx[d] \in Known

InSight(c) == IF tool[c] = "api" THEN at[c] > 0 /\ at[c] > base[c] - Maturity - Window
                                 ELSE at[c] + Maturity <= base[c]
NextHeight(c) == IF tool[c] = "api" THEN at[c] - 1 ELSE at[c] + 1

\* An output whose state could not be read counts as unspent for the
\* orchestrator, and is passed over by stackctl.
Takes(c, readable) == IF readable THEN ~Spent(at[c]) ELSE tool[c] = "api"

Look(c, readable) ==
  /\ pc[c] = "look" /\ InSight(c)
  /\ IF Takes(c, readable)
     THEN /\ Goes(c, "submit") /\ coin' = [coin EXCEPT ![c] = at[c]]
          /\ at' = [at EXCEPT ![c] = 0] /\ base' = [base EXCEPT ![c] = 0]
     ELSE at' = [at EXCEPT ![c] = NextHeight(c)] /\ UNCHANGED <<pc, coin, base>>
  /\ UNCHANGED <<tip, tx, tool, mine, polls, result, told, credited>>

\* A block that cannot be read is passed over by the orchestrator and ends
\* stackctl; so does the last height.
LookFails(c) ==
  /\ pc[c] = "look"
  /\ IF InSight(c) /\ tool[c] = "api"
     THEN at' = [at EXCEPT ![c] = NextHeight(c)] /\ UNCHANGED <<pc, result, told>>
     ELSE Fails(c, IF InSight(c) THEN "rpc" ELSE "no_coinbase") /\ UNCHANGED at
  /\ UNCHANGED <<tip, tx, tool, mine, base, coin, polls, credited>>

------------------------------------------------------------------------------
(* Paying and proving *)

\* Mutant: a call whose submit failed answers with an error alone.
SubmitFailsBare(c) == Goes(c, "done") /\ result' = [result EXCEPT ![c] = "rejected"] /\ UNCHANGED told

SubmitFails(c) == Fails(c, "rejected")

\* Spend and Submit: arcade takes the transaction or refuses it, and its answer
\* may be lost.
Submit(c, taken, answered) ==
  /\ pc[c] = "submit"
  /\ tx' = [tx EXCEPT ![c] = IF taken THEN "sent" ELSE "none"]
  /\ IF taken /\ answered
     THEN Goes(c, IF mine[c] THEN "mempool" ELSE "proof") /\ UNCHANGED <<result, told>>
     ELSE SubmitFails(c)
  /\ UNCHANGED <<tip, tool, mine, at, base, coin, polls, credited>>

\* waitForMempool: the transaction is seen, or its time is over; both go on.
SeenOrNot(c) ==
  /\ pc[c] = "mempool" /\ Goes(c, "proof")
  /\ UNCHANGED <<tip, tx, tool, mine, at, base, coin, polls, result, told, credited>>

\* Mutant: a block is as good as a proof.
HasProofMined(c) == tx[c] \in {"mined", "proven"}

HasProof(c) == tx[c] = "proven"

Proven(c) ==
  /\ pc[c] = "proof" /\ HasProof(c) /\ Goes(c, "credit")
  /\ polls' = [polls EXCEPT ![c] = 0]
  /\ UNCHANGED <<tip, tx, tool, mine, at, base, coin, result, told, credited>>

\* Mutant: only the first poll mines.
MinesOnce(c) == mine[c] /\ polls[c] = 0

\* waitForProof mines at every Period-th poll, stackctl at its first one too.
Mines(c) == mine[c] /\ (polls[c] = Period \/ (tool[c] = "stackctl" /\ polls[c] = 0))

\* A poll that finds no proof.
Poll(c) ==
  /\ pc[c] = "proof" /\ ~HasProof(c)
  /\ polls' = [polls EXCEPT ![c] = IF @ = Period THEN 1 ELSE @ + 1]
  /\ IF Mines(c) THEN Generate(1) ELSE UNCHANGED <<tip, tx>>
  /\ UNCHANGED <<pc, tool, mine, at, base, coin, result, told, credited>>

\* The block of a poll is not produced: the orchestrator goes on, stackctl ends.
PollFails(c) ==
  /\ pc[c] = "proof" /\ ~HasProof(c) /\ Mines(c)
  /\ IF tool[c] = "api"
     THEN polls' = [polls EXCEPT ![c] = 1] /\ UNCHANGED <<pc, result, told>>
     ELSE Fails(c, "rpc") /\ UNCHANGED polls
  /\ UNCHANGED <<tip, tx, tool, mine, at, base, coin, credited>>

\* The wait is over, or the caller has gone.
Expire(c) ==
  /\ pc[c] = "proof" /\ ~HasProof(c) /\ Fails(c, "timeout")
  /\ polls' = [polls EXCEPT ![c] = 0]
  /\ UNCHANGED <<tip, tx, tool, mine, at, base, coin, credited>>

\* Internalize: walletd may not be connected; the storage server credits the
\* payment, once, or fails, and the answer may be lost.
Credit(c, taken, answered) ==
  /\ pc[c] = "credit"
  /\ credited' = IF taken THEN credited \cup {c} ELSE credited
  /\ IF taken /\ answered
     THEN Goes(c, "done") /\ result' = [result EXCEPT ![c] = "ok"] /\ told' = [told EXCEPT ![c] = TRUE]
     ELSE Fails(c, "internalize")
  /\ UNCHANGED <<tip, tx, tool, mine, at, base, coin, polls>>

\* WalletInternalize, for a txid an answer carried: the node has to know it.
\* It waits for the proof and does not mine.
Recover(c) ==
  /\ pc[c] = "done" /\ result[c] # "ok" /\ told[c] /\ tx[c] \in Known
  /\ Goes(c, "proof") /\ tool' = [tool EXCEPT ![c] = "api"] /\ mine' = [mine EXCEPT ![c] = FALSE]
  /\ result' = [result EXCEPT ![c] = ""]
  /\ UNCHANGED <<tip, tx, at, base, coin, polls, told, credited>>

------------------------------------------------------------------------------
(* The network *)

\* A transaction reaches the node, which keeps the first spend of a coinbase.
Reach(c) ==
  /\ tx[c] = "sent"
  /\ tx' = [tx EXCEPT ![c] = IF Spent(coin[c]) THEN "refused" ELSE "pool"]
  /\ UNCHANGED <<tip, call, credited>>

Block == Generate(1) /\ UNCHANGED <<call, credited>>

Prove(c) == tx[c] = "mined" /\ tx' = [tx EXCEPT ![c] = "proven"] /\ UNCHANGED <<tip, call, credited>>

Working(c) ==
  \/ ReadTip(c) \/ (\E b \in BOOLEAN : Look(c, b)) \/ LookFails(c)
  \/ \E t, a \in BOOLEAN : Submit(c, t, a) \/ Credit(c, t, a)
  \/ SeenOrNot(c) \/ Proven(c) \/ Poll(c)

Next ==
  \/ \E c \in Calls :
       \/ \E who \in {"api", "stackctl"}, b \in BOOLEAN : Begin(c, who, b)
       \/ Working(c) \/ PollFails(c) \/ Expire(c) \/ Recover(c)
       \/ Reach(c) \/ Prove(c)
  \/ Block

Spec == Init /\ [][Next]_vars

\* The process runs, transactions travel and proofs are published; nobody has
\* to call, to mine or to wait for a deadline.  A node asked for blocks for ever
\* produces one.
Fairness ==
  \A c \in Calls : WF_vars(Working(c)) /\ WF_vars(Reach(c)) /\ WF_vars(Prove(c))
                    /\ SF_vars(Poll(c) /\ Mines(c))

FairSpec == Spec /\ Fairness

------------------------------------------------------------------------------
(* Properties *)

\* A top-up that succeeds has its payment in a block, proven, and credited, and
\* nothing is credited without a proof, however top-ups, recoveries and lost
\* answers follow each other (wallet.go:384-417).
CreditedIsProven ==
  /\ \A c \in credited : tx[c] = "proven"
  /\ \A c \in Calls : result[c] = "ok" => c \in credited

\* A top-up of the orchestrator that fails when its payment is, or may be, on
\* its way answers with the txid, so that the credit alone can be repeated
\* (wallet.go:288, 296-298, 391-396).
NothingLost ==
  \A c \in Calls : pc[c] = "done" /\ tool[c] = "api" /\ tx[c] # "none" => told[c]

\* While a top-up that mines waits for its proof, the proof comes, though
\* nobody else mines, the payment may miss a block and blocks may fail, unless
\* another payment has spent the coinbase or the wait is over (wallet.go:421-440,
\* topup.go:99-131).
FundingProven ==
  \A c \in Calls : pc[c] = "proof" /\ mine[c] ~> tx[c] \in {"proven", "refused"} \/ pc[c] = "done"
=============================================================================
