----------------------------- MODULE WalletLink -----------------------------
(***************************************************************************)
(* The wallet's chain of services, each of which may be away: wallet-infra *)
(* (the storage), walletd, which keeps a connection to it                  *)
(* (bsv-regtest/walletd), and the orchestrator, which keeps walletd's      *)
(* health and a row for every transaction (internal/walletsvc).  A         *)
(* transaction is stored when the storage has it; its row comes from the   *)
(* answer of walletd or, when that is lost, from the sweep that reads the  *)
(* newest transactions of the storage.                                     *)
(***************************************************************************)
EXTENDS Integers

CONSTANTS
  Limit,      \* transactions of a sweep (200)
  MaxStored,  \* bound: transactions
  MaxChanges  \* bound: outages and restarts

LinkAssumption == Limit \in Nat \ {0} /\ {MaxStored, MaxChanges} \subseteq Nat

VARIABLES
  storage,    \* does wallet-infra answer in time?
  changes,    \* outages and restarts so far
  daemon,     \* where Wallet.Run of walletd is, "down" if walletd does not run
  connected,  \* Wallet.connected
  losses,     \* history: connections lost in the present outage
  stored,     \* number of transactions the storage has, in the order of their ids
  unanswered, \* those of which walletd's answer is under way
  rows,       \* Tracker.rows
  health,     \* Service.health
  sweep,      \* where Service.Run is, with the total read in a sweep
  page        \* a request for the wallet page

walletd == <<daemon, connected, losses>>
service == <<health, sweep, rows>>
vars == <<storage, changes, walletd, stored, unanswered, service, page>>

Ids == 1..MaxStored
Answers == {"connected", "not_connected", "unavailable", "upstream"}

LinkTypeOK ==
  /\ storage \in BOOLEAN /\ connected \in BOOLEAN
  /\ daemon \in {"down", "dial", "proven", "backoff", "probe"}
  /\ connected => daemon = "probe"
  /\ stored \in 0..MaxStored
  /\ unanswered \subseteq 1..stored /\ rows \subseteq 1..stored
  /\ health \in {"none", "not_connected", "connected"}
  /\ sweep \in [at : {"health", "total", "page"}, total : 0..MaxStored]
  /\ page \in {"none", "ask"} \cup Answers

Init ==
  /\ storage \in BOOLEAN /\ changes = 0
  /\ daemon \in {"down", "dial"} /\ connected = FALSE /\ losses = 0
  /\ stored = 0 /\ unanswered = {} /\ rows = {}
  /\ health = "none" /\ sweep = [at |-> "health", total |-> 0]
  /\ page = "none"

------------------------------------------------------------------------------
(* Outages and restarts *)

Changed == changes < MaxChanges /\ changes' = changes + 1
Sweeping(to, total) == sweep' = [at |-> to, total |-> total]

StorageChanges ==
  /\ Changed
  /\ storage' = ~storage /\ losses' = 0
  /\ UNCHANGED <<daemon, connected, stored, unanswered, service, page>>

\* With it go the requests it has not answered.
DaemonEnds ==
  /\ Changed
  /\ daemon # "down" /\ daemon' = "down" /\ connected' = FALSE
  /\ unanswered' = {}
  /\ IF sweep.at = "page" THEN Sweeping("health", 0) ELSE UNCHANGED sweep
  /\ UNCHANGED <<storage, losses, stored, health, rows, page>>

\* NewWallet does not connect.
DaemonStarts ==
  /\ daemon = "down" /\ daemon' = "dial"
  /\ UNCHANGED <<storage, changes, connected, losses, stored, unanswered, service, page>>

\* The orchestrator keeps health and rows in memory.
ServiceRestarts ==
  /\ Changed
  /\ health' = "none" /\ rows' = {} /\ unanswered' = {}
  /\ sweep' = [at |-> "health", total |-> 0] /\ page' = "none"
  /\ UNCHANGED <<storage, walletd, stored>>

------------------------------------------------------------------------------
(* Wallet.Run of walletd *)

\* Mutant: that the client was built is taken for a connection.
DialBuilt ==
  /\ daemon = "dial" /\ daemon' = "proven"
  /\ UNCHANGED <<connected, losses>>

\* connect: the client does not dial when it is built, a balance does.
Dial ==
  /\ daemon = "dial" /\ daemon' = IF storage THEN "proven" ELSE "backoff"
  /\ UNCHANGED <<connected, losses>>

Connected ==
  /\ daemon = "proven" /\ daemon' = "probe" /\ connected' = TRUE
  /\ UNCHANGED losses

Backoff == daemon = "backoff" /\ daemon' = "dial" /\ UNCHANGED <<connected, losses>>

\* probeUntilLost: at once to the next connect.
Probe ==
  /\ daemon = "probe" /\ ~storage
  /\ daemon' = "dial" /\ connected' = FALSE /\ losses' = losses + 1

Run ==
  /\ Dial \/ Connected \/ Backoff \/ Probe
  /\ UNCHANGED <<storage, changes, stored, unanswered, service, page>>

------------------------------------------------------------------------------
(* Transactions *)

Reachable == storage /\ connected

\* BuildTx, whose CreateAction stores and broadcasts.
Create ==
  /\ Reachable /\ stored < MaxStored
  /\ stored' = stored + 1 /\ unanswered' = unanswered \cup {stored + 1}
  /\ UNCHANGED <<storage, changes, walletd, service, page>>

\* WalletTx notes what was answered.
Note(x) ==
  /\ x \in unanswered
  /\ unanswered' = unanswered \ {x} /\ rows' = rows \cup {x}
  /\ UNCHANGED <<storage, changes, walletd, stored, health, sweep, page>>

\* The answer is lost, or a send that was stopped does not wait for it.
Lose(x) ==
  /\ x \in unanswered /\ unanswered' = unanswered \ {x}
  /\ UNCHANGED <<storage, changes, walletd, stored, service, page>>

------------------------------------------------------------------------------
(* Service.Run of the orchestrator *)

\* Mutant: an error leaves the health as it was.
RefreshHealthOnly ==
  /\ sweep.at = "health" /\ Sweeping("total", 0)
  /\ health' = IF daemon = "down" THEN health
               ELSE IF connected THEN "connected" ELSE "not_connected"
  /\ UNCHANGED rows

\* refreshHealth: /healthz is always served.
RefreshHealth ==
  /\ sweep.at = "health" /\ Sweeping("total", 0)
  /\ health' = IF daemon = "down" THEN "none"
               ELSE IF connected THEN "connected" ELSE "not_connected"
  /\ UNCHANGED rows

\* Wallet.Actions asks for the total first: the storage lists from the oldest.
Total ==
  /\ sweep.at = "total"
  /\ IF Reachable /\ stored > 0 THEN Sweeping("page", stored) ELSE Sweeping("health", 0)
  /\ UNCHANGED <<health, rows>>

\* Mutant: the first page.
OffsetNone(total) == 0

\* Where the page of the newest transactions starts.
Offset(total) == IF total > Limit THEN total - Limit ELSE 0

\* The page, through the handle that read the total; reconcile gives each of its
\* transactions a row.
Page ==
  /\ sweep.at = "page" /\ Sweeping("health", 0)
  /\ rows' = IF storage THEN rows \cup {x \in 1..stored : x - Offset(sweep.total) \in 1..Limit}
                        ELSE rows
  /\ UNCHANGED health

Serve ==
  /\ RefreshHealth \/ Total \/ Page
  /\ UNCHANGED <<storage, changes, walletd, stored, unanswered, page>>

------------------------------------------------------------------------------
(* Service.State *)

\* The health that was kept decides whether walletd is asked at all.
Visit ==
  /\ page = "none"
  /\ page' = CASE health = "none" -> "unavailable"
               [] health = "not_connected" -> "not_connected"
               [] health = "connected" -> "ask"
  /\ UNCHANGED <<storage, changes, walletd, stored, unanswered, service>>

\* walletd's State, whose reason is passed on.
AskState ==
  /\ page = "ask"
  /\ page' = CASE daemon = "down" -> "unavailable"
               [] daemon # "down" /\ ~connected -> "not_connected"
               [] connected /\ ~storage -> "upstream"
               [] connected /\ storage -> "connected"
  /\ UNCHANGED <<storage, changes, walletd, stored, unanswered, service>>

Answered ==
  /\ page \in Answers /\ page' = "none"
  /\ UNCHANGED <<storage, changes, walletd, stored, unanswered, service>>

Next ==
  \/ StorageChanges \/ DaemonEnds \/ DaemonStarts \/ ServiceRestarts
  \/ Run \/ Create \/ (\E x \in Ids : Note(x) \/ Lose(x))
  \/ Serve \/ Visit \/ AskState \/ Answered

Spec == Init /\ [][Next]_vars

\* walletd and the orchestrator loop for as long as they run, and every call
\* they make has a deadline.
Fairness ==
  WF_vars(Run) /\ WF_vars(Serve) /\ WF_vars(AskState) /\ WF_vars(Answered)
FairSpec == Spec /\ Fairness

------------------------------------------------------------------------------
(* Properties *)

\* "A dropped connection flips `connected` once rather than surfacing as a storm
\* of per-request errors" (wallet.go:74-75): in an outage at most one connection
\* is lost, also when it begins between a balance and what follows from it.
OneLossPerOutage == losses <= 1

\* The services find each other again, in whatever order they come back
\* (wallet.go:70-92), and then the page says so; an outage that lasts is seen.
LinkFollows ==
  /\ <>[](storage /\ daemon # "down") =>
       <>[](connected /\ health = "connected" /\ page \in {"none", "ask", "connected"})
  /\ <>[]~storage =>
       <>[](~connected /\ health # "connected" /\ page # "connected")
  /\ <>[](daemon = "down") => <>[](page \in {"none", "unavailable"})

\* A transaction whose answer was lost gets its row from a sweep, unless newer
\* ones push it out of the sweeps, however the list grows between the two calls
\* of one (service.go:148-160, state.go:124-137).
StoredIsTracked ==
  <>[](storage /\ daemon # "down") =>
    \A x \in Ids : []<>(x > stored \/ x <= stored - Limit \/ x \in rows)
=============================================================================
