------------------------------- MODULE Tracker -------------------------------
(***************************************************************************)
(* The transaction tracker: internal/walletsvc/tracker.go, and from        *)
(* service.go the reconcile pass that drives it.                           *)
(*                                                                         *)
(* A row holds what the wallet and what arcade say of a transaction.  Rows *)
(* are added by HTTP requests (Note) and by the sweep of a pass            *)
(* (SetWalletStatus), after which the pass asks arcade about the rows that *)
(* were asked about longest ago.  Arcade may answer anything, or not.      *)
(***************************************************************************)
EXTENDS Integers, SequencesExt

CONSTANTS
  Txs,             \* transactions
  WalletStatuses,  \* what the wallet may say: "sending", "completed", "failed"
  Answers,         \* what GetTx may come to: statuses and "error"
  MaxRows,         \* Tracker.max (2000)
  PollLimit,       \* rows asked about in a pass (50)
  RejectedGrace,   \* rejectedGrace and notFoundGrace, in units of time
  NotFoundGrace

Settled == {"mined", "double_spend"}
Progress == {"seen"}

ASSUME TrackerAssumption ==
  /\ WalletStatuses \subseteq {"sending", "completed", "failed"}
  /\ Answers \subseteq Settled \cup Progress \cup {"rejected", "not_found", "error"}
  /\ {MaxRows, PollLimit} \subseteq Nat \ {0}
  /\ {RejectedGrace, NotFoundGrace} \subseteq Nat

VARIABLES
  known,    \* Tracker.rows: its keys
  row,      \* and what it maps them to
  order,    \* Tracker.order
  polled,   \* the rows ever polled, the longest ago first; the place of one
            \*   that was evicted means nothing
  todo,     \* what Poll has still to ask about
  quiet,    \* history: time since a row began or progress was reported, capped
  told      \* history: rows whose divergence was published

vars == <<known, row, order, polled, todo, quiet, told>>

Never == -1
Row == [wallet : {""} \cup WalletStatuses,
        arcade : {"", "unknown", "not_found", "rejected"} \cup Settled \cup Progress,
        terminal : BOOLEAN, diverged : BOOLEAN,
        rejected : Never..(RejectedGrace + 1),   \* time since rejectedAt
        age : 0..(NotFoundGrace + 1)]            \* time since created

NewRow(wallet) == [wallet |-> wallet, arcade |-> "", terminal |-> FALSE,
                   diverged |-> FALSE, rejected |-> Never, age |-> 0]

TrackerTypeOK ==
  /\ known \in SUBSET Txs
  /\ row \in [Txs -> Row]
  /\ order \in Seq(Txs) /\ polled \in Seq(Txs)
  /\ todo \in Seq(Txs) /\ Len(todo) <= PollLimit
  /\ quiet \in [Txs -> 0..(RejectedGrace + 1)]
  /\ told \in SUBSET Txs

Init ==
  /\ known = {} /\ order = <<>> /\ polled = <<>> /\ todo = <<>>
  /\ row = [x \in Txs |-> NewRow("")]
  /\ quiet = [x \in Txs |-> 0] /\ told = {}

------------------------------------------------------------------------------
\* divergence: do the wallet and the network contradict each other?
Divergence(r) ==
  \/ r.arcade = "double_spend"
  \/ r.arcade = "rejected" /\ r.rejected > RejectedGrace /\ r.wallet = "completed"
  \/ r.wallet = "failed" /\ r.arcade = "mined"

\* A new row was never polled, whatever one of the same transaction that was
\* evicted had been.
Unpolled(x) == polled' = RemoveFirst(polled, x)

\* Note of a transaction on record: its wallet status, when there is one.
NoteAgain(x, wallet) ==
  /\ x \in known
  /\ row' = [row EXCEPT ![x].wallet = IF wallet = "" THEN @ ELSE wallet]
  /\ UNCHANGED <<known, order, polled, todo, quiet, told>>

\* Mutant: the oldest rows leave the order and stay in the map.
NoteNewKeeping(x, wallet) ==
  LET all == Append(order, x)
      over == IF Len(all) > MaxRows THEN Len(all) - MaxRows ELSE 0 IN
  /\ x \notin known
  /\ order' = SubSeq(all, over + 1, Len(all))
  /\ known' = known \cup {x}
  /\ row' = [row EXCEPT ![x] = NewRow(wallet)]
  /\ quiet' = [quiet EXCEPT ![x] = 0]
  /\ Unpolled(x)
  /\ UNCHANGED <<todo, told>>

\* Note of a new one: it takes the place of the oldest rows.
NoteNew(x, wallet) ==
  LET all == Append(order, x)
      over == IF Len(all) > MaxRows THEN Len(all) - MaxRows ELSE 0
      gone == {all[i] : i \in 1..over} IN
  /\ x \notin known
  /\ order' = SubSeq(all, over + 1, Len(all))
  /\ known' = (known \cup {x}) \ gone
  /\ row' = [y \in Txs |-> IF y = x THEN NewRow(wallet)
                           ELSE IF y \in gone THEN NewRow("") ELSE row[y]]
  /\ quiet' = [quiet EXCEPT ![x] = 0]
  /\ Unpolled(x) /\ told' = told \ gone
  /\ UNCHANGED todo

\* SetWalletStatus, in the sweep that precedes Poll.
SetWalletStatus(x, wallet) ==
  LET old == IF x \in known THEN row[x] ELSE NewRow("")
      new == [old EXCEPT !.wallet = wallet] IN
  /\ todo = <<>>
  /\ known' = known \cup {x}
  /\ order' = IF x \in known THEN order ELSE Append(order, x)
  /\ row' = [row EXCEPT ![x] = [new EXCEPT !.diverged = @ \/ Divergence(new)]]
  /\ quiet' = IF x \in known THEN quiet ELSE [quiet EXCEPT ![x] = 0]
  /\ IF x \in known THEN UNCHANGED polled ELSE Unpolled(x)
  /\ UNCHANGED <<todo, told>>

------------------------------------------------------------------------------
(* Poll *)

\* When a row was last polled, as a rank: never polled comes first.
Rank(x) == IF x \in Range(polled) THEN CHOOSE i \in DOMAIN polled : polled[i] = x ELSE 0

Candidates == {x \in known : ~row[x].terminal}

\* due: the candidates polled longest ago, oldest first, the limit at most.
Due(s) ==
  LET listed == Range(s) IN
  /\ listed \subseteq Candidates /\ IsInjective(s)
  /\ Len(s) = PollLimit \/ (Len(s) < PollLimit /\ listed = Candidates)
  /\ \A i, j \in DOMAIN s : i < j => Rank(s[i]) <= Rank(s[j])
  /\ \A x \in listed, y \in Candidates \ listed : Rank(x) <= Rank(y)

StartPoll ==
  /\ todo = <<>> /\ Candidates # {}
  /\ \E n \in 1..PollLimit : \E s \in [1..n -> Candidates] : Due(s) /\ todo' = s
  /\ UNCHANGED <<known, row, order, polled, quiet, told>>

\* Every answer, and every failure, is a poll of the row.
Touch(x) == polled' = Append(RemoveFirst(polled, x), x)

\* Mutant: progress does not clear a rejection.
UpdatedStillRejected(r, status) ==
  LET verdict == status = "not_found" /\ r.age > NotFoundGrace
      frozen == status = "rejected" /\ r.rejected > RejectedGrace IN
  [r EXCEPT !.arcade = IF verdict THEN "unknown" ELSE status,
            !.terminal = @ \/ status \in Settled \/ verdict \/ frozen,
            !.rejected = IF status = "rejected" /\ @ = Never THEN 0 ELSE @]

\* apply, but for the divergence.
Updated(r, status) ==
  LET verdict == status = "not_found" /\ r.age > NotFoundGrace
      frozen == status = "rejected" /\ r.rejected > RejectedGrace IN
  [r EXCEPT !.arcade = IF verdict THEN "unknown" ELSE status,
            !.terminal = @ \/ status \in Settled \/ verdict \/ frozen,
            !.rejected = IF status \in Progress THEN Never
                         ELSE IF status = "rejected" /\ @ = Never THEN 0 ELSE @]

\* Mutant: once diverged, always diverged.
AnswerSticky(x, status) ==
  LET new == Updated(row[x], status) IN
  /\ x \in known /\ status # "error"
  /\ row' = [row EXCEPT ![x] = [new EXCEPT !.diverged = @ \/ Divergence(new)]]
  /\ told' = IF Divergence(new) /\ ~row[x].diverged THEN told \cup {x} ELSE told
  /\ quiet' = [quiet EXCEPT ![x] = IF status \in Progress THEN 0 ELSE @]
  /\ Touch(x)

\* apply: record the answer, and publish a divergence the row did not have.
Answer(x, status) ==
  LET new == Updated(row[x], status) IN
  /\ x \in known /\ status # "error"
  /\ row' = [row EXCEPT ![x] = [new EXCEPT !.diverged = Divergence(new)]]
  /\ told' = IF Divergence(new) /\ ~row[x].diverged THEN told \cup {x} ELSE told
  /\ quiet' = [quiet EXCEPT ![x] = IF status \in Progress THEN 0 ELSE @]
  /\ Touch(x)

\* Mutant: a failed request does not count as a poll.
NoAnswerUntouched(x, status) ==
  /\ x \notin known \/ status = "error"
  /\ UNCHANGED <<polled, row, told, quiet>>

\* No answer is not information; a row evicted meanwhile is left alone.
NoAnswer(x, status) ==
  /\ x \notin known \/ status = "error"
  /\ IF x \in known THEN Touch(x) ELSE UNCHANGED polled
  /\ UNCHANGED <<row, told, quiet>>

\* One row of the pass, which ends with the list or with its 20 seconds.
Ask(status) ==
  /\ todo # <<>>
  /\ Answer(Head(todo), status) \/ NoAnswer(Head(todo), status)
  /\ todo' \in {Tail(todo), <<>>}
  /\ UNCHANGED <<known, order>>

Older(time, limit) == IF time = Never \/ time > limit THEN time ELSE time + 1

Tick ==
  /\ row' = [x \in Txs |-> IF x \notin known THEN row[x] ELSE
               [row[x] EXCEPT !.rejected = Older(@, RejectedGrace),
                              !.age = Older(@, NotFoundGrace)]]
  /\ quiet' = [x \in Txs |-> IF x \in known THEN Older(quiet[x], RejectedGrace)
                             ELSE quiet[x]]
  /\ UNCHANGED <<known, order, polled, todo, told>>

Poll == StartPoll \/ \E status \in Answers : Ask(status)

Next ==
  \/ \E x \in Txs, wallet \in WalletStatuses \cup {""} :
       NoteAgain(x, wallet) \/ NoteNew(x, wallet)
  \/ \E x \in Txs, wallet \in WalletStatuses : SetWalletStatus(x, wallet)
  \/ Poll
  \/ Tick

Spec == Init /\ [][Next]_vars

\* Service.Run goes round for as long as the process lives.
FairSpec == Spec /\ WF_vars(Poll)

------------------------------------------------------------------------------
(* Properties *)

\* The map and the order of its keys never part: a row outside the order could
\* neither be shown nor evicted, a key without a row would take a place
\* (tracker.go:72-81, 92-97).
OrderIsRows == Range(order) = known /\ IsInjective(order)

\* The rows and their order are well formed (tracker.go:40-82).
TrackerInv == TrackerTypeOK /\ OrderIsRows

\* "Left alone long enough that no peer superseded it" (tracker.go:227-229): a
\* row frozen as rejected has heard of no progress for the grace period, however
\* rejections, 404s and progress took turns.
RejectionLeftAlone ==
  \A x \in known : row[x].terminal /\ row[x].arcade = "rejected" =>
                     quiet[x] > RejectedGrace

\* "A recovered transaction must not be left marked as diverged"
\* (tracker_test.go:68), also when the sweep had marked it.
RecoveredNotDiverged ==
  \A x \in known : row[x].arcade \in Progress => ~row[x].diverged

\* A row that is neither settled nor evicted is asked about again, although a
\* pass may end early, answers may fail and rows keep arriving.
EveryRowAsked ==
  \A x \in Txs :
    x \in Candidates ~> x \notin Candidates \/ (polled # <<>> /\ Last(polled) = x)

(* What the documentation says and the code does not do. *)

\* "A genuine divergence and must be announced exactly once"
\* (tracker_test.go:72-73).
DivergenceAnnounced == \A x \in known : row[x].diverged => x \in told
==============================================================================
