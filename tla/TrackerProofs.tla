---------------------------- MODULE TrackerProofs ----------------------------
(***************************************************************************)
(* Proofs about Tracker, for any transactions, limits and graces: what its *)
(* verdicts claim, and that its map and the order of its keys never part.  *)
(***************************************************************************)
EXTENDS Tracker, SequenceTheorems, WellFoundedInduction, TLAPS

RowsTypeOK ==
  /\ known \in SUBSET Txs
  /\ row \in [Txs -> Row]
  /\ quiet \in [Txs -> 0..(RejectedGrace + 1)]

\* A pass asks about rows that are not settled, each of them once.
TodoInv ==
  /\ todo \in Seq(Txs) /\ IsInjective(todo)
  /\ \A i \in DOMAIN todo : todo[i] \in known => ~row[todo[i]].terminal

\* A rejection is no older than the quiet it is part of.
RejectedQuietly == \A x \in known : row[x].rejected <= quiet[x]

VerdictInv ==
  /\ RowsTypeOK /\ TodoInv /\ RejectedQuietly
  /\ RejectionLeftAlone /\ RecoveredNotDiverged

\* The graces are numbers.
LEMMA Graces == RejectedGrace \in Nat /\ NotFoundGrace \in Nat
BY TrackerAssumption

\* The least times are times.
LEMMA Bounds ==
  /\ 0 \in 0..(NotFoundGrace + 1) /\ 0 \in 0..(RejectedGrace + 1)
  /\ 0 \in Never..(RejectedGrace + 1) /\ Never \in Never..(RejectedGrace + 1)
BY Graces DEF Never

\* A new row is a row (tracker.go:71-76).
LEMMA NewRowIsRow == ASSUME NEW w \in {""} \cup WalletStatuses PROVE NewRow(w) \in Row
<1> DEFINE arcades == {"", "unknown", "not_found", "rejected"} \cup Settled \cup Progress
<1>2. "" \in arcades
  OBVIOUS
<1> HIDE DEF arcades
<1> QED BY <1>2, Bounds DEF NewRow, Row, arcades

\* An answer makes a row of a row (tracker.go:195-236).
LEMMA UpdatedIsRow ==
  ASSUME NEW r \in Row, NEW status \in Answers, status # "error"
  PROVE  Updated(r, status) \in Row
<1>1. status \in {"not_found", "rejected"} \cup Settled \cup Progress
  BY TrackerAssumption
<1> DEFINE verdict == status = "not_found" /\ r.age > NotFoundGrace
           frozen == status = "rejected" /\ r.rejected > RejectedGrace
           arcade == IF verdict THEN "unknown" ELSE status
           terminal == r.terminal \/ status \in Settled \/ verdict \/ frozen
           rejected == IF status \in Progress THEN Never
                       ELSE IF status = "rejected" /\ r.rejected = Never THEN 0 ELSE r.rejected
<1>3. arcade \in {"", "unknown", "not_found", "rejected"} \cup Settled \cup Progress
  BY <1>1
<1>4. rejected \in Never..(RejectedGrace + 1)
  BY Bounds DEF Row
<1>5. terminal \in BOOLEAN
  OBVIOUS
<1>6. Updated(r, status) = [r EXCEPT !.arcade = arcade, !.terminal = terminal, !.rejected = rejected]
  BY DEF Updated
<1> HIDE DEF arcade, terminal, rejected, verdict, frozen
<1> QED BY <1>3, <1>4, <1>5, <1>6 DEF Row

\* A rejection that never was is older than no quiet.
LEMMA NeverIsLow == Never \in Int /\ Never <= 0
BY DEF Never

\* Times can be compared.
LEMMA RejectedIsInt == ASSUME NEW r \in Row PROVE r.rejected \in Int
<1>1. r.rejected \in Never..(RejectedGrace + 1)
  BY DEF Row
<1> QED BY <1>1, Graces, NeverIsLow

\* What a new row says: nothing yet (tracker.go:71-76).
LEMMA NewRowFields ==
  ASSUME NEW w
  PROVE  /\ NewRow(w).terminal = FALSE /\ NewRow(w).diverged = FALSE
         /\ NewRow(w).rejected = Never /\ NewRow(w).arcade = ""
<1>1. NewRow(w).arcade = ""
  BY DEF NewRow
<1>2. NewRow(w).terminal = FALSE
  BY DEF NewRow
<1>3. NewRow(w).diverged = FALSE
  BY DEF NewRow
<1>4. NewRow(w).rejected = Never
  BY DEF NewRow
<1> QED BY <1>1, <1>2, <1>3, <1>4

\* A step that disturbs one row has only that row to answer for.
LEMMA OneRowKeeps ==
  ASSUME VerdictInv, NEW x \in Txs, RowsTypeOK',
         \A y \in known' : y # x => y \in known /\ row'[y] = row[y] /\ quiet'[y] = quiet[y],
         row'[x].rejected <= quiet'[x],
         row'[x].terminal /\ row'[x].arcade = "rejected" => quiet'[x] > RejectedGrace,
         row'[x].arcade \in Progress => ~row'[x].diverged
  PROVE  RejectedQuietly' /\ RejectionLeftAlone' /\ RecoveredNotDiverged'
<1>1. RejectedQuietly'
  BY DEF VerdictInv, RejectedQuietly
<1>2. RejectionLeftAlone'
  BY DEF VerdictInv, RejectionLeftAlone
<1>3. RecoveredNotDiverged'
  BY DEF VerdictInv, RecoveredNotDiverged
<1> QED BY <1>1, <1>2, <1>3

\* And what remains to be asked about is as it was, when the row is not settled.
LEMMA OneRowTodo ==
  ASSUME TodoInv, NEW x \in Txs, todo' = todo,
         \A y \in known' : y # x => y \in known /\ row'[y] = row[y],
         row'[x].terminal => x \in known /\ row[x].terminal
  PROVE  TodoInv'
<1>1. todo' \in Seq(Txs) /\ IsInjective(todo') /\ DOMAIN todo' = DOMAIN todo
  BY DEF TodoInv
<1>2. ASSUME NEW i \in DOMAIN todo, todo[i] \in known' PROVE ~row'[todo[i]].terminal
  BY <1>2 DEF TodoInv
<1> QED BY <1>1, <1>2 DEF TodoInv

\* No row has a verdict at first (tracker.go:51-56).
LEMMA VerdictInit == Init => VerdictInv
<1> SUFFICES ASSUME Init PROVE VerdictInv
  OBVIOUS
<1>1. RowsTypeOK
  <2>1. NewRow("") \in Row
    BY NewRowIsRow
  <2> QED BY <2>1, Bounds DEF Init, RowsTypeOK
<1>2. TodoInv
  <2>1. todo = <<>>
    BY DEF Init
  <2>2. <<>> \in Seq(Txs) /\ DOMAIN <<>> = {}
    OBVIOUS
  <2> HIDE DEF Init
  <2> QED BY <2>1, <2>2 DEF TodoInv, IsInjective
<1>3. RejectedQuietly /\ RejectionLeftAlone /\ RecoveredNotDiverged
  BY DEF Init, RejectedQuietly, RejectionLeftAlone, RecoveredNotDiverged
<1> QED BY <1>1, <1>2, <1>3 DEF VerdictInv

\* A note of a transaction on record leaves the verdict alone (tracker.go:59-70).
LEMMA NoteAgainKeeps ==
  ASSUME VerdictInv, NEW x \in Txs, NEW w \in WalletStatuses \cup {""}, NoteAgain(x, w)
  PROVE  VerdictInv'
<1> USE DEF VerdictInv
<1> DEFINE new == [row[x] EXCEPT !.wallet = IF w = "" THEN @ ELSE w]
<1>1. new \in Row /\ row[x] \in Row
  BY DEF RowsTypeOK, Row
<1>2. /\ new.arcade = row[x].arcade /\ new.terminal = row[x].terminal
      /\ new.diverged = row[x].diverged /\ new.rejected = row[x].rejected
  BY <1>1 DEF Row
<1>3. row' = [row EXCEPT ![x] = new] /\ UNCHANGED <<known, todo, quiet>>
  BY DEF NoteAgain, RowsTypeOK
<1> HIDE DEF new
<1>4. \A y \in Txs : /\ row'[y].arcade = row[y].arcade /\ row'[y].terminal = row[y].terminal
                     /\ row'[y].diverged = row[y].diverged /\ row'[y].rejected = row[y].rejected
  BY <1>2, <1>3 DEF RowsTypeOK
<1>5. RowsTypeOK'
  BY <1>1, <1>3 DEF RowsTypeOK
<1>6. TodoInv'
  BY <1>3, <1>4 DEF TodoInv, RowsTypeOK
<1>7. RejectedQuietly' /\ RejectionLeftAlone' /\ RecoveredNotDiverged'
  BY <1>3, <1>4 DEF RejectedQuietly, RejectionLeftAlone, RecoveredNotDiverged, RowsTypeOK
<1> QED BY <1>5, <1>6, <1>7

\* A row begins afresh, whatever was evicted for it (tracker.go:71-82).
LEMMA NoteNewKeeps ==
  ASSUME VerdictInv, NEW x \in Txs, NEW w \in WalletStatuses \cup {""}, NoteNew(x, w)
  PROVE  VerdictInv'
<1> USE DEF VerdictInv
<1>1. PICK gone : /\ known' = (known \cup {x}) \ gone
                  /\ row' = [y \in Txs |-> IF y = x THEN NewRow(w)
                                           ELSE IF y \in gone THEN NewRow("") ELSE row[y]]
  BY DEF NoteNew
<1>2. /\ quiet' = [quiet EXCEPT ![x] = 0] /\ todo' = todo
  BY DEF NoteNew
<1>3. NewRow(w) \in Row /\ NewRow("") \in Row
  BY NewRowIsRow
<1>4. RowsTypeOK'
  BY <1>1, <1>2, <1>3, Bounds DEF RowsTypeOK
<1>5. \A y \in known' : y # x => y \in known /\ row'[y] = row[y] /\ quiet'[y] = quiet[y]
  BY <1>1, <1>2 DEF RowsTypeOK
<1>6. /\ row'[x] = NewRow(w) /\ quiet'[x] = 0
  BY <1>1, <1>2 DEF RowsTypeOK
<1>7. /\ row'[x].terminal = FALSE /\ row'[x].arcade = ""
      /\ row'[x].diverged = FALSE /\ row'[x].rejected = Never
  BY <1>6, NewRowFields
<1>8. TodoInv'
  BY <1>2, <1>5, <1>7, OneRowTodo
<1>9. RejectedQuietly' /\ RejectionLeftAlone' /\ RecoveredNotDiverged'
  <2>1. row'[x].rejected <= quiet'[x]
    BY Zenon, <1>6, <1>7, NeverIsLow
  <2>2. row'[x].arcade \notin Progress /\ row'[x].arcade # "rejected"
    BY <1>7 DEF Progress
  <2> QED BY <1>4, <1>5, <2>1, <2>2, OneRowKeeps
<1> QED BY <1>4, <1>8, <1>9

\* The sweep may find a divergence, and none in a transaction that progresses
\* (tracker.go:84-104).
LEMMA SetWalletStatusKeeps ==
  ASSUME VerdictInv, NEW x \in Txs, NEW w \in WalletStatuses, SetWalletStatus(x, w)
  PROVE  VerdictInv'
<1> USE DEF VerdictInv
<1> DEFINE old == IF x \in known THEN row[x] ELSE NewRow("")
           swept == [old EXCEPT !.wallet = w]
           div == swept.diverged \/ Divergence(swept)
           new == [swept EXCEPT !.diverged = div]
<1>1. old \in Row
  BY NewRowIsRow DEF RowsTypeOK
<1>2. swept \in Row
  <2> HIDE DEF old
  <2> QED BY <1>1 DEF Row
<1>3. /\ swept.arcade = old.arcade /\ swept.terminal = old.terminal
      /\ swept.rejected = old.rejected /\ swept.diverged = old.diverged
  <2> HIDE DEF old
  <2> QED BY <1>1 DEF Row
<1>4. new \in Row
  <2>1. div \in BOOLEAN
    OBVIOUS
  <2> HIDE DEF swept, div
  <2> QED BY <1>2, <2>1 DEF Row
<1>5. /\ new.arcade = old.arcade /\ new.terminal = old.terminal
      /\ new.rejected = old.rejected /\ new.diverged = div
  <2> HIDE DEF swept, div, old
  <2> QED BY <1>2, <1>3 DEF Row
<1>6. /\ known' = known \cup {x} /\ todo' = todo /\ todo = <<>>
      /\ row' = [row EXCEPT ![x] = new]
      /\ quiet' = IF x \in known THEN quiet ELSE [quiet EXCEPT ![x] = 0]
  BY DEF SetWalletStatus
<1>7. ~new.diverged \/ new.arcade \notin Progress
  <2> SUFFICES ASSUME new.arcade \in Progress PROVE ~div
    BY <1>5
  <2>1. swept.arcade = "seen"
    BY <1>3, <1>5 DEF Progress
  <2>2. ~Divergence(swept)
    <3> HIDE DEF swept
    <3> QED BY <2>1 DEF Divergence
  <2>3. old.diverged = FALSE
    <3>1. CASE x \in known
      <4>1. row[x].arcade \in Progress
        BY <3>1, <1>5
      <4> QED BY <4>1, <3>1, <1>1 DEF RecoveredNotDiverged, Row
    <3>2. CASE x \notin known
      BY <3>2, NewRowFields
    <3> QED BY <3>1, <3>2
  <2> HIDE DEF swept, old
  <2> QED BY <2>2, <2>3, <1>3
<1> HIDE DEF new, swept, div, old
<1>8. RowsTypeOK'
  BY <1>4, <1>6, Bounds DEF RowsTypeOK
<1>9. /\ \A y \in known' : y # x => y \in known /\ row'[y] = row[y] /\ quiet'[y] = quiet[y]
      /\ row'[x] = new
  BY <1>6 DEF RowsTypeOK
<1>10. TodoInv'
  BY <1>6 DEF TodoInv
<1>11. CASE x \in known
  <2>1. old = row[x] /\ quiet'[x] = quiet[x]
    BY <1>6, <1>11 DEF old
  <2>2. row'[x].rejected <= quiet'[x]
    BY <2>1, <1>5, <1>9, <1>11 DEF RejectedQuietly
  <2>3. row'[x].terminal /\ row'[x].arcade = "rejected" => quiet'[x] > RejectedGrace
    BY <2>1, <1>5, <1>9, <1>11 DEF RejectionLeftAlone
  <2> QED BY <1>7, <1>8, <1>9, <1>10, <2>2, <2>3, OneRowKeeps
<1>12. CASE x \notin known
  <2>1. old = NewRow("") /\ quiet'[x] = 0
    BY <1>6, <1>12 DEF old, RowsTypeOK
  <2>2. /\ row'[x].rejected <= quiet'[x]
        /\ row'[x].arcade # "rejected"
    BY Zenon, <2>1, <1>5, <1>9, NewRowFields, NeverIsLow
  <2> QED BY <1>7, <1>8, <1>9, <1>10, <2>2, OneRowKeeps
<1> QED BY <1>11, <1>12

\* A pass asks about candidates, each once (tracker.go:133-160).
LEMMA StartPollKeeps ==
  ASSUME VerdictInv, StartPoll
  PROVE  VerdictInv'
<1> USE DEF VerdictInv
<1>0. PICK n \in 1..PollLimit : \E s \in [1..n -> Candidates] : Due(s) /\ todo' = s
  BY DEF StartPoll
<1>1. PICK s \in [1..n -> Candidates] : Due(s) /\ todo' = s
  BY <1>0
<1>2. UNCHANGED <<known, row, quiet>>
  BY DEF StartPoll
<1>3. Candidates \subseteq Txs /\ \A y \in Candidates : ~row[y].terminal
  BY DEF Candidates, RowsTypeOK
<1>4. todo' \in Seq(Txs) /\ DOMAIN todo' = 1..n /\ \A i \in 1..n : todo'[i] \in Candidates
  BY <1>1, <1>3
<1>5. IsInjective(todo')
  BY <1>1 DEF Due
<1>6. TodoInv'
  BY <1>2, <1>3, <1>4, <1>5 DEF TodoInv
<1>7. RowsTypeOK'
  BY <1>2 DEF RowsTypeOK
<1>8. RejectedQuietly' /\ RejectionLeftAlone' /\ RecoveredNotDiverged'
  BY <1>2 DEF RejectedQuietly, RejectionLeftAlone, RecoveredNotDiverged
<1> QED BY <1>6, <1>7, <1>8

\* What an answer does to a row (tracker.go:202-236).
LEMMA UpdatedFields ==
  ASSUME NEW r \in Row, NEW status \in Answers, status # "error"
  PROVE  /\ Updated(r, status).rejected \in {Never, 0, r.rejected}
         /\ Updated(r, status).arcade \in Progress => status \in Progress
         /\ Updated(r, status).arcade = "rejected" => status = "rejected"
         /\ Updated(r, status).terminal /\ ~r.terminal /\ status = "rejected"
              => r.rejected > RejectedGrace
<1> DEFINE verdict == status = "not_found" /\ r.age > NotFoundGrace
           frozen == status = "rejected" /\ r.rejected > RejectedGrace
           arcade == IF verdict THEN "unknown" ELSE status
           terminal == r.terminal \/ status \in Settled \/ verdict \/ frozen
           rejected == IF status \in Progress THEN Never
                       ELSE IF status = "rejected" /\ r.rejected = Never THEN 0 ELSE r.rejected
<1>1. Updated(r, status) = [r EXCEPT !.arcade = arcade, !.terminal = terminal, !.rejected = rejected]
  BY DEF Updated
<1>2. rejected \in {Never, 0, r.rejected}
  OBVIOUS
<1>3. /\ arcade \in Progress => status \in Progress
      /\ arcade = "rejected" => status = "rejected"
  BY DEF Progress
<1>4. terminal /\ ~r.terminal /\ status = "rejected" => r.rejected > RejectedGrace
  BY DEF Settled
<1> HIDE DEF arcade, terminal, rejected, verdict, frozen
<1>5. /\ Updated(r, status).arcade = arcade /\ Updated(r, status).terminal = terminal
      /\ Updated(r, status).rejected = rejected
  BY <1>1 DEF Row
<1> QED BY <1>2, <1>3, <1>4, <1>5

\* An answer about a row that is not settled (tracker.go:195-255): it is frozen
\* as rejected only when its rejection, and so its quiet, is old enough.
LEMMA AnswerKeeps ==
  ASSUME VerdictInv, NEW x \in Txs, NEW status \in Answers, ~row[x].terminal,
         Answer(x, status), UNCHANGED known
  PROVE  /\ RowsTypeOK' /\ RejectedQuietly' /\ RejectionLeftAlone' /\ RecoveredNotDiverged'
         /\ \A y \in Txs : y # x => row'[y] = row[y]
<1> USE DEF VerdictInv
<1> DEFINE upd == Updated(row[x], status)
           new == [upd EXCEPT !.diverged = Divergence(upd)]
<1>1. x \in known /\ status # "error" /\ row[x] \in Row
  BY DEF Answer, RowsTypeOK
<1>2. upd \in Row
  BY <1>1, UpdatedIsRow
<1>3. /\ row' = [row EXCEPT ![x] = new]
      /\ quiet' = [quiet EXCEPT ![x] = IF status \in Progress THEN 0 ELSE @]
  BY DEF Answer
<1>4. /\ upd.rejected \in {Never, 0, row[x].rejected}
      /\ upd.arcade \in Progress => status \in Progress
      /\ upd.arcade = "rejected" => status = "rejected"
      /\ upd.terminal /\ ~row[x].terminal /\ status = "rejected"
           => row[x].rejected > RejectedGrace
  BY <1>1, UpdatedFields
<1>5. Divergence(upd) \in BOOLEAN
  BY DEF Divergence
<1>6. upd.arcade \in Progress => ~Divergence(upd)
  BY DEF Divergence, Progress
<1> HIDE DEF upd
<1>7. /\ new \in Row /\ new.arcade = upd.arcade /\ new.terminal = upd.terminal
      /\ new.rejected = upd.rejected /\ new.diverged = Divergence(upd)
  BY <1>2, <1>5 DEF Row
<1> HIDE DEF new
<1>8. /\ row'[x] = new /\ \A y \in Txs : y # x => row'[y] = row[y] /\ quiet'[y] = quiet[y]
      /\ quiet'[x] = IF status \in Progress THEN 0 ELSE quiet[x]
  BY <1>3 DEF RowsTypeOK
<1>9. RowsTypeOK'
  BY <1>3, <1>7, Bounds DEF RowsTypeOK
<1>10. \A y \in known' : y # x => y \in known /\ row'[y] = row[y] /\ quiet'[y] = quiet[y]
  BY <1>8 DEF RowsTypeOK
<1>11. RejectedQuietly' /\ RejectionLeftAlone' /\ RecoveredNotDiverged'
  <2>1. quiet[x] \in Nat /\ row[x].rejected <= quiet[x] /\ RejectedGrace \in Nat
    BY <1>1, Graces DEF RowsTypeOK, RejectedQuietly
  <2>2. CASE status \in Progress
    <3>1. upd.rejected = Never
      <4>1. row[x].terminal \in BOOLEAN
        BY <1>1 DEF Row
      <4> QED BY <2>2, <1>1 DEF upd, Updated, Row
    <3>2. row'[x].rejected <= quiet'[x]
      BY Zenon, <3>1, <2>2, <1>7, <1>8, NeverIsLow
    <3>3. row'[x].arcade # "rejected"
      BY <2>2, <1>4, <1>7, <1>8 DEF Progress
    <3>4. row'[x].arcade \in Progress => ~row'[x].diverged
      BY <1>6, <1>7, <1>8
    <3> QED BY <3>2, <3>3, <3>4, <1>9, <1>10, OneRowKeeps
  <2>3. CASE status \notin Progress
    <3>1. row'[x].rejected <= quiet'[x]
      BY <2>1, <2>3, <1>4, <1>7, <1>8 DEF Never
    <3>2. row'[x].terminal /\ row'[x].arcade = "rejected" => quiet'[x] > RejectedGrace
      <4>1. row[x].rejected \in Int
        BY <1>1, RejectedIsInt
      <4> QED BY <4>1, <2>1, <2>3, <1>4, <1>7, <1>8
    <3>3. row'[x].arcade \notin Progress
      BY Zenon, <2>3, <1>4, <1>7, <1>8
    <3> QED BY <3>1, <3>2, <3>3, <1>9, <1>10, OneRowKeeps
  <2> QED BY <2>2, <2>3
<1> QED BY <1>8, <1>9, <1>11

\* What is left of a list without its first element, or cut short.
LEMMA RestOfTodo ==
  ASSUME TodoInv, todo # <<>>, NEW rest \in {Tail(todo), <<>>}
  PROVE  /\ Head(todo) \in Txs
         /\ Head(todo) \in known => ~row[Head(todo)].terminal
         /\ rest \in Seq(Txs) /\ IsInjective(rest)
         /\ \A i \in DOMAIN rest : \E j \in DOMAIN todo : j # 1 /\ rest[i] = todo[j]
         /\ \A i \in DOMAIN rest : rest[i] # Head(todo)
<1> USE DEF TodoInv
<1>1. todo \in Seq(Txs) /\ Len(todo) \in Nat \ {0} /\ DOMAIN todo = 1..Len(todo)
  OBVIOUS
<1>2. Head(todo) = todo[1] /\ 1 \in DOMAIN todo /\ todo[1] \in Txs
  BY <1>1
<1>3. CASE rest = <<>>
  <2>1. <<>> \in Seq(Txs) /\ DOMAIN <<>> = {}
    OBVIOUS
  <2> QED BY <1>2, <1>3, <2>1 DEF IsInjective
<1>4. CASE rest = Tail(todo)
  <2>1. /\ rest \in Seq(Txs) /\ DOMAIN rest = 1..(Len(todo) - 1)
        /\ \A i \in 1..(Len(todo) - 1) : rest[i] = todo[i + 1]
    BY <1>1, <1>4
  <2>2. \A i \in DOMAIN rest : i + 1 \in DOMAIN todo /\ i + 1 # 1
    BY <1>1, <2>1
  <2>3. \A a, b \in DOMAIN todo : todo[a] = todo[b] => a = b
    BY DEF IsInjective
  <2>4. ASSUME NEW a \in DOMAIN rest, NEW b \in DOMAIN rest, rest[a] = rest[b] PROVE a = b
    <3>1. a \in Int /\ b \in Int /\ rest[a] = todo[a + 1] /\ rest[b] = todo[b + 1]
      BY <1>1, <2>1
    <3>2. a + 1 = b + 1
      BY <3>1, <2>2, <2>3, <2>4
    <3> QED BY <3>1, <3>2
  <2>5. IsInjective(rest)
    BY <2>4 DEF IsInjective
  <2>6. ASSUME NEW i \in DOMAIN rest PROVE rest[i] # Head(todo)
    BY <1>2, <2>1, <2>2, <2>3
  <2>7. \A i \in DOMAIN rest : rest[i] = todo[i + 1]
    BY <2>1
  <2>8. \A i \in DOMAIN rest : \E j \in DOMAIN todo : j # 1 /\ rest[i] = todo[j]
    BY <2>2, <2>7
  <2> QED BY <1>2, <2>1, <2>5, <2>6, <2>8
<1> QED BY <1>3, <1>4

\* Asking about one row of a pass (tracker.go:162-255).
LEMMA AskKeeps ==
  ASSUME VerdictInv, NEW status \in Answers, Ask(status)
  PROVE  VerdictInv'
<1> DEFINE x == Head(todo)
<1>1. todo # <<>> /\ todo' \in {Tail(todo), <<>>} /\ known' = known
  BY DEF Ask
<1>2. /\ x \in Txs /\ (x \in known => ~row[x].terminal)
      /\ todo' \in Seq(Txs) /\ IsInjective(todo')
      /\ \A i \in DOMAIN todo' : \E j \in DOMAIN todo : j # 1 /\ todo'[i] = todo[j]
      /\ \A i \in DOMAIN todo' : todo'[i] # x
  BY <1>1, RestOfTodo DEF VerdictInv
<1>3. Answer(x, status) \/ NoAnswer(x, status)
  BY DEF Ask
<1> HIDE DEF x
<1>4. CASE Answer(x, status)
  <2>1. x \in known
    BY <1>4 DEF Answer
  <2>2. /\ RowsTypeOK' /\ RejectedQuietly' /\ RejectionLeftAlone' /\ RecoveredNotDiverged'
        /\ \A y \in Txs : y # x => row'[y] = row[y]
    BY <1>1, <1>2, <1>4, <2>1, AnswerKeeps
  <2>3. ASSUME NEW i \in DOMAIN todo', todo'[i] \in known' PROVE ~row'[todo'[i]].terminal
    <3>1. PICK j \in DOMAIN todo : todo'[i] = todo[j]
      BY <1>2
    <3>2. todo[j] \in known /\ todo[j] # x /\ todo[j] \in Txs
      BY <1>1, <1>2, <2>3, <3>1 DEF VerdictInv, RowsTypeOK
    <3>3. ~row[todo[j]].terminal
      BY <3>2 DEF VerdictInv, TodoInv
    <3> QED BY <2>2, <3>1, <3>2, <3>3
  <2>4. TodoInv'
    BY <1>2, <2>3 DEF TodoInv
  <2> QED BY <2>2, <2>4 DEF VerdictInv
<1>5. CASE NoAnswer(x, status)
  <2>1. row' = row /\ quiet' = quiet
    BY <1>5 DEF NoAnswer
  <2>2. TodoInv'
    <3>1. ASSUME NEW i \in DOMAIN todo', todo'[i] \in known' PROVE ~row'[todo'[i]].terminal
      BY <1>1, <1>2, <2>1, <3>1 DEF VerdictInv, TodoInv
    <3> QED BY <1>2, <3>1 DEF TodoInv
  <2>3. RowsTypeOK' /\ RejectedQuietly' /\ RejectionLeftAlone' /\ RecoveredNotDiverged'
    BY <1>1, <2>1 DEF VerdictInv, RowsTypeOK, RejectedQuietly, RejectionLeftAlone,
                      RecoveredNotDiverged
  <2> QED BY <2>2, <2>3 DEF VerdictInv
<1> QED BY <1>3, <1>4, <1>5

\* Time stays in its range.
LEMMA OlderInRange ==
  ASSUME NEW limit \in Nat, NEW t \in Never..(limit + 1)
  PROVE  /\ Older(t, limit) \in Never..(limit + 1)
         /\ t \in 0..(limit + 1) => Older(t, limit) \in 0..(limit + 1)
BY DEF Older, Never

\* Time ages a rejection and the quiet alike.
LEMMA TickKeeps ==
  ASSUME VerdictInv, Tick
  PROVE  VerdictInv'
<1> USE DEF VerdictInv
<1>1. /\ known' = known /\ todo' = todo
      /\ row' = [x \in Txs |-> IF x \notin known THEN row[x] ELSE
                   [row[x] EXCEPT !.rejected = Older(@, RejectedGrace),
                                  !.age = Older(@, NotFoundGrace)]]
      /\ quiet' = [x \in Txs |-> IF x \in known THEN Older(quiet[x], RejectedGrace)
                                 ELSE quiet[x]]
  BY DEF Tick
<1>2. ASSUME NEW r \in Row
      PROVE  LET n == [r EXCEPT !.rejected = Older(@, RejectedGrace),
                                !.age = Older(@, NotFoundGrace)]
             IN /\ n \in Row /\ n.arcade = r.arcade /\ n.terminal = r.terminal
                /\ n.diverged = r.diverged /\ n.rejected = Older(r.rejected, RejectedGrace)
  <2>1. r.rejected \in Never..(RejectedGrace + 1) /\ r.age \in 0..(NotFoundGrace + 1)
    BY DEF Row
  <2>2. r.age \in Never..(NotFoundGrace + 1)
    BY <2>1, Graces DEF Never
  <2>3. /\ Older(r.rejected, RejectedGrace) \in Never..(RejectedGrace + 1)
        /\ Older(r.age, NotFoundGrace) \in 0..(NotFoundGrace + 1)
    BY <2>1, <2>2, Graces, OlderInRange
  <2> QED BY <2>3 DEF Row
<1>3. \A x \in known : /\ row'[x] \in Row /\ row'[x].arcade = row[x].arcade
                        /\ row'[x].terminal = row[x].terminal
                        /\ row'[x].diverged = row[x].diverged
                        /\ row'[x].rejected = Older(row[x].rejected, RejectedGrace)
                        /\ quiet'[x] = Older(quiet[x], RejectedGrace)
  BY <1>1, <1>2 DEF RowsTypeOK
<1>4. RowsTypeOK'
  <2>1. ASSUME NEW t \in 0..(RejectedGrace + 1)
        PROVE  Older(t, RejectedGrace) \in 0..(RejectedGrace + 1)
    BY Graces DEF Older, Never
  <2>2. quiet' \in [Txs -> 0..(RejectedGrace + 1)]
    BY <1>1, <2>1 DEF RowsTypeOK
  <2>3. row' \in [Txs -> Row]
    BY <1>1, <1>2 DEF RowsTypeOK
  <2> QED BY <1>1, <2>2, <2>3 DEF RowsTypeOK
<1>5. TodoInv'
  BY <1>1, <1>3 DEF TodoInv
<1>6. RejectedQuietly'
  <2>1. ASSUME NEW a \in Int, NEW b \in 0..(RejectedGrace + 1), a <= b
        PROVE  Older(a, RejectedGrace) <= Older(b, RejectedGrace)
    BY <2>1, Graces DEF Older, Never
  <2>2. ASSUME NEW x \in known PROVE row'[x].rejected <= quiet'[x]
    <3>1. /\ row[x].rejected \in Int /\ quiet[x] \in 0..(RejectedGrace + 1)
          /\ row[x].rejected <= quiet[x]
      BY <2>2, RejectedIsInt DEF RowsTypeOK, RejectedQuietly
    <3> QED BY <1>3, <2>1, <2>2, <3>1
  <2> QED BY <1>1, <2>2 DEF RejectedQuietly
<1>7. RejectionLeftAlone'
  <2>1. ASSUME NEW x \in known, quiet[x] > RejectedGrace PROVE quiet'[x] > RejectedGrace
    <3>1. quiet[x] \in 0..(RejectedGrace + 1)
      BY <2>1 DEF RowsTypeOK
    <3>2. Older(quiet[x], RejectedGrace) > RejectedGrace
      BY <2>1, <3>1, Graces DEF Older
    <3> QED BY <1>3, <2>1, <3>2
  <2> QED BY <1>1, <1>3, <2>1 DEF RejectionLeftAlone
<1>8. RecoveredNotDiverged'
  BY <1>1, <1>3 DEF RecoveredNotDiverged
<1> QED BY <1>4, <1>5, <1>6, <1>7, <1>8

\* Every step keeps the verdicts sound.
LEMMA VerdictStep ==
  ASSUME VerdictInv, [Next]_vars
  PROVE  VerdictInv'
<1>1. ASSUME NEW x \in Txs, NEW w \in WalletStatuses \cup {""}, NoteAgain(x, w)
      PROVE  VerdictInv'
  BY <1>1, NoteAgainKeeps
<1>2. ASSUME NEW x \in Txs, NEW w \in WalletStatuses \cup {""}, NoteNew(x, w)
      PROVE  VerdictInv'
  BY <1>2, NoteNewKeeps
<1>3. ASSUME NEW x \in Txs, NEW w \in WalletStatuses, SetWalletStatus(x, w)
      PROVE  VerdictInv'
  BY <1>3, SetWalletStatusKeeps
<1>4. ASSUME Poll PROVE VerdictInv'
  BY <1>4, StartPollKeeps, AskKeeps DEF Poll
<1>5. ASSUME UNCHANGED vars PROVE VerdictInv'
  BY <1>5 DEF vars, VerdictInv, RowsTypeOK, TodoInv, RejectedQuietly, RejectionLeftAlone,
              RecoveredNotDiverged
<1> QED BY <1>1, <1>2, <1>3, <1>4, <1>5, TickKeeps DEF Next

\* Whatever arcade answers or fails to answer, and whatever is noted and evicted
\* meanwhile, verdicts are sound.
LEMMA VerdictAlways == Spec => []VerdictInv
BY VerdictInit, VerdictStep, PTL DEF Spec

\* A row frozen as rejected has been left alone for the grace period
\* (tracker.go:195-255), for any transactions, limits and graces.
THEOREM TrackerLeftAlone == Spec => []RejectionLeftAlone
<1>1. VerdictInv => RejectionLeftAlone
  BY DEF VerdictInv
<1> QED BY <1>1, VerdictAlways, PTL

\* A transaction that progresses is never left marked as diverged
\* (tracker.go:84-104, 195-255), whatever sweeps found of it before.
THEOREM TrackerRecovers == Spec => []RecoveredNotDiverged
<1>1. VerdictInv => RecoveredNotDiverged
  BY DEF VerdictInv
<1> QED BY <1>1, VerdictAlways, PTL

------------------------------------------------------------------------------
(* The rows and their order *)

\* Some place in a list is the first.
LEMMA LeastExists ==
  ASSUME NEW S \in SUBSET Nat, S # {}
  PROVE  \E m \in S : \A i \in S : m <= i
<1>1. PICK m \in S : \A i \in S : <<i, m>> \notin OpToRel(<, Nat)
  BY NatLessThanWellFounded, WFMin
<1>2. ASSUME NEW i \in S PROVE m <= i
  <2>1. i \in Nat /\ m \in Nat /\ ~(i < m)
    BY <1>1 DEF OpToRel
  <2> QED BY <2>1
<1> QED BY <1>2

\* A list without its first mention of e is a list.
LEMMA RemoveFirstType ==
  ASSUME NEW T, NEW s \in Seq(T), NEW e
  PROVE  RemoveFirst(s, e) \in Seq(T)
<1> DEFINE I == {i \in 1..Len(s) : s[i] = e}
<1>1. Len(s) \in Nat
  BY LenProperties
<1>2. CASE \E i \in 1..Len(s) : s[i] = e
  <2>1. I # {} /\ I \subseteq Nat
    BY <1>2
  <2>2. PICK k \in I : k = Min(I)
    <3> HIDE DEF I
    <3>1. \E m \in I : \A i \in I : m <= i
      BY <2>1, LeastExists
    <3> QED BY <3>1 DEF Min
  <2>3. RemoveFirst(s, e) = SubSeq(s, 1, k - 1) \o SubSeq(s, k + 1, Len(s))
    BY <1>2, <2>1, <2>2 DEF RemoveFirst, RemoveAt, SelectInSeq
  <2>4. SubSeq(s, 1, k - 1) \in Seq(T) /\ SubSeq(s, k + 1, Len(s)) \in Seq(T)
    <3>1. \A i \in 1..k - 1 : i \in 1..Len(s)
      BY <1>1
    <3>2. \A i \in k + 1..Len(s) : i \in 1..Len(s)
      BY <1>1
    <3>3. \A i \in 1..Len(s) : s[i] \in T
      BY ElementOfSeq
    <3>4. \A i \in 1..k - 1 : s[i] \in T
      BY <3>1, <3>3
    <3>5. \A i \in k + 1..Len(s) : s[i] \in T
      BY <3>2, <3>3
    <3> QED BY <1>1, <3>4, <3>5, SubSeqProperties
  <2> QED BY <2>3, <2>4, ConcatProperties
<1>3. CASE ~\E i \in 1..Len(s) : s[i] = e
  BY <1>3 DEF RemoveFirst
<1> QED BY <1>2, <1>3

\* A new key at the end of the order.
LEMMA OneKeyMore ==
  ASSUME NEW s \in Seq(Txs), IsInjective(s), NEW x \in Txs, x \notin Range(s)
  PROVE  LET t == Append(s, x) IN
         /\ t \in Seq(Txs) /\ Len(t) \in Nat /\ IsInjective(t) /\ Range(t) = Range(s) \cup {x}
<1> DEFINE t == Append(s, x)
           n == Len(s)
<1>1. t \in Seq(Txs) /\ Len(t) = n + 1 /\ n \in Nat /\ DOMAIN s = 1..n /\ DOMAIN t = 1..n + 1
      /\ t[n + 1] = x /\ \A i \in 1..n : t[i] = s[i]
  BY AppendProperties, LenProperties
<1> HIDE DEF t, n
<1>2. 1..n + 1 = 1..n \cup {n + 1} /\ n + 1 \notin 1..n
  BY <1>1
<1>3. \A i \in 1..n : t[i] # x
  BY <1>1 DEF Range
<1>4. IsInjective(t)
  BY <1>1, <1>2, <1>3 DEF IsInjective
<1>5. Range(t) = Range(s) \cup {x}
  BY <1>1, <1>2 DEF Range
<1> QED BY <1>1, <1>4, <1>5 DEF t

\* The oldest keys leave the order, and only they do.
LEMMA OldestLeave ==
  ASSUME NEW t \in Seq(Txs), IsInjective(t), NEW over \in 0..Len(t)
  PROVE  LET u == SubSeq(t, over + 1, Len(t)) IN
         /\ u \in Seq(Txs) /\ IsInjective(u)
         /\ Range(u) = Range(t) \ {t[i] : i \in 1..over}
<1> DEFINE u == SubSeq(t, over + 1, Len(t))
           n == Len(t)
<1>1. n \in Nat /\ over \in Nat /\ over <= n /\ DOMAIN t = 1..n
  BY LenProperties
<1>2. u \in Seq(Txs) /\ DOMAIN u = 1..n - over /\ \A i \in 1..n - over : u[i] = t[over + i]
  <2>1. \A i \in over + 1..n : t[i] \in Txs
    BY <1>1, ElementOfSeq
  <2>2. /\ u \in Seq(Txs) /\ Len(u) = IF over + 1 <= n THEN n - (over + 1) + 1 ELSE 0
        /\ \A i \in 1..n - (over + 1) + 1 : u[i] = t[over + 1 + i - 1]
    BY <1>1, <2>1, SubSeqProperties
  <2> HIDE DEF u, n
  <2>3. Len(u) = n - over /\ n - (over + 1) + 1 = n - over
    BY <1>1, <2>2
  <2>4. \A i \in 1..n - over : over + 1 + i - 1 = over + i
    BY <1>1
  <2> QED BY <2>2, <2>3, <2>4, LenProperties
<1> HIDE DEF u, n
<1>3. \A i \in 1..n - over : over + i \in 1..n /\ over + i \notin 1..over
  BY <1>1
<1>4. \A i \in 1..n : i \notin 1..over => i - over \in 1..n - over /\ over + (i - over) = i
  BY <1>1
<1>5. \A a, b \in 1..n : t[a] = t[b] => a = b
  BY <1>1 DEF IsInjective
<1>6. IsInjective(u)
  <2> SUFFICES ASSUME NEW a \in 1..n - over, NEW b \in 1..n - over, u[a] = u[b] PROVE a = b
    BY <1>2 DEF IsInjective
  <2>1. over + a = over + b
    BY <1>2, <1>3, <1>5
  <2> QED BY <1>1, <2>1
<1>7. ASSUME NEW y PROVE y \in Range(u) <=> y \in Range(t) /\ y \notin {t[i] : i \in 1..over}
  <2>1. ASSUME y \in Range(u) PROVE y \in Range(t) /\ y \notin {t[i] : i \in 1..over}
    <3>1. PICK i \in 1..n - over : y = t[over + i]
      BY <1>2, <2>1 DEF Range
    <3>2. \A j \in 1..over : j \in 1..n /\ j # over + i
      BY <1>1
    <3> QED BY <1>1, <1>3, <1>5, <3>1, <3>2 DEF Range
  <2>2. ASSUME y \in Range(t), y \notin {t[i] : i \in 1..over} PROVE y \in Range(u)
    <3>1. PICK i \in 1..n : y = t[i]
      BY <1>1, <2>2 DEF Range
    <3>2. i \notin 1..over
      BY <2>2, <3>1
    <3>3. i - over \in 1..n - over /\ u[i - over] = y
      BY <1>2, <1>4, <3>1, <3>2
    <3> QED BY <1>2, <3>3 DEF Range
  <2> QED BY <2>1, <2>2
<1>8. Range(u) = Range(t) \ {t[i] : i \in 1..over}
  BY <1>7
<1> QED BY <1>2, <1>6, <1>8 DEF u, n

RowsInv == VerdictInv /\ TrackerInv

LEMMA RowsInit == Init => RowsInv
<1> SUFFICES ASSUME Init PROVE RowsInv
  OBVIOUS
<1>1. VerdictInv
  BY VerdictInit
<1>2. /\ known = {} /\ order = <<>> /\ polled = <<>> /\ todo = <<>> /\ told = {}
  BY DEF Init
<1>3. <<>> \in Seq(Txs) /\ Len(<<>>) = 0 /\ DOMAIN <<>> = {} /\ 0 <= PollLimit
  BY TrackerAssumption
<1>4. OrderIsRows
  BY <1>2, <1>3 DEF OrderIsRows, Range, IsInjective
<1>5. TrackerTypeOK
  BY <1>1, <1>2, <1>3 DEF TrackerTypeOK, VerdictInv, RowsTypeOK
<1> QED BY <1>1, <1>4, <1>5 DEF RowsInv, TrackerInv

\* A key is added to the order for a row added to the map, and as many leave
\* both (tracker.go:71-82).
LEMMA NoteNewInOrder ==
  ASSUME TrackerInv, NEW x \in Txs, NEW w, NoteNew(x, w)
  PROVE  order' \in Seq(Txs) /\ OrderIsRows' /\ polled' \in Seq(Txs) /\ told' \subseteq Txs
         /\ todo' = todo
<1> DEFINE all == Append(order, x)
           over == IF Len(all) > MaxRows THEN Len(all) - MaxRows ELSE 0
           gone == {all[i] : i \in 1..over}
<1>1. /\ order \in Seq(Txs) /\ polled \in Seq(Txs) /\ told \subseteq Txs
      /\ Range(order) = known /\ IsInjective(order)
  BY DEF TrackerInv, TrackerTypeOK, OrderIsRows
<1>2. /\ x \notin known /\ order' = SubSeq(all, over + 1, Len(all))
      /\ known' = (known \cup {x}) \ gone /\ polled' = RemoveFirst(polled, x)
      /\ told' = told \ gone /\ todo' = todo
  BY DEF NoteNew, Unpolled
<1>3. all \in Seq(Txs) /\ Len(all) \in Nat /\ IsInjective(all) /\ Range(all) = known \cup {x}
  BY <1>1, <1>2, OneKeyMore
<1> HIDE DEF all
<1>4. over \in 0..Len(all)
  BY <1>3, TrackerAssumption
<1> HIDE DEF over
<1>5. order' \in Seq(Txs) /\ IsInjective(order') /\ Range(order') = known'
  BY <1>2, <1>3, <1>4, OldestLeave
<1>6. OrderIsRows'
  BY <1>5 DEF OrderIsRows
<1> QED BY <1>1, <1>2, <1>5, <1>6, RemoveFirstType

LEMMA SweepInOrder ==
  ASSUME TrackerInv, NEW x \in Txs, NEW w, SetWalletStatus(x, w)
  PROVE  order' \in Seq(Txs) /\ OrderIsRows' /\ polled' \in Seq(Txs) /\ told' \subseteq Txs
         /\ todo' = todo
<1>1. /\ order \in Seq(Txs) /\ polled \in Seq(Txs) /\ told \subseteq Txs
      /\ Range(order) = known /\ IsInjective(order)
  BY DEF TrackerInv, TrackerTypeOK, OrderIsRows
<1>2. /\ known' = known \cup {x} /\ order' = IF x \in known THEN order ELSE Append(order, x)
      /\ IF x \in known THEN polled' = polled ELSE polled' = RemoveFirst(polled, x)
      /\ told' = told /\ todo' = todo
  BY DEF SetWalletStatus, Unpolled
<1>3. polled' \in Seq(Txs)
  BY <1>1, <1>2, RemoveFirstType
<1>4. order' \in Seq(Txs) /\ OrderIsRows'
  <2>1. CASE x \in known
    <3>1. known' = known /\ order' = order
      BY <1>2, <2>1
    <3> QED BY <1>1, <3>1 DEF OrderIsRows
  <2>2. CASE x \notin known
    <3>1. order' \in Seq(Txs) /\ IsInjective(order') /\ Range(order') = known'
      BY <1>1, <1>2, <2>2, OneKeyMore
    <3> QED BY <3>1 DEF OrderIsRows
  <2> QED BY <2>1, <2>2
<1> QED BY <1>1, <1>2, <1>3, <1>4

\* A pass asks about so many rows, one after another.
LEMMA PollInOrder ==
  ASSUME VerdictInv, TrackerInv, Poll
  PROVE  /\ UNCHANGED <<known, order>> /\ polled' \in Seq(Txs) /\ told' \subseteq Txs
         /\ Len(todo') <= PollLimit
<1>1. /\ polled \in Seq(Txs) /\ told \subseteq Txs /\ known \subseteq Txs
      /\ todo \in Seq(Txs) /\ Len(todo) \in Nat /\ Len(todo) <= PollLimit /\ PollLimit \in Nat
  BY TrackerAssumption, LenProperties DEF TrackerInv, TrackerTypeOK
<1>2. CASE StartPoll
  <2>1. PICK n \in 1..PollLimit : \E s \in [1..n -> Candidates] : Due(s) /\ todo' = s
    BY <1>2 DEF StartPoll
  <2>2. PICK s \in [1..n -> Candidates] : todo' = s
    BY <2>1
  <2>3. s \in Seq(Candidates) /\ Len(s) = n
    BY <2>1, <2>2
  <2>4. UNCHANGED <<known, order, polled, told>>
    BY <1>2 DEF StartPoll
  <2> QED BY <1>1, <2>1, <2>2, <2>3, <2>4
<1>3. ASSUME NEW status \in Answers, Ask(status)
      PROVE  /\ UNCHANGED <<known, order>> /\ polled' \in Seq(Txs) /\ told' \subseteq Txs
             /\ Len(todo') <= PollLimit
  <2> DEFINE x == Head(todo)
  <2>1. todo # <<>> /\ todo' \in {Tail(todo), <<>>} /\ UNCHANGED <<known, order>>
    BY <1>3 DEF Ask
  <2>2. x \in Txs /\ Len(todo') <= PollLimit
    BY <1>1, <2>1, HeadTailProperties
  <2>3. Answer(x, status) \/ NoAnswer(x, status)
    BY <1>3 DEF Ask
  <2> HIDE DEF x
  <2>4. ASSUME Touch(x) PROVE polled' \in Seq(Txs)
    <3>1. RemoveFirst(polled, x) \in Seq(Txs)
      BY <1>1, RemoveFirstType
    <3> QED BY <2>2, <2>4, <3>1, AppendProperties DEF Touch
  <2>5. polled' \in Seq(Txs) /\ told' \subseteq Txs
    BY <1>1, <2>2, <2>3, <2>4 DEF Answer, NoAnswer
  <2> QED BY <2>1, <2>2, <2>5
<1> QED BY <1>2, <1>3 DEF Poll

LEMMA RowsStep == RowsInv /\ [Next]_vars => RowsInv'
<1> SUFFICES ASSUME RowsInv, [Next]_vars PROVE RowsInv'
  OBVIOUS
<1>1. VerdictInv /\ TrackerInv /\ VerdictInv'
  BY VerdictStep DEF RowsInv
<1>2. ASSUME order' \in Seq(Txs), OrderIsRows', polled' \in Seq(Txs), told' \subseteq Txs,
             Len(todo') <= PollLimit
      PROVE  RowsInv'
  BY <1>1, <1>2 DEF RowsInv, TrackerInv, TrackerTypeOK, VerdictInv, RowsTypeOK, TodoInv
<1>3. /\ order \in Seq(Txs) /\ polled \in Seq(Txs) /\ told \subseteq Txs
      /\ Len(todo) <= PollLimit /\ OrderIsRows
  BY <1>1 DEF TrackerInv, TrackerTypeOK
<1>4. CASE UNCHANGED <<known, order, polled, todo, told>>
  <2>1. OrderIsRows'
    BY <1>3, <1>4 DEF OrderIsRows
  <2> QED BY <1>2, <1>3, <1>4, <2>1
<1>5. ASSUME NEW x \in Txs, NEW w, NoteNew(x, w) PROVE RowsInv'
  BY <1>1, <1>2, <1>3, <1>5, NoteNewInOrder
<1>6. ASSUME NEW x \in Txs, NEW w, SetWalletStatus(x, w) PROVE RowsInv'
  BY <1>1, <1>2, <1>3, <1>6, SweepInOrder
<1>7. CASE Poll
  <2>1. OrderIsRows'
    BY <1>1, <1>3, <1>7, PollInOrder DEF OrderIsRows
  <2> QED BY <1>1, <1>2, <1>3, <1>7, <2>1, PollInOrder
<1> QED BY <1>4, <1>5, <1>6, <1>7 DEF Next, NoteAgain, Tick, vars

\* The map of rows and the order of its keys never part, for any transactions
\* and limits: whatever a note evicts leaves both (tracker.go:71-82, 92-97).
THEOREM TrackerInOrder == Spec => []TrackerInv
<1>1. RowsInv => TrackerInv
  BY DEF RowsInv
<1> QED BY <1>1, RowsInit, RowsStep, PTL DEF Spec
=============================================================================
