--------------------------- MODULE LogCursorProofs ---------------------------
(***************************************************************************)
(* What a viewer of a log may rely on, for every log, ceiling, limit and   *)
(* filter: no line comes twice while the window holds the cursor's line,   *)
(* none is passed over but by a twin, and the numbers go on.               *)
(*                                                                         *)
(* A window is an interval of the log, since the log is in the order of    *)
(* its times; the page is the end of the window after the line found, and  *)
(* what lies between the cursor and a line found beyond it has the         *)
(* cursor's time.                                                          *)
(***************************************************************************)
EXTENDS LogCursor, FiniteSetTheorems, WellFoundedInduction, TLAPS

------------------------------------------------------------------------------
(* Sets of lines *)

LEMMA LargestLine ==
  ASSUME NEW b \in Nat, NEW S \in SUBSET (1..b), S # {}
  PROVE  Max(S) \in S /\ \A i \in S : Max(S) >= i
<1> DEFINE Above(i) == {j \in S : j > i}
           Tops == {Above(i) : i \in S}
<1>1. IsFiniteSet(S)
  BY FS_BoundedSetOfNaturals
<1>2. \A i \in S : Above(i) \in FiniteSubsetsOf(S)
  BY <1>1, FS_FiniteSubsetsOfFinite
<1>3. IsWellFoundedOn(StrictSubsetOrdering(S), FiniteSubsetsOf(S))
  BY FS_StrictSubsetOrderingWellFounded
<1>4. PICK T \in Tops : \A U \in Tops : <<U, T>> \notin StrictSubsetOrdering(S)
  <2>1. Tops \subseteq FiniteSubsetsOf(S) /\ Tops # {}
    BY <1>2
  <2> QED BY <1>3, <2>1, WFMin
<1>5. PICK m \in S : T = Above(m)
  BY <1>4
<1>6. ASSUME NEW j \in S, j > m PROVE FALSE
  <2>1. Above(j) \in Tops
    OBVIOUS
  <2>2. Above(j) \subseteq Above(m) /\ j \in Above(m) /\ j \notin Above(j)
    <3>1. \A x \in S : x \in Nat
      OBVIOUS
    <3>2. m \in Nat /\ j \in Nat /\ ~(j > j)
      BY <1>6, <3>1
    <3>3. \A x \in S : x > j => x > m
      BY <1>6, <3>1, <3>2
    <3> QED BY <1>6, <3>2, <3>3
  <2>3. Above(j) # Above(m)
    BY <2>2
  <2>4. <<Above(j), Above(m)>> \in StrictSubsetOrdering(S)
    BY <2>2, <2>3 DEF StrictSubsetOrdering
  <2> QED BY <1>4, <1>5, <2>1, <2>4
<1>7. \A i \in S : m >= i
  BY <1>6
<1> QED BY <1>7 DEF Max

LEMMA SmallestLine ==
  ASSUME NEW b \in Nat, NEW S \in SUBSET (1..b), S # {}
  PROVE  Min(S) \in S /\ \A i \in S : Min(S) <= i
<1> DEFINE T == {b + 1 - i : i \in S}
<1>1. T \in SUBSET (1..b) /\ T # {}
  <2>1. \A i \in S : i \in 1..b
    OBVIOUS
  <2>2. \A i \in 1..b : b + 1 - i \in 1..b
    OBVIOUS
  <2>3. \A i \in S : b + 1 - i \in 1..b
    BY <2>1, <2>2
  <2> QED BY <2>3
<1>2. Max(T) \in T /\ \A j \in T : Max(T) >= j
  BY <1>1, LargestLine
<1>3. PICK m \in S : Max(T) = b + 1 - m
  BY <1>2
<1>4. \A i \in S : b + 1 - i \in T
  OBVIOUS
<1> HIDE DEF T
<1>5. \A i \in S : m <= i
  BY <1>2, <1>3, <1>4
<1> QED BY <1>5 DEF Min

LEMMA FiniteLines ==
  ASSUME NEW b \in Nat, NEW S \in SUBSET (1..b)
  PROVE  IsFiniteSet(S) /\ Cardinality(S) \in Nat
<1>1. IsFiniteSet(1..b)
  BY FS_Interval
<1>2. IsFiniteSet(S)
  BY <1>1, FS_Subset
<1> QED BY <1>2, FS_CardinalityType

\* A set of lines is whole when it has every line between two of its own.
Whole(S) == \A i \in S, k \in S : \A j \in i..k : j \in S

\* The first lines of an interval are one, and so are the last.
LEMMA FirstIsWhole ==
  ASSUME NEW b \in Nat, NEW S \in SUBSET (1..b), Whole(S), NEW n \in Nat
  PROVE  FirstOf(S, n) \subseteq S /\ Whole(FirstOf(S, n))
<1> DEFINE Under(i) == {j \in S : j < i}
<1>1. ASSUME NEW i \in S, NEW k \in S, NEW j \in S, j <= k, Cardinality(Under(k)) < n
      PROVE  Cardinality(Under(j)) < n
  <2>1. Under(j) \subseteq Under(k)
    <3>1. \A x \in S : x \in Nat
      OBVIOUS
    <3>2. j \in Nat /\ k \in Nat
      BY <3>1
    <3>3. \A x \in S : x < j => x < k
      BY <1>1, <3>1, <3>2
    <3> QED BY <3>3
  <2>2. Under(k) \in SUBSET (1..b) /\ Under(j) \in SUBSET (1..b)
    OBVIOUS
  <2>3. /\ IsFiniteSet(Under(k)) /\ Cardinality(Under(k)) \in Nat
        /\ Cardinality(Under(j)) \in Nat
    BY <2>2, FiniteLines
  <2>4. Cardinality(Under(j)) <= Cardinality(Under(k))
    BY <2>1, <2>3, FS_Subset
  <2> HIDE DEF Under
  <2> QED BY <1>1, <2>3, <2>4
<1>2. FirstOf(S, n) = {i \in S : Cardinality(Under(i)) < n}
  BY DEF FirstOf
<1> HIDE DEF Under
<1>3. FirstOf(S, n) \subseteq S
  BY <1>2
<1>4. ASSUME NEW i \in FirstOf(S, n), NEW k \in FirstOf(S, n), NEW j \in i..k
      PROVE  j \in FirstOf(S, n)
  <2>1. i \in S /\ k \in S
    BY <1>3, <1>4
  <2>2. j \in S
    BY <1>4, <2>1 DEF Whole
  <2>3. j <= k
    BY <1>4, <2>1
  <2> QED BY <1>1, <1>2, <1>4, <2>1, <2>2, <2>3
<1> QED BY <1>3, <1>4 DEF Whole

LEMMA LastIsWhole ==
  ASSUME NEW b \in Nat, NEW S \in SUBSET (1..b), Whole(S), NEW n \in Nat
  PROVE  LastOf(S, n) \subseteq S /\ Whole(LastOf(S, n))
<1> DEFINE Over(i) == {j \in S : j > i}
<1>1. ASSUME NEW i \in S, NEW k \in S, NEW j \in S, i <= j, Cardinality(Over(i)) < n
      PROVE  Cardinality(Over(j)) < n
  <2>1. Over(j) \subseteq Over(i)
    <3>1. \A x \in S : x \in Nat
      OBVIOUS
    <3>2. j \in Nat /\ i \in Nat
      BY <3>1
    <3>3. \A x \in S : x > j => x > i
      BY <1>1, <3>1, <3>2
    <3> QED BY <3>3
  <2>2. Over(i) \in SUBSET (1..b) /\ Over(j) \in SUBSET (1..b)
    OBVIOUS
  <2>3. /\ IsFiniteSet(Over(i)) /\ Cardinality(Over(i)) \in Nat
        /\ Cardinality(Over(j)) \in Nat
    BY <2>2, FiniteLines
  <2>4. Cardinality(Over(j)) <= Cardinality(Over(i))
    BY <2>1, <2>3, FS_Subset
  <2> HIDE DEF Over
  <2> QED BY <1>1, <2>3, <2>4
<1>2. LastOf(S, n) = {i \in S : Cardinality(Over(i)) < n}
  BY DEF LastOf
<1> HIDE DEF Over
<1>3. LastOf(S, n) \subseteq S
  BY <1>2
<1>4. ASSUME NEW i \in LastOf(S, n), NEW k \in LastOf(S, n), NEW j \in i..k
      PROVE  j \in LastOf(S, n)
  <2>1. i \in S /\ k \in S
    BY <1>3, <1>4
  <2>2. j \in S
    BY <1>4, <2>1 DEF Whole
  <2>3. i <= j
    BY <1>4, <2>1
  <2> QED BY <1>1, <1>2, <1>4, <2>1, <2>2, <2>3
<1> QED BY <1>3, <1>4 DEF Whole

\* The last n lines are n at most, whatever lines they are.
LEMMA LastAreFew ==
  ASSUME NEW b \in Nat, NEW S \in SUBSET (1..b), NEW n \in Nat
  PROVE  LastOf(S, n) \subseteq S /\ Cardinality(LastOf(S, n)) <= n
<1> DEFINE T == LastOf(S, n)
<1>1. T \subseteq S
  BY DEF LastOf
<1>2. T \in SUBSET (1..b)
  BY <1>1
<1>3. CASE T = {}
  BY <1>1, <1>3, FS_EmptySet
<1>4. CASE T # {}
  <2>1. PICK m \in T : \A i \in T : m <= i
    BY <1>2, <1>4, SmallestLine
  <2> DEFINE Over == {j \in S : j > m}
  <2>2. Cardinality(Over) < n
    BY <2>1 DEF LastOf
  <2>3. T \ {m} \subseteq Over
    <3>1. \A i \in T : i \in Nat /\ i \in S
      BY <1>1, <1>2
    <3>2. \A i \in T : i # m => i > m
      BY <2>1, <3>1
    <3> QED BY <3>1, <3>2
  <2>4. Over \in SUBSET (1..b)
    OBVIOUS
  <2>5. IsFiniteSet(Over) /\ Cardinality(Over) \in Nat /\ IsFiniteSet(T) /\ Cardinality(T) \in Nat
    BY <1>2, <2>4, FiniteLines
  <2>6. Cardinality(T \ {m}) = Cardinality(T) - 1
    BY <2>5, FS_RemoveElement
  <2>7. Cardinality(T \ {m}) <= Cardinality(Over)
    BY <2>3, <2>5, FS_Subset
  <2> HIDE DEF T, Over
  <2>8. Cardinality(T) <= n
    BY <2>2, <2>5, <2>6, <2>7
  <2> QED BY <1>1, <2>8 DEF T
<1> QED BY <1>3, <1>4

------------------------------------------------------------------------------
(* Windows *)

LEMMA LineType ==
  ASSUME LogTypeOK, NEW i \in 1..Len(lines)
  PROVE  /\ lines[i] \in Line /\ lines[i].at \in Nat /\ lines[i].at \in 0..MaxNow
         /\ lines[i].entry \in BOOLEAN /\ lines[i].text \in Texts
<1>1. lines[i] \in Line
  BY DEF LogTypeOK
<1> QED BY <1>1, LogAssumption DEF Line

\* The log is in the order of its times, which are past.
Ordered ==
  \A j \in 1..Len(lines) :
      lines[j].at <= now /\ \A i \in 1..j : lines[i].at <= lines[j].at

\* A window of the log.
Window(ids) == ids \in SUBSET (1..Len(lines)) /\ Whole(ids)

LEMMA WindowType ==
  ASSUME LogTypeOK, NEW ids, Window(ids)
  PROVE  /\ Len(lines) \in Nat /\ ids \in SUBSET (1..Len(lines))
         /\ \A i \in ids : i \in Nat /\ i \in 1..Len(lines) /\ i # 0
         /\ \A e \in Scan(ids) : e \in ids /\ e \in Nat
<1>1. Len(lines) \in Nat /\ ids \in SUBSET (1..Len(lines))
  BY DEF LogTypeOK, Window
<1>2. \A i \in ids : i \in 1..Len(lines)
  BY <1>1
<1>3. \A i \in 1..Len(lines) : i \in Nat /\ i # 0
  BY <1>1
<1>4. \A e \in Scan(ids) : e \in ids
  BY DEF Scan
<1> QED BY <1>1, <1>2, <1>3, <1>4

LEMMA CutIsWindow ==
  ASSUME LogTypeOK, NEW ids, Window(ids)
  PROVE  Window(Cut(ids)) /\ Cut(ids) \subseteq ids
<1> DEFINE b == Len(lines)
<1>1. b \in Nat /\ Ceiling \in Nat /\ ids \in SUBSET (1..b) /\ Whole(ids)
  BY LogAssumption DEF LogTypeOK, Window
<1> HIDE DEF b
<1>2. FirstOf(ids, Ceiling) \subseteq ids /\ Whole(FirstOf(ids, Ceiling))
  BY <1>1, FirstIsWhole
<1>3. LastOf(ids, Ceiling) \subseteq ids /\ Whole(LastOf(ids, Ceiling))
  BY <1>1, LastIsWhole
<1>4. Cut(ids) \subseteq ids /\ Whole(Cut(ids))
  BY <1>2, <1>3 DEF Cut
<1> QED BY <1>1, <1>4 DEF Window, b

LEMMA SinceIsWindow ==
  ASSUME LogTypeOK, Ordered, NEW t \in Int
  PROVE  Window(Since(t))
<1> DEFINE ids == {i \in Kept : lines[i].at >= t}
<1>1. Len(lines) \in Nat /\ lo \in 0..Len(lines)
  BY DEF LogTypeOK
<1>2. Kept \subseteq 1..Len(lines)
  BY <1>1 DEF Kept
<1>3. ids \in SUBSET (1..Len(lines))
  BY <1>2
<1>4. ASSUME NEW i \in ids, NEW k \in ids, NEW j \in i..k PROVE j \in ids
  <2>1. i \in 1..Len(lines) /\ k \in 1..Len(lines) /\ i \in Kept /\ k \in Kept
    BY <1>2
  <2>2. j \in Kept /\ j \in 1..Len(lines) /\ i \in 1..j
    BY <1>1, <1>4, <2>1 DEF Kept
  <2>3. lines[i].at >= t /\ lines[i].at <= lines[j].at
    BY <2>2 DEF Ordered
  <2>4. lines[i].at \in Int /\ lines[j].at \in Int
    BY <2>1, <2>2, LineType
  <2>5. lines[j].at >= t
    BY <2>3, <2>4
  <2> QED BY <2>2, <2>5
<1> HIDE DEF ids
<1>5. Window(ids)
  BY <1>3, <1>4 DEF Window, Whole
<1> QED BY <1>5, CutIsWindow DEF Since, ids

LEMMA TailIsWindow ==
  ASSUME LogTypeOK, NEW n \in Nat
  PROVE  Window(Tail0(n))
<1>1. Len(lines) \in Nat /\ lo \in 0..Len(lines)
  BY DEF LogTypeOK
<1>2. Kept \in SUBSET (1..Len(lines)) /\ Whole(Kept)
  BY <1>1 DEF Kept, Whole
<1>3. LastOf(Kept, n) \subseteq Kept /\ Whole(LastOf(Kept, n))
  BY <1>1, <1>2, LastIsWhole
<1>4. Window(LastOf(Kept, n))
  BY <1>2, <1>3 DEF Window
<1> QED BY <1>4, CutIsWindow DEF Tail0

------------------------------------------------------------------------------
(* Entries *)

\* The entry a line of a window belongs to.
EntryOf(ids, i) == Max({e \in Scan(ids) : e <= i})

\* Every line of a window has its entry, which is the last head not after it.
LEMMA HeadIsBefore ==
  ASSUME LogTypeOK, NEW ids, Window(ids), NEW i \in ids
  PROVE  /\ EntryOf(ids, i) \in Scan(ids) /\ EntryOf(ids, i) <= i
         /\ \A e \in Scan(ids) : e <= i => e <= EntryOf(ids, i)
<1> DEFINE S == {e \in Scan(ids) : e <= i}
<1>1. Len(lines) \in Nat /\ ids \in SUBSET (1..Len(lines)) /\ ids # {}
  BY DEF LogTypeOK, Window
<1>2. PICK m \in ids : \A j \in ids : m <= j
  BY <1>1, SmallestLine
<1>3. m \in S
  BY <1>2 DEF Scan
<1>4. S \in SUBSET (1..Len(lines)) /\ S # {}
  BY <1>1, <1>3 DEF Scan
<1>5. Max(S) \in S /\ \A e \in S : Max(S) >= e
  BY <1>1, <1>4, LargestLine
<1>6. \A e \in Scan(ids) : e \in Nat
  BY <1>1 DEF Scan
<1>7. Max(S) \in Nat
  BY <1>5, <1>6
<1> QED BY <1>5, <1>6, <1>7 DEF EntryOf

\* A head is its own.
LEMMA HeadIsItself ==
  ASSUME LogTypeOK, NEW ids, Window(ids), NEW e \in Scan(ids)
  PROVE  e \in ids /\ EntryOf(ids, e) = e
<1>1. e \in ids /\ \A x \in ids : x \in Nat
  BY DEF Scan, Window
<1>2. /\ EntryOf(ids, e) \in Scan(ids) /\ EntryOf(ids, e) <= e
      /\ e <= e => e <= EntryOf(ids, e)
  BY <1>1, HeadIsBefore
<1>3. EntryOf(ids, e) \in ids
  BY <1>2 DEF Scan
<1> QED BY <1>1, <1>2, <1>3

LEMMA RawByHead ==
  ASSUME NEW ids, NEW es
  PROVE  Raw(ids, es) = {i \in ids : EntryOf(ids, i) \in es}
BY DEF Raw, EntryOf

\* The entries after a place and those up to it share the window out.
LEMMA HalvesAddUp ==
  ASSUME LogTypeOK, NEW ids, Window(ids), NEW p \in Nat
  PROVE  /\ Cardinality(ids) \in Nat
         /\ Cardinality(Raw(ids, {e \in Scan(ids) : e > p})) \in Nat
         /\ Consumed(ids, p) \in Nat
         /\ Cardinality(ids) = Consumed(ids, p) + Cardinality(Raw(ids, {e \in Scan(ids) : e > p}))
<1> DEFINE A == Raw(ids, {e \in Scan(ids) : e > p})
           B == Raw(ids, {e \in Scan(ids) : e <= p})
<1>1. Len(lines) \in Nat /\ ids \in SUBSET (1..Len(lines))
  BY DEF LogTypeOK, Window
<1>2. \A i \in ids : EntryOf(ids, i) \in Scan(ids) /\ EntryOf(ids, i) \in Nat
  BY <1>1, HeadIsBefore DEF Scan
<1>3. A = {i \in ids : EntryOf(ids, i) > p} /\ B = {i \in ids : EntryOf(ids, i) <= p}
  BY <1>2, RawByHead
<1>4. \A i \in ids : ~(EntryOf(ids, i) > p) <=> EntryOf(ids, i) <= p
  BY <1>2
<1> HIDE DEF A, B
<1>5. A \cup B = ids /\ A \cap B = {} /\ A \subseteq ids /\ B \subseteq ids
  BY <1>3, <1>4
<1>6. /\ IsFiniteSet(A) /\ Cardinality(A) \in Nat
      /\ IsFiniteSet(B) /\ Cardinality(B) \in Nat
      /\ Cardinality(ids) \in Nat
  BY <1>1, <1>5, FiniteLines
<1>7. Cardinality(A \cup B) = Cardinality(A) + Cardinality(B) - Cardinality(A \cap B)
  BY <1>6, FS_Union
<1>8. Cardinality(A \cap B) = 0
  BY <1>5, FS_EmptySet
<1>9. Consumed(ids, p) = Cardinality(B)
  BY DEF Consumed, B
<1>10. Cardinality(ids) = Cardinality(B) + Cardinality(A)
  BY <1>5, <1>6, <1>7, <1>8
<1> QED BY <1>6, <1>9, <1>10 DEF A

\* The entry found is the last of those with the cursor's time and mark.
LEMMA FoundIsLast ==
  ASSUME LogTypeOK, NEW ids, Window(ids)
  PROVE  /\ Locate(ids) \in {0} \cup Scan(ids)
         /\ Locate(ids) # 0 => /\ lines[Locate(ids)].at = cursor.ts
                               /\ Mark(ids, Locate(ids)) = cursor.mark
         /\ \A e \in Scan(ids) : lines[e].at = cursor.ts /\ Mark(ids, e) = cursor.mark
                => e <= Locate(ids)
<1> DEFINE found == {e \in Scan(ids) : lines[e].at = cursor.ts /\ Mark(ids, e) = cursor.mark}
<1>1. Len(lines) \in Nat /\ found \in SUBSET (1..Len(lines))
  BY DEF LogTypeOK, Window, Scan
<1>2. CASE found = {}
  BY <1>2 DEF Locate
<1>3. CASE found # {}
  <2>1. Max(found) \in found /\ \A e \in found : Max(found) >= e
    BY <1>1, <1>3, LargestLine
  <2>2. Locate(ids) = Max(found)
    BY <1>3 DEF Locate
  <2>3. \A e \in found : e \in Nat
    BY <1>1
  <2>4. \A e \in found : e <= Max(found)
    BY <2>1, <2>3
  <2> QED BY <2>1, <2>2, <2>4
<1> QED BY <1>2, <1>3

------------------------------------------------------------------------------
(* Pages *)

\* The cursor marks a line of the session's, unless the session has none.
MarkInv ==
  /\ marked # 0 => /\ cursor.set
                   /\ cursor.ts = lines[marked].at
                   /\ cursor.mark = <<lines[marked].entry, lines[marked].text>>
  /\ marked = 0 => seen = {}

\* The inductive invariant.
LogInd == LogInv /\ Ordered /\ MarkInv

\* Where a page begins, its entries and its lines.
At(ids) == IF cursor.set THEN Locate(ids) ELSE 0
Fresh(ids) == {e \in Scan(ids) : e > At(ids)}
Given(ids) == Raw(ids, Fresh(ids))
Lost(ids) == cursor.set /\ At(ids) = 0
Offset(ids) == IF At(ids) > 0 THEN cursor.scanned - Consumed(ids, At(ids)) ELSE 0

LEMMA AtIsPlace ==
  ASSUME LogTypeOK, NEW ids, Window(ids)
  PROVE  At(ids) \in Nat /\ (At(ids) # 0 => At(ids) \in ids /\ At(ids) \in Scan(ids))
<1>1. At(ids) \in {0} \cup Scan(ids)
  BY FoundIsLast DEF At
<1> QED BY <1>1, WindowType

LEMMA FreshIsGiven ==
  ASSUME LogTypeOK, NEW ids, Window(ids)
  PROVE  /\ Fresh(ids) \subseteq Given(ids) /\ Given(ids) \subseteq ids
         /\ Given(ids) = {i \in ids : EntryOf(ids, i) > At(ids)}
         /\ Fresh(ids) = {} => Given(ids) = {}
         /\ Fresh(ids) # {} => Max(Fresh(ids)) \in Fresh(ids)
<1>1. Given(ids) = {i \in ids : EntryOf(ids, i) \in Fresh(ids)}
  BY RawByHead DEF Given
<1>2. \A e \in Fresh(ids) : e \in ids /\ EntryOf(ids, e) = e
  BY HeadIsItself DEF Fresh
<1>3. \A i \in ids : EntryOf(ids, i) \in Fresh(ids) <=> EntryOf(ids, i) > At(ids)
  BY HeadIsBefore DEF Fresh
<1>4. Len(lines) \in Nat /\ Fresh(ids) \in SUBSET (1..Len(lines))
  BY <1>2, WindowType
<1>5. Fresh(ids) # {} => Max(Fresh(ids)) \in Fresh(ids)
  BY <1>4, LargestLine
<1> QED BY <1>1, <1>2, <1>3, <1>5

\* What a page gives has no hole: a line between two of its window's lines, the
\* first of them given, is given.
LEMMA GivenIsWhole ==
  ASSUME LogTypeOK, NEW ids, Window(ids), NEW z \in Given(ids), NEW l \in ids,
         NEW x \in z..l
  PROVE  x \in Given(ids)
<1>1. z \in ids /\ EntryOf(ids, z) > At(ids)
  BY FreshIsGiven
<1>2. x \in ids
  BY <1>1 DEF Window, Whole
<1>3. z \in Nat /\ x \in Nat /\ z <= x
  BY <1>1, <1>2 DEF Window
<1>4. EntryOf(ids, z) \in Scan(ids) /\ EntryOf(ids, z) <= z
  BY <1>1, HeadIsBefore
<1>5. EntryOf(ids, z) \in Nat
  BY <1>4, WindowType
<1>6. EntryOf(ids, z) <= EntryOf(ids, x)
  BY <1>2, <1>3, <1>4, <1>5, HeadIsBefore
<1>7. EntryOf(ids, x) \in Nat
  BY <1>2, HeadIsBefore, WindowType
<1>8. At(ids) \in Nat
  BY AtIsPlace
<1>9. EntryOf(ids, x) > At(ids)
  BY <1>1, <1>5, <1>6, <1>7, <1>8
<1> QED BY <1>2, <1>9, FreshIsGiven

\* The numbers of a page: its first is where the cursor was, and the cursor
\* moves on by its lines.
LEMMA NumbersGoOn ==
  ASSUME LogTypeOK, NEW ids, Window(ids)
  PROVE  /\ Offset(ids) + Cardinality(ids) \in Nat
         /\ Cardinality(Given(ids)) \in Nat
         /\ Offset(ids) + Cardinality(ids) - Cardinality(Given(ids)) \in Nat
         /\ At(ids) # 0 =>
              /\ Offset(ids) + Cardinality(ids) - Cardinality(Given(ids)) = cursor.scanned
              /\ Offset(ids) + Cardinality(ids) = cursor.scanned + Cardinality(Given(ids))
<1> DEFINE p == At(ids)
           all == Cardinality(ids)
           given == Cardinality(Given(ids))
           old == Consumed(ids, p)
<1>1. p \in Nat
  BY AtIsPlace
<1>2. all \in Nat /\ given \in Nat /\ old \in Nat /\ all = old + given
  BY <1>1, HalvesAddUp DEF Given, Fresh
<1>3. cursor.scanned \in Nat
  BY DEF LogTypeOK, Cursor
<1>4. Offset(ids) = IF p > 0 THEN cursor.scanned - old ELSE 0
  BY DEF Offset
<1> HIDE DEF p, all, given, old
<1>5. CASE p = 0
  <2>1. Offset(ids) = 0
    BY <1>4, <1>5
  <2> QED BY <1>2, <1>5, <2>1 DEF p, all, given
<1>6. CASE p > 0
  <2>1. Offset(ids) = cursor.scanned - old
    BY <1>4, <1>6
  <2>2. /\ Offset(ids) + all - given = cursor.scanned
        /\ Offset(ids) + all = cursor.scanned + given
    BY <1>2, <1>3, <2>1
  <2>3. cursor.scanned + given \in Nat
    BY <1>2, <1>3
  <2> QED BY <1>2, <1>3, <2>2, <2>3 DEF p, all, given
<1> QED BY <1>1, <1>5, <1>6

\* A page, as Build makes it.
LEMMA PageIs ==
  ASSUME NEW ids, Build(ids)
  PROVE  LET match == {e \in Fresh(ids) : Match(e)}
         IN  /\ page' = [reset |-> Lost(ids), delivered |-> Given(ids), shown |-> Newest(match),
                         first |-> Offset(ids) + Cardinality(ids) - Cardinality(Given(ids)),
                         dropped |-> Cardinality(match) - Cardinality(Newest(match))]
             /\ seen' = IF cursor.set /\ ~Lost(ids) THEN seen \cup Given(ids) ELSE Given(ids)
             /\ Fresh(ids) # {} =>
                  /\ cursor' = [set |-> TRUE, ts |-> lines[Max(Fresh(ids))].at,
                                mark |-> Mark(ids, Max(Fresh(ids))),
                                scanned |-> Offset(ids) + Cardinality(ids)]
                  /\ marked' = Max(Fresh(ids))
             /\ Fresh(ids) = {} =>
                  /\ cursor' = [cursor EXCEPT !.set = TRUE]
                  /\ marked' = IF Lost(ids) THEN 0 ELSE marked
BY DEF Build, Lost, Given, Fresh, Offset, At

LEMMA PageHas ==
  ASSUME NEW ids, Build(ids)
  PROVE  /\ page'.reset = Lost(ids) /\ page'.delivered = Given(ids)
         /\ page'.first = Offset(ids) + Cardinality(ids) - Cardinality(Given(ids))
         /\ Fresh(ids) # {} => cursor'.scanned = Offset(ids) + Cardinality(ids)
<1> DEFINE match == {e \in Fresh(ids) : Match(e)}
<1>1. page' = [reset |-> Lost(ids), delivered |-> Given(ids), shown |-> Newest(match),
               first |-> Offset(ids) + Cardinality(ids) - Cardinality(Given(ids)),
               dropped |-> Cardinality(match) - Cardinality(Newest(match))]
  BY PageIs
<1>2. Fresh(ids) # {} =>
        cursor' = [set |-> TRUE, ts |-> lines[Max(Fresh(ids))].at,
                   mark |-> Mark(ids, Max(Fresh(ids))),
                   scanned |-> Offset(ids) + Cardinality(ids)]
  BY PageIs
<1> HIDE DEF match
<1> QED BY <1>1, <1>2

LEMMA PageTyped ==
  ASSUME LogInd, NEW ids, Window(ids), Build(ids), UNCHANGED <<runtime, lines, lo, now>>
  PROVE  LogTypeOK'
<1> DEFINE match == {e \in Fresh(ids) : Match(e)}
<1>1. LogTypeOK /\ MarkInv /\ Ordered
  BY DEF LogInd, LogInv
<1>2. /\ Fresh(ids) \subseteq Given(ids) /\ Given(ids) \subseteq ids
      /\ Fresh(ids) = {} => Given(ids) = {}
      /\ Fresh(ids) # {} => Max(Fresh(ids)) \in Fresh(ids)
  BY <1>1, FreshIsGiven
<1>3. /\ Len(lines) \in Nat /\ ids \in SUBSET (1..Len(lines))
      /\ Given(ids) \in SUBSET (1..Len(lines)) /\ match \in SUBSET (1..Len(lines))
  BY <1>1, <1>2, WindowType
<1>4. Limit \in Nat
  BY LogAssumption
<1>5. Newest(match) \subseteq match /\ Cardinality(Newest(match)) <= Limit
  BY <1>3, <1>4, LastAreFew DEF Newest
<1>6. Newest(match) \subseteq Given(ids)
  BY <1>2, <1>5
<1>7. Cardinality(match) - Cardinality(Newest(match)) \in Nat
  <2>1. Newest(match) \in SUBSET (1..Len(lines))
    BY <1>3, <1>5
  <2>2. /\ IsFiniteSet(match) /\ Cardinality(match) \in Nat
        /\ Cardinality(Newest(match)) \in Nat
    BY <1>3, <2>1, FiniteLines
  <2>3. Cardinality(Newest(match)) <= Cardinality(match)
    BY <1>5, <2>2, FS_Subset
  <2> QED BY <2>2, <2>3
<1> HIDE DEF match
<1>8. /\ page'.delivered = Given(ids) /\ page'.shown = Newest(match)
      /\ page' = [reset |-> Lost(ids), delivered |-> Given(ids), shown |-> Newest(match),
                  first |-> Offset(ids) + Cardinality(ids) - Cardinality(Given(ids)),
                  dropped |-> Cardinality(match) - Cardinality(Newest(match))]
  BY PageIs DEF match
<1>9. page' \in Page
  <2>1. 1..Len(lines) \subseteq 1..MaxLines
    BY <1>1, <1>3, LogAssumption DEF LogTypeOK
  <2>2. Given(ids) \in SUBSET (1..MaxLines) /\ Newest(match) \in SUBSET (1..MaxLines)
    BY <1>3, <1>6, <2>1
  <2>3. Offset(ids) + Cardinality(ids) - Cardinality(Given(ids)) \in Nat
    BY <1>1, NumbersGoOn
  <2>4. Lost(ids) \in BOOLEAN
    BY <1>1 DEF Lost, LogTypeOK, Cursor
  <2> QED BY <1>7, <1>8, <2>2, <2>3, <2>4 DEF Page
<1>10. cursor' \in Cursor
  <2>1. CASE Fresh(ids) # {}
    <3> DEFINE l == Max(Fresh(ids))
    <3>1. l \in 1..Len(lines)
      BY <1>2, <1>3, <2>1
    <3>2. /\ lines[l].at \in 0..MaxNow /\ lines[l].entry \in BOOLEAN
          /\ lines[l].text \in Texts
      BY <1>1, <3>1, LineType
    <3>3. Mark(ids, l) \in BOOLEAN \X (Texts \cup {""})
      BY <3>2 DEF Mark
    <3>4. lines[l].at \in -1..MaxNow
      BY <3>2, LogAssumption
    <3>5. Offset(ids) + Cardinality(ids) \in Nat
      BY <1>1, NumbersGoOn
    <3>6. cursor' = [set |-> TRUE, ts |-> lines[l].at, mark |-> Mark(ids, l),
                     scanned |-> Offset(ids) + Cardinality(ids)]
      BY <2>1, PageIs
    <3> HIDE DEF l
    <3> QED BY <3>3, <3>4, <3>5, <3>6 DEF Cursor
  <2>2. CASE Fresh(ids) = {}
    <3>1. cursor' = [cursor EXCEPT !.set = TRUE] /\ cursor \in Cursor
      BY <1>1, <2>2, PageIs DEF LogTypeOK
    <3> QED BY <3>1 DEF Cursor
  <2> QED BY <2>1, <2>2
<1>11. seen' = Given(ids) \/ seen' = seen \cup Given(ids)
  BY PageIs
<1>12. seen' \subseteq 1..Len(lines)
  BY <1>1, <1>3, <1>11 DEF LogTypeOK
<1>13. marked' \in {0} \cup seen'
  <2>1. CASE Fresh(ids) # {}
    BY <1>2, <1>11, <2>1, PageIs
  <2>2. CASE Fresh(ids) = {}
    <3>1. marked' = IF Lost(ids) THEN 0 ELSE marked
      BY <2>2, PageIs
    <3>2. ~cursor.set => marked = 0
      BY <1>1 DEF MarkInv
    <3>3. cursor.set /\ ~Lost(ids) => seen \subseteq seen'
      BY PageIs
    <3>4. marked \in {0} \cup seen
      BY <1>1 DEF LogTypeOK
    <3> QED BY <3>1, <3>2, <3>3, <3>4
  <2> QED BY <2>1, <2>2
<1>14. page'.delivered \subseteq seen'
  BY <1>8, <1>11
<1> QED BY <1>1, <1>5, <1>6, <1>8, <1>9, <1>10, <1>12, <1>13, <1>14 DEF LogTypeOK

LEMMA PageMarked ==
  ASSUME LogInd, NEW ids, Window(ids), Build(ids), UNCHANGED <<runtime, lines, lo, now>>
  PROVE  MarkInv'
<1>1. LogTypeOK /\ MarkInv
  BY DEF LogInd, LogInv
<1>2. /\ Fresh(ids) = {} => Given(ids) = {}
      /\ Fresh(ids) # {} => Max(Fresh(ids)) \in Fresh(ids)
  BY <1>1, FreshIsGiven
<1>3. \A e \in Fresh(ids) : e # 0
  BY <1>1, WindowType DEF Fresh
<1>4. CASE Fresh(ids) # {}
  <2> DEFINE l == Max(Fresh(ids))
  <2>1. /\ cursor' = [set |-> TRUE, ts |-> lines[l].at, mark |-> Mark(ids, l),
                      scanned |-> Offset(ids) + Cardinality(ids)]
        /\ marked' = l
    BY <1>4, PageIs
  <2>2. l # 0
    BY <1>2, <1>3, <1>4
  <2> HIDE DEF l
  <2> QED BY <2>1, <2>2 DEF MarkInv, Mark
<1>5. CASE Fresh(ids) = {}
  <2>1. /\ cursor' = [cursor EXCEPT !.set = TRUE]
        /\ marked' = IF Lost(ids) THEN 0 ELSE marked
        /\ seen' = IF cursor.set /\ ~Lost(ids) THEN seen ELSE {}
    BY <1>2, <1>5, PageIs
  <2>2. cursor \in Cursor
    BY <1>1 DEF LogTypeOK
  <2>3. cursor'.set /\ cursor'.ts = cursor.ts /\ cursor'.mark = cursor.mark
    BY <2>1, <2>2 DEF Cursor
  <2>4. marked' # 0 => marked' = marked /\ marked # 0
    BY <2>1
  <2>5. marked' = 0 => seen' = {}
    BY <1>1, <2>1 DEF MarkInv
  <2> QED BY <1>1, <2>3, <2>4, <2>5 DEF MarkInv
<1> QED BY <1>4, <1>5

LEMMA PagePassesOver ==
  ASSUME LogInd, NEW ids, Window(ids), Build(ids), UNCHANGED <<runtime, lines, lo, now>>
  PROVE  OnlyTwinsSkipped'
<1>1. LogTypeOK /\ MarkInv /\ Ordered /\ OnlyTwinsSkipped
  BY DEF LogInd, LogInv
<1>2. /\ Fresh(ids) \subseteq Given(ids) /\ Given(ids) \subseteq ids
      /\ Fresh(ids) = {} => Given(ids) = {}
      /\ Fresh(ids) # {} => Max(Fresh(ids)) \in Fresh(ids)
  BY <1>1, FreshIsGiven
<1>3. seen' = IF cursor.set /\ ~Lost(ids) THEN seen \cup Given(ids) ELSE Given(ids)
  BY PageIs
<1>4. SUFFICES ASSUME NEW x \in 1..Len(lines), x \notin seen', NEW z \in seen', z < x,
                      x < marked', lines[x].entry
               PROVE  Twin(x)'
  BY DEF OnlyTwinsSkipped
<1>5. Len(lines) \in Nat /\ x \in Nat
  BY <1>1 DEF LogTypeOK
<1>6. ASSUME x < marked, cursor.set, ~Lost(ids), z \in seen PROVE Twin(x)'
  <2>1. x \notin seen /\ seen \subseteq seen'
    BY <1>3, <1>4, <1>6
  <2>2. Twin(x)
    BY <1>1, <1>4, <1>6, <2>1 DEF OnlyTwinsSkipped
  <2> QED BY <2>1, <2>2 DEF Twin
<1>7. CASE Fresh(ids) = {}
  <2>1. marked' = IF Lost(ids) THEN 0 ELSE marked
    BY <1>7, PageIs
  <2>2. cursor.set /\ ~Lost(ids) /\ z \in seen
    BY <1>2, <1>3, <1>4, <1>5, <1>7, <2>1
  <2>3. x < marked
    BY <1>4, <2>1, <2>2
  <2> QED BY <1>6, <2>2, <2>3
<1>8. CASE Fresh(ids) # {}
  <2> DEFINE l == Max(Fresh(ids))
             p == At(ids)
  <2>1. marked' = l /\ l \in Fresh(ids) /\ l \in ids /\ l \in Nat /\ x < l
    BY <1>1, <1>2, <1>4, <1>8, PageIs, WindowType
  <2>2. x \notin Given(ids)
    BY <1>3, <1>4
  <2>3. z \notin Given(ids)
    <3>1. SUFFICES ASSUME z \in Given(ids) PROVE FALSE
      OBVIOUS
    <3>2. z \in Nat
      BY <1>1, <1>2, <3>1, WindowType
    <3>3. x \in z..l
      BY <1>4, <1>5, <2>1, <3>2
    <3> QED BY <1>1, <2>1, <2>2, <3>1, <3>3, GivenIsWhole
  <2>4. cursor.set /\ ~Lost(ids) /\ z \in seen /\ p # 0
    BY <1>3, <1>4, <2>3 DEF Lost
  <2>5. p \in ids /\ p \in Scan(ids) /\ p \in 1..Len(lines) /\ p \in Nat
    BY <1>1, <2>4, AtIsPlace, WindowType
  <2>6. marked # 0 /\ marked \in seen /\ marked \in 1..Len(lines)
    BY <1>1, <2>4 DEF MarkInv, LogTypeOK
  <2>7. marked # x /\ marked \in Nat
    BY <1>1, <1>3, <1>4, <2>4, <2>6 DEF LogTypeOK
  <2> HIDE DEF l, p
  <2>8. x < marked \/ (marked < x /\ p < x) \/ (marked < x /\ x <= p)
    BY <1>5, <2>5, <2>7
  <2>9. CASE marked < x /\ p < x
    <3>1. x \in p..l
      BY <1>5, <2>1, <2>5, <2>9
    <3>2. x \in ids
      BY <2>1, <2>5, <3>1 DEF Window, Whole
    <3>3. x \in Fresh(ids)
      BY <1>4, <1>5, <2>5, <2>9, <3>2 DEF Fresh, Scan, p
    <3> QED BY <1>2, <2>2, <3>3
  <2>10. CASE marked < x /\ x <= p
    <3>1. lines[p].at = cursor.ts /\ Mark(ids, p) = cursor.mark
      BY <1>1, <2>4, FoundIsLast DEF p, At
    <3>2. lines[marked].at = cursor.ts /\ cursor.mark = <<lines[marked].entry, lines[marked].text>>
      BY <1>1, <2>6 DEF MarkInv
    <3>3. /\ lines[p].at = lines[marked].at /\ lines[p].entry = lines[marked].entry
          /\ lines[p].text = lines[marked].text
      BY <3>1, <3>2 DEF Mark
    <3>4. lines[p] \in Line /\ lines[marked] \in Line
      BY <1>1, <2>5, <2>6, LineType
    <3>5. lines[p] = lines[marked]
      BY <3>3, <3>4 DEF Line
    <3>6. marked \in 1..x /\ x \in 1..p /\ p \in x..Len(lines)
      BY <1>4, <1>5, <2>5, <2>6, <2>7, <2>10
    <3>7. lines[marked].at <= lines[x].at /\ lines[x].at <= lines[p].at
      BY <1>1, <1>4, <2>5, <3>6 DEF Ordered
    <3>8. lines[marked].at \in Nat /\ lines[x].at \in Nat /\ lines[p].at \in Nat
      BY <1>1, <1>4, <2>5, <2>6, LineType
    <3>9. lines[x].at = lines[p].at
      BY <3>3, <3>7, <3>8
    <3>10. marked \in seen'
      BY <1>3, <2>4, <2>6
    <3> QED BY <2>10, <3>5, <3>6, <3>9, <3>10 DEF Twin
  <2> QED BY <1>6, <2>4, <2>8, <2>9, <2>10
<1> QED BY <1>7, <1>8

LEMMA BuildKeeps ==
  ASSUME LogInd, NEW ids, Window(ids), Build(ids), UNCHANGED <<runtime, lines, lo, now>>
  PROVE  LogInd'
<1>1. Ordered'
  BY DEF LogInd, Ordered
<1> QED BY <1>1, PageTyped, PageMarked, PagePassesOver DEF LogInd, LogInv

------------------------------------------------------------------------------
(* Steps *)

LEMMA OpenKeeps == ASSUME LogInd, Open PROVE LogInd'
<1>1. LogTypeOK /\ Ordered
  BY DEF LogInd, LogInv
<1>2. CASE \E n \in Tails : Build(Tail0(n))
  <2>1. PICK n \in Tails : Build(Tail0(n))
    BY <1>2
  <2>2. Window(Tail0(n))
    BY <1>1, LogAssumption, TailIsWindow
  <2> QED BY <2>1, <2>2, BuildKeeps DEF Open
<1>3. CASE \E t \in 0..now : Build(Since(t))
  <2>1. PICK t \in 0..now : Build(Since(t))
    BY <1>3
  <2>2. Window(Since(t))
    BY <1>1, SinceIsWindow DEF LogTypeOK
  <2> QED BY <2>1, <2>2, BuildKeeps DEF Open
<1> QED BY <1>2, <1>3 DEF Open

\* The window of a viewer that comes back.
LEMMA PollIsWindow ==
  ASSUME LogTypeOK, Ordered
  PROVE  Window(Since(cursor.ts - Rewind))
<1>1. cursor.ts \in -1..MaxNow /\ MaxNow \in Nat /\ Rewind \in Nat
  BY LogAssumption DEF LogTypeOK, Cursor
<1>2. cursor.ts - Rewind \in Int
  BY <1>1
<1> QED BY <1>2, SinceIsWindow

LEMMA PollKeeps == ASSUME LogInd, Poll PROVE LogInd'
<1>1. Window(Since(cursor.ts - Rewind))
  BY PollIsWindow DEF LogInd, LogInv
<1> QED BY <1>1, BuildKeeps DEF Poll

\* A line more, at the end and not before the others.
LEMMA WriteKeeps == ASSUME LogInd, Write PROVE LogInd'
<1>1. LogTypeOK /\ MarkInv /\ Ordered /\ OnlyTwinsSkipped
  BY DEF LogInd, LogInv
<1>2. PICK e \in BOOLEAN, x \in Texts :
        lines' = Append(lines, [at |-> now, entry |-> e, text |-> x])
  BY LogAssumption DEF Write
<1> DEFINE w == [at |-> now, entry |-> e, text |-> x]
           b == Len(lines)
<1>3. /\ lines' = Append(lines, w) /\ w \in Line /\ w.at = now /\ lines \in Seq(Line)
      /\ now \in 0..MaxNow /\ now \in Nat
  BY <1>1, <1>2, LogAssumption DEF Line, LogTypeOK
<1> HIDE DEF w
<1>4. /\ lines' \in Seq(Line) /\ Len(lines') = b + 1 /\ b \in Nat
      /\ lines'[b + 1] = w /\ \A i \in 1..b : lines'[i] = lines[i]
  BY <1>3
<1>5. /\ runtime' = runtime /\ lo' = lo /\ now' = now /\ cursor' = cursor /\ page' = page
      /\ seen' = seen /\ marked' = marked /\ b < MaxLines
  BY DEF Write, Viewer
<1>6. LogTypeOK'
  <2>1. Len(lines') <= MaxLines /\ 1..b \subseteq 1..Len(lines') /\ 0..b \subseteq 0..Len(lines')
    BY <1>4, <1>5, LogAssumption
  <2> QED BY <1>1, <1>4, <1>5, <2>1 DEF LogTypeOK
<1>7. Ordered'
  <2>1. SUFFICES ASSUME NEW j \in 1..b + 1
                 PROVE  lines'[j].at <= now /\ \A i \in 1..j : lines'[i].at <= lines'[j].at
    BY <1>4, <1>5 DEF Ordered
  <2>2. j \in 1..b \/ j = b + 1
    BY <1>4
  <2>3. CASE j \in 1..b
    <3>1. \A i \in 1..j : i \in 1..b
      BY <1>4, <2>3
    <3> QED BY <1>1, <1>4, <2>3, <3>1 DEF Ordered
  <2>4. CASE j = b + 1
    <3>1. lines'[j].at = now
      BY <1>3, <1>4, <2>4
    <3>2. \A i \in 1..j : i \in 1..b \/ i = j
      BY <1>4, <2>4
    <3>3. \A i \in 1..b : lines'[i].at <= now
      BY <1>1, <1>4 DEF Ordered
    <3> QED BY <1>3, <3>1, <3>2, <3>3
  <2> QED BY <2>2, <2>3, <2>4
<1>8. MarkInv'
  <2>1. marked # 0 => lines'[marked] = lines[marked]
    BY <1>1, <1>4 DEF LogTypeOK
  <2> QED BY <1>1, <1>5, <2>1 DEF MarkInv
<1>9. OnlyTwinsSkipped'
  <2>1. SUFFICES ASSUME NEW y \in 1..b + 1, y \notin seen, NEW z \in seen, z < y, y < marked,
                        lines'[y].entry
                 PROVE  Twin(y)'
    BY <1>4, <1>5 DEF OnlyTwinsSkipped
  <2>2. marked \in 0..b
    BY <1>1, <1>4 DEF LogTypeOK
  <2>3. y \in 1..b
    BY <1>4, <2>1, <2>2
  <2>4. Twin(y)
    BY <1>1, <1>4, <2>1, <2>3 DEF OnlyTwinsSkipped
  <2>5. PICK k \in y..b, s \in seen :
          s < y /\ lines[s] = lines[k] /\ lines[y].at = lines[k].at
    BY <2>4 DEF Twin
  <2>6. k \in 1..b /\ s \in 1..b /\ k \in y..b + 1
    BY <1>1, <1>4, <2>3, <2>5 DEF LogTypeOK
  <2> QED BY <1>4, <1>5, <2>3, <2>5, <2>6 DEF Twin
<1> QED BY <1>6, <1>7, <1>8, <1>9 DEF LogInd, LogInv

\* What a step does not touch stays as it was.
LEMMA LogStays ==
  ASSUME LogInd, UNCHANGED <<runtime, lines, cursor, page, seen, marked>>,
         lo' \in 0..Len(lines), now' \in 0..MaxNow, now' >= now
  PROVE  LogInd'
<1>1. LogTypeOK /\ MarkInv /\ Ordered /\ OnlyTwinsSkipped
  BY DEF LogInd, LogInv
<1>2. LogTypeOK'
  BY <1>1 DEF LogTypeOK
<1>3. Ordered'
  <2>1. \A j \in 1..Len(lines) : lines[j].at \in Nat /\ lines[j].at <= now
    BY <1>1, LineType DEF Ordered
  <2>2. now \in Nat /\ now' \in Nat
    BY <1>1, LogAssumption DEF LogTypeOK
  <2>3. \A j \in 1..Len(lines) : lines[j].at <= now'
    BY <2>1, <2>2
  <2> QED BY <1>1, <2>3 DEF Ordered
<1>4. MarkInv' /\ OnlyTwinsSkipped'
  BY <1>1 DEF MarkInv, OnlyTwinsSkipped, Twin
<1> QED BY <1>2, <1>3, <1>4 DEF LogInd, LogInv

LEMMA NoneIsTyped == NoCursor \in Cursor /\ NoPage \in Page
<1>1. -1 \in -1..MaxNow /\ 0 \in Nat
  BY LogAssumption
<1>2. <<FALSE, "">> \in BOOLEAN \X (Texts \cup {""})
  OBVIOUS
<1>3. NoCursor \in Cursor
  BY <1>1, <1>2 DEF NoCursor, Cursor
<1>4. NoPage \in Page
  BY DEF NoPage, Page
<1> QED BY <1>3, <1>4

LEMMA LeaveKeeps == ASSUME LogInd, Leave PROVE LogInd'
<1>1. LogTypeOK /\ Ordered
  BY DEF LogInd, LogInv
<1>2. NoCursor \in Cursor /\ NoPage \in Page
  BY NoneIsTyped
<1>3. page'.delivered = {} /\ page'.shown = {} /\ Cardinality({}) <= Limit
  BY FS_EmptySet, LogAssumption DEF Leave, NoPage
<1>4. LogTypeOK'
  BY <1>1, <1>2, <1>3 DEF LogTypeOK, Leave
<1>5. MarkInv' /\ OnlyTwinsSkipped' /\ Ordered'
  BY <1>1 DEF MarkInv, OnlyTwinsSkipped, Ordered, Leave
<1> QED BY <1>4, <1>5 DEF LogInd, LogInv

LEMMA LogStarts == Init => LogInd
<1> SUFFICES ASSUME Init PROVE LogInd
  OBVIOUS
<1>1. NoCursor \in Cursor /\ NoPage \in Page
  BY NoneIsTyped
<1>2. page.delivered = {} /\ page.shown = {} /\ Cardinality({}) <= Limit
  BY FS_EmptySet, LogAssumption DEF Init, NoPage
<1>3. LogTypeOK
  BY <1>1, <1>2, LogAssumption DEF LogTypeOK, Init
<1>4. MarkInv /\ OnlyTwinsSkipped /\ Ordered
  BY DEF MarkInv, OnlyTwinsSkipped, Ordered, Init
<1> QED BY <1>3, <1>4 DEF LogInd, LogInv

LEMMA LogStep == LogInd /\ [Next]_vars => LogInd'
<1> SUFFICES ASSUME LogInd, [Next]_vars PROVE LogInd'
  OBVIOUS
<1>1. LogTypeOK
  BY DEF LogInd, LogInv
<1>2. CASE Rotate \/ Recreate
  <2>1. lo' \in 0..Len(lines) /\ now' = now /\ now \in 0..MaxNow
    BY <1>1, <1>2 DEF Rotate, Recreate, LogTypeOK
  <2>2. now' >= now
    BY <2>1, LogAssumption
  <2> QED BY <1>2, <2>1, <2>2, LogStays DEF Rotate, Recreate, Viewer
<1>3. CASE Tick
  <2>1. now' \in 0..MaxNow /\ now' >= now /\ lo' \in 0..Len(lines)
    BY <1>1, <1>3, LogAssumption DEF Tick, LogTypeOK
  <2> QED BY <1>3, <2>1, LogStays DEF Tick, Viewer
<1>4. CASE UNCHANGED vars
  <2>1. now' \in 0..MaxNow /\ now' >= now /\ lo' \in 0..Len(lines)
    BY <1>1, <1>4, LogAssumption DEF vars, LogTypeOK
  <2> QED BY <1>4, <2>1, LogStays DEF vars
<1> QED BY <1>2, <1>3, <1>4, OpenKeeps, PollKeeps, LeaveKeeps, WriteKeeps DEF Next

------------------------------------------------------------------------------
(* Theorems *)

\* The state of a viewer is well formed, the numbers it is answered are never
\* below zero, and its cursor passes over no entry but one a twin hides.
THEOREM LogIsFollowed == Spec => []LogInv
<1>1. LogInd => LogInv
  BY DEF LogInd
<1> QED BY <1>1, LogStarts, LogStep, PTL DEF Spec

\* While the window holds the cursor's line, the page begins at it or after.
LEMMA HeldIsFound ==
  ASSUME LogInd, Held
  PROVE  LET ids == Since(cursor.ts - Rewind)
         IN  marked \in Scan(ids) /\ marked <= At(ids) /\ At(ids) # 0 /\ ~Lost(ids)
<1> DEFINE ids == Since(cursor.ts - Rewind)
<1>1. LogTypeOK /\ MarkInv /\ Window(ids)
  BY PollIsWindow DEF LogInd, LogInv
<1>2. marked \in ids /\ lines[marked].entry /\ cursor.set /\ marked # 0
  BY DEF Held
<1> HIDE DEF ids
<1>3. marked \in Scan(ids) /\ marked \in Nat
  BY <1>1, <1>2, WindowType DEF Scan
<1>4. lines[marked].at = cursor.ts /\ Mark(ids, marked) = cursor.mark
  BY <1>1, <1>2 DEF MarkInv, Mark
<1>5. marked <= At(ids) /\ At(ids) \in Nat
  BY <1>1, <1>2, <1>3, <1>4, FoundIsLast, AtIsPlace DEF At
<1>6. At(ids) # 0
  BY <1>2, <1>3, <1>5
<1> QED BY <1>3, <1>5, <1>6 DEF ids, Lost

\* The pages of a viewer that has a cursor.
LEMMA PageOrLeave ==
  ASSUME [Next]_vars, page' # page, cursor.set
  PROVE  Leave \/ Build(Since(cursor.ts - Rewind))
BY DEF Next, vars, Viewer, Open, Poll, Write, Rotate, Recreate, Tick

LEMMA ResetStep ==
  ASSUME LogInd, [Next]_vars, Held, page' # page
  PROVE  ~page'.reset
<1>1. CASE Leave
  BY <1>1 DEF Leave, NoPage
<1>2. CASE Build(Since(cursor.ts - Rewind))
  BY <1>2, HeldIsFound, PageHas
<1> QED BY <1>1, <1>2, PageOrLeave DEF Held

\* A page is reset only when the window does not hold the cursor's line.
THEOREM ResetsAreReal == Spec => ResetIsReal
<1>1. LogInd /\ [Next]_vars => [Held /\ page' # page => ~page'.reset]_vars
  BY ResetStep
<1> QED BY <1>1, LogStarts, LogStep, PTL DEF Spec, ResetIsReal

LEMMA OnceStep ==
  ASSUME LogInd, [Next]_vars, Held, page' # page, seen' # {}, ~page'.reset
  PROVE  page'.delivered \cap seen = {}
<1> DEFINE ids == Since(cursor.ts - Rewind)
<1>1. LogTypeOK /\ Window(ids)
  BY PollIsWindow DEF LogInd, LogInv
<1>2. Build(ids)
  BY PageOrLeave DEF Held, Leave
<1>3. marked \in Scan(ids) /\ marked <= At(ids)
  BY HeldIsFound
<1>4. \A z \in seen : \A y \in marked + 1..z : ~lines[y].entry
  BY DEF Held
<1> HIDE DEF ids
<1>5. page'.delivered = Given(ids)
  BY <1>2, PageHas
<1>6. SUFFICES ASSUME NEW i \in Given(ids), i \in seen PROVE FALSE
  BY <1>5
<1> DEFINE h == EntryOf(ids, i)
<1>7. i \in ids /\ h > At(ids)
  BY <1>1, FreshIsGiven
<1>8. h \in Scan(ids) /\ h <= i
  BY <1>1, <1>7, HeadIsBefore
<1>9. /\ h \in Nat /\ i \in Nat /\ marked \in Nat /\ At(ids) \in Nat
      /\ marked \in ids /\ h \in ids
  BY <1>1, <1>3, <1>7, <1>8, WindowType, AtIsPlace
<1> HIDE DEF h
<1>10. h \in marked + 1..i /\ ~(h <= marked)
  BY <1>3, <1>7, <1>8, <1>9
<1>11. ~lines[h].entry
  BY <1>4, <1>6, <1>10
<1>12. h <= marked
  BY <1>8, <1>9, <1>11 DEF Scan
<1> QED BY <1>10, <1>12

LEMMA SeqStep ==
  ASSUME LogInd, [Next]_vars, cursor.set, page' # page, cursor'.set, ~page'.reset,
         page'.delivered # {}
  PROVE  /\ page'.first = cursor.scanned
         /\ cursor'.scanned = cursor.scanned + Cardinality(page'.delivered)
<1> DEFINE ids == Since(cursor.ts - Rewind)
<1>1. LogTypeOK /\ Window(ids)
  BY PollIsWindow DEF LogInd, LogInv
<1>2. Build(ids)
  <2>1. NoCursor.set = FALSE
    BY DEF NoCursor
  <2>2. Leave => cursor' = NoCursor
    BY DEF Leave
  <2>3. ~Leave
    BY <2>1, <2>2
  <2> QED BY <2>3, PageOrLeave
<1> HIDE DEF ids
<1>3. /\ page'.delivered = Given(ids) /\ page'.reset = Lost(ids)
      /\ page'.first = Offset(ids) + Cardinality(ids) - Cardinality(Given(ids))
  BY <1>2, PageHas
<1>4. At(ids) # 0 /\ Fresh(ids) # {}
  BY <1>1, <1>3, FreshIsGiven DEF Lost
<1>5. cursor'.scanned = Offset(ids) + Cardinality(ids)
  BY <1>2, <1>4, PageHas
<1> QED BY <1>1, <1>3, <1>4, <1>5, NumbersGoOn

\* No line comes again while the window holds the cursor's, and the numbers of
\* a session go on from page to page.
THEOREM PagesAreJoined == Spec => PagesJoin
<1>1. LogInd /\ [Next]_vars =>
        [Held /\ page' # page /\ seen' # {} /\ ~page'.reset =>
            page'.delivered \cap seen = {}]_vars
  BY OnceStep
<1>2. LogInd /\ [Next]_vars =>
        [cursor.set /\ page' # page /\ cursor'.set /\ ~page'.reset /\ page'.delivered # {} =>
            /\ page'.first = cursor.scanned
            /\ cursor'.scanned = cursor.scanned + Cardinality(page'.delivered)]_vars
  BY SeqStep
<1> QED BY <1>1, <1>2, LogStarts, LogStep, PTL DEF Spec, PagesJoin, NoneTwice, SeqContinues
==============================================================================
