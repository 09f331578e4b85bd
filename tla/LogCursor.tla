----------------------------- MODULE LogCursor -----------------------------
(***************************************************************************)
(* Following a container's log by cursor: GET /api/logs, internal/logs and *)
(* the log reads of internal/chaos.                                        *)
(*                                                                         *)
(* A viewer fetches page after page.  A page is built from a window of the *)
(* raw log that begins Rewind before the last line delivered; the cursor   *)
(* finds that line again by its time and a hash of its text.  An error     *)
(* answer changes nothing and is not a step.                               *)
(***************************************************************************)
EXTENDS Integers, Sequences, FiniteSetsExt

CONSTANTS Texts,     \* what an entry may say
          Traces,    \* and a line that is no entry
          Wanted,    \* the texts the viewer's filter keeps
          Rewind,    \* how far before the cursor a window begins, in ticks: 0
                     \*   when a tick is longer than that
          Ceiling,   \* lines one read of the log returns at most
          Tails,     \* line counts a viewer may begin with
          Limit,     \* entries a page returns at most
          MaxLines,  \* bound: physical lines written
          MaxNow     \* bound: ticks of the runtime's clock

ASSUME LogAssumption ==
    /\ Traces \subseteq Texts /\ Wanted \subseteq Texts /\ Tails \subseteq Nat \ {0}
    /\ Rewind \in Nat /\ Ceiling \in Nat \ {0} /\ Limit \in Nat \ {0}
    /\ MaxLines \in Nat /\ MaxNow \in Nat

VARIABLES runtime,  \* "socket" or "cli": where the ceiling cuts
          lines,    \* every physical line written, [at, entry, text]; a line
                    \*   is named by its place in it
          lo,       \* the first lo lines are gone: rotated, or the container's
                    \*   that was here before
          now,
          cursor,   \* the viewer's: [set, ts, mark, scanned]
          page,     \* its last page
          seen,     \* the lines its session has been delivered
          marked    \* the line its cursor marks, 0 if none

vars == <<runtime, lines, lo, now, cursor, page, seen, marked>>

\* The zero time is before every line's.
NoCursor == [set |-> FALSE, ts |-> -1, mark |-> <<FALSE, "">>, scanned |-> 0]
NoPage == [reset |-> FALSE, first |-> 0, delivered |-> {}, shown |-> {}, dropped |-> 0]

Line == [at : 0..MaxNow, entry : BOOLEAN, text : Texts]
Cursor == [set : BOOLEAN, ts : -1..MaxNow, mark : BOOLEAN \X (Texts \cup {""}), scanned : Nat]
Page == [reset : BOOLEAN, first : Nat, delivered : SUBSET (1..MaxLines),
         shown : SUBSET (1..MaxLines), dropped : Nat]

LogTypeOK ==
    /\ runtime \in {"socket", "cli"}
    /\ lines \in Seq(Line) /\ Len(lines) <= MaxLines
    /\ lo \in 0..Len(lines) /\ now \in 0..MaxNow
    /\ cursor \in Cursor /\ page \in Page
    /\ seen \subseteq 1..Len(lines) /\ marked \in {0} \cup seen
    /\ page.delivered \subseteq seen /\ page.shown \subseteq page.delivered
    /\ Cardinality(page.shown) <= Limit

Init ==
    /\ runtime \in {"socket", "cli"}
    /\ lines = <<>> /\ lo = 0 /\ now = 0
    /\ cursor = NoCursor /\ page = NoPage /\ seen = {} /\ marked = 0

----------------------------------------------------------------------------
(* The window: a set of lines, in the order of their places                *)

FirstOf(ids, n) == {i \in ids : Cardinality({j \in ids : j < i}) < n}
LastOf(ids, n) == {i \in ids : Cardinality({j \in ids : j > i}) < n}

\* The lines still there.
Kept == lo + 1..Len(lines)

\* The engine's socket streams the oldest first, so its ceiling loses the
\* newest; the command line's output keeps the newest.
Cut(ids) == IF runtime = "socket" THEN FirstOf(ids, Ceiling) ELSE LastOf(ids, Ceiling)

\* Exactly one of since and tail is asked for.
Since(t) == Cut({i \in Kept : lines[i].at >= t})
Tail0(n) == Cut(LastOf(Kept, n))

\* Scan: the entries of a window, each named by its first line.  A line that is
\* no entry goes with the entry before it, if the window has one; otherwise it
\* stands alone.
Scan(ids) == {i \in ids : lines[i].entry \/ \A j \in ids : i <= j}

\* The lines of some of the window's entries.
Raw(ids, es) == {i \in ids : Max({e \in Scan(ids) : e <= i}) \in es}

\* The identity of an entry, without its continuations; (a mutant) with them.
MarkWith(ids, e) == <<lines[e].entry, lines[e].text, Cardinality(Raw(ids, {e}))>>
Mark(ids, e) == <<lines[e].entry, lines[e].text>>

\* The entry the cursor marks: the last that has its time and mark, or 0.
\* (mutants) By time alone; the first one.
LocateByTime(ids) ==
    LET found == {e \in Scan(ids) : lines[e].at = cursor.ts}
    IN  IF found = {} THEN 0 ELSE Max(found)
LocateFirst(ids) ==
    LET found == {e \in Scan(ids) : lines[e].at = cursor.ts /\ Mark(ids, e) = cursor.mark}
    IN  IF found = {} THEN 0 ELSE Min(found)
Locate(ids) ==
    LET found == {e \in Scan(ids) : lines[e].at = cursor.ts /\ Mark(ids, e) = cursor.mark}
    IN  IF found = {} THEN 0 ELSE Max(found)

\* A line that could not be parsed is always kept.
Match(e) == lines[e].entry => lines[e].text \in Wanted

\* The newest entries, up to the limit.
Newest(es) == LastOf(es, Limit)

\* Lines the cursor had passed; (a mutant) entries counted for lines.
ConsumedEntries(ids, at) == Cardinality({e \in Scan(ids) : e <= at})
Consumed(ids, at) == Cardinality(Raw(ids, {e \in Scan(ids) : e <= at}))

----------------------------------------------------------------------------
(* Pages                                                                   *)

\* Build: what comes after the cursor, or everything if it cannot be found.
Build(ids) ==
    LET at == IF cursor.set THEN Locate(ids) ELSE 0
        reset == cursor.set /\ at = 0
        fresh == {e \in Scan(ids) : e > at}
        offset == IF at > 0 THEN cursor.scanned - Consumed(ids, at) ELSE 0
        delivered == Raw(ids, fresh)
        match == {e \in fresh : Match(e)}
    IN  /\ page' = [reset |-> reset, delivered |-> delivered, shown |-> Newest(match),
                    first |-> offset + Cardinality(ids) - Cardinality(delivered),
                    dropped |-> Cardinality(match) - Cardinality(Newest(match))]
        /\ seen' = IF cursor.set /\ ~reset THEN seen \cup delivered ELSE delivered
        /\ IF fresh # {}
           THEN /\ cursor' = [set |-> TRUE, ts |-> lines[Max(fresh)].at,
                              mark |-> Mark(ids, Max(fresh)), scanned |-> offset + Cardinality(ids)]
                /\ marked' = Max(fresh)
           ELSE /\ cursor' = [cursor EXCEPT !.set = TRUE]
                /\ marked' = IF reset THEN 0 ELSE marked

\* A page of a viewer: its first of the last lines or since a moment, then on
\* from its cursor.
Open ==
    /\ ~cursor.set
    /\ \/ \E n \in Tails : Build(Tail0(n))
       \/ \E t \in 0..now : Build(Since(t))
    /\ UNCHANGED <<runtime, lines, lo, now>>

Poll == /\ cursor.set
        /\ Build(Since(cursor.ts - Rewind))
        /\ UNCHANGED <<runtime, lines, lo, now>>

\* The viewer changes what it looks at and begins again.
Leave == /\ cursor.set /\ cursor' = NoCursor /\ page' = NoPage /\ seen' = {} /\ marked' = 0
         /\ UNCHANGED <<runtime, lines, lo, now>>

----------------------------------------------------------------------------
(* The container, external                                                 *)

Viewer == <<cursor, page, seen, marked>>

Write == /\ Len(lines) < MaxLines
         /\ \E e \in BOOLEAN : \E x \in IF e THEN Texts ELSE Traces :
              lines' = Append(lines, [at |-> now, entry |-> e, text |-> x])
         /\ UNCHANGED <<runtime, lo, now, Viewer>>

Rotate == /\ lo < Len(lines) /\ lo' = lo + 1
          /\ UNCHANGED <<runtime, lines, now, Viewer>>

Recreate == /\ lo < Len(lines) /\ lo' = Len(lines)
            /\ UNCHANGED <<runtime, lines, now, Viewer>>

Tick == /\ now < MaxNow /\ now' = now + 1
        /\ UNCHANGED <<runtime, lines, lo, Viewer>>

Next == Open \/ Poll \/ Leave \/ Write \/ Rotate \/ Recreate \/ Tick

Spec == Init /\ [][Next]_vars

----------------------------------------------------------------------------
(* Properties                                                              *)

\* The cursor's line is in the window: it was not rotated away, the ceiling
\* does not cut it off, and it is an entry, not the rest of a trace whose
\* entry the first window of the session did not reach.  What the session has
\* been delivered after it is its trace.  (A page that found a twin instead may
\* have led the session back.)
Held == /\ cursor.set /\ marked # 0 /\ lines[marked].entry
        /\ marked \in Since(cursor.ts - Rewind)
        /\ \A z \in seen : \A y \in marked + 1..z : ~lines[y].entry

\* A session, from its first page or from a reset to the next, is delivered
\* no line twice (cursor.go:13, page.go:119), though every window overlaps
\* the one before.
NoneTwice ==
    [][Held /\ page' # page /\ seen' # {} /\ ~page'.reset =>
          page'.delivered \cap seen = {}]_vars

\* x was passed over because a line after it is the twin of one delivered
\* before it: the same entry at the same time.
Twin(x) == \E y \in x..Len(lines), z \in seen :
              z < x /\ lines[z] = lines[y] /\ lines[x].at = lines[y].at

\* A session's cursor passes over no line but what an entry's trace gained
\* after the entry was delivered, and what a repeated line hides.
OnlyTwinsSkipped ==
    \A x \in 1..Len(lines) :
        x \notin seen /\ (\E z \in seen : z < x) /\ x < marked =>
            ~lines[x].entry \/ Twin(x)

\* The state is well formed and no line is lost to the session (page.go:78-134).
LogInv == LogTypeOK /\ OnlyTwinsSkipped

\* A page is reset (page.go:78) only when the window does not hold the
\* cursor's line any more.
ResetIsReal == [][Held /\ page' # page => ~page'.reset]_vars

\* The numbers of a session (parse.go:49) have no gap and no repetition from
\* page to page, in spite of windows that overlap and of the rest of a trace
\* that is folded into lines already numbered.
SeqContinues ==
    [][cursor.set /\ page' # page /\ cursor'.set /\ ~page'.reset /\ page'.delivered # {} =>
          /\ page'.first = cursor.scanned
          /\ cursor'.scanned = cursor.scanned + Cardinality(page'.delivered)]_vars

\* Pages join without a seam: no line comes again, no number either
\* (cursor.go:13, parse.go:49).
PagesJoin == NoneTwice /\ SeqContinues
=============================================================================
