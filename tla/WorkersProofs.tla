---------------------------- MODULE WorkersProofs ----------------------------
(***************************************************************************)
(* The invariants of the four workers of MCWorkers, for every value of     *)
(* their constants: the sustained send, the wallet's services, the funding *)
(* of the wallet and the mining metronome.  A step is one of one worker,   *)
(* so each has an inductive invariant of its own over its own variables.   *)
(* SendOne, FundOne and LinkRest say once what a step of one run, of one   *)
(* call and of what is neither the storage nor walletd leaves alone.       *)
(***************************************************************************)
EXTENDS MCWorkers, FiniteSetTheorems, WellFoundedInduction, TLAPS

------------------------------------------------------------------------------
(* The sustained send *)

\* The parts of a run: where it is decides what it may still have in hand, and
\* once its context is over the jobs left to it are those queued and on offer.
SendRun(g) ==
  /\ prod[g] \notin {"none", "done"} => running /\ g = gen
  /\ g > gen => prod[g] = "none"
  /\ g = gen /\ running => prod[g] \notin {"none", "done"}
  /\ prod[g] \in {"none", "start", "end", "done"} => jobs[g] = 0 /\ busy[g] = 0
  /\ prod[g] \in {"none", "start"} => begun[g] = 0 /\ late[g] = 0
  /\ begun[g] + jobs[g] <= MaxSends
  /\ late[g] <= begun[g]
  /\ ctx[g] = "live" => late[g] = 0
  /\ late[g] + jobs[g] <= Workers + 1
  /\ prod[g] = "offer" => late[g] + jobs[g] <= Workers
  /\ ctx[g] = "stopped" => g \in asked
  /\ g \in stops => g \in asked

\* The counters are those of the current run.
SendBooks ==
  IF gen = 0 THEN attempted = 0 /\ ended = 0 /\ ~running
  ELSE attempted = begun[gen] /\ ended + busy[gen] = attempted

SendTypes ==
  /\ running \in BOOLEAN /\ draining \in BOOLEAN
  /\ gen \in 0..MaxGen
  /\ reason \in {"", "duration", "stopped"}
  /\ attempted \in Nat /\ ended \in Nat
  /\ prod \in [Send!Gens -> {"none", "start", "pace", "offer", "drain", "end", "done"}]
  /\ ctx \in [Send!Gens -> {"live", "stopped", "expired"}]
  /\ jobs \in [Send!Gens -> 0..Workers] /\ closed \in [Send!Gens -> BOOLEAN]
  /\ busy \in [Send!Gens -> 0..Workers]
  /\ stops \in SUBSET Send!Gens /\ asked \in SUBSET Send!Gens
  /\ begun \in [Send!Gens -> Nat] /\ late \in [Send!Gens -> Nat]

SendInd == SendTypes /\ SendBooks /\ \A g \in Send!Gens : SendRun(g)

LEMMA SendConstants ==
  /\ Workers \in Nat /\ Workers >= 1
  /\ MaxGen \in Nat /\ MaxGen >= 1
  /\ MaxSends \in Nat /\ MaxSends >= 1
  /\ Send!Gens = 1..MaxGen
BY WorkersAssumption DEF Send!SendAssumption, Send!Gens

\* The numbers of one run.
LEMMA SendRow ==
  ASSUME SendTypes, NEW g \in Send!Gens
  PROVE  /\ jobs[g] \in Nat /\ jobs[g] <= Workers
         /\ busy[g] \in Nat /\ busy[g] <= Workers
         /\ begun[g] \in Nat /\ late[g] \in Nat
         /\ ctx[g] \in {"live", "stopped", "expired"}
         /\ prod[g] \in {"none", "start", "pace", "offer", "drain", "end", "done"}
         /\ g \in Nat /\ g >= 1 /\ g <= MaxGen
         /\ gen \in Nat
<1>1. jobs[g] \in 0..Workers /\ busy[g] \in 0..Workers /\ g \in 1..MaxGen /\ gen \in 0..MaxGen
  BY SendConstants DEF SendTypes
<1>2. Workers \in Nat /\ MaxGen \in Nat
  BY SendConstants
<1>3. begun[g] \in Nat /\ late[g] \in Nat /\ ctx[g] \in {"live", "stopped", "expired"}
      /\ prod[g] \in {"none", "start", "pace", "offer", "drain", "end", "done"}
  BY DEF SendTypes
<1> QED BY <1>1, <1>2, <1>3

\* The current run, if there has been one.
LEMMA SendCurrent == ASSUME SendTypes, gen # 0 PROVE gen \in Send!Gens
<1>1. gen \in 0..MaxGen /\ Send!Gens = 1..MaxGen /\ MaxGen \in Nat
  BY SendConstants DEF SendTypes
<1> QED BY <1>1

LEMMA SendIndImplies == SendInd => SendInv /\ StopIsExact
<1> SUFFICES ASSUME SendInd PROVE SendInv /\ StopIsExact
  OBVIOUS
<1>1. SendTypes /\ SendBooks /\ \A g \in Send!Gens : SendRun(g)
  BY DEF SendInd
<1>2. Workers \in Nat /\ MaxSends \in Nat
  BY SendConstants
<1>3. ASSUME NEW g \in Send!Gens
      PROVE  /\ begun[g] \in 0..MaxSends /\ late[g] \in 0..MaxSends
             /\ late[g] <= Workers + 1
             /\ ctx[g] = "stopped" => g \in asked
  <2>1. /\ begun[g] + jobs[g] <= MaxSends /\ late[g] <= begun[g]
        /\ late[g] + jobs[g] <= Workers + 1
        /\ ctx[g] = "stopped" => g \in asked
    BY <1>1 DEF SendRun
  <2>2. jobs[g] \in Nat /\ begun[g] \in Nat /\ late[g] \in Nat
    BY <1>1, SendRow
  <2> QED BY <1>2, <2>1, <2>2
<1>4. attempted \in 0..MaxSends /\ ended \in 0..attempted
  <2>1. CASE gen = 0
    BY <1>1, <1>2, <2>1 DEF SendBooks
  <2>2. CASE gen # 0
    <3>1. gen \in Send!Gens /\ attempted = begun[gen] /\ ended + busy[gen] = attempted
      BY <1>1, <2>2, SendCurrent DEF SendBooks
    <3>2. busy[gen] \in Nat /\ ended \in Nat
      BY <1>1, <3>1, SendRow DEF SendTypes
    <3>3. begun[gen] \in 0..MaxSends
      BY <1>3, <3>1
    <3> QED BY <3>1, <3>2, <3>3
  <2> QED BY <2>1, <2>2
<1>5. Send!SendTypeOK
  BY <1>1, <1>3, <1>4 DEF SendTypes, Send!SendTypeOK
<1>6. Send!OneSend
  BY <1>1 DEF SendRun, Send!OneSend
<1>7. ASSUME ~running
      PROVE  attempted = ended /\ \A g \in Send!Gens : busy[g] = 0 /\ jobs[g] = 0
  <2>1. \A g \in Send!Gens : busy[g] = 0 /\ jobs[g] = 0
    BY <1>1, <1>7 DEF SendRun
  <2>2. CASE gen = 0
    BY <1>1, <2>1, <2>2 DEF SendBooks
  <2>3. CASE gen # 0
    <3>1. gen \in Send!Gens /\ ended + busy[gen] = attempted
      BY <1>1, <2>3, SendCurrent DEF SendBooks
    <3>2. busy[gen] = 0 /\ ended \in Nat
      BY <1>1, <2>1, <3>1 DEF SendTypes
    <3> QED BY <2>1, <3>1, <3>2
  <2> QED BY <2>2, <2>3
<1>8. Send!BooksBalance
  BY <1>7 DEF Send!BooksBalance
<1>9. Send!StopHitsItsRun /\ Send!StopBoundsSends
  BY <1>3 DEF Send!StopHitsItsRun, Send!StopBoundsSends
<1> QED BY <1>5, <1>6, <1>8, <1>9 DEF SendInv, StopIsExact

LEMMA SendInit == Send!Init => SendInd
<1> SUFFICES ASSUME Send!Init PROVE SendInd
  OBVIOUS
<1>1. Workers \in Nat /\ MaxGen \in Nat /\ MaxSends \in Nat /\ Send!Gens = 1..MaxGen
  BY SendConstants
<1>2. /\ running = FALSE /\ draining = FALSE /\ gen = 0 /\ reason = ""
      /\ attempted = 0 /\ ended = 0 /\ stops = {} /\ asked = {}
  BY DEF Send!Init
<1>3. /\ prod = [g \in Send!Gens |-> "none"] /\ ctx = [g \in Send!Gens |-> "live"]
      /\ jobs = [g \in Send!Gens |-> 0] /\ closed = [g \in Send!Gens |-> FALSE]
      /\ busy = [g \in Send!Gens |-> 0]
      /\ begun = [g \in Send!Gens |-> 0] /\ late = [g \in Send!Gens |-> 0]
  BY DEF Send!Init
<1>4. 0 \in 0..Workers /\ 0 \in 0..MaxGen /\ 0 + 0 <= MaxSends /\ 0 + 0 <= Workers + 1
  BY <1>1
<1>5. SendTypes
  BY <1>2, <1>3, <1>4 DEF SendTypes
<1>6. ASSUME NEW g \in Send!Gens PROVE SendRun(g)
  <2>1. prod[g] = "none" /\ ctx[g] = "live" /\ jobs[g] = 0 /\ busy[g] = 0
        /\ begun[g] = 0 /\ late[g] = 0
    BY <1>3
  <2>2. g # gen
    <3>1. 0 \notin 1..MaxGen
      BY <1>1
    <3> QED BY <1>1, <1>2, <3>1
  <2>3. begun[g] + jobs[g] <= MaxSends /\ late[g] <= begun[g] /\ late[g] + jobs[g] <= Workers + 1
    BY <1>1, <2>1
  <2>4. g \notin stops /\ ~running
    BY <1>2
  <2> QED BY <2>1, <2>2, <2>3, <2>4 DEF SendRun
<1>7. SendBooks
  BY <1>2 DEF SendBooks
<1> QED BY <1>5, <1>6, <1>7 DEF SendInd

\* A step of one run, between two starts.
LEMMA SendOne ==
  ASSUME SendInd, NEW g \in Send!Gens, SendTypes', SendBooks', SendRun(g)',
         UNCHANGED <<running, gen>>, asked \subseteq asked',
         stops' \subseteq stops \cup {g},
         \A h \in Send!Gens : h # g =>
           /\ prod'[h] = prod[h] /\ ctx'[h] = ctx[h] /\ jobs'[h] = jobs[h]
           /\ busy'[h] = busy[h] /\ begun'[h] = begun[h] /\ late'[h] = late[h]
  PROVE  SendInd'
<1>1. ASSUME NEW h \in Send!Gens, h # g PROVE SendRun(h)'
  BY <1>1 DEF SendInd, SendRun
<1> QED BY <1>1 DEF SendInd

\* Steps of a run between its launch and its end that count nothing.
LEMMA SendGoes ==
  ASSUME SendInd, NEW g \in Send!Gens,
         Send!Launch(g) \/ Send!Pace(g) \/ Send!Drained(g)
  PROVE  SendInd'
<1>1. SendTypes /\ SendRun(g)
  BY DEF SendInd
<1>2. PICK p \in {"pace", "offer", "drain", "end"} :
        /\ prod' = [prod EXCEPT ![g] = p]
        /\ p = "pace" => prod[g] = "start"
        /\ p = "offer" => prod[g] = "pace" /\ ctx[g] = "live"
        /\ p = "drain" => prod[g] = "pace"
        /\ p = "end" => prod[g] = "drain" /\ jobs[g] = 0 /\ busy[g] = 0
  BY DEF Send!Launch, Send!Pace, Send!Drained, Send!Goes, Send!Drain
<1>3. UNCHANGED <<running, draining, gen, reason, attempted, ended, ctx, jobs, busy, stops,
                  asked, begun, late>>
  BY DEF Send!Launch, Send!Pace, Send!Drained, Send!lockVars, Send!countVars, Send!history
<1>4. closed' \in [Send!Gens -> BOOLEAN]
  BY <1>1 DEF SendTypes, Send!Launch, Send!Pace, Send!Drained, Send!Drain
<1>5. SendTypes' /\ prod'[g] = p /\ \A h \in Send!Gens : h # g => prod'[h] = prod[h]
  BY <1>1, <1>2, <1>3, <1>4 DEF SendTypes
<1>6. SendRun(g)'
  <2>1. p = "offer" => late[g] + jobs[g] <= Workers
    <3>1. late[g] = 0 \/ p # "offer"
      BY <1>1, <1>2 DEF SendRun
    <3> QED BY <1>1, <3>1, SendRow, SendConstants
  <2> QED BY <1>1, <1>2, <1>3, <1>5, <2>1 DEF SendRun
<1>7. SendBooks'
  BY <1>3 DEF SendInd, SendBooks
<1> QED BY <1>3, <1>5, <1>6, <1>7, SendOne

LEMMA SendOffer ==
  ASSUME SendInd, NEW g \in Send!Gens, Send!Offer(g) PROVE SendInd'
<1>1. SendTypes /\ SendRun(g) /\ prod[g] = "offer"
  BY DEF SendInd, Send!Offer
<1>2. UNCHANGED <<running, draining, gen, reason, attempted, ended, ctx, busy, stops,
                  asked, begun, late>>
  BY DEF Send!Offer, Send!lockVars, Send!countVars, Send!history
<1>3. SendBooks'
  BY <1>2 DEF SendInd, SendBooks
<1>4. CASE jobs[g] < Workers /\ begun[g] + jobs[g] < MaxSends
           /\ jobs' = [jobs EXCEPT ![g] = @ + 1] /\ prod' = [prod EXCEPT ![g] = "pace"]
           /\ UNCHANGED closed
  <2>1. jobs[g] \in Nat /\ begun[g] \in Nat /\ late[g] \in Nat
        /\ Workers \in Nat /\ MaxSends \in Nat
    BY <1>1, SendRow, SendConstants
  <2>2. jobs[g] + 1 \in 0..Workers
    BY <1>4, <2>1
  <2>3. SendTypes' /\ prod'[g] = "pace" /\ jobs'[g] = jobs[g] + 1
        /\ \A h \in Send!Gens : h # g => prod'[h] = prod[h] /\ jobs'[h] = jobs[h]
    BY <1>1, <1>2, <1>4, <2>2 DEF SendTypes
  <2>4. late[g] + jobs[g] <= Workers
    BY <1>1 DEF SendRun
  <2>5. begun[g] + (jobs[g] + 1) <= MaxSends /\ late[g] + (jobs[g] + 1) <= Workers + 1
    BY <1>4, <2>1, <2>4
  <2>6. SendRun(g)'
    BY <1>1, <1>2, <2>3, <2>5 DEF SendRun
  <2> QED BY <1>2, <1>3, <2>3, <2>6, SendOne
<1>5. CASE prod' = [prod EXCEPT ![g] = "drain"] /\ closed' = [closed EXCEPT ![g] = TRUE]
           /\ UNCHANGED jobs
  <2>1. SendTypes' /\ prod'[g] = "drain" /\ \A h \in Send!Gens : h # g => prod'[h] = prod[h]
    BY <1>1, <1>2, <1>5 DEF SendTypes
  <2>2. SendRun(g)'
    BY <1>1, <1>2, <1>5, <2>1 DEF SendRun
  <2> QED BY <1>2, <1>3, <1>5, <2>1, <2>2, SendOne
<1> QED BY <1>4, <1>5 DEF Send!Offer, Send!Goes, Send!Drain

\* The end of a context is no step of the run.
LEMMA SendContext ==
  ASSUME SendInd, NEW g \in Send!Gens, Send!Cancel(g) \/ Send!Expire(g)
  PROVE  SendInd'
<1>1. SendTypes /\ SendRun(g)
  BY DEF SendInd
<1>2. UNCHANGED <<running, draining, gen, reason, attempted, ended, prod, jobs, closed, busy,
                  asked, begun, late>>
  BY DEF Send!Cancel, Send!Expire, Send!lockVars, Send!countVars, Send!history
<1>3. PICK x \in {"live", "stopped", "expired"} :
        /\ ctx' = [ctx EXCEPT ![g] = x]
        /\ x = "live" => ctx[g] = "live"
        /\ x = "stopped" => ctx[g] = "stopped" \/ g \in stops
  BY <1>1 DEF Send!Cancel, Send!Expire, SendTypes
<1>4. stops' \subseteq stops
  BY DEF Send!Cancel, Send!Expire
<1>5. SendTypes' /\ ctx'[g] = x /\ \A h \in Send!Gens : h # g => ctx'[h] = ctx[h]
  BY <1>1, <1>2, <1>3, <1>4 DEF SendTypes
<1>6. SendRun(g)'
  BY <1>1, <1>2, <1>3, <1>4, <1>5 DEF SendRun
<1>7. SendBooks'
  BY <1>2 DEF SendInd, SendBooks
<1> QED BY <1>2, <1>4, <1>5, <1>6, <1>7, SendOne

LEMMA SendTakeJob ==
  ASSUME SendInd, NEW g \in Send!Gens, Send!TakeJob(g) PROVE SendInd'
<1>1. SendTypes /\ SendRun(g) /\ SendBooks
  BY DEF SendInd
<1>2. /\ jobs[g] \in Nat /\ begun[g] \in Nat /\ late[g] \in Nat /\ busy[g] \in Nat
      /\ jobs[g] <= Workers /\ Workers \in Nat /\ MaxSends \in Nat
  BY <1>1, SendRow, SendConstants
<1>3. jobs[g] > 0 /\ busy[g] < Workers
  BY DEF Send!TakeJob
<1>4. prod[g] \in {"pace", "offer", "drain"} /\ g = gen /\ gen # 0
  BY <1>1, <1>2, <1>3, SendRow DEF SendRun
<1> DEFINE l == IF ctx[g] # "live" THEN late[g] + 1 ELSE late[g]
<1>5. /\ UNCHANGED <<running, draining, gen, reason, ended, prod, ctx, closed, stops, asked>>
      /\ jobs' = [jobs EXCEPT ![g] = jobs[g] - 1] /\ busy' = [busy EXCEPT ![g] = busy[g] + 1]
      /\ begun' = [begun EXCEPT ![g] = begun[g] + 1] /\ late' = [late EXCEPT ![g] = l]
      /\ attempted' = attempted + 1
  BY <1>1 DEF Send!TakeJob, Send!lockVars, SendTypes
<1>6. /\ jobs[g] - 1 \in 0..Workers /\ busy[g] + 1 \in 0..Workers /\ begun[g] + 1 \in Nat
      /\ l \in Nat /\ attempted + 1 \in Nat /\ l <= begun[g] + 1
      /\ l + (jobs[g] - 1) <= late[g] + jobs[g]
      /\ (begun[g] + 1) + (jobs[g] - 1) = begun[g] + jobs[g]
      /\ ctx[g] = "live" => l = late[g]
  <2>1. late[g] <= begun[g] /\ attempted \in Nat
    BY <1>1 DEF SendTypes, SendRun
  <2>2. l \in {late[g], late[g] + 1} /\ (ctx[g] = "live" => l = late[g])
    OBVIOUS
  <2> HIDE DEF l
  <2> QED BY <1>2, <1>3, <2>1, <2>2
<1> HIDE DEF l
<1>7. /\ SendTypes' /\ jobs'[g] = jobs[g] - 1 /\ busy'[g] = busy[g] + 1
      /\ begun'[g] = begun[g] + 1 /\ late'[g] = l
      /\ \A h \in Send!Gens : h # g =>
           /\ jobs'[h] = jobs[h] /\ busy'[h] = busy[h]
           /\ begun'[h] = begun[h] /\ late'[h] = late[h]
  BY <1>1, <1>5, <1>6 DEF SendTypes
<1>8. /\ l + (jobs[g] - 1) <= Workers + 1
      /\ prod[g] = "offer" => l + (jobs[g] - 1) <= Workers
      /\ (begun[g] + 1) + (jobs[g] - 1) <= MaxSends
  BY <1>1, <1>2, <1>6 DEF SendRun
<1>9. SendRun(g)'
  BY <1>1, <1>4, <1>5, <1>6, <1>7, <1>8 DEF SendRun
<1>10. SendBooks'
  <2>1. attempted = begun[g] /\ ended + busy[g] = attempted /\ ended \in Nat
    BY <1>1, <1>4 DEF SendBooks, SendTypes
  <2> QED BY <1>2, <1>4, <1>5, <1>7, <2>1 DEF SendBooks
<1> QED BY <1>5, <1>7, <1>9, <1>10, SendOne

LEMMA SendSent ==
  ASSUME SendInd, NEW g \in Send!Gens, Send!Sent(g) PROVE SendInd'
<1>1. SendTypes /\ SendRun(g) /\ SendBooks
  BY DEF SendInd
<1>2. busy[g] \in Nat /\ busy[g] <= Workers /\ Workers \in Nat /\ busy[g] > 0
  BY <1>1, SendRow, SendConstants DEF Send!Sent
<1>3. prod[g] \in {"pace", "offer", "drain"} /\ g = gen /\ gen # 0
  BY <1>1, <1>2, SendRow DEF SendRun
<1>4. /\ UNCHANGED <<running, draining, gen, reason, attempted, prod, ctx, jobs, closed,
                     stops, asked, begun, late>>
      /\ busy' = [busy EXCEPT ![g] = busy[g] - 1] /\ ended' = ended + 1
  BY <1>1 DEF Send!Sent, Send!lockVars, Send!history, SendTypes
<1>5. busy[g] - 1 \in 0..Workers /\ ended + 1 \in Nat
  <2>1. ended \in Nat
    BY <1>1 DEF SendTypes
  <2> QED BY <1>2, <2>1
<1>6. SendTypes' /\ busy'[g] = busy[g] - 1
      /\ \A h \in Send!Gens : h # g => busy'[h] = busy[h]
  BY <1>1, <1>4, <1>5 DEF SendTypes
<1>7. SendRun(g)'
  BY <1>1, <1>3, <1>4, <1>6 DEF SendRun
<1>8. SendBooks'
  <2>1. attempted = begun[g] /\ ended + busy[g] = attempted /\ ended \in Nat
    BY <1>1, <1>3 DEF SendBooks, SendTypes
  <2> QED BY <1>2, <1>3, <1>4, <1>6, <2>1 DEF SendBooks
<1> QED BY <1>4, <1>6, <1>7, <1>8, SendOne

LEMMA SendStart ==
  ASSUME SendInd, NEW g \in Send!Gens, Send!Start(g) PROVE SendInd'
<1>1. SendTypes /\ \A h \in Send!Gens : SendRun(h)
  BY DEF SendInd
<1>2. g \in Nat /\ g >= 1 /\ g <= MaxGen /\ gen \in Nat /\ MaxGen \in Nat /\ g = gen + 1
  BY <1>1, SendRow, SendConstants DEF Send!Start
<1>3. /\ running' = TRUE /\ draining' = FALSE /\ reason' = "" /\ gen' = g
      /\ attempted' = 0 /\ ended' = 0 /\ prod' = [prod EXCEPT ![g] = "start"]
      /\ UNCHANGED <<ctx, jobs, closed, busy, stops, asked, begun, late>>
  BY DEF Send!Start, Send!Goes, Send!history
<1>4. g \in 0..MaxGen /\ g # 0 /\ g > gen
  BY <1>2
<1>5. SendTypes' /\ prod'[g] = "start" /\ \A h \in Send!Gens : h # g => prod'[h] = prod[h]
  BY <1>1, <1>3, <1>4 DEF SendTypes
<1>6. prod[g] = "none" /\ jobs[g] = 0 /\ busy[g] = 0 /\ begun[g] = 0 /\ late[g] = 0
  BY <1>1, <1>4 DEF SendRun
<1>7. SendRun(g)'
  <2>1. /\ begun'[g] = 0 /\ late'[g] = 0 /\ jobs'[g] = 0 /\ busy'[g] = 0
        /\ ctx'[g] = "stopped" => g \in asked'
        /\ g \in stops' => g \in asked'
    BY <1>1, <1>3, <1>6 DEF SendRun
  <2>2. begun'[g] + jobs'[g] <= MaxSends /\ late'[g] <= begun'[g]
        /\ late'[g] + jobs'[g] <= Workers + 1 /\ late'[g] + jobs'[g] <= Workers
    BY <2>1, SendConstants
  <2>3. prod'[g] = "start" /\ running' /\ gen' = g
    BY <1>3, <1>5, Zenon
  <2>4. ~(g > g)
    BY <1>2
  <2> QED BY <2>1, <2>2, <2>3, <2>4 DEF SendRun
<1>8. ASSUME NEW h \in Send!Gens, h # g PROVE SendRun(h)'
  <2>1. ~running
    BY DEF Send!Start
  <2>2. prod[h] \in {"none", "done"}
    BY <1>1, <2>1, SendRow DEF SendRun
  <2>3. h > g => h > gen
    BY <1>1, <1>2, SendRow
  <2> QED BY <1>1, <1>3, <1>5, <1>8, <2>2, <2>3 DEF SendRun
<1>9. SendBooks'
  <2>1. begun'[gen'] = 0 /\ busy'[gen'] = 0 /\ gen' # 0
    BY <1>3, <1>4, <1>6
  <2>2. attempted' = 0 /\ ended' = 0
    BY <1>3, Zenon
  <2>3. ended' + busy'[gen'] = 0
    BY <2>1, <2>2
  <2> QED BY <2>1, <2>2, <2>3 DEF SendBooks
<1> QED BY <1>5, <1>7, <1>8, <1>9 DEF SendInd

LEMMA SendStop == ASSUME SendInd, Send!Stop PROVE SendInd'
<1>1. SendTypes /\ SendBooks /\ \A h \in Send!Gens : SendRun(h)
  BY DEF SendInd
<1>2. /\ running /\ draining' = TRUE /\ reason' = "stopped"
      /\ stops' = stops \cup {gen} /\ asked' = asked \cup {gen}
      /\ UNCHANGED <<running, gen, attempted, ended, prod, ctx, jobs, closed, busy, begun, late>>
  BY DEF Send!Stop, Send!countVars, Send!runVars
<1>3. gen \in Send!Gens
  BY <1>1, <1>2, SendCurrent DEF SendBooks
<1>4. SendTypes'
  BY <1>1, <1>2, <1>3 DEF SendTypes
<1>5. \A h \in Send!Gens : SendRun(h)'
  BY <1>1, <1>2 DEF SendRun
<1>6. SendBooks'
  BY <1>1, <1>2 DEF SendBooks
<1> QED BY <1>4, <1>5, <1>6 DEF SendInd

LEMMA SendEnd ==
  ASSUME SendInd, NEW g \in Send!Gens, Send!End(g) PROVE SendInd'
<1>1. SendTypes /\ SendBooks /\ \A h \in Send!Gens : SendRun(h)
  BY DEF SendInd
<1>2. prod[g] = "end" /\ gen = g
  BY <1>1 DEF Send!End, SendRun
<1>3. /\ running' = FALSE /\ draining' = FALSE /\ prod' = [prod EXCEPT ![g] = "done"]
      /\ reason' \in {reason, "stopped", "duration"}
      /\ UNCHANGED <<gen, attempted, ended, ctx, jobs, closed, busy, stops, asked, begun, late>>
  BY <1>2 DEF Send!End, Send!Goes, Send!countVars, Send!history
<1>4. SendTypes' /\ prod'[g] = "done" /\ \A h \in Send!Gens : h # g => prod'[h] = prod[h]
  BY <1>1, <1>3 DEF SendTypes
<1>5. SendRun(g)'
  BY <1>1, <1>2, <1>3, <1>4, SendRow DEF SendRun
<1>6. ASSUME NEW h \in Send!Gens, h # g PROVE SendRun(h)'
  BY <1>1, <1>2, <1>3, <1>4, <1>6 DEF SendRun
<1>7. SendBooks'
  BY <1>1, <1>3 DEF SendBooks
<1> QED BY <1>4, <1>5, <1>6, <1>7 DEF SendInd

LEMMA SendNext == SendInd /\ (Send!Next \/ UNCHANGED sendVars) => SendInd'
<1> SUFFICES ASSUME SendInd, Send!Next \/ UNCHANGED sendVars PROVE SendInd'
  OBVIOUS
<1>1. CASE UNCHANGED sendVars
  BY <1>1 DEF sendVars, SendInd, SendTypes, SendRun, SendBooks
<1>2. CASE Send!Next
  BY <1>2, SendStop, SendStart, SendContext, SendGoes, SendOffer, SendTakeJob, SendSent,
     SendEnd
     DEF Send!Next, Send!Run
<1> QED BY <1>1, <1>2

LEMMA SendInvariant == Spec => []SendInd
<1>1. Init => SendInd
  BY SendInit DEF Init
<1>2. SendInd /\ [Next]_vars => SendInd'
  BY SendNext DEF Next, vars
<1> QED BY <1>1, <1>2, PTL DEF Spec

\* One send at a time, and the books of an ended one balance, for any number of
\* workers and of runs.
THEOREM SendsOneAtATime == Spec => []SendInv
BY SendInvariant, SendIndImplies, PTL

\* A stop cancels what it found, and no more than the queue and one job on
\* offer are still sent.
THEOREM StopsAreExact == Spec => []StopIsExact
BY SendInvariant, SendIndImplies, PTL

------------------------------------------------------------------------------
(* The wallet's services *)

\* A connection is lost once in an outage: what is left of it then does not
\* reach "probe" again before the storage is back.
LinkInd ==
  /\ Link!LinkTypeOK
  /\ losses \in 0..1
  /\ storage => losses = 0
  /\ losses = 1 => daemon \in {"down", "dial", "backoff"}

LEMMA LinkConstants == Limit \in Nat /\ MaxStored \in Nat
BY WorkersAssumption DEF Link!LinkAssumption

LEMMA LinkInit == Link!Init => LinkInd
<1> SUFFICES ASSUME Link!Init PROVE LinkInd
  OBVIOUS
<1>1. 0 \in 0..MaxStored /\ 0 \in 0..1
  BY LinkConstants
<1>2. Link!LinkTypeOK
  BY <1>1 DEF Link!Init, Link!LinkTypeOK
<1> QED BY <1>1, <1>2 DEF Link!Init, LinkInd

\* What only walletd's loop and the outages move.
LEMMA LinkRun ==
  ASSUME LinkInd,
         Link!StorageChanges \/ Link!DaemonStarts \/ Link!Run
  PROVE  LinkInd'
<1>1. UNCHANGED <<stored, unanswered, health, sweep, rows, page>>
  BY DEF Link!StorageChanges, Link!DaemonStarts, Link!Run, Link!service
<1>2. CASE Link!StorageChanges
  BY <1>1, <1>2 DEF Link!StorageChanges, Link!Changed, LinkInd, Link!LinkTypeOK
<1>3. CASE Link!DaemonStarts
  BY <1>1, <1>3 DEF Link!DaemonStarts, LinkInd, Link!LinkTypeOK
<1>4. CASE Link!Run
  <2>1. storage' = storage
    BY <1>4 DEF Link!Run
  <2>2. /\ storage \in BOOLEAN
        /\ losses \in 0..1 /\ (storage => losses = 0)
        /\ losses = 1 => daemon \in {"down", "dial", "backoff"}
    BY DEF LinkInd, Link!LinkTypeOK
  <2>3. /\ connected' \in BOOLEAN /\ (connected' => daemon' = "probe")
        /\ daemon' \in {"down", "dial", "proven", "backoff", "probe"}
        /\ losses' \in 0..1 /\ (storage => losses' = 0)
        /\ losses' = 1 => daemon' \in {"down", "dial", "backoff"}
    <3>1. CASE Link!Dial
      BY <2>2, <3>1 DEF Link!Dial, LinkInd, Link!LinkTypeOK
    <3>2. CASE Link!Connected
      BY <2>2, <3>2 DEF Link!Connected, LinkInd, Link!LinkTypeOK
    <3>3. CASE Link!Backoff
      BY <2>2, <3>3 DEF Link!Backoff, LinkInd, Link!LinkTypeOK
    <3>4. CASE Link!Probe
      <4>1. daemon = "probe" /\ ~storage /\ daemon' = "dial" /\ connected' = FALSE
            /\ losses' = losses + 1
        BY <3>4 DEF Link!Probe
      <4>2. losses # 1 /\ losses \in {0, 1}
        BY <2>2, <4>1
      <4>3. losses' = 1
        BY <4>1, <4>2
      <4>4. losses' \in 0..1
        BY <4>3
      <4>5. connected' \in BOOLEAN /\ ~connected'
        BY <4>1, Zenon
      <4> QED BY <4>1, <4>4, <4>5, Zenon
    <3> QED BY <1>4, <3>1, <3>2, <3>3, <3>4 DEF Link!Run
  <2> QED BY <1>1, <2>1, <2>3 DEF LinkInd, Link!LinkTypeOK
<1> QED BY <1>2, <1>3, <1>4

\* What moves neither the storage nor walletd.
LEMMA LinkRest ==
  ASSUME LinkInd, UNCHANGED <<storage, daemon, connected, losses>>,
         stored' \in 0..MaxStored,
         unanswered' \subseteq 1..stored', rows' \subseteq 1..stored',
         health' \in {"none", "not_connected", "connected"},
         sweep' \in [at : {"health", "total", "page"}, total : 0..MaxStored],
         page' \in {"none", "ask"} \cup Link!Answers
  PROVE  LinkInd'
BY DEF LinkInd, Link!LinkTypeOK

LEMMA LinkServe == ASSUME LinkInd, Link!Serve PROVE LinkInd'
<1>1. Link!LinkTypeOK
  BY DEF LinkInd
<1>2. UNCHANGED <<storage, daemon, connected, losses, stored, unanswered, page>>
  BY DEF Link!Serve, Link!walletd
<1>3. health' \in {"none", "not_connected", "connected"}
  BY <1>1 DEF Link!Serve, Link!RefreshHealth, Link!Total, Link!Page, Link!LinkTypeOK
<1>4. rows' \subseteq 1..stored
  BY <1>1 DEF Link!Serve, Link!RefreshHealth, Link!Total, Link!Page, Link!LinkTypeOK
<1>5. sweep' \in [at : {"health", "total", "page"}, total : 0..MaxStored]
  <2>1. stored \in 0..MaxStored /\ 0 \in 0..MaxStored
    BY <1>1, LinkConstants DEF Link!LinkTypeOK
  <2> QED BY <2>1 DEF Link!Serve, Link!RefreshHealth, Link!Total, Link!Page, Link!Sweeping
<1> QED BY <1>1, <1>2, <1>3, <1>4, <1>5, LinkRest DEF Link!LinkTypeOK

LEMMA LinkNext == LinkInd /\ (Link!Next \/ UNCHANGED linkVars) => LinkInd'
<1> SUFFICES ASSUME LinkInd, Link!Next \/ UNCHANGED linkVars PROVE LinkInd'
  OBVIOUS
<1>1. Link!LinkTypeOK
  BY DEF LinkInd
<1>2. 0 \in 0..MaxStored /\ stored \in Nat /\ MaxStored \in Nat
  BY <1>1, LinkConstants DEF Link!LinkTypeOK
<1>3. CASE UNCHANGED linkVars
  BY <1>3 DEF linkVars, LinkInd, Link!LinkTypeOK
<1>4. CASE Link!DaemonEnds
  <2>1. UNCHANGED <<storage, losses, stored, health, rows, page>>
        /\ daemon' = "down" /\ connected' = FALSE /\ unanswered' = {}
    BY <1>4 DEF Link!DaemonEnds
  <2>2. sweep' \in [at : {"health", "total", "page"}, total : 0..MaxStored]
    BY <1>1, <1>2, <1>4 DEF Link!DaemonEnds, Link!Sweeping, Link!LinkTypeOK
  <2> QED BY <2>1, <2>2 DEF LinkInd, Link!LinkTypeOK
<1>5. CASE Link!ServiceRestarts
  <2>1. UNCHANGED <<storage, daemon, connected, losses, stored>>
        /\ health' = "none" /\ rows' = {} /\ unanswered' = {} /\ page' = "none"
        /\ sweep' = [at |-> "health", total |-> 0]
    BY <1>5 DEF Link!ServiceRestarts, Link!walletd
  <2> QED BY <1>1, <1>2, <2>1, LinkRest DEF Link!LinkTypeOK
<1>6. CASE Link!Create
  <2>1. UNCHANGED <<storage, daemon, connected, losses, health, sweep, rows, page>>
        /\ stored < MaxStored /\ stored' = stored + 1
        /\ unanswered' = unanswered \cup {stored + 1}
    BY <1>6 DEF Link!Create, Link!walletd, Link!service
  <2>2. stored' \in 0..MaxStored /\ 1..stored \subseteq 1..stored' /\ stored + 1 \in 1..stored'
    BY <1>2, <2>1
  <2>3. unanswered \subseteq 1..stored /\ rows \subseteq 1..stored
    BY <1>1 DEF Link!LinkTypeOK
  <2>4. unanswered' \subseteq 1..stored' /\ rows' \subseteq 1..stored'
    BY <2>1, <2>2, <2>3
  <2> QED BY <1>1, <2>1, <2>2, <2>4, LinkRest DEF Link!LinkTypeOK
<1>7. CASE \E x \in Link!Ids : Link!Note(x) \/ Link!Lose(x)
  BY <1>1, <1>7, LinkRest DEF Link!Note, Link!Lose, Link!walletd, Link!service, Link!LinkTypeOK
<1>8. CASE Link!Visit \/ Link!AskState \/ Link!Answered
  <2>1. UNCHANGED <<storage, daemon, connected, losses, stored, unanswered, health, sweep, rows>>
    BY <1>8 DEF Link!Visit, Link!AskState, Link!Answered, Link!walletd, Link!service
  <2>2. page' \in {"none", "ask"} \cup Link!Answers
    BY <1>1, <1>8
       DEF Link!Visit, Link!AskState, Link!Answered, Link!Answers, Link!LinkTypeOK
  <2> QED BY <1>1, <2>1, <2>2, LinkRest DEF Link!LinkTypeOK
<1> QED BY <1>3, <1>4, <1>5, <1>6, <1>7, <1>8, LinkRun, LinkServe DEF Link!Next

LEMMA LinkInvariant == Spec => []LinkInd
<1>1. Init => LinkInd
  BY LinkInit DEF Init
<1>2. LinkInd /\ [Next]_vars => LinkInd'
  BY LinkNext DEF Next, vars
<1> QED BY <1>1, <1>2, PTL DEF Spec

\* An outage of the storage costs one connection, for any number of transactions
\* and of outages.
THEOREM OneLoss == Spec => []LinkInv
<1>1. LinkInd => LinkInv
  BY DEF LinkInd, LinkInv, Link!OneLossPerOutage
<1> QED BY <1>1, LinkInvariant, PTL

------------------------------------------------------------------------------
(* The funding of the wallet *)

FundTypes ==
  /\ tip \in 0..MaxTip
  /\ tx \in [Calls -> {"none", "sent", "refused", "pool", "mined", "proven"}]
  /\ funding \in [Calls -> {"idle", "tip", "look", "submit", "mempool", "proof", "credit", "done"}]
  /\ tool \in [Calls -> {"api", "stackctl"}] /\ mine \in [Calls -> BOOLEAN]
  /\ at \in [Calls -> 0..MaxTip + 1] /\ base \in [Calls -> 0..MaxTip]
  /\ coin \in [Calls -> 0..MaxTip] /\ polls \in [Calls -> 0..Period]
  /\ result \in [Calls -> {"", "ok", "rpc", "immature", "no_coinbase", "rejected", "timeout",
                            "internalize"}]
  /\ told \in [Calls -> BOOLEAN]
  /\ credited \subseteq Calls

\* Where a call is says what it holds: until it submits there is no payment, and
\* from then on there is a coinbase, mature at the tip the call has read, so that
\* no answer after the submission can leave the txid out.
FundCall(c) ==
  /\ funding[c] \in {"idle", "tip", "look", "submit"} => tx[c] = "none"
  /\ funding[c] \in {"submit", "mempool", "proof", "credit"} => coin[c] > 0
  /\ funding[c] = "look" =>
       IF tool[c] = "api" THEN at[c] + Maturity <= base[c] ELSE at[c] >= 1
  /\ base[c] <= tip
  /\ coin[c] > 0 => coin[c] + Maturity <= tip
  /\ funding[c] = "credit" => tx[c] = "proven"
  /\ c \in credited => tx[c] = "proven"
  /\ result[c] = "ok" => c \in credited
  /\ told[c] => coin[c] > 0
  /\ funding[c] = "done" /\ tool[c] = "api" /\ tx[c] # "none" => told[c]

FundInd == FundTypes /\ \A c \in Calls : FundCall(c)

LEMMA FundConstants ==
  /\ Maturity \in Nat /\ Maturity >= 1 /\ Window \in Nat
  /\ Period \in Nat /\ Period >= 1
  /\ MaxTip \in Nat /\ MaxTip >= Maturity + 2
BY WorkersAssumption DEF Fund!TopUpAssumption

LEMMA FundRow ==
  ASSUME FundTypes, NEW c \in Calls
  PROVE  /\ tip \in Nat /\ tip <= MaxTip
         /\ at[c] \in Nat /\ at[c] <= MaxTip + 1
         /\ base[c] \in Nat /\ base[c] <= MaxTip
         /\ coin[c] \in Nat /\ coin[c] <= MaxTip
         /\ polls[c] \in Nat /\ polls[c] <= Period
<1>1. tip \in 0..MaxTip /\ at[c] \in 0..MaxTip + 1 /\ base[c] \in 0..MaxTip
      /\ coin[c] \in 0..MaxTip /\ polls[c] \in 0..Period
  BY DEF FundTypes
<1> QED BY <1>1, FundConstants

LEMMA FundIndImplies == FundInd => FundingInv
<1> SUFFICES ASSUME FundInd PROVE FundingInv
  OBVIOUS
<1>1. FundTypes /\ \A c \in Calls : FundCall(c)
  BY DEF FundInd
<1>2. \A c \in Calls : coin[c] > 0 => coin[c] + Maturity <= tip
  BY <1>1 DEF FundCall
<1>3. Fund!TopUpTypeOK
  BY <1>1, <1>2 DEF FundTypes, Fund!TopUpTypeOK, Fund!Known
<1>4. Fund!CreditedIsProven
  BY <1>1 DEF FundTypes, FundCall, Fund!CreditedIsProven
<1>5. Fund!NothingLost
  BY <1>1 DEF FundCall, Fund!NothingLost
<1> QED BY <1>3, <1>4, <1>5 DEF FundingInv

LEMMA FundInit == Fund!Init => FundInd
<1> SUFFICES ASSUME Fund!Init PROVE FundInd
  OBVIOUS
<1>1. Maturity + 1 \in 0..MaxTip /\ 0 \in 0..MaxTip /\ 0 \in 0..MaxTip + 1 /\ 0 \in 0..Period
  BY FundConstants
<1>2. at = [c \in Calls |-> 0] /\ base = at /\ coin = at /\ polls = at
      /\ tip \in {0, Maturity + 1} /\ credited = {}
  BY DEF Fund!Init
<1>3. /\ tx = [c \in Calls |-> "none"] /\ funding = [c \in Calls |-> "idle"]
      /\ tool = [c \in Calls |-> "api"] /\ mine = [c \in Calls |-> FALSE]
      /\ result = [c \in Calls |-> ""] /\ told = [c \in Calls |-> FALSE]
  BY DEF Fund!Init
<1>4. FundTypes
  <2>1. tip \in 0..MaxTip /\ credited \subseteq Calls
    BY <1>1, <1>2
  <2>2. /\ at \in [Calls -> 0..MaxTip + 1] /\ base \in [Calls -> 0..MaxTip]
        /\ coin \in [Calls -> 0..MaxTip] /\ polls \in [Calls -> 0..Period]
    BY <1>1, <1>2
  <2> QED BY <1>3, <2>1, <2>2 DEF FundTypes
<1>5. ASSUME NEW c \in Calls PROVE FundCall(c)
  <2>1. tx[c] = "none" /\ funding[c] = "idle" /\ result[c] = "" /\ ~told[c]
    BY <1>3
  <2>2. base[c] = 0 /\ coin[c] = 0 /\ c \notin credited
    BY <1>2
  <2>3. base[c] <= tip /\ ~(coin[c] > 0)
    BY <1>2, <2>2, FundConstants
  <2> QED BY <2>1, <2>2, <2>3 DEF FundCall
<1> QED BY <1>4, <1>5 DEF FundInd

\* What the other calls do to the chain, to the payments and to the credits takes
\* nothing from a call.
LEMMA FundKeeps ==
  ASSUME FundInd, NEW h \in Calls, tip' \in 0..MaxTip, tip <= tip',
         funding'[h] = funding[h], tool'[h] = tool[h], at'[h] = at[h], base'[h] = base[h],
         coin'[h] = coin[h], result'[h] = result[h], told'[h] = told[h],
         tx'[h] = "none" <=> tx[h] = "none",
         tx[h] = "proven" => tx'[h] = "proven",
         h \in credited' <=> h \in credited
  PROVE  FundCall(h)'
<1>1. FundTypes /\ FundCall(h)
  BY DEF FundInd
<1>2. tip \in Nat /\ base[h] \in Nat /\ coin[h] \in Nat /\ Maturity \in Nat /\ tip' \in Nat
  BY <1>1, FundRow, FundConstants
<1>3. base[h] <= tip' /\ (coin[h] > 0 => coin[h] + Maturity <= tip')
  BY <1>1, <1>2 DEF FundCall
<1> QED BY <1>1, <1>3 DEF FundCall

\* A step of one call.
LEMMA FundOne ==
  ASSUME FundInd, NEW c \in Calls, FundTypes', FundCall(c)', tip <= tip',
         \A h \in Calls : h # c =>
           /\ funding'[h] = funding[h] /\ tool'[h] = tool[h]
           /\ at'[h] = at[h] /\ base'[h] = base[h] /\ coin'[h] = coin[h]
           /\ result'[h] = result[h] /\ told'[h] = told[h]
           /\ tx'[h] = "none" <=> tx[h] = "none"
           /\ tx[h] = "proven" => tx'[h] = "proven"
           /\ h \in credited' <=> h \in credited
  PROVE  FundInd'
<1>1. tip' \in 0..MaxTip
  BY DEF FundTypes
<1>2. \A h \in Calls : h # c => FundCall(h)'
  BY <1>1, FundKeeps
<1> QED BY <1>2 DEF FundInd

\* Blocks add to the chain and seal what is in the mempool.
LEMMA FundGenerate ==
  ASSUME FundTypes, NEW n \in Nat, Fund!Generate(n)
  PROVE  /\ tip' \in 0..MaxTip /\ tip <= tip'
         /\ tx' \in [Calls -> {"none", "sent", "refused", "pool", "mined", "proven"}]
         /\ \A h \in Calls : /\ tx'[h] = "none" <=> tx[h] = "none"
                             /\ tx[h] = "proven" => tx'[h] = "proven"
<1>1. tip \in 0..MaxTip /\ MaxTip \in Nat
  BY FundConstants DEF FundTypes
<1>2. tip' = (IF tip + n > MaxTip THEN MaxTip ELSE tip + n)
      /\ tx' = [d \in Calls |-> IF tx[d] = "pool" THEN "mined" ELSE tx[d]]
  BY DEF Fund!Generate
<1>3. tip' \in 0..MaxTip /\ tip <= tip'
  BY <1>1, <1>2
<1>4. \A h \in Calls : tx[h] \in {"none", "sent", "refused", "pool", "mined", "proven"}
  BY DEF FundTypes
<1> QED BY <1>2, <1>3, <1>4

LEMMA FundBegin ==
  ASSUME FundInd, NEW c \in Calls, NEW who \in {"api", "stackctl"}, NEW b \in BOOLEAN,
         Fund!Begin(c, who, b)
  PROVE  FundInd'
<1>1. FundTypes /\ FundCall(c) /\ funding[c] = "idle"
  BY DEF FundInd, Fund!Begin
<1>2. /\ funding' = [funding EXCEPT ![c] = "tip"] /\ tool' = [tool EXCEPT ![c] = who]
      /\ mine' = [mine EXCEPT ![c] = b]
      /\ UNCHANGED <<tip, tx, at, base, coin, polls, result, told, credited>>
  BY DEF Fund!Begin, Fund!Goes
<1>3. FundTypes'
  BY <1>1, <1>2 DEF FundTypes
<1>4. FundCall(c)' /\ \A h \in Calls : h # c => funding'[h] = funding[h] /\ tool'[h] = tool[h]
  BY <1>1, <1>2 DEF FundTypes, FundCall
<1>5. tip <= tip'
  BY <1>1, <1>2, FundRow
<1> QED BY <1>2, <1>3, <1>4, <1>5, FundOne

\* A call that fails: with a payment, it has a coinbase.
LEMMA FundFails ==
  ASSUME FundInd, NEW c \in Calls,
         NEW r \in {"rpc", "immature", "no_coinbase", "rejected", "timeout", "internalize"},
         Fund!Fails(c, r), FundTypes',
         UNCHANGED <<tip, tool, base, coin>>, at' = at,
         coin[c] > 0 \/ tx'[c] = "none",
         tx[c] = "proven" => tx'[c] = "proven",
         \A h \in Calls : h # c => tx'[h] = tx[h] /\ (h \in credited' <=> h \in credited),
         c \in credited' => tx'[c] = "proven"
  PROVE  FundInd'
<1>1. FundTypes /\ FundCall(c)
  BY DEF FundInd
<1> DEFINE t == coin[c] > 0 /\ (tool[c] = "api" \/ r = "timeout")
<1>2. funding' = [funding EXCEPT ![c] = "done"] /\ result' = [result EXCEPT ![c] = r]
      /\ told' = [told EXCEPT ![c] = t]
  BY DEF Fund!Fails, Fund!Goes
<1>t. (coin[c] > 0 /\ tool[c] = "api" => t) /\ (t => coin[c] > 0)
  OBVIOUS
<1> HIDE DEF t
<1>d. DOMAIN funding = Calls /\ DOMAIN result = Calls /\ DOMAIN told = Calls
      /\ funding = [h \in Calls |-> funding[h]] /\ result = [h \in Calls |-> result[h]]
      /\ told = [h \in Calls |-> told[h]]
  BY <1>1 DEF FundTypes
<1>3. funding'[c] = "done" /\ result'[c] = r
      /\ (coin[c] > 0 /\ tool[c] = "api" => told'[c]) /\ (told'[c] => coin[c] > 0)
  <2> QED BY <1>d, <1>t, <1>2, Zenon
<1>4. r # "ok"
  OBVIOUS
<1>5. base[c] <= tip /\ (coin[c] > 0 => coin[c] + Maturity <= tip)
  BY <1>1 DEF FundCall
<1>6. FundCall(c)'
  BY <1>3, <1>4, <1>5 DEF FundCall
<1>7. \A h \in Calls : h # c =>
        funding'[h] = funding[h] /\ result'[h] = result[h] /\ told'[h] = told[h]
  BY <1>d, <1>2, Zenon
<1>8. tip <= tip'
  BY <1>1, FundRow
<1> QED BY <1>6, <1>7, <1>8, FundOne

\* The types after a failure.
LEMMA FundFailTypes ==
  ASSUME FundTypes, NEW c \in Calls,
         NEW r \in {"rpc", "immature", "no_coinbase", "rejected", "timeout", "internalize"},
         Fund!Fails(c, r), UNCHANGED <<tip, tool, mine, base, coin>>, at' = at,
         polls' \in [Calls -> 0..Period], credited' \subseteq Calls,
         tx' \in [Calls -> {"none", "sent", "refused", "pool", "mined", "proven"}]
  PROVE  FundTypes'
<1>1. funding' = [funding EXCEPT ![c] = "done"] /\ result' = [result EXCEPT ![c] = r]
      /\ told' = [told EXCEPT ![c] = coin[c] > 0 /\ (tool[c] = "api" \/ r = "timeout")]
  BY DEF Fund!Fails, Fund!Goes
<1>2. told' \in [Calls -> BOOLEAN]
  BY <1>1 DEF FundTypes
<1>3. funding' \in [Calls -> {"idle", "tip", "look", "submit", "mempool", "proof", "credit", "done"}]
  BY <1>1 DEF FundTypes
<1>4. result' \in [Calls -> {"", "ok", "rpc", "immature", "no_coinbase", "rejected", "timeout",
                              "internalize"}]
  BY <1>1 DEF FundTypes
<1> QED BY <1>2, <1>3, <1>4 DEF FundTypes

\* A step that moves a call and neither the chain nor the payments of others.
LEMMA FundMoves ==
  ASSUME FundInd, NEW c \in Calls, FundTypes', FundCall(c)',
         UNCHANGED <<tip, tool, result, told, credited>>,
         \A h \in Calls : h # c =>
           /\ funding'[h] = funding[h] /\ at'[h] = at[h] /\ base'[h] = base[h]
           /\ coin'[h] = coin[h] /\ tx'[h] = tx[h]
  PROVE  FundInd'
<1>1. tip <= tip'
  BY FundRow DEF FundInd
<1> QED BY <1>1, FundOne

LEMMA FundReadTip ==
  ASSUME FundInd, NEW c \in Calls, Fund!ReadTip(c) PROVE FundInd'
<1>1. FundTypes /\ FundCall(c) /\ funding[c] = "tip" /\ tx[c] = "none"
  BY DEF FundInd, Fund!ReadTip, FundCall
<1>2. UNCHANGED <<tool, mine, coin, polls, credited>>
  BY DEF Fund!ReadTip
<1>3. tip \in Nat /\ tip <= MaxTip /\ Maturity \in Nat /\ Maturity >= 1 /\ MaxTip \in Nat
  BY <1>1, FundRow, FundConstants
<1>4. CASE /\ tip >= Maturity + 1 /\ funding' = [funding EXCEPT ![c] = "look"]
           /\ base' = [base EXCEPT ![c] = tip] /\ at' = [at EXCEPT ![c] = Fund!First(c)]
           /\ UNCHANGED <<tip, tx, result, told>>
  <2>1. Fund!First(c) \in 0..MaxTip + 1 /\ tip \in 0..MaxTip /\ tip <= tip
        /\ IF tool[c] = "api" THEN Fund!First(c) + Maturity <= tip ELSE Fund!First(c) >= 1
    BY <1>3, <1>4 DEF Fund!First
  <2>2. FundTypes'
    <3>1. at' \in [Calls -> 0..MaxTip + 1] /\ base' \in [Calls -> 0..MaxTip]
      BY <1>1, <1>4, <2>1 DEF FundTypes
    <3> QED BY <1>1, <1>2, <1>4, <3>1 DEF FundTypes
  <2>3. funding'[c] = "look" /\ base'[c] = tip /\ at'[c] = Fund!First(c)
    BY <1>1, <1>4 DEF FundTypes
  <2>4. FundCall(c)'
    BY <1>1, <1>2, <1>4, <2>1, <2>3 DEF FundCall
  <2>5. \A h \in Calls : h # c =>
          /\ funding'[h] = funding[h] /\ at'[h] = at[h] /\ base'[h] = base[h]
          /\ coin'[h] = coin[h] /\ tx'[h] = tx[h]
    BY <1>1, <1>2, <1>4 DEF FundTypes
  <2> QED BY <1>2, <1>4, <2>2, <2>4, <2>5, FundMoves
<1>5. CASE /\ tip < Maturity + 1 /\ Fund!Generate(Maturity + 1 - tip + 1)
           /\ UNCHANGED <<funding, result, told, at, base>>
  <2>1. Maturity + 1 - tip + 1 \in Nat
    BY <1>3, <1>5
  <2>2. /\ tip' \in 0..MaxTip /\ tip <= tip'
        /\ tx' \in [Calls -> {"none", "sent", "refused", "pool", "mined", "proven"}]
        /\ \A h \in Calls : /\ tx'[h] = "none" <=> tx[h] = "none"
                            /\ tx[h] = "proven" => tx'[h] = "proven"
    BY <1>1, <1>5, <2>1, FundGenerate
  <2>3. FundTypes'
    BY <1>1, <1>2, <1>5, <2>2 DEF FundTypes
  <2>4. \A h \in Calls : FundCall(h)'
    BY <1>2, <1>5, <2>2, FundKeeps
  <2> QED BY <2>3, <2>4 DEF FundInd
<1>6. CASE /\ Fund!Fails(c, "immature") \/ Fund!Fails(c, "rpc")
           /\ UNCHANGED <<tip, tx, at, base>>
  <2>1. polls' \in [Calls -> 0..Period] /\ credited' \subseteq Calls
        /\ tx' \in [Calls -> {"none", "sent", "refused", "pool", "mined", "proven"}]
    BY <1>1, <1>2, <1>6 DEF FundTypes
  <2>2. FundTypes'
    BY <1>1, <1>2, <1>6, <2>1, FundFailTypes
  <2>3. c \notin credited
    BY <1>1 DEF FundCall
  <2> QED BY <1>1, <1>2, <1>6, <2>2, <2>3, FundFails
<1> QED BY <1>4, <1>5, <1>6 DEF Fund!ReadTip, Fund!Goes

LEMMA FundLook ==
  ASSUME FundInd, NEW c \in Calls, NEW r \in BOOLEAN, Fund!Look(c, r) PROVE FundInd'
<1>1. FundTypes /\ FundCall(c) /\ funding[c] = "look" /\ tx[c] = "none" /\ Fund!InSight(c)
  BY DEF FundInd, Fund!Look, FundCall
<1>2. UNCHANGED <<tip, tx, tool, mine, polls, result, told, credited>>
  BY DEF Fund!Look
<1>3. /\ tip \in Nat /\ tip <= MaxTip /\ Maturity \in Nat /\ Maturity >= 1 /\ MaxTip \in Nat
      /\ at[c] \in Nat /\ base[c] \in Nat /\ base[c] <= tip
  BY <1>1, FundRow, FundConstants DEF FundCall
<1>4. at[c] + Maturity <= base[c] /\ at[c] > 0
  BY <1>1, <1>3 DEF FundCall, Fund!InSight
<1>5. CASE /\ funding' = [funding EXCEPT ![c] = "submit"] /\ coin' = [coin EXCEPT ![c] = at[c]]
           /\ at' = [at EXCEPT ![c] = 0] /\ base' = [base EXCEPT ![c] = 0]
  <2>1. at[c] \in 0..MaxTip /\ 0 \in 0..MaxTip /\ 0 \in 0..MaxTip + 1
        /\ at[c] + Maturity <= tip /\ 0 <= tip
    BY <1>3, <1>4
  <2>2. FundTypes'
    <3>1. at' \in [Calls -> 0..MaxTip + 1] /\ base' \in [Calls -> 0..MaxTip]
          /\ coin' \in [Calls -> 0..MaxTip]
      BY <1>1, <1>5, <2>1 DEF FundTypes
    <3> QED BY <1>1, <1>2, <1>5, <3>1 DEF FundTypes
  <2>3. funding'[c] = "submit" /\ base'[c] = 0 /\ coin'[c] = at[c]
    BY <1>1, <1>5 DEF FundTypes
  <2>4. FundCall(c)'
    BY <1>1, <1>2, <1>4, <2>1, <2>3 DEF FundCall
  <2>5. \A h \in Calls : h # c =>
          /\ funding'[h] = funding[h] /\ at'[h] = at[h] /\ base'[h] = base[h]
          /\ coin'[h] = coin[h] /\ tx'[h] = tx[h]
    BY <1>1, <1>2, <1>5 DEF FundTypes
  <2> QED BY <1>2, <2>2, <2>4, <2>5, FundMoves
<1>6. CASE at' = [at EXCEPT ![c] = Fund!NextHeight(c)] /\ UNCHANGED <<funding, coin, base>>
  <2>1. Fund!NextHeight(c) \in 0..MaxTip + 1
        /\ IF tool[c] = "api" THEN Fund!NextHeight(c) + Maturity <= base[c]
           ELSE Fund!NextHeight(c) >= 1
    BY <1>3, <1>4 DEF Fund!NextHeight
  <2>2. FundTypes' /\ at'[c] = Fund!NextHeight(c)
    BY <1>1, <1>2, <1>6, <2>1 DEF FundTypes
  <2>3. FundCall(c)'
    BY <1>1, <1>2, <1>6, <2>1, <2>2 DEF FundCall
  <2>4. \A h \in Calls : h # c => at'[h] = at[h]
    BY <1>1, <1>6 DEF FundTypes
  <2> QED BY <1>2, <1>6, <2>2, <2>3, <2>4, FundMoves
<1> QED BY <1>5, <1>6 DEF Fund!Look, Fund!Goes

LEMMA FundLookFails ==
  ASSUME FundInd, NEW c \in Calls, Fund!LookFails(c) PROVE FundInd'
<1>1. FundTypes /\ FundCall(c) /\ funding[c] = "look" /\ tx[c] = "none"
  BY DEF FundInd, Fund!LookFails, FundCall
<1>2. UNCHANGED <<tip, tx, tool, mine, base, coin, polls, credited>>
  BY DEF Fund!LookFails
<1>3. CASE /\ Fund!InSight(c) /\ tool[c] = "api"
           /\ at' = [at EXCEPT ![c] = Fund!NextHeight(c)] /\ UNCHANGED <<funding, result, told>>
  <2>1. /\ at[c] \in Nat /\ base[c] \in Nat /\ Maturity \in Nat /\ base[c] <= MaxTip
        /\ MaxTip \in Nat
    BY <1>1, FundRow, FundConstants
  <2>2. at[c] + Maturity <= base[c] /\ at[c] > 0
    BY <1>1, <1>3 DEF FundCall, Fund!InSight
  <2>3. Fund!NextHeight(c) \in 0..MaxTip + 1 /\ Fund!NextHeight(c) + Maturity <= base[c]
    BY <1>3, <2>1, <2>2 DEF Fund!NextHeight
  <2>4. FundTypes' /\ at'[c] = Fund!NextHeight(c)
    BY <1>1, <1>2, <1>3, <2>3 DEF FundTypes
  <2>5. FundCall(c)'
    BY <1>1, <1>2, <1>3, <2>3, <2>4 DEF FundCall
  <2>6. \A h \in Calls : h # c => at'[h] = at[h]
    BY <1>1, <1>3 DEF FundTypes
  <2> QED BY <1>2, <1>3, <2>4, <2>5, <2>6, FundMoves
<1>4. CASE (Fund!Fails(c, "rpc") \/ Fund!Fails(c, "no_coinbase")) /\ UNCHANGED at
  <2>1. polls' \in [Calls -> 0..Period] /\ credited' \subseteq Calls
        /\ tx' \in [Calls -> {"none", "sent", "refused", "pool", "mined", "proven"}]
    BY <1>1, <1>2 DEF FundTypes
  <2>2. FundTypes'
    BY <1>1, <1>2, <1>4, <2>1, FundFailTypes
  <2>3. c \notin credited
    BY <1>1 DEF FundCall
  <2> QED BY <1>1, <1>2, <1>4, <2>2, <2>3, FundFails
<1> QED BY <1>3, <1>4 DEF Fund!LookFails

LEMMA FundSubmit ==
  ASSUME FundInd, NEW c \in Calls, NEW t \in BOOLEAN, NEW a \in BOOLEAN, Fund!Submit(c, t, a)
  PROVE  FundInd'
<1>1. FundTypes /\ FundCall(c) /\ tx[c] = "none" /\ coin[c] > 0 /\ funding[c] = "submit"
  BY DEF FundInd, FundCall, Fund!Submit
<1>2. UNCHANGED <<tip, tool, mine, at, base, coin, polls, credited>>
  BY DEF Fund!Submit
<1>3. PICK x \in {"sent", "none"} : tx' = [tx EXCEPT ![c] = x]
  BY DEF Fund!Submit
<1>4. tx' \in [Calls -> {"none", "sent", "refused", "pool", "mined", "proven"}]
      /\ tx'[c] = x /\ \A h \in Calls : h # c => tx'[h] = tx[h]
  BY <1>1, <1>3 DEF FundTypes
<1>5. c \notin credited
  BY <1>1 DEF FundCall
<1>6. CASE UNCHANGED <<result, told>>
           /\ \E p \in {"mempool", "proof"} : funding' = [funding EXCEPT ![c] = p]
  <2>1. PICK p \in {"mempool", "proof"} : funding' = [funding EXCEPT ![c] = p]
    BY <1>6
  <2>2. FundTypes' /\ funding'[c] = p /\ \A h \in Calls : h # c => funding'[h] = funding[h]
    BY <1>1, <1>2, <1>4, <1>6, <2>1 DEF FundTypes
  <2>3. FundCall(c)'
    BY <1>1, <1>2, <1>5, <1>6, <2>2 DEF FundCall
  <2> QED BY <1>2, <1>4, <1>6, <2>2, <2>3, FundMoves
<1>7. CASE Fund!Fails(c, "rejected")
  <2>1. polls' \in [Calls -> 0..Period] /\ credited' \subseteq Calls
    BY <1>1, <1>2 DEF FundTypes
  <2>2. FundTypes'
    BY <1>1, <1>2, <1>4, <1>7, <2>1, FundFailTypes
  <2> QED BY <1>1, <1>2, <1>4, <1>5, <1>7, <2>2, FundFails
<1> QED BY <1>6, <1>7 DEF Fund!Submit, Fund!SubmitFails, Fund!Goes

\* Waiting for the mempool and for the proof.
LEMMA FundWaits ==
  ASSUME FundInd, NEW c \in Calls, Fund!SeenOrNot(c) \/ Fund!Proven(c) PROVE FundInd'
<1>1. FundTypes /\ FundCall(c)
  BY DEF FundInd
<1>2. UNCHANGED <<tip, tx, tool, mine, at, base, coin, result, told, credited>>
  BY DEF Fund!SeenOrNot, Fund!Proven
<1>3. PICK p \in {"proof", "credit"} :
        /\ funding' = [funding EXCEPT ![c] = p]
        /\ funding[c] \in {"mempool", "proof"}
        /\ p = "credit" => tx[c] = "proven"
  BY DEF Fund!SeenOrNot, Fund!Proven, Fund!HasProof, Fund!Goes
<1>4. polls' \in [Calls -> 0..Period]
  <2>1. 0 \in 0..Period
    BY FundConstants
  <2> QED BY <1>1, <2>1 DEF FundTypes, Fund!SeenOrNot, Fund!Proven
<1>5. FundTypes' /\ funding'[c] = p /\ \A h \in Calls : h # c => funding'[h] = funding[h]
  BY <1>1, <1>2, <1>3, <1>4 DEF FundTypes
<1>6. FundCall(c)'
  BY <1>1, <1>2, <1>3, <1>5 DEF FundCall
<1> QED BY <1>2, <1>5, <1>6, FundMoves

\* A block, and nothing else but a counter of polls.
LEMMA FundBlock ==
  ASSUME FundInd, NEW n \in Nat, Fund!Generate(n), polls' \in [Calls -> 0..Period],
         UNCHANGED <<funding, tool, mine, at, base, coin, result, told, credited>>
  PROVE  FundInd'
<1>1. FundTypes
  BY DEF FundInd
<1>2. /\ tip' \in 0..MaxTip /\ tip <= tip'
      /\ tx' \in [Calls -> {"none", "sent", "refused", "pool", "mined", "proven"}]
      /\ \A h \in Calls : /\ tx'[h] = "none" <=> tx[h] = "none"
                          /\ tx[h] = "proven" => tx'[h] = "proven"
  BY <1>1, FundGenerate
<1>3. FundTypes'
  BY <1>1, <1>2 DEF FundTypes
<1>4. \A h \in Calls : FundCall(h)'
  BY <1>2, FundKeeps
<1> QED BY <1>3, <1>4 DEF FundInd

\* A step that leaves the chain, the payments and the calls as they are.
LEMMA FundStays ==
  ASSUME FundInd, polls' \in [Calls -> 0..Period],
         UNCHANGED <<tip, tx, funding, tool, mine, at, base, coin, result, told, credited>>
  PROVE  FundInd'
BY DEF FundInd, FundTypes, FundCall

LEMMA FundPoll ==
  ASSUME FundInd, NEW c \in Calls, Fund!Poll(c) PROVE FundInd'
<1>1. FundTypes
  BY DEF FundInd
<1>2. UNCHANGED <<funding, tool, mine, at, base, coin, result, told, credited>>
  BY DEF Fund!Poll
<1>3. polls' \in [Calls -> 0..Period]
  <2>1. polls[c] \in 0..Period /\ polls[c] \in Nat /\ Period \in Nat /\ Period >= 1
    BY <1>1, FundRow, FundConstants DEF FundTypes
  <2> DEFINE n == IF polls[c] = Period THEN 1 ELSE polls[c] + 1
  <2>2. n \in 0..Period
    BY <2>1
  <2>3. polls' = [polls EXCEPT ![c] = n]
    BY <1>1 DEF Fund!Poll, FundTypes
  <2> HIDE DEF n
  <2> QED BY <1>1, <2>2, <2>3 DEF FundTypes
<1>4. Fund!Generate(1) \/ UNCHANGED <<tip, tx>>
  BY DEF Fund!Poll
<1> QED BY <1>2, <1>3, <1>4, FundBlock, FundStays

\* The wait for the proof ends without one.
LEMMA FundGivesUp ==
  ASSUME FundInd, NEW c \in Calls, Fund!PollFails(c) \/ Fund!Expire(c) PROVE FundInd'
<1>1. FundTypes /\ FundCall(c) /\ funding[c] = "proof" /\ tx[c] # "proven" /\ coin[c] > 0
  BY DEF FundInd, FundCall, Fund!PollFails, Fund!Expire, Fund!HasProof
<1>2. UNCHANGED <<tip, tx, tool, mine, at, base, coin, credited>>
  BY DEF Fund!PollFails, Fund!Expire
<1>3. polls' \in [Calls -> 0..Period]
  <2>1. 0 \in 0..Period /\ 1 \in 0..Period
    BY FundConstants
  <2> QED BY <1>1, <2>1 DEF FundTypes, Fund!PollFails, Fund!Expire
<1>4. CASE UNCHANGED <<funding, result, told>>
  BY <1>2, <1>3, <1>4, FundStays
<1>5. CASE Fund!Fails(c, "rpc") \/ Fund!Fails(c, "timeout")
  <2>1. credited' \subseteq Calls
        /\ tx' \in [Calls -> {"none", "sent", "refused", "pool", "mined", "proven"}]
    BY <1>1, <1>2 DEF FundTypes
  <2>2. FundTypes'
    BY <1>1, <1>2, <1>3, <1>5, <2>1, FundFailTypes
  <2>3. c \notin credited
    BY <1>1 DEF FundCall
  <2> QED BY <1>1, <1>2, <1>5, <2>2, <2>3, FundFails
<1> QED BY <1>4, <1>5 DEF Fund!PollFails, Fund!Expire

LEMMA FundCredit ==
  ASSUME FundInd, NEW c \in Calls, NEW t \in BOOLEAN, NEW a \in BOOLEAN, Fund!Credit(c, t, a)
  PROVE  FundInd'
<1>1. FundTypes /\ FundCall(c) /\ funding[c] = "credit" /\ tx[c] = "proven" /\ coin[c] > 0
  BY DEF FundInd, FundCall, Fund!Credit
<1>2. UNCHANGED <<tip, tx, tool, mine, at, base, coin, polls>>
  BY DEF Fund!Credit
<1>3. credited' \in {credited, credited \cup {c}} /\ credited' \subseteq Calls
      /\ \A h \in Calls : h # c => (h \in credited' <=> h \in credited)
  BY <1>1 DEF Fund!Credit, FundTypes
<1>4. CASE /\ c \in credited' /\ funding' = [funding EXCEPT ![c] = "done"]
           /\ result' = [result EXCEPT ![c] = "ok"] /\ told' = [told EXCEPT ![c] = TRUE]
  <2>1. FundTypes'
    BY <1>1, <1>2, <1>3, <1>4 DEF FundTypes
  <2>2. /\ funding'[c] = "done" /\ result'[c] = "ok" /\ told'[c] = TRUE
        /\ \A h \in Calls : h # c =>
             funding'[h] = funding[h] /\ result'[h] = result[h] /\ told'[h] = told[h]
    BY <1>1, <1>4 DEF FundTypes
  <2>3. FundCall(c)'
    BY <1>1, <1>2, <1>4, <2>2 DEF FundCall
  <2>4. tip <= tip'
    BY <1>1, <1>2, FundRow
  <2> QED BY <1>2, <1>3, <2>1, <2>2, <2>3, <2>4, FundOne
<1>5. CASE Fund!Fails(c, "internalize")
  <2>1. polls' \in [Calls -> 0..Period]
        /\ tx' \in [Calls -> {"none", "sent", "refused", "pool", "mined", "proven"}]
    BY <1>1, <1>2 DEF FundTypes
  <2>2. FundTypes'
    BY <1>1, <1>2, <1>3, <1>5, <2>1, FundFailTypes
  <2> QED BY <1>1, <1>2, <1>3, <1>5, <2>2, FundFails
<1> QED BY <1>4, <1>5 DEF Fund!Credit, Fund!Goes

\* The credit alone is repeated: the coinbase is still on record.
LEMMA FundRecover ==
  ASSUME FundInd, NEW c \in Calls, Fund!Recover(c) PROVE FundInd'
<1>1. FundTypes /\ FundCall(c) /\ coin[c] > 0
  BY DEF FundInd, FundCall, Fund!Recover
<1>2. /\ funding' = [funding EXCEPT ![c] = "proof"] /\ tool' = [tool EXCEPT ![c] = "api"]
      /\ mine' = [mine EXCEPT ![c] = FALSE] /\ result' = [result EXCEPT ![c] = ""]
      /\ UNCHANGED <<tip, tx, at, base, coin, polls, told, credited>>
  BY DEF Fund!Recover, Fund!Goes
<1>3. FundTypes'
  BY <1>1, <1>2 DEF FundTypes
<1>4. /\ funding'[c] = "proof" /\ result'[c] = ""
      /\ \A h \in Calls : h # c =>
           funding'[h] = funding[h] /\ tool'[h] = tool[h] /\ result'[h] = result[h]
  BY <1>1, <1>2 DEF FundTypes
<1>5. FundCall(c)'
  BY <1>1, <1>2, <1>4 DEF FundCall
<1>6. tip' = tip /\ tip \in Nat
  BY <1>1, <1>2, FundRow
<1>7. tip <= tip'
  BY <1>6
<1> QED BY <1>2, <1>3, <1>4, <1>5, <1>7, FundOne

\* A payment reaches the node, or is proven.
LEMMA FundTravels ==
  ASSUME FundInd, NEW c \in Calls, Fund!Reach(c) \/ Fund!Prove(c) PROVE FundInd'
<1>1. FundTypes /\ FundCall(c)
  BY DEF FundInd
<1>2. UNCHANGED <<tip, funding, tool, mine, at, base, coin, polls, result, told, credited>>
  BY DEF Fund!Reach, Fund!Prove, Fund!call
<1>3. PICK x \in {"refused", "pool", "proven"} :
        tx' = [tx EXCEPT ![c] = x] /\ tx[c] \in {"sent", "mined"}
  BY DEF Fund!Reach, Fund!Prove
<1>4. FundTypes' /\ tx'[c] = x /\ \A h \in Calls : h # c => tx'[h] = tx[h]
  BY <1>1, <1>2, <1>3 DEF FundTypes
<1>5. FundCall(c)'
  BY <1>1, <1>2, <1>3, <1>4 DEF FundCall
<1> QED BY <1>2, <1>4, <1>5, FundMoves

LEMMA FundNext == FundInd /\ (Fund!Next \/ UNCHANGED fundVars) => FundInd'
<1> SUFFICES ASSUME FundInd, Fund!Next \/ UNCHANGED fundVars PROVE FundInd'
  OBVIOUS
<1>1. polls \in [Calls -> 0..Period]
  BY DEF FundInd, FundTypes
<1>2. CASE UNCHANGED fundVars
  BY <1>1, <1>2, FundStays DEF fundVars
<1>3. CASE Fund!Block
  <2>1. UNCHANGED <<funding, tool, mine, at, base, coin, polls, result, told, credited>>
        /\ Fund!Generate(1)
    BY <1>3 DEF Fund!Block, Fund!call
  <2> QED BY <1>1, <2>1, FundBlock
<1>4. ASSUME NEW c \in Calls, Fund!Working(c) PROVE FundInd'
  <2>1. ASSUME NEW b \in BOOLEAN, Fund!Look(c, b) PROVE FundInd'
    BY <2>1, FundLook
  <2>2. ASSUME NEW t \in BOOLEAN, NEW a \in BOOLEAN, Fund!Submit(c, t, a) \/ Fund!Credit(c, t, a)
        PROVE  FundInd'
    BY <2>2, FundSubmit, FundCredit
  <2> QED BY <1>4, <2>1, <2>2, FundReadTip, FundLookFails, FundWaits, FundPoll DEF Fund!Working
<1>5. ASSUME NEW c \in Calls,
             \E who \in {"api", "stackctl"}, b \in BOOLEAN : Fund!Begin(c, who, b)
      PROVE  FundInd'
  BY <1>5, FundBegin
<1>6. ASSUME NEW c \in Calls,
             Fund!PollFails(c) \/ Fund!Expire(c) \/ Fund!Recover(c) \/ Fund!Reach(c) \/ Fund!Prove(c)
      PROVE  FundInd'
  BY <1>6, FundGivesUp, FundRecover, FundTravels
<1> QED BY <1>2, <1>3, <1>4, <1>5, <1>6 DEF Fund!Next

LEMMA FundInvariant == Spec => []FundInd
<1>1. Init => FundInd
  BY FundInit DEF Init
<1>2. FundInd /\ [Next]_vars => FundInd'
  BY FundNext DEF Next, vars
<1> QED BY <1>1, <1>2, PTL DEF Spec

\* Nothing is credited without a proof, a success is credited, and a failed
\* top-up whose payment may be on its way answers with its txid, for any number
\* of top-ups and any maturity, window and height.
THEOREM FundingIsSafe == Spec => []FundingInv
BY FundInvariant, FundIndImplies, PTL

------------------------------------------------------------------------------
(* The mining metronome *)

\* A set of naturals with an upper bound has a largest member: of the sets of
\* what is above a member, take a least one.
LEMMA LargestExists ==
  ASSUME NEW S \in SUBSET Nat, NEW b \in Nat, S # {}, \A i \in S : i <= b
  PROVE  \E m \in S : \A i \in S : m >= i
<1> DEFINE Above(i) == {j \in S : j > i}
           Tops == {Above(i) : i \in S}
<1>1. IsFiniteSet(S)
  BY FS_BoundedSetOfNaturals
<1>2. \A i \in S : Above(i) \in FiniteSubsetsOf(S)
  BY <1>1, FS_FiniteSubsetsOfFinite
<1>3. IsWellFoundedOn(StrictSubsetOrdering(S), FiniteSubsetsOf(S))
  BY FS_StrictSubsetOrderingWellFounded
<1>4. PICK T \in Tops : \A U \in Tops : <<U, T>> \notin StrictSubsetOrdering(S)
  <2>1. Tops \subseteq FiniteSubsetsOf(S) /\ Tops # {}
    BY <1>2
  <2> QED BY <1>3, <2>1, WFMin
<1>5. PICK m \in S : T = Above(m)
  BY <1>4
<1>6. ASSUME NEW j \in S, j > m PROVE FALSE
  <2>1. Above(j) \in Tops
    OBVIOUS
  <2>2. Above(j) \subseteq Above(m) /\ j \in Above(m) /\ j \notin Above(j)
    <3>1. \A x \in S : x \in Nat
      OBVIOUS
    <3>2. m \in Nat /\ j \in Nat /\ ~(j > j)
      BY <1>6, <3>1
    <3>3. \A x \in S : x > j => x > m
      BY <1>6, <3>1, <3>2
    <3> QED BY <1>6, <3>2, <3>3
  <2>3. Above(j) # Above(m)
    BY <2>2
  <2>4. <<Above(j), Above(m)>> \in StrictSubsetOrdering(S)
    BY <2>2, <2>3 DEF StrictSubsetOrdering
  <2> QED BY <1>4, <1>5, <2>1, <2>4
<1>7. \A i \in S : m >= i
  BY <1>6
<1> QED BY <1>7

LEMMA MinOfTwo ==
  ASSUME NEW a \in Int, NEW b \in Int
  PROVE  /\ Mine!Min({a, b}) \in {a, b} /\ Mine!Min({a, b}) <= a /\ Mine!Min({a, b}) <= b
         /\ Mine!Max({a, b}) \in {a, b} /\ Mine!Max({a, b}) >= a /\ Mine!Max({a, b}) >= b
<1>1. \E x \in {a, b} : \A y \in {a, b} : x <= y
  OBVIOUS
<1>2. \E x \in {a, b} : \A y \in {a, b} : x >= y
  OBVIOUS
<1>3. Mine!Min({a, b}) \in {a, b} /\ \A y \in {a, b} : Mine!Min({a, b}) <= y
  BY <1>1 DEF Mine!Min
<1>4. Mine!Max({a, b}) \in {a, b} /\ \A y \in {a, b} : Mine!Max({a, b}) >= y
  BY <1>2 DEF Mine!Max
<1> QED BY <1>3, <1>4

Longest == Mine!Max(Intervals)

LEMMA MineConstants ==
  /\ MaxLate \in Nat
  /\ Longest \in Nat /\ Longest >= 1
  /\ \A i \in Intervals : i \in Nat /\ i >= 1 /\ i <= Longest
<1>1. Intervals \subseteq Nat \ {0} /\ Intervals # {} /\ MaxLate \in Nat
      /\ \A i \in Intervals : 2 * i < MaxLate
  BY WorkersAssumption DEF Mine!AutoMineAssumption
<1>2. \A i \in Intervals : i \in Nat /\ i >= 1 /\ i <= MaxLate
  BY <1>1
<1>3. \E m \in Intervals : \A i \in Intervals : m >= i
  BY <1>1, <1>2, LargestExists
<1>4. Longest \in Intervals /\ \A i \in Intervals : Longest >= i
  BY <1>3 DEF Longest, Mine!Max
<1> QED BY <1>1, <1>2, <1>4

\* The time left and the timer are within the schedule.
MineTypes ==
  /\ cfg \in Mine!Config
  /\ left \in -MaxLate..(2 * Longest)
  /\ reset \in BOOLEAN
  /\ pc \in {"top", "select", "fired", "decide", "mine"}
  /\ copy \in Mine!Config
  /\ timer \in -MaxLate..(2 * Longest)
  /\ req \in [Clients -> Mine!Request]
  /\ copied \in BOOLEAN

\* A timer is set to the time left and both run down, so that a firing has at
\* most one interval to go to the next one.
MineSchedule ==
  /\ pc = "select" => left <= timer \/ left <= Longest
  /\ pc = "fired" => left <= Longest

\* A loop with an old copy is at its end, or has mined with it.
MineStale ==
  /\ stale \in {0, 1}
  /\ stale = 1 /\ ~copied => pc \in {"mine", "top"}

\* Between two firings at one moment the schedule has caught up, and after the
\* second one the next is still to come.
MineBurst ==
  /\ burst \in {0, 1, 2}
  /\ burst = 1 /\ pc # "fired" => left >= 0
  /\ burst = 2 => left >= 0 /\ (pc # "fired" => left > 0) /\ (pc = "select" => timer > 0)

MineInd == MineTypes /\ MineSchedule /\ MineStale /\ MineBurst

LEMMA MineIndImplies == MineInd => MinerInv
<1> SUFFICES ASSUME MineInd PROVE MinerInv
  OBVIOUS
<1>1. stale \in {0, 1} /\ burst \in {0, 1, 2}
  BY DEF MineInd, MineStale, MineBurst
<1>2. stale \in 0..2 /\ burst \in 0..3 /\ stale <= 1 /\ burst <= 2
  BY <1>1
<1> QED BY <1>2 DEF MineInd, MineTypes, MinerInv, Mine!MineTypeOK, Mine!StaleAtMostOnce,
                     Mine!NoCatchingUp, Longest

\* The times as numbers.
LEMMA MineTimes ==
  ASSUME MineTypes
  PROVE  /\ left \in Int /\ timer \in Int /\ -MaxLate <= left /\ -MaxLate <= timer
         /\ left <= 2 * Longest /\ timer <= 2 * Longest
         /\ copy.interval \in Nat /\ copy.interval >= 1 /\ copy.interval <= Longest
         /\ MaxLate \in Nat /\ Longest \in Nat
<1>1. copy.interval \in Intervals
  BY DEF MineTypes, Mine!Config
<1> QED BY <1>1, MineConstants DEF MineTypes

LEMMA MineInit == Init => MineInd
<1> SUFFICES ASSUME Init PROVE MineInd
  OBVIOUS
<1>1. Mine!Init
  BY DEF Init
<1>2. cfg \in Mine!Config /\ left = cfg.interval /\ reset = FALSE /\ pc = "top" /\ copy = cfg
      /\ timer = 0 /\ req = [c \in Clients |-> Mine!NoRequest]
      /\ copied = FALSE /\ stale = 0 /\ burst = 0
  BY <1>1 DEF Mine!Init
<1>3. cfg.interval \in Intervals
  BY <1>2 DEF Mine!Config
<1>4. left \in -MaxLate..(2 * Longest) /\ timer \in -MaxLate..(2 * Longest)
  BY <1>2, <1>3, MineConstants
<1>5. Mine!NoRequest \in Mine!Request
  <2>1. (CHOOSE c \in Mine!Config : TRUE) \in Mine!Config
    BY <1>2
  <2> QED BY <2>1 DEF Mine!NoRequest, Mine!Request
<1>6. MineTypes
  BY <1>2, <1>4, <1>5 DEF MineTypes
<1> QED BY <1>2, <1>6 DEF MineInd, MineSchedule, MineStale, MineBurst

\* A reconfiguration restarts the countdown.
LEMMA MineRequests ==
  ASSUME MineInd, NEW c \in Clients,
         \/ \E sets \in SUBSET Mine!Fields, new \in Mine!Config : Mine!Read(c, sets, new)
         \/ Mine!Configure(c)
  PROVE  MineInd'
<1>1. MineTypes
  BY DEF MineInd
<1>2. UNCHANGED <<pc, copy, timer, burst>>
  BY DEF Mine!Read, Mine!Configure, Mine!loopVars, Mine!history
<1>3. req' \in [Clients -> Mine!Request]
  <2>1. Mine!NoRequest \in Mine!Request
    <3>1. (CHOOSE x \in Mine!Config : TRUE) \in Mine!Config
      BY <1>1 DEF MineTypes
    <3> QED BY <3>1 DEF Mine!NoRequest, Mine!Request
  <2>2. \A new \in Mine!Config : [pc |-> "send", want |-> new] \in Mine!Request
    BY DEF Mine!Request
  <2> QED BY <1>1, <2>1, <2>2 DEF MineTypes, Mine!Read, Mine!Configure
<1>4. CASE UNCHANGED <<cfg, left, reset, copied, stale>>
  BY <1>2, <1>3, <1>4 DEF MineInd, MineTypes, MineSchedule, MineStale, MineBurst
<1>5. CASE cfg' = req[c].want /\ left' = cfg'.interval /\ reset' = TRUE
           /\ copied' = FALSE /\ stale' = 0
  <2>1. cfg' \in Mine!Config
    BY <1>1, <1>5 DEF MineTypes, Mine!Request
  <2>2. left' \in Intervals
    BY <1>5, <2>1 DEF Mine!Config
  <2>3. left' \in -MaxLate..(2 * Longest) /\ left' > 0 /\ left' >= 0 /\ left' <= Longest
    BY <2>2, MineConstants
  <2>4. MineTypes'
    BY <1>1, <1>2, <1>3, <1>5, <2>1, <2>3 DEF MineTypes
  <2> QED BY <1>2, <1>5, <2>3, <2>4 DEF MineInd, MineSchedule, MineStale, MineBurst
<1> QED BY <1>4, <1>5 DEF Mine!Read, Mine!Configure, Mine!loopVars, Mine!history

\* The schedule is the business of a copy, a firing and an advance.
LEMMA MineFires ==
  ASSUME MineInd, Mine!Copy \/ Mine!Fire \/ Mine!Advance PROVE MineInd'
<1>1. MineTypes /\ MineSchedule /\ MineStale /\ MineBurst
  BY DEF MineInd
<1>2. /\ left \in Int /\ timer \in Int /\ -MaxLate <= left /\ -MaxLate <= timer
      /\ left <= 2 * Longest /\ timer <= 2 * Longest
      /\ copy.interval \in Nat /\ copy.interval >= 1 /\ copy.interval <= Longest
      /\ MaxLate \in Nat /\ Longest \in Nat
  BY <1>1, MineTimes
<1>3. CASE Mine!Copy
  <2>1. /\ pc = "top" /\ pc' = "select" /\ copy' = cfg /\ timer' = left /\ copied' = TRUE
        /\ UNCHANGED <<cfg, left, reset, req, stale, burst>>
    BY <1>3 DEF Mine!Copy
  <2>2. MineTypes'
    BY <1>1, <2>1 DEF MineTypes
  <2>3. MineSchedule' /\ MineStale'
    BY <1>1, <1>2, <2>1 DEF MineSchedule, MineStale
  <2>4. MineBurst'
    BY <1>1, <1>2, <2>1 DEF MineBurst
  <2> QED BY <2>2, <2>3, <2>4 DEF MineInd
<1>4. CASE Mine!Fire
  <2>1. /\ pc = "select" /\ timer <= 0 /\ pc' = "fired" /\ burst' = Mine!Min({burst + 1, 3})
        /\ UNCHANGED <<cfg, left, reset, copy, timer, req, copied, stale>>
    BY <1>4 DEF Mine!Fire
  <2>2. MineTypes'
    BY <1>1, <2>1 DEF MineTypes
  <2>3. left <= Longest
    BY <1>1, <1>2, <2>1 DEF MineSchedule
  <2>4. MineSchedule' /\ MineStale'
    BY <1>1, <2>1, <2>3 DEF MineSchedule, MineStale
  <2>5. burst \in {0, 1} /\ (burst = 1 => left >= 0)
    <3>1. burst # 2
      BY <1>1, <1>2, <2>1 DEF MineBurst
    <3> QED BY <1>1, <2>1, <3>1 DEF MineBurst
  <2>6. burst' = burst + 1
    <3>1. burst + 1 \in Int /\ 3 \in Int /\ burst + 1 < 3
      BY <2>5
    <3> QED BY <2>1, <3>1, MinOfTwo
  <2>7. MineBurst'
    <3>1. burst' \in {1, 2} /\ (burst' = 2 => left' >= 0)
      BY <2>1, <2>5, <2>6
    <3> QED BY <2>1, <3>1 DEF MineBurst
  <2> QED BY <2>2, <2>4, <2>7 DEF MineInd
<1>5. CASE Mine!Advance
  <2>1. /\ pc = "fired" /\ pc' = "decide"
        /\ left' = IF left + copy.interval < 0 THEN copy.interval ELSE left + copy.interval
        /\ UNCHANGED <<cfg, reset, copy, timer, req, copied, stale, burst>>
    BY <1>5 DEF Mine!Advance, Mine!history
  <2>2. left <= Longest
    BY <1>1, <2>1 DEF MineSchedule
  <2>3. left' \in Int /\ left' >= 0 /\ left' <= 2 * Longest /\ (left >= 0 => left' > 0)
    BY <1>2, <2>1, <2>2
  <2>4. MineTypes'
    BY <1>1, <1>2, <2>1, <2>3 DEF MineTypes
  <2>5. MineSchedule'
    BY <2>1 DEF MineSchedule
  <2>6. MineStale'
    BY <1>1, <2>1 DEF MineStale
  <2>7. MineBurst'
    BY <1>1, <2>1, <2>3 DEF MineBurst
  <2> QED BY <2>4, <2>5, <2>6, <2>7 DEF MineInd
<1> QED BY <1>3, <1>4, <1>5

LEMMA MineTurns ==
  ASSUME MineInd, Mine!Reset \/ Mine!Decide \/ Mine!Mined PROVE MineInd'
<1>1. MineTypes /\ MineSchedule /\ MineStale /\ MineBurst
  BY DEF MineInd
<1>2. UNCHANGED <<cfg, left, copy, timer, req, copied, burst>>
  BY DEF Mine!Reset, Mine!Decide, Mine!Mined, Mine!history
<1>3. reset' \in BOOLEAN /\ pc' \in {"top", "mine"} /\ pc # "fired"
      /\ (pc = "select" => pc' = "top")
  BY <1>1 DEF Mine!Reset, Mine!Decide, Mine!Mined, MineTypes
<1>4. MineTypes' /\ MineSchedule'
  BY <1>1, <1>2, <1>3 DEF MineTypes, MineSchedule
<1>5. MineBurst'
  BY <1>1, <1>2, <1>3 DEF MineBurst
<1>6. MineStale'
  <2>1. CASE UNCHANGED stale
    BY <1>1, <1>2, <1>3, <2>1 DEF MineStale
  <2>2. CASE pc = "decide" /\ ~copied /\ pc' = "mine" /\ stale' = Mine!Min({stale + 1, 2})
    <3>1. stale = 0
      BY <1>1, <2>2 DEF MineStale
    <3>2. stale' = 1
      BY <2>2, <3>1, MinOfTwo
    <3> QED BY <1>2, <2>2, <3>2 DEF MineStale
  <2> QED BY <2>1, <2>2 DEF Mine!Reset, Mine!Decide, Mine!Mined, Mine!history
<1> QED BY <1>4, <1>5, <1>6 DEF MineInd

LEMMA MineTick == ASSUME MineInd, Mine!Tick PROVE MineInd'
<1>1. MineTypes /\ MineSchedule /\ MineStale
  BY DEF MineInd
<1>2. /\ left \in Int /\ timer \in Int /\ -MaxLate <= left /\ -MaxLate <= timer
      /\ left <= 2 * Longest /\ timer <= 2 * Longest /\ MaxLate \in Nat /\ Longest \in Nat
  BY <1>1, MineTimes
<1>3. /\ left' = Mine!Max({left - 1, -MaxLate}) /\ timer' = Mine!Max({timer - 1, -MaxLate})
      /\ burst' = 0 /\ UNCHANGED <<cfg, reset, pc, copy, req, copied, stale>>
  BY DEF Mine!Tick
<1>4. left - 1 \in Int /\ timer - 1 \in Int /\ -MaxLate \in Int
  BY <1>2
<1>5. /\ left' \in {left - 1, -MaxLate} /\ left' >= left - 1 /\ left' >= -MaxLate
      /\ timer' \in {timer - 1, -MaxLate} /\ timer' >= timer - 1 /\ timer' >= -MaxLate
  BY <1>3, <1>4, MinOfTwo
<1>6. /\ left' \in -MaxLate..(2 * Longest) /\ timer' \in -MaxLate..(2 * Longest)
      /\ left <= timer => left' <= timer'
      /\ left <= Longest => left' <= Longest
  BY <1>2, <1>5
<1>7. MineTypes' /\ MineStale'
  BY <1>1, <1>3, <1>6 DEF MineTypes, MineStale
<1>8. MineSchedule'
  BY <1>1, <1>3, <1>6 DEF MineSchedule
<1> QED BY <1>3, <1>7, <1>8 DEF MineInd, MineBurst

LEMMA MineNext == MineInd /\ (Mine!Next \/ UNCHANGED mineVars) => MineInd'
<1> SUFFICES ASSUME MineInd, Mine!Next \/ UNCHANGED mineVars PROVE MineInd'
  OBVIOUS
<1>1. CASE UNCHANGED mineVars
  BY <1>1 DEF mineVars, MineInd, MineTypes, MineSchedule, MineStale, MineBurst
<1>2. CASE Mine!Next
  BY <1>2, MineRequests, MineFires, MineTurns, MineTick DEF Mine!Next, Mine!Loop
<1> QED BY <1>1, <1>2

LEMMA MineInvariant == Spec => []MineInd
<1>1. Init => MineInd
  BY MineInit
<1>2. MineInd /\ [Next]_vars => MineInd'
  BY MineNext DEF Next, vars
<1> QED BY <1>1, <1>2, PTL DEF Spec

\* At most one mine after a reconfiguration is with what it replaced, and a loop
\* that fell behind fires twice at one moment at most, for any set of intervals,
\* any number of clients and however late the loop is.
THEOREM MinerIsSteady == Spec => []MinerInv
BY MineInvariant, MineIndImplies, PTL

==============================================================================
