-------------------------- MODULE ModelCallsProofs --------------------------
(***************************************************************************)
(* ModelCalls, for any number of coroutines and threads and any limit:      *)
(* permits are neither lost nor doubled, nobody waits beside a free one,    *)
(* and a half-open probe is a call that will report.                        *)
(*                                                                          *)
(* The limiter does five things: it hands a permit out, passes it on, puts  *)
(* a call in the queue, takes it out again, or nothing.  Each is a lemma    *)
(* about the limiter's part of the invariant (Limiter), and the lemma about *)
(* a step finds in every action one of the five.                            *)
(***************************************************************************)
EXTENDS ModelCalls, FiniteSetTheorems, SequenceTheorems, TLAPS

Holding == {"granted", "calling", "nested", "leaked"}

\* Places of a call that neither has a permit nor waits for one.
Away == {"idle", "acquire", "backoff", "dead"} \cup Outcomes

Places == Away \cup Holding \cup {"queued", "asleep", "awake"}

Awake == {s \in Sync : pc[s] = "awake"}

\* A queued call is a coroutine that has its entry in _async_waiters.
Queued == \A c \in Call : pc[c] = "queued" =>
            c \in Async /\ \E k \in 1..Len(waiters) : waiters[k] = c

\* While a permit is free nobody is queued, and if threads sleep, as many have been
\* notified as there are free permits.
NoIdlePermit ==
  inFlight < Limit =>
    /\ \A c \in Call : pc[c] # "queued"
    /\ (\E s \in Sync : pc[s] = "asleep") => Cardinality(Awake) >= Limit - inFlight

Limiter ==
  /\ pc \in [Call -> Places]
  /\ inFlight \in 0..Limit
  /\ waiters \in Seq(Async)
  /\ \A c \in Call : pc[c] \in {"asleep", "awake"} => c \in Sync
  /\ Queued
  /\ PermitsAccounted
  /\ NoIdlePermit

Breaker ==
  /\ attempt \in [Call -> 1..MaxAttempts]
  /\ circuit \in {"closed", "open", "half_open"}
  /\ failures \in 0..Threshold
  /\ probe \in Call \cup {Nobody, CutOff}
  /\ cooled \in BOOLEAN
  /\ ProbeIsOut

IInv == Limiter /\ Breaker

-----------------------------------------------------------------------------
(* The limiter's moves *)

\* There are finitely many calls, so the holders of a permit can be counted.
LEMMA Countable ==
  /\ IsFiniteSet(Holders) /\ Cardinality(Holders) \in Nat
  /\ IsFiniteSet(Awake) /\ Cardinality(Awake) \in Nat
<1>1. Holders \in SUBSET Call /\ Awake \in SUBSET Call
  BY DEF Holders, Awake, Call
<1> QED
  BY <1>1, ModelCallsAssumption, FS_Subset, FS_CardinalityType

\* A call moves without a permit, and not to or from a place where it waits.
LEMMA Wander ==
  ASSUME Limiter, NEW c \in Call, NEW place \in Away,
         pc[c] \in Away, Goto(c, place), UNCHANGED limiter
  PROVE  Limiter'
<1> USE DEF Limiter, Goto, limiter, Places, Away, Holding, Outcomes
<1>1. Holders' = Holders /\ Awake' = Awake
  BY DEF Holders, Awake
<1>2. Queued'
  BY DEF Queued
<1>3. PermitsAccounted'
  BY <1>1 DEF PermitsAccounted
<1>4. NoIdlePermit'
  BY <1>1 DEF NoIdlePermit
<1> QED
  BY <1>2, <1>3, <1>4

\* A call that has a permit moves and keeps it.
LEMMA Keep ==
  ASSUME Limiter, NEW c \in Call, NEW place \in Holding,
         pc[c] \in Holding, Goto(c, place), UNCHANGED limiter
  PROVE  Limiter'
<1> USE DEF Limiter, Goto, limiter, Places, Away, Holding, Outcomes
<1>1. Holders' = Holders /\ Awake' = Awake
  BY DEF Holders, Awake
<1>2. Queued'
  BY DEF Queued
<1>3. PermitsAccounted'
  BY <1>1 DEF PermitsAccounted
<1>4. NoIdlePermit'
  BY <1>1 DEF NoIdlePermit
<1> QED
  BY <1>2, <1>3, <1>4

\* A free permit is taken by a call that is not queued.
LEMMA Taken ==
  ASSUME Limiter, NEW c \in Call, pc[c] \in Away \cup {"asleep", "awake"}, Take(c)
  PROVE  Limiter'
<1> USE ModelCallsAssumption DEF Limiter, Take, Goto, Places, Away, Holding, Outcomes
<1>1. Holders' = Holders \cup {c} /\ c \notin Holders
  BY DEF Holders
<1>2. Awake' = Awake \ {c}
  BY DEF Awake
<1>3. Cardinality(Holders') = Cardinality(Holders) + 1
  BY <1>1, Countable, FS_AddElement
<1>4. Cardinality(Awake') \in Nat /\ Cardinality(Awake') >= Cardinality(Awake) - 1
  <2>1. /\ IsFiniteSet(Awake \ {c})
        /\ Cardinality(Awake \ {c}) = IF c \in Awake THEN Cardinality(Awake) - 1
                                                  ELSE Cardinality(Awake)
    BY Countable, FS_RemoveElement
  <2>2. Cardinality(Awake \ {c}) \in Nat
    BY <2>1, FS_CardinalityType
  <2> QED
    BY <1>2, <2>1, <2>2, Countable
<1>5. PermitsAccounted'
  BY <1>3 DEF PermitsAccounted
<1>6. Queued'
  BY DEF Queued
<1>7. NoIdlePermit'
  BY <1>4, Countable DEF NoIdlePermit
<1> QED
  BY <1>5, <1>6, <1>7

\* A thread that finds no permit goes to sleep, stays asleep, or gives up.
LEMMA Refused ==
  ASSUME Limiter, NEW c \in Call, pc[c] \in Away \cup {"asleep", "awake"}, inFlight >= Limit,
         NEW place \in Away \cup {"asleep"}, place = "asleep" => c \in Sync,
         Goto(c, place), UNCHANGED limiter
  PROVE  Limiter'
<1> USE ModelCallsAssumption DEF Limiter, Goto, limiter, Places, Away, Holding, Outcomes
<1>1. Holders' = Holders
  BY DEF Holders
<1>2. PermitsAccounted'
  BY <1>1 DEF PermitsAccounted
<1>3. Queued'
  BY DEF Queued
<1>4. NoIdlePermit'
  BY DEF NoIdlePermit
<1> QED
  BY <1>2, <1>3, <1>4

\* A coroutine that finds no permit joins the queue.
LEMMA Joined ==
  ASSUME Limiter, NEW c \in Async, pc[c] \in Away, inFlight >= Limit,
         Goto(c, "queued"), waiters' = Append(waiters, c), UNCHANGED inFlight
  PROVE  Limiter'
<1> USE ModelCallsAssumption DEF Limiter, Goto, Places, Away, Holding, Outcomes, Call
<1>1. Holders' = Holders
  BY DEF Holders
<1>2. PermitsAccounted'
  BY <1>1 DEF PermitsAccounted
<1>3. /\ waiters' \in Seq(Async) /\ Len(waiters) \in Nat /\ Len(waiters') = Len(waiters) + 1
      /\ \A k \in 1..Len(waiters) : waiters'[k] = waiters[k]
      /\ waiters'[Len(waiters) + 1] = c
  BY AppendProperties, LenProperties
<1>4. Queued'
  <2> SUFFICES ASSUME NEW d \in Call, pc'[d] = "queued"
               PROVE  d \in Async /\ \E k \in 1..Len(waiters') : waiters'[k] = d
    BY DEF Queued
  <2>1. CASE d = c
    <3>1. Len(waiters) + 1 \in 1..Len(waiters')
      BY <1>3
    <3> QED
      BY <2>1, <3>1, <1>3
  <2>2. CASE d # c
    <3>1. PICK k \in 1..Len(waiters) : waiters[k] = d
      BY <2>2 DEF Queued
    <3>2. k \in 1..Len(waiters')
      BY <1>3
    <3> QED
      BY <2>2, <3>1, <3>2, <1>3 DEF Queued
  <2> QED
    BY <2>1, <2>2
<1>5. NoIdlePermit'
  BY DEF NoIdlePermit
<1> QED
  BY <1>2, <1>3, <1>4, <1>5

\* RemoveAt takes out one entry and keeps every other.
LEMMA Removed ==
  ASSUME NEW S, NEW s \in Seq(S), NEW i \in 1..Len(s)
  PROVE  /\ RemoveAt(s, i) \in Seq(S)
         /\ \A k \in 1..Len(s) : k # i =>
              \E j \in 1..Len(RemoveAt(s, i)) : RemoveAt(s, i)[j] = s[k]
<1> DEFINE front == SubSeq(s, 1, i - 1)
           rest == SubSeq(s, i + 1, Len(s))
<1>1. Len(s) \in Nat /\ \A k \in 1..Len(s) : s[k] \in S
  BY LenProperties, ElementOfSeq
<1>2. /\ front \in Seq(S) /\ Len(front) = i - 1
      /\ \A k \in 1..(i - 1) : front[k] = s[k]
  <2>1. \A k \in 1..(i - 1) : s[k] \in S
    BY <1>1
  <2>2. /\ front \in Seq(S) /\ Len(front) = IF 1 <= i - 1 THEN (i - 1) - 1 + 1 ELSE 0
        /\ \A k \in 1..((i - 1) - 1 + 1) : front[k] = s[1 + k - 1]
    BY <1>1, <2>1, SubSeqProperties
  <2> QED
    BY <2>2, <1>1
<1>3. /\ rest \in Seq(S) /\ Len(rest) = Len(s) - i
      /\ \A k \in 1..(Len(s) - i) : rest[k] = s[i + k]
  <2>1. \A k \in (i + 1)..Len(s) : s[k] \in S
    BY <1>1
  <2>2. /\ rest \in Seq(S)
        /\ Len(rest) = IF i + 1 <= Len(s) THEN Len(s) - (i + 1) + 1 ELSE 0
        /\ \A k \in 1..(Len(s) - (i + 1) + 1) : rest[k] = s[(i + 1) + k - 1]
    BY <1>1, <2>1, SubSeqProperties
  <2> QED
    BY <2>2, <1>1
<1>4. RemoveAt(s, i) = front \o rest
  BY DEF RemoveAt
<1> HIDE DEF front, rest
<1>5. /\ RemoveAt(s, i) \in Seq(S) /\ Len(RemoveAt(s, i)) = Len(s) - 1
      /\ \A j \in 1..(Len(s) - 1) :
           RemoveAt(s, i)[j] = IF j <= i - 1 THEN front[j] ELSE rest[j - (i - 1)]
  <2>1. /\ front \o rest \in Seq(S) /\ Len(front \o rest) = Len(front) + Len(rest)
        /\ \A j \in 1..(Len(front) + Len(rest)) :
             (front \o rest)[j] = IF j <= Len(front) THEN front[j] ELSE rest[j - Len(front)]
    BY <1>2, <1>3, ConcatProperties
  <2>2. Len(front) + Len(rest) = Len(s) - 1
    BY <1>1, <1>2, <1>3
  <2> QED
    BY <2>1, <2>2, <1>2, <1>4
<1>6. ASSUME NEW k \in 1..Len(s), k # i
      PROVE  \E j \in 1..Len(RemoveAt(s, i)) : RemoveAt(s, i)[j] = s[k]
  <2>1. CASE k < i
    <3>1. k \in 1..(Len(s) - 1) /\ k \in 1..(i - 1)
      BY <2>1, <1>1
    <3> QED
      BY <3>1, <1>5, <1>2
  <2>2. CASE k > i
    <3>1. /\ k - 1 \in 1..(Len(s) - 1) /\ ~(k - 1 <= i - 1)
          /\ (k - 1) - (i - 1) = k - i /\ k - i \in 1..(Len(s) - i) /\ i + (k - i) = k
      BY <2>2, <1>1
    <3> QED
      BY <3>1, <1>5, <1>3
  <2> QED
    BY <2>1, <2>2, <1>6, <1>1
<1> QED
  BY <1>5, <1>6

\* A coroutine gives up waiting and takes its entry along.
LEMMA Unqueued ==
  ASSUME Limiter, NEW c \in Call, pc[c] = "queued", NEW place \in Away,
         Goto(c, place), waiters' = Without(c), UNCHANGED inFlight
  PROVE  Limiter'
<1> USE ModelCallsAssumption DEF Limiter, Goto, Places, Away, Holding, Outcomes
<1>1. Holders' = Holders /\ Awake' = Awake
  BY DEF Holders, Awake
<1>2. PermitsAccounted'
  BY <1>1 DEF PermitsAccounted
<1>3. PICK i \in 1..Len(waiters) : waiters[i] = c /\ waiters' = RemoveAt(waiters, i)
  BY DEF Queued, Without
<1>4. /\ waiters' \in Seq(Async)
      /\ \A k \in 1..Len(waiters) : k # i => \E j \in 1..Len(waiters') : waiters'[j] = waiters[k]
  BY <1>3, Removed
<1>5. Queued'
  <2> SUFFICES ASSUME NEW d \in Call, pc'[d] = "queued"
               PROVE  d \in Async /\ \E j \in 1..Len(waiters') : waiters'[j] = d
    BY DEF Queued
  <2>1. pc[d] = "queued" /\ d # c
    OBVIOUS
  <2>2. d \in Async /\ \E k \in 1..Len(waiters) : waiters[k] = d
    BY <2>1 DEF Queued
  <2> QED
    BY <2>1, <2>2, <1>3, <1>4
<1>6. NoIdlePermit'
  BY <1>1 DEF NoIdlePermit
<1> QED
  BY <1>2, <1>4, <1>5, <1>6

\* A permit passes to the first live entry of the queue.
LEMMA Granted ==
  ASSUME Limiter, NEW c \in Call, pc[c] \in Holding, NEW place \in Away, Grant(c, place)
  PROVE  Limiter'
<1> USE ModelCallsAssumption DEF Limiter, Places, Away, Holding, Outcomes, Call
<1>1. PICK k \in 1..Len(waiters) :
        /\ IsNext(k)
        /\ pc' = [pc EXCEPT ![c] = place, ![waiters[k]] = "granted"]
        /\ waiters' = SubSeq(waiters, k + 1, Len(waiters))
        /\ UNCHANGED inFlight
  BY DEF Grant
<1> DEFINE w == waiters[k]
<1>2. /\ Len(waiters) \in Nat /\ \A j \in 1..Len(waiters) : waiters[j] \in Async
      /\ w \in Call /\ pc[w] = "queued" /\ w # c
  BY <1>1, LenProperties, ElementOfSeq DEF IsNext
<1>3. Holders' = (Holders \ {c}) \cup {w} /\ c \in Holders /\ w \notin Holders
  BY <1>1, <1>2 DEF Holders
<1>4. Cardinality(Holders') = Cardinality(Holders)
  <2>1. IsFiniteSet(Holders \ {c}) /\ Cardinality(Holders \ {c}) = Cardinality(Holders) - 1
    BY <1>3, Countable, FS_RemoveElement
  <2>2. Cardinality((Holders \ {c}) \cup {w}) = Cardinality(Holders) - 1 + 1
    BY <2>1, <1>3, FS_AddElement
  <2> QED
    BY <2>2, <1>3, Countable
<1>5. PermitsAccounted'
  BY <1>1, <1>4 DEF PermitsAccounted
<1>6. /\ waiters' \in Seq(Async) /\ Len(waiters') = Len(waiters) - k
      /\ \A j \in 1..(Len(waiters) - k) : waiters'[j] = waiters[k + j]
  <2>1. \A j \in (k + 1)..Len(waiters) : waiters[j] \in Async
    BY <1>2
  <2>2. /\ waiters' \in Seq(Async)
        /\ Len(waiters') = IF k + 1 <= Len(waiters) THEN Len(waiters) - (k + 1) + 1 ELSE 0
        /\ \A j \in 1..(Len(waiters) - (k + 1) + 1) : waiters'[j] = waiters[(k + 1) + j - 1]
    BY <1>1, <1>2, <2>1, SubSeqProperties
  <2> QED
    BY <2>2, <1>2
<1>7. Queued'
  <2> SUFFICES ASSUME NEW d \in Call, pc'[d] = "queued"
               PROVE  d \in Async /\ \E j \in 1..Len(waiters') : waiters'[j] = d
    BY DEF Queued
  <2>1. pc[d] = "queued" /\ d # w
    BY <1>1, <1>2
  <2>2. PICK i \in 1..Len(waiters) : waiters[i] = d
    BY <2>1 DEF Queued
  <2>3. i > k
    BY <1>1, <1>2, <2>1, <2>2 DEF IsNext
  <2>4. i - k \in 1..Len(waiters') /\ k + (i - k) = i
    BY <2>3, <1>2, <1>6
  <2> QED
    BY <2>1, <2>2, <2>4, <1>6 DEF Queued
<1>8. NoIdlePermit'
  BY <1>1, <1>2 DEF NoIdlePermit
<1>9. pc' \in [Call -> Places] /\ \A d \in Call : pc'[d] \in {"asleep", "awake"} => d \in Sync
  BY <1>1, <1>2
<1> QED
  BY <1>1, <1>5, <1>6, <1>7, <1>8, <1>9

\* Nobody is queued: the permit is free again, and a sleeping thread is notified of it.
LEMMA Freed ==
  ASSUME Limiter, NEW c \in Call, pc[c] \in Holding, NEW place \in Away,
         HandOff(c, place), ~Grant(c, place)
  PROVE  Limiter'
<1> USE ModelCallsAssumption DEF Limiter, Goto, Places, Away, Holding, Outcomes, Call
<1>1. /\ NoWaiter /\ inFlight' = inFlight - 1 /\ waiters' = <<>>
      /\ \/ (\A s \in Sync : pc[s] # "asleep") /\ Goto(c, place)
         \/ \E s \in Sync : /\ pc[s] = "asleep"
                            /\ pc' = [pc EXCEPT ![c] = place, ![s] = "awake"]
  BY DEF HandOff
<1>2. \A d \in Call : pc[d] # "queued"
  BY <1>1 DEF NoWaiter, Queued
<1>3. Holders' = Holders \ {c} /\ c \in Holders
  BY <1>1 DEF Holders
<1>4. Cardinality(Holders') = Cardinality(Holders) - 1
  BY <1>3, Countable, FS_RemoveElement
<1>5. PermitsAccounted' /\ inFlight' \in 0..Limit
  <2>1. Cardinality(Holders') \in Nat
    BY <1>3, Countable, FS_RemoveElement, FS_CardinalityType
  <2> QED
    BY <2>1, <1>1, <1>4 DEF PermitsAccounted
<1>6. \A d \in Call : pc'[d] # "queued"
  BY <1>1, <1>2
<1>7. NoIdlePermit'
  <2>1. CASE (\A s \in Sync : pc[s] # "asleep") /\ Goto(c, place)
    BY <2>1, <1>6 DEF NoIdlePermit
  <2>2. ASSUME NEW s \in Sync, pc[s] = "asleep",
               pc' = [pc EXCEPT ![c] = place, ![s] = "awake"]
        PROVE  NoIdlePermit'
    <3>1. Awake' = Awake \cup {s} /\ s \notin Awake
      BY <2>2 DEF Awake
    <3>2. Cardinality(Awake') = Cardinality(Awake) + 1
      BY <3>1, Countable, FS_AddElement
    <3> QED
      BY <3>2, <2>2, <1>1, <1>6, Countable DEF NoIdlePermit
  <2> QED
    BY <1>1, <2>1, <2>2
<1>8. waiters' \in Seq(Async) /\ Queued'
  BY <1>1, <1>6, EmptySeq DEF Queued
<1>9. pc' \in [Call -> Places] /\ \A d \in Call : pc'[d] \in {"asleep", "awake"} => d \in Sync
  BY <1>1
<1> QED
  BY <1>5, <1>7, <1>8, <1>9

\* The coroutine dies in the queue, and its entry stays behind.
LEMMA Died ==
  ASSUME Limiter, NEW c \in Call, pc[c] = "queued", Goto(c, "dead"), UNCHANGED limiter
  PROVE  Limiter'
<1> USE DEF Limiter, Goto, limiter, Places, Away, Holding, Outcomes
<1>1. Holders' = Holders /\ Awake' = Awake
  BY DEF Holders, Awake
<1>2. Queued'
  BY DEF Queued
<1>3. PermitsAccounted'
  BY <1>1 DEF PermitsAccounted
<1>4. NoIdlePermit'
  BY <1>1 DEF NoIdlePermit
<1> QED
  BY <1>2, <1>3, <1>4

\* Both ways a permit can be given back.
LEMMA HandedOff ==
  ASSUME Limiter, NEW c \in Call, pc[c] \in Holding, NEW place \in Away, HandOff(c, place)
  PROVE  Limiter'
  BY Granted, Freed

-----------------------------------------------------------------------------
(* The invariant is inductive *)

\* Nothing is queued and no permit is out at the start.
LEMMA InitIInv == Init => IInv
<1> SUFFICES ASSUME Init PROVE IInv
  OBVIOUS
<1> USE ModelCallsAssumption DEF Init
<1>1. Holders = {}
  BY DEF Holders
<1>2. Limiter
  BY <1>1, FS_EmptySet, EmptySeq
     DEF Limiter, Places, Away, Holding, Outcomes, Queued, PermitsAccounted, NoIdlePermit, Call
<1>3. Breaker
  <2>1. attempt \in [Call -> 1..MaxAttempts] /\ failures \in 0..Threshold
    OBVIOUS
  <2>2. cooled \in BOOLEAN
    BY Zenon
  <2>3. ProbeIsOut
    BY DEF ProbeIsOut
  <2> QED
    BY <2>1, <2>2, <2>3 DEF Breaker
<1> QED
  BY <1>2, <1>3 DEF IInv

\* Every action makes one of the limiter's moves.
LEMMA LimiterStep == IInv /\ [Next]_vars => Limiter'
<1> SUFFICES ASSUME Limiter, [Next]_vars PROVE Limiter'
  BY DEF IInv
<1> DEFINE Walks(c) == \E place \in Away : pc[c] \in Away /\ Goto(c, place) /\ UNCHANGED limiter
           Keeps(c) == \E place \in Holding :
                         pc[c] \in Holding /\ Goto(c, place) /\ UNCHANGED limiter
           Gives(c) == \E place \in Away : pc[c] \in Holding /\ HandOff(c, place)
           Leaves(c) == \E place \in Away : /\ pc[c] = "queued" /\ Goto(c, place)
                                            /\ waiters' = Without(c) /\ UNCHANGED inFlight
           Takes(c) == pc[c] \in Away \cup {"asleep", "awake"} /\ Take(c)
           Sleeps(c) == \E place \in Away \cup {"asleep"} :
                          /\ pc[c] \in Away \cup {"asleep", "awake"} /\ inFlight >= Limit
                          /\ place = "asleep" => c \in Sync
                          /\ Goto(c, place) /\ UNCHANGED limiter
           Joins(c) == /\ c \in Async /\ pc[c] \in Away /\ inFlight >= Limit
                       /\ Goto(c, "queued") /\ waiters' = Append(waiters, c) /\ UNCHANGED inFlight
           Dies(c) == pc[c] = "queued" /\ Goto(c, "dead") /\ UNCHANGED limiter
           Moves(c) == \/ Walks(c) \/ Keeps(c) \/ Gives(c) \/ Leaves(c)
                       \/ Takes(c) \/ Sleeps(c) \/ Joins(c) \/ Dies(c)
<1>1. ASSUME NEW c \in Call, Moves(c) PROVE Limiter'
  <2>1. CASE Walks(c)
    BY <2>1, Wander
  <2>2. CASE Keeps(c)
    BY <2>2, Keep
  <2>3. CASE Gives(c)
    BY <2>3, HandedOff
  <2>4. CASE Leaves(c)
    BY <2>4, Unqueued
  <2>5. CASE Takes(c)
    BY <2>5, Taken
  <2>6. CASE Sleeps(c)
    BY <2>6, Refused
  <2>7. CASE Joins(c)
    BY <2>7, Joined
  <2>8. CASE Dies(c)
    BY <2>8, Died
  <2> QED
    BY <1>1, <2>1, <2>2, <2>3, <2>4, <2>5, <2>6, <2>7, <2>8
<1>2. ASSUME NEW c \in Call, NEW place \in Away, LeaveQueue(c, place) PROVE Moves(c)
  BY <1>2 DEF LeaveQueue, Holding
<1>3. ASSUME NEW c \in Call, Steps(c) PROVE Moves(c)
  <2> USE DEF Away, Outcomes, Holding
  <2>1. CASE Acquire(c)
    BY <2>1 DEF Acquire, Take, Call, limiter
  <2>2. CASE Retry(c)
    BY <2>2 DEF Retry, Take, Call, limiter, Limiter
  <2>3. CASE Resume(c) \/ LeaveNested(c)
    BY <2>3 DEF Resume, LeaveNested
  <2>4. CASE Answer(c)
    BY <2>4 DEF Answer
  <2>5. CASE Succeed(c) \/ GiveUp(c) \/ EndUncounted(c) \/ LoopClosed(c)
    BY <2>5 DEF Succeed, GiveUp, EndUncounted, LoopClosed
  <2>6. CASE Backoff(c) \/ BackoffEnds(c)
    BY <2>6 DEF Backoff, BackoffEnds
  <2> QED
    BY <1>3, <2>1, <2>2, <2>3, <2>4, <2>5, <2>6 DEF Steps
<1>4. ASSUME NEW c \in Call, Admit(c) PROVE Moves(c)
  BY <1>4 DEF Admit, Away
<1>5. ASSUME NEW c \in Call, SyncTimeout(c) PROVE Moves(c)
  BY <1>5 DEF SyncTimeout, Away, Outcomes
<1>6. ASSUME NEW c \in Call, AsyncTimeout(c) PROVE Moves(c)
  BY <1>2, <1>6 DEF AsyncTimeout, Away, Outcomes
<1>7. ASSUME NEW c \in Call, EnterNested(c) PROVE Moves(c)
  BY <1>7 DEF EnterNested, Holding
<1>8. ASSUME NEW c \in Call, Cancel(c) PROVE Moves(c)
  <2> USE DEF Away, Holding
  <2>1. CASE LeaveQueue(c, "idle")
    BY <1>2, <2>1
  <2>2. CASE pc[c] \in {"calling", "nested"} /\ HandOff(c, "idle")
    BY <2>2
  <2>3. CASE pc[c] = "backoff" /\ Goto(c, "idle") /\ UNCHANGED limiter
    BY <2>3
  <2> QED
    BY <1>8, <2>1, <2>2, <2>3 DEF Cancel
<1>9. ASSUME NEW c \in Call, LoopDies(c) PROVE Moves(c)
  BY <1>9 DEF LoopDies, Holding
<1>10. CASE CoolDown \/ UNCHANGED vars
  BY <1>10 DEF CoolDown, vars, limiter, Limiter, Queued, PermitsAccounted, NoIdlePermit, Holders, Awake
<1> HIDE DEF Moves
<1> QED
  BY <1>1, <1>3, <1>4, <1>5, <1>6, <1>7, <1>8, <1>9, <1>10 DEF Next

Over == {"idle", "dead", "leaked"}

\* Passing a permit on ends no other call.
LEMMA Passed ==
  ASSUME Limiter, NEW c \in Call, pc[c] \in Holding, NEW place, HandOff(c, place)
  PROVE  pc'[c] = place /\ \A d \in Call \ {c} : pc'[d] \in {pc[d], "granted", "awake"}
<1> USE DEF Limiter, Holding, Call
<1>1. CASE Grant(c, place)
  <2>1. PICK k \in 1..Len(waiters) :
          pc[waiters[k]] = "queued" /\ pc' = [pc EXCEPT ![c] = place, ![waiters[k]] = "granted"]
    BY <1>1 DEF Grant, IsNext
  <2> QED
    BY <2>1
<1>2. CASE ~Grant(c, place)
  BY <1>2 DEF HandOff, Goto
<1> QED
  BY <1>1, <1>2

Counts ==
  /\ attempt \in [Call -> 1..MaxAttempts]
  /\ circuit \in {"closed", "open", "half_open"}
  /\ failures \in 0..Threshold
  /\ probe \in Call \cup {Nobody, CutOff}

\* Attempts stay within MaxAttempts, and counted failures within the threshold.
LEMMA CountsStep == IInv /\ [Next]_vars => Counts'
<1> SUFFICES ASSUME IInv, [Next]_vars PROVE Counts'
  OBVIOUS
<1> USE ModelCallsAssumption DEF IInv, Breaker, Counts, breaker
<1>1. CASE UNCHANGED <<attempt, breaker>>
  BY <1>1
<1>2. ASSUME NEW c \in Call, RecordSuccess \/ RecordFailure \/ ReleaseProbe \/ Silent(c),
             UNCHANGED attempt
      PROVE  Counts'
  <2>1. CASE RecordSuccess
    BY <1>2, <2>1 DEF RecordSuccess
  <2>2. CASE RecordFailure
    <3>1. CASE circuit = "half_open"
      BY <1>2, <2>2, <3>1 DEF RecordFailure
    <3>2. CASE circuit # "half_open" /\ Trips
      BY <1>2, <2>2, <3>2 DEF RecordFailure
    <3>3. CASE circuit # "half_open" /\ ~Trips
      <4>1. failures' \in 0..Threshold
        BY <2>2, <3>3 DEF RecordFailure, Trips
      <4> QED
        BY <1>2, <2>2, <3>3, <4>1 DEF RecordFailure
    <3> QED
      BY <3>1, <3>2, <3>3
  <2>3. CASE ReleaseProbe \/ Silent(c)
    BY <1>2, <2>3 DEF ReleaseProbe, Silent
  <2> QED
    BY <1>2, <2>1, <2>2, <2>3
<1>3. ASSUME NEW c \in Call, Admit(c) PROVE Counts'
  BY <1>3 DEF Admit
<1>4. ASSUME NEW c \in Call, Steps(c) PROVE Counts'
  <2>1. CASE Acquire(c) \/ Resume(c) \/ Retry(c) \/ LeaveNested(c) \/ Answer(c) \/ BackoffEnds(c)
    BY <1>1, <2>1 DEF Acquire, Resume, Retry, LeaveNested, Answer, BackoffEnds
  <2>2. CASE Succeed(c) \/ GiveUp(c) \/ EndUncounted(c) \/ LoopClosed(c)
    BY <1>2, <2>2 DEF Succeed, GiveUp, EndUncounted, LoopClosed
  <2>3. CASE Backoff(c)
    <3>1. Attempts(pc[c]) \in Int /\ Attempts(pc[c]) <= MaxAttempts
      BY DEF Attempts
    <3> QED
      BY <2>3, <3>1 DEF Backoff
  <2> QED
    BY <1>4, <2>1, <2>2, <2>3 DEF Steps
<1>5. ASSUME NEW c \in Call, SyncTimeout(c) \/ AsyncTimeout(c) \/ EnterNested(c) PROVE Counts'
  BY <1>1, <1>5 DEF SyncTimeout, AsyncTimeout, EnterNested
<1>6. ASSUME NEW c \in Call, Cancel(c) \/ LoopDies(c) PROVE Counts'
  BY <1>2, <1>6 DEF Cancel, LoopDies
<1>7. CASE CoolDown \/ UNCHANGED vars
  BY <1>7 DEF CoolDown, vars
<1> QED
  BY <1>3, <1>4, <1>5, <1>6, <1>7 DEF Next

\* cooled is a truth value.
LEMMA CooledStep == IInv /\ [Next]_vars => cooled' \in BOOLEAN
<1> SUFFICES ASSUME IInv, [Next]_vars PROVE cooled' \in BOOLEAN
  OBVIOUS
<1>1. cooled' \in {cooled, TRUE, FALSE}
  BY DEF vars, breaker, Next, Steps, Admit, CoolDown, Acquire, Resume, Retry, LeaveNested, Answer,
         BackoffEnds, Succeed, GiveUp, EndUncounted, LoopClosed, Backoff, SyncTimeout, AsyncTimeout,
         EnterNested, Cancel, LoopDies, RecordSuccess, RecordFailure, ReleaseProbe, Silent
<1> QED
  BY <1>1, Zenon DEF IInv, Breaker

\* Only the call that moves can stop being on its way, and then it reports to the
\* breaker, gives the probe back, or is marked as cut off.
LEMMA ProbeStep == IInv /\ [Next]_vars => ProbeIsOut'
<1> SUFFICES ASSUME IInv, [Next]_vars PROVE ProbeIsOut'
  OBVIOUS
<1> USE ModelCallsAssumption DEF IInv, Breaker
<1> DEFINE Spares(c) == \A d \in Call \ {c} : pc'[d] \in {pc[d], "granted", "awake"}
           Tells(c) == /\ probe' \in {probe, Nobody, CutOff} /\ probe' # c
                       /\ circuit' # "half_open" => probe' = Nobody
<1>1. ASSUME NEW c \in Call, Spares(c), Tells(c) PROVE ProbeIsOut'
  BY <1>1 DEF ProbeIsOut
<1>2. ASSUME NEW c \in Call, Spares(c), UNCHANGED breaker, pc'[c] \notin Over PROVE ProbeIsOut'
  BY <1>2 DEF ProbeIsOut, Over, breaker
<1>3. ASSUME NEW c \in Call, NEW place, LeaveQueue(c, place)
      PROVE  Spares(c) /\ pc'[c] = place
  BY <1>3, Passed DEF LeaveQueue, Goto, Limiter, Holding
<1>4. ASSUME NEW c \in Call, NEW place, Goto(c, place) PROVE Spares(c) /\ pc'[c] = place
  BY <1>4 DEF Goto, Limiter
<1>5. ASSUME NEW c \in Call, Silent(c) PROVE Tells(c)
  BY <1>5 DEF Silent, ProbeIsOut
<1>6. ASSUME NEW c \in Call, RecordSuccess \/ RecordFailure \/ ReleaseProbe PROVE Tells(c)
  BY <1>6 DEF RecordSuccess, RecordFailure, ReleaseProbe, ProbeIsOut
<1>7. ASSUME NEW c \in Call, Admit(c) PROVE ProbeIsOut'
  BY <1>7 DEF Admit, Goto, Limiter, ProbeIsOut
<1>8. ASSUME NEW c \in Call, Steps(c) PROVE ProbeIsOut'
  <2> USE DEF Over
  <2>1. CASE Acquire(c) \/ Resume(c) \/ Retry(c) \/ LeaveNested(c) \/ Backoff(c) \/ BackoffEnds(c)
    BY <1>2, <1>4, <2>1 DEF Acquire, Resume, Retry, LeaveNested, Backoff, BackoffEnds, Take
  <2>2. CASE Answer(c)
    <3>1. PICK o \in Outcomes : HandOff(c, o)
      BY <2>2 DEF Answer
    <3>2. Spares(c) /\ pc'[c] = o
      BY <2>2, <3>1, Passed DEF Answer, Holding
    <3> QED
      BY <1>2, <2>2, <3>2 DEF Answer, Outcomes
  <2>3. CASE Succeed(c) \/ GiveUp(c) \/ EndUncounted(c)
    BY <1>1, <1>4, <1>6, <2>3 DEF Succeed, GiveUp, EndUncounted
  <2>4. CASE LoopClosed(c)
    BY <1>1, <1>4, <1>5, <2>4 DEF LoopClosed
  <2> QED
    BY <1>8, <2>1, <2>2, <2>3, <2>4 DEF Steps
<1>9. ASSUME NEW c \in Call, SyncTimeout(c) \/ EnterNested(c) PROVE ProbeIsOut'
  BY <1>2, <1>4, <1>9 DEF SyncTimeout, EnterNested, Take, Over
<1>10. ASSUME NEW c \in Call, AsyncTimeout(c) PROVE ProbeIsOut'
  BY <1>2, <1>3, <1>10 DEF AsyncTimeout, Over
<1>11. ASSUME NEW c \in Call, Cancel(c) PROVE ProbeIsOut'
  <2>1. Spares(c)
    <3>1. CASE LeaveQueue(c, "idle")
      BY <1>3, <3>1
    <3>2. CASE pc[c] \in {"calling", "nested"} /\ HandOff(c, "idle")
      BY <3>2, Passed DEF Holding
    <3>3. CASE Goto(c, "idle")
      BY <1>4, <3>3
    <3> QED
      BY <1>11, <3>1, <3>2, <3>3 DEF Cancel
  <2>2. Tells(c)
    BY <1>5, <1>11 DEF Cancel
  <2> QED
    BY <1>1, <2>1, <2>2
<1>12. ASSUME NEW c \in Call, LoopDies(c) PROVE ProbeIsOut'
  BY <1>1, <1>4, <1>5, <1>12 DEF LoopDies
<1>13. CASE CoolDown \/ UNCHANGED vars
  BY <1>13 DEF CoolDown, vars, breaker, ProbeIsOut
<1> QED
  BY <1>7, <1>8, <1>9, <1>10, <1>11, <1>12, <1>13 DEF Next

\* The invariant holds in every behaviour.
THEOREM Inductive == Spec => []IInv
<1>1. IInv /\ [Next]_vars => IInv'
  BY LimiterStep, CountsStep, CooledStep, ProbeStep DEF IInv, Breaker, Counts
<1> QED
  BY InitIInv, <1>1, PTL DEF Spec

-----------------------------------------------------------------------------
(* What it shows *)

\* Every variable has its type; _in_flight stays between zero and the limit.
THEOREM TypeCorrect == Spec => []TypeOK
<1>1. IInv => TypeOK
  BY DEF IInv, Limiter, Breaker, TypeOK, Places, Away, Holding
<1> QED
  BY <1>1, Inductive, PTL

\* _in_flight counts the calls that hold a permit: none is lost to a timeout or a
\* cancellation beside the grant, and none is handed out twice.
THEOREM PermitsAreAccounted == Spec => []PermitsAccounted
<1>1. IInv => PermitsAccounted
  BY DEF IInv, Limiter
<1> QED
  BY <1>1, Inductive, PTL

\* While a permit is free no coroutine is queued, and a sleeping thread has a
\* notified one before it: release() and acquire_*() leave no wakeup out.
THEOREM NobodyWaits == Spec => []NobodyWaitsForNothing
<1>1. ASSUME IInv PROVE NobodyWaitsForNothing
  <2> USE ModelCallsAssumption, <1>1 DEF IInv, Limiter, NoIdlePermit
  <2>1. ASSUME inFlight < Limit, \E s \in Sync : pc[s] = "asleep"
        PROVE  \E s \in Sync : pc[s] = "awake"
    <3>1. Cardinality(Awake) # 0
      BY <2>1, Countable
    <3>2. Awake # {}
      BY <3>1, FS_EmptySet
    <3> QED
      BY <3>2 DEF Awake
  <2> QED
    BY <2>1 DEF NobodyWaitsForNothing, Call
<1> QED
  BY <1>1, Inductive, PTL

\* The probe of a half-open circuit is a call that will report, or was cut off.
THEOREM ProbeReports == Spec => []ProbeIsOut
<1>1. IInv => ProbeIsOut
  BY DEF IInv, Breaker
<1> QED
  BY <1>1, Inductive, PTL

=============================================================================
