------------------------------ MODULE ModelCalls ------------------------------
(***************************************************************************)
(* deerflow/agents/middlewares/llm_error_handling_middleware.py: the        *)
(* process-wide limiter of model calls, shared by threads and by the        *)
(* coroutines of several event loops, and the circuit breaker of one        *)
(* middleware, through which every call goes first.                         *)
(*                                                                          *)
(* A call is admitted by the breaker, takes a permit for each attempt,      *)
(* gives it back with the answer, and then tells the breaker.  Waiting      *)
(* coroutines are handed the permit of whoever leaves; waiting threads are  *)
(* only notified and compete with newcomers.                                *)
(***************************************************************************)
EXTENDS Integers, FiniteSets, SequencesExt

CONSTANTS
  Async,        \* calls made by coroutines: they may be cancelled
  Sync,         \* calls made by threads
  Limit,        \* max_concurrent_calls
  Threshold,    \* circuit_failure_threshold
  MaxAttempts,  \* retry_max_attempts
  Nobody,       \* no probe is in flight
  CutOff,       \* the probe in flight was cancelled before it reported
  LoopsDie      \* an event loop may be closed under its coroutines

Call == Async \cup Sync

ASSUME ModelCallsAssumption ==
  /\ Async \cap Sync = {}
  /\ IsFiniteSet(Call)
  /\ Limit \in Nat \ {0} /\ Threshold \in Nat \ {0} /\ MaxAttempts \in Nat \ {0}
  /\ Nobody \notin Call /\ CutOff \notin Call /\ Nobody # CutOff
  /\ LoopsDie \in BOOLEAN

VARIABLES
  pc,        \* where each call stands
  attempt,   \* the attempt it is at
  inFlight,  \* _in_flight
  waiters,   \* _async_waiters
  circuit,   \* _circuit_state
  failures,  \* _circuit_failure_count
  probe,     \* _circuit_probe_in_flight, and whose probe it is
  cooled     \* _circuit_open_until has passed

limiter == <<inFlight, waiters>>
breaker == <<circuit, failures, probe, cooled>>
vars == <<pc, attempt, limiter, breaker>>

\* What a call may have heard when its permit is back.
Outcomes == {"ok", "bubble", "transient", "burst", "final", "loopClosed"}

TypeOK ==
  /\ pc \in [Call -> {"idle", "acquire", "queued", "asleep", "awake", "granted",
                      "calling", "nested", "backoff", "dead", "leaked"} \cup Outcomes]
  /\ attempt \in [Call -> 1..MaxAttempts]
  /\ inFlight \in 0..Limit
  /\ waiters \in Seq(Async)
  /\ circuit \in {"closed", "open", "half_open"}
  /\ failures \in 0..Threshold
  /\ probe \in Call \cup {Nobody, CutOff}
  /\ cooled \in BOOLEAN

Init ==
  /\ pc = [c \in Call |-> "idle"]
  /\ attempt = [c \in Call |-> 1]
  /\ inFlight = 0
  /\ waiters = <<>>
  /\ circuit = "closed"
  /\ failures = 0
  /\ probe = Nobody
  /\ cooled = FALSE

\* Calls with a permit: "leaked" ones vanished with their loop.
Holders == {c \in Call : pc[c] \in {"granted", "calling", "nested", "leaked"}}

Goto(c, place) == pc' = [pc EXCEPT ![c] = place]

-----------------------------------------------------------------------------
(* The circuit breaker *)

\* _check_circuit() lets the call pass: the circuit is closed, or the call is the
\* probe of a half-open circuit.  A refused call ends with a message at once.
Admit(c) ==
  /\ pc[c] = "idle"
  /\ \/ circuit = "closed" /\ UNCHANGED <<circuit, probe>>
     \/ /\ \/ circuit = "open" /\ cooled
           \/ circuit = "half_open" /\ probe = Nobody
        /\ circuit' = "half_open"
        /\ probe' = c
  /\ Goto(c, "acquire")
  /\ attempt' = [attempt EXCEPT ![c] = 1]
  /\ UNCHANGED <<limiter, failures, cooled>>

CoolDown ==
  /\ circuit = "open" /\ ~cooled
  /\ cooled' = TRUE
  /\ UNCHANGED <<pc, attempt, limiter, circuit, failures, probe>>

\* _record_success()
RecordSuccess ==
  /\ circuit' = "closed"
  /\ failures' = 0
  /\ probe' = Nobody
  /\ cooled' = FALSE

Trips == failures + 1 >= Threshold

\* _record_failure(); the count is kept no further than the threshold.
RecordFailure ==
  IF circuit = "half_open"
  THEN /\ circuit' = "open"
       /\ probe' = Nobody
       /\ cooled' = FALSE
       /\ UNCHANGED failures
  ELSE /\ failures' = IF Trips THEN Threshold ELSE failures + 1
       /\ circuit' = IF Trips THEN "open" ELSE circuit
       /\ cooled' = IF Trips THEN FALSE ELSE cooled
       /\ UNCHANGED probe

\* Mutant: a failure that says nothing of the provider leaves the probe in flight.
KeepProbe == UNCHANGED breaker

\* _release_half_open_probe(), and the same lines of the GraphBubbleUp handler.
ReleaseProbe ==
  /\ probe' = IF circuit = "half_open" THEN Nobody ELSE probe
  /\ UNCHANGED <<circuit, failures, cooled>>

\* The call ends without telling the breaker.
Silent(c) ==
  /\ probe' = IF probe = c THEN CutOff ELSE probe
  /\ UNCHANGED <<circuit, failures, cooled>>

-----------------------------------------------------------------------------
(* The limiter *)

\* The first waiter whose event loop is open; _wake_locked() fails for the others.
IsNext(k) ==
  /\ pc[waiters[k]] = "queued"
  /\ \A j \in 1..(k - 1) : pc[waiters[j]] = "dead"

Grant(c, place) ==
  \E k \in 1..Len(waiters) :
    /\ IsNext(k)
    /\ pc' = [pc EXCEPT ![c] = place, ![waiters[k]] = "granted"]
    /\ waiters' = SubSeq(waiters, k + 1, Len(waiters))
    /\ UNCHANGED inFlight

NoWaiter == \A k \in 1..Len(waiters) : pc[waiters[k]] = "dead"

\* release() and _handoff_granted_permit_locked(), while c goes to `place`: the
\* first waiting coroutine inherits the permit; without one it becomes free, and
\* one sleeping thread is notified.
HandOff(c, place) ==
  \/ Grant(c, place)
  \/ /\ NoWaiter
     /\ inFlight' = inFlight - 1
     /\ waiters' = <<>>
     /\ \/ (\A s \in Sync : pc[s] # "asleep") /\ Goto(c, place)
        \/ \E s \in Sync : /\ pc[s] = "asleep"
                           /\ pc' = [pc EXCEPT ![c] = place, ![s] = "awake"]

\* _try_acquire_locked() succeeds.
Take(c) ==
  /\ inFlight < Limit
  /\ inFlight' = inFlight + 1
  /\ Goto(c, "calling")
  /\ UNCHANGED waiters

Acquire(c) ==
  /\ pc[c] = "acquire"
  /\ \/ Take(c)
     \/ /\ inFlight >= Limit
        /\ IF c \in Async
           THEN Goto(c, "queued") /\ waiters' = Append(waiters, c)
           ELSE Goto(c, "asleep") /\ UNCHANGED waiters
        /\ UNCHANGED inFlight
  /\ UNCHANGED <<attempt, breaker>>

\* A coroutine finds its event set.
Resume(c) ==
  /\ pc[c] = "granted"
  /\ Goto(c, "calling")
  /\ UNCHANGED <<attempt, limiter, breaker>>

\* A notified thread tries again; others may have been faster.
Retry(c) ==
  /\ pc[c] = "awake"
  /\ \/ Take(c)
     \/ inFlight >= Limit /\ Goto(c, "asleep") /\ UNCHANGED limiter
  /\ UNCHANGED <<attempt, breaker>>

\* A thread's wait runs out: it tries once more before it gives up.
SyncTimeout(c) ==
  /\ pc[c] \in {"asleep", "awake"}
  /\ \/ Take(c)
     \/ inFlight >= Limit /\ Goto(c, "final") /\ UNCHANGED limiter
  /\ UNCHANGED <<attempt, breaker>>

\* _async_waiters.remove(waiter)
Without(c) ==
  RemoveAt(waiters, CHOOSE k \in 1..Len(waiters) : waiters[k] = c)

\* Mutant: a waiter that is cancelled after the grant forgets the permit.
LeaveQueueForgetful(c, place) ==
  /\ Goto(c, place)
  /\ waiters' = IF pc[c] = "queued" THEN Without(c) ELSE waiters
  /\ UNCHANGED inFlight

\* acquire_async() unwinds: out of the queue, or the granted permit goes on.
LeaveQueue(c, place) ==
  \/ /\ pc[c] = "queued"
     /\ Goto(c, place)
     /\ waiters' = Without(c)
     /\ UNCHANGED inFlight
  \/ pc[c] = "granted" /\ HandOff(c, place)

\* asyncio.timeout(queue_timeout_seconds), even just after the grant.
AsyncTimeout(c) ==
  /\ LeaveQueue(c, "final")
  /\ UNCHANGED <<attempt, breaker>>

-----------------------------------------------------------------------------
(* The call *)

\* A model call inside the slot (a summary, a title) reuses the permit of its task.
EnterNested(c) ==
  /\ pc[c] = "calling"
  /\ Goto(c, "nested")
  /\ UNCHANGED <<attempt, limiter, breaker>>

LeaveNested(c) ==
  /\ pc[c] = "nested"
  /\ Goto(c, "calling")
  /\ UNCHANGED <<attempt, limiter, breaker>>

\* The handler returns or raises, and the slot is released.
Answer(c) ==
  /\ pc[c] = "calling"
  /\ \E o \in Outcomes : (c \in Sync => o # "loopClosed") /\ HandOff(c, o)
  /\ UNCHANGED <<attempt, breaker>>

Succeed(c) ==
  /\ pc[c] = "ok"
  /\ RecordSuccess
  /\ Goto(c, "idle")
  /\ UNCHANGED <<attempt, limiter>>

\* _max_attempts_for()
Attempts(o) == IF o = "burst" /\ MaxAttempts > 2 THEN 2 ELSE MaxAttempts

Backoff(c) ==
  /\ pc[c] \in {"transient", "burst"}
  /\ attempt[c] < Attempts(pc[c])
  /\ attempt' = [attempt EXCEPT ![c] = @ + 1]
  /\ Goto(c, "backoff")
  /\ UNCHANGED <<limiter, breaker>>

BackoffEnds(c) ==
  /\ pc[c] = "backoff"
  /\ Goto(c, "acquire")
  /\ UNCHANGED <<attempt, limiter, breaker>>

\* The retries are used up.
GiveUp(c) ==
  /\ pc[c] = "transient" /\ attempt[c] >= MaxAttempts
  /\ RecordFailure
  /\ Goto(c, "idle")
  /\ UNCHANGED <<attempt, limiter>>

\* A burst limit, a refusal, a timeout of the queue or a control-flow signal says
\* nothing of the provider's health.
EndUncounted(c) ==
  /\ \/ pc[c] \in {"bubble", "final"}
     \/ pc[c] = "burst" /\ attempt[c] >= Attempts("burst")
  /\ ReleaseProbe
  /\ Goto(c, "idle")
  /\ UNCHANGED <<attempt, limiter>>

\* "Event loop is closed" is raised again at once.
LoopClosed(c) ==
  /\ pc[c] = "loopClosed"
  /\ Silent(c)
  /\ Goto(c, "idle")
  /\ UNCHANGED <<attempt, limiter>>

\* CancelledError passes `except Exception`; only the permit is taken care of.
Cancel(c) ==
  /\ c \in Async
  /\ \/ LeaveQueue(c, "idle")
     \/ pc[c] \in {"calling", "nested"} /\ HandOff(c, "idle")
     \/ pc[c] = "backoff" /\ Goto(c, "idle") /\ UNCHANGED limiter
  /\ Silent(c)
  /\ UNCHANGED attempt

\* The coroutine's loop is closed without unwinding it.
LoopDies(c) ==
  /\ LoopsDie /\ c \in Async
  /\ \/ pc[c] = "queued" /\ Goto(c, "dead")
     \/ pc[c] \in {"granted", "calling", "nested"} /\ Goto(c, "leaked")
  /\ Silent(c)
  /\ UNCHANGED <<attempt, limiter>>

Steps(c) ==
  \/ Acquire(c) \/ Resume(c) \/ Retry(c) \/ LeaveNested(c) \/ Answer(c) \/ Succeed(c)
  \/ Backoff(c) \/ BackoffEnds(c) \/ GiveUp(c) \/ EndUncounted(c) \/ LoopClosed(c)

Next ==
  \/ \E c \in Call : \/ Admit(c) \/ Steps(c) \/ SyncTimeout(c) \/ AsyncTimeout(c)
                     \/ EnterNested(c) \/ Cancel(c) \/ LoopDies(c)
  \/ CoolDown

Spec == Init /\ [][Next]_vars

\* Model calls return, coroutines and threads run, open circuits cool down; nobody
\* is owed a timeout or a cancellation.
Fairness ==
  /\ \A c \in Call : WF_vars(Steps(c)) /\ SF_vars(Answer(c))
  /\ WF_vars(CoolDown)

LiveSpec == Spec /\ Fairness

-----------------------------------------------------------------------------
(* Properties *)

\* _in_flight counts exactly the calls that hold a permit or have been granted one,
\* whatever timeouts and cancellations fall between the grant and the resumption:
\* permits are neither lost nor doubled.
PermitsAccounted == inFlight = Cardinality(Holders)

\* Nobody sleeps on a free permit: a coroutine is queued only while every permit is
\* taken, and a thread sleeps beside a free permit only if another thread has been
\* notified of it.
NobodyWaitsForNothing ==
  inFlight < Limit => /\ \A c \in Async : pc[c] # "queued"
                      /\ (\E s \in Sync : pc[s] = "asleep") => \E s \in Sync : pc[s] = "awake"

\* _circuit_probe_in_flight names a call that is still on its way and will report,
\* unless that call was cut off; every other end of a call gives the probe back.
ProbeIsOut ==
  /\ probe \in Call => pc[probe] \notin {"idle", "dead", "leaked"}
  /\ circuit # "half_open" => probe = Nobody

\* A waiting coroutine is served, even when no timeout helps it, unless a permit has
\* vanished with a closed event loop.
EveryWaiterIsServed ==
  \A c \in Async :
    pc[c] = "queued" ~> \/ pc[c] # "queued"
                        \/ \E d \in Async : pc[d] = "leaked"

=============================================================================
