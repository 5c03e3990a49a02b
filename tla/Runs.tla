--------------------------------- MODULE Runs ---------------------------------
(***************************************************************************)
(* The managed runs of one process: deerflow/runtime/runs/manager.py (the   *)
(* registry), app/dependencies.py ClientManager (admission, the producer of *)
(* each run, the thread gates, replay retention), app/routers/runs.py and   *)
(* threads.py (archive, deletion) and the SSE subscribers of                *)
(* app/routers/chat.py.                                                     *)
(*                                                                          *)
(* One asyncio loop runs everything but deletions, which run in worker      *)
(* threads and meet the loop under ClientManager._thread_lock.  An action   *)
(* is what a coroutine does from one await that can suspend it to the next. *)
(* Events other than the end of a stream are abstracted.                    *)
(***************************************************************************)
EXTENDS Naturals, FiniteSets

CONSTANTS
  Runs,           \* run ids; bound: each is admitted once
  Threads,        \* conversation threads
  ThreadOf,       \* the thread of each run
  Modes,          \* on_disconnect values in use: "cancel", "continue"
  DispatchedRuns, \* runs of the scheduler, whose dispatch cancels record.task
  Clients,        \* subscribers of POST /chat/agui
  NoRun           \* a client without a run

ASSUME RunsAssumption ==
  /\ IsFiniteSet(Runs)
  /\ ThreadOf \in [Runs -> Threads]
  /\ Modes \subseteq {"cancel", "continue"}
  /\ DispatchedRuns \subseteq Runs
  /\ NoRun \notin Runs

VARIABLES
  rec,      \* RunManager._runs
  prod,     \* the _produce_client_stream task of each run
  count,    \* _running_thread_counts
  running,  \* _running_threads
  archive,  \* _artifact_archive_threads
  deleting, \* _deleting_threads
  stream,   \* the bridge's stream of each run
  subs,     \* _stream_subscribers
  timers,   \* armed timer handles
  jobs,     \* lifecycle tasks that have not run yet, or have failed
  client,   \* the SSE generator of each client
  bridge    \* stream_bridge.type; only calls of Redis may raise

gates == <<count, running, archive, deleting>>
replay == <<bridge, stream, subs, timers, jobs>>
vars == <<rec, prod, gates, replay, client>>

-----------------------------------------------------------------------------
(* Data *)

InflightStatuses == {"pending", "running"}
FailedStatuses == {"error", "timeout", "interrupted"}
Statuses == InflightStatuses \cup FailedStatuses \cup {"none", "success"}

RunRecord == [status: Statuses, abort: BOOLEAN, mode: {"cancel", "continue"},
              expired: BOOLEAN]                 \* metadata.replay_expired

\* The producer's own error handlers, at their publish().
Handlers == {"timing out", "failing", "cancelling"}
Live == Handlers \cup {"scheduled", "streaming"}
ProducerRecord == [pc: Live \cup {"none", "ending", "done", "cut", "killed"},
                   cancel: BOOLEAN]             \* a CancelledError is due

ClientRecord == [pc: {"out", "opening", "attached", "reading", "drained"},
                 run: Runs \cup {NoRun}, told: {"nothing", "finished", "error"}]

Timers == {"grace", "replay", "metadata"} \X Runs
Jobs == {"expire", "clean", "failed"} \X Runs    \* "failed": a "clean" that raised

TypeOK ==
  /\ rec \in [Runs -> RunRecord]
  /\ prod \in [Runs -> ProducerRecord]
  /\ count \in [Threads -> Nat]
  /\ running \subseteq Threads /\ archive \subseteq Threads
  /\ deleting \subseteq Threads
  /\ stream \in [Runs -> {"none", "open", "ended", "expired"}]
  /\ subs \in [Runs -> Nat]
  /\ timers \subseteq Timers
  /\ jobs \subseteq Jobs
  /\ client \in [Clients -> ClientRecord]
  /\ bridge \in {"memory", "redis"}

NoRecord == [status |-> "none", abort |-> FALSE, mode |-> "cancel", expired |-> FALSE]
Nobody == [pc |-> "out", run |-> NoRun, told |-> "nothing"]

Init ==
  /\ rec = [r \in Runs |-> NoRecord]
  /\ prod = [r \in Runs |-> [pc |-> "none", cancel |-> FALSE]]
  /\ count = [t \in Threads |-> 0]
  /\ running = {} /\ archive = {} /\ deleting = {}
  /\ stream = [r \in Runs |-> "none"]
  /\ subs = [r \in Runs |-> 0]
  /\ timers = {} /\ jobs = {}
  /\ client = [c \in Clients |-> Nobody]
  /\ bridge \in {"memory", "redis"}

\* Mutant: a pending run is not counted as in flight.
InflightRunning(t) == {r \in Runs : ThreadOf[r] = t /\ rec[r].status = "running"}

Inflight(t) == {r \in Runs : ThreadOf[r] = t /\ rec[r].status \in InflightStatuses}

HasTask(r) == prod[r].pc \in Live \cup {"ending"}

SetStatus(r, status) ==
  rec' = [rec EXCEPT ![r].status = IF @ = "none" THEN @ ELSE status]

-----------------------------------------------------------------------------
(* The thread gates, each under _thread_lock *)

\* Mutant: a run may start while its artifacts are being archived.
OpenUnlessDeleting(t) == t \notin deleting

\* mark_thread_running() succeeds.
Open(t) == t \notin deleting \cup archive

MarkThreadRunning(t) ==
  /\ count' = [count EXCEPT ![t] = @ + 1]
  /\ running' = running \cup {t}
  /\ UNCHANGED <<archive, deleting>>

\* Mutant: the first of two overlapping runs to finish opens the gate.
MarkThreadDoneUncounted(t) ==
  /\ count' = [count EXCEPT ![t] = 0]
  /\ running' = running \ {t}
  /\ UNCHANGED <<archive, deleting>>

MarkThreadDone(t) ==
  /\ count' = [count EXCEPT ![t] = IF @ > 1 THEN @ - 1 ELSE 0]
  /\ running' = IF count[t] > 1 THEN running ELSE running \ {t}
  /\ UNCHANGED <<archive, deleting>>

\* POST .../artifacts/archive of a finished run, and the end of its build.
ReserveArchive(t) ==
  /\ \E r \in Runs : /\ ThreadOf[r] = t
                     /\ rec[r].status \notin InflightStatuses \cup {"none"}
  /\ t \notin running \cup deleting \cup archive
  /\ archive' = archive \cup {t}
  /\ running' = running \cup {t}
  /\ UNCHANGED <<rec, prod, count, deleting, replay, client>>

ReleaseArchive(t) ==
  /\ t \in archive
  /\ archive' = archive \ {t}
  /\ running' = IF count[t] = 0 THEN running \ {t} ELSE running
  /\ UNCHANGED <<rec, prod, count, deleting, replay, client>>

\* delete_thread_completely(), whether or not every step of it succeeds.
BeginDelete(t) ==
  /\ t \notin running \cup deleting
  /\ deleting' = deleting \cup {t}
  /\ UNCHANGED <<rec, prod, count, running, archive, replay, client>>

EndDelete(t) ==
  /\ t \in deleting
  /\ deleting' = deleting \ {t}
  /\ UNCHANGED <<rec, prod, count, running, archive, replay, client>>

-----------------------------------------------------------------------------
(* RunManager *)

\* cancel() of the runs R: abort_event, task.cancel(), status.
Interrupted(R) ==
  [r \in Runs |-> IF r \in R THEN [rec[r] EXCEPT !.status = "interrupted", !.abort = TRUE]
                  ELSE rec[r]]
Cancelled(R) ==
  [r \in Runs |-> IF r \in R /\ HasTask(r) THEN [prod[r] EXCEPT !.cancel = TRUE]
                  ELSE prod[r]]

\* Mutant: cancel() does not look at the status.
MayCancelAny(r) == rec[r].status # "none"

MayCancel(r) == rec[r].status \in InflightStatuses

\* start_client_stream_run(): create_or_reject, mark_thread_running and
\* create_task run without an await that suspends.
Admit(r) ==
  LET t == ThreadOf[r] IN
  /\ rec[r].status = "none" /\ prod[r].pc = "none"
  /\ Open(t)
  /\ \E strategy \in {"reject", "interrupt"}, mode \in Modes :
       /\ strategy = "reject" => Inflight(t) = {}
       /\ rec' = [Interrupted(Inflight(t)) EXCEPT
                    ![r] = [NoRecord EXCEPT !.status = "pending", !.mode = mode]]
       /\ prod' = [Cancelled(Inflight(t)) EXCEPT ![r].pc = "scheduled"]
  /\ MarkThreadRunning(t)
  /\ UNCHANGED <<replay, client>>

\* The gate is closed: what was in flight is interrupted, the new record removed.
AdmitRefused(r) ==
  LET R == Inflight(ThreadOf[r]) IN
  /\ rec[r].status = "none" /\ prod[r].pc = "none"
  /\ ~Open(ThreadOf[r])
  /\ R # {}
  /\ rec' = Interrupted(R)
  /\ prod' = Cancelled(R)
  /\ UNCHANGED <<gates, replay, client>>

\* POST /runs/{run_id}/cancel
CancelRun(r) ==
  /\ MayCancel(r)
  /\ rec' = Interrupted({r})
  /\ prod' = Cancelled({r})
  /\ UNCHANGED <<gates, replay, client>>

\* A scheduler dispatch that is cancelled while it awaits record.task.
DispatchCancels(r) ==
  /\ r \in DispatchedRuns
  /\ HasTask(r)
  /\ prod' = [prod EXCEPT ![r].cancel = TRUE]
  /\ UNCHANGED <<rec, gates, replay, client>>

-----------------------------------------------------------------------------
(* _produce_client_stream *)

\* A task cancelled before its first step never enters its try block.
NeverStarted(r) ==
  /\ prod[r] = [pc |-> "scheduled", cancel |-> TRUE]
  /\ prod' = [prod EXCEPT ![r] = [pc |-> "killed", cancel |-> FALSE]]
  /\ UNCHANGED <<rec, gates, replay, client>>

Begin(r) ==
  /\ prod[r] = [pc |-> "scheduled", cancel |-> FALSE]
  /\ SetStatus(r, "running")
  /\ prod' = [prod EXCEPT ![r] = [pc |-> "streaming", cancel |-> FALSE]]
  /\ stream' = [stream EXCEPT ![r] = IF @ = "none" THEN "open" ELSE @]
  /\ UNCHANGED <<gates, bridge, subs, timers, jobs, client>>

\* The finally block up to publish_end().
Finally(r) ==
  /\ prod' = [prod EXCEPT ![r] = [pc |-> "ending", cancel |-> FALSE]]
  /\ MarkThreadDone(ThreadOf[r])
  /\ UNCHANGED <<replay, client>>

\* The statuses the stream's normal end may give: success or an llm_failure.
Outcomes(r) == IF rec[r].abort THEN {"interrupted"} ELSE {"success", "error"}

Complete(r) ==
  /\ prod[r] = [pc |-> "streaming", cancel |-> FALSE]
  /\ \E status \in Outcomes(r) : SetStatus(r, status)
  /\ Finally(r)

\* Something below the producer swallows its CancelledError.
SwallowCancel(r) ==
  /\ prod[r] = [pc |-> "streaming", cancel |-> TRUE]
  /\ prod' = [prod EXCEPT ![r] = [pc |-> "streaming", cancel |-> FALSE]]
  /\ UNCHANGED <<rec, gates, replay, client>>

\* asyncio.timeout, CancelledError or another exception: the error is published
\* before the status is set.
Fails(r) ==
  /\ prod[r].pc = "streaming"
  /\ \E handler \in {"failing"} \cup (IF prod[r].cancel THEN {"cancelling"}
                                                       ELSE {"timing out"}) :
       prod' = [prod EXCEPT ![r] = [pc |-> handler, cancel |-> FALSE]]
  /\ UNCHANGED <<rec, gates, replay, client>>

\* Mutant: the timeout handler reports the timeout and forgets the status.
StatusOfUnset(handler) == CASE handler = "timing out" -> "running"
                            [] handler = "failing" -> "error"
                            [] handler = "cancelling" -> "interrupted"

StatusOf(handler) == CASE handler = "timing out" -> "timeout"
                       [] handler = "failing" -> "error"
                       [] handler = "cancelling" -> "interrupted"

\* Only Redis's publish() suspends: with memory.py nothing can break the handler off.
Handled(r) ==
  /\ prod[r].pc \in Handlers
  /\ bridge = "memory" \/ ~prod[r].cancel
  /\ SetStatus(r, StatusOf(prod[r].pc))
  /\ Finally(r)

\* Another cancellation, or Redis, breaks the handler off at its publish().
HandlerBroken(r) ==
  /\ prod[r].pc \in Handlers /\ bridge = "redis"
  /\ UNCHANGED rec
  /\ Finally(r)

\* Mutant: the retention of the record itself is not scheduled.
RetentionOfReplay(r) == (timers \ {<<"grace", r>>}) \cup {<<"replay", r>>}

\* _schedule_completed_run_retention()
Retention(r) == (timers \ {<<"grace", r>>}) \cup {<<"replay", r>>, <<"metadata", r>>}

\* Mutant: the end is published only to the subscribers of the moment.
EndedIfWatched(r) == [stream EXCEPT ![r] = IF subs[r] = 0 THEN @ ELSE "ended"]

Ended(r) == [stream EXCEPT ![r] = IF @ = "expired" THEN @ ELSE "ended"]

End(r) ==
  /\ prod[r].pc = "ending"
  /\ bridge = "memory" \/ ~prod[r].cancel
  /\ prod' = [prod EXCEPT ![r] = [pc |-> "done", cancel |-> FALSE]]
  /\ stream' = Ended(r)
  /\ timers' = Retention(r)
  /\ UNCHANGED <<rec, gates, bridge, subs, jobs, client>>

\* publish_end() is cancelled or fails, before or after END was written, and no
\* retention is scheduled.  memory.py suspends there only behind a subscriber that
\* was given the END of an expired stream and still holds the condition.
EndBroken(r) ==
  /\ prod[r].pc = "ending"
  /\ bridge = "redis" \/ (prod[r].cancel /\ stream[r] = "expired")
  /\ prod' = [prod EXCEPT ![r] = [pc |-> "cut", cancel |-> FALSE]]
  /\ stream' \in {stream, Ended(r)}
  /\ UNCHANGED <<rec, gates, bridge, subs, timers, jobs, client>>

-----------------------------------------------------------------------------
(* Subscribers: chat_agui() and its event_generator() *)

Attached(c) == client[c].pc \in {"attached", "reading", "drained"}

\* The record is found and its replay has not expired; the client object is
\* awaited before the generator starts.
Connect(c, r) ==
  /\ client[c].pc = "out"
  /\ rec[r].status # "none" /\ ~rec[r].expired
  /\ client' = [client EXCEPT ![c] = [pc |-> "opening", run |-> r, told |-> "nothing"]]
  /\ UNCHANGED <<rec, prod, gates, replay>>

\* Mutant: a pending disconnect expiry is not cancelled.
AttachUncancelled(c) ==
  LET r == client[c].run IN
  /\ client[c].pc = "opening"
  /\ client' = [client EXCEPT ![c].pc = "attached"]
  /\ subs' = [subs EXCEPT ![r] = @ + 1]
  /\ UNCHANGED <<rec, prod, gates, bridge, stream, timers, jobs>>

\* attach_run_stream()
Attach(c) ==
  LET r == client[c].run IN
  /\ client[c].pc = "opening"
  /\ client' = [client EXCEPT ![c].pc = "attached"]
  /\ subs' = [subs EXCEPT ![r] = @ + 1]
  /\ timers' = timers \ {<<"grace", r>>}
  /\ UNCHANGED <<rec, prod, gates, bridge, stream, jobs>>

\* subscribe(): END at once if the replay expired; memory.py creates a missing stream.
Subscribe(c) ==
  LET r == client[c].run IN
  /\ client[c].pc = "attached"
  /\ client' = [client EXCEPT ![c].pc = IF rec[r].expired \/ stream[r] = "expired"
                                        THEN "drained" ELSE "reading"]
  /\ stream' = IF bridge = "memory" /\ stream[r] = "none"
               THEN [stream EXCEPT ![r] = "open"] ELSE stream
  /\ UNCHANGED <<rec, prod, gates, bridge, subs, timers, jobs>>

\* A subscriber that waits is given END: memory.py marks an expired stream ended,
\* redis.py deletes the key under its XREAD.
EndReaches(r) ==
  \/ stream[r] = "ended"
  \/ bridge = "memory" /\ stream[r] = "expired"

ReadEnd(c) ==
  /\ client[c].pc = "reading" /\ EndReaches(client[c].run)
  /\ client' = [client EXCEPT ![c].pc = "drained"]
  /\ UNCHANGED <<rec, prod, gates, replay>>

\* max(0, subscribers - 1)
Left(r) == IF subs[r] > 0 THEN subs[r] - 1 ELSE 0

\* detach_run_stream(), after the records became `recs`.
Detach(c, recs) ==
  LET r == client[c].run
  IN /\ subs' = [subs EXCEPT ![r] = Left(r)]
     /\ timers' = IF Left(r) = 0 /\ recs[r].mode = "continue"
                     /\ recs[r].status \in InflightStatuses
                  THEN timers \cup {<<"grace", r>>} ELSE timers
     /\ UNCHANGED <<bridge, stream, jobs>>

\* Mutant: a timeout is not among the failures.
VerdictUntimed(status) == IF status \in {"error", "interrupted"} THEN "error" ELSE "finished"

\* RUN_ERROR or RUN_FINISHED, from the record as it stands when all was sent.
Verdict(status) == IF status \in FailedStatuses THEN "error" ELSE "finished"

Conclude(c) ==
  /\ client[c].pc = "drained"
  /\ client' = [client EXCEPT ![c] =
                  [Nobody EXCEPT !.told = Verdict(rec[client[c].run].status)]]
  /\ Detach(c, rec)
  /\ UNCHANGED <<rec, prod, gates>>

\* subscribe() raises: RUN_ERROR.
ReadFails(c) ==
  /\ client[c].pc = "reading" /\ bridge = "redis"
  /\ client' = [client EXCEPT ![c] = [Nobody EXCEPT !.told = "error"]]
  /\ Detach(c, rec)
  /\ UNCHANGED <<rec, prod, gates>>

\* The client goes away.  The generator is cancelled at an await of its own, and
\* then cancels a run in "cancel" mode, or it is only closed at a yield.
Disconnect(c) ==
  LET r == client[c].run IN
  /\ client[c].pc # "out"
  /\ client' = [client EXCEPT ![c] = Nobody]
  /\ IF client[c].pc = "opening"
     THEN UNCHANGED <<rec, prod, replay>>
     ELSE \E R \in {{}} \cup (IF rec[r].mode = "cancel" /\ MayCancel(r) THEN {{r}} ELSE {}) :
            /\ rec' = Interrupted(R)
            /\ prod' = Cancelled(R)
            /\ Detach(c, rec')
  /\ UNCHANGED gates

-----------------------------------------------------------------------------
(* Replay retention: loop.call_later handles and the tasks they spawn *)

\* _on_disconnect_grace_elapsed()
GraceElapses(r) ==
  /\ <<"grace", r>> \in timers
  /\ timers' = timers \ {<<"grace", r>>}
  /\ jobs' = IF subs[r] = 0 /\ rec[r].status \in InflightStatuses
             THEN jobs \cup {<<"expire", r>>} ELSE jobs
  /\ UNCHANGED <<rec, prod, gates, bridge, stream, subs, client>>

\* _on_completed_replay_elapsed()
ReplayElapses(r) ==
  /\ <<"replay", r>> \in timers
  /\ timers' = timers \ {<<"replay", r>>}
  /\ jobs' = jobs \cup {<<"expire", r>>}
  /\ UNCHANGED <<rec, prod, gates, bridge, stream, subs, client>>

\* _on_run_metadata_elapsed(), half an hour after the replay's own expiry.
MetadataElapses(r) ==
  /\ <<"metadata", r>> \in timers /\ <<"replay", r>> \notin timers
  /\ <<"expire", r>> \notin jobs
  /\ timers' = timers \ {<<"metadata", r>>}
  /\ jobs' = jobs \cup {<<"clean", r>>}
  /\ UNCHANGED <<rec, prod, gates, bridge, stream, subs, client>>

\* _expire_run_replay(); an END that Redis fails to delete can still be read.
ExpireRunReplay(r) ==
  /\ <<"expire", r>> \in jobs
  /\ jobs' = jobs \ {<<"expire", r>>}
  /\ rec' = [rec EXCEPT ![r].expired = (@ \/ rec[r].status # "none")]
  /\ \/ stream' = [stream EXCEPT ![r] = "expired"]
     \/ bridge = "redis" /\ stream[r] = "ended" /\ UNCHANGED stream
  /\ UNCHANGED <<prod, gates, bridge, subs, timers, client>>

\* _cleanup_run_lifecycle(); with memory.py a reader keeps the ended stream object.
CleanupRunLifecycle(r) ==
  /\ <<"clean", r>> \in jobs
  /\ jobs' = jobs \ {<<"clean", r>>}
  /\ stream' = [stream EXCEPT ![r] = "none"]
  /\ rec' = [rec EXCEPT ![r] = NoRecord]
  /\ subs' = [subs EXCEPT ![r] = 0]
  /\ client' = [c \in Clients |->
                  IF bridge = "memory" /\ client[c].run = r
                     /\ client[c].pc = "reading" /\ EndReaches(r)
                  THEN [client[c] EXCEPT !.pc = "drained"] ELSE client[c]]
  /\ UNCHANGED <<prod, gates, bridge, timers>>

\* Redis fails to delete the key: the record stays, and nothing tries again.
CleanupFails(r) ==
  /\ bridge = "redis" /\ <<"clean", r>> \in jobs
  /\ jobs' = (jobs \ {<<"clean", r>>}) \cup {<<"failed", r>>}
  /\ UNCHANGED <<rec, prod, gates, bridge, stream, subs, timers, client>>

-----------------------------------------------------------------------------
ThreadStep(t) == \/ ReserveArchive(t) \/ ReleaseArchive(t)
                 \/ BeginDelete(t) \/ EndDelete(t)
Request(r) == Admit(r) \/ AdmitRefused(r) \/ CancelRun(r) \/ DispatchCancels(r)
Produce(r) == \/ NeverStarted(r) \/ Begin(r) \/ Complete(r) \/ SwallowCancel(r)
              \/ Fails(r) \/ Handled(r) \/ HandlerBroken(r) \/ End(r) \/ EndBroken(r)
Subscriber(c) == \/ \E r \in Runs : Connect(c, r)
                 \/ Attach(c) \/ Subscribe(c) \/ ReadEnd(c) \/ Conclude(c)
                 \/ ReadFails(c) \/ Disconnect(c)
Retire(r) == \/ GraceElapses(r) \/ ReplayElapses(r) \/ MetadataElapses(r)
             \/ ExpireRunReplay(r) \/ CleanupRunLifecycle(r) \/ CleanupFails(r)

Next == \/ \E t \in Threads : ThreadStep(t)
        \/ \E r \in Runs : Request(r) \/ Produce(r) \/ Retire(r)
        \/ \E c \in Clients : Subscriber(c)

Spec == Init /\ [][Next]_vars

-----------------------------------------------------------------------------
(* Properties *)

LiveOn(t) == {r \in Runs : ThreadOf[r] = t /\ prod[r].pc \in Live}

\* Runs, archive and deletion of a thread exclude each other: nothing runs in a
\* thread whose data is being deleted or packed.
GateExclusion ==
  \A t \in Threads :
    /\ t \in deleting => LiveOn(t) = {} /\ t \notin archive
    /\ t \in archive => LiveOn(t) = {}

\* A thread is busy exactly while a run or an archive is at work in it, however
\* the runs overlap and end, except that a run cancelled before its first step
\* keeps it busy for good.
BusyMeansWork ==
  \A t \in Threads : t \in running <=>
    \/ LiveOn(t) # {} \/ t \in archive
    \/ \E r \in Runs : ThreadOf[r] = t /\ prod[r].pc = "killed"

\* create_or_reject: at most one run of a thread is pending or running.
OneInflight ==
  \A q, r \in Runs :
    /\ rec[q].status \in InflightStatuses /\ rec[r].status \in InflightStatuses
    /\ ThreadOf[q] = ThreadOf[r]
    => q = r

\* A record in flight that nothing will end: the thread answers every later
\* "reject" run with a conflict.
Abandoned(r) == rec[r].status \in InflightStatuses /\ prod[r].pc \notin Live

\* However runs are interrupted, cancelled and fail, only a handler broken off at
\* its publish() and a task that never started leave such a record behind.
OnlyFaultsAbandon ==
  [][\A r \in Runs : Abandoned(r)' => Abandoned(r) \/ HandlerBroken(r) \/ NeverStarted(r)]_vars

\* A run that was asked to stop is never reported as a success.
AbortedNeverSucceeds == \A r \in Runs : rec[r].abort => rec[r].status # "success"

\* A run that ended by itself keeps its outcome until its record is removed.
OutcomeIsFinal ==
  [][\A r \in Runs : rec[r].status \in {"success", "error", "timeout"} =>
       rec'[r].status \in {rec[r].status, "none"}]_vars

\* However runs end, expire and are cleaned up under their subscribers, one that is
\* told RUN_FINISHED of a run that did not succeed was told so because the record
\* was gone, or was still in flight for an expired replay or for want of a producer.
FinishedIsSuccess ==
  [][\A c \in Clients :
       LET r == client[c].run
       IN client[c].told = "nothing" /\ client'[c].told = "finished" =>
            \/ rec[r].status \in {"success", "none"}
            \/ rec[r].status \in InflightStatuses /\ (rec[r].expired \/ Abandoned(r))]_vars

\* While somebody is attached to a run no reconnect grace is ticking.
GraceOnlyUnwatched ==
  \A c \in Clients : Attached(c) /\ rec[client[c].run].status # "none" =>
    <<"grace", client[c].run>> \notin timers

\* Nothing will remove the record: its task never started, its publish_end() was
\* broken off before the retention was scheduled, or Redis failed in the cleanup.
Unforgettable(r) == prod[r].pc \in {"killed", "cut"} \/ <<"failed", r>> \in jobs

\* Every admitted run ends, and unless clients come back to it for ever its record
\* and stream are let go of, whatever else is cancelled or fails.
EveryRunIsForgotten ==
  (\A c \in Clients : <>[](client[c].pc = "out")) =>
    \A r \in Runs :
      rec[r].status # "none" ~>
        \/ rec[r].status = "none" /\ stream[r] = "none"
        \/ Unforgettable(r)

\* END may stay away from a subscriber: none was published, by a task that never
\* started or a publish_end() that was broken off; Redis is about to delete the key
\* under it, before END was stored or half an hour after it; or the record went
\* while it was still connecting.
Unheard(c) ==
  LET r == client[c].run
  IN \/ client[c].pc = "reading" /\ ~EndReaches(r) /\ prod[r].pc \in {"killed", "cut"}
     \/ client[c].pc = "reading" /\ bridge = "redis" /\ <<"expire", r>> \in jobs
        /\ (HasTask(r) \/ EndReaches(r))
     \/ client[c].pc \in {"opening", "attached"} /\ rec[r].status = "none"

\* Every subscriber hears the end of its run or goes away, but for those: with
\* memory.py in particular no expiry or cleanup takes END from a reader, however late.
EverySubscriberIsTold ==
  \A c \in Clients : client[c].pc = "opening" ~> client[c].pc = "out" \/ Unheard(c)

\* Producers end (asyncio.timeout bounds them), the loop runs what is ready,
\* archives and deletions end, timers fire; requests and disconnects are owed nothing.
Fairness ==
  /\ \A t \in Threads : WF_vars(ReleaseArchive(t)) /\ WF_vars(EndDelete(t))
  /\ \A r \in Runs :
       /\ WF_vars(NeverStarted(r)) /\ WF_vars(Begin(r))
       /\ WF_vars(Complete(r) \/ Fails(r))
       /\ WF_vars(Handled(r) \/ HandlerBroken(r)) /\ WF_vars(End(r) \/ EndBroken(r))
       /\ WF_vars(GraceElapses(r)) /\ WF_vars(ReplayElapses(r))
       /\ SF_vars(MetadataElapses(r)) /\ WF_vars(ExpireRunReplay(r))
       /\ WF_vars(CleanupRunLifecycle(r) \/ CleanupFails(r))
  /\ \A c \in Clients : /\ WF_vars(Attach(c)) /\ WF_vars(Subscribe(c))
                        /\ WF_vars(ReadEnd(c)) /\ WF_vars(Conclude(c))

LiveSpec == Spec /\ Fairness
=============================================================================
