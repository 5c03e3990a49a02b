------------------------------ MODULE Scheduler ------------------------------
(***************************************************************************)
(* deerflow/runtime/scheduler.py: the SQLite SchedulerStore, shared by      *)
(* every process, and the SchedulerService of each process.                 *)
(*                                                                          *)
(* Every store method is one transaction, run in a worker thread, so it is  *)
(* one atomic action; a coroutine that is cancelled while it waits for the  *)
(* thread does not stop it, and the write can still land (LateWrite).       *)
(* A timestamp column is kept only as what the queries compare: whether the *)
(* deadline has passed.  Time moves in the actions of section 2.            *)
(***************************************************************************)
EXTENDS Naturals, FiniteSets

CONSTANTS
  Procs,          \* scheduler processes that share the database
  NoProc,         \* the process of an attempt that was never dispatched
  Tasks,          \* scheduled task definitions
  Threads,        \* conversation threads
  ThreadOf,       \* the thread_id of each task
  OnceTasks,      \* schedule_type = "once"; the others recur
  BadTasks,       \* legacy definitions whose schedule cannot be computed
  InterruptTasks, \* multitask_strategy "interrupt"/"rollback", not "reject"
  DeliveryTasks,  \* metadata.delivery asks for a Feishu rendering of the run
  MaxOcc,         \* bound: occurrences materialized per task
  MaxAttempts,    \* SchedulerService.max_attempts
  MaxConcurrent,  \* SchedulerService.max_concurrent_runs
  MaxCrashes,     \* bound: process crashes
  MaxStops,       \* bound: orderly stops
  Timely,         \* a running heartbeat always renews before the lease ends
  DbFailures,     \* a store call may raise (busy timeout, disk error)
  UserCancels,    \* users cancel managed runs (the run API, a chat run)
  Pauses          \* users pause, resume and delete tasks

ASSUME SchedulerAssumption ==
  /\ NoProc \notin Procs
  /\ IsFiniteSet(Tasks)
  /\ ThreadOf \in [Tasks -> Threads]
  /\ OnceTasks \subseteq Tasks
  /\ BadTasks \subseteq Tasks
  /\ InterruptTasks \subseteq Tasks
  /\ DeliveryTasks \subseteq Tasks
  /\ MaxOcc \in Nat \ {0}
  /\ MaxAttempts \in Nat \ {0}
  /\ MaxConcurrent \in Nat \ {0}
  /\ MaxCrashes \in Nat
  /\ MaxStops \in Nat
  /\ Timely \in BOOLEAN
  /\ DbFailures \in BOOLEAN
  /\ UserCancels \in BOOLEAN
  /\ Pauses \in BOOLEAN

VARIABLES
  task,     \* scheduled_tasks
  row,      \* scheduled_task_runs, by <<task, n>>
  proc,     \* the life cycle of each process
  loop,     \* where tick() stands in each process
  disp,     \* the _dispatch coroutine of each claimed attempt
  run,      \* the managed run each attempt created
  late,     \* store writes whose coroutine was cancelled
  request,  \* the pause/delete call in progress in each process
  crashes,  \* process crashes so far
  stops     \* orderly stops so far

vars == <<task, row, proc, loop, disp, run, late, request, crashes, stops>>

-----------------------------------------------------------------------------
(* 1. Data *)

Rows == Tasks \X (1..MaxOcc)
Attempts == 1..MaxAttempts
Slots == Rows \X Attempts          \* one claimed attempt of one occurrence

Waiting  == {"pending", "retry"}
Leased   == {"claimed", "running"}
Owned    == Leased \cup {"launched"}
Active   == Waiting \cup Owned
Terminal == {"success", "error", "interrupted", "cancelled", "dead_letter"}
Statuses == Active \cup Terminal \cup {"absent", "gone"}

TaskRecord == [state: {"new", "live", "deleted"}, enabled: BOOLEAN,
               next: {"none", "future", "past"}]
RowRecord == [status: Statuses, attempt: 0..MaxAttempts,
              lease: {"none", "live", "expired"},   \* lease_expires_at
              avail: BOOLEAN,                       \* available_at <= now
              runId: 0..MaxAttempts,                \* attempt in run_id; 0 NULL
              quiet: BOOLEAN]                       \* updated_at older than the grace

LaunchedPcs == {"mark", "await", "deliver", "finish", "retry"}
Pcs == LaunchedPcs \cup {"none", "start", "launch", "resched", "unwind",
                         "requeue", "reconcile", "settle", "done"}
DispRecord == [pc: Pcs, proc: Procs \cup {NoProc}, hb: {"off", "on", "dead"}]

\* tick() is before its queries, in claim_due_tasks for a capacity, or back from
\* it with a batch; "orphan" is a claim_due_tasks whose loop was cancelled.
LoopRecord == [at: {"off", "tick", "claim", "dispatch", "orphan"},
               capacity: 0..MaxConcurrent, batch: SUBSET Slots]

\* "stopping": only its task was cancelled; "cancelling": its abort event is set too.
LiveRuns == {"running", "stopping", "cancelling"}
RunStates == LiveRuns \cup {"none", "success", "error", "transient",
                            "cancelled", "lost"}

LateOps == {"started", "launched", "finished", "delayed", "requeue"}

NoRequest == [kind |-> "none"]
Requests == [kind: {"pausing", "deleting", "draining"}, task: Tasks,
             runs: SUBSET Slots] \cup {NoRequest}

TypeOK ==
  /\ task \in [Tasks -> TaskRecord]
  /\ row \in [Rows -> RowRecord]
  /\ proc \in [Procs -> {"up", "draining", "ending", "down"}]
  /\ loop \in [Procs -> LoopRecord]
  /\ disp \in [Slots -> DispRecord]
  /\ run \in [Slots -> RunStates]
  /\ late \subseteq (LateOps \X Slots)
  /\ request \in [Procs -> Requests]
  /\ crashes \in 0..MaxCrashes
  /\ stops \in 0..MaxStops

TaskOf(r) == r[1]
ThreadOfRow(r) == ThreadOf[TaskOf(r)]
SlotOf(r) == <<r, row[r].attempt>>

NewTask == [state |-> "new", enabled |-> FALSE, next |-> "none"]
LegacyTask == [state |-> "live", enabled |-> TRUE, next |-> "future"]
Idle(at) == [at |-> at, capacity |-> 0, batch |-> {}]
AbsentRow == [status |-> "absent", attempt |-> 0, lease |-> "none",
              avail |-> FALSE, runId |-> 0, quiet |-> FALSE]
PendingRow == [AbsentRow EXCEPT !.status = "pending", !.avail = TRUE]

Init ==
  /\ task = [t \in Tasks |-> IF t \in BadTasks THEN LegacyTask ELSE NewTask]
  /\ row = [r \in Rows |-> AbsentRow]
  /\ proc = [p \in Procs |-> "down"]
  /\ loop = [p \in Procs |-> Idle("off")]
  /\ disp = [s \in Slots |-> [pc |-> "none", proc |-> NoProc, hb |-> "off"]]
  /\ run = [s \in Slots |-> "none"]
  /\ late = {}
  /\ request = [p \in Procs |-> NoRequest]
  /\ crashes = 0
  /\ stops = 0

\* The query conditions of the store.
MayRun(t) == task[t].state = "live" /\ (task[t].enabled \/ t \in OnceTasks)
Claimable(rec) ==
  \/ rec.status \in Waiting /\ rec.avail
  \/ rec.status \in Leased /\ rec.lease # "live"
Holds(rec) == rec.status = "launched" \/ (rec.status \in Leased /\ rec.lease = "live")
\* Mutant: the WHERE clause forgets the attempt number.
OwnsAnyAttempt(r, a) == row[r].status \in Owned

Owns(r, a) == row[r].attempt = a /\ row[r].status \in Owned

\* A dispatch still renews the lease of r, or is about to start doing so.
Tended(r) ==
  /\ row[r].attempt > 0
  /\ \/ \E p \in Procs : SlotOf(r) \in loop[p].batch
     \/ /\ disp[SlotOf(r)].pc \notin {"none", "done"}
        /\ disp[SlotOf(r)].hb # "dead"

ActiveDispatches(p) ==
  {s \in Slots : disp[s].proc = p /\ disp[s].pc \notin {"none", "done"}}

Goto(s, pc) ==
  disp' = [disp EXCEPT ![s].pc = pc,
                       ![s].hb = IF pc = "done" THEN "off" ELSE @]

-----------------------------------------------------------------------------
(* 2. Time: a deadline of the store passes *)

TaskDue(t) ==
  /\ task[t].next = "future"
  /\ \E n \in 1..MaxOcc : row[<<t, n>>].status = "absent"
  /\ task' = [task EXCEPT ![t].next = "past"]
  /\ UNCHANGED <<row, proc, loop, disp, run, late, request, crashes, stops>>

RetryDelayElapses(r) ==
  /\ row[r].status = "retry" /\ ~row[r].avail
  /\ row' = [row EXCEPT ![r].avail = TRUE]
  /\ UNCHANGED <<task, proc, loop, disp, run, late, request, crashes, stops>>

LeaseExpires(r) ==
  /\ row[r].lease = "live"
  /\ Timely => ~Tended(r)
  /\ row' = [row EXCEPT ![r].lease = "expired"]
  /\ UNCHANGED <<task, proc, loop, disp, run, late, request, crashes, stops>>

\* orphan_grace_seconds after the last write of a launched row.
OrphanGraceElapses(r) ==
  /\ row[r].status = "launched" /\ row[r].lease = "expired" /\ ~row[r].quiet
  /\ row' = [row EXCEPT ![r].quiet = TRUE]
  /\ UNCHANGED <<task, proc, loop, disp, run, late, request, crashes, stops>>

TimePasses ==
  \/ \E t \in Tasks : TaskDue(t)
  \/ \E r \in Rows : \/ RetryDelayElapses(r)
                     \/ LeaseExpires(r)
                     \/ OrphanGraceElapses(r)

-----------------------------------------------------------------------------
(* 3. Store transactions *)

\* What each UPDATE statement does to one row.
ClaimedRow(rec) ==
  [rec EXCEPT !.status = "claimed", !.attempt = @ + 1, !.lease = "live",
              !.avail = TRUE, !.runId = 0, !.quiet = FALSE]
StartedRow(rec, a) == [rec EXCEPT !.status = "running", !.runId = a, !.quiet = FALSE]
LaunchedRow(rec, a) == [rec EXCEPT !.status = "launched", !.runId = a, !.quiet = FALSE]
RenewedRow(rec) == [rec EXCEPT !.lease = "live", !.quiet = FALSE]
RetryRow(rec, immediate) ==
  [rec EXCEPT !.status = "retry", !.avail = immediate, !.lease = "none", !.quiet = FALSE]
EndedRow(rec, status) ==
  [rec EXCEPT !.status = status, !.lease = "none", !.quiet = FALSE]
GoneRow == [AbsentRow EXCEPT !.status = "gone"]
QuarantinedRow == [AbsentRow EXCEPT !.status = "dead_letter"]

\* The row a materialized occurrence of t gets: a fresh uuid in the code.
FreshRow(t) == <<t, CHOOSE n \in 1..MaxOcc : row[<<t, n>>].status = "absent">>

Due == {t \in Tasks : /\ task[t].state = "live" /\ task[t].enabled
                      /\ task[t].next = "past"}

\* The due definitions one transaction consumes: at most limit of them.
DueBatches(limit) ==
  {D \in SUBSET Due : Cardinality(D) = limit
                      \/ (Cardinality(Due) < limit /\ D = Due)}

Materialized(D) ==
  LET Fresh == {FreshRow(t) : t \in D}
  IN  [r \in Rows |->
         IF r \notin Fresh THEN row[r]
         ELSE IF TaskOf(r) \in BadTasks
              THEN QuarantinedRow
              ELSE PendingRow]

Advanced(D) ==
  [t \in Tasks |->
     IF t \notin D THEN task[t]
     ELSE IF t \in BadTasks \cup OnceTasks
          THEN [task[t] EXCEPT !.enabled = FALSE, !.next = "none"]
          ELSE [task[t] EXCEPT !.next = "future"]]

\* Exhausted work that could be claimed becomes a dead letter instead.
DeadLettered(rows) ==
  [r \in Rows |->
     IF rows[r].attempt >= MaxAttempts /\ Claimable(rows[r])
     THEN EndedRow(rows[r], "dead_letter")
     ELSE rows[r]]

\* Mutant: launched rows no longer keep their thread.
ClaimedThreadsOfLeases(rows) ==
  {ThreadOfRow(r) : r \in {q \in Rows : rows[q].status \in Leased /\ rows[q].lease = "live"}}

\* Threads owned by a lease or a launch of any process.
ClaimedThreads(rows) == {ThreadOfRow(r) : r \in {q \in Rows : Holds(rows[q])}}

Candidates(rows, tasks) ==
  {r \in Rows :
     /\ tasks[TaskOf(r)].state = "live"
     /\ tasks[TaskOf(r)].enabled \/ TaskOf(r) \in OnceTasks
     /\ rows[r].attempt < MaxAttempts
     /\ Claimable(rows[r])}

\* What the loop over the candidates can claim, whatever their order: rows of
\* distinct unclaimed threads, and it stops only at the limit.
ClaimBatches(cands, busy, limit) ==
  {S \in SUBSET cands :
     /\ Cardinality(S) <= limit
     /\ \A r \in S : ThreadOfRow(r) \notin busy
     /\ \A q, r \in S : ThreadOfRow(q) = ThreadOfRow(r) => q = r
     /\ Cardinality(S) < limit =>
          \A r \in cands : ThreadOfRow(r) \in busy \cup {ThreadOfRow(q) : q \in S}}

\* claim_due_tasks, with the rows it returns in S.
ClaimDueTasks(limit, S) ==
  \E D \in DueBatches(limit) :
    LET rows == DeadLettered(Materialized(D))
    IN  /\ task' = Advanced(D)
        /\ S \in ClaimBatches(Candidates(rows, Advanced(D)),
                              ClaimedThreads(rows), limit)
        /\ row' = [r \in Rows |-> IF r \in S THEN ClaimedRow(rows[r]) ELSE rows[r]]

\* Mutant: the reconciliation never finds an orphan.
OrphanedNever(rec) == FALSE

Orphaned(rec) == rec.status = "launched" /\ rec.lease # "live" /\ rec.quiet

ReconcileExpiredLaunchedRuns ==
  row' = [r \in Rows |->
            IF Orphaned(row[r]) THEN EndedRow(row[r], "interrupted") ELSE row[r]]

\* Terminal history past the retention limits; which rows those are is open.
CleanupTaskRuns(old) ==
  row' = [r \in Rows |-> IF r \in old THEN GoneRow ELSE row[r]]

StartOwned(r, a) ==
  /\ row[r].attempt = a /\ row[r].status \in Leased
  /\ MayRun(TaskOf(r))

\* Mutant: the UPDATE has lost its WHERE clause.
UpdateRowUnfenced(r, owns, rec) == row' = [row EXCEPT ![r] = rec]

\* An UPDATE whose WHERE clause fences the caller out does nothing.
UpdateRow(r, owns, rec) == row' = IF owns THEN [row EXCEPT ![r] = rec] ELSE row

MarkTaskRunStarted(r, a) == UpdateRow(r, StartOwned(r, a), StartedRow(row[r], a))
MarkTaskRunLaunched(r, a) == UpdateRow(r, Owns(r, a), LaunchedRow(row[r], a))
RenewTaskRunLease(r, a) == UpdateRow(r, Owns(r, a), RenewedRow(row[r]))
RescheduleTaskRun(r, a, immediate) ==
  UpdateRow(r, Owns(r, a), IF a < MaxAttempts THEN RetryRow(row[r], immediate)
                           ELSE EndedRow(row[r], "dead_letter"))
MarkTaskRunFinished(r, a, status) ==
  UpdateRow(r, Owns(r, a), EndedRow(row[r], status))

\* The overall status written for an ended run; a failed delivery is an error.
FinishStatuses(s) ==
  IF run[s] # "success" THEN {"error"}
  ELSE IF TaskOf(s[1]) \in DeliveryTasks THEN {"success", "error"}
  ELSE {"success"}

-----------------------------------------------------------------------------
(* 4. SchedulerService: processes and the polling loop *)

Start(p) ==
  /\ proc[p] = "down"
  /\ proc' = [proc EXCEPT ![p] = "up"]
  /\ loop' = [loop EXCEPT ![p] = Idle("tick")]
  /\ ReconcileExpiredLaunchedRuns
  /\ UNCHANGED <<task, disp, run, late, request, crashes, stops>>

\* tick(): the hourly cleanup, when it is due.
TickCleanup(p) ==
  /\ loop[p].at = "tick"
  /\ \E old \in SUBSET {r \in Rows : row[r].status \in Terminal} :
       old # {} /\ CleanupTaskRuns(old)
  /\ UNCHANGED <<task, proc, loop, disp, run, late, request, crashes, stops>>

TickReconcile(p) ==
  /\ loop[p].at = "tick"
  /\ ReconcileExpiredLaunchedRuns
  /\ IF Cardinality(ActiveDispatches(p)) < MaxConcurrent
     THEN loop' = [loop EXCEPT ![p] =
                     [at |-> "claim",
                      capacity |-> MaxConcurrent - Cardinality(ActiveDispatches(p)),
                      batch |-> {}]]
     ELSE UNCHANGED loop
  /\ UNCHANGED <<task, proc, disp, run, late, request, crashes, stops>>

TickClaim(p) ==
  /\ loop[p].at = "claim"
  /\ \E S \in SUBSET Rows :
       /\ ClaimDueTasks(loop[p].capacity, S)
       /\ loop' = [loop EXCEPT ![p] =
                     [at |-> "dispatch", capacity |-> 0,
                      batch |-> {<<r, row'[r].attempt>> : r \in S}]]
  /\ UNCHANGED <<proc, disp, run, late, request, crashes, stops>>

\* tick() resumes with the claimed rows and creates their _dispatch tasks.
TickDispatch(p) ==
  /\ loop[p].at = "dispatch"
  /\ disp' = [s \in Slots |-> IF s \in loop[p].batch
                              THEN [pc |-> "start", proc |-> p, hb |-> "off"]
                              ELSE disp[s]]
  /\ loop' = [loop EXCEPT ![p] = Idle("tick")]
  /\ UNCHANGED <<task, row, proc, run, late, request, crashes, stops>>

\* _run_loop logs an exception of tick() and polls again.
TickFails(p) ==
  /\ DbFailures
  /\ loop[p].at = "claim"
  /\ loop' = [loop EXCEPT ![p] = Idle("tick")]
  /\ UNCHANGED <<task, row, proc, disp, run, late, request, crashes, stops>>

\* The loop was cancelled while claim_due_tasks ran: it commits, undispatched.
ClaimLost(p) ==
  /\ loop[p].at = "orphan"
  /\ \E S \in SUBSET Rows : ClaimDueTasks(loop[p].capacity, S)
  /\ loop' = [loop EXCEPT ![p] = Idle("off")]
  /\ UNCHANGED <<proc, disp, run, late, request, crashes, stops>>

-----------------------------------------------------------------------------
(* 5. _dispatch *)

StartDispatch(s) ==
  /\ disp[s].pc = "start"
  /\ MarkTaskRunStarted(s[1], s[2])
  /\ disp' = [disp EXCEPT ![s].pc = IF StartOwned(s[1], s[2]) THEN "launch" ELSE "done",
                          ![s].hb = IF StartOwned(s[1], s[2]) THEN "on" ELSE "off"]
  /\ UNCHANGED <<task, proc, loop, run, late, request, crashes, stops>>

\* The managed runs in flight in the same process on the same thread.
Inflight(s) ==
  {q \in Slots : /\ disp[q].proc = disp[s].proc /\ run[q] \in {"running", "stopping"}
                 /\ ThreadOfRow(q[1]) = ThreadOfRow(s[1])}

\* start_client_stream_run admits the run (RunManager.create_or_reject).
Launch(s) ==
  /\ disp[s].pc = "launch"
  /\ TaskOf(s[1]) \in InterruptTasks \/ Inflight(s) = {}
  /\ run' = [q \in Slots |-> IF q = s THEN "running"
                             ELSE IF q \in Inflight(s) THEN "cancelling"
                             ELSE run[q]]
  /\ Goto(s, "mark")
  /\ UNCHANGED <<task, row, proc, loop, late, request, crashes, stops>>

\* It is refused: a chat run, a deletion or a cleanup holds the thread.
LaunchRefused(s) ==
  /\ disp[s].pc = "launch"
  /\ Goto(s, "resched")
  /\ UNCHANGED <<task, row, proc, loop, run, late, request, crashes, stops>>

MarkLaunched(s) ==
  /\ disp[s].pc = "mark"
  /\ MarkTaskRunLaunched(s[1], s[2])
  /\ Goto(s, "await")
  /\ UNCHANGED <<task, proc, loop, run, late, request, crashes, stops>>

\* Mutant: a failed run is retried like a transient one.
DecisionRetryAll(s) == IF run[s] = "cancelled" THEN "requeue"
                       ELSE IF run[s] = "success" THEN "finish" ELSE "retry"

\* What follows the end of the run: its own decision, or a CancelledError, which
\* _dispatch treats as its own cancellation whoever cancelled the run.
Decision(s) == CASE run[s] = "cancelled" -> "requeue"
                 [] run[s] = "transient" -> "retry"
                 [] OTHER -> "finish"

AwaitRun(s) ==
  /\ disp[s].pc = "await" /\ run[s] \notin LiveRuns
  /\ Goto(s, IF run[s] # "cancelled" /\ TaskOf(s[1]) \in DeliveryTasks
             THEN "deliver" ELSE Decision(s))
  /\ UNCHANGED <<task, row, proc, loop, run, late, request, crashes, stops>>

AwaitDelivery(s) ==
  /\ disp[s].pc = "deliver"
  /\ Goto(s, Decision(s))
  /\ UNCHANGED <<task, row, proc, loop, run, late, request, crashes, stops>>

Finish(s) ==
  /\ disp[s].pc = "finish"
  /\ \E status \in FinishStatuses(s) : MarkTaskRunFinished(s[1], s[2], status)
  /\ Goto(s, "done")
  /\ UNCHANGED <<task, proc, loop, run, late, request, crashes, stops>>

\* _reschedule_failure after a refused launch or a transient LLM failure.
Reschedule(s) ==
  /\ disp[s].pc \in {"resched", "retry"}
  /\ RescheduleTaskRun(s[1], s[2], FALSE)
  /\ Goto(s, "done")
  /\ UNCHANGED <<task, proc, loop, run, late, request, crashes, stops>>

\* The CancelledError handler: wait for the managed task, then requeue.
Unwind(s) ==
  /\ disp[s].pc = "unwind" /\ run[s] \notin LiveRuns
  /\ Goto(s, "requeue")
  /\ UNCHANGED <<task, row, proc, loop, run, late, request, crashes, stops>>

Requeue(s) ==
  /\ disp[s].pc = "requeue"
  /\ RescheduleTaskRun(s[1], s[2], TRUE)
  /\ Goto(s, "done")
  /\ UNCHANGED <<task, proc, loop, run, late, request, crashes, stops>>

\* A store call raises.  Before the launch the occurrence is rescheduled, after
\* it _reconcile_launched_run takes over, and a failing handler just ends.
StoreFails(s) ==
  /\ DbFailures
  /\ disp[s].pc \in {"start", "mark", "finish", "retry", "resched", "requeue"}
  /\ Goto(s, CASE disp[s].pc = "start" -> "resched"
               [] disp[s].pc \in {"mark", "finish", "retry"} -> "reconcile"
               [] OTHER -> "done")
  /\ UNCHANGED <<task, row, proc, loop, run, late, request, crashes, stops>>

\* _reconcile_launched_run: write the fence again, which may fail again, ...
Reconcile(s) ==
  /\ disp[s].pc = "reconcile"
  /\ MarkTaskRunLaunched(s[1], s[2]) \/ UNCHANGED row
  /\ Goto(s, "settle")
  /\ UNCHANGED <<task, proc, loop, run, late, request, crashes, stops>>

\* ... wait for the run and make one attempt at the terminal write.
Settle(s) ==
  /\ disp[s].pc = "settle" /\ run[s] \notin LiveRuns
  /\ \/ \E status \in FinishStatuses(s) : MarkTaskRunFinished(s[1], s[2], status)
     \/ UNCHANGED row
  /\ Goto(s, "done")
  /\ UNCHANGED <<task, proc, loop, run, late, request, crashes, stops>>

\* _renew_lease: it ends when the attempt lost the row ...
Heartbeat(s) ==
  /\ disp[s].hb = "on"
  /\ RenewTaskRunLease(s[1], s[2])
  /\ disp' = IF Owns(s[1], s[2]) THEN disp ELSE [disp EXCEPT ![s].hb = "dead"]
  /\ UNCHANGED <<task, proc, loop, run, late, request, crashes, stops>>

\* ... and when the store call raises, which nothing catches.
HeartbeatFails(s) ==
  /\ DbFailures
  /\ disp[s].hb = "on"
  /\ disp' = [disp EXCEPT ![s].hb = "dead"]
  /\ UNCHANGED <<task, row, proc, loop, run, late, request, crashes, stops>>

LateWrite(w) ==
  LET r == w[2][1]
      a == w[2][2]
  IN  /\ w \in late
      /\ \/ w[1] = "started" /\ MarkTaskRunStarted(r, a)
         \/ w[1] = "launched" /\ MarkTaskRunLaunched(r, a)
         \/ /\ w[1] = "finished"
            /\ \E status \in FinishStatuses(w[2]) : MarkTaskRunFinished(r, a, status)
         \/ w[1] = "delayed" /\ RescheduleTaskRun(r, a, FALSE)
         \/ w[1] = "requeue" /\ RescheduleTaskRun(r, a, TRUE)
      /\ late' = late \ {w}
      /\ UNCHANGED <<task, proc, loop, disp, run, request, crashes, stops>>

-----------------------------------------------------------------------------
(* 6. Managed runs, as the dispatch sees them *)

RunEnds(s) ==
  /\ run[s] = "running"
  /\ \E outcome \in {"success", "error", "transient"} :
       run' = [run EXCEPT ![s] = outcome]
  /\ UNCHANGED <<task, row, proc, loop, disp, late, request, crashes, stops>>

\* The CancelledError ends the run, or something below the producer swallows it.
RunCancelled(s) ==
  /\ run[s] \in {"stopping", "cancelling"}
  /\ \E outcome \in {"cancelled", "error", "transient"}
                     \cup (IF run[s] = "stopping" THEN {"success"} ELSE {}) :
       run' = [run EXCEPT ![s] = outcome]
  /\ UNCHANGED <<task, row, proc, loop, disp, late, request, crashes, stops>>

UserCancelsRun(s) ==
  /\ UserCancels
  /\ run[s] \in {"running", "stopping"}
  /\ run' = [run EXCEPT ![s] = "cancelling"]
  /\ UNCHANGED <<task, row, proc, loop, disp, late, request, crashes, stops>>

-----------------------------------------------------------------------------
(* 7. Cancellation of dispatches, pause, delete, stop, crash *)

\* The store call in which a cancellation finds a dispatch.
WriteOf(s) == CASE disp[s].pc = "start" -> "started"
                [] disp[s].pc \in {"mark", "reconcile"} -> "launched"
                [] disp[s].pc = "finish" -> "finished"
                [] disp[s].pc = "settle" /\ run[s] \notin LiveRuns -> "finished"
                [] disp[s].pc \in {"retry", "resched"} -> "delayed"
                [] disp[s].pc = "requeue" -> "requeue"
                [] OTHER -> "nothing"

\* Mutant: a cancellation before the launch is swallowed.
AfterCancelSwallowed(s) ==
  IF disp[s].pc \in {"await", "settle"} /\ run[s] \in LiveRuns THEN disp[s].pc
  ELSE CASE disp[s].pc \in {"start", "launch"} -> disp[s].pc
         [] disp[s].pc \in LaunchedPcs -> "unwind"
         [] OTHER -> "done"

\* A dispatch that awaits the run's task only passes the cancellation on to it.
AfterCancel(s) ==
  IF disp[s].pc \in {"await", "settle"} /\ run[s] \in LiveRuns THEN disp[s].pc
  ELSE CASE disp[s].pc \in {"start", "launch"} -> "requeue"
         [] disp[s].pc \in LaunchedPcs -> "unwind"
         [] OTHER -> "done"

\* task.cancel() on the dispatches X, of which the unbegun never enter their try
\* block; the runs of cancelled are cancelled through the run manager.
CancelDispatches(X, cancelled) ==
  /\ \E unbegun \in SUBSET {s \in X : disp[s].pc = "start"} :
       /\ disp' = [s \in Slots |->
                     LET pc == IF s \in unbegun THEN "done" ELSE AfterCancel(s)
                     IN  IF s \notin X THEN disp[s]
                         ELSE [disp[s] EXCEPT !.pc = pc,
                                              !.hb = IF pc = "done" THEN "off" ELSE @]]
       /\ \E still \in SUBSET {s \in X \ unbegun : WriteOf(s) # "nothing"} :
            late' = late \cup {<<WriteOf(s), s>> : s \in still}
  /\ run' = [s \in Slots |->
               IF s \in cancelled /\ run[s] \in {"running", "stopping"} THEN "cancelling"
               ELSE IF /\ s \in X /\ disp[s].pc \in LaunchedPcs \cup {"settle"}
                       /\ run[s] = "running"
               THEN "stopping" ELSE run[s]]

CreateTask(t) ==
  /\ task[t].state = "new"
  /\ task' = [task EXCEPT ![t] = [state |-> "live", enabled |-> TRUE, next |-> "future"]]
  /\ UNCHANGED <<row, proc, loop, disp, run, late, request, crashes, stops>>

\* SchedulerStore.pause_task, first half of set_task_enabled(False)/delete_task.
PauseTask(p, t, kind) ==
  /\ Pauses
  /\ proc[p] = "up" /\ request[p] = NoRequest
  /\ task[t].state = "live"
  /\ LET active == {r \in Rows : TaskOf(r) = t /\ row[r].status \in Active}
     IN  /\ row' = [r \in Rows |->
                      IF r \in active THEN EndedRow(row[r], "cancelled") ELSE row[r]]
         /\ request' = [request EXCEPT ![p] =
                          [kind |-> kind, task |-> t,
                           runs |-> {s \in Slots : s[1] \in active /\ row[s[1]].runId = s[2]}]]
  /\ task' = [task EXCEPT ![t].enabled = FALSE]
  /\ UNCHANGED <<proc, loop, disp, run, late, crashes, stops>>

\* _cancel_active_task_work: this process's runs, then its dispatches.
CancelActiveTaskWork(p) ==
  /\ request[p].kind \in {"pausing", "deleting"}
  /\ CancelDispatches({s \in ActiveDispatches(p) : TaskOf(s[1]) = request[p].task},
                      {s \in request[p].runs : disp[s].proc = p})
  /\ request' = [request EXCEPT ![p] =
                   IF @.kind = "pausing" THEN NoRequest ELSE [@ EXCEPT !.kind = "draining"]]
  /\ UNCHANGED <<task, row, proc, loop, crashes, stops>>

\* delete_task once the cancelled dispatches are gone.
DeleteTask(p) ==
  /\ request[p].kind = "draining"
  /\ \A s \in ActiveDispatches(p) : TaskOf(s[1]) # request[p].task
  /\ row' = [r \in Rows |-> IF TaskOf(r) = request[p].task /\ row[r].status # "absent"
                            THEN GoneRow ELSE row[r]]
  /\ task' = [task EXCEPT ![request[p].task] =
                [state |-> "deleted", enabled |-> FALSE, next |-> "none"]]
  /\ request' = [request EXCEPT ![p] = NoRequest]
  /\ UNCHANGED <<proc, loop, disp, run, late, crashes, stops>>

\* set_enabled(True): a schedule with no future run time is refused.
EnableTask(t) ==
  /\ Pauses
  /\ task[t].state = "live" /\ ~task[t].enabled
  /\ task[t].next = "future" \/ t \notin OnceTasks \cup BadTasks
  /\ task' = [task EXCEPT ![t].enabled = TRUE, ![t].next = "future"]
  /\ UNCHANGED <<row, proc, loop, disp, run, late, request, crashes, stops>>

\* stop(): the loop is cancelled at once, dispatches get shutdown_grace_seconds.
Stop(p) ==
  /\ proc[p] = "up" /\ stops < MaxStops
  /\ proc' = [proc EXCEPT ![p] = "draining"]
  /\ \/ loop' = [loop EXCEPT ![p] = Idle("off")]
     \/ loop[p].at = "claim" /\ loop' = [loop EXCEPT ![p].at = "orphan"]
  /\ stops' = stops + 1
  /\ UNCHANGED <<task, row, disp, run, late, request, crashes>>

\* After the grace the remaining dispatches are cancelled.
StopCancels(p) ==
  /\ proc[p] = "draining"
  /\ proc' = [proc EXCEPT ![p] = "ending"]
  /\ CancelDispatches(ActiveDispatches(p), {})
  /\ UNCHANGED <<task, row, loop, request, crashes, stops>>

\* The managed runs of a process end with it.
RunsLost(p) ==
  run' = [s \in Slots |-> IF disp[s].proc = p /\ run[s] \in LiveRuns
                          THEN "lost" ELSE run[s]]

Stopped(p) ==
  /\ proc[p] = "ending" /\ ActiveDispatches(p) = {} /\ loop[p].at = "off"
  /\ \A w \in late : disp[w[2]].proc # p
  /\ request[p] = NoRequest
  /\ proc' = [proc EXCEPT ![p] = "down"]
  /\ RunsLost(p)
  /\ UNCHANGED <<task, row, loop, disp, late, request, crashes, stops>>

Crash(p) ==
  /\ proc[p] # "down" /\ crashes < MaxCrashes
  /\ proc' = [proc EXCEPT ![p] = "down"]
  /\ loop' = [loop EXCEPT ![p] = Idle("off")]
  /\ disp' = [s \in Slots |-> IF s \in ActiveDispatches(p)
                              THEN [disp[s] EXCEPT !.pc = "done", !.hb = "off"]
                              ELSE disp[s]]
  /\ RunsLost(p)
  /\ late' = {w \in late : disp[w[2]].proc # p}
  /\ request' = [request EXCEPT ![p] = NoRequest]
  /\ crashes' = crashes + 1
  /\ UNCHANGED <<task, row, stops>>

-----------------------------------------------------------------------------
(* 8. The specification *)

Polls(p) == \/ TickCleanup(p) \/ TickReconcile(p) \/ TickClaim(p) \/ TickDispatch(p)
            \/ TickFails(p) \/ ClaimLost(p)
Dispatches(s) == \/ StartDispatch(s) \/ Launch(s) \/ LaunchRefused(s)
                 \/ MarkLaunched(s) \/ AwaitRun(s) \/ AwaitDelivery(s)
                 \/ Finish(s) \/ Reschedule(s) \/ Unwind(s) \/ Requeue(s)
                 \/ StoreFails(s) \/ Reconcile(s) \/ Settle(s)
                 \/ Heartbeat(s) \/ HeartbeatFails(s)
Executes(s) == RunEnds(s) \/ RunCancelled(s) \/ UserCancelsRun(s)
Administers(p) ==
  \/ \E t \in Tasks : PauseTask(p, t, "pausing") \/ PauseTask(p, t, "deleting")
  \/ CancelActiveTaskWork(p) \/ DeleteTask(p)
LivesAndDies(p) == Start(p) \/ Stop(p) \/ StopCancels(p) \/ Stopped(p) \/ Crash(p)

Next ==
  \/ TimePasses
  \/ \E p \in Procs : Polls(p) \/ Administers(p) \/ LivesAndDies(p)
  \/ \E s \in Slots : Dispatches(s) \/ Executes(s)
  \/ \E w \in late : LateWrite(w)
  \/ \E t \in Tasks : CreateTask(t) \/ EnableTask(t)

Spec == Init /\ [][Next]_vars

-----------------------------------------------------------------------------
(* 9. Properties *)

\* An occurrence recorded as a success belongs to a run that succeeded under the
\* attempt on record: no write of an attempt that lost its lease gets through.
SuccessIsReal ==
  \A r \in Rows : row[r].status = "success" =>
    row[r].attempt > 0 /\ run[SlotOf(r)] = "success"

\* claim_due_tasks: "No process may safely run two occurrences against the same
\* conversation/checkpoint concurrently": nor are two managed runs of any processes
\* alive at once, one that unwinds its cancellation included.
OneRunPerThread ==
  \A q, s \in Slots :
    run[q] \in LiveRuns /\ run[s] \in LiveRuns /\ ThreadOfRow(q[1]) = ThreadOfRow(s[1])
      => q = s

\* _dispatch: "Do not rerun a full agent prompt for arbitrary execution errors": a
\* fenced occurrence whose run ended by itself is not given back for a retry, unless
\* its dispatch was cancelled before the outcome was written.
NoReplayOfEndedRun ==
  [][\A r \in Rows :
       /\ row[r].status = "launched" /\ row'[r].status = "retry"
       /\ run[SlotOf(r)] \in {"success", "error"}
       => disp[SlotOf(r)].pc \in {"requeue", "done"}]_vars

\* Once a pause has returned, no managed run of the paused task goes on uncancelled.
PausedTaskIsQuiet ==
  \A t \in Tasks \ OnceTasks :
    /\ task[t].state = "live" /\ ~task[t].enabled
    /\ \A p \in Procs : request[p] = NoRequest
    => \A s \in Slots : TaskOf(s[1]) = t => run[s] # "running"

\* Every occurrence keeps the promises of module Occurrence.
Phase(status) == CASE status = "absent" -> "none"
                   [] status \in Waiting -> "waiting"
                   [] status \in Leased -> "held"
                   [] status = "launched" -> "fenced"
                   [] status = "gone" -> "gone"
                   [] OTHER -> "over"

Occ == INSTANCE Occurrence WITH
         Occurrences <- Rows, Limit <- MaxAttempts,
         phase <- [r \in Rows |-> Phase(row[r].status)],
         tries <- [r \in Rows |-> row[r].attempt]

OccurrenceSpec == Occ!OccSpec

\* A materialized occurrence is never stranded: it ends, or is deleted.
EveryOccurrenceSettles ==
  \A r \in Rows :
    row[r].status \in Active ~> row[r].status \in Terminal \cup {"gone"}

\* Processes restart and poll, coroutines and managed runs make progress, time
\* passes; users, store failures and crashes are owed nothing.
Fairness ==
  /\ \A r \in Rows : WF_vars(RetryDelayElapses(r)) /\ WF_vars(LeaseExpires(r))
                      /\ WF_vars(OrphanGraceElapses(r))
  /\ \A p \in Procs :
       /\ WF_vars(Start(p)) /\ WF_vars(StopCancels(p)) /\ WF_vars(Stopped(p))
       /\ WF_vars(TickReconcile(p)) /\ WF_vars(ClaimLost(p))
       /\ SF_vars(TickClaim(p)) /\ WF_vars(TickDispatch(p))
       /\ WF_vars(CancelActiveTaskWork(p)) /\ WF_vars(DeleteTask(p))
  /\ \A s \in Slots :
       /\ WF_vars(StartDispatch(s)) /\ WF_vars(Launch(s) \/ LaunchRefused(s))
       /\ WF_vars(MarkLaunched(s)) /\ WF_vars(AwaitRun(s)) /\ WF_vars(AwaitDelivery(s))
       /\ WF_vars(Finish(s)) /\ WF_vars(Reschedule(s)) /\ WF_vars(Unwind(s))
       /\ WF_vars(Requeue(s)) /\ WF_vars(Reconcile(s)) /\ WF_vars(Settle(s))
       /\ WF_vars(Heartbeat(s)) /\ WF_vars(RunEnds(s)) /\ WF_vars(RunCancelled(s))
  /\ \A w \in LateOps \X Slots : WF_vars(LateWrite(w))

LiveSpec == Spec /\ Fairness
=============================================================================
