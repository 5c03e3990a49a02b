---------------------------- MODULE MemoryUpdates ----------------------------
(***************************************************************************)
(* deerflow/agents/memory/queue.py and manager.py, with the configuration   *)
(* change of deerflow/config/memory_config.py that drives both: updates of  *)
(* the long-term memory are queued, debounced by a timer thread and written *)
(* in batches through a leased manager; a change of the configuration       *)
(* pauses the queue, drains it, and replaces the manager while readers and  *)
(* writers may still hold the old one.                                      *)
(***************************************************************************)
EXTENDS Naturals, FiniteSets

CONSTANTS
  Update,       \* snapshots of conversations handed to add() or add_nowait()
  Scope,        \* (thread, agent, user): queued updates of one scope are merged
  ScopeOf,      \* the scope of each update
  Reloaders,    \* threads that apply a changed configuration
  Shutdown,     \* the thread that flushes when the process ends
  Readers,      \* threads that read memory through a lease
  Config,       \* memory configurations
  Identity,     \* tells manager objects of one configuration apart
  NoManager,
  FirstConfig,
  MaxThreads    \* bound on timer threads that have not run yet

Worker == "worker"
Flushers == Reloaders \cup {Shutdown}

\* A manager object, with the configuration it was constructed with.
Manager == Config \X Identity

ASSUME MemoryUpdatesAssumption ==
  /\ ScopeOf \in [Update -> Scope]
  /\ Shutdown \notin Reloaders
  /\ IsFiniteSet(Readers) /\ Worker \notin Readers
  /\ NoManager \notin Manager
  /\ FirstConfig \in Config
  /\ MaxThreads \in Nat \ {0}

VARIABLES
  fate,       \* new, queued, in the batch being written, or over (written, failed,
              \* lost with its batch, cancelled)
  timer,      \* _timer: none, pending, or fired (its thread is on its way)
  threads,    \* timer threads on their way to _process_queue()
  worker,     \* where the processing thread stands; _processing unless idle
  starting,   \* _process_starting: a flush worker is on its way
  requested,  \* _process_requested
  paused,     \* _paused
  pc,         \* where each flusher stands
  target,     \* the configuration a flusher will apply, or has read, while it matters
  config,     \* _memory_config
  manager,    \* _manager
  open,       \* managers constructed and not closed
  leases,     \* _manager_leases
  retired,    \* _retired_managers
  uses        \* the manager the worker and the readers use

queueVars == <<fate, timer, threads, worker, starting, requested, paused>>
flushVars == <<pc, target>>
managerVars == <<manager, open, leases, retired>>
vars == <<queueVars, flushVars, config, managerVars, uses>>

Users == Readers \cup {Worker}

queue == {u \in Update : fate[u] = "queued"}
batch == {u \in Update : fate[u] = "writing"}
processing == worker # "idle"

TypeOK ==
  /\ fate \in [Update -> {"new", "queued", "writing", "over"}]
  /\ timer \in {"none", "pending", "fired"}
  /\ threads \in Nat
  /\ worker \in {"idle", "leasing", "writing", "ending"}
  /\ starting \in BOOLEAN /\ requested \in BOOLEAN /\ paused \in BOOLEAN
  /\ pc \in [Flushers -> {"idle", "get", "flush", "waiting", "publish", "reset", "resume", "over"}]
  /\ target \in [Flushers -> Config]
  /\ config \in Config
  /\ manager \in Manager \cup {NoManager}
  /\ open \subseteq Manager /\ retired \subseteq Manager
  /\ leases \in [Manager -> Nat]
  /\ uses \in [Users -> Manager \cup {NoManager}]

Init ==
  /\ fate = [u \in Update |-> "new"]
  /\ timer = "none" /\ threads = 0
  /\ worker = "idle"
  /\ starting = FALSE /\ requested = FALSE /\ paused = FALSE
  /\ pc = [f \in Flushers |-> "idle"]
  /\ target = [f \in Flushers |-> FirstConfig]
  /\ config = FirstConfig
  /\ manager = NoManager
  /\ open = {} /\ retired = {}
  /\ leases = [m \in Manager |-> 0]
  /\ uses = [x \in Users |-> NoManager]

-----------------------------------------------------------------------------
(* The queue *)

Awakened == [f \in Flushers |-> IF pc[f] = "waiting" THEN "flush" ELSE pc[f]]
\* _condition.notify_all()
Notify == pc' = Awakened /\ UNCHANGED target

\* _schedule_timer(): a pending timer is cancelled, a fired one is beyond recall.
ScheduleTimer == timer' = "pending"

\* add(), add_nowait()
Add(u) ==
  /\ fate[u] = "new"
  /\ fate' = [fate EXCEPT ![u] = "queued"]
  /\ IF paused THEN UNCHANGED <<timer, requested>>
     ELSE IF processing THEN requested' = TRUE /\ UNCHANGED timer
     ELSE ScheduleTimer /\ UNCHANGED requested
  /\ IF paused THEN Notify ELSE UNCHANGED flushVars
  /\ UNCHANGED <<threads, worker, starting, paused, config, managerVars, uses>>

\* cancel_by_agent(), and clear() with all scopes.
CancelPending(scopes) ==
  /\ fate' = [u \in Update |-> IF u \in queue /\ ScopeOf[u] \in scopes THEN "over" ELSE fate[u]]
  /\ IF queue' = {} THEN timer' = "none" /\ requested' = FALSE
                    ELSE UNCHANGED <<timer, requested>>
  /\ Notify
  /\ UNCHANGED <<threads, worker, starting, paused, config, managerVars, uses>>

TimerFires ==
  /\ timer = "pending" /\ threads < MaxThreads
  /\ timer' = "fired"
  /\ threads' = threads + 1
  /\ UNCHANGED <<fate, worker, starting, requested, paused, flushVars, config, managerVars, uses>>

\* `self._timer = None`: a pending timer is forgotten, not cancelled.
ForgetTimer(running) ==
  /\ timer' = "none"
  /\ threads' = IF timer = "pending" THEN running + 1 ELSE running

\* Mutant: a late timer thread does not look at the pause.
EnterUnpaused(force, running) ==
  /\ IF processing
     THEN requested' = TRUE /\ threads' = running /\ UNCHANGED <<fate, worker, timer>>
     ELSE IF queue = {}
     THEN ForgetTimer(running) /\ UNCHANGED <<fate, worker, requested>>
     ELSE /\ worker' = "leasing"
          /\ requested' = FALSE
          /\ fate' = [u \in Update |-> IF u \in queue THEN "writing" ELSE fate[u]]
          /\ ForgetTimer(running)
  /\ Notify
  /\ UNCHANGED <<paused, config, managerVars, uses>>

\* The first critical section of _process_queue().
Enter(force, running) ==
  /\ IF paused /\ ~force
     THEN ForgetTimer(running) /\ UNCHANGED <<fate, worker, requested>>
     ELSE IF processing
     THEN /\ requested' = TRUE /\ threads' = running
          /\ UNCHANGED <<fate, worker, timer>>
     ELSE IF queue = {}
     THEN ForgetTimer(running) /\ UNCHANGED <<fate, worker, requested>>
     ELSE /\ worker' = "leasing"
          /\ requested' = FALSE
          /\ fate' = [u \in Update |-> IF u \in queue THEN "writing" ELSE fate[u]]
          /\ ForgetTimer(running)
  /\ Notify
  /\ UNCHANGED <<paused, config, managerVars, uses>>

TimerThreadEnters ==
  /\ threads > 0
  /\ Enter(FALSE, threads - 1)
  /\ UNCHANGED starting

FlushWorkerEnters ==
  /\ starting
  /\ starting' = FALSE
  /\ Enter(TRUE, threads)

-----------------------------------------------------------------------------
(* Managers and leases *)

\* Mutant: the replaced manager is closed although it is leased.
RetireAtOnce(m, stillOpen) == open' = stillOpen \ {m} /\ UNCHANGED retired

\* _retire_manager_locked(), and the close() of a manager nobody uses.
Retire(m, stillOpen) ==
  IF leases[m] > 0 THEN retired' = retired \cup {m} /\ open' = stillOpen
                   ELSE open' = stillOpen \ {m} /\ UNCHANGED retired

\* The active manager was made for configuration c (_manager_key).
Serves(c) == manager \in {c} \X Identity

\* get_memory_manager(c) selects m: the active manager, or a new one that replaces it.
GetManager(c, m) ==
  IF Serves(c)
  THEN m = manager /\ UNCHANGED <<manager, open, retired>>
  ELSE /\ m[1] = c /\ m \notin open
       /\ manager' = m
       /\ IF manager = NoManager THEN open' = open \cup {m} /\ UNCHANGED retired
          ELSE Retire(manager, open \cup {m})

\* memory_manager_lease() on entry
BeginLease(x, m) ==
  /\ GetManager(config, m)
  /\ leases' = [leases EXCEPT ![m] = @ + 1]
  /\ uses' = [uses EXCEPT ![x] = m]

\* Mutant: the last lease leaves the retired manager open.
EndLeaseOpen(x) ==
  /\ leases' = [leases EXCEPT ![uses[x]] = @ - 1]
  /\ uses' = [uses EXCEPT ![x] = NoManager]
  /\ retired' = IF leases[uses[x]] = 1 THEN retired \ {uses[x]} ELSE retired
  /\ UNCHANGED <<manager, open>>

\* memory_manager_lease() on exit: the last user of a retired manager closes it.
EndLease(x) ==
  LET m == uses[x]
      closes == leases[m] = 1 /\ m \in retired
  IN /\ leases' = [leases EXCEPT ![m] = @ - 1]
     /\ uses' = [uses EXCEPT ![x] = NoManager]
     /\ retired' = IF closes THEN retired \ {m} ELSE retired
     /\ open' = IF closes THEN open \ {m} ELSE open
     /\ UNCHANGED manager

ReaderBegins(r) ==
  /\ uses[r] = NoManager
  /\ \E m \in Manager : BeginLease(r, m)
  /\ UNCHANGED <<queueVars, flushVars, config>>

ReaderEnds(r) ==
  /\ uses[r] # NoManager
  /\ EndLease(r)
  /\ UNCHANGED <<queueVars, flushVars, config>>

-----------------------------------------------------------------------------
(* The processing thread *)

WorkerLeases ==
  /\ worker = "leasing"
  /\ \E m \in Manager : BeginLease(Worker, m)
  /\ worker' = "writing"
  /\ UNCHANGED <<fate, timer, threads, starting, requested, paused, flushVars, config>>

\* The manager cannot be constructed: the batch is gone.
LeaseFails ==
  /\ worker = "leasing"
  /\ ~Serves(config)
  /\ worker' = "ending"
  /\ fate' = [u \in Update |-> IF u \in batch THEN "over" ELSE fate[u]]
  /\ UNCHANGED <<timer, threads, starting, requested, paused, flushVars, config, managerVars, uses>>

\* manager.add() for the merged updates of a scope, which succeeds, declines or raises:
\* an exception is only logged.
Write(s) ==
  /\ worker = "writing"
  /\ \E u \in batch : ScopeOf[u] = s
  /\ fate' = [u \in Update |-> IF u \in batch /\ ScopeOf[u] = s THEN "over" ELSE fate[u]]
  /\ UNCHANGED <<timer, threads, worker, starting, requested, paused, flushVars, config, managerVars, uses>>

WorkerReleases ==
  /\ worker = "writing" /\ batch = {}
  /\ EndLease(Worker)
  /\ worker' = "ending"
  /\ UNCHANGED <<fate, timer, threads, starting, requested, paused, flushVars, config>>

\* Mutant: the last critical section forgets what was requested meanwhile.
FinishForgetful ==
  /\ worker = "ending"
  /\ worker' = "idle"
  /\ requested' = FALSE
  /\ Notify
  /\ UNCHANGED <<fate, timer, threads, starting, paused, config, managerVars, uses>>

\* Mutant: the waiting flushers are not notified.
FinishSilently ==
  /\ worker = "ending"
  /\ worker' = "idle"
  /\ requested' = FALSE
  /\ IF queue # {} /\ requested /\ ~paused THEN ScheduleTimer ELSE UNCHANGED timer
  /\ UNCHANGED <<fate, threads, starting, paused, flushVars, config, managerVars, uses>>

\* The last critical section of _process_queue().
Finish ==
  /\ worker = "ending"
  /\ worker' = "idle"
  /\ requested' = FALSE
  /\ IF queue # {} /\ requested /\ ~paused THEN ScheduleTimer ELSE UNCHANGED timer
  /\ Notify
  /\ UNCHANGED <<fate, threads, starting, paused, config, managerVars, uses>>

-----------------------------------------------------------------------------
(* flush() and its callers *)

Goto(f, place) == pc' = [pc EXCEPT ![f] = place]

\* _apply_memory_config() begins: pause().
Pause(r) ==
  /\ r \in Reloaders /\ pc[r] = "idle"
  /\ \E c \in Config \ {config} : target' = [target EXCEPT ![r] = c]
  /\ paused' = TRUE
  /\ timer' = "none"
  /\ pc' = [Awakened EXCEPT ![r] = "flush"]
  /\ UNCHANGED <<fate, threads, worker, starting, requested, config, managerVars, uses>>

\* shutdown() looks the manager up: the configuration is read before the lock is taken.
ShutdownReads ==
  /\ pc[Shutdown] = "idle"
  /\ target' = [target EXCEPT ![Shutdown] = config]
  /\ Goto(Shutdown, "get")
  /\ UNCHANGED <<queueVars, config, managerVars, uses>>

ShutdownGets ==
  /\ pc[Shutdown] = "get"
  /\ \E m \in Manager : GetManager(target[Shutdown], m)
  /\ target' = [target EXCEPT ![Shutdown] = FirstConfig]
  /\ Goto(Shutdown, "flush")
  /\ UNCHANGED <<queueVars, config, leases, uses>>

\* Where flush() returns to with TRUE, and where its failure leads.
Drained(f) == IF f = Shutdown THEN "reset" ELSE "publish"
Undrained(f) == IF f = Shutdown THEN "over" ELSE "resume"

busy == processing \/ starting

\* One round of flush(): wait for whoever is writing, then drain what is left.
FlushStep(f) ==
  /\ pc[f] = "flush"
  /\ timer' = "none"
  /\ \/ busy /\ requested' = TRUE /\ Goto(f, "waiting") /\ UNCHANGED starting
     \/ ~busy /\ queue = {} /\ Goto(f, Drained(f)) /\ UNCHANGED <<requested, starting>>
     \/ ~busy /\ queue # {} /\ starting' = TRUE /\ UNCHANGED <<pc, requested>>
  /\ UNCHANGED <<fate, threads, worker, paused, target, config, managerVars, uses>>

\* worker.start() raises: no thread, no timer, and the exception goes to the caller.
FlushRaises(f) ==
  /\ pc[f] = "flush" /\ ~busy /\ queue # {}
  /\ timer' = "none"
  /\ pc' = [Awakened EXCEPT ![f] = Undrained(f)]
  /\ UNCHANGED <<fate, threads, worker, starting, requested, paused, target, config, managerVars, uses>>

FlushTimeout(f) ==
  /\ pc[f] = "waiting" /\ busy
  /\ timer' = "none"
  /\ requested' = TRUE
  /\ Goto(f, Undrained(f))
  /\ UNCHANGED <<fate, threads, worker, starting, paused, target, config, managerVars, uses>>

Publish(r) ==
  /\ r \in Reloaders /\ pc[r] = "publish"
  /\ config' = target[r]
  /\ target' = [target EXCEPT ![r] = FirstConfig]
  /\ Goto(r, "reset")
  /\ UNCHANGED <<queueVars, managerVars, uses>>

\* reset_memory_manager()
Reset(f) ==
  /\ pc[f] = "reset"
  /\ manager' = NoManager
  /\ IF manager = NoManager THEN UNCHANGED <<open, retired>> ELSE Retire(manager, open)
  /\ Goto(f, IF f = Shutdown THEN "over" ELSE "resume")
  /\ UNCHANGED <<queueVars, target, config, leases, uses>>

\* resume(), also after a drain that failed.
Resume(r) ==
  /\ pc[r] = "resume"
  /\ paused' = FALSE
  /\ IF queue # {} /\ ~processing THEN ScheduleTimer ELSE UNCHANGED timer
  /\ requested' = (requested \/ (queue # {} /\ processing))
  /\ pc' = [Awakened EXCEPT ![r] = "idle"]
  /\ target' = [target EXCEPT ![r] = FirstConfig]
  /\ UNCHANGED <<fate, threads, worker, starting, config, managerVars, uses>>

Process ==
  \/ TimerThreadEnters \/ FlushWorkerEnters
  \/ WorkerLeases \/ LeaseFails \/ (\E s \in Scope : Write(s)) \/ WorkerReleases \/ Finish

Flush(f) == FlushStep(f) \/ Publish(f) \/ Reset(f) \/ Resume(f)

Next ==
  \/ \E u \in Update : Add(u)
  \/ \E scopes \in SUBSET Scope : CancelPending(scopes)
  \/ TimerFires \/ Process
  \/ \E r \in Readers : ReaderBegins(r) \/ ReaderEnds(r)
  \/ \E f \in Flushers : Pause(f) \/ Flush(f) \/ FlushRaises(f) \/ FlushTimeout(f)
  \/ ShutdownReads \/ ShutdownGets

Spec == Init /\ [][Next]_vars

\* Threads run, backends answer, timers fire; nobody is owed an update, a reload, a
\* timeout or a failure.
Fairness ==
  /\ WF_vars(TimerFires)
  /\ WF_vars(TimerThreadEnters) /\ WF_vars(FlushWorkerEnters)
  /\ WF_vars(WorkerLeases \/ (\E s \in Scope : Write(s)) \/ WorkerReleases \/ Finish)
  /\ WF_vars(ShutdownGets)
  /\ \A f \in Flushers : WF_vars(Flush(f))

LiveSpec == Spec /\ Fairness

-----------------------------------------------------------------------------
(* Properties *)

\* Whoever reads or writes memory uses an open manager, however often the
\* configuration changes under it (memory_manager_lease).
UsedManagersAreOpen == \A x \in Users : uses[x] # NoManager => uses[x] \in open

\* No manager is left open by a change of the configuration: an open one is active,
\* or retired and in use, so that its last user closes it.
NoManagerIsLeaked ==
  \A m \in open : m = manager \/ (m \in retired /\ \E x \in Users : uses[x] = m)

\* While a single reload swaps configuration and manager, no update is being written:
\* pausing the queue keeps late timer threads out.
SwitchIsQuiet ==
  \A r \in Reloaders :
    (/\ pc[r] \in {"publish", "reset"} /\ paused
     /\ \A f \in Flushers \ {r} : pc[f] = "idle") => ~processing

ReloadsStop == <>[](\A r \in Reloaders : pc[r] = "idle")

\* Once reloads stop, a queued update is written, tried or cancelled in the end, through
\* the late timers, pauses and failed drains they left, or the process ends: resume()
\* and the end of a batch schedule what was queued meanwhile.
EveryUpdateSettles ==
  ReloadsStop => \A u \in Update :
    fate[u] = "queued" ~> fate[u] \notin {"queued", "writing"} \/ pc[Shutdown] = "over"

\* flush() returns, even without a timeout: every worker it waits for notifies it.
EveryFlushReturns == \A f \in Flushers : pc[f] = "waiting" ~> pc[f] \notin {"waiting", "flush"}
=============================================================================
