---------------------------- MODULE CheckpointLock ----------------------------
(***************************************************************************)
(* deerflow/runtime/checkpoint_lock.py: the process-wide lock of one        *)
(* thread_id, taken by coroutines (checkpoint_thread_lock_async, the run    *)
(* worker) and by ordinary threads (checkpoint_thread_lock_sync).           *)
(*                                                                          *)
(* The registry is a WeakValueDictionary, so a lock object lives only while *)
(* somebody references it: a caller, or a pool worker blocked in its        *)
(* acquire().  A coroutine waits through asyncio.shield on a worker of the  *)
(* default executor, and a worker that has started cannot be cancelled.     *)
(***************************************************************************)
EXTENDS Naturals, FiniteSets

CONSTANTS
  Coros,          \* coroutines that use the conversation's checkpoint
  SyncThreads,    \* threads that use it through the synchronous API
  Locks,          \* identities of lock objects
  NoLock,
  PoolSize,       \* worker threads of the default executor
  DoubleCancels   \* a coroutine may be cancelled again while it unwinds

ASSUME CheckpointLockAssumption ==
  /\ Coros \cap SyncThreads = {}
  /\ IsFiniteSet(Coros)
  /\ NoLock \notin Locks
  /\ PoolSize \in Nat \ {0}
  /\ DoubleCancels \in BOOLEAN

VARIABLES
  pc,        \* where each user stands
  ref,       \* the lock object its frame references
  job,       \* the coroutine's asyncio.to_thread(lock.acquire)
  registry,  \* _locks[thread_id]
  locked,    \* the state of each lock object
  orphans    \* blocked workers whose coroutine is gone

vars == <<pc, ref, job, registry, locked, orphans>>

Users == Coros \cup SyncThreads

TypeOK ==
  /\ pc \in [Users -> {"idle", "waiting", "draining", "critical"}]
  /\ ref \in [Users -> Locks \cup {NoLock}]
  /\ job \in [Coros -> {"none", "queued", "blocked", "acquired"}]
  /\ registry \in Locks \cup {NoLock}
  /\ locked \in [Locks -> BOOLEAN]
  /\ orphans \subseteq (Coros \X Locks)

Init ==
  /\ pc = [u \in Users |-> "idle"]
  /\ ref = [u \in Users |-> NoLock]
  /\ job = [c \in Coros |-> "none"]
  /\ registry = NoLock
  /\ locked = [l \in Locks |-> FALSE]
  /\ orphans = {}

\* Somebody keeps l alive: a frame, or a worker blocked in l.acquire().
Kept(l, refs, blocked) == \/ \E u \in Users : refs[u] = l
                          \/ \E c \in Coros : <<c, l>> \in blocked
Referenced(l) == Kept(l, ref, orphans)

\* Mutant: the lookup runs without _locks_guard, so two users create a lock each.
LockForThreadUnguarded(l) ==
  \/ l = registry
  \/ ~Referenced(l)

\* _lock_for_thread(): the registered lock, or a new object.
LockForThread(l) ==
  IF registry # NoLock THEN l = registry ELSE ~Referenced(l)

\* What a user does first: look its lock up and keep a reference to it.
Lookup(u, l) ==
  /\ pc[u] = "idle"
  /\ LockForThread(l)
  /\ pc' = [pc EXCEPT ![u] = "waiting"]
  /\ ref' = [ref EXCEPT ![u] = l]
  /\ registry' = l
  /\ locked' = [locked EXCEPT ![l] = Referenced(l) /\ @]

\* With its last reference the weak entry of the registry disappears.
Collect == registry' = IF Kept(registry, ref', orphans') THEN registry ELSE NoLock

\* The user's frame ends; the lock becomes `held`.
Leave(u, held) ==
  /\ pc' = [pc EXCEPT ![u] = "idle"]
  /\ ref' = [ref EXCEPT ![u] = NoLock]
  /\ locked' = [locked EXCEPT ![ref[u]] = held]
  /\ Collect

-----------------------------------------------------------------------------
(* Coroutines *)

Acquire(c) ==
  /\ job[c] = "none"
  /\ \E l \in Locks : Lookup(c, l)
  /\ job' = [job EXCEPT ![c] = "queued"]
  /\ UNCHANGED orphans

BusyWorkers == Cardinality({c \in Coros : job[c] = "blocked"}) + Cardinality(orphans)

WorkerStarts(c) ==
  /\ job[c] = "queued"
  /\ BusyWorkers < PoolSize
  /\ job' = [job EXCEPT ![c] = "blocked"]
  /\ UNCHANGED <<pc, ref, registry, locked, orphans>>

WorkerAcquires(c) ==
  /\ job[c] = "blocked"
  /\ ~locked[ref[c]]
  /\ job' = [job EXCEPT ![c] = "acquired"]
  /\ locked' = [locked EXCEPT ![ref[c]] = TRUE]
  /\ UNCHANGED <<pc, ref, registry, orphans>>

Resume(c) ==
  /\ pc[c] = "waiting" /\ job[c] = "acquired"
  /\ pc' = [pc EXCEPT ![c] = "critical"]
  /\ job' = [job EXCEPT ![c] = "none"]
  /\ UNCHANGED <<ref, registry, locked, orphans>>

\* Mutant: the cancellation reaches a worker that has not started, and the drain
\* waits for it in vain.
CancelUnshielded(c) ==
  /\ pc[c] = "waiting"
  /\ pc' = [pc EXCEPT ![c] = "draining"]
  /\ job' = [job EXCEPT ![c] = IF @ = "queued" THEN "none" ELSE @]
  /\ UNCHANGED <<ref, registry, locked, orphans>>

\* except CancelledError: wait for the worker, whatever it is at.
Cancel(c) ==
  /\ pc[c] = "waiting"
  /\ pc' = [pc EXCEPT ![c] = "draining"]
  /\ UNCHANGED <<ref, job, registry, locked, orphans>>

\* Mutant: the except branch returns without releasing what its worker acquired.
DrainedUnreleased(c) ==
  /\ pc[c] = "draining" /\ job[c] = "acquired"
  /\ job' = [job EXCEPT ![c] = "none"]
  /\ UNCHANGED orphans /\ Leave(c, TRUE)

Drained(c) ==
  /\ pc[c] = "draining" /\ job[c] = "acquired"
  /\ job' = [job EXCEPT ![c] = "none"]
  /\ UNCHANGED orphans /\ Leave(c, FALSE)

\* A second cancellation ends "await acquisition": a queued worker is dropped, a
\* started one goes on without its coroutine, and one that finished is forgotten.
CancelAgain(c) ==
  /\ DoubleCancels
  /\ pc[c] = "draining"
  /\ <<c, ref[c]>> \notin orphans      \* bound: one abandoned worker at a time
  /\ orphans' = orphans \cup (IF job[c] = "blocked" THEN {<<c, ref[c]>>} ELSE {})
  /\ job' = [job EXCEPT ![c] = "none"]
  /\ Leave(c, locked[ref[c]])

OrphanAcquires(c, l) ==
  /\ <<c, l>> \in orphans
  /\ ~locked[l]
  /\ locked' = [locked EXCEPT ![l] = TRUE]
  /\ orphans' = orphans \ {<<c, l>>}
  /\ UNCHANGED <<pc, ref, job>>
  /\ Collect

Release(c) ==
  /\ pc[c] = "critical"
  /\ UNCHANGED <<job, orphans>> /\ Leave(c, FALSE)

-----------------------------------------------------------------------------
(* Threads *)

SyncLookup(t) ==
  /\ \E l \in Locks : Lookup(t, l)
  /\ UNCHANGED <<job, orphans>>

SyncAcquire(t) ==
  /\ pc[t] = "waiting"
  /\ ~locked[ref[t]]
  /\ pc' = [pc EXCEPT ![t] = "critical"]
  /\ locked' = [locked EXCEPT ![ref[t]] = TRUE]
  /\ UNCHANGED <<ref, job, registry, orphans>>

SyncRelease(t) ==
  /\ pc[t] = "critical"
  /\ UNCHANGED <<job, orphans>> /\ Leave(t, FALSE)

-----------------------------------------------------------------------------
CoroStep(c) == \/ Acquire(c) \/ WorkerStarts(c) \/ WorkerAcquires(c)
               \/ Resume(c) \/ Cancel(c) \/ Drained(c) \/ CancelAgain(c)
               \/ \E l \in Locks : OrphanAcquires(c, l)
               \/ Release(c)
SyncStep(t) == SyncLookup(t) \/ SyncAcquire(t) \/ SyncRelease(t)

Next == (\E c \in Coros : CoroStep(c)) \/ (\E t \in SyncThreads : SyncStep(t))

Spec == Init /\ [][Next]_vars

\* Coroutines run, the executor serves its queue in order, threads end their
\* critical sections, and a lock that is free again and again is not withheld from
\* one waiter for ever.  A coroutine's critical section may need a worker of the
\* same executor (synchronous tools, checkpointers without an asynchronous API), so
\* its end is owed only while the waiters leave one free.
Fairness ==
  /\ \A c \in Coros : /\ SF_vars(WorkerStarts(c)) /\ SF_vars(WorkerAcquires(c))
                      /\ WF_vars(Resume(c)) /\ WF_vars(Drained(c))
                      /\ WF_vars(Release(c) /\ BusyWorkers < PoolSize)
                      /\ \A l \in Locks : SF_vars(OrphanAcquires(c, l))
  /\ \A t \in SyncThreads : SF_vars(SyncAcquire(t)) /\ WF_vars(SyncRelease(t))

LiveSpec == Spec /\ Fairness

-----------------------------------------------------------------------------
(* Properties *)

\* The promise of the module: at most one user, of either API, mutates the
\* checkpoint of the conversation, although lock objects come and go.
MutualExclusion ==
  \A u, v \in Users : pc[u] = "critical" /\ pc[v] = "critical" => u = v

\* u holds the lock object it references, or its worker does on its behalf.
Owns(u) == \/ pc[u] = "critical"
           \/ u \in Coros /\ job[u] = "acquired"

\* acquire_checkpoint_thread_lock: a cancelled waiter releases what its worker
\* acquires, "otherwise the thread would remain wedged": a lock that somebody
\* can still wait for is owned by a user that will release it.
LockHasReleaser ==
  registry # NoLock /\ locked[registry] => \E u \in Users : Owns(u)

\* The parts of the inductive invariant: all references are to the registered
\* object, a worker belongs to a waiting coroutine, and an owner's lock is locked.
RefsAgree ==
  /\ \A u \in Users : ref[u] = IF pc[u] = "idle" THEN NoLock ELSE registry
  /\ \A u \in Users : pc[u] # "idle" => registry # NoLock
  /\ \A o \in orphans : o[2] = registry
  /\ registry # NoLock => Referenced(registry)
JobsFit ==
  \A c \in Coros : job[c] # "none" <=> pc[c] \in {"waiting", "draining"}
OneOwner ==
  /\ \A u, v \in Users : Owns(u) /\ Owns(v) => u = v
  /\ \A u \in Users : Owns(u) => locked[registry]

\* The lock objects behind the exclusion: however they are collected and created
\* again, everybody who holds or waits refers to one object with one owner.
OneLockObject == TypeOK /\ RefsAgree /\ JobsFit /\ OneOwner

\* Nothing but an abandoned acquisition takes a lock's releaser away: neither a
\* single cancellation, wherever it finds the waiter, nor a collection of the object.
OnlyAbandonmentWedges ==
  [][LockHasReleaser /\ ~LockHasReleaser' =>
       \E c \in Coros : CancelAgain(c) \/ \E l \in Locks : OrphanAcquires(c, l)]_vars

\* A coroutine holds the lock, and those who wait for it (and the workers of those
\* who gave up) block every worker of the executor.
Starved == BusyWorkers = PoolSize /\ \E c \in Coros : pc[c] = "critical"

\* Whoever waits for the lock gets it, and a cancelled waiter finishes unwinding,
\* unless the lock has lost its releaser, or the waiters starve its holder of a
\* worker for ever (asyncio.to_thread blocks one for each of them).
EveryoneGetsIn ==
  \A u \in Users :
    pc[u] \in {"waiting", "draining"} ~>
      pc[u] \in {"critical", "idle"} \/ ~LockHasReleaser \/ []Starved
=============================================================================
