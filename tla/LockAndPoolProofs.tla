-------------------------- MODULE LockAndPoolProofs --------------------------
(***************************************************************************)
(* Proofs about the two components that coroutines reach across threads and *)
(* event loops.                                                             *)
(*                                                                          *)
(* CheckpointLock, for any number of coroutines, threads and lock objects:  *)
(* the conversation's checkpoint has one user at a time, and unless a       *)
(* coroutine is cancelled twice a locked lock has an owner that will        *)
(* release it.                                                              *)
(*                                                                          *)
(* SessionPool, for any number of conversations, clients and sessions: a    *)
(* conversation has one session, and a session is lost only by a client     *)
(* that was cancelled.  The invariant is PoolInv: what each client's        *)
(* position says of the session it creates, waits for or has to close, and  *)
(* that a call stands in one owner's queue, once.                           *)
(***************************************************************************)
EXTENDS CheckpointLock, SessionPool, FiniteSetTheorems, SequenceTheorems, TLAPS

LEMMA InitHolds == Init => OneLockObject /\ orphans = {} /\ LockHasReleaser
  BY CheckpointLockAssumption
  DEF Init, OneLockObject, TypeOK, RefsAgree, JobsFit, OneOwner, Owns, Users,
      LockHasReleaser

-----------------------------------------------------------------------------
(* What the two shared parts of the actions do to the references *)

\* A lookup ends with everybody referring to one object, still unowned if fresh.
LEMMA LookupAgrees ==
  ASSUME OneLockObject, NEW u \in Users, NEW l \in Locks, Lookup(u, l),
         orphans' = orphans
  PROVE  /\ pc' \in [Users -> {"idle", "waiting", "draining", "critical"}]
         /\ ref' \in [Users -> Locks \cup {NoLock}]
         /\ registry' \in Locks \cup {NoLock}
         /\ locked' \in [Locks -> BOOLEAN]
         /\ RefsAgree'
         /\ pc[u] = "idle" /\ pc' = [pc EXCEPT ![u] = "waiting"]
         /\ registry # NoLock => registry' = registry /\ locked' = locked
         /\ registry = NoLock => ~locked'[registry'] /\ \A v \in Users : pc[v] = "idle"
         /\ registry' # NoLock
  <1>1. pc[u] = "idle" /\ pc' = [pc EXCEPT ![u] = "waiting"]
    BY DEF Lookup
  <1>2. ref' = [ref EXCEPT ![u] = l] /\ registry' = l
        /\ locked' = [locked EXCEPT ![l] = Referenced(l) /\ locked[l]]
    BY DEF Lookup
  <1>3. TypeOK /\ RefsAgree
    BY DEF OneLockObject
  <1>4. l # NoLock
    BY CheckpointLockAssumption
  <1>5. CASE registry # NoLock
    <2>1. l = registry /\ Referenced(l)
      BY <1>3, <1>5 DEF Lookup, LockForThread, RefsAgree
    <2>2. locked' = locked
      BY <1>2, <1>3, <2>1 DEF TypeOK
    <2>3. RefsAgree'
      BY <1>1, <1>2, <1>3, <1>4, <2>1 DEF RefsAgree, TypeOK, Referenced, Kept, Users
    <2>4. QED
      BY <1>1, <1>2, <1>3, <1>4, <1>5, <2>1, <2>2, <2>3 DEF TypeOK
  <1>6. CASE registry = NoLock
    <2>1. ~Referenced(l)
      BY <1>6 DEF Lookup, LockForThread
    <2>2. locked' = [locked EXCEPT ![l] = FALSE]
      BY <1>2, <2>1
    <2>3. \A v \in Users : ref[v] = NoLock
      BY <1>3, <1>6 DEF RefsAgree
    <2>4. orphans = {}
      BY <1>3, <1>6, CheckpointLockAssumption DEF RefsAgree, TypeOK
    <2>5. \A v \in Users : pc[v] = "idle"
      BY <1>3, <1>6 DEF RefsAgree
    <2>6. RefsAgree'
      BY <1>1, <1>2, <1>3, <1>4, <2>3, <2>4, <2>5
      DEF RefsAgree, TypeOK, Referenced, Kept, Users
    <2>7. QED
      BY <1>1, <1>2, <1>3, <1>4, <1>6, <2>2, <2>5, <2>6 DEF TypeOK
  <1>7. QED
    BY <1>5, <1>6

\* Leaving keeps the references in agreement; the registry forgets only an object
\* that nobody references, so no other user was waiting for it or holding it.
LEMMA LeaveAgrees ==
  ASSUME OneLockObject, NEW u \in Users, NEW held \in BOOLEAN, pc[u] # "idle",
         Leave(u, held), orphans' \subseteq orphans \cup (Coros \X {registry})
  PROVE  /\ pc' \in [Users -> {"idle", "waiting", "draining", "critical"}]
         /\ ref' \in [Users -> Locks \cup {NoLock}]
         /\ registry' \in Locks \cup {NoLock}
         /\ locked' \in [Locks -> BOOLEAN]
         /\ orphans' \subseteq (Coros \X Locks)
         /\ RefsAgree'
         /\ pc' = [pc EXCEPT ![u] = "idle"]
         /\ registry \in Locks /\ locked' = [locked EXCEPT ![registry] = held]
         /\ registry' # NoLock => registry' = registry
         /\ \A v \in Users \ {u} : pc[v] # "idle" => registry' = registry
  <1>1. TypeOK /\ RefsAgree
    BY DEF OneLockObject
  <1>2. registry \in Locks /\ ref[u] = registry
    BY <1>1 DEF RefsAgree, TypeOK
  <1>3. /\ pc' = [pc EXCEPT ![u] = "idle"] /\ ref' = [ref EXCEPT ![u] = NoLock]
        /\ locked' = [locked EXCEPT ![registry] = held]
        /\ registry' = IF Kept(registry, ref', orphans') THEN registry ELSE NoLock
    BY <1>2 DEF Leave, Collect
  <1>4. NoLock \notin Locks
    BY CheckpointLockAssumption
  <1>5. \A v \in Users \ {u} : pc[v] # "idle" => ref'[v] = registry
    BY <1>1, <1>3 DEF RefsAgree, TypeOK
  <1>6. \A v \in Users \ {u} : pc[v] # "idle" => registry' = registry
    BY <1>3, <1>5 DEF Kept
  <1>7. orphans' \subseteq (Coros \X Locks) /\ \A o \in orphans' : o[2] = registry
    BY <1>1, <1>2 DEF TypeOK, RefsAgree
  <1>8. \A o \in orphans' : o[2] = registry'
    <2>1. SUFFICES ASSUME NEW o \in orphans' PROVE registry' = registry
      BY <1>7
    <2>2. PICK c \in Coros : o = <<c, registry>>
      BY <1>7
    <2>3. QED
      BY <1>3, <2>2 DEF Kept
  <1>9. /\ \A v \in Users : ref'[v] = IF pc'[v] = "idle" THEN NoLock ELSE registry'
        /\ \A v \in Users : pc'[v] # "idle" => registry' # NoLock
    BY <1>1, <1>2, <1>3, <1>4, <1>6 DEF RefsAgree, TypeOK
  <1>10. registry' # NoLock => Referenced(registry)'
    BY <1>3 DEF Referenced, Kept
  <1>11. QED
    BY <1>1, <1>2, <1>3, <1>6, <1>7, <1>8, <1>9, <1>10 DEF TypeOK, RefsAgree

-----------------------------------------------------------------------------
(* Every action keeps the invariant *)

LEMMA OwnsOf ==
  /\ \A u \in Users : Owns(u) <=> (pc[u] = "critical" \/ (u \in Coros /\ job[u] = "acquired"))
  /\ \A u \in Users : Owns(u)' <=> (pc'[u] = "critical" \/ (u \in Coros /\ job'[u] = "acquired"))
  BY DEF Owns

\* The conjunct about owners after a user left: nobody else's ownership changed.
LEMMA LeaverOwns ==
  ASSUME OneLockObject, NEW u \in Users, NEW held \in BOOLEAN, pc[u] # "idle",
         pc' = [pc EXCEPT ![u] = "idle"], registry \in Locks,
         locked' = [locked EXCEPT ![registry] = held],
         \A v \in Users \ {u} : pc[v] # "idle" => registry' = registry,
         u \in Coros => job' = [job EXCEPT ![u] = "none"],
         u \notin Coros => job' = job,
         Owns(u) \/ held = locked[registry]
  PROVE  JobsFit' /\ OneOwner'
  <1>1. TypeOK /\ JobsFit /\ OneOwner
    BY DEF OneLockObject
  <1>2. JobsFit'
    BY <1>1 DEF JobsFit, TypeOK, Users
  <1>3. ~Owns(u)'
    BY <1>1, OwnsOf DEF TypeOK, Users
  <1>4. \A v \in Users \ {u} : Owns(v)' <=> Owns(v)
    BY <1>1, OwnsOf DEF TypeOK, Users
  <1>5. \A v \in Users \ {u} : Owns(v) => locked'[registry']
    <2>1. SUFFICES ASSUME NEW v \in Users \ {u}, Owns(v) PROVE locked'[registry']
      OBVIOUS
    <2>2. pc[v] # "idle"
      BY <1>1, <2>1, OwnsOf DEF JobsFit
    <2>3. registry' = registry /\ locked[registry]
      BY <1>1, <2>1, <2>2 DEF OneOwner
    <2>4. ~Owns(u)
      BY <1>1, <2>1 DEF OneOwner
    <2>5. QED
      BY <1>1, <2>3, <2>4 DEF TypeOK
  <1>6. QED
    BY <1>1, <1>2, <1>3, <1>4, <1>5 DEF OneOwner

LEMMA StepKeeps == OneLockObject /\ [Next]_vars => OneLockObject'
  <1> SUFFICES ASSUME OneLockObject, [Next]_vars PROVE OneLockObject'
    OBVIOUS
  <1>1. TypeOK /\ RefsAgree /\ JobsFit /\ OneOwner
    BY DEF OneLockObject
  <1>2. NoLock \notin Locks /\ Coros \cap SyncThreads = {}
    BY CheckpointLockAssumption
  <1>3. ASSUME NEW c \in Coros, Acquire(c) PROVE OneLockObject'
    <2>1. PICK l \in Locks : Lookup(c, l)
      BY <1>3 DEF Acquire
    <2>2. job[c] = "none" /\ job' = [job EXCEPT ![c] = "queued"] /\ orphans' = orphans
      BY <1>3 DEF Acquire
    <2>3. c \in Users
      BY DEF Users
    <2> HIDE DEF Lookup
    <2>4. /\ pc' \in [Users -> {"idle", "waiting", "draining", "critical"}]
          /\ ref' \in [Users -> Locks \cup {NoLock}]
          /\ registry' \in Locks \cup {NoLock}
          /\ locked' \in [Locks -> BOOLEAN]
          /\ RefsAgree'
          /\ pc[c] = "idle" /\ pc' = [pc EXCEPT ![c] = "waiting"]
          /\ registry # NoLock => registry' = registry /\ locked' = locked
          /\ registry = NoLock => ~locked'[registry'] /\ \A v \in Users : pc[v] = "idle"
      BY <2>1, <2>2, <2>3, LookupAgrees
    <2>5. JobsFit'
      BY <1>1, <2>2, <2>4 DEF JobsFit, TypeOK, Users
    <2>6. \A v \in Users : Owns(v)' <=> Owns(v)
      BY <1>1, <2>2, <2>4, OwnsOf DEF TypeOK, Users
    <2>7. \A v \in Users : Owns(v) => pc[v] # "idle"
      BY <1>1, OwnsOf DEF JobsFit
    <2>8. \A v \in Users : Owns(v) => locked'[registry']
      BY <1>1, <2>4, <2>7 DEF OneOwner
    <2>9. OneOwner'
      BY <1>1, <2>6, <2>8 DEF OneOwner
    <2>10. TypeOK'
      BY <1>1, <2>2, <2>4 DEF TypeOK
    <2>11. QED
      BY <2>4, <2>5, <2>9, <2>10 DEF OneLockObject
  <1>4. ASSUME NEW c \in Coros, WorkerStarts(c) PROVE OneLockObject'
    <2>1. \A v \in Users : Owns(v)' <=> Owns(v)
      BY <1>1, <1>4, OwnsOf DEF WorkerStarts, TypeOK
    <2>2. OneOwner'
      BY <1>1, <1>4, <2>1 DEF WorkerStarts, OneOwner
    <2>3. QED
      BY <1>1, <1>4, <2>2
      DEF WorkerStarts, OneLockObject, TypeOK, RefsAgree, JobsFit, Referenced, Kept
  <1>5. ASSUME NEW c \in Coros, WorkerAcquires(c) PROVE OneLockObject'
    <2>1. pc[c] \in {"waiting", "draining"} /\ ref[c] = registry /\ registry \in Locks
          /\ c \in Users
      BY <1>1, <1>5 DEF WorkerAcquires, TypeOK, RefsAgree, JobsFit, Users
    <2>2. ~locked[registry] /\ locked' = [locked EXCEPT ![registry] = TRUE]
      BY <1>5, <2>1 DEF WorkerAcquires
    <2>3. \A v \in Users : ~Owns(v)
      BY <1>1, <2>2 DEF OneOwner
    <2>4. \A v \in Users : Owns(v)' => v = c
      BY <1>1, <1>5, <2>3, OwnsOf DEF WorkerAcquires, TypeOK
    <2>5. OneOwner'
      BY <1>1, <1>5, <2>1, <2>2, <2>4 DEF OneOwner, WorkerAcquires, TypeOK
    <2>6. QED
      BY <1>1, <1>5, <2>1, <2>2, <2>5
      DEF WorkerAcquires, OneLockObject, TypeOK, RefsAgree, JobsFit, Referenced, Kept
  <1>6. ASSUME NEW c \in Coros, Resume(c) PROVE OneLockObject'
    <2>1. c \in Users
      BY DEF Users
    <2>2. \A v \in Users : Owns(v)' <=> Owns(v)
      BY <1>1, <1>6, <2>1, OwnsOf DEF Resume, TypeOK
    <2>3. OneOwner'
      BY <1>1, <1>6, <2>2 DEF Resume, OneOwner
    <2>4. QED
      BY <1>1, <1>6, <2>1, <2>3
      DEF Resume, OneLockObject, TypeOK, RefsAgree, JobsFit, Referenced, Kept, Users
  <1>7. ASSUME NEW c \in Coros, Cancel(c) PROVE OneLockObject'
    <2>1. c \in Users
      BY DEF Users
    <2>2. \A v \in Users : Owns(v)' <=> Owns(v)
      BY <1>1, <1>7, <2>1, OwnsOf DEF Cancel, TypeOK
    <2>3. OneOwner'
      BY <1>1, <1>7, <2>2 DEF Cancel, OneOwner
    <2>4. QED
      BY <1>1, <1>7, <2>1, <2>3
      DEF Cancel, OneLockObject, TypeOK, RefsAgree, JobsFit, Referenced, Kept, Users
  <1>8. ASSUME NEW c \in Coros, Drained(c) PROVE OneLockObject'
    <2>1. c \in Users /\ pc[c] # "idle" /\ Owns(c)
      BY <1>8, OwnsOf DEF Drained, Users
    <2>2. Leave(c, FALSE) /\ orphans' = orphans /\ job' = [job EXCEPT ![c] = "none"]
      BY <1>8 DEF Drained
    <2> HIDE DEF Leave
    <2>3. orphans' \subseteq orphans \cup (Coros \X {registry})
      BY <2>2
    <2>4. /\ pc' \in [Users -> {"idle", "waiting", "draining", "critical"}]
          /\ ref' \in [Users -> Locks \cup {NoLock}]
          /\ registry' \in Locks \cup {NoLock}
          /\ locked' \in [Locks -> BOOLEAN]
          /\ orphans' \subseteq (Coros \X Locks)
          /\ RefsAgree'
          /\ pc' = [pc EXCEPT ![c] = "idle"]
          /\ registry \in Locks /\ locked' = [locked EXCEPT ![registry] = FALSE]
          /\ \A v \in Users \ {c} : pc[v] # "idle" => registry' = registry
      BY <2>1, <2>2, <2>3, LeaveAgrees
    <2>5. JobsFit' /\ OneOwner'
      BY <2>1, <2>2, <2>4, LeaverOwns
    <2>6. QED
      BY <1>1, <2>2, <2>4, <2>5 DEF OneLockObject, TypeOK
  <1>9. ASSUME NEW c \in Coros, CancelAgain(c) PROVE OneLockObject'
    <2>1. c \in Users /\ pc[c] # "idle"
      BY <1>9 DEF CancelAgain, Users
    <2>2. ref[c] = registry /\ registry \in Locks
      BY <1>1, <2>1 DEF RefsAgree, TypeOK
    <2>3. Leave(c, locked[registry]) /\ job' = [job EXCEPT ![c] = "none"]
      BY <1>9, <2>2 DEF CancelAgain
    <2>4. orphans' \subseteq orphans \cup (Coros \X {registry})
      BY <1>9, <2>2 DEF CancelAgain
    <2>5. locked[registry] \in BOOLEAN
      BY <1>1, <2>2 DEF TypeOK
    <2> HIDE DEF Leave
    <2>6. /\ pc' \in [Users -> {"idle", "waiting", "draining", "critical"}]
          /\ ref' \in [Users -> Locks \cup {NoLock}]
          /\ registry' \in Locks \cup {NoLock}
          /\ locked' \in [Locks -> BOOLEAN]
          /\ orphans' \subseteq (Coros \X Locks)
          /\ RefsAgree'
          /\ pc' = [pc EXCEPT ![c] = "idle"]
          /\ registry \in Locks /\ locked' = [locked EXCEPT ![registry] = locked[registry]]
          /\ \A v \in Users \ {c} : pc[v] # "idle" => registry' = registry
      BY <2>1, <2>3, <2>4, <2>5, LeaveAgrees
    <2>7. JobsFit' /\ OneOwner'
      BY <2>1, <2>3, <2>5, <2>6, LeaverOwns
    <2>8. QED
      BY <1>1, <2>3, <2>6, <2>7 DEF OneLockObject, TypeOK
  <1>10. ASSUME NEW c \in Coros, NEW l \in Locks, OrphanAcquires(c, l) PROVE OneLockObject'
    <2>1. l = registry /\ registry # NoLock
      BY <1>1, <1>2, <1>10 DEF OrphanAcquires, RefsAgree
    <2>2. /\ ~locked[registry] /\ locked' = [locked EXCEPT ![registry] = TRUE]
          /\ orphans' \subseteq orphans
          /\ pc' = pc /\ ref' = ref /\ job' = job
          /\ registry' = IF Kept(registry, ref', orphans') THEN registry ELSE NoLock
      BY <1>10, <2>1 DEF OrphanAcquires, Collect
    <2>3. \A v \in Users : ~Owns(v)'
      BY <1>1, <2>2, OwnsOf DEF OneOwner
    <2>4. OneOwner'
      BY <2>3 DEF OneOwner
    <2>5. \A v \in Users : pc[v] # "idle" => registry' = registry
      <3>1. \A v \in Users : pc[v] # "idle" => ref'[v] = registry
        BY <1>1, <2>2 DEF RefsAgree
      <3>2. QED
        BY <2>2, <3>1 DEF Kept
    <2>6. \A o \in orphans' : o[2] = registry'
      <3>1. SUFFICES ASSUME NEW o \in orphans' PROVE o[2] = registry /\ registry' = registry
        OBVIOUS
      <3>2. o[2] = registry
        BY <1>1, <2>2 DEF RefsAgree
      <3>3. PICK d \in Coros : o = <<d, registry>>
        BY <1>1, <2>2, <3>2 DEF TypeOK
      <3>4. QED
        BY <2>2, <3>2, <3>3 DEF Kept
    <2>7. RefsAgree'
      BY <1>1, <2>1, <2>2, <2>5, <2>6 DEF RefsAgree, Referenced
    <2>8. TypeOK' /\ JobsFit'
      BY <1>1, <2>1, <2>2 DEF TypeOK, JobsFit
    <2>9. QED
      BY <2>4, <2>7, <2>8 DEF OneLockObject
  <1>11. ASSUME NEW c \in Coros, Release(c) PROVE OneLockObject'
    <2>1. c \in Users /\ pc[c] # "idle" /\ Owns(c)
      BY <1>11, OwnsOf DEF Release, Users
    <2>2. Leave(c, FALSE) /\ orphans' = orphans /\ job' = job
      BY <1>11 DEF Release
    <2>3. job[c] = "none" /\ job' = [job EXCEPT ![c] = "none"]
      BY <1>1, <1>11, <2>2 DEF Release, JobsFit, TypeOK
    <2> HIDE DEF Leave
    <2>4. orphans' \subseteq orphans \cup (Coros \X {registry})
      BY <2>2
    <2>5. /\ pc' \in [Users -> {"idle", "waiting", "draining", "critical"}]
          /\ ref' \in [Users -> Locks \cup {NoLock}]
          /\ registry' \in Locks \cup {NoLock}
          /\ locked' \in [Locks -> BOOLEAN]
          /\ orphans' \subseteq (Coros \X Locks)
          /\ RefsAgree'
          /\ pc' = [pc EXCEPT ![c] = "idle"]
          /\ registry \in Locks /\ locked' = [locked EXCEPT ![registry] = FALSE]
          /\ \A v \in Users \ {c} : pc[v] # "idle" => registry' = registry
      BY <2>1, <2>2, <2>4, LeaveAgrees
    <2>6. JobsFit' /\ OneOwner'
      BY <2>1, <2>3, <2>5, LeaverOwns
    <2>7. QED
      BY <1>1, <2>2, <2>5, <2>6 DEF OneLockObject, TypeOK
  <1>12. ASSUME NEW t \in SyncThreads, SyncLookup(t) PROVE OneLockObject'
    <2>1. PICK l \in Locks : Lookup(t, l)
      BY <1>12 DEF SyncLookup
    <2>2. job' = job /\ orphans' = orphans /\ t \in Users /\ t \notin Coros
      BY <1>2, <1>12 DEF SyncLookup, Users
    <2> HIDE DEF Lookup
    <2>3. /\ pc' \in [Users -> {"idle", "waiting", "draining", "critical"}]
          /\ ref' \in [Users -> Locks \cup {NoLock}]
          /\ registry' \in Locks \cup {NoLock}
          /\ locked' \in [Locks -> BOOLEAN]
          /\ RefsAgree'
          /\ pc[t] = "idle" /\ pc' = [pc EXCEPT ![t] = "waiting"]
          /\ registry # NoLock => registry' = registry /\ locked' = locked
          /\ registry = NoLock => ~locked'[registry'] /\ \A v \in Users : pc[v] = "idle"
      BY <2>1, <2>2, LookupAgrees
    <2>4. JobsFit'
      BY <1>1, <2>2, <2>3 DEF JobsFit, TypeOK, Users
    <2>5. \A v \in Users : Owns(v)' <=> Owns(v)
      BY <1>1, <2>2, <2>3, OwnsOf DEF TypeOK, Users
    <2>6. \A v \in Users : Owns(v) => pc[v] # "idle"
      BY <1>1, OwnsOf DEF JobsFit
    <2>7. \A v \in Users : Owns(v) => locked'[registry']
      BY <1>1, <2>3, <2>6 DEF OneOwner
    <2>8. OneOwner'
      BY <1>1, <2>5, <2>7 DEF OneOwner
    <2>9. TypeOK'
      BY <1>1, <2>2, <2>3 DEF TypeOK
    <2>10. QED
      BY <2>3, <2>4, <2>8, <2>9 DEF OneLockObject
  <1>13. ASSUME NEW t \in SyncThreads, SyncAcquire(t) PROVE OneLockObject'
    <2>1. t \in Users /\ t \notin Coros /\ ref[t] = registry /\ registry \in Locks
      BY <1>1, <1>2, <1>13 DEF SyncAcquire, TypeOK, RefsAgree, Users
    <2>2. ~locked[registry] /\ locked' = [locked EXCEPT ![registry] = TRUE]
      BY <1>13, <2>1 DEF SyncAcquire
    <2>3. \A v \in Users : ~Owns(v)
      BY <1>1, <2>2 DEF OneOwner
    <2>4. \A v \in Users : Owns(v)' => v = t
      BY <1>1, <1>13, <2>3, OwnsOf DEF SyncAcquire, TypeOK
    <2>5. OneOwner'
      BY <1>1, <1>13, <2>1, <2>2, <2>4 DEF OneOwner, SyncAcquire, TypeOK
    <2>6. QED
      BY <1>1, <1>13, <2>1, <2>2, <2>5
      DEF SyncAcquire, OneLockObject, TypeOK, RefsAgree, JobsFit, Referenced, Kept
  <1>14. ASSUME NEW t \in SyncThreads, SyncRelease(t) PROVE OneLockObject'
    <2>1. t \in Users /\ t \notin Coros /\ pc[t] # "idle" /\ Owns(t)
      BY <1>2, <1>14, OwnsOf DEF SyncRelease, Users
    <2>2. Leave(t, FALSE) /\ orphans' = orphans /\ job' = job
      BY <1>14 DEF SyncRelease
    <2> HIDE DEF Leave
    <2>3. orphans' \subseteq orphans \cup (Coros \X {registry})
      BY <2>2
    <2>4. /\ pc' \in [Users -> {"idle", "waiting", "draining", "critical"}]
          /\ ref' \in [Users -> Locks \cup {NoLock}]
          /\ registry' \in Locks \cup {NoLock}
          /\ locked' \in [Locks -> BOOLEAN]
          /\ orphans' \subseteq (Coros \X Locks)
          /\ RefsAgree'
          /\ pc' = [pc EXCEPT ![t] = "idle"]
          /\ registry \in Locks /\ locked' = [locked EXCEPT ![registry] = FALSE]
          /\ \A v \in Users \ {t} : pc[v] # "idle" => registry' = registry
      BY <2>1, <2>2, <2>3, LeaveAgrees
    <2>5. JobsFit' /\ OneOwner'
      BY <2>1, <2>2, <2>4, LeaverOwns
    <2>6. QED
      BY <1>1, <2>2, <2>4, <2>5 DEF OneLockObject, TypeOK
  <1>15. CASE UNCHANGED vars
    BY <1>1, <1>15 DEF vars, OneLockObject, TypeOK, RefsAgree, JobsFit, OneOwner,
                       Owns, Referenced, Kept
  <1>16. QED
    BY <1>3, <1>4, <1>5, <1>6, <1>7, <1>8, <1>9, <1>10, <1>11, <1>12, <1>13, <1>14, <1>15
    DEF Next, CoroStep, SyncStep

-----------------------------------------------------------------------------
(* Only an abandoned acquisition leaves a locked lock without an owner *)

Abandons == \E c \in Coros : CancelAgain(c) \/ \E l \in Locks : OrphanAcquires(c, l)

LEMMA StepOwned ==
  OneLockObject /\ LockHasReleaser /\ [Next]_vars /\ ~Abandons => LockHasReleaser'
  <1> SUFFICES ASSUME OneLockObject, LockHasReleaser, [Next]_vars, ~Abandons
               PROVE LockHasReleaser'
    OBVIOUS
  <1>1. TypeOK /\ RefsAgree /\ JobsFit /\ OneOwner
    BY DEF OneLockObject
  <1>2. Coros \cap SyncThreads = {}
    BY CheckpointLockAssumption
  <1>3. ASSUME NEW u \in Users, NEW l \in Locks, Lookup(u, l), orphans' = orphans,
               \A v \in Users : Owns(v)' <=> Owns(v)
        PROVE  LockHasReleaser'
    <2>1. /\ registry # NoLock => registry' = registry /\ locked' = locked
          /\ registry = NoLock => ~locked'[registry']
      BY <1>3, LookupAgrees
    <2>2. QED
      BY <1>1, <1>3, <2>1 DEF LockHasReleaser
  <1>4. ASSUME NEW u \in Users, pc[u] # "idle", Leave(u, FALSE), orphans' = orphans
        PROVE  LockHasReleaser'
    <2>1. orphans' \subseteq orphans \cup (Coros \X {registry})
      BY <1>4
    <2>2. /\ registry \in Locks /\ locked' = [locked EXCEPT ![registry] = FALSE]
          /\ registry' # NoLock => registry' = registry
      BY <1>4, <2>1, LeaveAgrees
    <2>3. QED
      BY <1>1, <2>2 DEF LockHasReleaser, TypeOK
  <1>5. ASSUME NEW c \in Coros, CoroStep(c) PROVE LockHasReleaser'
    <2>1. c \in Users
      BY DEF Users
    <2>2. CASE Acquire(c)
      <3>1. PICK l \in Locks : Lookup(c, l)
        BY <2>2 DEF Acquire
      <3>2. /\ job[c] = "none" /\ job' = [job EXCEPT ![c] = "queued"]
            /\ orphans' = orphans /\ pc[c] = "idle" /\ pc' = [pc EXCEPT ![c] = "waiting"]
        BY <2>2, <3>1 DEF Acquire, Lookup
      <3>3. \A v \in Users : Owns(v)' <=> Owns(v)
        BY <1>1, <3>2, OwnsOf DEF TypeOK, Users
      <3>4. QED
        BY <1>3, <2>1, <3>1, <3>2, <3>3
    <2>3. CASE WorkerStarts(c) \/ Resume(c) \/ Cancel(c)
      <3>1. \A v \in Users : Owns(v)' <=> Owns(v)
        BY <1>1, <2>1, <2>3, OwnsOf DEF WorkerStarts, Resume, Cancel, TypeOK
      <3>2. QED
        BY <1>1, <2>3, <3>1 DEF WorkerStarts, Resume, Cancel, LockHasReleaser
    <2>4. CASE WorkerAcquires(c)
      <3>1. Owns(c)'
        BY <1>1, <2>1, <2>4, OwnsOf DEF WorkerAcquires, TypeOK
      <3>2. QED
        BY <2>1, <3>1 DEF LockHasReleaser
    <2>5. CASE Drained(c) \/ Release(c)
      BY <1>4, <2>1, <2>5 DEF Drained, Release
    <2>6. ~CancelAgain(c) /\ ~\E l \in Locks : OrphanAcquires(c, l)
      BY DEF Abandons
    <2>7. QED
      BY <1>5, <2>2, <2>3, <2>4, <2>5, <2>6 DEF CoroStep
  <1>6. ASSUME NEW t \in SyncThreads, SyncStep(t) PROVE LockHasReleaser'
    <2>1. t \in Users /\ t \notin Coros
      BY <1>2 DEF Users
    <2>2. CASE SyncLookup(t)
      <3>1. PICK l \in Locks : Lookup(t, l)
        BY <2>2 DEF SyncLookup
      <3>2. /\ job' = job /\ orphans' = orphans
            /\ pc[t] = "idle" /\ pc' = [pc EXCEPT ![t] = "waiting"]
        BY <2>2, <3>1 DEF SyncLookup, Lookup
      <3>3. \A v \in Users : Owns(v)' <=> Owns(v)
        BY <1>1, <3>2, OwnsOf DEF TypeOK, Users
      <3>4. QED
        BY <1>3, <2>1, <3>1, <3>2, <3>3
    <2>3. CASE SyncAcquire(t)
      <3>1. Owns(t)'
        BY <1>1, <2>1, <2>3, OwnsOf DEF SyncAcquire, TypeOK
      <3>2. QED
        BY <2>1, <3>1 DEF LockHasReleaser
    <2>4. CASE SyncRelease(t)
      BY <1>4, <2>1, <2>4 DEF SyncRelease
    <2>5. QED
      BY <1>6, <2>2, <2>3, <2>4 DEF SyncStep
  <1>7. CASE UNCHANGED vars
    BY <1>1, <1>7 DEF vars, LockHasReleaser, Owns
  <1>8. QED
    BY <1>5, <1>6, <1>7 DEF Next

\* While nobody is cancelled twice, no worker is abandoned.
LEMMA StepKeepsWorkers ==
  ASSUME ~DoubleCancels
  PROVE  orphans = {} /\ [Next]_vars => orphans' = {} /\ ~Abandons
  BY DEF Next, CoroStep, SyncStep, Acquire, WorkerStarts, WorkerAcquires, Resume,
         Cancel, Drained, CancelAgain, OrphanAcquires, Release, SyncLookup,
         SyncAcquire, SyncRelease, Abandons, vars

-----------------------------------------------------------------------------
(* The theorems *)

\* _lock_for_thread: whoever holds or waits refers to the one registered object, which
\* has at most one owner, however objects are collected and created again.
THEOREM Agreement == Spec => []OneLockObject
  <1>1. Init => OneLockObject
    BY InitHolds
  <1>2. QED
    BY <1>1, StepKeeps, PTL DEF Spec

\* checkpoint_thread_lock_sync/async: at most one user of either API is in the
\* critical section of a conversation, even if coroutines are cancelled twice.
THEOREM Exclusion == Spec => []MutualExclusion
  <1>1. OneLockObject => MutualExclusion
    BY OwnsOf DEF OneLockObject, OneOwner, MutualExclusion
  <1>2. QED
    BY <1>1, Agreement, PTL

\* acquire_checkpoint_thread_lock: whatever users, cancellations and collections
\* do, only an acquisition abandoned by a second cancellation wedges the lock.
THEOREM WedgedByAbandonment == Spec => OnlyAbandonmentWedges
  <1>1. OneLockObject /\ [Next]_vars =>
          [LockHasReleaser /\ ~LockHasReleaser' => Abandons]_vars
    BY StepOwned
  <1>2. QED
    BY <1>1, Agreement, PTL DEF Spec, OnlyAbandonmentWedges, Abandons

\* acquire_checkpoint_thread_lock: as long as a coroutine is cancelled only once
\* while it waits, a locked lock always has a user that will release it.
THEOREM Unwedged ==
  ASSUME ~DoubleCancels
  PROVE  Spec => []LockHasReleaser
  <1> DEFINE Tidy == orphans = {} /\ LockHasReleaser
  <1>1. Init => Tidy
    BY InitHolds
  <1>2. OneLockObject /\ Tidy /\ [Next]_vars => Tidy'
    BY StepOwned, StepKeepsWorkers
  <1>3. Tidy => LockHasReleaser
    OBVIOUS
  <1> HIDE DEF Tidy
  <1>4. QED
    BY <1>1, <1>2, <1>3, Agreement, PTL DEF Spec

-----------------------------------------------------------------------------
(* What is left of a sequence *)

\* The n-th position exists, for as many n as there are positions, and every position
\* is one of them.
LEMMA NthFacts ==
  ASSUME NEW m \in Nat, NEW P \in SUBSET (1..m)
  PROVE  /\ Cardinality(P) \in Nat
         /\ \A n \in 1..Cardinality(P) : Nth(P, n) \in P
         /\ \A n, k \in 1..Cardinality(P) : Nth(P, n) = Nth(P, k) => n = k
         /\ \A i \in P : \E n \in 1..Cardinality(P) : Nth(P, n) = i
<1> DEFINE upTo(i) == {j \in P : j <= i}
           rank == [i \in P |-> Cardinality(upTo(i))]
           ranks == 1..Cardinality(P)
<1>0. \A i \in P : i \in Nat
  OBVIOUS
<1>1. IsFiniteSet(P) /\ Cardinality(P) \in Nat
  <2>1. IsFiniteSet(1..m)
    BY FS_Interval
  <2>2. IsFiniteSet(P)
    BY <2>1, FS_Subset
  <2>3. QED
    BY <2>2, FS_CardinalityType
<1>2. IsFiniteSet(ranks) /\ Cardinality(ranks) = Cardinality(P)
  BY <1>1, FS_Interval
<1>3. ASSUME NEW i \in P
      PROVE  IsFiniteSet(upTo(i)) /\ Cardinality(upTo(i)) \in ranks
  <2>1. IsFiniteSet(upTo(i)) /\ Cardinality(upTo(i)) <= Cardinality(P)
    BY <1>1, FS_Subset
  <2>2. upTo(i) # {}
    BY <1>0, <1>3
  <2>3. Cardinality(upTo(i)) \in Nat /\ Cardinality(upTo(i)) # 0
    BY <2>1, <2>2, FS_EmptySet, FS_CardinalityType
  <2>4. QED
    BY <1>1, <2>1, <2>3
<1>4. ASSUME NEW i \in P, NEW k \in P, i < k
      PROVE  Cardinality(upTo(i)) # Cardinality(upTo(k))
  <2> k \in Nat /\ i \in Nat /\ i < k
    BY <1>0, <1>4
  <2>1. upTo(i) \in SUBSET upTo(k)
    <3>1. ASSUME NEW j \in P, j <= i
          PROVE  j <= k
      BY <1>0, <3>1
    <3>2. QED
      BY <3>1
  <2>2. k \in upTo(k) /\ k \notin upTo(i)
    OBVIOUS
  <2>3. QED
    BY <1>3, <2>1, <2>2, FS_Subset
<1>5. ASSUME NEW i \in P, NEW k \in P, Cardinality(upTo(i)) = Cardinality(upTo(k))
      PROVE  i = k
  <2>1. i < k \/ k < i \/ i = k
    BY <1>0
  <2>2. QED
    BY <1>4, <1>5, <2>1
<1>6. rank \in Injection(P, ranks)
  <2>1. rank \in [P -> ranks]
    BY <1>3
  <2>2. \A i, k \in P : rank[i] = rank[k] => i = k
    BY <1>5
  <2>3. QED
    BY <2>1, <2>2 DEF Injection, IsInjective
<1>7. rank \in Surjection(P, ranks)
  BY <1>2, <1>6, <1>1, FS_Injection
<1>8. \A n \in ranks : \E i \in P : Cardinality(upTo(i)) = n
  BY <1>7 DEF Surjection
<1>9. \A n \in ranks : Nth(P, n) \in P /\ Cardinality(upTo(Nth(P, n))) = n
  BY <1>8 DEF Nth
<1>10. \A i \in P : Nth(P, Cardinality(upTo(i))) = i
  BY <1>3, <1>5, <1>9
<1> QED
  BY <1>1, <1>3, <1>9, <1>10

LEMMA OnlyFacts ==
  ASSUME NEW A, NEW s \in Seq(A), NEW S
  PROVE  /\ Only(s, S) \in Seq(A)
         /\ ToSet(Only(s, S)) = ToSet(s) \cap S
         /\ \A i, j \in DOMAIN Only(s, S) : \E k, l \in DOMAIN s :
              Only(s, S)[i] = s[k] /\ Only(s, S)[j] = s[l] /\ (k = l => i = j)
<1> DEFINE P == Places(s, S)
           t == Only(s, S)
<1>1. DOMAIN s = 1..Len(s) /\ Len(s) \in Nat /\ \A k \in DOMAIN s : s[k] \in A
  BY LenProperties, ElementOfSeq
<1>2. P \in SUBSET (1..Len(s)) /\ \A k \in DOMAIN s : k \in P <=> s[k] \in S
  BY <1>1 DEF Places
<1>3. /\ Cardinality(P) \in Nat
      /\ \A n \in 1..Cardinality(P) : Nth(P, n) \in P
      /\ \A n, k \in 1..Cardinality(P) : Nth(P, n) = Nth(P, k) => n = k
      /\ \A i \in P : \E n \in 1..Cardinality(P) : Nth(P, n) = i
  BY <1>1, <1>2, NthFacts
<1>4. /\ DOMAIN t = 1..Cardinality(P)
      /\ t = [n \in 1..Cardinality(P) |-> s[Nth(P, n)]]
  BY DEF Only
<1> HIDE DEF P, t
<1>5. \A n \in 1..Cardinality(P) : t[n] = s[Nth(P, n)] /\ Nth(P, n) \in DOMAIN s
                                   /\ t[n] \in S /\ t[n] \in A
  BY <1>1, <1>2, <1>3, <1>4
<1>6. t \in Seq(A)
  <2>1. t \in [1..Cardinality(P) -> A]
    BY <1>4, <1>5
  <2>2. QED
    BY <1>3, <2>1, SeqDef
<1>7. ToSet(t) = ToSet(s) \cap S
  <2>1. ASSUME NEW e \in ToSet(t)
        PROVE  e \in ToSet(s) /\ e \in S
    BY <1>4, <1>5 DEF ToSet
  <2>2. ASSUME NEW e \in ToSet(s), e \in S
        PROVE  e \in ToSet(t)
    <3>1. PICK k \in DOMAIN s : s[k] = e
      BY DEF ToSet
    <3>2. PICK n \in 1..Cardinality(P) : Nth(P, n) = k
      BY <1>2, <1>3, <2>2, <3>1
    <3>3. QED
      BY <1>4, <1>5, <3>1, <3>2 DEF ToSet
  <2>3. QED
    BY <2>1, <2>2
<1>8. ASSUME NEW i \in DOMAIN t, NEW j \in DOMAIN t
      PROVE  \E k, l \in DOMAIN s : t[i] = s[k] /\ t[j] = s[l] /\ (k = l => i = j)
  BY <1>3, <1>4, <1>5
<1> QED
  BY <1>6, <1>7, <1>8 DEF t

\* A sequence without repetitions keeps none, and loses only what it should.
LEMMA OnlyInjective ==
  ASSUME NEW A, NEW s \in Seq(A), NEW S, IsInjective(s)
  PROVE  IsInjective(Only(s, S))
BY OnlyFacts DEF IsInjective

LEMMA WithoutFacts ==
  ASSUME NEW A, NEW s \in Seq(A), NEW S
  PROVE  /\ Without(s, S) \in Seq(A)
         /\ ToSet(Without(s, S)) = ToSet(s) \ S
         /\ IsInjective(s) => IsInjective(Without(s, S))
<1>1. ToSet(s) \cap (ToSet(s) \ S) = ToSet(s) \ S
  OBVIOUS
<1> QED
  BY <1>1, OnlyFacts, OnlyInjective DEF Without

\* What occurs once still does.
LEMMA WithoutOnce ==
  ASSUME NEW A, NEW s \in Seq(A), NEW S, NEW C,
         \A i, j \in DOMAIN s : s[i] = s[j] /\ s[i] \in C => i = j
  PROVE  \A i, j \in DOMAIN Without(s, S) :
           Without(s, S)[i] = Without(s, S)[j] /\ Without(s, S)[i] \in C => i = j
<1> DEFINE t == Only(s, ToSet(s) \ S)
<1>1. \A i, j \in DOMAIN t : \E k, l \in DOMAIN s :
        t[i] = s[k] /\ t[j] = s[l] /\ (k = l => i = j)
  BY OnlyFacts
<1> HIDE DEF t
<1>2. \A i, j \in DOMAIN t : t[i] = t[j] /\ t[i] \in C => i = j
  BY <1>1
<1> QED
  BY <1>2 DEF t, Without

LEMMA AppendFacts ==
  ASSUME NEW A, NEW s \in Seq(A), NEW e \in A
  PROVE  /\ Append(s, e) \in Seq(A)
         /\ ToSet(Append(s, e)) = ToSet(s) \cup {e}
         /\ IsInjective(s) /\ e \notin ToSet(s) => IsInjective(Append(s, e))
<1> DEFINE t == Append(s, e)
<1>1. /\ t \in Seq(A) /\ Len(t) = Len(s) + 1 /\ Len(s) \in Nat
      /\ \A i \in 1..Len(s) : t[i] = s[i]
      /\ t[Len(s) + 1] = e
  BY AppendProperties, LenProperties
<1>2. DOMAIN t = 1..(Len(s) + 1) /\ DOMAIN s = 1..Len(s)
  BY <1>1, LenProperties
<1> HIDE DEF t
<1>3. \A i \in DOMAIN t : i \in DOMAIN s \/ i = Len(s) + 1
  BY <1>1, <1>2
<1>4. Len(s) + 1 \in DOMAIN t /\ \A i \in DOMAIN s : i \in DOMAIN t
  BY <1>1, <1>2
<1>5. \A i \in DOMAIN s : t[i] = s[i]
  BY <1>1, <1>2
<1>6. ToSet(t) = ToSet(s) \cup {e}
  <2>1. ToSet(t) \subseteq ToSet(s) \cup {e}
    BY <1>1, <1>3, <1>5 DEF ToSet
  <2>2. e \in ToSet(t) /\ ToSet(s) \subseteq ToSet(t)
    BY <1>1, <1>4, <1>5 DEF ToSet
  <2>3. QED
    BY <2>1, <2>2
<1>7. ASSUME IsInjective(s), e \notin ToSet(s)
      PROVE  IsInjective(t)
  <2>1. \A i \in DOMAIN s : s[i] # e
    BY <1>7 DEF ToSet
  <2>2. QED
    BY <1>1, <1>3, <1>5, <1>7, <2>1 DEF IsInjective
<1> QED
  BY <1>1, <1>6, <1>7 DEF t

LEMMA HeadTailFacts ==
  ASSUME NEW A, NEW s \in Seq(A), s # <<>>
  PROVE  /\ Head(s) \in A /\ Tail(s) \in Seq(A)
         /\ Head(s) \in ToSet(s)
         /\ ToSet(s) = {Head(s)} \cup ToSet(Tail(s))
         /\ Len(s) > 1 <=> Tail(s) # <<>>
<1>1. /\ Head(s) = s[1] /\ Head(s) \in A /\ Tail(s) \in Seq(A)
      /\ Len(Tail(s)) = Len(s) - 1 /\ Len(s) \in Nat \ {0}
      /\ \A i \in 1..Len(Tail(s)) : Tail(s)[i] = s[i + 1]
  BY HeadTailProperties, EmptySeq
<1>2. DOMAIN s = 1..Len(s) /\ DOMAIN Tail(s) = 1..(Len(s) - 1)
  BY <1>1, LenProperties
<1>3. \A i \in 1..Len(s) : i = 1 \/ (i - 1 \in 1..(Len(s) - 1) /\ s[i] = Tail(s)[i - 1])
  BY <1>1
<1>4. \A i \in 1..(Len(s) - 1) : i + 1 \in 1..Len(s) /\ Tail(s)[i] = s[i + 1]
  BY <1>1
<1>5. ToSet(s) \subseteq {Head(s)} \cup ToSet(Tail(s))
  <2>1. ASSUME NEW i \in 1..Len(s)
        PROVE  s[i] \in {Head(s)} \cup ToSet(Tail(s))
    <3>1. CASE i = 1
      BY <1>1, <3>1
    <3>2. CASE i - 1 \in DOMAIN Tail(s) /\ s[i] = Tail(s)[i - 1]
      BY <3>2 DEF ToSet
    <3>3. QED
      BY <1>2, <1>3, <3>1, <3>2
  <2>2. QED
    BY <1>2, <2>1 DEF ToSet
<1>6. Head(s) \in ToSet(s)
  BY <1>1, <1>2 DEF ToSet
<1>7. ToSet(Tail(s)) \subseteq ToSet(s)
  BY <1>2, <1>4 DEF ToSet
<1>8. Len(s) > 1 <=> Tail(s) # <<>>
  <2>1. Tail(s) = <<>> => Len(Tail(s)) = 0
    BY EmptySeq
  <2>2. Tail(s) # <<>> => Len(Tail(s)) \in Nat \ {0}
    BY <1>1, EmptySeq
  <2>3. QED
    BY <1>1, <2>1, <2>2
<1> QED
  BY <1>1, <1>5, <1>6, <1>7, <1>8

\* A sequence that is cut into its first n elements and the others.
LEMMA CutFacts ==
  ASSUME NEW A, NEW s \in Seq(A), NEW n \in 0..Len(s)
  PROVE  /\ SubSeq(s, 1, n) \in Seq(A) /\ SubSeq(s, n + 1, Len(s)) \in Seq(A)
         /\ ToSet(s) = ToSet(SubSeq(s, 1, n)) \cup ToSet(SubSeq(s, n + 1, Len(s)))
         /\ SubSeq(s, 1, n) = <<>> <=> n = 0
         /\ IsInjective(s) => IsInjective(SubSeq(s, n + 1, Len(s)))
<1> DEFINE front == SubSeq(s, 1, n)
           back == SubSeq(s, n + 1, Len(s))
<1>1. Len(s) \in Nat /\ DOMAIN s = 1..Len(s) /\ \A i \in 1..Len(s) : s[i] \in A
  BY LenProperties, ElementOfSeq
<1>2. /\ front \in Seq(A) /\ Len(front) = n
      /\ \A i \in 1..n : front[i] = s[i]
  <2>1. \A i \in 1..n : s[i] \in A
    BY <1>1
  <2>2. QED
    BY <1>1, <2>1, SubSeqProperties
<1>3. /\ back \in Seq(A) /\ Len(back) = Len(s) - n
      /\ \A i \in 1..(Len(s) - n) : back[i] = s[n + i]
  <2>1. \A i \in (n + 1)..Len(s) : s[i] \in A
    BY <1>1
  <2>2. /\ back \in Seq(A)
        /\ Len(back) = IF n + 1 <= Len(s) THEN Len(s) - (n + 1) + 1 ELSE 0
        /\ \A i \in 1..(Len(s) - (n + 1) + 1) : back[i] = s[(n + 1) + i - 1]
    BY <1>1, <2>1, SubSeqProperties
  <2> HIDE DEF back
  <2>3. Len(back) = Len(s) - n
    <3>1. n \in Nat /\ Len(s) \in Nat /\ n <= Len(s)
      BY <1>1
    <3>2. CASE n + 1 <= Len(s)
      <4>1. Len(back) = Len(s) - (n + 1) + 1
        BY <2>2, <3>2
      <4>2. QED
        BY <1>1, <3>1, <4>1
    <3>3. CASE n = Len(s)
      <4>1. ~(n + 1 <= Len(s)) /\ Len(s) - n = 0
        BY <1>1, <3>1, <3>3
      <4>2. QED
        BY <2>2, <4>1
    <3>4. n + 1 <= Len(s) \/ n = Len(s)
      BY <3>1
    <3>5. QED
      BY <3>2, <3>3, <3>4
  <2>4. ASSUME NEW i \in 1..(Len(s) - n)
        PROVE  back[i] = s[n + i]
    <3>1. i \in 1..(Len(s) - (n + 1) + 1) /\ (n + 1) + i - 1 = n + i
      BY <1>1
    <3>2. QED
      BY <2>2, <3>1
  <2>5. QED
    BY <2>2, <2>3, <2>4
<1>4. DOMAIN front = 1..n /\ DOMAIN back = 1..(Len(s) - n)
  BY <1>2, <1>3, LenProperties
<1>5. front = <<>> <=> n = 0
  BY <1>2, EmptySeq
<1> HIDE DEF front, back
<1>6. ToSet(s) = ToSet(front) \cup ToSet(back)
  <2>1. ASSUME NEW i \in 1..Len(s)
        PROVE  s[i] \in ToSet(front) \cup ToSet(back)
    <3>1. CASE i <= n
      BY <1>1, <1>2, <1>4, <3>1 DEF ToSet
    <3>2. CASE i > n
      <4>1. i - n \in 1..(Len(s) - n) /\ back[i - n] = s[i]
        BY <1>1, <1>3, <3>2
      <4>2. QED
        BY <1>4, <4>1 DEF ToSet
    <3>3. QED
      BY <1>1, <3>1, <3>2
  <2>2. \A i \in 1..n : front[i] \in ToSet(s)
    BY <1>1, <1>2 DEF ToSet
  <2>3. ASSUME NEW i \in 1..(Len(s) - n)
        PROVE  back[i] \in ToSet(s)
    <3>1. n + i \in 1..Len(s) /\ back[i] = s[n + i]
      BY <1>1, <1>3
    <3>2. QED
      BY <1>1, <3>1 DEF ToSet
  <2>4. QED
    BY <1>1, <1>4, <2>1, <2>2, <2>3 DEF ToSet
<1>7. ASSUME IsInjective(s)
      PROVE  IsInjective(back)
  <2>1. ASSUME NEW i \in 1..(Len(s) - n), NEW j \in 1..(Len(s) - n), back[i] = back[j]
        PROVE  i = j
    <3>1. n + i \in 1..Len(s) /\ n + j \in 1..Len(s) /\ s[n + i] = s[n + j]
      BY <1>1, <1>3, <2>1
    <3>2. n + i = n + j
      BY <1>1, <1>7, <3>1 DEF IsInjective
    <3>3. QED
      BY <3>2
  <2>2. QED
    BY <1>4, <2>1 DEF IsInjective
<1> QED
  BY <1>2, <1>3, <1>5, <1>6, <1>7 DEF front, back

LEMMA SetFacts ==
  ASSUME NEW A, NEW s \in Seq(A)
  PROVE  ToSet(s) \subseteq A /\ (ToSet(s) = {} <=> s = <<>>)
<1>1. Len(s) \in Nat /\ DOMAIN s = 1..Len(s) /\ \A i \in 1..Len(s) : s[i] \in A
  BY LenProperties, ElementOfSeq
<1>2. s # <<>> => 1 \in DOMAIN s
  BY <1>1, EmptySeq
<1>3. s = <<>> => DOMAIN s = {}
  BY <1>1, EmptySeq
<1> QED
  BY <1>1, <1>2, <1>3 DEF ToSet

-----------------------------------------------------------------------------
(* The invariant *)

\* A client has sessions to close exactly while it closes them.
Burdens(c) ==
  /\ at[c] \in {"idle", "guard", "starting", "calling"} => toClose[c] = <<>>
  /\ at[c] \in {"evicting", "closing"} \/ (at[c] = "stopping" /\ op[c] # "none")
       => toClose[c] # <<>>

\* Whoever makes room or starts a session holds the guard of its key, which is not in
\* the pool, and nobody else has the session it starts.
Creates(c) ==
  /\ at[c] \in {"evicting", "starting"} => guard[key[c]] = c /\ Pooled(key[c]) = {}
  /\ at[c] = "starting" =>
       own[c][1] = key[c] /\ \A d \in Client : own[c] \notin ToSet(toClose[d])

\* What the end of an operation says about the sessions it was for.
Outcome(c) ==
  /\ op[c] = "dead" => at[c] = "calling"
  /\ op[c] = "done" /\ at[c] \in Closers => actor[Head(toClose[c])] = "gone"
  /\ op[c] = "running" /\ at[c] \in Closers =>
       Head(toClose[c]) \in closing \/ actor[Head(toClose[c])] = "gone"
  /\ op[c] = "failed" /\ at[c] \in Closers /\ c \notin cancelled =>
       \A a \in ToSet(toClose[c]) : actor[a] = "gone"
  /\ op[c] = "failed" /\ at[c] = "starting" /\ c \notin cancelled => actor[own[c]] = "gone"

Mine(c) == Burdens(c) /\ Creates(c) /\ Outcome(c)

\* A call is in the queue of its session once, or in execution there.
Calls(a) ==
  /\ \A c \in Client : c \in ToSet(inbox[a]) \/ c = current[a] =>
       at[c] = "calling" /\ op[c] = "running" /\ own[c] = a
  /\ \A i, j \in DOMAIN inbox[a] : inbox[a][i] = inbox[a][j] /\ inbox[a][i] \in Client => i = j
  /\ current[a] \notin ToSet(inbox[a])

Alone == \A a, b \in ToSet(pool) : a[1] = b[1] => a = b

PoolInv ==
  /\ PoolTypeOK /\ Alone
  /\ \A c \in Client : Mine(c)
  /\ \A a \in Actor : Calls(a)

\* The client c does something, which leaves the others alone.
Acts(c) ==
  /\ \A d \in Client \ {c} :
       /\ at'[d] = at[d] /\ key'[d] = key[d] /\ own'[d] = own[d]
       /\ toClose'[d] = toClose[d] /\ op'[d] = op[d]
       /\ d \in cancelled' <=> d \in cancelled
       /\ \A k \in Key : guard[k] = d => guard'[k] = d
  /\ \A a \in ToSet(pool') : a \in ToSet(pool) \/ (at[c] = "starting" /\ a = own[c])
  /\ \A a \in ToSet(toClose'[c]) : a \in ToSet(toClose[c]) \/ a \in ToSet(pool)
  /\ \A a \in Actor : actor'[a] = actor[a] \/ (Fresh(a) /\ actor'[a] = "new")
  /\ UNCHANGED <<inbox, current, closing>>
  /\ at[c] = "calling" /\ op[c] = "running" =>
       at'[c] = "calling" /\ op'[c] = "running" /\ own'[c] = own[c]

\* It does not forget a session that may be open.
Minds(c) ==
  \A a \in Actor :
    a \in ToSet(pool) \/ a \in ToSet(toClose[c]) \/ (at[c] = "starting" /\ a = own[c]) =>
      \/ a \in ToSet(pool') \/ a \in ToSet(toClose'[c]) \/ a \in closing \/ actor[a] = "gone"
      \/ at'[c] = "starting" /\ a = own'[c]

\* It was cancelled, and is let go.
Quits(c) == c \in cancelled /\ at[c] # "idle" /\ at'[c] = "idle"

Fine(c) == Acts(c) /\ PoolTypeOK' /\ Alone' /\ Mine(c)' /\ (Minds(c) \/ Quits(c))

LEMMA OthersKept ==
  ASSUME PoolInv, NEW c \in Client, Acts(c), NEW d \in Client, d # c
  PROVE  Mine(d)'
<1>1. /\ at'[d] = at[d] /\ key'[d] = key[d] /\ own'[d] = own[d]
      /\ toClose'[d] = toClose[d] /\ op'[d] = op[d]
      /\ d \in cancelled' <=> d \in cancelled
      /\ \A k \in Key : guard[k] = d => guard'[k] = d
      /\ closing' = closing
  BY DEF Acts
<1>2. key[d] \in Key /\ own[d] \in Actor /\ toClose[d] \in Seq(Actor)
  BY DEF PoolInv, PoolTypeOK
<1>3. Burdens(d) /\ Creates(d) /\ Outcome(d)
  BY DEF PoolInv, Mine
<1>4. Burdens(d)'
  BY <1>1, <1>3 DEF Burdens
<1>5. Creates(d)'
  <2>1. ASSUME at[d] \in {"evicting", "starting"}
        PROVE  guard'[key'[d]] = d /\ Pooled(key[d])' = {}
    <3>1. guard[key[d]] = d /\ Pooled(key[d]) = {}
      BY <1>3, <2>1 DEF Creates
    <3>2. at[c] = "starting" => guard[key[c]] = c /\ own[c][1] = key[c]
      BY DEF PoolInv, Mine, Creates
    <3>3. at[c] = "starting" => own[c][1] # key[d]
      BY <3>1, <3>2
    <3>4. \A a \in ToSet(pool') : a[1] # key[d]
      BY <3>1, <3>3 DEF Acts, Pooled
    <3>5. QED
      BY <1>1, <1>2, <3>1, <3>4 DEF Pooled
  <2>2. ASSUME at[d] = "starting"
        PROVE  own[d][1] = key[d] /\ \A e \in Client : own[d] \notin ToSet(toClose'[e])
    <3>1. own[d][1] = key[d] /\ \A e \in Client : own[d] \notin ToSet(toClose[e])
      BY <1>3, <2>2 DEF Creates
    <3>2. own[d] \notin ToSet(pool)
      BY <1>3, <2>2, <3>1 DEF Creates, Pooled
    <3>3. QED
      BY <3>1, <3>2 DEF Acts
  <2>3. QED
    BY <1>1, <2>1, <2>2 DEF Creates
<1>6. Outcome(d)'
  <2>1. \A a \in ToSet(toClose[d]) : a \in Actor /\ actor'[a] = actor[a]
    BY <1>2, SetFacts DEF Acts, Fresh
  <2>2. at[d] = "starting" => actor'[own[d]] = actor[own[d]]
    BY <1>2 DEF Acts, Fresh
  <2>3. at[d] \in Closers /\ op[d] \in {"done", "running"} =>
          Head(toClose[d]) \in ToSet(toClose[d])
    BY <1>2, <1>3, HeadTailFacts DEF Burdens, Closers
  <2>4. QED
    BY <1>1, <1>3, <2>1, <2>2, <2>3 DEF Outcome
<1> QED
  BY <1>4, <1>5, <1>6 DEF Mine

LEMMA CallsKept ==
  ASSUME PoolInv, NEW c \in Client, Acts(c), NEW a \in Actor
  PROVE  Calls(a)'
<1>1. Calls(a)
  BY DEF PoolInv
<1>2. inbox' = inbox /\ current' = current
  BY DEF Acts
<1>3. ASSUME NEW d \in Client, at[d] = "calling", op[d] = "running", own[d] = a
      PROVE  at'[d] = "calling" /\ op'[d] = "running" /\ own'[d] = a
  BY <1>3 DEF Acts
<1> QED
  BY <1>1, <1>2, <1>3 DEF Calls

LEMMA FineKeeps ==
  ASSUME PoolInv, NEW c \in Client, Fine(c)
  PROVE  PoolInv'
BY OthersKept, CallsKept DEF Fine, PoolInv

\* Whatever the client leaves alone is looked after as before.
LEMMA FineMinds ==
  ASSUME PoolInv, NEW c \in Client, Fine(c), NEW a \in Actor, LookedAfter(a)
  PROVE  LookedAfter(a)' \/ Quits(c)
<1> SUFFICES ASSUME ~Quits(c)
             PROVE  LookedAfter(a)'
  OBVIOUS
<1>1. Minds(c) /\ Acts(c)
  BY DEF Fine
<1>2. CASE actor[a] \in {"new", "leaving", "gone"}
  BY <1>1, <1>2 DEF Acts, LookedAfter
<1>3. CASE a \in closing
  BY <1>1, <1>3 DEF Acts, LookedAfter
<1>4. ASSUME NEW d \in Client \ {c}, at[d] = "starting", a = own[d]
      PROVE  LookedAfter(a)'
  BY <1>1, <1>4 DEF Acts, LookedAfter, InUse
<1>5. ASSUME NEW d \in Client \ {c}, a \in ToSet(toClose[d])
      PROVE  LookedAfter(a)'
  BY <1>1, <1>5 DEF Acts, LookedAfter
<1>6. ASSUME a \in ToSet(pool) \/ a \in ToSet(toClose[c]) \/ (at[c] = "starting" /\ a = own[c])
      PROVE  LookedAfter(a)'
  <2>1. \/ a \in ToSet(pool') \/ a \in ToSet(toClose'[c]) \/ a \in closing \/ actor[a] = "gone"
        \/ at'[c] = "starting" /\ a = own'[c]
    BY <1>1, <1>6 DEF Minds
  <2>2. QED
    BY <1>1, <1>2, <1>3, <2>1 DEF LookedAfter, InUse
<1>7. \/ actor[a] \in {"new", "leaving", "gone"} \/ a \in closing
      \/ a \in ToSet(pool) \/ \E d \in Client : at[d] = "starting" /\ a = own[d]
      \/ \E d \in Client : a \in ToSet(toClose[d])
  BY DEF LookedAfter, InUse
<1> QED
  BY <1>2, <1>3, <1>4, <1>5, <1>6, <1>7

-----------------------------------------------------------------------------
(* What the clients do *)

LEMMA TouchedFacts ==
  ASSUME PoolInv, NEW a \in ToSet(pool)
  PROVE  /\ Touched(a) \in Seq(Actor) /\ IsInjective(Touched(a))
         /\ ToSet(Touched(a)) = ToSet(pool)
         /\ a \in Actor
<1>1. pool \in Seq(Actor) /\ IsInjective(pool) /\ a \in Actor
  BY SetFacts DEF PoolInv, PoolTypeOK
<1> DEFINE s == Without(pool, {a})
<1>2. s \in Seq(Actor) /\ IsInjective(s) /\ ToSet(s) = ToSet(pool) \ {a}
  BY <1>1, WithoutFacts
<1> HIDE DEF s
<1>3. /\ Append(s, a) \in Seq(Actor) /\ IsInjective(Append(s, a))
      /\ ToSet(Append(s, a)) = ToSet(s) \cup {a}
  BY <1>1, <1>2, AppendFacts
<1> QED
  BY <1>1, <1>2, <1>3 DEF s, Touched

\* The pool gives its oldest sessions away, and Excess of them.
LEMMA ExcessFacts ==
  ASSUME PoolInv
  PROVE  /\ Excess \in Nat /\ Excess \in 0..Len(pool)
         /\ SubSeq(pool, Excess + 1, Len(pool)) \in Seq(Actor)
         /\ IsInjective(SubSeq(pool, Excess + 1, Len(pool)))
         /\ SubSeq(pool, 1, Excess) \in Seq(Actor)
         /\ ToSet(pool) = ToSet(SubSeq(pool, 1, Excess))
                            \cup ToSet(SubSeq(pool, Excess + 1, Len(pool)))
         /\ SubSeq(pool, 1, Excess) = <<>> <=> Excess = 0
<1>1. pool \in Seq(Actor) /\ IsInjective(pool) /\ Len(pool) \in Nat
  BY LenProperties DEF PoolInv, PoolTypeOK
<1>2. Excess \in 0..Len(pool)
  BY <1>1, SessionPoolAssumption DEF Excess
<1> QED
  BY <1>1, <1>2, CutFacts

\* A new session has an identity that nobody uses.
LEMMA CreateFacts ==
  ASSUME NEW c \in Client, Create(c)
  PROVE  \E a \in Actor :
           /\ a[1] = key[c] /\ Fresh(a)
           /\ own' = [own EXCEPT ![c] = a]
           /\ actor' = [actor EXCEPT ![a] = "new"]
           /\ at' = [at EXCEPT ![c] = "starting"] /\ op' = [op EXCEPT ![c] = "sent"]
           /\ UNCHANGED <<inbox, current, closing>>
<1> DEFINE S == {b \in Actor : b[1] = key[c] /\ Fresh(b)}
           a == AnyOf(S)
<1>1. S # {}
  BY DEF Create
<1>2. a \in S
  BY <1>1 DEF AnyOf
<1>3. /\ own' = [own EXCEPT ![c] = a]
      /\ actor' = [actor EXCEPT ![a] = "new"]
      /\ at' = [at EXCEPT ![c] = "starting"] /\ op' = [op EXCEPT ![c] = "sent"]
      /\ UNCHANGED <<inbox, current, closing>>
  BY DEF Create, Submit
<1> QED
  BY <1>2, <1>3

LEMMA SomeFacts == AnyOf(Key) \in Key /\ AnyOf(Actor) \in Actor
<1>1. PICK k \in Key, i \in Identity : TRUE
  BY SessionPoolAssumption
<1>2. <<k, i>> \in Actor
  BY DEF Actor
<1> QED
  BY <1>1, <1>2 DEF AnyOf

LEMMA GetSessionFine ==
  ASSUME PoolInv, NEW c \in Client, NEW k \in Key, GetSession(c, k)
  PROVE  Fine(c)
<1>1. /\ at[c] = "idle" /\ key' = [key EXCEPT ![c] = k]
      /\ UNCHANGED <<guard, toClose, cancelled, actor, inbox, current, closing>>
  BY DEF GetSession, actorVars
<1>2. PoolTypeOK /\ Alone /\ Mine(c)
  BY DEF PoolInv
<1>3. CASE \E a \in Pooled(k) :
             pool' = Touched(a) /\ own' = [own EXCEPT ![c] = a] /\ Submit(c, "calling")
  <2>1. PICK a \in ToSet(pool) :
               pool' = Touched(a) /\ own' = [own EXCEPT ![c] = a] /\ Submit(c, "calling")
    BY <1>3 DEF Pooled
  <2>2. /\ pool' \in Seq(Actor) /\ IsInjective(pool') /\ ToSet(pool') = ToSet(pool)
        /\ a \in Actor
    BY <2>1, TouchedFacts
  <2>3. at' = [at EXCEPT ![c] = "calling"] /\ op' = [op EXCEPT ![c] = "sent"]
    BY <2>1 DEF Submit
  <2>4. PoolTypeOK'
    BY <1>1, <1>2, <2>1, <2>2, <2>3 DEF PoolTypeOK
  <2>5. at'[c] = "calling" /\ op'[c] = "sent" /\ toClose'[c] = <<>>
    BY <1>1, <1>2, <2>3 DEF PoolTypeOK, Mine, Burdens
  <2>6. Mine(c)'
    BY <2>5 DEF Mine, Burdens, Creates, Outcome, Closers
  <2>7. Acts(c)
    BY <1>1, <1>2, <2>1, <2>2, <2>3 DEF Acts, PoolTypeOK
  <2>8. Minds(c)
    BY <1>1, <2>2 DEF Minds
  <2>9. Alone'
    BY <1>2, <2>2 DEF Alone
  <2>10. QED
    BY <2>4, <2>6, <2>7, <2>8, <2>9 DEF Fine
<1>4. CASE Pooled(k) = {} /\ at' = [at EXCEPT ![c] = "guard"] /\ UNCHANGED <<pool, own, op>>
  <2>1. PoolTypeOK'
    BY <1>1, <1>2, <1>4 DEF PoolTypeOK
  <2>2. at'[c] = "guard" /\ op'[c] = op[c] /\ toClose'[c] = <<>>
    BY <1>1, <1>2, <1>4 DEF PoolTypeOK, Mine, Burdens
  <2>3. op[c] # "dead"
    BY <1>1, <1>2 DEF Mine, Outcome
  <2>4. Mine(c)'
    BY <2>2, <2>3 DEF Mine, Burdens, Creates, Outcome, Closers
  <2>5. Acts(c) /\ Minds(c) /\ Alone'
    BY <1>1, <1>2, <1>4 DEF Acts, PoolTypeOK, Minds, Alone
  <2>6. QED
    BY <2>1, <2>4, <2>5 DEF Fine
<1> QED
  BY <1>3, <1>4 DEF GetSession

\* The sessions that make room go from the pool to the client that needs it.
LEMMA EnterGuardFine ==
  ASSUME PoolInv, NEW c \in Client, EnterGuard(c)
  PROVE  Fine(c)
<1>1. at[c] = "guard" /\ guard[key[c]] = Nobody /\ UNCHANGED <<key, cancelled>>
  BY DEF EnterGuard
<1>2. /\ PoolTypeOK /\ Alone /\ Mine(c) /\ Nobody \notin Client /\ key[c] \in Key
      /\ toClose[c] = <<>>
  BY <1>1, SessionPoolAssumption DEF PoolInv, PoolTypeOK, Mine, Burdens
<1>3. CASE \E a \in Pooled(key[c]) :
             /\ pool' = Touched(a) /\ own' = [own EXCEPT ![c] = a] /\ Submit(c, "calling")
             /\ UNCHANGED <<guard, toClose, actorVars>>
  <2>1. PICK a \in ToSet(pool) :
             /\ pool' = Touched(a) /\ own' = [own EXCEPT ![c] = a] /\ Submit(c, "calling")
             /\ UNCHANGED <<guard, toClose, actor, inbox, current, closing>>
    BY <1>3 DEF Pooled, actorVars
  <2>2. /\ pool' \in Seq(Actor) /\ IsInjective(pool') /\ ToSet(pool') = ToSet(pool)
        /\ a \in Actor
    BY <2>1, TouchedFacts
  <2>3. at' = [at EXCEPT ![c] = "calling"] /\ op' = [op EXCEPT ![c] = "sent"]
    BY <2>1 DEF Submit
  <2>4. PoolTypeOK'
    BY <1>1, <1>2, <2>1, <2>2, <2>3 DEF PoolTypeOK
  <2>5. at'[c] = "calling" /\ op'[c] = "sent" /\ toClose'[c] = <<>>
    BY <1>2, <2>1, <2>3 DEF PoolTypeOK
  <2>6. Mine(c)'
    BY <2>5 DEF Mine, Burdens, Creates, Outcome, Closers
  <2>7. Acts(c)
    BY <1>1, <1>2, <2>1, <2>2, <2>3 DEF Acts, PoolTypeOK
  <2>8. Minds(c) /\ Alone'
    BY <1>1, <1>2, <2>1, <2>2 DEF Minds, Alone
  <2>9. QED
    BY <2>4, <2>6, <2>7, <2>8 DEF Fine
<1>4. CASE /\ Pooled(key[c]) = {}
           /\ pool' = SubSeq(pool, Excess + 1, Len(pool))
           /\ guard' = [guard EXCEPT ![key[c]] = c]
           /\ toClose' = [toClose EXCEPT ![c] = SubSeq(pool, 1, Excess)]
           /\ IF Excess > 0 THEN Submit(c, "evicting") /\ UNCHANGED <<own, actorVars>>
                            ELSE Create(c)
  <2> DEFINE oldest == SubSeq(pool, 1, Excess)
  <2>1. /\ Excess \in Nat /\ pool' \in Seq(Actor) /\ IsInjective(pool')
        /\ oldest \in Seq(Actor) /\ ToSet(pool) = ToSet(oldest) \cup ToSet(pool')
        /\ oldest = <<>> <=> Excess = 0
    BY <1>4, ExcessFacts
  <2>2. /\ guard' = [guard EXCEPT ![key[c]] = c]
        /\ toClose' = [toClose EXCEPT ![c] = oldest] /\ Pooled(key[c]) = {}
    BY <1>4
  <2> HIDE DEF oldest
  <2>3. /\ guard'[key'[c]] = c /\ Pooled(key[c])' = {} /\ toClose'[c] = oldest
        /\ \A d \in Client \ {c} : /\ toClose'[d] = toClose[d]
                                   /\ \A k \in Key : guard[k] = d => guard'[k] = d
        /\ Alone'
        /\ ToSet(toClose[c]) = {}
    <3>1. ToSet(<<>>) = {}
      BY EmptySeq, SetFacts
    <3>2. QED
      BY <1>1, <1>2, <2>1, <2>2, <3>1 DEF PoolTypeOK, Pooled, Alone
  <2>4. CASE Excess > 0
    <3>1. /\ at' = [at EXCEPT ![c] = "evicting"] /\ op' = [op EXCEPT ![c] = "sent"]
          /\ UNCHANGED <<own, actor, inbox, current, closing>>
      BY <1>4, <2>4 DEF Submit, actorVars
    <3>2. PoolTypeOK'
      BY <1>1, <1>2, <2>1, <2>2, <3>1 DEF PoolTypeOK
    <3>3. at'[c] = "evicting" /\ op'[c] = "sent" /\ oldest # <<>>
      BY <1>2, <2>1, <2>4, <3>1 DEF PoolTypeOK
    <3>4. Mine(c)'
      BY <1>1, <2>3, <3>3 DEF Mine, Burdens, Creates, Outcome, Closers, Pooled
    <3>5. Acts(c)
      BY <1>1, <1>2, <2>1, <2>3, <3>1 DEF Acts, PoolTypeOK
    <3>6. Minds(c)
      BY <1>1, <1>2, <2>1, <2>3 DEF Minds
    <3>7. QED
      BY <2>3, <3>2, <3>4, <3>5, <3>6 DEF Fine
  <2>5. CASE Excess = 0
    <3>1. Create(c)
      BY <1>4, <2>5
    <3>2. PICK a \in Actor :
             /\ a[1] = key[c] /\ Fresh(a)
             /\ own' = [own EXCEPT ![c] = a]
             /\ actor' = [actor EXCEPT ![a] = "new"]
             /\ at' = [at EXCEPT ![c] = "starting"] /\ op' = [op EXCEPT ![c] = "sent"]
             /\ UNCHANGED <<inbox, current, closing>>
      BY <3>1, CreateFacts
    <3>3. PoolTypeOK'
      BY <1>1, <1>2, <2>1, <2>2, <3>2 DEF PoolTypeOK
    <3>4. /\ at'[c] = "starting" /\ op'[c] = "sent" /\ toClose'[c] = <<>> /\ own'[c] = a
          /\ key'[c] = key[c]
      BY <1>1, <1>2, <2>1, <2>3, <2>5, <3>2 DEF PoolTypeOK
    <3>5. \A d \in Client : a \notin ToSet(toClose'[d])
      BY <1>2, <2>3, <3>2, <3>4 DEF Fresh
    <3>6. Mine(c)'
      BY <2>3, <3>2, <3>4, <3>5 DEF Mine, Burdens, Creates, Outcome, Closers, Pooled
    <3>7. Acts(c)
      BY <1>1, <1>2, <2>1, <2>3, <3>2 DEF Acts, PoolTypeOK
    <3>8. Minds(c)
      BY <1>1, <1>2, <2>1, <2>3 DEF Minds
    <3>9. QED
      BY <2>3, <3>3, <3>6, <3>7, <3>8 DEF Fine
  <2>6. QED
    BY <2>1, <2>4, <2>5
<1> QED
  BY <1>3, <1>4 DEF EnterGuard

\* An evicted session is closed; the next one follows, or the new session.
LEMMA EvictedFine ==
  ASSUME PoolInv, NEW c \in Client, Evicted(c)
  PROVE  Fine(c)
<1> DEFINE rest == Tail(toClose[c])
<1>1. /\ at[c] = "evicting" /\ op[c] = "done" /\ c \notin cancelled
      /\ toClose' = [toClose EXCEPT ![c] = rest]
      /\ UNCHANGED <<pool, guard, key, cancelled>>
  BY DEF Evicted
<1>2. PoolTypeOK /\ Alone /\ Mine(c) /\ key[c] \in Key
  BY DEF PoolInv, PoolTypeOK
<1>3. /\ toClose[c] # <<>> /\ guard[key[c]] = c /\ Pooled(key[c]) = {}
      /\ actor[Head(toClose[c])] = "gone"
  BY <1>1, <1>2 DEF Mine, Burdens, Creates, Outcome, Closers
<1>4. /\ rest \in Seq(Actor) /\ ToSet(toClose[c]) = {Head(toClose[c])} \cup ToSet(rest)
      /\ Len(toClose[c]) > 1 <=> rest # <<>>
  BY <1>2, <1>3, HeadTailFacts DEF PoolTypeOK
<1> HIDE DEF rest
<1>5. /\ guard'[key'[c]] = c /\ Pooled(key[c])' = {} /\ toClose'[c] = rest
      /\ \A d \in Client \ {c} : toClose'[d] = toClose[d]
      /\ Alone'
  BY <1>1, <1>2, <1>3 DEF PoolTypeOK, Pooled, Alone
<1>6. CASE rest # <<>>
  <2>1. /\ at' = [at EXCEPT ![c] = "evicting"] /\ op' = [op EXCEPT ![c] = "sent"]
        /\ UNCHANGED <<own, actor, inbox, current, closing>>
    BY <1>4, <1>6 DEF Evicted, Submit, actorVars
  <2>2. PoolTypeOK'
    BY <1>1, <1>2, <1>4, <2>1 DEF PoolTypeOK
  <2>3. at'[c] = "evicting" /\ op'[c] = "sent"
    BY <1>2, <2>1 DEF PoolTypeOK
  <2>4. Mine(c)'
    BY <1>5, <1>6, <2>3 DEF Mine, Burdens, Creates, Outcome, Closers, Pooled
  <2>5. Acts(c)
    BY <1>1, <1>2, <1>4, <1>5, <2>1 DEF Acts, PoolTypeOK
  <2>6. Minds(c)
    BY <1>1, <1>3, <1>4, <1>5 DEF Minds
  <2>7. QED
    BY <1>5, <2>2, <2>4, <2>5, <2>6 DEF Fine
<1>7. CASE rest = <<>>
  <2>1. Create(c)
    BY <1>4, <1>7 DEF Evicted
  <2>2. PICK a \in Actor :
           /\ a[1] = key[c] /\ Fresh(a)
           /\ own' = [own EXCEPT ![c] = a]
           /\ actor' = [actor EXCEPT ![a] = "new"]
           /\ at' = [at EXCEPT ![c] = "starting"] /\ op' = [op EXCEPT ![c] = "sent"]
           /\ UNCHANGED <<inbox, current, closing>>
    BY <2>1, CreateFacts
  <2>3. PoolTypeOK'
    BY <1>1, <1>2, <1>4, <2>2 DEF PoolTypeOK
  <2>4. at'[c] = "starting" /\ op'[c] = "sent" /\ own'[c] = a /\ key'[c] = key[c]
    BY <1>1, <1>2, <2>2 DEF PoolTypeOK
  <2>5. \A d \in Client : a \notin ToSet(toClose'[d])
    BY <1>4, <1>5, <2>2 DEF Fresh
  <2>6. Mine(c)'
    BY <1>5, <1>7, <2>2, <2>4, <2>5 DEF Mine, Burdens, Creates, Outcome, Closers, Pooled
  <2>7. Acts(c)
    BY <1>1, <1>2, <1>4, <1>5, <2>2 DEF Acts, PoolTypeOK
  <2>8. Minds(c)
    BY <1>1, <1>3, <1>4, <1>5 DEF Minds
  <2>9. QED
    BY <1>5, <2>3, <2>6, <2>7, <2>8 DEF Fine
<1> QED
  BY <1>6, <1>7

\* The guard is let go of, and those of others are not.
LEMMA ReleaseFacts ==
  ASSUME PoolInv, NEW c \in Client, ReleaseGuard(c)
  PROVE  /\ guard' \in [Key -> Client \cup {Nobody}]
         /\ \A d \in Client \ {c} : \A k \in Key : guard[k] = d => guard'[k] = d
BY DEF ReleaseGuard, PoolInv, PoolTypeOK

LEMMA StartedFine ==
  ASSUME PoolInv, NEW c \in Client, Started(c)
  PROVE  Fine(c)
<1>1. /\ at[c] = "starting" /\ op[c] = "done" /\ c \notin cancelled
      /\ pool' = Append(Without(pool, Pooled(key[c])), own[c])
      /\ ReleaseGuard(c)
      /\ at' = [at EXCEPT ![c] = "calling"] /\ op' = [op EXCEPT ![c] = "sent"]
      /\ UNCHANGED <<key, own, toClose, cancelled, actor, inbox, current, closing>>
  BY DEF Started, Submit, actorVars
<1>2. /\ PoolTypeOK /\ Alone /\ Mine(c)
      /\ pool \in Seq(Actor) /\ IsInjective(pool) /\ own[c] \in Actor
  BY DEF PoolInv, PoolTypeOK
<1>3. Pooled(key[c]) = {} /\ own[c][1] = key[c] /\ toClose[c] = <<>>
  BY <1>1, <1>2 DEF Mine, Burdens, Creates
<1> DEFINE s == Without(pool, Pooled(key[c]))
<1>4. s \in Seq(Actor) /\ IsInjective(s) /\ ToSet(s) = ToSet(pool)
  <2>1. /\ s \in Seq(Actor) /\ ToSet(s) = ToSet(pool) \ Pooled(key[c])
        /\ IsInjective(pool) => IsInjective(s)
    BY <1>2, WithoutFacts
  <2>2. QED
    BY <1>2, <1>3, <2>1
<1>5. \A a \in ToSet(pool) : a[1] # key[c]
  BY <1>3 DEF Pooled
<1>6. own[c] \notin ToSet(s)
  BY <1>3, <1>4, <1>5
<1>7. pool' = Append(s, own[c])
  BY <1>1
<1> HIDE DEF s
<1>8. /\ pool' \in Seq(Actor) /\ IsInjective(pool')
      /\ ToSet(pool') = ToSet(pool) \cup {own[c]}
  BY <1>2, <1>4, <1>6, <1>7, AppendFacts
<1>9. /\ guard' \in [Key -> Client \cup {Nobody}]
      /\ \A d \in Client \ {c} : \A k \in Key : guard[k] = d => guard'[k] = d
  BY <1>1, ReleaseFacts
<1>10. PoolTypeOK'
  BY <1>1, <1>2, <1>8, <1>9 DEF PoolTypeOK
<1>11. Alone'
  BY <1>2, <1>3, <1>5, <1>8 DEF Alone
<1>12. at'[c] = "calling" /\ op'[c] = "sent" /\ toClose'[c] = <<>>
  BY <1>1, <1>2, <1>3 DEF PoolTypeOK
<1>13. Mine(c)'
  BY <1>12 DEF Mine, Burdens, Creates, Outcome, Closers
<1>14. Acts(c)
  BY <1>1, <1>2, <1>8, <1>9 DEF Acts, PoolTypeOK
<1>15. Minds(c)
  BY <1>1, <1>8 DEF Minds
<1> QED
  BY <1>10, <1>11, <1>13, <1>14, <1>15 DEF Fine

\* A client whose operation is over returns, with nothing left to do for it.
LEMMA IdleFine ==
  ASSUME PoolInv, NEW c \in Client, GoIdle(c), UNCHANGED <<pool, actorVars>>,
         \/ UNCHANGED guard
         \/ ReleaseGuard(c),
         ~(at[c] = "calling" /\ op[c] = "running"),
         at[c] # "idle",
         Minds(c) \/ c \in cancelled
  PROVE  Fine(c)
<1>1. /\ at' = [at EXCEPT ![c] = "idle"] /\ op' = [op EXCEPT ![c] = "none"]
      /\ cancelled' = cancelled \ {c} /\ toClose' = [toClose EXCEPT ![c] = <<>>]
      /\ key' = [key EXCEPT ![c] = AnyOf(Key)] /\ own' = [own EXCEPT ![c] = AnyOf(Actor)]
      /\ UNCHANGED <<pool, actor, inbox, current, closing>>
  BY DEF GoIdle, actorVars
<1>2. PoolTypeOK /\ Alone /\ <<>> \in Seq(Actor)
  BY EmptySeq DEF PoolInv
<1>3. /\ guard' \in [Key -> Client \cup {Nobody}]
      /\ \A d \in Client \ {c} : \A k \in Key : guard[k] = d => guard'[k] = d
  BY <1>2, ReleaseFacts DEF PoolTypeOK
<1>4. PoolTypeOK'
  BY <1>1, <1>2, <1>3, SomeFacts DEF PoolTypeOK
<1>5. at'[c] = "idle" /\ op'[c] = "none" /\ toClose'[c] = <<>>
  BY <1>1, <1>2 DEF PoolTypeOK
<1>6. Mine(c)'
  BY <1>5 DEF Mine, Burdens, Creates, Outcome, Closers
<1>7. ToSet(<<>>) = {}
  BY EmptySeq, SetFacts
<1>8. Acts(c)
  BY <1>1, <1>2, <1>3, <1>5, <1>7 DEF Acts, PoolTypeOK
<1>9. Minds(c) \/ Quits(c)
  BY <1>5 DEF Quits
<1>10. Alone'
  BY <1>1, <1>2 DEF Alone
<1> QED
  BY <1>4, <1>6, <1>8, <1>9, <1>10 DEF Fine

LEMMA GetFailsFine ==
  ASSUME PoolInv, NEW c \in Client, GetFails(c)
  PROVE  Fine(c)
<1>1. /\ at[c] \in {"evicting", "starting"}
      /\ op[c] = "failed" \/ c \in cancelled
      /\ ReleaseGuard(c) /\ GoIdle(c) /\ UNCHANGED <<pool, actorVars>>
  BY DEF GetFails
<1>2. Mine(c) /\ PoolTypeOK
  BY DEF PoolInv
<1>3. ToSet(<<>>) = {}
  BY EmptySeq, SetFacts
<1>4. ASSUME c \notin cancelled
      PROVE  Minds(c)
  BY <1>1, <1>2, <1>3, <1>4 DEF Minds, Mine, Burdens, Outcome, Closers
<1> QED
  BY <1>1, <1>4, IdleFine

LEMMA CallReturnsFine ==
  ASSUME PoolInv, NEW c \in Client, CallReturns(c)
  PROVE  Fine(c)
<1>1. /\ at[c] = "calling" /\ op[c] \in Ended /\ GoIdle(c)
      /\ UNCHANGED <<pool, guard, actorVars>>
  BY DEF CallReturns, entryVars
<1>2. toClose[c] = <<>>
  BY <1>1 DEF PoolInv, Mine, Burdens
<1>3. ToSet(<<>>) = {}
  BY EmptySeq, SetFacts
<1>4. Minds(c)
  BY <1>1, <1>2, <1>3 DEF Minds
<1> QED
  BY <1>1, <1>4, IdleFine DEF Ended

\* Sessions go from the pool to a client that had none to close, and will close them.
LEMMA TakesOutFine ==
  ASSUME PoolInv, NEW c \in Client,
         at[c] \in {"idle", "calling"}, ~(at[c] = "calling" /\ op[c] = "running"),
         NEW taken \in Seq(Actor),
         toClose' = [toClose EXCEPT ![c] = taken],
         pool' \in Seq(Actor), IsInjective(pool'),
         ToSet(pool) = ToSet(pool') \cup ToSet(taken),
         \/ /\ taken # <<>> /\ at' = [at EXCEPT ![c] = "closing"]
            /\ op' = [op EXCEPT ![c] = "sent"]
         \/ /\ at' = [at EXCEPT ![c] = "stopping"]
            /\ op' = [op EXCEPT ![c] = IF taken = <<>> THEN "none" ELSE "sent"],
         UNCHANGED <<guard, key, own, cancelled, actor, inbox, current, closing>>
  PROVE  Fine(c)
<1>1. PoolTypeOK /\ Alone /\ Mine(c)
  BY DEF PoolInv
<1>2. /\ toClose[c] = <<>> /\ toClose'[c] = taken
      /\ \A d \in Client \ {c} : toClose'[d] = toClose[d]
  BY <1>1 DEF PoolTypeOK, Mine, Burdens
<1>3. PoolTypeOK'
  BY <1>1 DEF PoolTypeOK
<1>4. \/ at'[c] = "closing" /\ op'[c] = "sent" /\ taken # <<>>
      \/ at'[c] = "stopping" /\ op'[c] = "sent" /\ taken # <<>>
      \/ at'[c] = "stopping" /\ op'[c] = "none"
  BY <1>1 DEF PoolTypeOK
<1>5. Mine(c)'
  BY <1>2, <1>4 DEF Mine, Burdens, Creates, Outcome, Closers
<1>6. Acts(c)
  BY <1>1, <1>2 DEF Acts, PoolTypeOK
<1>7. ToSet(<<>>) = {}
  BY EmptySeq, SetFacts
<1>8. Minds(c) /\ Alone'
  BY <1>1, <1>2, <1>7 DEF Minds, Alone
<1> QED
  BY <1>3, <1>5, <1>6, <1>8 DEF Fine

LEMMA DiscoverDeadFine ==
  ASSUME PoolInv, NEW c \in Client, DiscoverDead(c)
  PROVE  Fine(c)
<1>1. /\ at[c] = "calling" /\ op[c] = "dead"
      /\ UNCHANGED <<guard, actor, inbox, current, closing>> /\ UNCHANGED actorVars
  BY DEF DiscoverDead, actorVars
<1>2. /\ PoolTypeOK /\ pool \in Seq(Actor) /\ IsInjective(pool) /\ own[c] \in Actor
      /\ toClose[c] = <<>>
  BY <1>1 DEF PoolInv, PoolTypeOK, Mine, Burdens
<1>3. CASE own[c] \in ToSet(pool)
  <2> DEFINE rest == Without(pool, {own[c]})
  <2>1. /\ pool' = rest /\ toClose' = [toClose EXCEPT ![c] = <<own[c]>>]
        /\ at' = [at EXCEPT ![c] = "closing"] /\ op' = [op EXCEPT ![c] = "sent"]
        /\ UNCHANGED <<key, own, cancelled>>
    BY <1>3 DEF DiscoverDead, Submit
  <2>2. rest \in Seq(Actor) /\ IsInjective(rest) /\ ToSet(rest) = ToSet(pool) \ {own[c]}
    BY <1>2, WithoutFacts
  <2>3. /\ <<own[c]>> \in Seq(Actor) /\ <<own[c]>> # <<>>
        /\ ToSet(<<own[c]>>) = {own[c]}
    BY <1>2 DEF ToSet
  <2> HIDE DEF rest
  <2>4. ToSet(pool) = ToSet(rest) \cup ToSet(<<own[c]>>)
    BY <1>3, <2>2, <2>3
  <2>5. QED
    BY <1>1, <2>1, <2>2, <2>3, <2>4, TakesOutFine
<1>4. CASE own[c] \notin ToSet(pool)
  <2>1. GoIdle(c) /\ UNCHANGED pool
    BY <1>4 DEF DiscoverDead
  <2>2. Minds(c)
    BY <1>1, <1>2, <2>1, EmptySeq, SetFacts DEF Minds
  <2>3. QED
    BY <1>1, <2>1, <2>2, IdleFine
<1> QED
  BY <1>3, <1>4

LEMMA CloseMatchingFine ==
  ASSUME PoolInv, NEW c \in Client, NEW keys \in SUBSET Key, CloseMatching(c, keys)
  PROVE  Fine(c)
<1> DEFINE matching == {a \in ToSet(pool) : a[1] \in keys}
           taken == Only(pool, matching)
           rest == Without(pool, matching)
<1>1. /\ at[c] = "idle" /\ matching # {}
      /\ pool' = rest /\ toClose' = [toClose EXCEPT ![c] = taken]
      /\ at' = [at EXCEPT ![c] = "closing"] /\ op' = [op EXCEPT ![c] = "sent"]
      /\ UNCHANGED <<guard, key, own, cancelled, actor, inbox, current, closing>>
  BY DEF CloseMatching, Submit, actorVars
<1>2. pool \in Seq(Actor) /\ IsInjective(pool)
  BY DEF PoolInv, PoolTypeOK
<1>3. matching \subseteq ToSet(pool)
  OBVIOUS
<1> HIDE DEF matching
<1>4. /\ taken \in Seq(Actor) /\ ToSet(taken) = ToSet(pool) \cap matching
      /\ rest \in Seq(Actor) /\ ToSet(rest) = ToSet(pool) \ matching
      /\ IsInjective(rest)
  BY <1>2, OnlyFacts, WithoutFacts
<1> HIDE DEF taken, rest
<1>5. taken # <<>> /\ ToSet(pool) = ToSet(rest) \cup ToSet(taken)
  BY <1>1, <1>3, <1>4, SetFacts
<1> QED
  BY <1>1, <1>4, <1>5, TakesOutFine

LEMMA CloseAllFine ==
  ASSUME PoolInv, NEW c \in Client, CloseAll(c)
  PROVE  Fine(c)
<1>1. /\ at[c] = "idle" /\ pool' = <<>> /\ toClose' = [toClose EXCEPT ![c] = pool]
      /\ at' = [at EXCEPT ![c] = "stopping"]
      /\ op' = [op EXCEPT ![c] = IF pool = <<>> THEN "none" ELSE "sent"]
      /\ UNCHANGED <<guard, key, own, cancelled, actor, inbox, current, closing>>
  BY DEF CloseAll, actorVars
<1>2. pool \in Seq(Actor)
  BY DEF PoolInv, PoolTypeOK
<1>3. <<>> \in Seq(Actor) /\ ToSet(<<>>) = {} /\ IsInjective(<<>>)
  <2>1. <<>> \in Seq(Actor) /\ ToSet(<<>>) = {}
    BY EmptySeq, SetFacts
  <2>2. DOMAIN <<>> = {}
    BY <2>1 DEF ToSet
  <2>3. QED
    BY <2>1, <2>2 DEF IsInjective
<1>4. pool' \in Seq(Actor) /\ IsInjective(pool') /\ ToSet(pool) = ToSet(pool') \cup ToSet(pool)
  BY <1>1, <1>3
<1> QED
  BY <1>1, <1>2, <1>4, TakesOutFine

\* The session whose close has ended, however it ended, is gone or on its way.
LEMMA ClosedFine ==
  ASSUME PoolInv, NEW c \in Client, Closed(c)
  PROVE  Fine(c)
<1> DEFINE rest == Tail(toClose[c])
<1>1. /\ at[c] \in {"closing", "stopping"} /\ toClose[c] # <<>> /\ c \notin cancelled
      /\ op[c] \in Ended \/ (at[c] = "stopping" /\ op[c] = "running")
      /\ UNCHANGED <<pool, guard, actor, inbox, current, closing>> /\ UNCHANGED actorVars
  BY DEF Closed, entryVars, actorVars
<1>2. PoolTypeOK /\ Alone /\ Mine(c)
  BY DEF PoolInv
<1>3. /\ rest \in Seq(Actor) /\ ToSet(toClose[c]) = {Head(toClose[c])} \cup ToSet(rest)
      /\ Head(toClose[c]) \in ToSet(toClose[c])
      /\ Len(toClose[c]) > 1 <=> rest # <<>>
  BY <1>1, <1>2, HeadTailFacts DEF PoolTypeOK
<1> HIDE DEF rest
<1>4. Head(toClose[c]) \in closing \/ actor[Head(toClose[c])] = "gone"
  BY <1>1, <1>2, <1>3 DEF Mine, Outcome, Closers, Ended
<1>5. CASE rest # <<>> \/ at[c] = "stopping"
  <2>1. /\ toClose' = [toClose EXCEPT ![c] = rest]
        /\ op' = [op EXCEPT ![c] = IF rest # <<>> THEN "sent" ELSE "none"]
        /\ UNCHANGED <<at, key, own, cancelled>>
    BY <1>3, <1>5 DEF Closed, rest
  <2>2. PoolTypeOK'
    BY <1>1, <1>2, <1>3, <2>1 DEF PoolTypeOK
  <2>3. /\ toClose'[c] = rest /\ at'[c] = at[c]
        /\ op'[c] = IF rest # <<>> THEN "sent" ELSE "none"
        /\ \A d \in Client \ {c} : toClose'[d] = toClose[d]
    BY <1>2, <2>1 DEF PoolTypeOK
  <2>4. Mine(c)'
    BY <1>1, <1>5, <2>3 DEF Mine, Burdens, Creates, Outcome, Closers
  <2>5. Acts(c)
    BY <1>1, <1>2, <1>3, <2>1, <2>3 DEF Acts, PoolTypeOK
  <2>6. Minds(c) /\ Alone'
    BY <1>1, <1>2, <1>3, <1>4, <2>3 DEF Minds, Alone
  <2>7. QED
    BY <2>2, <2>4, <2>5, <2>6 DEF Fine
<1>6. CASE rest = <<>> /\ at[c] # "stopping"
  <2>1. GoIdle(c)
    BY <1>3, <1>6 DEF Closed
  <2>2. ToSet(rest) = {}
    BY <1>6, EmptySeq, SetFacts
  <2>3. Minds(c)
    BY <1>1, <1>3, <1>4, <2>2 DEF Minds
  <2>4. QED
    BY <1>1, <2>1, <2>3, IdleFine
<1> QED
  BY <1>5, <1>6

LEMMA CloseCancelledFine ==
  ASSUME PoolInv, NEW c \in Client, CloseCancelled(c)
  PROVE  Fine(c)
BY IdleFine DEF CloseCancelled, entryVars

LEMMA CancelClientFine ==
  ASSUME PoolInv, NEW c \in Client, CancelClient(c)
  PROVE  Fine(c)
<1>1. at[c] # "idle" /\ UNCHANGED <<pool, guard, actor, inbox, current, closing>>
      /\ UNCHANGED actorVars
  BY DEF CancelClient, entryVars, actorVars
<1>2. PoolTypeOK /\ Alone /\ Mine(c)
  BY DEF PoolInv
<1>3. CASE at[c] = "guard"
  <2>1. GoIdle(c)
    BY <1>3 DEF CancelClient
  <2>2. toClose[c] = <<>>
    BY <1>2, <1>3 DEF Mine, Burdens
  <2>3. ToSet(<<>>) = {}
    BY EmptySeq, SetFacts
  <2>4. Minds(c)
    BY <1>1, <1>3, <2>2, <2>3 DEF Minds
  <2>5. QED
    BY <1>1, <1>3, <2>1, <2>4, IdleFine
<1>4. CASE at[c] # "guard"
  <2>1. cancelled' = cancelled \cup {c} /\ UNCHANGED <<at, key, own, toClose, op>>
    BY <1>4 DEF CancelClient
  <2>2. PoolTypeOK'
    BY <1>1, <1>2, <2>1 DEF PoolTypeOK
  <2>3. Mine(c)'
    BY <1>1, <1>2, <2>1 DEF Mine, Burdens, Creates, Outcome, Closers, Pooled
  <2>4. Acts(c) /\ Minds(c) /\ Alone'
    BY <1>1, <1>2, <2>1 DEF Acts, Minds, Alone
  <2>5. QED
    BY <2>2, <2>3, <2>4 DEF Fine
<1> QED
  BY <1>3, <1>4

LEMMA CancelClientAgainFine ==
  ASSUME PoolInv, NEW c \in Client, CancelClientAgain(c)
  PROVE  Fine(c)
<1>1. /\ ReleaseGuard(c) /\ GoIdle(c) /\ UNCHANGED <<pool, actorVars>>
      /\ c \in cancelled /\ at[c] # "idle" /\ ~(at[c] = "calling" /\ op[c] = "running")
  BY DEF CancelClientAgain
<1> QED
  BY <1>1, IdleFine

\* What a client does, apart from what the owner loop does for it.
ClientStep(c) ==
  \/ \E k \in Key : GetSession(c, k)
  \/ EnterGuard(c) \/ Proceed(c) \/ CancelClient(c) \/ CancelClientAgain(c) \/ CloseAll(c)
  \/ \E keys \in SUBSET Key \ {{}} : CloseMatching(c, keys)

LEMMA ClientFine ==
  ASSUME PoolInv, NEW c \in Client, ClientStep(c)
  PROVE  Fine(c)
<1>1. CASE \E k \in Key : GetSession(c, k)
  BY <1>1, GetSessionFine
<1>2. CASE Proceed(c)
  BY <1>2, EvictedFine, StartedFine, GetFailsFine, CallReturnsFine, DiscoverDeadFine,
     ClosedFine, CloseCancelledFine DEF Proceed
<1>3. CASE \E keys \in SUBSET Key \ {{}} : CloseMatching(c, keys)
  BY <1>3, CloseMatchingFine
<1> QED
  BY <1>1, <1>2, <1>3, EnterGuardFine, CancelClientFine, CancelClientAgainFine,
     CloseAllFine DEF ClientStep

-----------------------------------------------------------------------------
(* What the owner loop does *)

\* A step of the owner loop moves operations and actors: one that is gone only comes
\* back for the client that starts it, and a closing one goes on closing until it is gone.
Drives ==
  /\ UNCHANGED <<pool, guard, at, key, own, toClose, cancelled>>
  /\ \A c \in Client : op'[c] # "none" => op[c] # "none"
  /\ \A a \in Actor : actor[a] \in {"new", "leaving", "gone"} =>
       \/ actor'[a] \in {"new", "leaving", "gone"}
       \/ \E d \in Client : op[d] = "sent" /\ at[d] = "starting" /\ a = own[d]
  /\ \A a \in Actor : actor[a] = "gone" =>
       \/ actor'[a] = "gone"
       \/ \E d \in Client : op[d] = "sent" /\ at[d] = "starting" /\ a = own[d]
  /\ \A a \in closing : a \in closing' \/ actor'[a] = "gone"

Smooth ==
  /\ Drives /\ PoolTypeOK'
  /\ \A c \in Client : op'[c] = op[c] \/ Outcome(c)'
  /\ \A a \in Actor : Calls(a)'

LEMMA OutcomeKept ==
  ASSUME PoolInv, Drives, NEW c \in Client, op'[c] = op[c]
  PROVE  Outcome(c)'
<1>1. /\ UNCHANGED <<at, key, own, toClose, cancelled>>
      /\ key[c] \in Key /\ own[c] \in Actor /\ toClose[c] \in Seq(Actor)
  BY DEF Drives, PoolInv, PoolTypeOK
<1>2. Mine(c) /\ \A d \in Client : Creates(d)
  BY DEF PoolInv, Mine
<1>3. \A a \in ToSet(toClose[c]) : a \in Actor /\ (actor[a] = "gone" => actor'[a] = "gone")
  BY <1>1, <1>2, SetFacts DEF Drives, Creates
<1>4. ASSUME at[c] = "starting", op[c] = "failed", actor[own[c]] = "gone"
      PROVE  actor'[own[c]] = "gone"
  <2>1. ASSUME NEW d \in Client, op[d] = "sent", at[d] = "starting", own[c] = own[d]
        PROVE  FALSE
    <3>1. guard[key[c]] = c /\ guard[key[d]] = d /\ key[c] = key[d]
      BY <1>2, <1>4, <2>1 DEF Creates
    <3>2. QED
      BY <1>4, <2>1, <3>1
  <2>2. QED
    BY <1>1, <1>4, <2>1 DEF Drives
<1>5. at[c] \in Closers /\ op[c] \in {"done", "running"} =>
        Head(toClose[c]) \in ToSet(toClose[c])
  BY <1>1, <1>2, HeadTailFacts DEF Mine, Burdens, Closers
<1>6. \A a \in Actor : a \in closing => a \in closing' \/ actor'[a] = "gone"
  BY DEF Drives
<1> QED
  BY <1>1, <1>2, <1>3, <1>4, <1>5, <1>6 DEF Mine, Outcome

LEMMA SmoothKeeps ==
  ASSUME PoolInv, Smooth
  PROVE  PoolInv'
<1>1. /\ UNCHANGED <<pool, guard, at, key, own, toClose, cancelled>>
      /\ \A c \in Client : op'[c] # "none" => op[c] # "none"
  BY DEF Smooth, Drives
<1>2. ASSUME NEW c \in Client
      PROVE  Mine(c)'
  <2>1. Burdens(c) /\ Creates(c)
    BY DEF PoolInv, Mine
  <2>2. Burdens(c)'
    BY <1>1, <2>1 DEF Burdens
  <2>3. Creates(c)'
    BY <1>1, <2>1 DEF Creates, Pooled
  <2>4. Outcome(c)'
    BY OutcomeKept DEF Smooth
  <2>5. QED
    BY <2>2, <2>3, <2>4 DEF Mine
<1>3. Alone'
  BY <1>1 DEF PoolInv, Alone
<1> QED
  BY <1>2, <1>3 DEF PoolInv, Smooth

LEMMA DrivesMinds ==
  ASSUME Drives, NEW a \in Actor, LookedAfter(a)
  PROVE  LookedAfter(a)'
<1>1. UNCHANGED <<pool, at, own, toClose>>
  BY DEF Drives
<1>2. InUse' = InUse
  BY <1>1 DEF InUse
<1>3. CASE actor[a] \in {"new", "leaving", "gone"}
  BY <1>2, <1>3 DEF Drives, LookedAfter, InUse
<1>4. CASE a \in closing
  BY <1>4 DEF Drives, LookedAfter
<1>5. CASE a \in InUse \/ \E c \in Client : a \in ToSet(toClose[c])
  BY <1>1, <1>2, <1>5 DEF LookedAfter
<1> QED
  BY <1>3, <1>4, <1>5 DEF LookedAfter

\* The queues are as they were, and no queued call is at another place.
LEMMA CallsSame ==
  ASSUME PoolInv, NEW a \in Actor, UNCHANGED <<inbox, current, at, own>>,
         \A d \in Client : at[d] = "calling" /\ op[d] = "running" => op'[d] = op[d]
  PROVE  Calls(a)'
BY DEF PoolInv, Calls

LEMMA BeginStartSmooth ==
  ASSUME PoolInv, NEW c \in Client, Begin(c), BeginStart(c)
  PROVE  Smooth
<1>1. /\ at[c] = "starting" /\ op[c] = "sent"
      /\ actor' = [actor EXCEPT ![own[c]] = "opening"] /\ op' = [op EXCEPT ![c] = "running"]
      /\ UNCHANGED <<pool, guard, at, key, own, toClose, cancelled, inbox, current, closing>>
  BY DEF Begin, BeginStart, Becomes, entryVars
<1>2. PoolTypeOK
  BY DEF PoolInv
<1>3. PoolTypeOK'
  BY <1>1, <1>2 DEF PoolTypeOK
<1>4. op'[c] = "running" /\ \A d \in Client \ {c} : op'[d] = op[d]
  BY <1>1, <1>2 DEF PoolTypeOK
<1>5. Drives
  BY <1>1, <1>2, <1>4 DEF Drives, PoolTypeOK
<1>6. Outcome(c)'
  BY <1>1, <1>4 DEF Outcome, Closers
<1>7. \A a \in Actor : Calls(a)'
  BY <1>1, <1>4, CallsSame
<1> QED
  BY <1>3, <1>4, <1>5, <1>6, <1>7 DEF Smooth

\* What Post() does to a queue.
LEMMA PostFacts ==
  ASSUME PoolInv, NEW a \in Actor, NEW item \in Client \cup {Sentinel}, Post(a, item)
  PROVE  /\ inbox' \in [Actor -> Seq(Client \cup {Sentinel})]
         /\ \A b \in Actor \ {a} : inbox'[b] = inbox[b]
         /\ inbox'[a] = IF Reads(a) THEN Append(inbox[a], item) ELSE inbox[a]
<1>1. inbox \in [Actor -> Seq(Client \cup {Sentinel})]
  BY DEF PoolInv, PoolTypeOK
<1>2. Append(inbox[a], item) \in Seq(Client \cup {Sentinel})
  BY <1>1, AppendFacts
<1> QED
  BY <1>1, <1>2 DEF Post

\* One more in a queue that does not hold it keeps calls apart.
LEMMA AppendOnce ==
  ASSUME NEW A, NEW s \in Seq(A), NEW e \in A, NEW C,
         \A i, j \in DOMAIN s : s[i] = s[j] /\ s[i] \in C => i = j,
         e \in C => e \notin ToSet(s)
  PROVE  \A i, j \in DOMAIN Append(s, e) :
           Append(s, e)[i] = Append(s, e)[j] /\ Append(s, e)[i] \in C => i = j
<1> DEFINE t == Append(s, e)
<1>1. /\ t \in Seq(A) /\ Len(t) = Len(s) + 1 /\ Len(s) \in Nat
      /\ \A i \in 1..Len(s) : t[i] = s[i]
      /\ t[Len(s) + 1] = e
  BY AppendProperties, LenProperties
<1>2. DOMAIN t = 1..(Len(s) + 1) /\ DOMAIN s = 1..Len(s)
  BY <1>1, LenProperties
<1> HIDE DEF t
<1>3. \A i \in DOMAIN t : i = Len(s) + 1 \/ (i \in DOMAIN s /\ t[i] = s[i])
  BY <1>1, <1>2
<1>4. \A i \in DOMAIN s : e \in C => s[i] # e
  BY DEF ToSet
<1>5. ASSUME NEW i \in DOMAIN t, NEW j \in DOMAIN t, t[i] = t[j], t[i] \in C
      PROVE  i = j
  BY <1>1, <1>3, <1>4, <1>5
<1> QED
  BY <1>5 DEF t

LEMMA BeginCallSmooth ==
  ASSUME PoolInv, NEW c \in Client, Begin(c), BeginCall(c)
  PROVE  Smooth
<1> DEFINE a == own[c]
<1>1. /\ at[c] = "calling" /\ op[c] = "sent" /\ Post(a, c)
      /\ UNCHANGED <<pool, guard, at, key, own, toClose, cancelled, actor, current, closing>>
  BY DEF Begin, BeginCall, entryVars
<1>2. /\ PoolTypeOK /\ a \in Actor /\ Sentinel \notin Client /\ Nobody \notin Client
      /\ Sentinel # Nobody
  BY SessionPoolAssumption DEF PoolInv, PoolTypeOK
<1> HIDE DEF a
<1>3. PICK result \in {"running", "unheard", "failed"} :
         op' = [op EXCEPT ![c] = result] /\ (Reads(a) => result = "running")
  <2>1. op' = [op EXCEPT ![c] = CASE Reads(a) -> "running"
                                  [] actor[a] = "leaving" -> "unheard"
                                  [] OTHER -> "failed"]
    BY DEF BeginCall, Becomes, a
  <2>2. CASE Reads(a)
    <3>1. actor[a] # "leaving"
      BY <2>2 DEF Reads
    <3>2. QED
      BY <2>1, <2>2, <3>1
  <2>3. CASE ~Reads(a) /\ actor[a] = "leaving"
    BY <2>1, <2>3
  <2>4. CASE ~Reads(a) /\ actor[a] # "leaving"
    BY <2>1, <2>4
  <2>5. QED
    BY <2>2, <2>3, <2>4
<1>4. /\ inbox' \in [Actor -> Seq(Client \cup {Sentinel})]
      /\ \A b \in Actor \ {a} : inbox'[b] = inbox[b]
      /\ inbox'[a] = IF Reads(a) THEN Append(inbox[a], c) ELSE inbox[a]
  BY <1>1, <1>2, PostFacts
<1>5. PoolTypeOK'
  BY <1>1, <1>2, <1>3, <1>4 DEF PoolTypeOK, Ended
<1>6. /\ op'[c] \in {"running", "unheard", "failed"} /\ (Reads(a) => op'[c] = "running")
      /\ \A d \in Client \ {c} : op'[d] = op[d]
  BY <1>2, <1>3 DEF PoolTypeOK
<1>7. Drives
  BY <1>1, <1>6 DEF Drives
<1>8. Outcome(c)'
  BY <1>1, <1>6 DEF Outcome, Closers
<1>9. ASSUME NEW b \in Actor
      PROVE  Calls(b)'
  <2>1. Calls(b) /\ c \notin ToSet(inbox[b]) /\ c # current[b]
    BY <1>1 DEF PoolInv, Calls
  <2>2. CASE b # a \/ ~Reads(a)
    BY <1>1, <1>4, <1>6, <2>1, <2>2 DEF Calls
  <2>3. CASE b = a /\ Reads(a)
    <3>1. inbox[b] \in Seq(Client \cup {Sentinel}) /\ inbox'[b] = Append(inbox[b], c)
      BY <1>2, <1>4, <2>3 DEF PoolTypeOK
    <3>2. ToSet(inbox'[b]) = ToSet(inbox[b]) \cup {c}
      BY <3>1, AppendFacts
    <3>3. \A i, j \in DOMAIN inbox'[b] :
             inbox'[b][i] = inbox'[b][j] /\ inbox'[b][i] \in Client => i = j
      <4>1. \A i, j \in DOMAIN inbox[b] :
              inbox[b][i] = inbox[b][j] /\ inbox[b][i] \in Client => i = j
        BY <2>1 DEF Calls
      <4>2. c \in Client \cup {Sentinel} /\ c \notin ToSet(inbox[b])
        BY <2>1
      <4>3. \A i, j \in DOMAIN Append(inbox[b], c) :
              Append(inbox[b], c)[i] = Append(inbox[b], c)[j]
                /\ Append(inbox[b], c)[i] \in Client => i = j
        BY <3>1, <4>1, <4>2, AppendOnce
      <4>4. QED
        BY <3>1, <4>3
    <3>4. op'[c] = "running" /\ own[c] = b
      BY <1>6, <2>3 DEF a
    <3>5. QED
      BY <1>1, <1>6, <2>1, <3>2, <3>3, <3>4 DEF Calls
  <2>4. QED
    BY <2>2, <2>3
<1> QED
  BY <1>5, <1>6, <1>7, <1>8, <1>9 DEF Smooth

LEMMA BeginCloseSmooth ==
  ASSUME PoolInv, NEW c \in Client, Begin(c), BeginClose(c)
  PROVE  Smooth
<1> DEFINE a == Head(toClose[c])
<1>1. /\ at[c] \in Closers /\ op[c] = "sent"
      /\ op' = [op EXCEPT ![c] = IF actor[a] = "gone" THEN "done" ELSE "running"]
      /\ IF a \in closing THEN UNCHANGED inbox ELSE Post(a, Sentinel)
      /\ closing' = IF actor[a] = "gone" THEN closing ELSE closing \cup {a}
      /\ UNCHANGED <<pool, guard, at, key, own, toClose, cancelled, actor, current>>
  BY DEF Begin, BeginClose, Becomes, entryVars
<1>2. /\ PoolTypeOK /\ Sentinel \notin Client /\ Nobody \notin Client /\ Sentinel # Nobody
      /\ Mine(c)
  BY SessionPoolAssumption DEF PoolInv, PoolTypeOK
<1>3. a \in Actor
  BY <1>1, <1>2, HeadTailFacts DEF PoolTypeOK, Mine, Burdens, Closers
<1> HIDE DEF a
<1>4. /\ inbox' \in [Actor -> Seq(Client \cup {Sentinel})]
      /\ \A b \in Actor : \/ inbox'[b] = inbox[b]
                          \/ inbox'[b] = Append(inbox[b], Sentinel)
  <2>1. CASE a \in closing
    BY <1>1, <1>2, <2>1 DEF PoolTypeOK
  <2>2. CASE a \notin closing
    BY <1>1, <1>3, <2>2, PostFacts
  <2>3. QED
    BY <2>1, <2>2
<1>5. PoolTypeOK'
  BY <1>1, <1>2, <1>3, <1>4 DEF PoolTypeOK, Ended
<1>6. /\ op'[c] = (IF actor[a] = "gone" THEN "done" ELSE "running")
      /\ \A d \in Client \ {c} : op'[d] = op[d]
  BY <1>1, <1>2 DEF PoolTypeOK
<1>7. Drives
  BY <1>1, <1>6 DEF Drives
<1>8. Outcome(c)'
  <2>1. CASE actor[a] = "gone"
    BY <1>1, <1>6, <2>1 DEF Outcome, a, Closers
  <2>2. CASE actor[a] # "gone"
    BY <1>1, <1>6, <2>2 DEF Outcome, a, Closers
  <2>3. QED
    BY <2>1, <2>2
<1>9. ASSUME NEW b \in Actor
      PROVE  Calls(b)'
  <2>1. /\ Calls(b) /\ inbox[b] \in Seq(Client \cup {Sentinel})
        /\ current[b] \in Client \cup {Nobody}
    BY <1>2 DEF PoolInv, PoolTypeOK
  <2>2. \A d \in Client : at[d] = "calling" => op'[d] = op[d]
    BY <1>1, <1>6 DEF Closers
  <2>3. CASE inbox'[b] = inbox[b]
    BY <1>1, <2>1, <2>2, <2>3 DEF Calls
  <2>4. CASE inbox'[b] = Append(inbox[b], Sentinel)
    <3>1. ToSet(inbox'[b]) = ToSet(inbox[b]) \cup {Sentinel}
      BY <2>1, <2>4, AppendFacts
    <3>2. \A i, j \in DOMAIN inbox[b] :
             inbox[b][i] = inbox[b][j] /\ inbox[b][i] \in Client => i = j
      BY <2>1 DEF Calls
    <3>3. \A i, j \in DOMAIN Append(inbox[b], Sentinel) :
             Append(inbox[b], Sentinel)[i] = Append(inbox[b], Sentinel)[j]
               /\ Append(inbox[b], Sentinel)[i] \in Client => i = j
      BY <1>2, <2>1, <3>2, AppendOnce
    <3>4. \A i, j \in DOMAIN inbox'[b] :
             inbox'[b][i] = inbox'[b][j] /\ inbox'[b][i] \in Client => i = j
      BY <2>4, <3>3
    <3>5. QED
      BY <1>1, <1>2, <2>1, <2>2, <3>1, <3>4 DEF Calls
  <2>5. QED
    BY <1>4, <2>3, <2>4
<1> QED
  BY <1>5, <1>6, <1>7, <1>8, <1>9 DEF Smooth

LEMMA OpenSmooth ==
  ASSUME PoolInv, NEW a \in Actor, Open(a)
  PROVE  Smooth
<1>1. PICK ok \in BOOLEAN :
        /\ actor' = [actor EXCEPT ![a] = IF ok THEN "serving" ELSE "gone"]
        /\ op' = [c \in Client |-> IF ~Waits(c, {"starting"}, a) THEN op[c]
                                   ELSE IF ok THEN "done" ELSE "failed"]
  BY DEF Open
<1>2. /\ actor[a] = "opening"
      /\ UNCHANGED <<pool, guard, at, key, own, toClose, cancelled, inbox, current, closing>>
  BY DEF Open, entryVars
<1>3. PoolTypeOK
  BY DEF PoolInv
<1>4. PoolTypeOK'
  BY <1>1, <1>2, <1>3 DEF PoolTypeOK, Ended
<1>5. ASSUME NEW c \in Client
      PROVE  \/ op'[c] = op[c]
             \/ /\ at[c] = "starting" /\ own[c] = a /\ op[c] = "running"
                /\ op'[c] = (IF ok THEN "done" ELSE "failed")
  BY <1>1 DEF Waits, Subject
<1>6. actor'[a] = (IF ok THEN "serving" ELSE "gone")
        /\ \A b \in Actor \ {a} : actor'[b] = actor[b]
  BY <1>1, <1>3 DEF PoolTypeOK
<1>7. Drives
  BY <1>2, <1>5, <1>6 DEF Drives
<1>8. ASSUME NEW c \in Client
      PROVE  op'[c] = op[c] \/ Outcome(c)'
  BY <1>2, <1>5, <1>6 DEF Outcome, Closers
<1>9. \A d \in Client : at[d] = "calling" => op'[d] = op[d]
  BY <1>5
<1>10. \A b \in Actor : Calls(b)'
  BY <1>2, <1>9, CallsSame
<1> QED
  BY <1>4, <1>7, <1>8, <1>10 DEF Smooth

LEMMA ExitSmooth ==
  ASSUME PoolInv, NEW a \in Actor, Exit(a)
  PROVE  Smooth
<1>1. /\ actor[a] = "leaving" /\ actor' = [actor EXCEPT ![a] = "gone"]
      /\ closing' = closing \ {a}
      /\ op' = [c \in Client |-> IF Waits(c, Closers, a) THEN "done"
                                 ELSE IF Waits(c, {"starting"}, a) THEN "failed" ELSE op[c]]
      /\ UNCHANGED <<pool, guard, at, key, own, toClose, cancelled, inbox, current>>
  BY DEF Exit, entryVars
<1>2. PoolTypeOK
  BY DEF PoolInv
<1>3. PoolTypeOK'
  BY <1>1, <1>2 DEF PoolTypeOK, Ended
<1>4. ASSUME NEW c \in Client
      PROVE  \/ op'[c] = op[c]
             \/ /\ op[c] = "running" /\ at[c] \in Closers /\ Head(toClose[c]) = a
                /\ op'[c] = "done"
             \/ /\ op[c] = "running" /\ at[c] = "starting" /\ own[c] = a
                /\ op'[c] = "failed"
  BY <1>1 DEF Waits, Subject, Closers
<1>5. actor'[a] = "gone" /\ \A b \in Actor \ {a} : actor'[b] = actor[b]
  BY <1>1, <1>2 DEF PoolTypeOK
<1>6. Drives
  BY <1>1, <1>2, <1>4, <1>5 DEF Drives, PoolTypeOK
<1>7. ASSUME NEW c \in Client
      PROVE  op'[c] = op[c] \/ Outcome(c)'
  BY <1>1, <1>4, <1>5 DEF Outcome, Closers
<1>8. \A d \in Client : at[d] = "calling" => op'[d] = op[d]
  BY <1>4 DEF Closers
<1>9. \A b \in Actor : Calls(b)'
  BY <1>1, <1>8, CallsSame
<1> QED
  BY <1>3, <1>6, <1>7, <1>9 DEF Smooth

\* The calls of a queue that is emptied are over; those of other queues go on.
LEMMA EmptiedCalls ==
  ASSUME PoolInv, NEW a \in Actor, UNCHANGED <<at, own>>,
         inbox' = [inbox EXCEPT ![a] = <<>>],
         \/ current' = current /\ current[a] \notin ToSet(inbox[a])
              /\ \A c \in Client : op'[c] = op[c] \/ c \in ToSet(inbox[a])
         \/ current' = [current EXCEPT ![a] = Nobody]
              /\ \A c \in Client : op'[c] = op[c] \/ c \in ToSet(inbox[a]) \/ c = current[a],
         NEW b \in Actor
  PROVE  Calls(b)'
<1>1. PoolTypeOK /\ Nobody \notin Client
  BY SessionPoolAssumption DEF PoolInv
<1>2. Calls(a) /\ Calls(b)
  BY DEF PoolInv
<1>3. ToSet(<<>>) = {} /\ DOMAIN <<>> = {}
  <2>1. ToSet(<<>>) = {}
    BY EmptySeq, SetFacts
  <2>2. QED
    BY <2>1 DEF ToSet
<1>4. CASE b = a
  <2>1. inbox'[a] = <<>> /\ (current'[a] = current[a] \/ current'[a] = Nobody)
    BY <1>1 DEF PoolTypeOK
  <2>2. \A c \in Client : c = current'[a] => c = current[a] /\ op'[c] = op[c]
    BY <1>1 DEF PoolTypeOK
  <2>3. QED
    BY <1>2, <1>3, <1>4, <2>1, <2>2 DEF Calls
<1>5. CASE b # a
  <2>1. inbox'[b] = inbox[b] /\ current'[b] = current[b]
    BY <1>1, <1>5 DEF PoolTypeOK
  <2>2. \A c \in Client : c \in ToSet(inbox[b]) \/ c = current[b] => op'[c] = op[c]
    BY <1>2, <1>5 DEF Calls
  <2>3. QED
    BY <1>2, <2>1, <2>2 DEF Calls
<1> QED
  BY <1>4, <1>5

LEMMA TakeSmooth ==
  ASSUME PoolInv, NEW a \in Actor, Take(a)
  PROVE  Smooth
<1>1. /\ actor[a] = "serving" /\ inbox[a] # <<>>
      /\ UNCHANGED <<pool, guard, at, key, own, toClose, cancelled, closing>>
  BY DEF Take, entryVars
<1>2. /\ PoolTypeOK /\ Calls(a) /\ inbox[a] \in Seq(Client \cup {Sentinel})
      /\ <<>> \in Seq(Client \cup {Sentinel}) /\ Nobody \notin Client
  BY SessionPoolAssumption, EmptySeq DEF PoolInv, PoolTypeOK
<1>3. /\ Head(inbox[a]) \in Client \cup {Sentinel}
      /\ Tail(inbox[a]) \in Seq(Client \cup {Sentinel})
      /\ ToSet(inbox[a]) = {Head(inbox[a])} \cup ToSet(Tail(inbox[a]))
      /\ Head(inbox[a]) \in ToSet(inbox[a])
  BY <1>1, <1>2, HeadTailFacts
<1>4. CASE Head(inbox[a]) = Sentinel
  <2>1. /\ actor' = [actor EXCEPT ![a] = "leaving"]
        /\ inbox' = [inbox EXCEPT ![a] = <<>>]
        /\ op' = [c \in Client |-> IF c \in ToSet(inbox[a]) THEN "unheard" ELSE op[c]]
        /\ UNCHANGED current
    BY <1>4 DEF Take
  <2>2. PoolTypeOK'
    BY <1>1, <1>2, <2>1 DEF PoolTypeOK
  <2>3. ASSUME NEW c \in Client
        PROVE  \/ op'[c] = op[c]
               \/ /\ at[c] = "calling" /\ op[c] = "running" /\ op'[c] = "unheard"
                  /\ c \in ToSet(inbox[a])
    BY <1>2, <2>1 DEF Calls
  <2>4. Drives
    BY <1>1, <1>2, <2>1, <2>3 DEF Drives, PoolTypeOK
  <2>5. ASSUME NEW c \in Client
        PROVE  op'[c] = op[c] \/ Outcome(c)'
    BY <1>1, <2>3 DEF Outcome, Closers
  <2>6. current[a] \notin ToSet(inbox[a])
    BY <1>2 DEF Calls
  <2>7. \A b \in Actor : Calls(b)'
    BY <1>1, <2>1, <2>3, <2>6, EmptiedCalls
  <2>8. QED
    BY <2>2, <2>4, <2>5, <2>7 DEF Smooth
<1>5. CASE Head(inbox[a]) # Sentinel
  <2>1. /\ actor' = [actor EXCEPT ![a] = "busy"] /\ UNCHANGED op
        /\ inbox' = [inbox EXCEPT ![a] = Tail(inbox[a])]
        /\ current' = [current EXCEPT ![a] = Head(inbox[a])]
    BY <1>5 DEF Take
  <2>2. PoolTypeOK'
    BY <1>1, <1>2, <1>3, <1>5, <2>1 DEF PoolTypeOK
  <2>3. Drives
    BY <1>1, <1>2, <2>1 DEF Drives, PoolTypeOK
  <2>4. ASSUME NEW b \in Actor
        PROVE  Calls(b)'
    <3>1. Calls(b)
      BY DEF PoolInv
    <3>2. CASE b # a
      <4>1. inbox'[b] = inbox[b] /\ current'[b] = current[b]
        BY <1>2, <2>1, <3>2 DEF PoolTypeOK
      <4>2. QED
        BY <1>1, <2>1, <3>1, <4>1 DEF Calls
    <3>3. CASE b = a
      <4> DEFINE s == inbox[a]
                 rest == Tail(s)
      <4>1. /\ Len(s) \in Nat /\ DOMAIN s = 1..Len(s) /\ Head(s) = s[1]
            /\ DOMAIN rest = 1..(Len(s) - 1)
            /\ \A i \in 1..(Len(s) - 1) : rest[i] = s[i + 1]
        BY <1>1, <1>2, HeadTailProperties, LenProperties
      <4>2. inbox'[b] = rest /\ current'[b] = Head(s) /\ Head(s) \in Client
        BY <1>2, <1>3, <1>5, <2>1, <3>3 DEF PoolTypeOK
      <4>3. \A i, j \in DOMAIN s : s[i] = s[j] /\ s[i] \in Client => i = j
        BY <1>2 DEF Calls
      <4> HIDE DEF s, rest
      <4>4. \A i \in DOMAIN rest : i + 1 \in DOMAIN s /\ i + 1 # 1 /\ rest[i] = s[i + 1]
        BY <4>1
      <4>5. 1 \in DOMAIN s \/ DOMAIN rest = {}
        BY <4>1
      <4>6. \A i \in DOMAIN rest : rest[i] # Head(s)
        BY <4>1, <4>2, <4>3, <4>4, <4>5
      <4>7. \A i, j \in DOMAIN rest : rest[i] = rest[j] /\ rest[i] \in Client => i = j
        <5>1. ASSUME NEW i \in DOMAIN rest, NEW j \in DOMAIN rest,
                     rest[i] = rest[j], rest[i] \in Client
              PROVE  i = j
          <6>1. i + 1 = j + 1
            BY <4>3, <4>4, <5>1
          <6>2. i \in Nat /\ j \in Nat
            BY <4>1
          <6>3. QED
            BY <6>1, <6>2
        <5>2. QED
          BY <5>1
      <4>8. Head(s) \notin ToSet(rest)
        BY <4>6 DEF ToSet
      <4>9. ASSUME NEW c \in Client, c \in ToSet(rest) \/ c = Head(s)
            PROVE  at[c] = "calling" /\ op[c] = "running" /\ own[c] = a
        <5>1. c \in ToSet(inbox[a])
          BY <1>3, <4>9 DEF s, rest
        <5>2. QED
          BY <1>2, <5>1 DEF Calls
      <4>10. QED
        BY <1>1, <2>1, <3>3, <4>2, <4>7, <4>8, <4>9 DEF Calls
    <3>4. QED
      BY <3>2, <3>3
  <2>5. QED
    BY <2>1, <2>2, <2>3, <2>4 DEF Smooth
<1> QED
  BY <1>4, <1>5

LEMMA AnswerSmooth ==
  ASSUME PoolInv, NEW a \in Actor, Answer(a)
  PROVE  Smooth
<1>1. PICK result \in {"done", "dead"} :
        op' = [c \in Client |-> IF c = current[a] THEN result ELSE op[c]]
  BY DEF Answer
<1>2. /\ actor[a] = "busy" /\ actor' = [actor EXCEPT ![a] = "serving"]
      /\ current' = [current EXCEPT ![a] = Nobody]
      /\ UNCHANGED <<pool, guard, at, key, own, toClose, cancelled, inbox, closing>>
  BY DEF Answer, entryVars
<1>3. PoolTypeOK /\ Nobody \notin Client /\ Nobody # Sentinel
  BY SessionPoolAssumption DEF PoolInv
<1>4. PoolTypeOK'
  BY <1>1, <1>2, <1>3 DEF PoolTypeOK, Ended
<1>5. ASSUME NEW c \in Client
      PROVE  \/ op'[c] = op[c] /\ c # current[a]
             \/ /\ at[c] = "calling" /\ op[c] = "running" /\ own[c] = a
                /\ op'[c] \in {"done", "dead"} /\ c = current[a]
  BY <1>1 DEF PoolInv, Calls
<1>6. Drives
  BY <1>2, <1>3, <1>5 DEF Drives, PoolTypeOK
<1>7. ASSUME NEW c \in Client
      PROVE  op'[c] = op[c] \/ Outcome(c)'
  BY <1>2, <1>5 DEF Outcome, Closers
<1>8. ASSUME NEW b \in Actor
      PROVE  Calls(b)'
  <2>1. /\ Calls(b) /\ Calls(a) /\ ToSet(inbox[b]) \subseteq Client \cup {Sentinel}
        /\ current'[b] = IF b = a THEN Nobody ELSE current[b]
    BY <1>2, <1>3, SetFacts DEF PoolInv, PoolTypeOK
  <2>2. ASSUME NEW c \in Client, c \in ToSet(inbox[b]) \/ c = current'[b]
        PROVE  at[c] = "calling" /\ op'[c] = "running" /\ own[c] = b
    <3>1. at[c] = "calling" /\ op[c] = "running" /\ own[c] = b
      BY <1>3, <2>1, <2>2 DEF Calls
    <3>2. c # current[a]
      BY <1>3, <2>1, <2>2, <3>1 DEF Calls
    <3>3. QED
      BY <1>5, <3>1, <3>2
  <2>3. current'[b] \notin ToSet(inbox[b])
    BY <1>3, <2>1 DEF Calls
  <2>4. QED
    BY <1>2, <2>1, <2>2, <2>3 DEF Calls
<1> QED
  BY <1>4, <1>6, <1>7, <1>8 DEF Smooth

\* The calls of a cancelled actor fail, and it leaves.
LEMMA CancelActorSmooth ==
  ASSUME PoolInv, NEW a \in Actor, CancelActor(a),
         UNCHANGED <<pool, guard, at, key, own, toClose, cancelled, closing>>
  PROVE  Smooth
<1>1. /\ PoolTypeOK /\ Calls(a) /\ Nobody \notin Client
      /\ <<>> \in Seq(Client \cup {Sentinel})
  BY SessionPoolAssumption, EmptySeq DEF PoolInv
<1>2. CASE actor[a] \in {"opening", "serving", "busy"}
  <2>1. /\ actor' = [actor EXCEPT ![a] = "leaving"]
        /\ inbox' = [inbox EXCEPT ![a] = <<>>]
        /\ current' = [current EXCEPT ![a] = Nobody]
        /\ op' = [c \in Client |-> IF c \in ToSet(inbox[a]) \cup {current[a]}
                                   THEN "failed" ELSE op[c]]
    BY <1>2 DEF CancelActor
  <2>2. PoolTypeOK'
    BY <1>1, <2>1 DEF PoolTypeOK, Ended
  <2>3. ASSUME NEW c \in Client
        PROVE  \/ op'[c] = op[c]
               \/ /\ at[c] = "calling" /\ op[c] = "running" /\ op'[c] = "failed"
                  /\ c \in ToSet(inbox[a]) \/ c = current[a]
    BY <1>1, <2>1 DEF Calls
  <2>4. Drives
    BY <1>1, <1>2, <2>1, <2>3 DEF Drives, PoolTypeOK
  <2>5. ASSUME NEW c \in Client
        PROVE  op'[c] = op[c] \/ Outcome(c)'
    BY <2>3 DEF Outcome, Closers
  <2>6. \A b \in Actor : Calls(b)'
    BY <2>1, <2>3, EmptiedCalls
  <2>7. QED
    BY <2>2, <2>4, <2>5, <2>6 DEF Smooth
<1>3. CASE actor[a] \notin {"opening", "serving", "busy"}
  <2>1. UNCHANGED <<actor, inbox, current, op>>
    BY <1>3 DEF CancelActor
  <2>2. PoolTypeOK'
    BY <1>1, <2>1 DEF PoolTypeOK
  <2>3. Drives
    BY <1>1, <2>1 DEF Drives
  <2>4. \A b \in Actor : Calls(b)'
    BY <2>1, CallsSame
  <2>5. QED
    BY <2>1, <2>2, <2>3, <2>4 DEF Smooth
<1> QED
  BY <1>2, <1>3

\* A call that is given up leaves its queue, or its execution.
LEMMA GiveUpSmooth ==
  ASSUME PoolInv, NEW c \in Client, c \in cancelled, at[c] = "calling",
         op[c] \in {"running", "unheard"},
         op' = [op EXCEPT ![c] = "failed"], inbox' = Orphaned(c),
         current' = [a \in Actor |-> IF current[a] = c THEN Nobody ELSE current[a]],
         UNCHANGED <<pool, guard, at, key, own, toClose, cancelled, actor, closing>>
  PROVE  Smooth
<1>1. PoolTypeOK /\ Nobody \notin Client /\ Nobody # Sentinel
  BY SessionPoolAssumption DEF PoolInv
<1>2. op'[c] = "failed" /\ \A d \in Client \ {c} : op'[d] = op[d]
  BY <1>1 DEF PoolTypeOK
<1>3. ASSUME NEW a \in Actor
      PROVE  /\ inbox'[a] = Without(inbox[a], {c})
             /\ inbox[a] \in Seq(Client \cup {Sentinel})
             /\ inbox'[a] \in Seq(Client \cup {Sentinel})
             /\ ToSet(inbox'[a]) = ToSet(inbox[a]) \ {c}
  <2>1. inbox'[a] = Without(inbox[a], {c}) /\ inbox[a] \in Seq(Client \cup {Sentinel})
    BY <1>1 DEF Orphaned, PoolTypeOK
  <2>2. QED
    BY <2>1, WithoutFacts
<1>4. inbox' \in [Actor -> Seq(Client \cup {Sentinel})]
  BY <1>3 DEF Orphaned
<1>5. PoolTypeOK'
  BY <1>1, <1>4 DEF PoolTypeOK, Ended
<1>6. Drives
  BY <1>2 DEF Drives
<1>7. Outcome(c)'
  BY <1>2 DEF Outcome, Closers
<1>8. ASSUME NEW a \in Actor
      PROVE  Calls(a)'
  <2>1. Calls(a) /\ ToSet(inbox[a]) \subseteq Client \cup {Sentinel}
    BY <1>3, SetFacts DEF PoolInv
  <2>2. /\ current'[a] # c
        /\ current'[a] = Nobody \/ current'[a] = current[a]
    BY <1>1
  <2>3. ASSUME NEW d \in Client, d \in ToSet(inbox'[a]) \/ d = current'[a]
        PROVE  at[d] = "calling" /\ op'[d] = "running" /\ own[d] = a
    <3>1. d # c /\ (d \in ToSet(inbox[a]) \/ d = current[a])
      BY <1>1, <1>3, <2>2, <2>3
    <3>2. QED
      BY <1>2, <2>1, <3>1 DEF Calls
  <2>4. current'[a] \notin ToSet(inbox'[a])
    BY <1>1, <1>3, <2>1, <2>2 DEF Calls
  <2>5. \A i, j \in DOMAIN inbox'[a] :
           inbox'[a][i] = inbox'[a][j] /\ inbox'[a][i] \in Client => i = j
    <3>1. \A i, j \in DOMAIN inbox[a] :
             inbox[a][i] = inbox[a][j] /\ inbox[a][i] \in Client => i = j
      BY <2>1 DEF Calls
    <3>2. \A i, j \in DOMAIN Without(inbox[a], {c}) :
             Without(inbox[a], {c})[i] = Without(inbox[a], {c})[j]
               /\ Without(inbox[a], {c})[i] \in Client => i = j
      BY <1>3, <3>1, WithoutOnce
    <3>3. QED
      BY <1>3, <3>2
  <2>6. QED
    BY <2>3, <2>4, <2>5 DEF Calls
<1> QED
  BY <1>2, <1>5, <1>6, <1>7, <1>8 DEF Smooth

LEMMA CancelLandsSmooth ==
  ASSUME PoolInv, NEW c \in Client, CancelLands(c)
  PROVE  Smooth
<1>1. /\ c \in cancelled
      /\ UNCHANGED <<pool, guard, at, key, own, toClose, cancelled, closing>>
  BY DEF CancelLands, entryVars
<1>2. PoolTypeOK /\ Mine(c)
  BY DEF PoolInv
<1>3. CASE /\ op[c] = "sent"
           /\ op' = [op EXCEPT ![c] = "failed"]
           /\ actor' = IF at[c] = "starting" THEN [actor EXCEPT ![own[c]] = "gone"] ELSE actor
           /\ UNCHANGED <<inbox, current>>
  <2>1. PoolTypeOK'
    BY <1>1, <1>2, <1>3 DEF PoolTypeOK, Ended
  <2>2. op'[c] = "failed" /\ \A d \in Client \ {c} : op'[d] = op[d]
    BY <1>2, <1>3 DEF PoolTypeOK
  <2>3. \A a \in Actor : actor'[a] = actor[a] \/ actor'[a] = "gone"
    BY <1>2, <1>3 DEF PoolTypeOK
  <2>4. Drives
    BY <1>1, <1>3, <2>2, <2>3 DEF Drives
  <2>5. Outcome(c)'
    BY <1>1, <2>2 DEF Outcome
  <2>6. \A d \in Client : at[d] = "calling" /\ op[d] = "running" => op'[d] = op[d]
    BY <1>3, <2>2
  <2>7. \A a \in Actor : Calls(a)'
    BY <1>1, <1>3, <2>6, CallsSame
  <2>8. QED
    BY <2>1, <2>2, <2>4, <2>5, <2>7 DEF Smooth
<1>4. CASE op[c] = "running" /\ at[c] # "calling" /\ CancelActor(Subject(c))
  <2>1. Subject(c) \in Actor
    BY <1>2, <1>4, HeadTailFacts DEF Subject, PoolTypeOK, Mine, Burdens
  <2>2. QED
    BY <1>1, <1>4, <2>1, CancelActorSmooth
<1> QED
  BY <1>1, <1>3, <1>4, GiveUpSmooth DEF CancelLands

\* The owner loop stops, and every actor with it.
LEMMA StopKeeps ==
  ASSUME PoolInv, NEW c \in Client, Stop(c)
  PROVE  PoolInv' /\ \A a \in Actor : LookedAfter(a)'
<1>1. /\ at[c] = "stopping" /\ toClose[c] = <<>>
      /\ actor' = [a \in Actor |-> "gone"]
      /\ inbox' = [a \in Actor |-> <<>>]
      /\ current' = [a \in Actor |-> Nobody]
      /\ closing' = {}
      /\ at' = [at EXCEPT ![c] = "idle"]
      /\ UNCHANGED <<pool, guard, key, own, toClose, cancelled>>
  BY DEF Stop, entryVars
<1>2. PICK late \in SUBSET {d \in Client : op[d] = "sent"} :
        op' = [d \in Client |-> IF d \in late THEN "lost"
                                ELSE IF op[d] \in {"sent", "running", "unheard"} THEN "failed"
                                ELSE op[d]]
  BY DEF Stop
<1>3. PoolTypeOK /\ Alone /\ Nobody \notin Client /\ <<>> \in Seq(Client \cup {Sentinel})
  BY SessionPoolAssumption, EmptySeq DEF PoolInv
<1>4. PoolTypeOK'
  BY <1>1, <1>2, <1>3 DEF PoolTypeOK, Ended
<1>5. ASSUME NEW d \in Client
      PROVE  /\ op'[d] = op[d] \/ (op[d] # "none" /\ op'[d] \in {"lost", "failed"})
             /\ op'[d] # "running"
             /\ at'[d] = IF d = c THEN "idle" ELSE at[d]
  BY <1>1, <1>2, <1>3 DEF PoolTypeOK
<1>6. op[c] = "none"
  BY <1>1 DEF PoolInv, Mine, Burdens
<1>7. ASSUME NEW d \in Client
      PROVE  Mine(d)'
  <2>1. Burdens(d) /\ Creates(d) /\ Outcome(d)
    BY DEF PoolInv, Mine
  <2>2. Burdens(d)'
    BY <1>1, <1>5, <2>1 DEF Burdens
  <2>3. Creates(d)'
    BY <1>1, <1>5, <2>1 DEF Creates, Pooled
  <2>4. \A a \in Actor : actor'[a] = "gone"
    BY <1>1
  <2>5. own[d] \in Actor /\ toClose[d] \in Seq(Actor) /\ ToSet(toClose[d]) \subseteq Actor
    BY <1>3, SetFacts DEF PoolTypeOK
  <2>6. at[d] \in Closers /\ op[d] = "done" => Head(toClose[d]) \in Actor
    BY <2>1, <2>5, HeadTailFacts DEF Burdens, Closers
  <2>7. Outcome(d)'
    <3>1. CASE d = c
      BY <1>1, <1>5, <1>6, <3>1 DEF Outcome, Closers
    <3>2. CASE d # c
      BY <1>1, <1>5, <2>1, <2>4, <2>5, <2>6, <3>2 DEF Outcome
    <3>3. QED
      BY <3>1, <3>2
  <2>8. QED
    BY <2>2, <2>3, <2>7 DEF Mine
<1>8. ASSUME NEW a \in Actor
      PROVE  Calls(a)'
  <2>1. ToSet(<<>>) = {}
    BY EmptySeq, SetFacts
  <2>2. DOMAIN <<>> = {}
    BY <2>1 DEF ToSet
  <2>3. inbox'[a] = <<>> /\ current'[a] = Nobody
    BY <1>1
  <2>4. QED
    BY <1>3, <2>1, <2>2, <2>3 DEF Calls
<1>9. Alone'
  BY <1>1, <1>3 DEF Alone
<1>10. \A a \in Actor : LookedAfter(a)'
  BY <1>1 DEF LookedAfter
<1> QED
  BY <1>4, <1>7, <1>8, <1>9, <1>10 DEF PoolInv

LEMMA DriverSmooth ==
  ASSUME PoolInv, (\E c \in Client : Begin(c) \/ CancelLands(c)) \/ (\E a \in Actor : Serve(a))
  PROVE  Smooth
<1>1. ASSUME NEW c \in Client, Begin(c)
      PROVE  Smooth
  BY <1>1, BeginStartSmooth, BeginCallSmooth, BeginCloseSmooth DEF Begin
<1>2. ASSUME NEW a \in Actor, Serve(a)
      PROVE  Smooth
  BY <1>2, OpenSmooth, TakeSmooth, AnswerSmooth, ExitSmooth DEF Serve
<1> QED
  BY <1>1, <1>2, CancelLandsSmooth

-----------------------------------------------------------------------------
(* The theorems about the session pool *)

\* A step is one of a client, one of the owner loop, or its end.
LEMMA PoolSteps ==
  ASSUME PoolNext
  PROVE  \/ \E c \in Client : ClientStep(c) \/ Stop(c)
         \/ \E c \in Client : Begin(c) \/ CancelLands(c)
         \/ \E a \in Actor : Serve(a)
BY DEF PoolNext, ClientStep

LEMMA PoolInitInv == PoolInit => PoolInv
<1> SUFFICES ASSUME PoolInit
             PROVE  PoolInv
  OBVIOUS
<1>1. /\ <<>> \in Seq(Actor) /\ <<>> \in Seq(Client \cup {Sentinel}) /\ ToSet(<<>>) = {}
      /\ Nobody \notin Client
  BY EmptySeq, SetFacts, SessionPoolAssumption
<1>2. DOMAIN <<>> = {}
  BY <1>1 DEF ToSet
<1>3. PoolTypeOK
  BY <1>1, <1>2, SomeFacts DEF PoolInit, PoolTypeOK, IsInjective
<1>4. Alone
  BY <1>1 DEF PoolInit, Alone
<1>5. \A c \in Client : Mine(c)
  BY DEF PoolInit, Mine, Burdens, Creates, Outcome, Closers
<1>6. \A a \in Actor : Calls(a)
  BY <1>1, <1>2 DEF PoolInit, Calls
<1> QED
  BY <1>3, <1>4, <1>5, <1>6 DEF PoolInv

LEMMA PoolInductive == PoolInv /\ [PoolNext]_poolVars => PoolInv'
<1> SUFFICES ASSUME PoolInv, [PoolNext]_poolVars
             PROVE  PoolInv'
  OBVIOUS
<1>1. CASE UNCHANGED poolVars
  BY <1>1 DEF poolVars, entryVars, clientVars, actorVars, PoolInv, PoolTypeOK, Alone, Mine,
     Burdens, Creates, Outcome, Calls, Pooled
<1>2. CASE PoolNext
  BY <1>2, PoolSteps, ClientFine, FineKeeps, StopKeeps, DriverSmooth, SmoothKeeps
<1> QED
  BY <1>1, <1>2

LEMMA PoolInvariant == PoolSpec => []PoolInv
BY PoolInitInv, PoolInductive, PTL DEF PoolSpec

\* A conversation has one session with a server, whatever calls, evictions, closes and
\* cancellations meet (MCPSessionPool.get_session, _acquire_creation_guard).
THEOREM OneSession == PoolSpec => []OneSessionPerKey
<1>1. PoolInv => OneSessionPerKey
  <2> SUFFICES ASSUME PoolInv, NEW a \in InUse, NEW b \in InUse, a[1] = b[1]
               PROVE  a = b
    BY DEF OneSessionPerKey, PoolInv
  <2>1. \A c \in Client : Creates(c)
    BY DEF PoolInv, Mine
  <2>2. ASSUME NEW c \in Client, at[c] = "starting"
        PROVE  own[c][1] = key[c] /\ guard[key[c]] = c /\ \A e \in ToSet(pool) : e[1] # key[c]
    BY <2>1, <2>2 DEF Creates, Pooled
  <2>3. \A e \in InUse : e \in ToSet(pool) \/ \E c \in Client : at[c] = "starting" /\ e = own[c]
    BY DEF InUse
  <2>4. QED
    BY <2>2, <2>3 DEF PoolInv, Alone
<1> QED
  BY <1>1, PoolInvariant, PTL

\* An open session that somebody would close is still looked after one step later, unless
\* the step lets a cancelled client go (OwnedMCPSession.aclose, close_session_if_current).
THEOREM SessionsAreKept == PoolSpec => NothingIsLost
<1>1. ASSUME PoolInv, [PoolNext]_poolVars, NEW a \in Actor, LookedAfter(a)
      PROVE  LookedAfter(a)' \/ \E c \in cancelled : at[c] # "idle" /\ at'[c] = "idle"
  <2>1. CASE UNCHANGED poolVars
    BY <1>1, <2>1 DEF poolVars, entryVars, clientVars, actorVars, LookedAfter, InUse
  <2>2. ASSUME NEW c \in Client, ClientStep(c)
        PROVE  LookedAfter(a)' \/ Quits(c)
    BY <1>1, <2>2, ClientFine, FineMinds
  <2>3. ASSUME NEW c \in Client, Stop(c)
        PROVE  LookedAfter(a)'
    BY <1>1, <2>3, StopKeeps
  <2>4. CASE (\E c \in Client : Begin(c) \/ CancelLands(c)) \/ (\E b \in Actor : Serve(b))
    BY <1>1, <2>4, DriverSmooth, DrivesMinds DEF Smooth
  <2>5. QED
    BY <1>1, <2>1, <2>2, <2>3, <2>4, PoolSteps DEF Quits
<1>2. PoolInv /\ [PoolNext]_poolVars =>
        [\A a \in Actor : LookedAfter(a) =>
           \/ LookedAfter(a)'
           \/ \E c \in cancelled : at[c] # "idle" /\ at'[c] = "idle"]_poolVars
  BY <1>1
<1> QED
  BY <1>2, PoolInvariant, PTL DEF PoolSpec, NothingIsLost

=============================================================================
