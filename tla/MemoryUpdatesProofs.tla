------------------------- MODULE MemoryUpdatesProofs -------------------------
(***************************************************************************)
(* MemoryUpdates, for any number of readers, reloading threads, updates and *)
(* configurations: nobody uses a closed manager, none is left open, and a   *)
(* single reload switches while nothing is written.                         *)
(*                                                                          *)
(* A manager is closed when its count of leases says that nobody uses it,   *)
(* so the invariant says what is counted (Counted), that the active manager *)
(* is open and not retired (Active), and where open managers come from.     *)
(* The switch is quiet because the drain ends with nobody at work (Drained- *)
(* Quiet): while the queue is paused only a flush starts a worker.          *)
(***************************************************************************)
EXTENDS MemoryUpdates, FiniteSetTheorems, TLAPS

UsersOf(m) == {x \in Users : uses[x] = m}

\* _manager_leases counts the users of a manager.
Counted == \A m \in Manager : leases[m] = Cardinality(UsersOf(m))

Active == manager # NoManager => manager \in open /\ manager \notin retired

Managers ==
  /\ manager \in Manager \cup {NoManager}
  /\ open \subseteq Manager /\ retired \subseteq open
  /\ leases \in [Manager -> Nat]
  /\ uses \in [Users -> Manager \cup {NoManager}]
  /\ Counted /\ Active /\ UsedManagersAreOpen /\ NoManagerIsLeaked

Queue ==
  /\ fate \in [Update -> {"new", "queued", "writing", "over"}]
  /\ timer \in {"none", "pending", "fired"}
  /\ threads \in Nat
  /\ worker \in {"idle", "leasing", "writing", "ending"}
  /\ pc \in [Flushers -> {"idle", "get", "flush", "waiting", "publish", "reset", "resume", "over"}]
  /\ target \in [Flushers -> Config]
  /\ config \in Config

Flags == starting \in BOOLEAN /\ requested \in BOOLEAN /\ paused \in BOOLEAN

\* The worker has a manager exactly while it writes.
WorkerUses == uses[Worker] # NoManager <=> worker = "writing"

DrainedQuiet ==
  \A r \in Reloaders :
    (/\ pc[r] \in {"publish", "reset"} /\ paused
     /\ \A f \in Flushers \ {r} : pc[f] = "idle") => ~processing /\ ~starting

IInv == Managers /\ Queue /\ Flags /\ WorkerUses /\ DrainedQuiet

-----------------------------------------------------------------------------
(* Managers *)

\* The users of a manager can be counted.
LEMMA Countable == \A m : IsFiniteSet(UsersOf(m)) /\ Cardinality(UsersOf(m)) \in Nat
<1>1. IsFiniteSet(Users)
  BY MemoryUpdatesAssumption, FS_AddElement DEF Users
<1>2. \A m : UsersOf(m) \in SUBSET Users
  BY DEF UsersOf
<1> QED
  BY <1>1, <1>2, FS_Subset, FS_CardinalityType

\* The lease of a manager is 0 when nobody uses it, and 1 when one user does.
LEMMA Counts ==
  ASSUME Managers, NEW m \in Manager
  PROVE  /\ leases[m] \in Nat
         /\ leases[m] = 0 => \A x \in Users : uses[x] # m
         /\ \A x \in Users : uses[x] = m =>
              leases[m] > 0 /\ (leases[m] = 1 => \A y \in Users \ {x} : uses[y] # m)
<1> USE DEF Managers
<1>1. leases[m] = Cardinality(UsersOf(m)) /\ leases[m] \in Nat
  BY DEF Counted
<1>2. leases[m] = 0 => UsersOf(m) = {}
  BY <1>1, Countable, FS_EmptySet
<1>3. ASSUME NEW x \in Users, uses[x] = m, leases[m] = 1, NEW y \in Users \ {x}, uses[y] = m
      PROVE  FALSE
  <2>1. x \in UsersOf(m) /\ y \in UsersOf(m)
    BY <1>3 DEF UsersOf
  <2>2. PICK z : UsersOf(m) = {z}
    BY <1>1, <1>3, Countable, FS_Singleton
  <2> QED
    BY <2>1, <2>2
<1>4. \A x \in Users : uses[x] = m => leases[m] # 0
  BY <1>2 DEF UsersOf
<1> QED
  BY <1>1, <1>2, <1>3, <1>4 DEF UsersOf

\* What a change of the active manager to m, or to none, leaves behind.
Changed(m) ==
  /\ manager' = m
  /\ m # NoManager => m \in open' /\ m \notin retired'
  /\ open' \subseteq Manager /\ retired' \subseteq open'
  /\ \A x \in Users : uses[x] # NoManager => uses[x] \in open'
  /\ \A n \in open' : n = m \/ (n \in retired' /\ \E x \in Users : uses[x] = n)

\* The manager that is replaced stays open only for its users.
LEMMA Retired ==
  ASSUME Managers, manager # NoManager, NEW m \in Manager \cup {NoManager}, m \notin open,
         manager' = m, Retire(manager, IF m = NoManager THEN open ELSE open \cup {m})
  PROVE  Changed(m)
<1> USE MemoryUpdatesAssumption DEF Managers, Changed
<1> DEFINE old == manager
           others == IF m = NoManager THEN open ELSE open \cup {m}
<1>1. old \in open /\ old \notin retired /\ old # m /\ old \in Manager
  BY DEF Active
<1>2. CASE leases[old] > 0
  <2>1. retired' = retired \cup {old} /\ open' = others
    BY <1>2 DEF Retire
  <2>2. \E x \in Users : uses[x] = old
    <3>1. Cardinality(UsersOf(old)) # 0
      BY <1>1, <1>2 DEF Counted
    <3>2. UsersOf(old) # {}
      BY <3>1, FS_EmptySet
    <3> QED
      BY <3>2 DEF UsersOf
  <2> QED
    BY <1>1, <2>1, <2>2 DEF UsedManagersAreOpen, NoManagerIsLeaked
<1>3. CASE ~(leases[old] > 0)
  <2>1. retired' = retired /\ open' = others \ {old}
    BY <1>3 DEF Retire
  <2>2. \A x \in Users : uses[x] # old
    BY <1>1, <1>3, Counts
  <2> QED
    BY <1>1, <2>1, <2>2 DEF UsedManagersAreOpen, NoManagerIsLeaked
<1> QED
  BY <1>2, <1>3

\* get_memory_manager() returns the active manager.
LEMMA Got ==
  ASSUME Managers, NEW c \in Config, NEW m \in Manager, GetManager(c, m)
  PROVE  Changed(m)
<1> USE MemoryUpdatesAssumption
<1>1. CASE Serves(c)
  BY <1>1 DEF GetManager, Managers, Active, UsedManagersAreOpen, NoManagerIsLeaked, Changed
<1>2. CASE ~Serves(c) /\ manager = NoManager
  <2>1. m \notin open /\ manager' = m /\ open' = open \cup {m} /\ retired' = retired
    BY <1>2 DEF GetManager
  <2> QED
    BY <1>2, <2>1 DEF Managers, UsedManagersAreOpen, NoManagerIsLeaked, Changed
<1>3. CASE ~Serves(c) /\ manager # NoManager
  BY <1>3, Retired DEF GetManager
<1> QED
  BY <1>1, <1>2, <1>3

\* A change of the active manager alone.
LEMMA Switched ==
  ASSUME Managers, NEW m \in Manager \cup {NoManager}, Changed(m), UNCHANGED <<leases, uses>>
  PROVE  Managers'
  BY DEF Managers, Changed, Counted, UsersOf, Active, UsedManagersAreOpen, NoManagerIsLeaked

\* A user that has no manager takes a lease on the active one.
LEMMA Began ==
  ASSUME Managers, config \in Config, NEW x \in Users, uses[x] = NoManager,
         NEW m \in Manager, BeginLease(x, m)
  PROVE  Managers' /\ uses'[x] = m /\ \A y \in Users \ {x} : uses'[y] = uses[y]
<1> USE MemoryUpdatesAssumption DEF BeginLease
<1>1. Changed(m)
  BY Got
<1>2. /\ uses' \in [Users -> Manager \cup {NoManager}] /\ uses'[x] = m
      /\ \A y \in Users \ {x} : uses'[y] = uses[y]
  BY DEF Managers
<1>3. UsersOf(m)' = UsersOf(m) \cup {x} /\ x \notin UsersOf(m)
  BY <1>2 DEF UsersOf
<1>4. \A n \in Manager \ {m} : UsersOf(n)' = UsersOf(n)
  BY <1>2 DEF UsersOf
<1>5. Cardinality(UsersOf(m)') = Cardinality(UsersOf(m)) + 1
  BY <1>3, Countable, FS_AddElement
<1>6. Counted' /\ leases' \in [Manager -> Nat]
  BY <1>4, <1>5 DEF Managers, Counted
<1>7. UsedManagersAreOpen'
  BY <1>1, <1>2 DEF UsedManagersAreOpen, Changed
<1>8. NoManagerIsLeaked'
  BY <1>1, <1>2 DEF NoManagerIsLeaked, Changed
<1>9. Active'
  BY <1>1 DEF Active, Changed
<1> QED
  BY <1>1, <1>2, <1>6, <1>7, <1>8, <1>9 DEF Managers, Changed

\* A user gives its manager back, and closes it if it is retired and nobody else has it.
LEMMA Ended ==
  ASSUME Managers, NEW x \in Users, uses[x] # NoManager, EndLease(x)
  PROVE  Managers' /\ uses'[x] = NoManager /\ \A y \in Users \ {x} : uses'[y] = uses[y]
<1> USE MemoryUpdatesAssumption
<1>1. PICK m \in Manager : m = uses[x]
  BY DEF Managers
<1> DEFINE closes == leases[m] = 1 /\ m \in retired
<1>2. /\ leases' = [leases EXCEPT ![m] = @ - 1]
      /\ uses' \in [Users -> Manager \cup {NoManager}] /\ uses'[x] = NoManager
      /\ \A y \in Users \ {x} : uses'[y] = uses[y]
      /\ retired' = IF closes THEN retired \ {m} ELSE retired
      /\ open' = IF closes THEN open \ {m} ELSE open
      /\ manager' = manager
  BY <1>1 DEF EndLease, Managers
<1>3. /\ leases[m] \in Nat /\ leases[m] > 0
      /\ leases[m] = 1 => \A y \in Users \ {x} : uses[y] # m
  BY <1>1, Counts
<1>4. UsersOf(m)' = UsersOf(m) \ {x} /\ x \in UsersOf(m)
  BY <1>1, <1>2 DEF UsersOf
<1>5. \A n \in Manager \ {m} : UsersOf(n)' = UsersOf(n)
  BY <1>1, <1>2 DEF UsersOf
<1>6. Cardinality(UsersOf(m)') = Cardinality(UsersOf(m)) - 1
  <2>1. IsFiniteSet(UsersOf(m))
    BY Countable
  <2>2. Cardinality(UsersOf(m) \ {x}) = Cardinality(UsersOf(m)) - 1
    BY <1>4, <2>1, FS_RemoveElement
  <2> QED
    BY <1>4, <2>2
<1>7. Counted' /\ leases' \in [Manager -> Nat]
  BY <1>2, <1>3, <1>5, <1>6 DEF Managers, Counted
<1>8. leases[m] # 1 => \E y \in Users \ {x} : uses[y] = m
  <2> SUFFICES ASSUME leases[m] # 1 PROVE \E y \in Users \ {x} : uses[y] = m
    OBVIOUS
  <2>1. Cardinality(UsersOf(m)') # 0 /\ IsFiniteSet(UsersOf(m)')
    BY <1>2, <1>3, <1>4, <1>6, Countable, FS_RemoveElement DEF Managers, Counted
  <2>2. UsersOf(m)' # {}
    BY <2>1, FS_EmptySet
  <2> QED
    BY <2>2, <1>4 DEF UsersOf
<1>9. UsedManagersAreOpen'
  BY <1>1, <1>2, <1>3 DEF Managers, UsedManagersAreOpen
<1>10. NoManagerIsLeaked'
  <2> SUFFICES ASSUME NEW n \in open', n # manager
               PROVE  n \in retired' /\ \E y \in Users : uses'[y] = n
    BY <1>2 DEF NoManagerIsLeaked
  <2>1. n \in open /\ n \in retired /\ \E y \in Users : uses[y] = n
    BY <1>2 DEF Managers, NoManagerIsLeaked
  <2>2. CASE n # m
    BY <2>1, <2>2, <1>1, <1>2
  <2>3. CASE n = m
    <3>1. ~closes
      BY <1>2, <2>3
    <3>2. leases[m] # 1
      BY <2>1, <2>3, <3>1
    <3> QED
      BY <1>1, <1>2, <1>8, <2>1, <2>3, <3>1, <3>2
  <2> QED
    BY <2>2, <2>3
<1>11. Active' /\ open' \subseteq Manager /\ retired' \subseteq open'
  BY <1>2 DEF Managers, Active
<1> QED
  BY <1>1, <1>2, <1>7, <1>9, <1>10, <1>11 DEF Managers

-----------------------------------------------------------------------------
(* The invariant is inductive *)

\* At the start there is no manager, and no update.
LEMMA InitIInv == Init => IInv
<1> SUFFICES ASSUME Init PROVE IInv
  OBVIOUS
<1> USE MemoryUpdatesAssumption DEF Init
<1>1. \A m \in Manager : UsersOf(m) = {}
  BY DEF UsersOf
<1>2. Managers
  BY <1>1, FS_EmptySet DEF Managers, Counted, Active, UsedManagersAreOpen, NoManagerIsLeaked
<1>3. Queue /\ WorkerUses /\ DrainedQuiet
  BY DEF Queue, WorkerUses, DrainedQuiet, Users, Flushers
<1>4. Flags
  BY Zenon DEF Flags
<1> QED
  BY <1>2, <1>3, <1>4 DEF IInv

\* Every step keeps the leases, and the worker's own.
LEMMA ManagersStep == IInv /\ [Next]_vars => Managers' /\ WorkerUses'
<1> SUFFICES ASSUME IInv, [Next]_vars PROVE Managers' /\ WorkerUses'
  OBVIOUS
<1> USE MemoryUpdatesAssumption DEF IInv, Queue, WorkerUses
<1>1. Worker \in Users
  BY DEF Users
<1>2. CASE UNCHANGED <<managerVars, uses>> /\ (worker' = worker \/ "writing" \notin {worker, worker'})
  BY <1>2 DEF managerVars, Managers, Counted, Active, UsedManagersAreOpen, NoManagerIsLeaked, UsersOf
<1>3. ASSUME NEW m \in Manager \cup {NoManager}, Changed(m), UNCHANGED <<leases, uses, worker>>
      PROVE  Managers' /\ WorkerUses'
  BY <1>3, Switched
<1>4. CASE UNCHANGED vars
  BY <1>2, <1>4 DEF vars, queueVars
<1>5. CASE (\E u \in Update : Add(u)) \/ (\E scopes \in SUBSET Scope : CancelPending(scopes)) \/ TimerFires
  BY <1>2, <1>5 DEF Add, CancelPending, TimerFires
<1>6. CASE TimerThreadEnters \/ FlushWorkerEnters
  BY <1>2, <1>6 DEF TimerThreadEnters, FlushWorkerEnters, Enter, ForgetTimer, processing
<1>7. CASE WorkerLeases
  BY <1>1, <1>7, Began DEF WorkerLeases
<1>8. CASE LeaseFails \/ Finish \/ \E s \in Scope : Write(s)
  BY <1>2, <1>8 DEF LeaseFails, Finish, Write
<1>9. CASE WorkerReleases
  BY <1>1, <1>9, Ended DEF WorkerReleases
<1>10. ASSUME NEW r \in Readers, ReaderBegins(r) \/ ReaderEnds(r) PROVE Managers' /\ WorkerUses'
  <2>1. r \in Users /\ UNCHANGED worker
    BY <1>10 DEF Users, ReaderBegins, ReaderEnds, queueVars
  <2>2. r # Worker
    OBVIOUS
  <2> QED
    BY <1>1, <1>10, <2>1, <2>2, Began, Ended DEF ReaderBegins, ReaderEnds
<1>11. ASSUME NEW f \in Flushers, Pause(f) \/ FlushStep(f) \/ FlushRaises(f) \/ FlushTimeout(f)
                                   \/ Publish(f) \/ Resume(f)
       PROVE  Managers' /\ WorkerUses'
  BY <1>2, <1>11 DEF Pause, FlushStep, FlushRaises, FlushTimeout, Publish, Resume, queueVars
<1>12. ASSUME NEW f \in Flushers, Reset(f) PROVE Managers' /\ WorkerUses'
  <2>1. UNCHANGED <<leases, uses, worker>> /\ manager' = NoManager
    BY <1>12 DEF Reset, queueVars
  <2>2. CASE manager = NoManager
    BY <1>2, <1>12, <2>1, <2>2 DEF Reset, managerVars
  <2>3. CASE manager # NoManager
    <3>1. NoManager \notin open
      BY DEF Managers
    <3>2. Changed(NoManager)
      BY <1>12, <2>1, <2>3, <3>1, Retired DEF Reset
    <3> QED
      BY <1>3, <2>1, <3>2
  <2> QED
    BY <2>2, <2>3
<1>13. CASE ShutdownReads \/ ShutdownGets
  <2>1. CASE ShutdownReads
    BY <1>2, <2>1 DEF ShutdownReads, queueVars
  <2>2. CASE ShutdownGets
    <3>1. target[Shutdown] \in Config
      BY DEF Flushers
    <3>2. PICK m \in Manager : GetManager(target[Shutdown], m)
      BY <2>2 DEF ShutdownGets
    <3>3. Changed(m)
      BY <3>1, <3>2, Got
    <3> QED
      BY <1>3, <2>2, <3>3 DEF ShutdownGets, queueVars
  <2> QED
    BY <1>13, <2>1, <2>2
<1> QED
  BY <1>4, <1>5, <1>6, <1>7, <1>8, <1>9, <1>10, <1>11, <1>12, <1>13 DEF Next, Process, Flush

\* Every step keeps the types of the queue.
LEMMA QueueStep == IInv /\ [Next]_vars => Queue'
<1> SUFFICES ASSUME IInv, [Next]_vars PROVE Queue'
  OBVIOUS
<1> USE MemoryUpdatesAssumption
    DEF IInv, Queue, queueVars, flushVars, Notify, Awakened, ScheduleTimer, Goto
<1>1. CASE UNCHANGED vars
  BY <1>1 DEF vars
<1>2. CASE (\E u \in Update : Add(u)) \/ (\E scopes \in SUBSET Scope : CancelPending(scopes)) \/ TimerFires
  BY <1>2 DEF Add, CancelPending, TimerFires
<1>3. CASE TimerThreadEnters \/ FlushWorkerEnters
  <2>1. PICK running \in Nat : Enter(FALSE, running) \/ Enter(TRUE, running)
    <3>1. CASE TimerThreadEnters
      <4>1. threads - 1 \in Nat
        BY <3>1 DEF TimerThreadEnters
      <4> QED
        BY <3>1, <4>1 DEF TimerThreadEnters
    <3>2. CASE FlushWorkerEnters
      BY <3>2 DEF FlushWorkerEnters
    <3> QED
      BY <1>3, <3>1, <3>2
  <2>2. /\ fate' \in [Update -> {"new", "queued", "writing", "over"}]
        /\ worker' \in {"idle", "leasing", "writing", "ending"}
    BY <2>1 DEF Enter
  <2>3. timer' \in {"none", "pending", "fired"} /\ threads' \in Nat
    BY <2>1 DEF Enter, ForgetTimer
  <2>4. /\ pc' \in [Flushers -> {"idle", "get", "flush", "waiting", "publish",
                               "reset", "resume", "over"}]
        /\ UNCHANGED <<target, config>>
    BY <2>1 DEF Enter
  <2> QED
    BY <2>2, <2>3, <2>4
<1>4. CASE WorkerLeases \/ LeaseFails \/ WorkerReleases \/ Finish \/ \E s \in Scope : Write(s)
  BY <1>4 DEF WorkerLeases, LeaseFails, WorkerReleases, Finish, Write
<1>5. CASE \E r \in Readers : ReaderBegins(r) \/ ReaderEnds(r)
  BY <1>5 DEF ReaderBegins, ReaderEnds
<1>6. ASSUME NEW f \in Flushers, Pause(f) \/ Publish(f) \/ Reset(f) \/ Resume(f) PROVE Queue'
  <2>1. CASE Pause(f)
    BY <2>1 DEF Pause
  <2>2. CASE Publish(f)
    BY <2>2 DEF Publish
  <2>3. CASE Reset(f)
    BY <2>3 DEF Reset
  <2>4. CASE Resume(f)
    BY <2>4 DEF Resume
  <2> QED
    BY <1>6, <2>1, <2>2, <2>3, <2>4
<1>7. ASSUME NEW f \in Flushers, FlushStep(f) \/ FlushRaises(f) \/ FlushTimeout(f) PROVE Queue'
  BY <1>7 DEF FlushStep, FlushRaises, FlushTimeout, Drained, Undrained
<1>8. CASE ShutdownReads \/ ShutdownGets
  BY <1>8 DEF ShutdownReads, ShutdownGets, Flushers
<1> QED
  BY <1>1, <1>2, <1>3, <1>4, <1>5, <1>6, <1>7, <1>8 DEF Next, Process, Flush

\* The flags stay truth values.
LEMMA FlagsStep == IInv /\ [Next]_vars => Flags'
<1> SUFFICES ASSUME IInv, [Next]_vars PROVE Flags'
  OBVIOUS
<1> USE DEF queueVars
<1>1. starting' \in {starting, TRUE, FALSE}
  BY DEF Next, vars, Process, Flush, Add, CancelPending, TimerFires, TimerThreadEnters,
         FlushWorkerEnters, Enter, WorkerLeases, LeaseFails, Write, WorkerReleases, Finish,
         ReaderBegins, ReaderEnds, Pause, FlushStep, FlushRaises, FlushTimeout, Publish, Reset,
         Resume, ShutdownReads, ShutdownGets
<1>2. paused' \in {paused, TRUE, FALSE}
  BY DEF Next, vars, Process, Flush, Add, CancelPending, TimerFires, TimerThreadEnters,
         FlushWorkerEnters, Enter, WorkerLeases, LeaseFails, Write, WorkerReleases, Finish,
         ReaderBegins, ReaderEnds, Pause, FlushStep, FlushRaises, FlushTimeout, Publish, Reset,
         Resume, ShutdownReads, ShutdownGets
<1>3. requested' \in BOOLEAN
  <2>1. CASE \E r \in Flushers : Resume(r)
    BY <2>1, Zenon DEF Resume
  <2>2. CASE ~\E r \in Flushers : Resume(r)
    <3>1. requested' \in {requested, TRUE, FALSE}
      BY <2>2 DEF Next, vars, Process, Flush, Add, CancelPending, TimerFires, TimerThreadEnters,
         FlushWorkerEnters, Enter, WorkerLeases, LeaseFails, Write, WorkerReleases, Finish,
         ReaderBegins, ReaderEnds, Pause, FlushStep, FlushRaises, FlushTimeout, Publish, Reset,
         ShutdownReads, ShutdownGets
    <3> QED
      BY <3>1, Zenon DEF IInv, Flags
  <2> QED
    BY <2>1, <2>2
<1> QED
  BY <1>1, <1>2, <1>3, Zenon DEF IInv, Flags

\* A flusher that does not wait stays where it is when the others are notified.
LEMMA Notified ==
  ASSUME Queue, Notify \/ UNCHANGED pc
  PROVE  \A f \in Flushers : pc'[f] \in {"idle", "publish", "reset"} => pc[f] = pc'[f]
  BY DEF Queue, Notify, Awakened

\* Every step keeps the switch quiet: a drain ends with nobody at work, and while the
\* queue stays paused and nobody else flushes, no worker begins.
LEMMA DrainedStep == IInv /\ [Next]_vars => DrainedQuiet'
<1> SUFFICES ASSUME IInv, [Next]_vars PROVE DrainedQuiet'
  OBVIOUS
<1>17. Flags'
  BY FlagsStep
<1> SUFFICES ASSUME NEW r \in Reloaders, pc'[r] \in {"publish", "reset"}, paused' = TRUE,
                    \A f \in Flushers \ {r} : pc'[f] = "idle"
             PROVE  worker' = "idle" /\ starting' = FALSE
  BY <1>17 DEF DrainedQuiet, processing, Flags
<1> USE MemoryUpdatesAssumption DEF IInv, Queue, queueVars, flushVars
<1> DEFINE Rest == worker = "idle" /\ starting = FALSE /\ paused = TRUE
<1>0. r \in Flushers /\ r # Shutdown
  BY DEF Flushers
<1>1. (\A f \in Flushers : pc[f] = pc'[f]) /\ UNCHANGED paused => Rest
  BY <1>0 DEF DrainedQuiet, processing, Flags
<1>2. (Notify \/ UNCHANGED pc) /\ UNCHANGED paused => Rest
  BY <1>0, <1>1, Notified
<1>3. CASE UNCHANGED vars
  BY <1>2, <1>3 DEF vars
<1>4. CASE (\E u \in Update : Add(u)) \/ (\E scopes \in SUBSET Scope : CancelPending(scopes)) \/ TimerFires
  BY <1>2, <1>4 DEF Add, CancelPending, TimerFires
<1>5. CASE TimerThreadEnters
  BY <1>2, <1>5 DEF TimerThreadEnters, Enter
<1>6. CASE FlushWorkerEnters
  BY <1>2, <1>6 DEF FlushWorkerEnters, Enter
<1>7. CASE WorkerLeases \/ LeaseFails \/ WorkerReleases \/ Finish \/ \E s \in Scope : Write(s)
  BY <1>2, <1>7 DEF WorkerLeases, LeaseFails, WorkerReleases, Finish, Write
<1>8. CASE \E x \in Readers : ReaderBegins(x) \/ ReaderEnds(x)
  BY <1>2, <1>8 DEF ReaderBegins, ReaderEnds
<1>9. ASSUME NEW f \in Flushers, pc'[f] \in {"get", "flush", "waiting", "resume", "over"} PROVE FALSE
  BY <1>9
<1>10. ASSUME NEW f \in Flushers, Pause(f) PROVE FALSE
  BY <1>9, <1>10 DEF Pause, Awakened
<1>11. ASSUME NEW f \in Flushers, FlushRaises(f) \/ FlushTimeout(f) PROVE FALSE
  BY <1>9, <1>11 DEF FlushRaises, FlushTimeout, Undrained, Goto, Awakened
<1>12. ASSUME NEW f \in Flushers, FlushStep(f) PROVE worker' = "idle" /\ starting' = FALSE
  <2>1. ~busy /\ UNCHANGED <<starting, worker>>
    BY <1>9, <1>12 DEF FlushStep, Goto
  <2> QED
    BY <2>1 DEF busy, processing, Flags
<1>13. ASSUME NEW f \in Flushers, Publish(f) PROVE Rest
  <2>1. pc[f] = "publish" /\ pc'[f] = "reset" /\ UNCHANGED paused
        /\ \A g \in Flushers \ {f} : pc'[g] = pc[g]
    BY <1>13 DEF Publish, Goto
  <2>2. f = r
    BY <2>1
  <2> QED
    BY <2>1, <2>2 DEF DrainedQuiet, processing, Flags
<1>14. ASSUME NEW f \in Flushers, Reset(f) \/ Resume(f) PROVE FALSE
  <2>1. CASE Reset(f)
    BY <1>9, <2>1 DEF Reset, Goto
  <2>2. CASE Resume(f)
    BY <2>2 DEF Resume
  <2> QED
    BY <1>14, <2>1, <2>2
<1>15. CASE ShutdownReads \/ ShutdownGets
  <2>1. Shutdown \in Flushers
    BY DEF Flushers
  <2> QED
    BY <1>9, <1>15, <2>1 DEF ShutdownReads, ShutdownGets, Goto
<1>16. ASSUME NEW f \in Flushers, Publish(f) PROVE worker' = "idle" /\ starting' = FALSE
  BY <1>13, <1>16 DEF Publish
<1> QED
  BY <1>3, <1>4, <1>5, <1>6, <1>7, <1>8, <1>10, <1>11, <1>12, <1>14, <1>15, <1>16 DEF Next, Process, Flush

\* The invariant holds in every behaviour.
THEOREM Inductive == Spec => []IInv
<1>1. IInv /\ [Next]_vars => IInv'
  BY ManagersStep, QueueStep, FlagsStep, DrainedStep DEF IInv
<1> QED
  BY InitIInv, <1>1, PTL DEF Spec

-----------------------------------------------------------------------------
(* What it shows *)

\* Every variable has its type.
THEOREM TypeCorrect == Spec => []TypeOK
<1>1. IInv => TypeOK
  <2> SUFFICES ASSUME IInv PROVE TypeOK
    OBVIOUS
  <2>1. Managers /\ Queue
    BY DEF IInv
  <2>2. starting \in BOOLEAN /\ requested \in BOOLEAN /\ paused \in BOOLEAN
    BY Zenon DEF IInv, Flags
  <2>3. retired \subseteq Manager
    BY <2>1 DEF Managers
  <2> QED
    BY <2>1, <2>2, <2>3 DEF Managers, Queue, TypeOK
<1> QED
  BY <1>1, Inductive, PTL

\* A reader, or the worker, never has a manager that has been closed
\* (memory_manager_lease, _retire_manager_locked).
THEOREM UsersHaveOpenManagers == Spec => []UsedManagersAreOpen
<1>1. IInv => UsedManagersAreOpen
  BY DEF IInv, Managers
<1> QED
  BY <1>1, Inductive, PTL

\* An open manager is the active one or is retired and in use: its last user closes it.
THEOREM ManagersAreClosed == Spec => []NoManagerIsLeaked
<1>1. IInv => NoManagerIsLeaked
  BY DEF IInv, Managers
<1> QED
  BY <1>1, Inductive, PTL

\* While a single reload switches configuration and manager, nothing is being written
\* (_apply_memory_config).
THEOREM SwitchesAreQuiet == Spec => []SwitchIsQuiet
<1>1. IInv => SwitchIsQuiet
  BY DEF IInv, DrainedQuiet, SwitchIsQuiet
<1> QED
  BY <1>1, Inductive, PTL

=============================================================================
