------------------------- MODULE ThreadCleanupProofs -------------------------
(***************************************************************************)
(* ThreadCleanup, for any number of processes, conversations, jobs and      *)
(* users, any expiry, stop and crash: what is erased is inactive, erased by *)
(* one job, and never after stop().                                         *)
(*                                                                          *)
(* The claim protects a conversation only together with the lease: whoever  *)
(* takes the lease over drops the claims of its owner, live ones too.  So   *)
(* the inductive invariant follows the lease (Owned) to show that a job     *)
(* whose lease and claim have not lapsed still has its claim (Guarded), and *)
(* the activity (Active) to show that no user is behind such a claim.  The  *)
(* gate of each process is owned by one deletion at a time (Gated).         *)
(***************************************************************************)
EXTENDS ThreadCleanup, TLAPS

\* A job id is at work in one process.
Typed ==
  /\ TypeOK
  /\ \A p \in Proc : job[p] \in Job <=> jpc[p] # "idle"
  /\ \A p, q \in Proc : job[p] \in Job /\ job[q] = job[p] => p = q

\* Nobody can take the lease from a job it has not lapsed for.
Owned ==
  \A p \in Proc : job[p] \in Job \ unguarded /\ lease = job[p] => leaseLive

\* A conversation in use is not old.
Active == \A u \in User : upc[u] \in {"touched", "running"} => activity[on[u]] # "old"

InErasure == {"erasing", "forgotten"}

\* Every deletion under way has its conversation in _deleting_threads, which no other
\* deletion of the process shares, and no run is behind it.
Gated ==
  /\ \A p \in Proc : jpc[p] \in InErasure => current[p] \in deleting[p]
  /\ \A u \in User : upc[u] \in InErasure => on[u] \in deleting[ProcOf[u]]
  /\ \A u \in User : upc[u] \in InErasure /\ jpc[ProcOf[u]] \in InErasure
                       => on[u] # current[ProcOf[u]]
  /\ \A u, v \in User : /\ upc[u] \in InErasure /\ upc[v] \in InErasure
                          /\ ProcOf[u] = ProcOf[v] /\ on[u] = on[v]
                          => u = v
  /\ \A u \in User : upc[u] = "running" => on[u] \notin deleting[ProcOf[u]]

\* A job at work that has not lapsed holds its claim, and nobody has used the conversation.
Guarded ==
  \A p \in Proc : jpc[p] \in {"claimed", "erasing"} /\ job[p] \notin unguarded =>
    /\ claim[current[p]] = job[p] /\ current[p] \in claimLive
    /\ activity[current[p]] = "old"

\* A job that is started beside or after stop() does not come to its first candidate.
Quiet == \A p \in Proc : service[p] = "stopped" =>
            jpc[p] \in {"idle", "acquired", "created", "scan", "ending", "releasing"}

IInv == Typed /\ Owned /\ Active /\ Gated /\ Guarded /\ Quiet

-----------------------------------------------------------------------------
(* The invariant is inductive *)

LEMMA AnyThreadType == AnyThread \in Thread
  BY ThreadCleanupAssumption DEF AnyThread

\* A job id is new whenever there is one to take.
LEMMA NewJobIsFresh == ASSUME Fresh # {} PROVE NewJob \in Fresh
  BY DEF NewJob

\* A step keeps the types, and job ids apart: the lease gives out fresh ones.
LEMMA TypedStep == IInv /\ [Next]_vars => Typed'
<1> SUFFICES ASSUME IInv, [Next]_vars PROVE Typed'
  OBVIOUS
<1> USE ThreadCleanupAssumption, AnyThreadType, NewJobIsFresh DEF IInv, Typed, TypeOK, db, jobVars, userVars
<1>1. CASE UNCHANGED vars
  BY <1>1 DEF vars
<1>2. CASE LeaseExpires
  BY <1>2 DEF LeaseExpires, Lapse, AtWork
<1>3. ASSUME NEW t \in Thread, Age(t) \/ Backfill(t) \/ ClaimExpires(t) PROVE Typed'
  <2>1. CASE Age(t)
    BY <2>1 DEF Age
  <2>2. CASE Backfill(t)
    BY <2>2 DEF Backfill
  <2>3. CASE ClaimExpires(t)
    BY <2>3 DEF ClaimExpires, Claimed, Lapse
  <2> QED
    BY <1>3, <2>1, <2>2, <2>3
<1>4. ASSUME NEW u \in User, NEW t \in Thread, Touch(u, t) \/ UserDeletes(u, t) PROVE Typed'
  <2>1. CASE Touch(u, t)
    BY <2>1 DEF Touch
  <2>2. CASE UserDeletes(u, t)
    BY <2>2 DEF UserDeletes, TakeGate, MayDelete
  <2> QED
    BY <1>4, <2>1, <2>2
<1>5. ASSUME NEW u \in User, MarkRunning(u) \/ RunEnds(u) \/ UserForgets(u) \/ UserDeleted(u) PROVE Typed'
  <2>1. CASE MarkRunning(u)
    BY <2>1 DEF MarkRunning
  <2>2. CASE RunEnds(u)
    BY <2>2 DEF RunEnds
  <2>3. CASE UserForgets(u)
    BY <2>3 DEF UserForgets, Forget, Lapse
  <2>4. CASE UserDeleted(u)
    BY <2>4 DEF UserDeleted, FreeGate
  <2> QED
    BY <1>5, <2>1, <2>2, <2>3, <2>4
<1>6. ASSUME NEW p \in Proc,
             AcquireLease(p) \/ Heartbeat(p) \/ Work(p) \/ Faults(p) \/ StopBegins(p) \/ StopEnds(p)
      PROVE  Typed'
  <2>1. CASE AcquireLease(p)
    <3>1. NewJob \in Fresh
      BY <2>1, NewJobIsFresh DEF AcquireLease
    <3>2. NewJob \in Job /\ \A q \in Proc : job[q] # NewJob
      BY <3>1 DEF Fresh
    <3>3. record' \in [Job -> {"none", "pending", "running", "over", "abandoned"}]
      BY <2>1 DEF AcquireLease, Inherited
    <3>4. claim' \in [Thread -> Job \cup {NoJob}] /\ claimLive' \subseteq Thread
      BY <2>1 DEF AcquireLease
    <3>5. /\ jpc' = [jpc EXCEPT ![p] = "acquired"] /\ job' = [job EXCEPT ![p] = NewJob]
          /\ lease' = NewJob /\ leaseLive' = TRUE /\ unguarded' \subseteq Job
          /\ UNCHANGED <<activity, seen, current, lost, service, deleting, upc, on, faults>>
          /\ jpc[p] = "idle"
      BY <2>1 DEF AcquireLease
    <3> QED
      BY <3>2, <3>3, <3>4, <3>5
  <2>2. CASE Heartbeat(p)
    <3>1. leaseLive' \in BOOLEAN /\ claimLive' \subseteq Thread /\ lost' \subseteq Proc
      <4>1. CASE lease = job[p]
        <5>1. /\ leaseLive' = TRUE /\ lost' = lost
              /\ claimLive' = claimLive \/ claimLive' = claimLive \cup {current[p]}
          BY <2>2, <4>1 DEF Heartbeat
        <5> QED
          BY <5>1
      <4>2. CASE lease # job[p]
        BY <2>2, <4>2 DEF Heartbeat
      <4> QED
        BY <4>1, <4>2
    <3>2. UNCHANGED <<activity, claim, lease, record, jpc, job, seen, current, service, deleting, upc, on,
                      unguarded, faults>>
      BY <2>2 DEF Heartbeat
    <3> QED
      BY <3>1, <3>2
  <2>3. CASE InsertRecord(p)
    BY <2>3 DEF InsertRecord
  <2>4. CASE Begin(p)
    BY <2>4 DEF Begin, Write, Goto
  <2>5. CASE LoopEnds(p)
    BY <2>5 DEF LoopEnds, Goto
  <2>6. CASE Scan(p)
    BY <2>6 DEF Scan, Candidates, Goto
  <2>7. CASE Consider(p)
    <3>1. /\ UNCHANGED <<db, job, seen, current, lost, service, deleting, userVars, unguarded, faults>>
          /\ jpc[p] = "consider"
          /\ \E place \in {"scan", "claiming"} : jpc' = [jpc EXCEPT ![p] = place]
      BY <2>7 DEF Consider, Goto
    <3> QED
      BY <3>1
  <2>8. CASE Claim(p)
    BY <2>8 DEF Claim, Goto
  <2>9. CASE Erase(p)
    BY <2>9 DEF Erase, TakeGate, Goto
  <2>10. CASE Erased(p)
    BY <2>10 DEF Erased, Forget, Lapse, AtWork, Goto
  <2>11. CASE ErasureReturns(p)
    BY <2>11 DEF ErasureReturns, FreeGate, Goto
  <2>12. CASE ForgetAgain(p)
    BY <2>12 DEF ForgetAgain, Forget, Lapse, AtWork, Goto
  <2>13. CASE ReleaseClaim(p)
    BY <2>13 DEF ReleaseClaim, Goto
  <2>14. CASE WriteOutcome(p)
    BY <2>14 DEF WriteOutcome, Write, Goto
  <2>15. CASE JobOver(p)
    BY <2>15 DEF JobOver, ReleaseLease, Idle
  <2>16. CASE StartGivesUp(p)
    BY <2>16 DEF StartGivesUp, ReleaseLease, Idle
  <2>17. CASE StartInterrupted(p)
    BY <2>17 DEF StartInterrupted, Idle
  <2>18. CASE ErasureFails(p)
    BY <2>18 DEF ErasureFails, FreeGate, Goto
  <2>19. CASE Interrupted(p)
    <3>1. CASE jpc[p] = "created" /\ Idle(p)
      BY <2>19, <3>1 DEF Interrupted, Idle, Write, Goto
    <3>2. CASE Goto(p, "ending") /\ UNCHANGED <<job, seen, current, lost, unguarded>>
      <4>1. claim' \in [Thread -> Job \cup {NoJob}] /\ claimLive' \subseteq Thread
        BY <2>19, <3>2 DEF Interrupted, Goto
      <4>2. jpc' = [jpc EXCEPT ![p] = "ending"] /\ jpc[p] # "idle"
        BY <2>19, <3>2 DEF Interrupted, Goto
      <4>3. UNCHANGED record
        BY <2>19, <3>2 DEF Interrupted, Goto, Idle
      <4> QED
        BY <2>19, <3>2, <4>1, <4>2, <4>3 DEF Interrupted
    <3> QED
      BY <2>19, <3>1, <3>2 DEF Interrupted
  <2>20. CASE Crash(p)
    BY <2>20 DEF Crash, Idle
  <2>21. CASE StopBegins(p)
    BY <2>21 DEF StopBegins
  <2>22. CASE StopEnds(p)
    BY <2>22 DEF StopEnds, HasTask
  <2> QED
    BY <1>6, <2>1, <2>2, <2>3, <2>4, <2>5, <2>6, <2>7, <2>8, <2>9, <2>10, <2>11, <2>12, <2>13, <2>14, <2>15, <2>16, <2>17, <2>18, <2>19, <2>20, <2>21, <2>22 DEF Work, Faults
<1> QED
  BY <1>1, <1>2, <1>3, <1>4, <1>5, <1>6 DEF Next

\* After stop() the loop is not entered: what looks for a candidate looks at _stopping.
LEMMA QuietStep == IInv /\ [Next]_vars => Quiet'
<1> SUFFICES ASSUME IInv, [Next]_vars PROVE Quiet'
  OBVIOUS
<1> USE ThreadCleanupAssumption, AnyThreadType, NewJobIsFresh DEF IInv, Typed, TypeOK, Quiet, MustStop, db, jobVars, userVars
<1>1. CASE UNCHANGED vars
  BY <1>1 DEF vars
<1>2. CASE LeaseExpires
  BY <1>2 DEF LeaseExpires, Lapse, AtWork
<1>3. ASSUME NEW t \in Thread, Age(t) \/ Backfill(t) \/ ClaimExpires(t) PROVE Quiet'
  <2>1. CASE Age(t)
    BY <2>1 DEF Age
  <2>2. CASE Backfill(t)
    BY <2>2 DEF Backfill
  <2>3. CASE ClaimExpires(t)
    BY <2>3 DEF ClaimExpires, Claimed, Lapse
  <2> QED
    BY <1>3, <2>1, <2>2, <2>3
<1>4. ASSUME NEW u \in User, NEW t \in Thread, Touch(u, t) \/ UserDeletes(u, t) PROVE Quiet'
  <2>1. CASE Touch(u, t)
    BY <2>1 DEF Touch
  <2>2. CASE UserDeletes(u, t)
    BY <2>2 DEF UserDeletes, TakeGate, MayDelete
  <2> QED
    BY <1>4, <2>1, <2>2
<1>5. ASSUME NEW u \in User, MarkRunning(u) \/ RunEnds(u) \/ UserForgets(u) \/ UserDeleted(u) PROVE Quiet'
  <2>1. CASE MarkRunning(u)
    BY <2>1 DEF MarkRunning
  <2>2. CASE RunEnds(u)
    BY <2>2 DEF RunEnds
  <2>3. CASE UserForgets(u)
    BY <2>3 DEF UserForgets, Forget, Lapse
  <2>4. CASE UserDeleted(u)
    BY <2>4 DEF UserDeleted, FreeGate
  <2> QED
    BY <1>5, <2>1, <2>2, <2>3, <2>4
<1>6. ASSUME NEW p \in Proc,
             AcquireLease(p) \/ Heartbeat(p) \/ Work(p) \/ Faults(p) \/ StopBegins(p) \/ StopEnds(p)
      PROVE  Quiet'
  <2>1. CASE AcquireLease(p)
    BY <2>1 DEF AcquireLease, LeaseHeld, Inherited
  <2>2. CASE Heartbeat(p)
    BY <2>2 DEF Heartbeat
  <2>3. CASE InsertRecord(p)
    BY <2>3 DEF InsertRecord
  <2>4. CASE Begin(p)
    BY <2>4 DEF Begin, Write, Goto
  <2>5. CASE LoopEnds(p)
    BY <2>5 DEF LoopEnds, Goto
  <2>6. CASE Scan(p)
    BY <2>6 DEF Scan, Candidates, Goto
  <2>7. CASE Consider(p)
    BY <2>7 DEF Consider, Goto
  <2>8. CASE Claim(p)
    BY <2>8 DEF Claim, Goto
  <2>9. CASE Erase(p)
    BY <2>9 DEF Erase, TakeGate, Goto
  <2>10. CASE Erased(p)
    BY <2>10 DEF Erased, Forget, Lapse, Goto
  <2>11. CASE ErasureReturns(p)
    BY <2>11 DEF ErasureReturns, FreeGate, Goto
  <2>12. CASE ForgetAgain(p)
    BY <2>12 DEF ForgetAgain, Forget, Lapse, Goto
  <2>13. CASE ReleaseClaim(p)
    BY <2>13 DEF ReleaseClaim, Goto
  <2>14. CASE WriteOutcome(p)
    BY <2>14 DEF WriteOutcome, Write, Goto
  <2>15. CASE JobOver(p)
    BY <2>15 DEF JobOver, ReleaseLease, Idle
  <2>16. CASE StartGivesUp(p)
    BY <2>16 DEF StartGivesUp, ReleaseLease, Idle
  <2>17. CASE StartInterrupted(p)
    BY <2>17 DEF StartInterrupted, Idle
  <2>18. CASE ErasureFails(p)
    BY <2>18 DEF ErasureFails, FreeGate, Goto
  <2>19. CASE Interrupted(p)
    BY <2>19 DEF Interrupted, Idle, Write, Goto
  <2>20. CASE Crash(p)
    BY <2>20 DEF Crash, Idle
  <2>21. CASE StopBegins(p)
    BY <2>21 DEF StopBegins
  <2>22. CASE StopEnds(p)
    BY <2>22 DEF StopEnds, HasTask
  <2> QED
    BY <1>6, <2>1, <2>2, <2>3, <2>4, <2>5, <2>6, <2>7, <2>8, <2>9, <2>10, <2>11, <2>12, <2>13, <2>14, <2>15, <2>16, <2>17, <2>18, <2>19, <2>20, <2>21, <2>22 DEF Work, Faults
<1> QED
  BY <1>1, <1>2, <1>3, <1>4, <1>5, <1>6 DEF Next

\* The lease is renewed or lapses under its owner, and only a lapsed one is taken.
LEMMA OwnedStep == IInv /\ [Next]_vars => Owned'
<1> SUFFICES ASSUME IInv, [Next]_vars PROVE Owned'
  OBVIOUS
<1> USE ThreadCleanupAssumption, NewJobIsFresh DEF IInv, Typed, TypeOK, Owned, db, jobVars, userVars
<1>1. CASE UNCHANGED vars
  BY <1>1 DEF vars
<1>2. CASE LeaseExpires
  BY <1>2 DEF LeaseExpires, Lapse, AtWork
<1>3. ASSUME NEW t \in Thread, Age(t) \/ Backfill(t) \/ ClaimExpires(t) PROVE Owned'
  <2>1. CASE Age(t)
    BY <2>1 DEF Age
  <2>2. CASE Backfill(t)
    BY <2>2 DEF Backfill
  <2>3. CASE ClaimExpires(t)
    BY <2>3 DEF ClaimExpires, Claimed, Lapse, AtWork
  <2> QED
    BY <1>3, <2>1, <2>2, <2>3
<1>4. ASSUME NEW u \in User, NEW t \in Thread, Touch(u, t) \/ UserDeletes(u, t) PROVE Owned'
  <2>1. CASE Touch(u, t)
    BY <2>1 DEF Touch, Claimed
  <2>2. CASE UserDeletes(u, t)
    BY <2>2 DEF UserDeletes, TakeGate, MayDelete
  <2> QED
    BY <1>4, <2>1, <2>2
<1>5. ASSUME NEW u \in User, MarkRunning(u) \/ RunEnds(u) \/ UserForgets(u) \/ UserDeleted(u) PROVE Owned'
  <2>1. CASE MarkRunning(u)
    BY <2>1 DEF MarkRunning
  <2>2. CASE RunEnds(u)
    BY <2>2 DEF RunEnds
  <2>3. CASE UserForgets(u)
    BY <2>3 DEF UserForgets, Forget, Lapse, AtWork
  <2>4. CASE UserDeleted(u)
    BY <2>4 DEF UserDeleted, FreeGate
  <2> QED
    BY <1>5, <2>1, <2>2, <2>3, <2>4
<1>6. ASSUME NEW p \in Proc,
             AcquireLease(p) \/ Heartbeat(p) \/ Work(p) \/ Faults(p) \/ StopBegins(p) \/ StopEnds(p)
      PROVE  Owned'
  <2>1. CASE AcquireLease(p)
    BY <2>1 DEF AcquireLease, LeaseHeld, Fresh
  <2>2. CASE Heartbeat(p)
    BY <2>2 DEF Heartbeat
  <2>3. CASE InsertRecord(p)
    BY <2>3 DEF InsertRecord
  <2>4. CASE Begin(p)
    BY <2>4 DEF Begin, Write, Goto
  <2>5. CASE LoopEnds(p)
    BY <2>5 DEF LoopEnds, Goto
  <2>6. CASE Scan(p)
    BY <2>6 DEF Scan, Candidates, Goto
  <2>7. CASE Consider(p)
    BY <2>7 DEF Consider, Goto
  <2>8. CASE Claim(p)
    BY <2>8 DEF Claim, Claimable, Claimed, Goto
  <2>9. CASE Erase(p)
    BY <2>9 DEF Erase, TakeGate, MayDelete, Goto
  <2>10. CASE Erased(p)
    BY <2>10 DEF Erased, Forget, Lapse, AtWork, Goto
  <2>11. CASE ErasureReturns(p)
    BY <2>11 DEF ErasureReturns, FreeGate, Goto
  <2>12. CASE ForgetAgain(p)
    BY <2>12 DEF ForgetAgain, Forget, Lapse, AtWork, Goto
  <2>13. CASE ReleaseClaim(p)
    BY <2>13 DEF ReleaseClaim, Goto
  <2>14. CASE WriteOutcome(p)
    BY <2>14 DEF WriteOutcome, Write, Goto
  <2>15. CASE JobOver(p)
    BY <2>15 DEF JobOver, ReleaseLease, Idle
  <2>16. CASE StartGivesUp(p)
    BY <2>16 DEF StartGivesUp, ReleaseLease, Idle
  <2>17. CASE StartInterrupted(p)
    BY <2>17 DEF StartInterrupted, Idle
  <2>18. CASE ErasureFails(p)
    BY <2>18 DEF ErasureFails, FreeGate, Goto
  <2>19. CASE Interrupted(p)
    BY <2>19 DEF Interrupted, Claimable, Claimed, Idle, Write, Goto
  <2>20. CASE Crash(p)
    BY <2>20 DEF Crash, Idle
  <2>21. CASE StopBegins(p)
    BY <2>21 DEF StopBegins
  <2>22. CASE StopEnds(p)
    BY <2>22 DEF StopEnds, HasTask
  <2> QED
    BY <1>6, <2>1, <2>2, <2>3, <2>4, <2>5, <2>6, <2>7, <2>8, <2>9, <2>10, <2>11, <2>12, <2>13, <2>14, <2>15, <2>16, <2>17, <2>18, <2>19, <2>20, <2>21, <2>22 DEF Work, Faults
<1> QED
  BY <1>1, <1>2, <1>3, <1>4, <1>5, <1>6 DEF Next

\* touch_thread() comes before the run, and nothing ages under it.
LEMMA ActiveStep == IInv /\ [Next]_vars => Active'
<1> SUFFICES ASSUME IInv, [Next]_vars PROVE Active'
  OBVIOUS
<1> USE ThreadCleanupAssumption DEF IInv, TypeOK, Typed, Active, db, jobVars, userVars
<1>1. CASE UNCHANGED vars
  BY <1>1 DEF vars
<1>2. CASE LeaseExpires
  BY <1>2 DEF LeaseExpires, Lapse, AtWork
<1>3. ASSUME NEW t \in Thread, Age(t) \/ Backfill(t) \/ ClaimExpires(t) PROVE Active'
  <2>1. CASE Age(t)
    BY <2>1 DEF Age
  <2>2. CASE Backfill(t)
    BY <2>2 DEF Backfill
  <2>3. CASE ClaimExpires(t)
    BY <2>3 DEF ClaimExpires, Claimed, Lapse, AtWork
  <2> QED
    BY <1>3, <2>1, <2>2, <2>3
<1>4. ASSUME NEW u \in User, NEW t \in Thread, Touch(u, t) \/ UserDeletes(u, t) PROVE Active'
  <2>1. CASE Touch(u, t)
    BY <2>1 DEF Touch, Claimed
  <2>2. CASE UserDeletes(u, t)
    BY <2>2 DEF UserDeletes, TakeGate, MayDelete
  <2> QED
    BY <1>4, <2>1, <2>2
<1>5. ASSUME NEW u \in User, MarkRunning(u) \/ RunEnds(u) \/ UserForgets(u) \/ UserDeleted(u) PROVE Active'
  <2>1. CASE MarkRunning(u)
    BY <2>1 DEF MarkRunning
  <2>2. CASE RunEnds(u)
    BY <2>2 DEF RunEnds
  <2>3. CASE UserForgets(u)
    BY <2>3 DEF UserForgets, Forget, Lapse, AtWork
  <2>4. CASE UserDeleted(u)
    BY <2>4 DEF UserDeleted, FreeGate
  <2> QED
    BY <1>5, <2>1, <2>2, <2>3, <2>4
<1>6. ASSUME NEW p \in Proc,
             AcquireLease(p) \/ Heartbeat(p) \/ Work(p) \/ Faults(p) \/ StopBegins(p) \/ StopEnds(p)
      PROVE  Active'
  <2>1. CASE AcquireLease(p)
    BY <2>1 DEF AcquireLease, LeaseHeld, Fresh
  <2>2. CASE Heartbeat(p)
    BY <2>2 DEF Heartbeat
  <2>3. CASE InsertRecord(p)
    BY <2>3 DEF InsertRecord
  <2>4. CASE Begin(p)
    BY <2>4 DEF Begin, Write, Goto
  <2>5. CASE LoopEnds(p)
    BY <2>5 DEF LoopEnds, Goto
  <2>6. CASE Scan(p)
    BY <2>6 DEF Scan, Candidates, Goto
  <2>7. CASE Consider(p)
    BY <2>7 DEF Consider, Goto
  <2>8. CASE Claim(p)
    BY <2>8 DEF Claim, Claimable, Claimed, Goto
  <2>9. CASE Erase(p)
    BY <2>9 DEF Erase, TakeGate, MayDelete, Goto
  <2>10. CASE Erased(p)
    BY <2>10 DEF Erased, Forget, Lapse, AtWork, Goto
  <2>11. CASE ErasureReturns(p)
    BY <2>11 DEF ErasureReturns, FreeGate, Goto
  <2>12. CASE ForgetAgain(p)
    BY <2>12 DEF ForgetAgain, Forget, Lapse, AtWork, Goto
  <2>13. CASE ReleaseClaim(p)
    BY <2>13 DEF ReleaseClaim, Goto
  <2>14. CASE WriteOutcome(p)
    BY <2>14 DEF WriteOutcome, Write, Goto
  <2>15. CASE JobOver(p)
    BY <2>15 DEF JobOver, ReleaseLease, Idle
  <2>16. CASE StartGivesUp(p)
    BY <2>16 DEF StartGivesUp, ReleaseLease, Idle
  <2>17. CASE StartInterrupted(p)
    BY <2>17 DEF StartInterrupted, Idle
  <2>18. CASE ErasureFails(p)
    BY <2>18 DEF ErasureFails, FreeGate, Goto
  <2>19. CASE Interrupted(p)
    BY <2>19 DEF Interrupted, Claimable, Claimed, Idle, Write, Goto
  <2>20. CASE Crash(p)
    BY <2>20 DEF Crash, Idle
  <2>21. CASE StopBegins(p)
    BY <2>21 DEF StopBegins
  <2>22. CASE StopEnds(p)
    BY <2>22 DEF StopEnds, HasTask
  <2> QED
    BY <1>6, <2>1, <2>2, <2>3, <2>4, <2>5, <2>6, <2>7, <2>8, <2>9, <2>10, <2>11, <2>12, <2>13, <2>14, <2>15, <2>16, <2>17, <2>18, <2>19, <2>20, <2>21, <2>22 DEF Work, Faults
<1> QED
  BY <1>1, <1>2, <1>3, <1>4, <1>5, <1>6 DEF Next

\* _thread_lock makes a check of the gate and its change one step.
LEMMA GatedStep == IInv /\ [Next]_vars => Gated'
<1> SUFFICES ASSUME IInv, [Next]_vars PROVE Gated'
  OBVIOUS
<1> USE ThreadCleanupAssumption DEF IInv, TypeOK, Typed, Gated, InErasure, RunningOn, db, jobVars, userVars
<1>1. CASE UNCHANGED vars
  BY <1>1 DEF vars
<1>2. CASE LeaseExpires
  BY <1>2 DEF LeaseExpires, Lapse, AtWork
<1>3. ASSUME NEW t \in Thread, Age(t) \/ Backfill(t) \/ ClaimExpires(t) PROVE Gated'
  <2>1. CASE Age(t)
    BY <2>1 DEF Age
  <2>2. CASE Backfill(t)
    BY <2>2 DEF Backfill
  <2>3. CASE ClaimExpires(t)
    BY <2>3 DEF ClaimExpires, Claimed, Lapse, AtWork
  <2> QED
    BY <1>3, <2>1, <2>2, <2>3
<1>4. ASSUME NEW u \in User, NEW t \in Thread, Touch(u, t) \/ UserDeletes(u, t) PROVE Gated'
  <2>1. CASE Touch(u, t)
    BY <2>1 DEF Touch, Claimed
  <2>2. CASE UserDeletes(u, t)
    BY <2>2 DEF UserDeletes, TakeGate, MayDelete
  <2> QED
    BY <1>4, <2>1, <2>2
<1>5. ASSUME NEW u \in User, MarkRunning(u) \/ RunEnds(u) \/ UserForgets(u) \/ UserDeleted(u) PROVE Gated'
  <2>1. CASE MarkRunning(u)
    BY <2>1 DEF MarkRunning
  <2>2. CASE RunEnds(u)
    BY <2>2 DEF RunEnds
  <2>3. CASE UserForgets(u)
    BY <2>3 DEF UserForgets, Forget, Lapse, AtWork
  <2>4. CASE UserDeleted(u)
    BY <2>4 DEF UserDeleted, FreeGate
  <2> QED
    BY <1>5, <2>1, <2>2, <2>3, <2>4
<1>6. ASSUME NEW p \in Proc,
             AcquireLease(p) \/ Heartbeat(p) \/ Work(p) \/ Faults(p) \/ StopBegins(p) \/ StopEnds(p)
      PROVE  Gated'
  <2>1. CASE AcquireLease(p)
    BY <2>1 DEF AcquireLease, LeaseHeld, Fresh
  <2>2. CASE Heartbeat(p)
    BY <2>2 DEF Heartbeat
  <2>3. CASE InsertRecord(p)
    BY <2>3 DEF InsertRecord
  <2>4. CASE Begin(p)
    BY <2>4 DEF Begin, Write, Goto
  <2>5. CASE LoopEnds(p)
    BY <2>5 DEF LoopEnds, Goto
  <2>6. CASE Scan(p)
    BY <2>6 DEF Scan, Candidates, Goto
  <2>7. CASE Consider(p)
    BY <2>7 DEF Consider, Goto
  <2>8. CASE Claim(p)
    BY <2>8 DEF Claim, Claimable, Claimed, Goto
  <2>9. CASE Erase(p)
    BY <2>9 DEF Erase, TakeGate, MayDelete, Goto
  <2>10. CASE Erased(p)
    BY <2>10 DEF Erased, Forget, Lapse, AtWork, Goto
  <2>11. CASE ErasureReturns(p)
    BY <2>11 DEF ErasureReturns, FreeGate, Goto
  <2>12. CASE ForgetAgain(p)
    BY <2>12 DEF ForgetAgain, Forget, Lapse, AtWork, Goto
  <2>13. CASE ReleaseClaim(p)
    BY <2>13 DEF ReleaseClaim, Goto
  <2>14. CASE WriteOutcome(p)
    BY <2>14 DEF WriteOutcome, Write, Goto
  <2>15. CASE JobOver(p)
    BY <2>15 DEF JobOver, ReleaseLease, Idle
  <2>16. CASE StartGivesUp(p)
    BY <2>16 DEF StartGivesUp, ReleaseLease, Idle
  <2>17. CASE StartInterrupted(p)
    BY <2>17 DEF StartInterrupted, Idle
  <2>18. CASE ErasureFails(p)
    BY <2>18 DEF ErasureFails, FreeGate, Goto
  <2>19. CASE Interrupted(p)
    BY <2>19 DEF Interrupted, Claimable, Claimed, Idle, Write, Goto
  <2>20. CASE Crash(p)
    BY <2>20 DEF Crash, Idle
  <2>21. CASE StopBegins(p)
    BY <2>21 DEF StopBegins
  <2>22. CASE StopEnds(p)
    BY <2>22 DEF StopEnds, HasTask
  <2> QED
    BY <1>6, <2>1, <2>2, <2>3, <2>4, <2>5, <2>6, <2>7, <2>8, <2>9, <2>10, <2>11, <2>12, <2>13, <2>14, <2>15, <2>16, <2>17, <2>18, <2>19, <2>20, <2>21, <2>22 DEF Work, Faults
<1> QED
  BY <1>1, <1>2, <1>3, <1>4, <1>5, <1>6 DEF Next

\* A claim is taken only of an old conversation, and taken away only from a job that
\* lapses by that.
LEMMA GuardedStep == IInv /\ [Next]_vars => Guarded'
<1> SUFFICES ASSUME IInv, [Next]_vars PROVE Guarded'
  OBVIOUS
<1> USE ThreadCleanupAssumption, NewJobIsFresh DEF IInv, TypeOK, Typed, Guarded, Owned, db, jobVars, userVars
<1>1. CASE UNCHANGED vars
  BY <1>1 DEF vars
<1>2. CASE LeaseExpires
  BY <1>2 DEF LeaseExpires, Lapse, AtWork
<1>3. ASSUME NEW t \in Thread, Age(t) \/ Backfill(t) \/ ClaimExpires(t) PROVE Guarded'
  <2>1. CASE Age(t)
    BY <2>1 DEF Age
  <2>2. CASE Backfill(t)
    BY <2>2 DEF Backfill
  <2>3. CASE ClaimExpires(t)
    BY <2>3 DEF ClaimExpires, Claimed, Lapse, AtWork
  <2> QED
    BY <1>3, <2>1, <2>2, <2>3
<1>4. ASSUME NEW u \in User, NEW t \in Thread, Touch(u, t) \/ UserDeletes(u, t) PROVE Guarded'
  <2>1. CASE Touch(u, t)
    BY <2>1 DEF Touch, Claimed
  <2>2. CASE UserDeletes(u, t)
    BY <2>2 DEF UserDeletes, TakeGate, MayDelete
  <2> QED
    BY <1>4, <2>1, <2>2
<1>5. ASSUME NEW u \in User, MarkRunning(u) \/ RunEnds(u) \/ UserForgets(u) \/ UserDeleted(u) PROVE Guarded'
  <2>1. CASE MarkRunning(u)
    BY <2>1 DEF MarkRunning
  <2>2. CASE RunEnds(u)
    BY <2>2 DEF RunEnds
  <2>3. CASE UserForgets(u)
    BY <2>3 DEF UserForgets, Forget, Lapse, AtWork
  <2>4. CASE UserDeleted(u)
    BY <2>4 DEF UserDeleted, FreeGate
  <2> QED
    BY <1>5, <2>1, <2>2, <2>3, <2>4
<1>6. ASSUME NEW p \in Proc,
             AcquireLease(p) \/ Heartbeat(p) \/ Work(p) \/ Faults(p) \/ StopBegins(p) \/ StopEnds(p)
      PROVE  Guarded'
  <2>1. CASE AcquireLease(p)
    BY <2>1 DEF AcquireLease, LeaseHeld, Fresh
  <2>2. CASE Heartbeat(p)
    BY <2>2 DEF Heartbeat
  <2>3. CASE InsertRecord(p)
    BY <2>3 DEF InsertRecord
  <2>4. CASE Begin(p)
    BY <2>4 DEF Begin, Write, Goto
  <2>5. CASE LoopEnds(p)
    BY <2>5 DEF LoopEnds, Goto
  <2>6. CASE Scan(p)
    BY <2>6 DEF Scan, Candidates, Goto
  <2>7. CASE Consider(p)
    BY <2>7 DEF Consider, Goto
  <2>8. CASE Claim(p)
    BY <2>8 DEF Claim, Claimable, Claimed, Goto
  <2>9. CASE Erase(p)
    BY <2>9 DEF Erase, TakeGate, MayDelete, Goto
  <2>10. CASE Erased(p)
    BY <2>10 DEF Erased, Forget, Lapse, AtWork, Goto
  <2>11. CASE ErasureReturns(p)
    BY <2>11 DEF ErasureReturns, FreeGate, Goto
  <2>12. CASE ForgetAgain(p)
    BY <2>12 DEF ForgetAgain, Forget, Lapse, AtWork, Goto
  <2>13. CASE ReleaseClaim(p)
    BY <2>13 DEF ReleaseClaim, Goto
  <2>14. CASE WriteOutcome(p)
    BY <2>14 DEF WriteOutcome, Write, Goto
  <2>15. CASE JobOver(p)
    BY <2>15 DEF JobOver, ReleaseLease, Idle
  <2>16. CASE StartGivesUp(p)
    BY <2>16 DEF StartGivesUp, ReleaseLease, Idle
  <2>17. CASE StartInterrupted(p)
    BY <2>17 DEF StartInterrupted, Idle
  <2>18. CASE ErasureFails(p)
    BY <2>18 DEF ErasureFails, FreeGate, Goto
  <2>19. CASE Interrupted(p)
    BY <2>19 DEF Interrupted, Claimable, Claimed, Idle, Write, Goto
  <2>20. CASE Crash(p)
    BY <2>20 DEF Crash, Idle
  <2>21. CASE StopBegins(p)
    BY <2>21 DEF StopBegins
  <2>22. CASE StopEnds(p)
    BY <2>22 DEF StopEnds, HasTask
  <2> QED
    BY <1>6, <2>1, <2>2, <2>3, <2>4, <2>5, <2>6, <2>7, <2>8, <2>9, <2>10, <2>11, <2>12, <2>13, <2>14, <2>15, <2>16, <2>17, <2>18, <2>19, <2>20, <2>21, <2>22 DEF Work, Faults
<1> QED
  BY <1>1, <1>2, <1>3, <1>4, <1>5, <1>6 DEF Next

\* At the start nothing is claimed, deleted or at work.
LEMMA InitIInv == Init => IInv
<1> SUFFICES ASSUME Init PROVE IInv
  OBVIOUS
<1> USE ThreadCleanupAssumption, AnyThreadType DEF Init
<1>1. TypeOK
  <2>1. /\ current \in [Proc -> Thread] /\ on \in [User -> Thread]
        /\ job \in [Proc -> Job \cup {NoJob}] /\ claim \in [Thread -> Job \cup {NoJob}]
        /\ seen \in [Proc -> SUBSET Thread] /\ deleting \in [Proc -> SUBSET Thread]
    OBVIOUS
  <2>2. faults \in 0..MaxFaults
    OBVIOUS
  <2> QED
    BY <2>1, <2>2 DEF TypeOK
<1>2. Typed
  BY <1>1 DEF Typed
<1>3. Owned
  BY DEF Owned
<1>4. Active
  BY DEF Active
<1>5. Gated
  BY DEF Gated, InErasure
<1>6. Guarded /\ Quiet
  BY DEF Guarded, Quiet
<1> QED
  BY <1>2, <1>3, <1>4, <1>5, <1>6 DEF IInv

-----------------------------------------------------------------------------
(* What follows *)

\* The lease, the claims, the gates and the activity stay consistent, whatever expires,
\* stops or dies.
THEOREM Inductive == Spec => []IInv
<1>1. IInv /\ [Next]_vars => IInv'
  BY TypedStep, OwnedStep, ActiveStep, GatedStep, GuardedStep, QuietStep DEF IInv
<1> QED
  BY InitIInv, <1>1, PTL DEF Spec

\* Every variable keeps its type.
THEOREM TypeCorrect == Spec => []TypeOK
<1>1. IInv => TypeOK
  BY DEF IInv, Typed
<1> QED
  BY Inductive, <1>1, PTL

\* delete_thread_completely() never works on a conversation with a run: not in the run's
\* process, nor in another while the job's lease and claim hold.
THEOREM ErasesTheInactive == Spec => []OnlyInactiveIsErased
<1>1. IInv => OnlyInactiveIsErased
  <2> SUFFICES ASSUME IInv, NEW t \in Thread, NEW u \in User, upc[u] = "running", on[u] = t,
                      NEW p \in Proc, Erasing(p, t)
               PROVE  p # ProcOf[u] /\ job[p] \in unguarded
    BY DEF OnlyInactiveIsErased
  <2>1. p # ProcOf[u]
    BY DEF IInv, Gated, InErasure, Erasing
  <2>2. activity[t] # "old"
    BY DEF IInv, Active
  <2>3. job[p] \in unguarded
    BY <2>2 DEF IInv, Guarded, Erasing
  <2> QED
    BY <2>1, <2>3
<1> QED
  BY Inductive, <1>1, PTL

\* Two jobs erase one conversation at a time only if one of them has lapsed.
THEOREM ErasesAlone == Spec => []OneEraser
<1>1. IInv => OneEraser
  <2> SUFFICES ASSUME IInv, NEW p \in Proc, NEW q \in Proc, NEW t \in Thread, p # q,
                      Erasing(p, t), Erasing(q, t), job[p] \notin unguarded,
                      job[q] \notin unguarded
               PROVE  FALSE
    BY DEF OneEraser
  <2>1. claim[t] = job[p] /\ claim[t] = job[q]
    BY DEF IInv, Guarded, Erasing
  <2>2. job[p] \in Job
    BY DEF IInv, Typed, Erasing
  <2> QED
    BY <2>1, <2>2 DEF IInv, Typed
<1> QED
  BY Inductive, <1>1, PTL

\* Nothing is erased once stop() has returned, though start_run() may have been under way.
THEOREM StopsErasing == Spec => []StoppedIsQuiet
<1>1. IInv => StoppedIsQuiet
  BY DEF IInv, Quiet, StoppedIsQuiet, Erasing
<1> QED
  BY Inductive, <1>1, PTL
=============================================================================
