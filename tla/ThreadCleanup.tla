---------------------------- MODULE ThreadCleanup ----------------------------
(***************************************************************************)
(* app/thread_cleanup.py with delete_thread_completely() and the run gate   *)
(* of app/dependencies.py: processes that share one SQLite database delete  *)
(* the conversations nobody has used for days, under a job lease and a      *)
(* claim on each conversation, while users start runs, users delete         *)
(* conversations, services stop and processes die.                          *)
(***************************************************************************)
EXTENDS Naturals, FiniteSets

CONSTANTS
  Proc,        \* server processes
  Thread,      \* conversations
  Job,         \* job ids; an id is used again when nothing refers to it
  NoJob,
  User,        \* users, each served by one process
  ProcOf,
  MaxFaults    \* bound on crashes and orderly stops of a service

ASSUME ThreadCleanupAssumption ==
  /\ ProcOf \in [User -> Proc]
  /\ NoJob \notin Job /\ Thread # {}
  /\ MaxFaults \in Nat

VARIABLES
  activity,   \* the row of thread_activity: none, old (before the cutoff) or recent; a
              \* protected row is never a candidate and is left out
  claim,      \* cleanup_claimed_by
  claimLive,  \* conversations whose claim has not expired
  lease,      \* thread_cleanup_lease: the owner
  leaseLive,  \* it has not expired
  record,     \* thread_cleanup_runs: the status of each job
  jpc,        \* where the job of a process stands
  job,        \* its id
  seen,       \* conversations behind its cursor
  current,    \* the candidate at hand
  lost,       \* processes whose heartbeat has found the lease taken (lost_lease)
  service,    \* up, stopping or stopped
  deleting,   \* _deleting_threads of each process
  upc,        \* where a user's request stands
  on,         \* its conversation
  unguarded,  \* history: jobs whose lease or claim expired, or whose claim somebody else's
              \* deletion removed with the row, while they were at work
  faults

db == <<activity, claim, claimLive, lease, leaseLive, record>>
jobVars == <<jpc, job, seen, current, lost>>
userVars == <<upc, on>>
vars == <<db, jobVars, service, deleting, userVars, unguarded, faults>>

AnyThread == CHOOSE t \in Thread : TRUE

TypeOK ==
  /\ activity \in [Thread -> {"none", "old", "recent"}]
  /\ claim \in [Thread -> Job \cup {NoJob}] /\ claimLive \subseteq Thread
  /\ lease \in Job \cup {NoJob} /\ leaseLive \in BOOLEAN
  /\ record \in [Job -> {"none", "pending", "running", "over", "abandoned"}]
  /\ jpc \in [Proc -> {"idle", "acquired", "created", "scan", "consider", "claiming",
                       "claimed", "erasing", "forgotten", "erased", "failed",
                       "ending", "releasing"}]
  /\ job \in [Proc -> Job \cup {NoJob}]
  /\ seen \in [Proc -> SUBSET Thread]
  /\ current \in [Proc -> Thread]
  /\ lost \subseteq Proc
  /\ service \in [Proc -> {"up", "stopping", "stopped"}]
  /\ deleting \in [Proc -> SUBSET Thread]
  /\ upc \in [User -> {"idle", "touched", "running", "erasing", "forgotten"}]
  /\ on \in [User -> Thread]
  /\ unguarded \subseteq Job
  /\ faults \in 0..MaxFaults

Init ==
  /\ activity = [t \in Thread |-> "none"]
  /\ claim = [t \in Thread |-> NoJob] /\ claimLive = {}
  /\ lease = NoJob /\ leaseLive = FALSE
  /\ record = [j \in Job |-> "none"]
  /\ jpc = [p \in Proc |-> "idle"] /\ job = [p \in Proc |-> NoJob]
  /\ seen = [p \in Proc |-> {}]
  /\ current = [p \in Proc |-> AnyThread]
  /\ lost = {}
  /\ service = [p \in Proc |-> "up"]
  /\ deleting = [p \in Proc |-> {}]
  /\ upc = [u \in User |-> "idle"] /\ on = [u \in User |-> AnyThread]
  /\ unguarded = {}
  /\ faults = 0

-----------------------------------------------------------------------------
(* What the clock and the heartbeat do to leases and claims *)

Claimed(t) == claim[t] # NoJob /\ t \in claimLive

\* Days pass. Runs and jobs are shorter than the shortest inactivity, one day.
Age(t) ==
  /\ activity[t] = "recent"
  /\ \A u \in User : upc[u] \in {"touched", "running"} => on[u] # t
  /\ \A p \in Proc : jpc[p] = "idle"
  /\ activity' = [activity EXCEPT ![t] = "old"]
  /\ UNCHANGED <<claim, claimLive, lease, leaseLive, record, jobVars, service, deleting, userVars, unguarded, faults>>

\* backfill_activity_sync(): a conversation without a row gets the age of its latest
\* checkpoint, which is recent while it is used.
Backfill(t) ==
  /\ activity[t] = "none"
  /\ \E found \in {"old", "recent"} :
       /\ found = "old" => \A u \in User : upc[u] \in {"touched", "running"} => on[u] # t
       /\ activity' = [activity EXCEPT ![t] = found]
  /\ UNCHANGED <<claim, claimLive, lease, leaseLive, record, jobVars, service, deleting, userVars, unguarded, faults>>

AtWork(j) == \E p \in Proc : jpc[p] # "idle" /\ job[p] = j
Lapse(j) == unguarded' = IF AtWork(j) THEN unguarded \cup {j} ELSE unguarded

LeaseExpires ==
  /\ lease # NoJob /\ leaseLive
  /\ leaseLive' = FALSE
  /\ Lapse(lease)
  /\ UNCHANGED <<activity, claim, claimLive, lease, record, jobVars, service, deleting, userVars, faults>>

ClaimExpires(t) ==
  /\ Claimed(t)
  /\ claimLive' = claimLive \ {t}
  /\ Lapse(claim[t])
  /\ UNCHANGED <<activity, claim, lease, leaseLive, record, jobVars, service, deleting, userVars, faults>>

InLoop == {"scan", "consider", "claiming", "claimed", "erasing", "forgotten", "erased", "failed"}
HasThread == {"claimed", "erasing", "forgotten", "erased", "failed"}

\* _lease_heartbeat(): what is still owned is renewed, expired or not.
Heartbeat(p) ==
  /\ jpc[p] \in InLoop
  /\ IF lease = job[p]
     THEN /\ leaseLive' = TRUE
          /\ claimLive' = IF jpc[p] \in HasThread /\ claim[current[p]] = job[p]
                          THEN claimLive \cup {current[p]} ELSE claimLive
          /\ UNCHANGED lost
     ELSE lost' = lost \cup {p} /\ UNCHANGED <<leaseLive, claimLive>>
  /\ UNCHANGED <<activity, claim, lease, record, jpc, job, seen, current>>
  /\ UNCHANGED <<service, deleting, userVars, unguarded, faults>>

-----------------------------------------------------------------------------
(* Users *)

RunningOn(p, t) == \E u \in User : upc[u] = "running" /\ on[u] = t /\ ProcOf[u] = p

\* touch_thread_sync(), which a live claim refuses.
Touch(u, t) ==
  /\ upc[u] = "idle" /\ ~Claimed(t)
  /\ activity' = [activity EXCEPT ![t] = "recent"]
  /\ claim' = [claim EXCEPT ![t] = NoJob] /\ claimLive' = claimLive \ {t}
  /\ upc' = [upc EXCEPT ![u] = "touched"] /\ on' = [on EXCEPT ![u] = t]
  /\ UNCHANGED <<lease, leaseLive, record, jobVars, service, deleting, unguarded, faults>>

\* mark_thread_running()
MarkRunning(u) ==
  /\ upc[u] = "touched"
  /\ upc' = [upc EXCEPT ![u] = IF on[u] \in deleting[ProcOf[u]] THEN "idle" ELSE "running"]
  /\ UNCHANGED <<db, jobVars, service, deleting, on, unguarded, faults>>

RunEnds(u) ==
  /\ upc[u] = "running"
  /\ upc' = [upc EXCEPT ![u] = "idle"]
  /\ UNCHANGED <<db, jobVars, service, deleting, on, unguarded, faults>>

\* delete_thread_completely() takes the conversation, or refuses.
MayDelete(p, t) == t \notin deleting[p] /\ ~RunningOn(p, t)
TakeGate(p, t) == deleting' = [deleting EXCEPT ![p] = @ \cup {t}]
FreeGate(p, t) == deleting' = [deleting EXCEPT ![p] = @ \ {t}]

\* forget_thread_sync(), for a job or for a user (NoJob): the claim goes with the row.
Forget(t, j) ==
  /\ activity' = [activity EXCEPT ![t] = "none"]
  /\ claim' = [claim EXCEPT ![t] = NoJob] /\ claimLive' = claimLive \ {t}
  /\ IF claim[t] # j THEN Lapse(claim[t]) ELSE UNCHANGED unguarded

UserDeletes(u, t) ==
  /\ upc[u] = "idle" /\ MayDelete(ProcOf[u], t)
  /\ TakeGate(ProcOf[u], t)
  /\ upc' = [upc EXCEPT ![u] = "erasing"] /\ on' = [on EXCEPT ![u] = t]
  /\ UNCHANGED <<db, jobVars, service, unguarded, faults>>

UserForgets(u) ==
  /\ upc[u] = "erasing"
  /\ Forget(on[u], NoJob)
  /\ upc' = [upc EXCEPT ![u] = "forgotten"]
  /\ UNCHANGED <<lease, leaseLive, record, jobVars, service, deleting, on, faults>>

\* The deletion returns, also early with a failure.
UserDeleted(u) ==
  /\ upc[u] \in {"erasing", "forgotten"}
  /\ FreeGate(ProcOf[u], on[u])
  /\ upc' = [upc EXCEPT ![u] = "idle"]
  /\ UNCHANGED <<db, jobVars, service, on, unguarded, faults>>

-----------------------------------------------------------------------------
(* start_run() *)

Fresh == {j \in Job : lease # j /\ (\A t \in claimLive : claim[t] # j)
                                /\ (\A p \in Proc : job[p] # j)}
Settled == {j \in Job : record[j] \notin {"pending", "running"}}

\* A new id; a record that nobody settles makes room last.
NewJob == IF Fresh \cap Settled # {} THEN CHOOSE j \in Fresh \cap Settled : TRUE
                                    ELSE CHOOSE j \in Fresh : TRUE

\* Mutant: a lease that is still held is taken.
NeverHeld == FALSE

LeaseHeld == lease # NoJob /\ leaseLive


\* The previous owner's record, if it is not settled, is abandoned.
Inherited(j) == IF j = lease /\ j \notin Settled THEN "abandoned" ELSE record[j]

\* The lease is free or expired: the claims of its owner and expired ones are dropped.
AcquireLease(p) ==
  LET released == {t \in Thread : claim[t] # NoJob /\ (claim[t] = lease \/ t \notin claimLive)}
  IN /\ jpc[p] = "idle" /\ Fresh # {}
     /\ ~LeaseHeld
     /\ record' = [j \in Job |-> IF j = NewJob \/ j \in Fresh \cap Settled THEN "none"
                                                                      ELSE Inherited(j)]
     /\ claim' = [t \in Thread |-> IF t \in released THEN NoJob ELSE claim[t]]
     /\ claimLive' = claimLive \ released
     /\ lease' = NewJob /\ leaseLive' = TRUE
     /\ unguarded' = unguarded \ {NewJob}
     /\ jpc' = [jpc EXCEPT ![p] = "acquired"] /\ job' = [job EXCEPT ![p] = NewJob]
     /\ UNCHANGED <<activity, seen, current, lost, service, deleting, userVars, faults>>

ReleaseLease(j) ==
  IF lease = j THEN lease' = NoJob /\ leaseLive' = FALSE ELSE UNCHANGED <<lease, leaseLive>>

Idle(p) ==
  /\ jpc' = [jpc EXCEPT ![p] = "idle"] /\ job' = [job EXCEPT ![p] = NoJob]
  /\ seen' = [seen EXCEPT ![p] = {}]
  /\ current' = [current EXCEPT ![p] = AnyThread]
  /\ lost' = lost \ {p}
  /\ unguarded' = unguarded \ {job[p]}

\* Deferred by recent activity, or the record cannot be written.
StartGivesUp(p) ==
  /\ jpc[p] = "acquired"
  /\ ReleaseLease(job[p])
  /\ Idle(p)
  /\ UNCHANGED <<activity, claim, claimLive, record, service, deleting, userVars, faults>>

\* The maintenance loop is cancelled at its quiet-period query: the lease stays.
StartInterrupted(p) ==
  /\ jpc[p] = "acquired" /\ service[p] # "up"
  /\ Idle(p)
  /\ UNCHANGED <<db, service, deleting, userVars, faults>>

\* _insert_run_sync(), then the job task
InsertRecord(p) ==
  /\ jpc[p] = "acquired"
  /\ record' = [record EXCEPT ![job[p]] = "pending"]
  /\ jpc' = [jpc EXCEPT ![p] = "created"]
  /\ UNCHANGED <<activity, claim, claimLive, lease, leaseLive, job, seen, current, lost>>
  /\ UNCHANGED <<service, deleting, userVars, unguarded, faults>>

-----------------------------------------------------------------------------
(* _execute_run() *)

\* _update_run_sync()
Write(j, status) ==
  record' = [record EXCEPT ![j] = IF @ = "abandoned" THEN @ ELSE status]

Goto(p, place) == jpc' = [jpc EXCEPT ![p] = place]

Begin(p) ==
  /\ jpc[p] = "created"
  /\ Write(job[p], "running")
  /\ Goto(p, "scan")
  /\ UNCHANGED <<activity, claim, claimLive, lease, leaseLive, job, seen, current, lost>>
  /\ UNCHANGED <<service, deleting, userVars, unguarded, faults>>

\* _candidate_rows_sync()
Candidates == {t \in Thread : activity[t] = "old" /\ ~Claimed(t)}

\* Mutant: a service that is stopping is not looked at.
MustStopOnLoss(p) == p \in lost

\* What ends the loop: a stop, a lost lease, or (it may be configured off) activity since
\* the job began.
MustStop(p) == service[p] # "up" \/ p \in lost
StopsHere(p) == MustStop(p) \/ \E t \in Thread : activity[t] = "recent"

LoopEnds(p) ==
  /\ jpc[p] \in {"scan", "consider"}
  /\ StopsHere(p) \/ (jpc[p] = "scan" /\ Candidates \subseteq seen[p])
  /\ Goto(p, "ending")
  /\ UNCHANGED <<db, job, seen, current, lost, service, deleting, userVars, unguarded, faults>>

\* The next candidate behind the cursor; a page that was read before is a candidate that
\* waits to be considered.
Scan(p) ==
  /\ jpc[p] = "scan" /\ ~MustStop(p)
  /\ \E t \in Candidates \ seen[p] :
       current' = [current EXCEPT ![p] = t] /\ seen' = [seen EXCEPT ![p] = @ \cup {t}]
  /\ Goto(p, "consider")
  /\ UNCHANGED <<db, job, lost, service, deleting, userVars, unguarded, faults>>

\* It is skipped when it is running, scheduled, or only counted by a dry run.
Consider(p) ==
  /\ jpc[p] = "consider" /\ ~MustStop(p)
  /\ \/ Goto(p, "scan")
     \/ ~RunningOn(p, current[p]) /\ Goto(p, "claiming")
  /\ UNCHANGED <<db, job, seen, current, lost, service, deleting, userVars, unguarded, faults>>

\* Mutant: the claim trusts the candidate query.
ClaimableAnyway(t) == TRUE

\* What the candidate query found is looked at again.
Claimable(t) == activity[t] = "old" /\ ~Claimed(t)

\* _claim_thread_sync()
Claim(p) ==
  LET t == current[p]
  IN /\ jpc[p] = "claiming"
     /\ IF Claimable(t)
        THEN /\ claim' = [claim EXCEPT ![t] = job[p]] /\ claimLive' = claimLive \cup {t}
             /\ Goto(p, "claimed")
        ELSE Goto(p, "scan") /\ UNCHANGED <<claim, claimLive>>
     /\ UNCHANGED <<activity, lease, leaseLive, record, job, seen, current, lost>>
     /\ UNCHANGED <<service, deleting, userVars, unguarded, faults>>

\* The deletion begins on its thread.
Erase(p) ==
  LET t == current[p]
  IN /\ jpc[p] = "claimed"
     /\ IF MayDelete(p, t) THEN TakeGate(p, t) /\ Goto(p, "erasing")
                           ELSE Goto(p, "failed") /\ UNCHANGED deleting
     /\ UNCHANGED <<db, job, seen, current, lost, service, userVars, unguarded, faults>>

ErasureFails(p) ==
  /\ jpc[p] = "erasing"
  /\ FreeGate(p, current[p])
  /\ Goto(p, "failed")
  /\ UNCHANGED <<db, job, seen, current, lost, service, userVars, unguarded, faults>>

\* delete_thread_completely() forgets the row itself, before it frees the gate...
Erased(p) ==
  /\ jpc[p] = "erasing"
  /\ Forget(current[p], job[p])
  /\ Goto(p, "forgotten")
  /\ UNCHANGED <<lease, leaseLive, record, job, seen, current, lost>>
  /\ UNCHANGED <<service, deleting, userVars, faults>>

ErasureReturns(p) ==
  /\ jpc[p] = "forgotten"
  /\ FreeGate(p, current[p])
  /\ Goto(p, "erased")
  /\ UNCHANGED <<db, job, seen, current, lost, service, userVars, unguarded, faults>>

\* ... and the job forgets it again.
ForgetAgain(p) ==
  /\ jpc[p] = "erased"
  /\ Forget(current[p], job[p])
  /\ Goto(p, "scan")
  /\ UNCHANGED <<lease, leaseLive, record, job, seen, current, lost>>
  /\ UNCHANGED <<service, deleting, userVars, faults>>

\* _release_thread_claim_sync()
ReleaseClaim(p) ==
  LET t == current[p]
  IN /\ jpc[p] = "failed"
     /\ IF claim[t] = job[p]
        THEN claim' = [claim EXCEPT ![t] = NoJob] /\ claimLive' = claimLive \ {t}
        ELSE UNCHANGED <<claim, claimLive>>
     /\ Goto(p, "scan")
     /\ UNCHANGED <<activity, lease, leaseLive, record, job, seen, current, lost>>
     /\ UNCHANGED <<service, deleting, userVars, unguarded, faults>>

\* A job leaves the loop at any await: cancelled by stop(), or because its database call
\* failed. Its claim stays in place, and a claim that is being written is written all the
\* same. A deletion that has begun is waited for. A task that never begins, or whose first
\* write fails, does not come to the finally block.
Interrupted(p) ==
  LET t == current[p]
  IN /\ \/ /\ jpc[p] = "created"
           /\ Idle(p)
           /\ UNCHANGED record \/ Write(job[p], "running")
           /\ UNCHANGED <<claim, claimLive>>
        \/ /\ jpc[p] \in {"scan", "consider", "claiming", "claimed", "erased", "failed"}
           /\ Goto(p, "ending")
           /\ UNCHANGED <<claim, claimLive, record, job, seen, current, lost, unguarded>>
        \/ /\ jpc[p] = "claiming" /\ Claimable(t)
           /\ claim' = [claim EXCEPT ![t] = job[p]] /\ claimLive' = claimLive \cup {t}
           /\ Goto(p, "ending")
           /\ UNCHANGED <<record, job, seen, current, lost, unguarded>>
     /\ UNCHANGED <<activity, lease, leaseLive, service, deleting, userVars, faults>>

\* The finally block: the record first, then the lease.
WriteOutcome(p) ==
  /\ jpc[p] = "ending"
  /\ Write(job[p], "over")
  /\ Goto(p, "releasing")
  /\ UNCHANGED <<activity, claim, claimLive, lease, leaseLive, job, seen, current, lost>>
  /\ UNCHANGED <<service, deleting, userVars, unguarded, faults>>

JobOver(p) ==
  /\ jpc[p] = "releasing"
  /\ ReleaseLease(job[p])
  /\ Idle(p)
  /\ UNCHANGED <<activity, claim, claimLive, record, service, deleting, userVars, faults>>

-----------------------------------------------------------------------------
(* Services and processes *)

StopBegins(p) ==
  /\ service[p] = "up" /\ faults < MaxFaults
  /\ service' = [service EXCEPT ![p] = "stopping"]
  /\ faults' = faults + 1
  /\ UNCHANGED <<db, jobVars, deleting, userVars, unguarded>>

HasTask(p) == jpc[p] \notin {"idle", "acquired"}

\* stop() has cancelled the job task (Interrupted) and waits for it; one that is created
\* later is not its.
StopEnds(p) ==
  /\ service[p] = "stopping" /\ ~HasTask(p)
  /\ service' = [service EXCEPT ![p] = "stopped"]
  /\ UNCHANGED <<db, jobVars, deleting, userVars, unguarded, faults>>

\* The process dies and is started again: only the database remains.
Crash(p) ==
  /\ faults < MaxFaults
  /\ faults' = faults + 1
  /\ Idle(p)
  /\ service' = [service EXCEPT ![p] = "up"]
  /\ deleting' = [deleting EXCEPT ![p] = {}]
  /\ upc' = [u \in User |-> IF ProcOf[u] = p THEN "idle" ELSE upc[u]]
  /\ UNCHANGED <<db, on>>

Work(p) ==
  \/ InsertRecord(p) \/ Begin(p) \/ LoopEnds(p) \/ Scan(p)
  \/ Consider(p) \/ Claim(p) \/ Erase(p) \/ Erased(p) \/ ErasureReturns(p)
  \/ ForgetAgain(p) \/ ReleaseClaim(p) \/ WriteOutcome(p) \/ JobOver(p)

Faults(p) ==
  \/ StartGivesUp(p) \/ StartInterrupted(p) \/ ErasureFails(p) \/ Interrupted(p) \/ Crash(p)

Next ==
  \/ LeaseExpires
  \/ \E t \in Thread : Age(t) \/ Backfill(t) \/ ClaimExpires(t)
  \/ \E u \in User, t \in Thread : Touch(u, t) \/ UserDeletes(u, t)
  \/ \E u \in User : MarkRunning(u) \/ RunEnds(u) \/ UserForgets(u) \/ UserDeleted(u)
  \/ \E p \in Proc : AcquireLease(p) \/ Heartbeat(p) \/ Work(p) \/ Faults(p)
  \/ \E p \in Proc : StopBegins(p) \/ StopEnds(p)

Spec == Init /\ [][Next]_vars

\* Jobs are started every day and do their work, and leases and claims that nobody renews
\* expire.
Fairness ==
  /\ WF_vars(LeaseExpires) /\ \A t \in Thread : WF_vars(ClaimExpires(t))
  /\ WF_vars(\E p \in Proc : AcquireLease(p))
  /\ \A p \in Proc : WF_vars(Work(p))

LiveSpec == Spec /\ Fairness

-----------------------------------------------------------------------------
(* Properties *)

Erasing(p, t) == jpc[p] = "erasing" /\ current[p] = t

\* No run is on a conversation while it is deleted: never in one process, by a job or a
\* user (the gate), and in another process only if the job's lease or claim expired
\* under it (the claim, checked again against the activity, and renewed).
OnlyInactiveIsErased ==
  \A t \in Thread : \A u \in User : upc[u] = "running" /\ on[u] = t =>
    \A p \in Proc : Erasing(p, t) => p # ProcOf[u] /\ job[p] \in unguarded

\* Two jobs never delete one conversation at a time, unless one has lost its lease.
OneEraser ==
  \A p, q \in Proc, t \in Thread :
    p # q /\ Erasing(p, t) /\ Erasing(q, t) => {job[p], job[q]} \cap unguarded # {}

\* Once stop() has returned nothing is deleted, not even by a job that was being started
\* while it looked for one.
StoppedIsQuiet == \A p \in Proc : service[p] = "stopped" => \A t \in Thread : ~Erasing(p, t)

=============================================================================
