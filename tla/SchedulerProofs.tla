--------------------------- MODULE SchedulerProofs ---------------------------
(***************************************************************************)
(* Proofs about Scheduler, for any number of processes, tasks, occurrences  *)
(* and attempts: type correctness, that every occurrence keeps the promises *)
(* of module Occurrence, that successes are real and ended runs are not     *)
(* replayed, under every environment switch; that a pause is quiet and that *)
(* a thread has one run, under the switches Simple and Steady name.         *)
(***************************************************************************)
EXTENDS Scheduler, FiniteSetTheorems, TLAPS

\* A due definition still has an unused row (the bound in TaskDue).
DueHasRow ==
  \A t \in Tasks : task[t].next = "past" =>
    \E n \in 1..MaxOcc : row[<<t, n>>].status = "absent"

AbsentUntried == \A r \in Rows : row[r].status = "absent" => row[r].attempt = 0

IInv == TypeOK /\ DueHasRow /\ AbsentUntried

\* One step of one row record, as module Occurrence allows it.
RowStep(x, y) ==
  \/ Phase(y.status) = Phase(x.status) /\ y.attempt = x.attempt
  \/ /\ Phase(x.status) = "none" /\ Phase(y.status) \in {"waiting", "over"}
     /\ y.attempt = x.attempt
  \/ /\ Phase(x.status) \in {"none", "waiting", "held"}
     /\ x.attempt < MaxAttempts
     /\ Phase(y.status) = "held" /\ y.attempt = x.attempt + 1
  \/ /\ Phase(x.status) = "held" /\ Phase(y.status) = "fenced"
     /\ y.attempt = x.attempt
  \/ /\ Phase(x.status) \in {"held", "fenced"} /\ x.attempt < MaxAttempts
     /\ Phase(y.status) = "waiting" /\ y.attempt = x.attempt
  \/ /\ Phase(x.status) \in {"waiting", "held", "fenced"}
     /\ Phase(y.status) = "over" /\ y.attempt = x.attempt
  \/ Phase(x.status) # "none" /\ Phase(y.status) = "gone" /\ y.attempt = 0

RowsStep == \A r \in Rows : RowStep(row[r], row'[r])
RowsType == row \in [Rows -> RowRecord]
RowsFresh == \A r \in Rows : row'[r].status = "absent" <=> row[r].status = "absent"
RowsOK == RowsType' /\ RowsStep /\ RowsFresh

-----------------------------------------------------------------------------
(* Single rows *)

LEMMA PhaseOf ==
  /\ Phase("absent") = "none" /\ Phase("gone") = "gone"
  /\ \A x \in Waiting : Phase(x) = "waiting"
  /\ \A x \in Leased : Phase(x) = "held"
  /\ Phase("launched") = "fenced"
  /\ \A x \in Terminal : Phase(x) = "over"
  BY DEF Waiting, Leased, Terminal, Phase

LEMMA RowRecordFields ==
  ASSUME NEW rec \in RowRecord
  PROVE  /\ rec.status \in Statuses /\ rec.attempt \in 0..MaxAttempts
         /\ rec.lease \in {"none", "live", "expired"} /\ rec.avail \in BOOLEAN
         /\ rec.runId \in 0..MaxAttempts /\ rec.quiet \in BOOLEAN
  BY DEF RowRecord

LEMMA StatusSets ==
  /\ Waiting \subseteq Statuses /\ Leased \subseteq Statuses /\ Owned \subseteq Statuses
  /\ Active \subseteq Statuses /\ Terminal \subseteq Statuses
  /\ {"absent", "gone", "pending", "retry", "claimed", "running", "launched",
      "success", "error", "interrupted", "cancelled", "dead_letter"} \subseteq Statuses
  /\ {"success", "error", "interrupted", "cancelled", "dead_letter"} \subseteq Terminal
  /\ {"pending", "retry"} \subseteq Waiting /\ {"claimed", "running"} \subseteq Leased
  BY DEF Statuses, Active, Terminal, Waiting, Leased, Owned

LEMMA UpdatesTyped ==
  ASSUME NEW rec \in RowRecord, NEW a \in Attempts, NEW b \in BOOLEAN,
         NEW st \in Terminal
  PROVE  /\ StartedRow(rec, a) \in RowRecord
         /\ LaunchedRow(rec, a) \in RowRecord
         /\ RenewedRow(rec) \in RowRecord
         /\ RetryRow(rec, b) \in RowRecord
         /\ EndedRow(rec, st) \in RowRecord
         /\ rec.attempt < MaxAttempts => ClaimedRow(rec) \in RowRecord
  <1>1. {"running", "launched", "retry", "claimed"} \subseteq Statuses /\ st \in Statuses
    BY StatusSets
  <1>2. a \in 0..MaxAttempts /\ 0 \in 0..MaxAttempts
    BY SchedulerAssumption DEF Attempts
  <1>3. rec.attempt < MaxAttempts => rec.attempt + 1 \in 0..MaxAttempts
    BY SchedulerAssumption DEF RowRecord
  <1>4. StartedRow(rec, a) \in RowRecord /\ LaunchedRow(rec, a) \in RowRecord
    BY <1>1, <1>2 DEF RowRecord, StartedRow, LaunchedRow
  <1>5. RenewedRow(rec) \in RowRecord /\ RetryRow(rec, b) \in RowRecord
    BY <1>1 DEF RowRecord, RenewedRow, RetryRow
  <1>6. EndedRow(rec, st) \in RowRecord
    BY <1>1 DEF RowRecord, EndedRow
  <1>7. rec.attempt < MaxAttempts => ClaimedRow(rec) \in RowRecord
    BY <1>1, <1>2, <1>3 DEF RowRecord, ClaimedRow
  <1>8. QED
    BY <1>4, <1>5, <1>6, <1>7

LEMMA UpdatesFields ==
  ASSUME NEW rec \in RowRecord, NEW a, NEW b, NEW st
  PROVE  /\ StartedRow(rec, a).status = "running" /\ StartedRow(rec, a).attempt = rec.attempt
         /\ LaunchedRow(rec, a).status = "launched" /\ LaunchedRow(rec, a).attempt = rec.attempt
         /\ RenewedRow(rec).status = rec.status /\ RenewedRow(rec).attempt = rec.attempt
         /\ RetryRow(rec, b).status = "retry" /\ RetryRow(rec, b).attempt = rec.attempt
         /\ EndedRow(rec, st).status = st /\ EndedRow(rec, st).attempt = rec.attempt
         /\ ClaimedRow(rec).status = "claimed" /\ ClaimedRow(rec).attempt = rec.attempt + 1
  BY DEF RowRecord, StartedRow, LaunchedRow, RenewedRow, RetryRow, EndedRow, ClaimedRow

LEMMA FreshRows ==
  /\ AbsentRow \in RowRecord /\ PendingRow \in RowRecord
  /\ QuarantinedRow \in RowRecord /\ GoneRow \in RowRecord
  /\ PendingRow.status = "pending" /\ PendingRow.attempt = 0
  /\ QuarantinedRow.status = "dead_letter" /\ QuarantinedRow.attempt = 0
  /\ GoneRow.status = "gone" /\ GoneRow.attempt = 0
  /\ AbsentRow.status = "absent" /\ AbsentRow.attempt = 0
  <1>1. {"absent", "pending", "dead_letter", "gone"} \subseteq Statuses
    BY StatusSets
  <1>2. 0 \in 0..MaxAttempts
    BY SchedulerAssumption
  <1>3. QED
    BY <1>1, <1>2 DEF AbsentRow, PendingRow, QuarantinedRow, GoneRow, RowRecord

-----------------------------------------------------------------------------
(* The store transactions *)

LEMMA UpdateOne ==
  ASSUME RowsType, NEW r \in Rows, NEW owns \in BOOLEAN, NEW rec,
         UpdateRow(r, owns, rec),
         owns => /\ rec \in RowRecord /\ RowStep(row[r], rec)
                 /\ row[r].status # "absent" /\ rec.status # "absent"
  PROVE  RowsOK
  BY DEF RowsType, RowsStep, RowStep, RowsFresh, RowsOK, UpdateRow

LEMMA UpdateMany ==
  ASSUME RowsType, NEW X \in SUBSET Rows, NEW f,
         row' = [r \in Rows |-> IF r \in X THEN f[r] ELSE row[r]],
         \A r \in X : /\ f[r] \in RowRecord /\ RowStep(row[r], f[r])
                      /\ row[r].status # "absent" /\ f[r].status # "absent"
  PROVE  RowsOK
  BY DEF RowsType, RowsStep, RowStep, RowsFresh, RowsOK

LEMMA OwnedPhase ==
  ASSUME NEW x \in Statuses
  PROVE  /\ x \in Owned => Phase(x) \in {"held", "fenced"} /\ x # "absent"
         /\ x \in Leased => Phase(x) = "held" /\ x # "absent"
         /\ x \in Waiting => Phase(x) = "waiting" /\ x # "absent"
         /\ x \in Active => Phase(x) \in {"waiting", "held", "fenced"} /\ x # "absent"
         /\ x \in Terminal => Phase(x) = "over" /\ x # "absent"
         /\ x # "absent" => Phase(x) # "none"
  BY DEF Statuses, Active, Terminal, Waiting, Leased, Owned, Phase

LEMMA StartedStep ==
  ASSUME RowsType, NEW r \in Rows, NEW a \in Attempts, MarkTaskRunStarted(r, a)
  PROVE  RowsOK
  <1>1. row[r] \in RowRecord
    BY DEF RowsType
  <1>2. StartOwned(r, a) => row[r].status \in Leased
    BY DEF StartOwned
  <1>3. StartOwned(r, a) => RowStep(row[r], StartedRow(row[r], a))
    <2>1. Phase("running") = "held"
      BY PhaseOf, StatusSets
    <2>2. row[r].status \in Leased => Phase(row[r].status) = "held"
      BY <1>1, OwnedPhase, RowRecordFields
    <2>3. /\ StartedRow(row[r], a).status = "running"
          /\ StartedRow(row[r], a).attempt = row[r].attempt
      BY <1>1, UpdatesFields
    <2>4. QED
      BY <1>2, <2>1, <2>2, <2>3 DEF RowStep
  <1>4. StartedRow(row[r], a) \in RowRecord
    BY <1>1, UpdatesTyped, StatusSets
  <1>5. StartedRow(row[r], a).status # "absent"
    BY <1>1, UpdatesFields
  <1>6. StartOwned(r, a) \in BOOLEAN
    BY DEF StartOwned, MayRun
  <1>7. QED
    BY <1>1, <1>2, <1>3, <1>4, <1>5, <1>6, UpdateOne, OwnedPhase, RowRecordFields
       DEF MarkTaskRunStarted

LEMMA LaunchedStep ==
  ASSUME RowsType, NEW r \in Rows, NEW a \in Attempts, MarkTaskRunLaunched(r, a)
  PROVE  RowsOK
  <1>1. row[r] \in RowRecord
    BY DEF RowsType
  <1>2. Owns(r, a) => row[r].status \in Owned
    BY DEF Owns
  <1>3. Owns(r, a) => RowStep(row[r], LaunchedRow(row[r], a))
    BY <1>1, <1>2, UpdatesFields, OwnedPhase, RowRecordFields, PhaseOf DEF RowStep
  <1>4. LaunchedRow(row[r], a) \in RowRecord /\ LaunchedRow(row[r], a).status # "absent"
    BY <1>1, UpdatesTyped, UpdatesFields, StatusSets
  <1>5. Owns(r, a) \in BOOLEAN
    BY DEF Owns
  <1>6. QED
    BY <1>1, <1>2, <1>3, <1>4, <1>5, UpdateOne, OwnedPhase, RowRecordFields
       DEF MarkTaskRunLaunched

LEMMA RenewedStep ==
  ASSUME RowsType, NEW r \in Rows, NEW a \in Attempts, RenewTaskRunLease(r, a)
  PROVE  RowsOK
  <1>1. row[r] \in RowRecord
    BY DEF RowsType
  <1>2. Owns(r, a) => row[r].status \in Owned
    BY DEF Owns
  <1>3. RowStep(row[r], RenewedRow(row[r]))
    BY <1>1, UpdatesFields DEF RowStep
  <1>4. /\ RenewedRow(row[r]) \in RowRecord
        /\ Owns(r, a) => RenewedRow(row[r]).status # "absent"
    BY <1>1, <1>2, UpdatesTyped, UpdatesFields, OwnedPhase, RowRecordFields, StatusSets
  <1>5. Owns(r, a) \in BOOLEAN
    BY DEF Owns
  <1>6. QED
    BY <1>1, <1>2, <1>3, <1>4, <1>5, UpdateOne, OwnedPhase, RowRecordFields
       DEF RenewTaskRunLease

LEMMA EndedStep ==
  ASSUME NEW rec \in RowRecord, rec.status \in Active, NEW st \in Terminal
  PROVE  /\ EndedRow(rec, st) \in RowRecord /\ RowStep(rec, EndedRow(rec, st))
         /\ rec.status # "absent" /\ EndedRow(rec, st).status # "absent"
  <1>1. EndedRow(rec, st).status = st /\ EndedRow(rec, st).attempt = rec.attempt
    BY UpdatesFields
  <1>2. Phase(st) = "over" /\ st # "absent"
    BY OwnedPhase, StatusSets
  <1>3. Phase(rec.status) \in {"waiting", "held", "fenced"} /\ rec.status # "absent"
    BY OwnedPhase, RowRecordFields
  <1>4. EndedRow(rec, st) \in RowRecord
    BY UpdatesTyped, SchedulerAssumption DEF Attempts
  <1>5. QED
    BY <1>1, <1>2, <1>3, <1>4 DEF RowStep

LEMMA FinishedStep ==
  ASSUME RowsType, NEW r \in Rows, NEW a \in Attempts, NEW st \in Terminal,
         MarkTaskRunFinished(r, a, st)
  PROVE  RowsOK
  <1>1. row[r] \in RowRecord
    BY DEF RowsType
  <1>2. Owns(r, a) => row[r].status \in Active
    BY DEF Owns, Active
  <1>3. Owns(r, a) \in BOOLEAN
    BY DEF Owns
  <1>4. QED
    BY <1>1, <1>2, <1>3, UpdateOne, EndedStep DEF MarkTaskRunFinished

LEMMA RescheduledStep ==
  ASSUME RowsType, NEW r \in Rows, NEW a \in Attempts, NEW b \in BOOLEAN,
         RescheduleTaskRun(r, a, b)
  PROVE  RowsOK
  <1>1. row[r] \in RowRecord
    BY DEF RowsType
  <1>2. Owns(r, a) => row[r].status \in Owned /\ row[r].attempt = a
    BY DEF Owns
  <1>3. Owns(r, a) \in BOOLEAN
    BY DEF Owns
  <1>4. CASE a < MaxAttempts
    <2>1. Owns(r, a) => RowStep(row[r], RetryRow(row[r], b))
      BY <1>1, <1>2, <1>4, UpdatesFields, OwnedPhase, RowRecordFields, PhaseOf, StatusSets
         DEF RowStep
    <2>2. RetryRow(row[r], b) \in RowRecord /\ RetryRow(row[r], b).status # "absent"
      BY <1>1, UpdatesTyped, UpdatesFields, StatusSets
    <2>3. UpdateRow(r, Owns(r, a), RetryRow(row[r], b))
      BY <1>4 DEF RescheduleTaskRun
    <2>4. QED
      BY <1>1, <1>2, <1>3, <2>1, <2>2, <2>3, UpdateOne, OwnedPhase, RowRecordFields
  <1>5. CASE ~(a < MaxAttempts)
    <2>1. UpdateRow(r, Owns(r, a), EndedRow(row[r], "dead_letter"))
      BY <1>5 DEF RescheduleTaskRun
    <2>2. Owns(r, a) => row[r].status \in Active
      BY <1>2 DEF Active
    <2>3. QED
      BY <1>1, <1>3, <2>1, <2>2, UpdateOne, EndedStep, StatusSets
  <1>6. QED
    BY <1>4, <1>5

LEMMA ReconciledStep ==
  ASSUME RowsType, ReconcileExpiredLaunchedRuns
  PROVE  RowsOK
  <1> DEFINE X == {r \in Rows : Orphaned(row[r])}
  <1> DEFINE f == [r \in Rows |-> EndedRow(row[r], "interrupted")]
  <1>1. row' = [r \in Rows |-> IF r \in X THEN f[r] ELSE row[r]]
    BY DEF ReconcileExpiredLaunchedRuns
  <1>2. ASSUME NEW r \in X
        PROVE  row[r] \in RowRecord /\ row[r].status \in Active
    BY DEF RowsType, Orphaned, Active, Owned
  <1>3. ASSUME NEW r \in X
        PROVE  /\ f[r] \in RowRecord /\ RowStep(row[r], f[r])
               /\ row[r].status # "absent" /\ f[r].status # "absent"
    BY <1>2, EndedStep, StatusSets
  <1>4. QED
    BY <1>1, <1>3, UpdateMany

LEMMA GoneStep ==
  ASSUME RowsType, NEW X \in SUBSET Rows, \A r \in X : row[r].status # "absent",
         row' = [r \in Rows |-> IF r \in X THEN GoneRow ELSE row[r]]
  PROVE  RowsOK
  <1> DEFINE f == [r \in Rows |-> GoneRow]
  <1>1. row' = [r \in Rows |-> IF r \in X THEN f[r] ELSE row[r]]
    OBVIOUS
  <1>2. ASSUME NEW r \in X
        PROVE  /\ f[r] \in RowRecord /\ RowStep(row[r], f[r])
               /\ row[r].status # "absent" /\ f[r].status # "absent"
    <2>1. row[r].status \in Statuses /\ row[r].status # "absent"
      BY RowRecordFields DEF RowsType
    <2>2. Phase(row[r].status) # "none" /\ Phase("gone") = "gone"
      BY <2>1, OwnedPhase, PhaseOf
    <2>3. QED
      BY <2>1, <2>2, FreshRows DEF RowStep
  <1>3. QED
    BY <1>1, <1>2, UpdateMany

\* What a transaction of claim_due_tasks does to a row it claims, ...
Taken(r) ==
  /\ row[r].status \in Waiting \cup Leased \cup {"absent"} /\ ~Holds(row[r])
  /\ row[r].status = "absent" => TaskOf(r) \notin BadTasks
  /\ row'[r].status = "claimed" /\ row'[r].lease = "live"
  /\ row'[r].attempt = row[r].attempt + 1 /\ row'[r].attempt \in Attempts

\* ... and to one it does not.
Passed(r) ==
  \/ row'[r] = row[r]
  \/ /\ row[r].status = "absent"
     /\ row'[r] = IF TaskOf(r) \in BadTasks THEN QuarantinedRow ELSE PendingRow
  \/ /\ row[r].status \in Active /\ ~Holds(row[r])
     /\ row'[r] = EndedRow(row[r], "dead_letter")

\* A transaction of claim_due_tasks: every row makes a step that keeps its promise,
\* unused rows of definitions that stay due are kept, the batch is new attempts, and
\* no other row holds the thread of one in the batch.
LEMMA ClaimStep ==
  ASSUME IInv, NEW limit, NEW S \in SUBSET Rows, ClaimDueTasks(limit, S)
  PROVE  /\ RowsType' /\ RowsStep
         /\ task' \in [Tasks -> TaskRecord]
         /\ DueHasRow' /\ AbsentUntried'
         /\ \A r \in S : Taken(r)
         /\ \A r \in Rows \ S : Passed(r)
         /\ \A r \in S, q \in Rows : Holds(row'[q]) /\ ThreadOfRow(q) = ThreadOfRow(r) => q = r
  <1> PICK D \in DueBatches(limit) :
         LET rows == DeadLettered(Materialized(D))
         IN  /\ task' = Advanced(D)
             /\ S \in ClaimBatches(Candidates(rows, Advanced(D)),
                                   ClaimedThreads(rows), limit)
             /\ row' = [r \in Rows |-> IF r \in S THEN ClaimedRow(rows[r]) ELSE rows[r]]
    BY DEF ClaimDueTasks
  <1> DEFINE mat == Materialized(D)
             dead == DeadLettered(mat)
             Fresh == {FreshRow(t) : t \in D}
  <1> USE DEF RowsType
  <1>1. D \subseteq Due /\ D \subseteq Tasks
    BY DEF DueBatches, Due
  <1>2. RowsType
    BY DEF IInv, TypeOK
  <1>3. ASSUME NEW t \in D
        PROVE  /\ FreshRow(t) \in Rows /\ row[FreshRow(t)].status = "absent"
               /\ TaskOf(FreshRow(t)) = t /\ task[t].next = "past"
    <2>1. t \in Tasks /\ task[t].next = "past"
      BY <1>1 DEF Due
    <2>2. \E n \in 1..MaxOcc : row[<<t, n>>].status = "absent"
      BY <2>1 DEF IInv, DueHasRow
    <2>3. PICK n \in 1..MaxOcc : row[<<t, n>>].status = "absent" /\ FreshRow(t) = <<t, n>>
      BY <2>2 DEF FreshRow
    <2>4. QED
      BY <2>1, <2>3 DEF Rows, TaskOf
  <1>4. ASSUME NEW r \in Rows
        PROVE  \/ r \notin Fresh /\ mat[r] = row[r]
               \/ /\ r \in Fresh /\ row[r].status = "absent" /\ row[r].attempt = 0
                  /\ mat[r] \in {PendingRow, QuarantinedRow}
    BY <1>3 DEF Materialized, IInv, AbsentUntried
  <1>5. ASSUME NEW r \in Rows
        PROVE  \/ dead[r] = mat[r]
               \/ /\ mat[r].attempt >= MaxAttempts /\ mat[r].status \in Active
                  /\ dead[r] = EndedRow(mat[r], "dead_letter")
    BY DEF DeadLettered, Claimable, Active, Owned
  <1>6. ASSUME NEW r \in S
        PROVE  /\ row'[r] = ClaimedRow(dead[r]) /\ dead[r].attempt < MaxAttempts
               /\ dead[r].status \in Waiting \cup Leased
    BY DEF ClaimBatches, Candidates, Claimable
  <1>7. ASSUME NEW r \in Rows, r \notin S
        PROVE  row'[r] = dead[r]
    BY <1>7
  <1>8. ASSUME NEW r \in Rows
        PROVE  /\ dead[r] \in RowRecord /\ RowStep(row[r], dead[r])
               /\ dead[r].status = "absent" => r \notin Fresh /\ row[r] = dead[r]
               /\ dead[r].attempt = row[r].attempt
               /\ dead[r].status \in Waiting \cup Leased =>
                    \/ row[r].status = "absent"
                    \/ row[r].status \in Waiting \cup Leased
               /\ r \notin Fresh /\ row[r].status = "absent" => dead[r] = row[r]
    <2>1. CASE r \notin Fresh /\ mat[r] = row[r]
      <3>1. CASE dead[r] = mat[r]
        BY <1>2, <2>1, <3>1 DEF RowStep
      <3>2. CASE /\ mat[r].attempt >= MaxAttempts /\ mat[r].status \in Active
                 /\ dead[r] = EndedRow(mat[r], "dead_letter")
        <4>1. row[r] \in RowRecord /\ row[r].status \in Active
          BY <1>2, <2>1, <3>2
        <4>2. /\ dead[r] \in RowRecord /\ RowStep(row[r], dead[r])
              /\ row[r].status # "absent" /\ dead[r].status # "absent"
          BY <2>1, <3>2, <4>1, EndedStep, StatusSets
        <4>3. dead[r].status = "dead_letter" /\ dead[r].attempt = row[r].attempt
          BY <2>1, <3>2, <4>1, UpdatesFields
        <4>4. "dead_letter" \notin Waiting \cup Leased
          BY DEF Waiting, Leased
        <4>5. QED
          BY <4>2, <4>3, <4>4
      <3>3. QED
        BY <1>5, <3>1, <3>2
    <2>2. CASE /\ r \in Fresh /\ row[r].status = "absent" /\ row[r].attempt = 0
               /\ mat[r] \in {PendingRow, QuarantinedRow}
      <3>1. mat[r] \in RowRecord /\ mat[r].attempt = 0 /\ mat[r].status # "absent"
        BY <2>2, FreshRows
      <3>2. dead[r] = mat[r]
        BY <1>5, <3>1, SchedulerAssumption
      <3>3. Phase(mat[r].status) \in {"waiting", "over"} /\ Phase("absent") = "none"
        BY <2>2, FreshRows, PhaseOf, StatusSets
      <3>4. QED
        BY <2>2, <3>1, <3>2, <3>3 DEF RowStep
    <2>3. QED
      BY <1>4, <2>1, <2>2
  <1>9. ASSUME NEW r \in S
        PROVE  /\ row'[r] \in RowRecord /\ RowStep(row[r], row'[r])
               /\ row'[r].status # "absent"
               /\ row'[r].attempt = row[r].attempt + 1 /\ row'[r].attempt \in Attempts
    <2>1. /\ dead[r] \in RowRecord /\ dead[r].attempt = row[r].attempt
          /\ row[r].status \in Waiting \cup Leased \cup {"absent"}
          /\ row[r].attempt < MaxAttempts /\ row[r].attempt \in 0..MaxAttempts
      BY <1>2, <1>6, <1>8, RowRecordFields
    <2>2. /\ row'[r] \in RowRecord /\ row'[r].status = "claimed"
          /\ row'[r].attempt = row[r].attempt + 1
      BY <1>6, <1>8, <2>1, UpdatesTyped, UpdatesFields, SchedulerAssumption, StatusSets
         DEF Attempts
    <2>3. Phase(row[r].status) \in {"none", "waiting", "held"} /\ Phase("claimed") = "held"
      BY <2>1, PhaseOf, StatusSets
    <2>4. QED
      BY <2>1, <2>2, <2>3, SchedulerAssumption DEF RowStep, Attempts
  <1>10. RowsType' /\ RowsStep
    <2>1. \A r \in Rows : row'[r] \in RowRecord /\ RowStep(row[r], row'[r])
      BY <1>7, <1>8, <1>9
    <2>2. QED
      BY <2>1 DEF RowsStep
  <1>11. task' \in [Tasks -> TaskRecord]
    BY <1>1 DEF Advanced, IInv, TypeOK, TaskRecord
  <1>12. DueHasRow'
    <2> SUFFICES ASSUME NEW t \in Tasks, task'[t].next = "past"
                 PROVE  \E n \in 1..MaxOcc : row'[<<t, n>>].status = "absent"
      BY DEF DueHasRow
    <2>1. t \notin D /\ task'[t] = task[t]
      BY DEF Advanced, IInv, TypeOK, TaskRecord
    <2>2. PICK n \in 1..MaxOcc : row[<<t, n>>].status = "absent"
      BY <2>1 DEF IInv, DueHasRow
    <2>3. <<t, n>> \in Rows /\ <<t, n>> \notin Fresh
      BY <2>1, <1>3 DEF Rows, TaskOf
    <2>4. dead[<<t, n>>] = row[<<t, n>>]
      BY <1>8, <2>2, <2>3
    <2>5. <<t, n>> \notin S
      BY <1>6, <2>2, <2>4 DEF Waiting, Leased
    <2>6. QED
      BY <1>7, <2>2, <2>3, <2>4, <2>5
  <1>13. AbsentUntried'
    BY <1>7, <1>8, <1>9 DEF AbsentUntried, IInv
  <1>14. ASSUME NEW r \in Rows, r \in Fresh
         PROVE  /\ row[r].status = "absent"
                /\ dead[r] = IF TaskOf(r) \in BadTasks THEN QuarantinedRow ELSE PendingRow
    <2>1. mat[r] = IF TaskOf(r) \in BadTasks THEN QuarantinedRow ELSE PendingRow
      BY <1>14 DEF Materialized
    <2>2. mat[r].attempt = 0
      BY <2>1, FreshRows
    <2>3. dead[r] = mat[r]
      BY <1>5, <2>2, SchedulerAssumption
    <2>4. QED
      BY <1>3, <1>14, <2>1, <2>3
  <1>15. ASSUME NEW r \in Rows, r \notin Fresh
         PROVE  \/ dead[r] = row[r]
                \/ /\ row[r].status \in Active /\ Claimable(row[r])
                   /\ dead[r] = EndedRow(row[r], "dead_letter")
    BY <1>15, <1>4, <1>5 DEF DeadLettered
  <1>16. \A rec : Claimable(rec) => ~Holds(rec)
    BY DEF Claimable, Holds, Waiting, Leased
  <1>17. ASSUME NEW r \in S
         PROVE  Taken(r)
    <2>1. dead[r].status \in Waiting \cup Leased /\ Claimable(dead[r])
      BY <1>6 DEF ClaimBatches, Candidates
    <2>2. dead[r] \in RowRecord
      BY <1>8
    <2>3. row'[r].status = "claimed" /\ row'[r].lease = "live"
      BY <1>6, <2>2 DEF ClaimedRow, RowRecord
    <2>4. CASE r \in Fresh
      <3>1. TaskOf(r) \notin BadTasks
        BY <1>14, <2>1, <2>4, FreshRows DEF Waiting, Leased
      <3>2. ~Holds(row[r])
        BY <1>14, <2>4 DEF Holds, Leased
      <3>3. QED
        BY <1>9, <1>14, <2>3, <2>4, <3>1, <3>2 DEF Taken
    <2>5. CASE r \notin Fresh
      <3>1. "dead_letter" \notin Waiting \cup Leased
        BY DEF Waiting, Leased
      <3>2. dead[r] = row[r]
        BY <1>2, <1>15, <2>1, <2>5, <3>1, UpdatesFields
      <3>3. "absent" \notin Waiting \cup Leased
        BY DEF Waiting, Leased
      <3>4. QED
        BY <1>9, <1>16, <2>1, <2>3, <3>2, <3>3 DEF Taken
    <2>6. QED
      BY <2>4, <2>5
  <1>18. ASSUME NEW r \in Rows \ S
         PROVE  Passed(r)
    BY <1>7, <1>14, <1>15, <1>16 DEF Passed
  <1>19. ASSUME NEW r \in S, NEW q \in Rows, Holds(row'[q]), ThreadOfRow(q) = ThreadOfRow(r)
         PROVE  q = r
    <2>1. CASE q \in S
      BY <1>19, <2>1 DEF ClaimBatches
    <2>2. CASE q \notin S
      <3>1. ThreadOfRow(q) \in ClaimedThreads(dead)
        BY <1>7, <1>19, <2>2 DEF ClaimedThreads
      <3>2. QED
        BY <1>19, <3>1 DEF ClaimBatches
    <2>3. QED
      BY <2>1, <2>2
  <1>20. QED
    BY <1>10, <1>11, <1>12, <1>13, <1>17, <1>18, <1>19

-----------------------------------------------------------------------------
(* The inductive invariant *)

\* What a step owes besides the row table: the types of the other variables, and
\* that no definition becomes due.
Rest ==
  /\ task' \in [Tasks -> TaskRecord]
  /\ \A t \in Tasks : task'[t].next = "past" => task[t].next = "past"
  /\ proc' \in [Procs -> {"up", "draining", "ending", "down"}]
  /\ loop' \in [Procs -> LoopRecord]
  /\ disp' \in [Slots -> DispRecord]
  /\ run' \in [Slots -> RunStates]
  /\ late' \subseteq (LateOps \X Slots)
  /\ request' \in [Procs -> Requests]
  /\ crashes' \in 0..MaxCrashes
  /\ stops' \in 0..MaxStops

Good == IInv' /\ RowsStep

\* So does a step that materializes no occurrence.
Kept == Good /\ RowsFresh

LEMMA Combine ==
  ASSUME IInv, RowsOK, Rest
  PROVE  Kept
  <1>1. TypeOK'
    BY DEF RowsOK, RowsType, Rest, TypeOK
  <1>2. DueHasRow'
    BY DEF IInv, DueHasRow, RowsOK, RowsFresh, Rest, Rows
  <1>3. ASSUME NEW r \in Rows, row'[r].status = "absent"
        PROVE  row'[r].attempt = 0
    <2>1. row[r].status = "absent" /\ row[r].attempt = 0 /\ RowStep(row[r], row'[r])
      BY <1>3 DEF IInv, AbsentUntried, RowsOK, RowsFresh, RowsStep
    <2>2. Phase(row'[r].status) = "none" /\ Phase(row[r].status) = "none"
      BY <1>3, <2>1, PhaseOf
    <2>3. QED
      BY <2>1, <2>2 DEF RowStep
  <1>4. QED
    BY <1>1, <1>2, <1>3 DEF Kept, Good, IInv, AbsentUntried, RowsOK

LEMMA SameRows ==
  ASSUME IInv, UNCHANGED row
  PROVE  RowsOK
  BY DEF IInv, TypeOK, RowsOK, RowsType, RowsStep, RowStep, RowsFresh

LEMMA Goes ==
  ASSUME TypeOK, NEW s \in Slots, NEW pc \in Pcs, Goto(s, pc)
  PROVE  disp' \in [Slots -> DispRecord]
  BY DEF TypeOK, Goto, DispRecord

LEMMA PcNames ==
  {"none", "start", "launch", "mark", "await", "deliver", "finish", "retry", "resched",
   "unwind", "requeue", "reconcile", "settle", "done"} \subseteq Pcs
  BY DEF Pcs, LaunchedPcs

LEMMA TimeStep ==
  ASSUME IInv, TimePasses
  PROVE  Kept
  <1>1. ASSUME NEW t \in Tasks, TaskDue(t)
        PROVE  Kept
    <2>1. TypeOK' /\ AbsentUntried'
      BY <1>1 DEF TaskDue, IInv, TypeOK, TaskRecord, AbsentUntried
    <2>2. DueHasRow'
      BY <1>1 DEF TaskDue, IInv, TypeOK, TaskRecord, DueHasRow
    <2>3. RowsStep /\ RowsFresh
      BY <1>1, SameRows DEF TaskDue, RowsOK
    <2>4. QED
      BY <2>1, <2>2, <2>3 DEF Kept, Good, IInv
  <1>2. ASSUME NEW r \in Rows, RetryDelayElapses(r) \/ LeaseExpires(r) \/ OrphanGraceElapses(r)
        PROVE  Kept
    <2>1. PICK rec \in RowRecord : /\ row' = [row EXCEPT ![r] = rec]
                                   /\ rec.status = row[r].status
                                   /\ rec.attempt = row[r].attempt
      <3>1. CASE RetryDelayElapses(r)
        <4> DEFINE rec == [row[r] EXCEPT !.avail = TRUE]
        <4>1. row[r] \in RowRecord
          BY DEF IInv, TypeOK
        <4>2. rec \in RowRecord /\ rec.status = row[r].status /\ rec.attempt = row[r].attempt
          BY <4>1 DEF RowRecord
        <4>3. row' = [row EXCEPT ![r] = rec]
          BY <3>1 DEF RetryDelayElapses
        <4>4. QED
          BY <4>2, <4>3
      <3>2. CASE LeaseExpires(r)
        <4> DEFINE rec == [row[r] EXCEPT !.lease = "expired"]
        <4>1. row[r] \in RowRecord
          BY DEF IInv, TypeOK
        <4>2. rec \in RowRecord /\ rec.status = row[r].status /\ rec.attempt = row[r].attempt
          BY <4>1 DEF RowRecord
        <4>3. row' = [row EXCEPT ![r] = rec]
          BY <3>2 DEF LeaseExpires
        <4>4. QED
          BY <4>2, <4>3
      <3>3. CASE OrphanGraceElapses(r)
        <4> DEFINE rec == [row[r] EXCEPT !.quiet = TRUE]
        <4>1. row[r] \in RowRecord
          BY DEF IInv, TypeOK
        <4>2. rec \in RowRecord /\ rec.status = row[r].status /\ rec.attempt = row[r].attempt
          BY <4>1 DEF RowRecord
        <4>3. row' = [row EXCEPT ![r] = rec]
          BY <3>3 DEF OrphanGraceElapses
        <4>4. QED
          BY <4>2, <4>3
      <3>4. QED
        BY <1>2, <3>1, <3>2, <3>3
    <2>2. RowsOK
      BY <2>1 DEF IInv, TypeOK, RowsOK, RowsType, RowsStep, RowStep, RowsFresh
    <2>3. Rest
      BY <1>2 DEF IInv, TypeOK, Rest, RetryDelayElapses, LeaseExpires, OrphanGraceElapses
    <2>4. QED
      BY <2>2, <2>3, Combine
  <1>3. QED
    BY <1>1, <1>2 DEF TimePasses

\* The capacity tick() computes from the dispatches it still has is a number.
LEMMA ActiveCount ==
  ASSUME NEW p \in Procs
  PROVE  /\ Cardinality(ActiveDispatches(p)) \in Nat
         /\ Cardinality(ActiveDispatches(p)) < MaxConcurrent =>
              MaxConcurrent - Cardinality(ActiveDispatches(p)) \in 0..MaxConcurrent
  <1>1. IsFiniteSet(1..MaxOcc) /\ IsFiniteSet(Attempts)
    BY FS_Interval, SchedulerAssumption DEF Attempts
  <1>2. IsFiniteSet(Rows)
    BY <1>1, FS_Product, SchedulerAssumption DEF Rows
  <1>3. IsFiniteSet(Slots)
    BY <1>1, <1>2, FS_Product DEF Slots
  <1>4. ActiveDispatches(p) \in SUBSET Slots
    BY DEF ActiveDispatches
  <1>5. IsFiniteSet(ActiveDispatches(p))
    BY <1>3, <1>4, FS_Subset
  <1>6. Cardinality(ActiveDispatches(p)) \in Nat
    BY <1>5, FS_CardinalityType
  <1>7. QED
    BY <1>6, SchedulerAssumption

LEMMA PollStep ==
  ASSUME IInv, NEW p \in Procs, Polls(p)
  PROVE  Good /\ (TickClaim(p) \/ ClaimLost(p) \/ Kept)
  <1> USE DEF IInv
  <1>1. CASE TickCleanup(p)
    <2>1. PICK old \in SUBSET {r \in Rows : row[r].status \in Terminal} : CleanupTaskRuns(old)
      BY <1>1 DEF TickCleanup
    <2>2. \A r \in old : row[r].status # "absent"
      BY DEF Terminal
    <2>3. RowsOK
      BY <2>1, <2>2, GoneStep DEF CleanupTaskRuns, TypeOK, RowsType
    <2>4. Rest
      BY <1>1 DEF TickCleanup, Rest, TypeOK
    <2>5. QED
      BY <2>3, <2>4, Combine DEF Kept
  <1>2. CASE TickReconcile(p)
    <2>1. RowsOK
      BY <1>2, ReconciledStep DEF TickReconcile, TypeOK, RowsType
    <2>2. loop' \in [Procs -> LoopRecord]
      <3>1. CASE ~(Cardinality(ActiveDispatches(p)) < MaxConcurrent)
        BY <1>2, <3>1 DEF TickReconcile, TypeOK
      <3>2. CASE Cardinality(ActiveDispatches(p)) < MaxConcurrent
        BY <1>2, <3>2, ActiveCount DEF TickReconcile, TypeOK, LoopRecord
      <3>3. QED
        BY <3>1, <3>2
    <2>3. Rest
      BY <1>2, <2>2 DEF TickReconcile, Rest, TypeOK
    <2>4. QED
      BY <2>1, <2>3, Combine DEF Kept
  <1>3. CASE TickClaim(p)
    <2>1. PICK S \in SUBSET Rows :
            /\ ClaimDueTasks(loop[p].capacity, S)
            /\ loop' = [loop EXCEPT ![p] =
                          [at |-> "dispatch", capacity |-> 0,
                           batch |-> {<<r, row'[r].attempt>> : r \in S}]]
      BY <1>3 DEF TickClaim
    <2>2. /\ RowsType' /\ RowsStep /\ task' \in [Tasks -> TaskRecord]
          /\ DueHasRow' /\ AbsentUntried'
          /\ \A r \in S : row'[r].attempt \in Attempts
      BY <2>1, ClaimStep DEF Taken
    <2>3. {<<r, row'[r].attempt>> : r \in S} \subseteq Slots
      BY <2>2 DEF Slots
    <2>4. loop' \in [Procs -> LoopRecord]
      BY <2>1, <2>3, SchedulerAssumption DEF TypeOK, LoopRecord
    <2>5. TypeOK'
      BY <1>3, <2>2, <2>4 DEF TickClaim, TypeOK, RowsType
    <2>6. QED
      BY <1>3, <2>2, <2>5 DEF Good
  <1>4. CASE TickDispatch(p)
    <2>1. "start" \in Pcs
      BY PcNames
    <2>2. disp' \in [Slots -> DispRecord]
      BY <1>4, <2>1 DEF TickDispatch, TypeOK, DispRecord
    <2>3. loop' \in [Procs -> LoopRecord]
      BY <1>4, SchedulerAssumption DEF TickDispatch, TypeOK, LoopRecord, Idle
    <2>4. Rest /\ UNCHANGED row
      BY <1>4, <2>2, <2>3 DEF TickDispatch, Rest, TypeOK
    <2>5. QED
      BY <2>4, SameRows, Combine DEF Kept
  <1>5. CASE TickFails(p)
    <2>1. loop' \in [Procs -> LoopRecord]
      BY <1>5, SchedulerAssumption DEF TickFails, TypeOK, LoopRecord, Idle
    <2>2. Rest /\ UNCHANGED row
      BY <1>5, <2>1 DEF TickFails, Rest, TypeOK
    <2>3. QED
      BY <2>2, SameRows, Combine DEF Kept
  <1>6. CASE ClaimLost(p)
    <2>1. PICK S \in SUBSET Rows : ClaimDueTasks(loop[p].capacity, S)
      BY <1>6 DEF ClaimLost
    <2>2. /\ RowsType' /\ RowsStep /\ task' \in [Tasks -> TaskRecord]
          /\ DueHasRow' /\ AbsentUntried'
      BY <2>1, ClaimStep
    <2>3. loop' \in [Procs -> LoopRecord]
      BY <1>6, SchedulerAssumption DEF ClaimLost, TypeOK, LoopRecord, Idle
    <2>4. TypeOK'
      BY <1>6, <2>2, <2>3 DEF ClaimLost, TypeOK, RowsType
    <2>5. QED
      BY <1>6, <2>2, <2>4 DEF Good
  <1>7. QED
    BY <1>1, <1>2, <1>3, <1>4, <1>5, <1>6 DEF Polls

LEMMA SlotParts ==
  ASSUME NEW s \in Slots
  PROVE  s[1] \in Rows /\ s[2] \in Attempts /\ s = <<s[1], s[2]>>
  BY DEF Slots

LEMMA FinishTerminal ==
  ASSUME NEW s
  PROVE  FinishStatuses(s) \subseteq Terminal
  BY DEF FinishStatuses, Terminal

\* A step of one dispatch that makes one of its store calls, or none.
LEMMA DispatchRows ==
  ASSUME IInv, NEW s \in Slots,
         \/ UNCHANGED row
         \/ MarkTaskRunStarted(s[1], s[2])
         \/ MarkTaskRunLaunched(s[1], s[2])
         \/ RenewTaskRunLease(s[1], s[2])
         \/ \E b \in BOOLEAN : RescheduleTaskRun(s[1], s[2], b)
         \/ \E q : \E status \in FinishStatuses(q) : MarkTaskRunFinished(s[1], s[2], status)
  PROVE  RowsOK
  <1>1. RowsType
    BY DEF IInv, TypeOK, RowsType
  <1>2. s[1] \in Rows /\ s[2] \in Attempts
    BY SlotParts
  <1>3. CASE UNCHANGED row
    BY <1>3, SameRows
  <1>4. CASE MarkTaskRunStarted(s[1], s[2])
    BY <1>1, <1>2, <1>4, StartedStep
  <1>5. CASE MarkTaskRunLaunched(s[1], s[2])
    BY <1>1, <1>2, <1>5, LaunchedStep
  <1>6. CASE RenewTaskRunLease(s[1], s[2])
    BY <1>1, <1>2, <1>6, RenewedStep
  <1>7. CASE \E b \in BOOLEAN : RescheduleTaskRun(s[1], s[2], b)
    BY <1>1, <1>2, <1>7, RescheduledStep
  <1>8. CASE \E q : \E status \in FinishStatuses(q) : MarkTaskRunFinished(s[1], s[2], status)
    <2>1. PICK q : \E status \in FinishStatuses(q) : MarkTaskRunFinished(s[1], s[2], status)
      BY <1>8
    <2>2. PICK status \in FinishStatuses(q) : MarkTaskRunFinished(s[1], s[2], status)
      BY <2>1
    <2>3. status \in Terminal
      BY <2>2, FinishTerminal
    <2>4. QED
      BY <1>1, <1>2, <2>2, <2>3, FinishedStep
  <1>9. QED
    BY <1>3, <1>4, <1>5, <1>6, <1>7, <1>8

LEMMA DispatchStep ==
  ASSUME IInv, NEW s \in Slots, Dispatches(s)
  PROVE  Kept
  <1> USE DEF IInv
  <1>1. CASE StartDispatch(s)
    <2>1. {"launch", "done"} \subseteq Pcs
      BY PcNames
    <2>2. disp' \in [Slots -> DispRecord]
      <3> DEFINE starts == StartOwned(s[1], s[2])
                 rec == [disp[s] EXCEPT !.pc = IF starts THEN "launch" ELSE "done",
                                        !.hb = IF starts THEN "on" ELSE "off"]
      <3>1. disp \in [Slots -> DispRecord] /\ disp[s] \in DispRecord
        BY DEF TypeOK
      <3>2. rec \in DispRecord
        BY <2>1, <3>1 DEF DispRecord
      <3>3. disp' = [disp EXCEPT ![s] = rec]
        BY <1>1 DEF StartDispatch
      <3> HIDE DEF rec
      <3>4. QED
        BY <3>1, <3>2, <3>3
    <2>3. Rest
      BY <1>1, <2>2 DEF StartDispatch, Rest, TypeOK
    <2>4. RowsOK
      BY <1>1, DispatchRows DEF StartDispatch
    <2>5. QED
      BY <2>3, <2>4, Combine
  <1>2. CASE Launch(s)
    <2>1. "mark" \in Pcs
      BY PcNames
    <2>2. disp' \in [Slots -> DispRecord]
      BY <1>2, <2>1, Goes DEF Launch
    <2>3. run' \in [Slots -> RunStates]
      BY <1>2 DEF Launch, TypeOK, RunStates, LiveRuns
    <2>4. Rest /\ UNCHANGED row
      BY <1>2, <2>2, <2>3 DEF Launch, Rest, TypeOK
    <2>5. QED
      BY <2>4, SameRows, Combine
  <1>3. CASE \E pc \in Pcs : Goto(s, pc) /\ UNCHANGED <<task, proc, loop, run, late, request, crashes, stops>>
             /\ \/ UNCHANGED row
                \/ MarkTaskRunStarted(s[1], s[2])
                \/ MarkTaskRunLaunched(s[1], s[2])
                \/ RenewTaskRunLease(s[1], s[2])
                \/ \E b \in BOOLEAN : RescheduleTaskRun(s[1], s[2], b)
                \/ \E q : \E status \in FinishStatuses(q) :
                     MarkTaskRunFinished(s[1], s[2], status)
    <2>1. disp' \in [Slots -> DispRecord]
      BY <1>3, Goes
    <2>2. Rest
      BY <1>3, <2>1 DEF Rest, TypeOK
    <2>3. RowsOK
      BY <1>3, DispatchRows
    <2>4. QED
      BY <2>2, <2>3, Combine
  <1>4. CASE LaunchRefused(s)
    BY <1>3, <1>4, PcNames DEF LaunchRefused
  <1>5. CASE MarkLaunched(s)
    BY <1>3, <1>5, PcNames DEF MarkLaunched
  <1>6. CASE AwaitRun(s) \/ AwaitDelivery(s)
    <2>1. Decision(s) \in Pcs
      BY PcNames DEF Decision
    <2>2. QED
      BY <1>3, <1>6, <2>1, PcNames DEF AwaitRun, AwaitDelivery
  <1>7. CASE Finish(s)
    BY <1>3, <1>7, PcNames DEF Finish
  <1>8. CASE Reschedule(s)
    BY <1>3, <1>8, PcNames DEF Reschedule
  <1>9. CASE Unwind(s)
    BY <1>3, <1>9, PcNames DEF Unwind
  <1>10. CASE Requeue(s)
    BY <1>3, <1>10, PcNames DEF Requeue
  <1>11. CASE StoreFails(s)
    BY <1>3, <1>11, PcNames DEF StoreFails
  <1>12. CASE Reconcile(s)
    BY <1>3, <1>12, PcNames DEF Reconcile
  <1>13. CASE Settle(s)
    BY <1>3, <1>13, PcNames DEF Settle
  <1>14. CASE Heartbeat(s)
    <2>1. disp' \in [Slots -> DispRecord]
      BY <1>14 DEF Heartbeat, TypeOK, DispRecord
    <2>2. Rest
      BY <1>14, <2>1 DEF Heartbeat, Rest, TypeOK
    <2>3. RowsOK
      BY <1>14, DispatchRows DEF Heartbeat
    <2>4. QED
      BY <2>2, <2>3, Combine
  <1>15. CASE HeartbeatFails(s)
    <2>1. disp' \in [Slots -> DispRecord]
      BY <1>15 DEF HeartbeatFails, TypeOK, DispRecord
    <2>2. Rest /\ UNCHANGED row
      BY <1>15, <2>1 DEF HeartbeatFails, Rest, TypeOK
    <2>3. QED
      BY <2>2, SameRows, Combine
  <1>16. QED
    BY <1>1, <1>2, <1>4, <1>5, <1>6, <1>7, <1>8, <1>9, <1>10, <1>11, <1>12, <1>13,
       <1>14, <1>15 DEF Dispatches

LEMMA LateStep ==
  ASSUME IInv, NEW w \in late, LateWrite(w)
  PROVE  Kept
  <1>1. w[2] \in Slots
    BY DEF IInv, TypeOK
  <1>2. RowsOK
    BY <1>1, DispatchRows DEF LateWrite
  <1>3. Rest
    BY DEF LateWrite, Rest, IInv, TypeOK
  <1>4. QED
    BY <1>2, <1>3, Combine

LEMMA ExecuteStep ==
  ASSUME IInv, NEW s \in Slots, Executes(s)
  PROVE  Kept
  <1>1. run' \in [Slots -> RunStates]
    BY DEF Executes, RunEnds, RunCancelled, UserCancelsRun, IInv, TypeOK, RunStates, LiveRuns
  <1>2. Rest /\ UNCHANGED row
    BY <1>1 DEF Executes, RunEnds, RunCancelled, UserCancelsRun, Rest, IInv, TypeOK
  <1>3. QED
    BY <1>2, SameRows, Combine

\* What task.cancel() on the dispatches X does to one of all dispatches.
LEMMA Cancelled ==
  ASSUME TypeOK, NEW X \in SUBSET Slots, NEW cancelled, CancelDispatches(X, cancelled),
         NEW s \in Slots
  PROVE  /\ s \notin X => disp'[s] = disp[s]
         /\ s \in X => /\ disp'[s] \in DispRecord /\ disp'[s].proc = disp[s].proc
                       /\ disp'[s].pc \in {AfterCancel(s), "done"}
                       /\ disp'[s].pc # AfterCancel(s) => disp[s].pc = "start"
                       /\ disp'[s].hb = IF disp'[s].pc = "done" THEN "off" ELSE disp[s].hb
         /\ run'[s] = run[s] \/ (run[s] \in {"running", "stopping"}
                                 /\ run'[s] \in {"stopping", "cancelling"})
         /\ s \in X /\ disp[s].pc \in LaunchedPcs => run'[s] # "running"
         /\ \A op : <<op, s>> \in late' =>
              <<op, s>> \in late \/ (s \in X /\ op = WriteOf(s) /\ op # "nothing")
  <1>1. PICK unbegun \in SUBSET {x \in X : disp[x].pc = "start"} :
          /\ disp' = [x \in Slots |->
                        LET pc == IF x \in unbegun THEN "done" ELSE AfterCancel(x)
                        IN  IF x \notin X THEN disp[x]
                            ELSE [disp[x] EXCEPT !.pc = pc,
                                                 !.hb = IF pc = "done" THEN "off" ELSE @]]
          /\ \E still \in SUBSET {x \in X \ unbegun : WriteOf(x) # "nothing"} :
               late' = late \cup {<<WriteOf(x), x>> : x \in still}
    BY DEF CancelDispatches
  <1> DEFINE pc == IF s \in unbegun THEN "done" ELSE AfterCancel(s)
             rec == [disp[s] EXCEPT !.pc = pc, !.hb = IF pc = "done" THEN "off" ELSE @]
  <1>2. disp[s] \in DispRecord
    BY DEF TypeOK
  <1>3. disp'[s] = IF s \notin X THEN disp[s] ELSE rec
    BY <1>1
  <1>4. /\ rec.pc = pc /\ rec.proc = disp[s].proc
        /\ rec.hb = IF pc = "done" THEN "off" ELSE disp[s].hb
    BY <1>2 DEF DispRecord
  <1>5. AfterCancel(s) \in Pcs
    <2>1. disp[s].pc \in Pcs
      BY <1>2 DEF DispRecord
    <2>2. QED
      BY <2>1, PcNames DEF AfterCancel
  <1>6. pc \in Pcs /\ rec \in DispRecord
    BY <1>2, <1>5, PcNames DEF DispRecord
  <1>7. s \in unbegun => disp[s].pc = "start"
    OBVIOUS
  <1>8. s \in X => /\ disp'[s] \in DispRecord /\ disp'[s].proc = disp[s].proc
                   /\ disp'[s].pc \in {AfterCancel(s), "done"}
                   /\ disp'[s].pc # AfterCancel(s) => disp[s].pc = "start"
                   /\ disp'[s].hb = IF disp'[s].pc = "done" THEN "off" ELSE disp[s].hb
    <2> HIDE DEF rec
    <2>1. QED
      BY <1>3, <1>4, <1>6, <1>7
  <1>9. /\ run'[s] = run[s] \/ (run[s] \in {"running", "stopping"}
                                /\ run'[s] \in {"stopping", "cancelling"})
        /\ s \in X /\ disp[s].pc \in LaunchedPcs => run'[s] # "running"
    BY DEF CancelDispatches
  <1>10. \A op : <<op, s>> \in late' =>
           <<op, s>> \in late \/ (s \in X /\ op = WriteOf(s) /\ op # "nothing")
    BY <1>1
  <1>11. QED
    BY <1>3, <1>8, <1>9, <1>10

LEMMA CancelTypes ==
  ASSUME TypeOK, NEW X \in SUBSET Slots, NEW cancelled, CancelDispatches(X, cancelled)
  PROVE  /\ disp' \in [Slots -> DispRecord] /\ run' \in [Slots -> RunStates]
         /\ late' \subseteq (LateOps \X Slots)
  <1>1. \A s \in Slots : disp'[s] \in DispRecord
    BY Cancelled DEF TypeOK
  <1>2. DOMAIN disp' = Slots /\ disp' = [s \in Slots |-> disp'[s]]
    BY DEF CancelDispatches
  <1>3. run' \in [Slots -> RunStates]
    BY DEF CancelDispatches, TypeOK, RunStates, LiveRuns
  <1>4. \A s : WriteOf(s) # "nothing" => WriteOf(s) \in LateOps
    BY DEF WriteOf, LateOps
  <1>5. PICK still \in SUBSET {s \in X : WriteOf(s) # "nothing"} :
               late' = late \cup {<<WriteOf(s), s>> : s \in still}
    BY DEF CancelDispatches
  <1>6. late' \subseteq (LateOps \X Slots)
    BY <1>4, <1>5 DEF TypeOK
  <1>7. QED
    BY <1>1, <1>2, <1>3, <1>6

LEMMA AdministerStep ==
  ASSUME IInv, NEW p \in Procs, Administers(p)
  PROVE  Kept
  <1> USE DEF IInv
  <1>1. ASSUME NEW t \in Tasks, NEW kind \in {"pausing", "deleting"}, PauseTask(p, t, kind)
        PROVE  Kept
    <2> DEFINE active == {r \in Rows : TaskOf(r) = t /\ row[r].status \in Active}
               f == [r \in Rows |-> EndedRow(row[r], "cancelled")]
    <2>1. row' = [r \in Rows |-> IF r \in active THEN f[r] ELSE row[r]]
      BY <1>1 DEF PauseTask
    <2>2. ASSUME NEW r \in active
          PROVE  /\ f[r] \in RowRecord /\ RowStep(row[r], f[r])
                 /\ row[r].status # "absent" /\ f[r].status # "absent"
      BY EndedStep, StatusSets DEF TypeOK
    <2>3. RowsOK
      BY <2>1, <2>2, UpdateMany DEF TypeOK, RowsType
    <2>4. request' \in [Procs -> Requests]
      BY <1>1 DEF PauseTask, TypeOK, Requests
    <2>5. task' \in [Tasks -> TaskRecord] /\ \A u \in Tasks : task'[u].next = task[u].next
      BY <1>1 DEF PauseTask, TypeOK, TaskRecord
    <2>6. Rest
      BY <1>1, <2>4, <2>5 DEF PauseTask, Rest, TypeOK
    <2>7. QED
      BY <2>3, <2>6, Combine
  <1>2. CASE CancelActiveTaskWork(p)
    <2>1. {s \in ActiveDispatches(p) : TaskOf(s[1]) = request[p].task} \in SUBSET Slots
      BY DEF ActiveDispatches
    <2>2. /\ disp' \in [Slots -> DispRecord] /\ run' \in [Slots -> RunStates]
          /\ late' \subseteq (LateOps \X Slots)
      BY <1>2, <2>1, CancelTypes DEF CancelActiveTaskWork
    <2>3. request' \in [Procs -> Requests]
      <3>1. request[p] # NoRequest => request[p] \in [kind: {"pausing", "deleting", "draining"}, task: Tasks, runs: SUBSET Slots]
        BY DEF TypeOK, Requests
      <3>2. request[p] # NoRequest
        BY <1>2 DEF CancelActiveTaskWork, NoRequest
      <3>3. QED
        BY <1>2, <3>1, <3>2 DEF CancelActiveTaskWork, TypeOK, Requests
    <2>4. Rest /\ UNCHANGED row
      BY <1>2, <2>2, <2>3 DEF CancelActiveTaskWork, Rest, TypeOK
    <2>5. QED
      BY <2>4, SameRows, Combine
  <1>3. CASE DeleteTask(p)
    <2> DEFINE X == {r \in Rows : TaskOf(r) = request[p].task /\ row[r].status # "absent"}
    <2>1. row' = [r \in Rows |-> IF r \in X THEN GoneRow ELSE row[r]]
      BY <1>3 DEF DeleteTask
    <2>2. RowsOK
      <3>1. X \in SUBSET Rows /\ \A r \in X : row[r].status # "absent"
        OBVIOUS
      <3>2. RowsType
        BY DEF TypeOK, RowsType
      <3>3. QED
        BY <2>1, <3>1, <3>2, GoneStep
    <2>3. request' \in [Procs -> Requests]
      BY <1>3 DEF DeleteTask, TypeOK, Requests
    <2>4. /\ task' \in [Tasks -> TaskRecord]
          /\ \A t \in Tasks : task'[t].next = "past" => task[t].next = "past"
      BY <1>3 DEF DeleteTask, TypeOK, TaskRecord
    <2>5. Rest
      BY <1>3, <2>3, <2>4 DEF DeleteTask, Rest, TypeOK
    <2>6. QED
      BY <2>2, <2>5, Combine
  <1>4. QED
    BY <1>1, <1>2, <1>3 DEF Administers

LEMMA DefineStep ==
  ASSUME IInv, NEW t \in Tasks, CreateTask(t) \/ EnableTask(t)
  PROVE  Kept
  <1>1. /\ task' \in [Tasks -> TaskRecord]
        /\ \A u \in Tasks : task'[u].next = "past" => task[u].next = "past"
    <2>1. CASE CreateTask(t)
      BY <2>1 DEF CreateTask, IInv, TypeOK, TaskRecord
    <2>2. CASE EnableTask(t)
      <3> DEFINE rec == [task[t] EXCEPT !.enabled = TRUE, !.next = "future"]
      <3>1. task[t] \in TaskRecord
        BY DEF IInv, TypeOK
      <3>2. rec \in TaskRecord /\ rec.next = "future"
        BY <3>1 DEF TaskRecord
      <3>3. task' = [task EXCEPT ![t] = rec]
        BY <2>2 DEF EnableTask
      <3>4. QED
        BY <3>2, <3>3 DEF IInv, TypeOK
    <2>3. QED
      BY <2>1, <2>2
  <1>2. Rest /\ UNCHANGED row
    BY <1>1 DEF CreateTask, EnableTask, Rest, IInv, TypeOK
  <1>3. QED
    BY <1>2, SameRows, Combine

LEMMA LifeStep ==
  ASSUME IInv, NEW p \in Procs, LivesAndDies(p)
  PROVE  Kept
  <1> USE DEF IInv
  <1>1. CASE Start(p)
    <2>1. loop' \in [Procs -> LoopRecord]
      BY <1>1, SchedulerAssumption DEF Start, TypeOK, LoopRecord, Idle
    <2>2. Rest
      BY <1>1, <2>1 DEF Start, Rest, TypeOK
    <2>3. RowsOK
      BY <1>1, ReconciledStep DEF Start, TypeOK, RowsType
    <2>4. QED
      BY <2>2, <2>3, Combine
  <1>2. CASE Stop(p)
    <2>1. loop' \in [Procs -> LoopRecord]
      BY <1>2, SchedulerAssumption DEF Stop, TypeOK, LoopRecord, Idle
    <2>2. stops' \in 0..MaxStops
      BY <1>2, SchedulerAssumption DEF Stop, TypeOK
    <2>3. Rest /\ UNCHANGED row
      BY <1>2, <2>1, <2>2 DEF Stop, Rest, TypeOK
    <2>4. QED
      BY <2>3, SameRows, Combine
  <1>3. CASE StopCancels(p)
    <2>1. ActiveDispatches(p) \in SUBSET Slots
      BY DEF ActiveDispatches
    <2>2. /\ disp' \in [Slots -> DispRecord] /\ run' \in [Slots -> RunStates]
          /\ late' \subseteq (LateOps \X Slots)
      BY <1>3, <2>1, CancelTypes DEF StopCancels
    <2>3. Rest /\ UNCHANGED row
      BY <1>3, <2>2 DEF StopCancels, Rest, TypeOK
    <2>4. QED
      BY <2>3, SameRows, Combine
  <1>4. CASE Stopped(p)
    <2>1. run' \in [Slots -> RunStates]
      BY <1>4 DEF Stopped, RunsLost, TypeOK, RunStates, LiveRuns
    <2>2. Rest /\ UNCHANGED row
      BY <1>4, <2>1 DEF Stopped, Rest, TypeOK
    <2>3. QED
      BY <2>2, SameRows, Combine
  <1>5. CASE Crash(p)
    <2>1. run' \in [Slots -> RunStates]
      BY <1>5 DEF Crash, RunsLost, TypeOK, RunStates, LiveRuns
    <2>2. loop' \in [Procs -> LoopRecord]
      <3>1. loop' = [loop EXCEPT ![p] = Idle("off")]
        BY <1>5 DEF Crash
      <3>2. Idle("off") \in LoopRecord
        BY SchedulerAssumption DEF LoopRecord, Idle
      <3>3. QED
        BY <3>1, <3>2 DEF TypeOK
    <2>3. disp' \in [Slots -> DispRecord]
      BY <1>5, PcNames DEF Crash, TypeOK, DispRecord
    <2>4. late' \subseteq (LateOps \X Slots) /\ crashes' \in 0..MaxCrashes
      <3>1. crashes < MaxCrashes /\ crashes' = crashes + 1
        BY <1>5 DEF Crash
      <3>2. late' = {w \in late : disp[w[2]].proc # p}
        BY <1>5 DEF Crash
      <3>3. late' \subseteq late
        BY <3>2
      <3>4. QED
        BY <3>1, <3>3, SchedulerAssumption DEF TypeOK
    <2>5. request' \in [Procs -> Requests]
      BY <1>5 DEF Crash, TypeOK, Requests
    <2>6. Rest /\ UNCHANGED row
      BY <1>5, <2>1, <2>2, <2>3, <2>4, <2>5 DEF Crash, Rest, TypeOK
    <2>7. QED
      BY <2>6, SameRows, Combine
  <1>6. QED
    BY <1>1, <1>2, <1>3, <1>4, <1>5 DEF LivesAndDies

LEMMA NextStep ==
  ASSUME IInv, [Next]_vars
  PROVE  Good
  <1>1. CASE UNCHANGED vars
    <2>1. Rest /\ UNCHANGED row
      BY <1>1 DEF vars, Rest, IInv, TypeOK
    <2>2. QED
      BY <2>1, SameRows, Combine DEF Kept
  <1>2. CASE TimePasses
    BY <1>2, TimeStep DEF Kept
  <1>3. ASSUME NEW p \in Procs, Polls(p) \/ Administers(p) \/ LivesAndDies(p)
        PROVE  Good
    BY <1>3, PollStep, AdministerStep, LifeStep DEF Kept
  <1>4. ASSUME NEW s \in Slots, Dispatches(s) \/ Executes(s)
        PROVE  Good
    BY <1>4, DispatchStep, ExecuteStep DEF Kept
  <1>5. ASSUME NEW w \in late, LateWrite(w)
        PROVE  Good
    BY <1>5, LateStep DEF Kept
  <1>6. ASSUME NEW t \in Tasks, CreateTask(t) \/ EnableTask(t)
        PROVE  Good
    BY <1>6, DefineStep DEF Kept
  <1>7. QED
    BY <1>1, <1>2, <1>3, <1>4, <1>5, <1>6 DEF Next

LEMMA InitOK ==
  ASSUME Init
  PROVE  IInv
  <1>1. task \in [Tasks -> TaskRecord] /\ \A t \in Tasks : task[t].next # "past"
    BY DEF Init, TaskRecord, LegacyTask, NewTask
  <1>2. row \in [Rows -> RowRecord] /\ \A r \in Rows : row[r].attempt = 0
    BY FreshRows DEF Init
  <1>3. loop \in [Procs -> LoopRecord]
    BY SchedulerAssumption DEF Init, LoopRecord, Idle
  <1>4. disp \in [Slots -> DispRecord] /\ run \in [Slots -> RunStates]
    BY PcNames DEF Init, DispRecord, RunStates
  <1>5. request \in [Procs -> Requests]
    BY DEF Init, Requests
  <1>6. /\ proc \in [Procs -> {"up", "draining", "ending", "down"}]
        /\ late \subseteq (LateOps \X Slots)
        /\ crashes \in 0..MaxCrashes /\ stops \in 0..MaxStops
    BY SchedulerAssumption DEF Init
  <1>7. QED
    BY <1>1, <1>2, <1>3, <1>4, <1>5, <1>6 DEF IInv, TypeOK, DueHasRow, AbsentUntried

\* Every reachable state is well typed: no attempt number passes MaxAttempts, no
\* poll hands out more capacity than it has, and every row, dispatch, managed run
\* and pending write is in a state the code knows.
THEOREM TypeCorrect == Spec => []TypeOK
  <1>1. Init => IInv
    BY InitOK
  <1>2. IInv /\ [Next]_vars => IInv'
    BY NextStep DEF Good
  <1>3. IInv => TypeOK
    BY DEF IInv
  <1>4. QED
    BY <1>1, <1>2, <1>3, PTL DEF Spec

LEMMA RowStepMaps ==
  ASSUME NEW r \in Rows, IInv, IInv', RowStep(row[r], row'[r])
  PROVE  Occ!OccStep(r)
  <1>1. Phase(row[r].status) \in {"none", "waiting", "held", "fenced", "over", "gone"}
    BY DEF Phase
  <1>2. QED
    BY <1>1 DEF RowStep, Occ!OccStep, Occ!Same, Occ!Appear, Occ!Become, Occ!Take,
       Occ!Fence, Occ!GiveBack, Occ!End, Occ!Forget

\* The scheduler implements module Occurrence: however processes, late writes,
\* pauses, crashes and cancellations interleave, every occurrence is held by at most
\* MaxAttempts successive attempts, a fenced one is taken over by nobody until its
\* owner gives it back, and one that is over never runs again.
THEOREM Refines == Spec => OccurrenceSpec
  <1>1. Init => Occ!OccInit
    <2>1. ASSUME NEW r \in Rows, Init
          PROVE  Phase(row[r].status) = "none" /\ row[r].attempt = 0
      BY <2>1, FreshRows, PhaseOf DEF Init
    <2>2. QED
      BY <2>1 DEF Occ!OccInit
  <1>2. ASSUME IInv, [Next]_vars
        PROVE  [Occ!OccNext]_Occ!occVars
    <2>1. IInv' /\ RowsStep
      BY <1>2, NextStep DEF Good
    <2>2. \A r \in Rows : Occ!OccStep(r)
      BY <1>2, <2>1, RowStepMaps DEF RowsStep
    <2>3. QED
      BY <2>2 DEF Occ!OccNext
  <1>3. Init => IInv
    BY InitOK
  <1>4. IInv /\ [Next]_vars => IInv'
    BY NextStep DEF Good
  <1>5. QED
    BY <1>1, <1>2, <1>3, <1>4, PTL DEF Spec, OccurrenceSpec, Occ!OccSpec

-----------------------------------------------------------------------------
(* What a dispatch, its run and its late writes know of each other *)

\* An attempt that a poll has handed out, or that has been dispatched.
Tried(s) ==
  \/ disp[s].pc # "none"
  \/ run[s] # "none"
  \/ \E p \in Procs : s \in loop[p].batch

\* An attempt waits in one batch, and nothing has been done about it.
Batched ==
  \A p \in Procs : \A s \in loop[p].batch :
    /\ disp[s].pc = "none"
    /\ \A q \in Procs \ {p} : s \notin loop[q].batch

\* Attempts are numbered upwards, so that a new one is not tried.
Numbered ==
  \A s \in Slots : Tried(s) => row[s[1]].status = "gone" \/ s[2] <= row[s[1]].attempt

\* Where a dispatch stands tells what became of its run.
PaceOf(s) ==
  /\ disp[s].pc = "none" => disp[s].hb = "off"
  /\ disp[s].pc # "none" => disp[s].proc \in Procs
  /\ disp[s].pc \in {"none", "start", "launch", "resched"} => run[s] = "none"
  /\ disp[s].pc = "retry" => run[s] = "transient"
  /\ ~DbFailures => /\ disp[s].pc \notin {"reconcile", "settle"}
                    /\ run[s] = "running" => disp[s].pc \in {"mark", "await"}
Paced == \A s \in Slots : PaceOf(s)

\* A write is late only after its dispatch was cancelled.
LatenessOf(s) ==
  /\ \A op \in LateOps : <<op, s>> \in late => disp[s].pc \in {"unwind", "requeue", "done"}
  /\ <<"delayed", s>> \in late =>
       run[s] = "transient" \/ (run[s] = "none" /\ disp[s].pc = "done")
  /\ <<"requeue", s>> \in late => disp[s].pc = "done"
LateOnly == \A s \in Slots : LatenessOf(s)

\* A definition whose schedule cannot be computed never runs.
BadIdle ==
  /\ \A r \in Rows : TaskOf(r) \in BadTasks => Phase(row[r].status) \in {"none", "over", "gone"}
  /\ \A s \in Slots : Tried(s) => TaskOf(s[1]) \notin BadTasks

DInv == IInv /\ Batched /\ Numbered /\ Paced /\ LateOnly /\ BadIdle

\* What all steps but a claim and a dispatch of the batch leave alone.
Frame ==
  /\ \A p \in Procs : loop'[p].batch \subseteq loop[p].batch
  /\ \A s \in Slots : disp[s].pc = "none" => disp'[s].pc = "none"
  /\ \A s \in Slots : run[s] = "none" /\ disp[s].pc = "none" => run'[s] = "none"

LEMMA RowStepFacts ==
  ASSUME NEW x \in RowRecord, NEW y \in RowRecord, RowStep(x, y)
  PROVE  /\ y.status = "gone" \/ x.attempt <= y.attempt
         /\ x.status = "gone" => y.status = "gone"
         /\ y.status \in Owned /\ y.attempt = x.attempt => x.status \in Owned
         /\ Phase(x.status) \in {"over", "gone"} => Phase(y.status) \in {"over", "gone"}
         /\ y.status = "retry" \/ Phase(y.status) = "over" => y.attempt = x.attempt
  <1>1. x.attempt \in Nat /\ y.attempt \in Nat /\ x.status \in Statuses /\ y.status \in Statuses
    BY SchedulerAssumption DEF RowRecord
  <1>2. ASSUME NEW st \in Statuses
        PROVE  /\ Phase(st) = "none" <=> st = "absent"
               /\ Phase(st) = "gone" <=> st = "gone"
               /\ Phase(st) \in {"held", "fenced"} <=> st \in Owned
               /\ Phase(st) = "waiting" <=> st \in Waiting
               /\ Phase(st) \in {"none", "gone", "held", "fenced", "waiting", "over"}
    BY DEF Statuses, Active, Terminal, Waiting, Leased, Owned, Phase
  <1>3. "retry" \in Waiting /\ "retry" \in Statuses
    BY StatusSets
  <1>4. y.status = "gone" \/ x.attempt <= y.attempt
    BY <1>1, <1>2 DEF RowStep
  <1>5. x.status = "gone" => y.status = "gone"
    BY <1>1, <1>2 DEF RowStep
  <1>6. y.status \in Owned /\ y.attempt = x.attempt => x.status \in Owned
    BY <1>1, <1>2 DEF RowStep
  <1>7. Phase(x.status) \in {"over", "gone"} => Phase(y.status) \in {"over", "gone"}
    BY <1>1, <1>2 DEF RowStep
  <1>8. y.status = "retry" \/ Phase(y.status) = "over" => y.attempt = x.attempt
    BY <1>1, <1>2, <1>3 DEF RowStep
  <1>9. QED
    BY <1>4, <1>5, <1>6, <1>7, <1>8

LEMMA NumbersKept ==
  ASSUME IInv, IInv', RowsStep, Numbered,
         \A s \in Slots : Tried(s)' => Tried(s) \/ s[2] <= row'[s[1]].attempt
  PROVE  Numbered'
  <1> SUFFICES ASSUME NEW s \in Slots, Tried(s)'
               PROVE  row'[s[1]].status = "gone" \/ s[2] <= row'[s[1]].attempt
    BY DEF Numbered
  <1>1. s[1] \in Rows /\ s[2] \in Nat
    BY SlotParts, SchedulerAssumption DEF Attempts
  <1>2. /\ row[s[1]] \in RowRecord /\ row'[s[1]] \in RowRecord
        /\ RowStep(row[s[1]], row'[s[1]])
    BY <1>1 DEF IInv, TypeOK, RowsStep
  <1>3. row[s[1]].attempt \in Nat /\ row'[s[1]].attempt \in Nat
    BY <1>2, RowRecordFields, SchedulerAssumption
  <1>4. CASE Tried(s)
    <2>1. row[s[1]].status = "gone" \/ s[2] <= row[s[1]].attempt
      BY <1>4 DEF Numbered
    <2>2. QED
      BY <1>1, <1>2, <1>3, <2>1, RowStepFacts
  <1>5. QED
    BY <1>4

LEMMA FrameTries ==
  ASSUME Frame, NEW s \in Slots, Tried(s)'
  PROVE  Tried(s)
  BY DEF Frame, Tried

\* The steps of the frame keep the batches, the numbers and the bad definitions idle.
LEMMA FrameKeeps ==
  ASSUME DInv, Kept, Frame
  PROVE  Batched' /\ Numbered' /\ BadIdle'
  <1> USE DEF Kept, Good
  <1>1. Batched'
    <2>1. \A p \in Procs : loop[p].batch \subseteq Slots
      BY DEF DInv, IInv, TypeOK, LoopRecord
    <2>2. QED
      BY <2>1 DEF DInv, Batched, Frame
  <1>2. Numbered'
    BY NumbersKept, FrameTries DEF DInv
  <1>3. ASSUME NEW r \in Rows, TaskOf(r) \in BadTasks
        PROVE  Phase(row'[r].status) \in {"none", "over", "gone"}
    <2>1. /\ row[r] \in RowRecord /\ row'[r] \in RowRecord /\ RowStep(row[r], row'[r])
          /\ row'[r].status = "absent" <=> row[r].status = "absent"
      BY DEF DInv, IInv, TypeOK, RowsStep, RowsFresh
    <2>2. Phase(row[r].status) \in {"none", "over", "gone"}
      BY <1>3 DEF DInv, BadIdle
    <2>3. Phase(row[r].status) = "none" => row[r].status = "absent"
      BY <2>1, OwnedPhase, RowRecordFields
    <2>4. QED
      BY <2>1, <2>2, <2>3, RowStepFacts, PhaseOf
  <1>4. BadIdle'
    BY <1>3, FrameTries DEF DInv, BadIdle
  <1>5. QED
    BY <1>1, <1>2, <1>4

LEMMA GotoFields ==
  ASSUME TypeOK, NEW s \in Slots, NEW pc, Goto(s, pc)
  PROVE  /\ disp'[s].pc = pc /\ disp'[s].proc = disp[s].proc
         /\ disp'[s].hb = IF pc = "done" THEN "off" ELSE disp[s].hb
         /\ \A q \in Slots : q # s => disp'[q] = disp[q]
  <1> DEFINE rec == [disp[s] EXCEPT !.pc = pc, !.hb = IF pc = "done" THEN "off" ELSE disp[s].hb]
  <1>1. disp \in [Slots -> DispRecord] /\ disp[s] \in DispRecord
    BY DEF TypeOK
  <1>2. disp' = [disp EXCEPT ![s] = rec]
    BY DEF Goto
  <1>3. /\ rec.pc = pc /\ rec.proc = disp[s].proc
        /\ rec.hb = IF pc = "done" THEN "off" ELSE disp[s].hb
    BY <1>1 DEF DispRecord
  <1> HIDE DEF rec
  <1>4. QED
    BY <1>1, <1>2, <1>3

\* What is left to show of a step that moves one dispatch and no run.
LEMMA GoesOn ==
  ASSUME DInv, NEW s \in Slots, NEW pc, Goto(s, pc),
         UNCHANGED <<loop, run, late>>,
         disp[s].pc \notin {"none", "done"},
         pc \notin {"none", "start", "launch"},
         pc = "resched" => run[s] = "none",
         pc = "retry" => run[s] = "transient",
         pc \in {"unwind", "requeue", "done"} \/ disp[s].pc \notin {"unwind", "requeue", "done"},
         ~DbFailures => /\ pc \notin {"reconcile", "settle"}
                        /\ run[s] = "running" => pc \in {"mark", "await"}
  PROVE  Frame /\ Paced' /\ LateOnly'
  <1>1. /\ disp'[s].pc = pc /\ disp'[s].proc = disp[s].proc
        /\ \A q \in Slots : q # s => disp'[q] = disp[q]
    BY GotoFields DEF DInv, IInv
  <1>2. Frame
    BY <1>1 DEF Frame
  <1>3. Paced'
    <2> SUFFICES ASSUME NEW q \in Slots PROVE PaceOf(q)'
      BY DEF Paced
    <2>1. CASE q # s
      BY <1>1, <2>1 DEF DInv, Paced, PaceOf
    <2>2. CASE q = s
      BY <1>1, <2>2 DEF DInv, Paced, PaceOf
    <2>3. QED
      BY <2>1, <2>2
  <1>4. LateOnly'
    <2> SUFFICES ASSUME NEW q \in Slots PROVE LatenessOf(q)'
      BY DEF LateOnly
    <2>1. CASE q # s
      BY <1>1, <2>1 DEF DInv, LateOnly, LatenessOf
    <2>2. CASE q = s
      BY <1>1, <2>2 DEF DInv, LateOnly, LatenessOf
    <2>3. QED
      BY <2>1, <2>2
  <1>5. QED
    BY <1>2, <1>3, <1>4

\* A step that moves no dispatch: runs in progress may end, late writes may land.
LEMMA StandsStill ==
  ASSUME DInv, \A p \in Procs : loop'[p].batch \subseteq loop[p].batch,
         \A s \in Slots : disp'[s].pc = disp[s].pc /\ disp'[s].proc = disp[s].proc
                          /\ (disp[s].pc = "none" => disp'[s].hb = disp[s].hb),
         \A s \in Slots : run'[s] = run[s] \/ (run[s] \in LiveRuns /\ run'[s] \notin {"none", "running"}),
         late' \subseteq late
  PROVE  Frame /\ Paced' /\ LateOnly'
  <1>1. Frame
    BY DEF Frame, LiveRuns
  <1>2. Paced'
    <2> SUFFICES ASSUME NEW q \in Slots PROVE PaceOf(q)'
      BY DEF Paced, PaceOf
    <2>1. QED
      BY DEF DInv, Paced, PaceOf, LiveRuns
  <1>3. LateOnly'
    <2> SUFFICES ASSUME NEW q \in Slots PROVE LatenessOf(q)'
      BY DEF LateOnly
    <2>1. QED
      BY DEF DInv, LateOnly, LatenessOf, LiveRuns
  <1>4. QED
    BY <1>1, <1>2, <1>3

\* The steps of one dispatch.
LEMMA DispatchFrame ==
  ASSUME DInv, NEW s \in Slots, Dispatches(s)
  PROVE  Frame /\ Paced' /\ LateOnly'
  <1> USE DEF DInv, IInv
  <1>1. CASE StartDispatch(s)
    <2> DEFINE starts == StartOwned(s[1], s[2])
               pc == IF starts THEN "launch" ELSE "done"
               rec == [disp[s] EXCEPT !.pc = pc, !.hb = IF starts THEN "on" ELSE "off"]
    <2>1. disp \in [Slots -> DispRecord] /\ disp[s] \in DispRecord /\ disp[s].pc = "start"
      BY <1>1 DEF TypeOK, StartDispatch
    <2>2. rec.pc = pc /\ rec.proc = disp[s].proc
      BY <2>1 DEF DispRecord
    <2>3. disp' = [disp EXCEPT ![s] = rec] /\ UNCHANGED <<loop, run, late>>
      BY <1>1 DEF StartDispatch
    <2> HIDE DEF rec
    <2>4. /\ disp'[s].pc \in {"launch", "done"} /\ disp'[s].proc = disp[s].proc
          /\ \A q \in Slots : q # s => disp'[q] = disp[q]
      BY <2>1, <2>2, <2>3
    <2>5. run[s] = "none" /\ \A op \in LateOps : <<op, s>> \notin late
      BY <2>1 DEF Paced, PaceOf, LateOnly, LatenessOf
    <2>6. Frame
      BY <2>1, <2>3, <2>4 DEF Frame
    <2>7. Paced'
      BY <2>1, <2>3, <2>4, <2>5 DEF Paced, PaceOf
    <2>8. LateOnly'
      BY <2>1, <2>3, <2>4, <2>5 DEF LateOnly, LatenessOf, LateOps
    <2>9. QED
      BY <2>6, <2>7, <2>8
  <1>2. CASE Launch(s)
    <2>1. /\ disp[s].pc = "launch" /\ Goto(s, "mark") /\ UNCHANGED <<loop, late>>
          /\ run' = [q \in Slots |-> IF q = s THEN "running"
                                     ELSE IF q \in Inflight(s) THEN "cancelling"
                                     ELSE run[q]]
      BY <1>2 DEF Launch
    <2>2. /\ disp'[s].pc = "mark" /\ disp'[s].proc = disp[s].proc
          /\ \A q \in Slots : q # s => disp'[q] = disp[q]
      BY <2>1, GotoFields
    <2>3. \A q \in Slots : q # s => run'[q] = run[q] \/ (run[q] \in {"running", "stopping"}
                                                      /\ run'[q] = "cancelling")
      BY <2>1 DEF Inflight
    <2>4. run[s] = "none" /\ (\A op \in LateOps : <<op, s>> \notin late) /\ run'[s] = "running"
      BY <2>1 DEF Paced, PaceOf, LateOnly, LatenessOf
    <2>5. Frame
      BY <2>1, <2>2, <2>3 DEF Frame
    <2>6. Paced'
      BY <2>1, <2>2, <2>3, <2>4 DEF Paced, PaceOf
    <2>7. LateOnly'
      <3> SUFFICES ASSUME NEW q \in Slots PROVE LatenessOf(q)'
        BY DEF LateOnly
      <3>1. CASE q = s
        BY <2>1, <2>4, <3>1 DEF LatenessOf, LateOps
      <3>2. CASE q # s
        BY <2>1, <2>2, <2>3, <3>2 DEF LateOnly, LatenessOf
      <3>3. QED
        BY <3>1, <3>2
    <2>8. QED
      BY <2>5, <2>6, <2>7
  <1>3. CASE LaunchRefused(s)
    <2>1. disp[s].pc = "launch" /\ Goto(s, "resched") /\ UNCHANGED <<loop, run, late>>
      BY <1>3 DEF LaunchRefused
    <2>2. run[s] = "none"
      BY <2>1 DEF Paced, PaceOf
    <2>3. QED
      BY <2>1, <2>2, GoesOn
  <1>4. CASE MarkLaunched(s)
    <2>1. disp[s].pc = "mark" /\ Goto(s, "await") /\ UNCHANGED <<loop, run, late>>
      BY <1>4 DEF MarkLaunched
    <2>2. QED
      BY <2>1, GoesOn
  <1>5. CASE AwaitRun(s) \/ AwaitDelivery(s)
    <2>1. PICK pc \in {"deliver", Decision(s)} : Goto(s, pc)
      BY <1>5 DEF AwaitRun, AwaitDelivery
    <2>2. /\ Decision(s) \in {"requeue", "retry", "finish"}
          /\ Decision(s) = "retry" => run[s] = "transient"
      BY DEF Decision
    <2>3. disp[s].pc \in {"await", "deliver"} /\ UNCHANGED <<loop, run, late>>
      BY <1>5 DEF AwaitRun, AwaitDelivery
    <2>4. ~DbFailures => run[s] # "running"
      BY <1>5 DEF AwaitRun, AwaitDelivery, Paced, PaceOf, LiveRuns
    <2>5. QED
      BY <2>1, <2>2, <2>3, <2>4, GoesOn
  <1>6. CASE Finish(s) \/ Reschedule(s) \/ Requeue(s)
    <2>1. /\ disp[s].pc \in {"finish", "resched", "retry", "requeue"} /\ Goto(s, "done")
          /\ UNCHANGED <<loop, run, late>>
      BY <1>6 DEF Finish, Reschedule, Requeue
    <2>2. ~DbFailures => run[s] # "running"
      BY <2>1 DEF Paced, PaceOf
    <2>3. QED
      BY <2>1, <2>2, GoesOn
  <1>7. CASE Unwind(s)
    <2>1. /\ disp[s].pc = "unwind" /\ Goto(s, "requeue") /\ run[s] # "running"
          /\ UNCHANGED <<loop, run, late>>
      BY <1>7 DEF Unwind, LiveRuns
    <2>2. QED
      BY <2>1, GoesOn
  <1>8. CASE StoreFails(s)
    <2>1. PICK pc : /\ Goto(s, pc)
                    /\ \/ disp[s].pc = "start" /\ pc = "resched"
                       \/ disp[s].pc \in {"mark", "finish", "retry"} /\ pc = "reconcile"
                       \/ disp[s].pc \in {"resched", "requeue"} /\ pc = "done"
      BY <1>8 DEF StoreFails
    <2>2. DbFailures /\ UNCHANGED <<loop, run, late>>
      BY <1>8 DEF StoreFails
    <2>3. disp[s].pc = "start" => run[s] = "none"
      BY DEF Paced, PaceOf
    <2>4. QED
      BY <2>1, <2>2, <2>3, GoesOn
  <1>9. CASE Reconcile(s) \/ Settle(s)
    <2>1. PICK pc \in {"settle", "done"} : Goto(s, pc)
      BY <1>9 DEF Reconcile, Settle
    <2>2. disp[s].pc \in {"reconcile", "settle"} /\ UNCHANGED <<loop, run, late>>
      BY <1>9 DEF Reconcile, Settle
    <2>3. DbFailures
      BY <2>2 DEF Paced, PaceOf, TypeOK
    <2>4. QED
      BY <2>1, <2>2, <2>3, GoesOn
  <1>10. CASE Heartbeat(s) \/ HeartbeatFails(s)
    <2>1. disp' \in {disp, [disp EXCEPT ![s].hb = "dead"]} /\ UNCHANGED <<loop, run, late>>
      BY <1>10 DEF Heartbeat, HeartbeatFails
    <2>2. disp[s].hb = "on"
      BY <1>10 DEF Heartbeat, HeartbeatFails
    <2>3. disp[s].pc # "none"
      BY <2>2 DEF Paced, PaceOf
    <2>4. disp[s] \in DispRecord /\ disp \in [Slots -> DispRecord]
      BY DEF TypeOK
    <2>5. \A q \in Slots : disp'[q].pc = disp[q].pc /\ disp'[q].proc = disp[q].proc
                           /\ (disp[q].pc = "none" => disp'[q].hb = disp[q].hb)
      BY <2>1, <2>3, <2>4 DEF DispRecord
    <2>6. QED
      BY <2>1, <2>5, StandsStill
  <1>11. QED
    BY <1>1, <1>2, <1>3, <1>4, <1>5, <1>6, <1>7, <1>8, <1>9, <1>10 DEF Dispatches

\* task.cancel() moves dispatches to their end, and leaves late writes behind.
LEMMA CancelFrame ==
  ASSUME DInv, NEW p \in Procs, NEW X \in SUBSET ActiveDispatches(p), NEW cancelled,
         CancelDispatches(X, cancelled), UNCHANGED loop
  PROVE  Frame /\ Paced' /\ LateOnly'
  <1>1. X \in SUBSET Slots /\ TypeOK
    BY DEF ActiveDispatches, DInv, IInv
  <1>2. ASSUME NEW s \in X
        PROVE  /\ s \in Slots /\ disp[s].pc \notin {"none", "done"}
               /\ disp'[s].proc = disp[s].proc
               /\ \/ disp'[s].pc \in {"unwind", "requeue", "done"}
                  \/ disp'[s].pc = disp[s].pc /\ disp[s].pc \in {"await", "settle"}
                     /\ WriteOf(s) = "nothing"
               /\ disp[s].pc \in {"unwind", "requeue", "resched"} => disp'[s].pc = "done"
    <2>1. /\ \/ AfterCancel(s) \in {"unwind", "requeue", "done"}
             \/ /\ AfterCancel(s) = disp[s].pc
                /\ disp[s].pc \in {"await", "settle"} /\ WriteOf(s) = "nothing"
          /\ disp[s].pc \in {"unwind", "requeue", "resched"} => AfterCancel(s) = "done"
      <3>1. CASE disp[s].pc \in {"await", "settle"} /\ run[s] \in LiveRuns
        <4>1. WriteOf(s) = "nothing"
          BY <3>1 DEF WriteOf
        <4>2. AfterCancel(s) = disp[s].pc
          BY <3>1 DEF AfterCancel
        <4>3. QED
          BY <3>1, <4>1, <4>2
      <3>2. CASE ~(disp[s].pc \in {"await", "settle"} /\ run[s] \in LiveRuns)
        BY <3>2 DEF AfterCancel, LaunchedPcs
      <3>3. QED
        BY <3>1, <3>2
    <2>2. s \in Slots /\ disp[s].pc \notin {"none", "done"}
      BY DEF ActiveDispatches
    <2>3. /\ disp'[s].pc \in {AfterCancel(s), "done"} /\ disp'[s].proc = disp[s].proc
          /\ disp'[s].pc # AfterCancel(s) => disp[s].pc = "start"
      BY <1>1, Cancelled
    <2>4. QED
      BY <2>1, <2>2, <2>3
  <1>3. ASSUME NEW s \in Slots
        PROVE  /\ s \notin X => disp'[s] = disp[s]
               /\ run'[s] = run[s] \/ (run[s] \in {"running", "stopping"}
                                       /\ run'[s] \in {"stopping", "cancelling"})
               /\ s \in X /\ disp[s].pc \in {"mark", "await"} => run'[s] # "running"
    BY <1>1, Cancelled DEF LaunchedPcs
  <1>4. Frame
    BY <1>2, <1>3 DEF Frame
  <1>5. ASSUME NEW s \in Slots
        PROVE  PaceOf(s)'
    <2>1. CASE s \notin X
      BY <1>3, <2>1 DEF DInv, Paced, PaceOf
    <2>2. CASE s \in X
      BY <1>2, <1>3, <2>2 DEF DInv, Paced, PaceOf
    <2>3. QED
      BY <2>1, <2>2
  <1>6. ASSUME NEW s \in Slots, NEW op, <<op, s>> \in late'
        PROVE  <<op, s>> \in late \/ (s \in X /\ op = WriteOf(s) /\ op # "nothing")
    BY <1>1, <1>6, Cancelled
  <1>7. ASSUME NEW s \in Slots
        PROVE  LatenessOf(s)'
    <2>1. CASE s \notin X
      <3>1. \A op : <<op, s>> \in late' => <<op, s>> \in late
        BY <1>6, <2>1
      <3>2. QED
        BY <1>3, <2>1, <3>1 DEF DInv, LateOnly, LatenessOf
    <2>2. CASE s \in X
      <3>1. \A op : <<op, s>> \in late' => <<op, s>> \in late \/ (op = WriteOf(s) /\ op # "nothing")
        BY <1>6
      <3>2. WriteOf(s) = "requeue" => disp[s].pc = "requeue"
        BY DEF WriteOf
      <3>3. WriteOf(s) = "delayed" => disp[s].pc \in {"retry", "resched"}
        BY DEF WriteOf
      <3>4. disp[s].pc = "retry" => run[s] = "transient"
        BY DEF DInv, Paced, PaceOf
      <3>5. disp[s].pc = "resched" => run[s] = "none"
        BY DEF DInv, Paced, PaceOf
      <3>6. <<"delayed", s>> \in late => run[s] = "transient"
        BY <1>2, <2>2 DEF DInv, LateOnly, LatenessOf
      <3>7. <<"requeue", s>> \notin late
        BY <1>2, <2>2 DEF DInv, LateOnly, LatenessOf
      <3>8. /\ \A op \in LateOps : <<op, s>> \in late' => disp'[s].pc \in {"unwind", "requeue", "done"}
            /\ disp[s].pc \in {"requeue", "resched"} => disp'[s].pc = "done"
        <4>1. \A op \in LateOps : <<op, s>> \in late => disp[s].pc = "unwind" \/ disp[s].pc = "requeue"
          BY <1>2, <2>2 DEF DInv, LateOnly, LatenessOf
        <4>2. ASSUME NEW op \in LateOps, <<op, s>> \in late'
              PROVE  disp'[s].pc \in {"unwind", "requeue", "done"}
          <5>1. CASE <<op, s>> \in late
            BY <1>2, <2>2, <4>1, <5>1
          <5>2. CASE WriteOf(s) # "nothing"
            BY <1>2, <2>2, <5>2
          <5>3. QED
            BY <3>1, <4>2, <5>1, <5>2
        <4>3. QED
          BY <1>2, <2>2, <4>2
      <3>9. /\ run[s] = "transient" => run'[s] = "transient"
            /\ run[s] = "none" => run'[s] = "none"
        BY <1>3
      <3>10. QED
        BY <3>1, <3>2, <3>3, <3>4, <3>5, <3>6, <3>7, <3>8, <3>9 DEF LatenessOf
    <2>3. QED
      BY <2>1, <2>2
  <1>8. QED
    BY <1>4, <1>5, <1>7 DEF Paced, LateOnly

\* A process that is gone has no dispatch that goes on, and its runs are lost.
LEMMA CrashFrame ==
  ASSUME DInv, NEW p \in Procs, Crash(p)
  PROVE  Frame /\ Paced' /\ LateOnly'
  <1>1. ASSUME NEW s \in Slots
        PROVE  /\ s \notin ActiveDispatches(p) => disp'[s] = disp[s]
               /\ s \in ActiveDispatches(p) =>
                    disp'[s].pc = "done" /\ disp'[s].proc = disp[s].proc
    <2> DEFINE rec == [disp[s] EXCEPT !.pc = "done", !.hb = "off"]
    <2>1. disp[s] \in DispRecord
      BY DEF DInv, IInv, TypeOK
    <2>2. disp'[s] = IF s \in ActiveDispatches(p) THEN rec ELSE disp[s]
      BY DEF Crash
    <2>3. rec.pc = "done" /\ rec.proc = disp[s].proc
      BY <2>1 DEF DispRecord
    <2>4. QED
      BY <2>2, <2>3
  <1>2. \A s \in Slots : run'[s] = run[s] \/ (run[s] \in LiveRuns /\ run'[s] = "lost")
    BY DEF Crash, RunsLost
  <1>3. \A s \in Slots : s \in ActiveDispatches(p) => run'[s] # "running"
    BY DEF Crash, RunsLost, ActiveDispatches, LiveRuns
  <1>4. \A q \in Procs : loop'[q].batch \subseteq loop[q].batch
    BY DEF Crash, Idle, DInv, IInv, TypeOK
  <1>5. Frame
    BY <1>1, <1>2, <1>4 DEF Frame, ActiveDispatches, LiveRuns
  <1>6. ASSUME NEW s \in Slots
        PROVE  PaceOf(s)'
    <2>1. CASE s \notin ActiveDispatches(p)
      BY <1>1, <1>2, <2>1 DEF DInv, Paced, PaceOf, LiveRuns
    <2>2. CASE s \in ActiveDispatches(p)
      BY <1>1, <1>2, <1>3, <2>2 DEF DInv, Paced, PaceOf, ActiveDispatches
    <2>3. QED
      BY <2>1, <2>2
  <1>7. ASSUME NEW s \in Slots
        PROVE  LatenessOf(s)'
    <2>1. \A op : <<op, s>> \in late' => <<op, s>> \in late /\ disp[s].proc # p
      BY DEF Crash
    <2>2. disp'[s].pc = "done" \/ disp'[s].pc = disp[s].pc
      BY <1>1
    <2>3. QED
      BY <1>2, <2>1, <2>2 DEF DInv, LateOnly, LatenessOf, LiveRuns
  <1>8. QED
    BY <1>5, <1>6, <1>7 DEF Paced, LateOnly

LEMMA ExecuteFrame ==
  ASSUME DInv, NEW s \in Slots, Executes(s)
  PROVE  Frame /\ Paced' /\ LateOnly'
  <1>1. \A q \in Slots : run'[q] = run[q] \/ (run[q] \in LiveRuns /\ run'[q] \notin {"none", "running"})
    BY DEF Executes, RunEnds, RunCancelled, UserCancelsRun, LiveRuns, DInv, IInv, TypeOK
  <1>2. UNCHANGED <<disp, loop, late>>
    BY DEF Executes, RunEnds, RunCancelled, UserCancelsRun
  <1>3. QED
    BY <1>1, <1>2, StandsStill

\* Steps of the store, the clock, the users and the life cycle of a process.
LEMMA QuietFrame ==
  ASSUME DInv, UNCHANGED <<disp, run>>, late' \subseteq late,
         \A p \in Procs : loop'[p].batch \subseteq loop[p].batch
  PROVE  Frame /\ Paced' /\ LateOnly'
  BY StandsStill

LEMMA LifeFrame ==
  ASSUME DInv, NEW p \in Procs, LivesAndDies(p)
  PROVE  Frame /\ Paced' /\ LateOnly'
  <1>1. CASE Start(p) \/ Stop(p)
    <2>1. UNCHANGED <<disp, run, late>>
      BY <1>1 DEF Start, Stop
    <2>2. \A q \in Procs : loop'[q].batch \subseteq loop[q].batch
      BY <1>1 DEF Start, Stop, Idle, DInv, IInv, TypeOK, LoopRecord
    <2>3. QED
      BY <2>1, <2>2, QuietFrame
  <1>2. CASE StopCancels(p)
    BY <1>2, CancelFrame DEF StopCancels
  <1>3. CASE Stopped(p)
    <2>1. UNCHANGED <<disp, loop, late>>
      BY <1>3 DEF Stopped
    <2>2. \A s \in Slots : run'[s] = run[s] \/ (run[s] \in LiveRuns /\ run'[s] = "lost")
      BY <1>3 DEF Stopped, RunsLost
    <2>3. QED
      BY <2>1, <2>2, StandsStill
  <1>4. CASE Crash(p)
    BY <1>4, CrashFrame
  <1>5. QED
    BY <1>1, <1>2, <1>3, <1>4 DEF LivesAndDies

LEMMA AdministerFrame ==
  ASSUME DInv, NEW p \in Procs, Administers(p)
  PROVE  Frame /\ Paced' /\ LateOnly'
  <1>1. CASE CancelActiveTaskWork(p)
    BY <1>1, CancelFrame DEF CancelActiveTaskWork
  <1>2. CASE ~CancelActiveTaskWork(p)
    <2>1. UNCHANGED <<disp, run, late, loop>>
      BY <1>2 DEF Administers, PauseTask, DeleteTask
    <2>2. QED
      BY <2>1, QuietFrame
  <1>3. QED
    BY <1>1, <1>2

\* A claim leaves definitions without a schedule alone.
LEMMA ClaimIdle ==
  ASSUME DInv, IInv', RowsStep, NEW S \in SUBSET Rows,
         \A r \in S : Taken(r), \A r \in Rows \ S : Passed(r),
         NEW r \in Rows, TaskOf(r) \in BadTasks
  PROVE  r \notin S /\ Phase(row'[r].status) \in {"none", "over", "gone"}
  <1>1. /\ row[r] \in RowRecord /\ row[r].status \in Statuses
        /\ Phase(row[r].status) \in {"none", "over", "gone"}
    BY RowRecordFields DEF DInv, IInv, TypeOK, BadIdle
  <1>2. row[r].status \notin Waiting \cup Leased \cup Active
    BY <1>1, OwnedPhase
  <1>3. r \notin S
    BY <1>2 DEF Taken
  <1>4. CASE row'[r] = row[r]
    BY <1>1, <1>3, <1>4
  <1>5. CASE row'[r] = QuarantinedRow
    BY <1>3, <1>5, FreshRows, PhaseOf, StatusSets
  <1>6. QED
    BY <1>2, <1>3, <1>4, <1>5 DEF Passed

\* The attempts a claim hands out are new.
LEMMA ClaimUntried ==
  ASSUME DInv, NEW r \in Rows, Taken(r)
  PROVE  ~Tried(<<r, row'[r].attempt>>) /\ <<r, row'[r].attempt>> \in Slots
  <1>1. <<r, row'[r].attempt>> \in Slots
    BY DEF Taken, Slots
  <1>2. row[r].attempt \in Nat /\ row[r].status # "gone"
    BY RowRecordFields, SchedulerAssumption DEF DInv, IInv, TypeOK, Taken, Waiting, Leased
  <1>3. ~(row[r].attempt + 1 <= row[r].attempt)
    BY <1>2
  <1>4. QED
    BY <1>1, <1>2, <1>3 DEF DInv, Numbered, Taken

LEMMA TickClaimKeeps ==
  ASSUME DInv, NEW p \in Procs, TickClaim(p) \/ ClaimLost(p)
  PROVE  DInv'
  <1>1. UNCHANGED <<disp, run, late>>
    BY DEF TickClaim, ClaimLost
  <1>2. PICK S \in SUBSET Rows :
          /\ ClaimDueTasks(loop[p].capacity, S)
          /\ \/ loop' = [loop EXCEPT ![p] =
                           [at |-> "dispatch", capacity |-> 0,
                            batch |-> {<<r, row'[r].attempt>> : r \in S}]]
             \/ loop' = [loop EXCEPT ![p] = Idle("off")]
    BY DEF TickClaim, ClaimLost
  <1>3. (\A r \in S : Taken(r)) /\ (\A r \in Rows \ S : Passed(r))
    BY <1>2, ClaimStep DEF DInv
  <1>4. IInv' /\ RowsStep
    BY PollStep DEF Polls, DInv, Good
  <1> DEFINE New == {<<r, row'[r].attempt>> : r \in S}
  <1>5. /\ loop'[p].batch \in {New, {}}
        /\ \A q \in Procs \ {p} : loop'[q] = loop[q]
    BY <1>2 DEF Idle, DInv, IInv, TypeOK
  <1>6. ASSUME NEW s \in New
        PROVE  /\ s \in Slots /\ ~Tried(s) /\ s[1] \in S
               /\ s[2] = row'[s[1]].attempt
    <2>1. PICK r \in S : s = <<r, row'[r].attempt>>
      OBVIOUS
    <2>2. QED
      BY <1>3, <2>1, ClaimUntried
  <1> HIDE DEF New
  <1>7. Paced' /\ LateOnly'
    BY <1>1 DEF DInv, Paced, PaceOf, LateOnly, LatenessOf
  <1>8. ASSUME NEW s \in Slots, Tried(s)'
        PROVE  Tried(s) \/ s \in New
    BY <1>1, <1>5, <1>8 DEF Tried
  <1>9. Batched'
    <2> SUFFICES ASSUME NEW q \in Procs, NEW s \in loop'[q].batch
                 PROVE  /\ disp'[s].pc = "none"
                        /\ \A z \in Procs \ {q} : s \notin loop'[z].batch
      BY DEF Batched
    <2>1. CASE q = p
      <3>1. s \in New
        BY <1>5, <2>1
      <3>2. ~Tried(s)
        BY <1>6, <3>1
      <3>3. QED
        BY <1>1, <1>5, <2>1, <3>2 DEF Tried
    <2>2. CASE q # p
      <3>1. s \in loop[q].batch
        BY <1>5, <2>2
      <3>2. s \notin New
        BY <1>6, <3>1 DEF Tried
      <3>3. /\ disp[s].pc = "none"
            /\ \A z \in Procs \ {q} : s \notin loop[z].batch
        BY <3>1 DEF DInv, Batched
      <3>4. \A z \in Procs \ {q} : s \notin loop'[z].batch
        BY <1>5, <3>2, <3>3
      <3>5. QED
        BY <1>1, <3>3, <3>4
    <2>3. QED
      BY <2>1, <2>2
  <1>10. Numbered'
    <2>1. ASSUME NEW s \in New
          PROVE  s[2] <= row'[s[1]].attempt
      <3>1. s[2] = row'[s[1]].attempt /\ s[2] \in Attempts
        BY <1>6, SlotParts
      <3>2. QED
        BY <3>1, SchedulerAssumption DEF Attempts
    <2>2. QED
      BY <1>4, <1>8, <2>1, NumbersKept DEF DInv
  <1>11. BadIdle'
    <2>1. \A s \in New : TaskOf(s[1]) \notin BadTasks
      BY <1>3, <1>4, <1>6, ClaimIdle
    <2>2. \A s \in Slots : Tried(s)' => TaskOf(s[1]) \notin BadTasks
      BY <1>8, <2>1 DEF DInv, BadIdle
    <2>3. \A r \in Rows : TaskOf(r) \in BadTasks => Phase(row'[r].status) \in {"none", "over", "gone"}
      BY <1>3, <1>4, ClaimIdle
    <2>4. QED
      BY <2>2, <2>3 DEF BadIdle
  <1>12. QED
    BY <1>4, <1>7, <1>9, <1>10, <1>11 DEF DInv

\* Dispatching a batch starts each of its attempts once.
LEMMA TickDispatchKeeps ==
  ASSUME DInv, NEW p \in Procs, TickDispatch(p)
  PROVE  DInv'
  <1>1. Kept
    <2>1. ~TickClaim(p) /\ ~ClaimLost(p)
      BY DEF TickDispatch, TickClaim, ClaimLost
    <2>2. QED
      BY <2>1, PollStep DEF DInv, Polls
  <1>2. UNCHANGED <<row, run, late>>
    BY DEF TickDispatch
  <1>3. loop'[p].batch = {} /\ \A q \in Procs \ {p} : loop'[q] = loop[q]
    BY DEF TickDispatch, Idle, DInv, IInv, TypeOK
  <1>4. ASSUME NEW s \in Slots
        PROVE  /\ s \notin loop[p].batch => disp'[s] = disp[s]
               /\ s \in loop[p].batch => /\ disp'[s].pc = "start" /\ disp'[s].proc = p
                                         /\ disp[s].pc = "none"
    BY DEF TickDispatch, DInv, Batched
  <1>5. \A s \in Slots : Tried(s)' => Tried(s)
    BY <1>2, <1>3, <1>4 DEF Tried
  <1>6. Batched'
    <2>1. \A q \in Procs : loop[q].batch \subseteq Slots
      BY DEF DInv, IInv, TypeOK, LoopRecord
    <2>2. \A q \in Procs \ {p} : \A s \in loop[q].batch : disp'[s] = disp[s]
      BY <1>4, <2>1 DEF DInv, Batched
    <2>3. QED
      BY <1>3, <2>1, <2>2 DEF DInv, Batched
  <1>7. Numbered' /\ BadIdle'
    BY <1>2, <1>5 DEF DInv, Numbered, BadIdle
  <1>8. ASSUME NEW s \in Slots
        PROVE  PaceOf(s)' /\ LatenessOf(s)'
    <2>1. CASE s \notin loop[p].batch
      BY <1>2, <1>4, <2>1 DEF DInv, Paced, PaceOf, LateOnly, LatenessOf
    <2>2. CASE s \in loop[p].batch
      <3>1. /\ disp'[s].pc = "start" /\ disp'[s].proc = p
            /\ run'[s] = "none" /\ \A op \in LateOps : <<op, s>> \notin late'
        BY <1>2, <1>4, <2>2 DEF DInv, Paced, PaceOf, LateOnly, LatenessOf
      <3>2. QED
        BY <3>1 DEF PaceOf, LatenessOf, LateOps
    <2>3. QED
      BY <2>1, <2>2
  <1>9. QED
    BY <1>1, <1>6, <1>7, <1>8 DEF DInv, Kept, Good, Paced, LateOnly

\* What a step other than those two owes: the frame.
Calm == Kept /\ Frame /\ Paced' /\ LateOnly'

LEMMA CalmKeeps ==
  ASSUME DInv, Calm
  PROVE  DInv'
  BY FrameKeeps DEF Calm, Kept, Good, DInv

LEMMA PollKeeps ==
  ASSUME DInv, NEW p \in Procs, Polls(p)
  PROVE  DInv'
  <1>1. CASE TickClaim(p) \/ ClaimLost(p)
    BY <1>1, TickClaimKeeps
  <1>2. CASE TickDispatch(p)
    BY <1>2, TickDispatchKeeps
  <1>3. CASE TickCleanup(p) \/ TickReconcile(p) \/ TickFails(p)
    <2>1. TickClaim(p) \/ ClaimLost(p) \/ (~TickClaim(p) /\ ~ClaimLost(p))
      OBVIOUS
    <2>2. CASE ~TickClaim(p) /\ ~ClaimLost(p)
      <3>1. Kept
        BY <2>2, PollStep DEF DInv
      <3>2. UNCHANGED <<disp, run, late>>
        BY <1>3 DEF TickCleanup, TickReconcile, TickFails
      <3>3. \A q \in Procs : loop'[q].batch \subseteq loop[q].batch
        BY <1>3 DEF TickCleanup, TickReconcile, TickFails, Idle, DInv, IInv, TypeOK
      <3>4. QED
        BY <3>1, <3>2, <3>3, QuietFrame, CalmKeeps DEF Calm
    <2>3. QED
      BY <1>1, <2>1, <2>2
  <1>4. QED
    BY <1>1, <1>2, <1>3 DEF Polls

\* A step of the scheduler is one of these.
LEMMA Steps ==
  ASSUME [Next]_vars
  PROVE  \/ UNCHANGED vars
         \/ TimePasses
         \/ \E p \in Procs : Polls(p)
         \/ \E p \in Procs : Administers(p) \/ LivesAndDies(p)
         \/ \E s \in Slots : Dispatches(s) \/ Executes(s)
         \/ \E w \in late : LateWrite(w)
         \/ \E t \in Tasks : CreateTask(t) \/ EnableTask(t)
  BY DEF Next

LEMMA CalmSteps ==
  ASSUME DInv, [Next]_vars, \A p \in Procs : ~Polls(p)
  PROVE  Calm
  <1> USE DEF DInv
  <1>1. CASE UNCHANGED vars
    <2>1. Kept
      BY <1>1, SameRows, NextStep DEF Kept, Good, RowsOK, vars
    <2>2. UNCHANGED <<disp, run, late, loop>>
      BY <1>1 DEF vars
    <2>3. QED
      BY <2>1, <2>2, QuietFrame DEF Calm
  <1>2. CASE TimePasses
    <2>1. UNCHANGED <<disp, run, late, loop>>
      BY <1>2 DEF TimePasses, TaskDue, RetryDelayElapses, LeaseExpires, OrphanGraceElapses
    <2>2. QED
      BY <1>2, <2>1, QuietFrame, TimeStep DEF Calm
  <1>3. ASSUME NEW p \in Procs, Administers(p) \/ LivesAndDies(p)
        PROVE  Calm
    BY <1>3, AdministerStep, AdministerFrame, LifeStep, LifeFrame DEF Calm
  <1>4. ASSUME NEW s \in Slots, Dispatches(s) \/ Executes(s)
        PROVE  Calm
    BY <1>4, DispatchStep, DispatchFrame, ExecuteStep, ExecuteFrame DEF Calm
  <1>5. ASSUME NEW w \in late, LateWrite(w)
        PROVE  Calm
    <2>1. UNCHANGED <<disp, run, loop>> /\ late' \subseteq late
      BY <1>5 DEF LateWrite
    <2>2. QED
      BY <1>5, <2>1, QuietFrame, LateStep DEF Calm
  <1>6. ASSUME NEW t \in Tasks, CreateTask(t) \/ EnableTask(t)
        PROVE  Calm
    <2>1. UNCHANGED <<disp, run, late, loop>>
      BY <1>6 DEF CreateTask, EnableTask
    <2>2. QED
      BY <1>6, <2>1, QuietFrame, DefineStep DEF Calm
  <1>7. QED
    BY <1>1, <1>2, <1>3, <1>4, <1>5, <1>6, Steps

LEMMA DInvStep ==
  ASSUME DInv, [Next]_vars
  PROVE  DInv'
  <1>1. CASE \E p \in Procs : Polls(p)
    BY <1>1, PollKeeps
  <1>2. CASE \A p \in Procs : ~Polls(p)
    BY <1>2, CalmSteps, CalmKeeps
  <1>3. QED
    BY <1>1, <1>2

LEMMA DInvInit ==
  ASSUME Init
  PROVE  DInv
  <1>1. IInv
    BY InitOK
  <1>2. \A s \in Slots : ~Tried(s) /\ run[s] = "none" /\ disp[s].hb = "off"
    BY DEF Init, Tried, Idle
  <1>3. Batched /\ LateOnly /\ late = {}
    BY DEF Init, Batched, LateOnly, LatenessOf, Idle
  <1>4. Paced
    BY <1>2 DEF Paced, PaceOf, Tried
  <1>5. Numbered
    BY <1>2 DEF Numbered
  <1>6. \A r \in Rows : Phase(row[r].status) = "none"
    BY FreshRows, PhaseOf DEF Init
  <1>7. BadIdle
    BY <1>2, <1>6 DEF BadIdle
  <1>8. QED
    BY <1>1, <1>3, <1>4, <1>5, <1>7 DEF DInv

-----------------------------------------------------------------------------
(* How a row can move, and on whose behalf *)

\* Users who pause nothing have no request in progress.
Unasked == ~Pauses => \A p \in Procs : request[p] = NoRequest

\* A dispatch that is over renews nothing.
Stilled == \A s \in Slots : disp[s].pc = "done" => disp[s].hb = "off"

EInv == DInv /\ Unasked /\ Stilled

\* A delay or a grace is over.
Rests(r) == /\ row'[r].status = row[r].status /\ row'[r].attempt = row[r].attempt
            /\ row'[r].lease = row[r].lease
Expires(r) == /\ row[r].lease = "live"
              /\ row'[r].status = row[r].status /\ row'[r].attempt = row[r].attempt
              /\ Timely => ~Tended(r)
Pends(r) == row[r].status = "absent" /\ row'[r].status = "pending"

\* The row is claimed, and no other row holds its thread.
Claims(r) ==
  /\ Taken(r)
  /\ \A q \in Rows : Holds(row'[q]) /\ ThreadOfRow(q) = ThreadOfRow(r) => q = r

\* The row is ended over the head of its owner, if it has one.
Drops(r) == /\ row'[r].status \in {"error", "interrupted", "cancelled", "dead_letter", "gone"}
            /\ row[r].status \in Owned /\ ~Pauses => row[r].lease # "live"

\* The owner s of the row writes it.
Starts(s) == row[s[1]].status \in Leased /\ row'[s[1]].status = "running"
             /\ row'[s[1]].lease = row[s[1]].lease
Fences(s) == /\ row'[s[1]].status = "launched" /\ row'[s[1]].lease = row[s[1]].lease
             /\ disp[s].pc \in {"mark", "reconcile"} \/ <<"launched", s>> \in late
Renews(s) == /\ row'[s[1]].status = row[s[1]].status /\ row'[s[1]].lease = "live"
             /\ disp[s].hb = "on"
GivesBack(s) == /\ row'[s[1]].status \in {"retry", "dead_letter"}
                /\ \/ disp[s].pc \in {"resched", "retry", "requeue"}
                   \/ <<"delayed", s>> \in late \/ <<"requeue", s>> \in late
Ends(s) == /\ row'[s[1]].status \in {"success", "error"}
           /\ row'[s[1]].status = "success" => run[s] = "success"
           /\ disp[s].pc \in {"finish", "settle"} \/ <<"finished", s>> \in late
Writes(s) == /\ Owns(s[1], s[2]) /\ row'[s[1]].attempt = row[s[1]].attempt
             /\ Starts(s) \/ Fences(s) \/ Renews(s) \/ GivesBack(s) \/ Ends(s)

RowMove(r) == \/ row'[r] = row[r] \/ Rests(r) \/ Expires(r)
              \/ Pends(r) \/ Claims(r) \/ Drops(r)
              \/ \E s \in Slots : s[1] = r /\ Writes(s)

\* A store call of the attempt s, and why it is made.
Call(s) ==
  \/ UNCHANGED row
  \/ MarkTaskRunStarted(s[1], s[2])
  \/ /\ MarkTaskRunLaunched(s[1], s[2])
     /\ disp[s].pc \in {"mark", "reconcile"} \/ <<"launched", s>> \in late
  \/ RenewTaskRunLease(s[1], s[2]) /\ disp[s].hb = "on"
  \/ /\ \E b \in BOOLEAN : RescheduleTaskRun(s[1], s[2], b)
     /\ \/ disp[s].pc \in {"resched", "retry", "requeue"}
        \/ <<"delayed", s>> \in late \/ <<"requeue", s>> \in late
  \/ /\ \E status \in FinishStatuses(s) : MarkTaskRunFinished(s[1], s[2], status)
     /\ disp[s].pc \in {"finish", "settle"} \/ <<"finished", s>> \in late

LEMMA UpdatedRow ==
  ASSUME RowsType, NEW r \in Rows, NEW owns, NEW rec, UpdateRow(r, owns, rec)
  PROVE  /\ \A q \in Rows \ {r} : row'[q] = row[q]
         /\ row'[r] = row[r] \/ (owns /\ row'[r] = rec)
  BY DEF RowsType, UpdateRow

LEMMA LeaseFields ==
  ASSUME NEW rec \in RowRecord, NEW a, NEW b, NEW st
  PROVE  /\ StartedRow(rec, a).lease = rec.lease
         /\ LaunchedRow(rec, a).lease = rec.lease
         /\ RenewedRow(rec).lease = "live"
         /\ RetryRow(rec, b).lease = "none" /\ EndedRow(rec, st).lease = "none"
  BY DEF RowRecord, StartedRow, LaunchedRow, RenewedRow, RetryRow, EndedRow

LEMMA CallMoves ==
  ASSUME IInv, NEW s \in Slots, Call(s), NEW r \in Rows
  PROVE  RowMove(r)
  <1> DEFINE x == s[1]
  <1>1. RowsType /\ x \in Rows /\ row[x] \in RowRecord
    BY SlotParts DEF IInv, TypeOK, RowsType
  <1>2. ASSUME row'[x] # row[x], NEW owns, NEW rec, UpdateRow(x, owns, rec)
        PROVE  owns /\ row'[x] = rec
    BY <1>1, <1>2, UpdatedRow
  <1>3. CASE r = x
    <2>1. StartOwned(x, s[2]) => Owns(x, s[2]) /\ row[x].status \in Leased
      BY DEF StartOwned, Owns, Owned
    <2>2. CASE row'[x] = row[x]
      BY <1>3, <2>2 DEF RowMove
    <2>3. CASE row'[x] # row[x] /\ MarkTaskRunStarted(x, s[2])
      <3>1. StartOwned(x, s[2]) /\ row'[x] = StartedRow(row[x], s[2])
        BY <1>2, <2>3 DEF MarkTaskRunStarted
      <3>2. /\ row'[x].status = "running" /\ row'[x].attempt = row[x].attempt
            /\ row'[x].lease = row[x].lease
        BY <1>1, <3>1, UpdatesFields, LeaseFields
      <3>3. Writes(s)
        BY <2>1, <3>1, <3>2 DEF Writes, Starts
      <3>4. QED
        BY <1>3, <3>3 DEF RowMove
    <2>4. CASE /\ row'[x] # row[x] /\ MarkTaskRunLaunched(x, s[2])
               /\ disp[s].pc \in {"mark", "reconcile"} \/ <<"launched", s>> \in late
      <3>1. Owns(x, s[2]) /\ row'[x] = LaunchedRow(row[x], s[2])
        BY <1>2, <2>4 DEF MarkTaskRunLaunched
      <3>2. Writes(s)
        BY <1>1, <2>4, <3>1, UpdatesFields, LeaseFields DEF Writes, Fences
      <3>3. QED
        BY <1>3, <3>2 DEF RowMove
    <2>5. CASE row'[x] # row[x] /\ RenewTaskRunLease(x, s[2]) /\ disp[s].hb = "on"
      <3>1. Owns(x, s[2]) /\ row'[x] = RenewedRow(row[x])
        BY <1>2, <2>5 DEF RenewTaskRunLease
      <3>2. Writes(s)
        BY <1>1, <2>5, <3>1, UpdatesFields, LeaseFields DEF Writes, Renews
      <3>3. QED
        BY <1>3, <3>2 DEF RowMove
    <2>6. CASE /\ row'[x] # row[x] /\ \E b \in BOOLEAN : RescheduleTaskRun(x, s[2], b)
               /\ \/ disp[s].pc \in {"resched", "retry", "requeue"}
                  \/ <<"delayed", s>> \in late \/ <<"requeue", s>> \in late
      <3>1. PICK b \in BOOLEAN : RescheduleTaskRun(x, s[2], b)
        BY <2>6
      <3>2. /\ Owns(x, s[2])
            /\ row'[x] = IF s[2] < MaxAttempts THEN RetryRow(row[x], b)
                         ELSE EndedRow(row[x], "dead_letter")
        BY <1>2, <2>6, <3>1 DEF RescheduleTaskRun
      <3>3. Writes(s)
        BY <1>1, <2>6, <3>2, UpdatesFields DEF Writes, GivesBack
      <3>4. QED
        BY <1>3, <3>3 DEF RowMove
    <2>7. CASE /\ row'[x] # row[x]
               /\ \E status \in FinishStatuses(s) : MarkTaskRunFinished(x, s[2], status)
               /\ disp[s].pc \in {"finish", "settle"} \/ <<"finished", s>> \in late
      <3>1. PICK status \in FinishStatuses(s) : MarkTaskRunFinished(x, s[2], status)
        BY <2>7
      <3>2. Owns(x, s[2]) /\ row'[x] = EndedRow(row[x], status)
        BY <1>2, <2>7, <3>1 DEF MarkTaskRunFinished
      <3>3. status \in {"success", "error"} /\ (status = "success" => run[s] = "success")
        BY <3>1 DEF FinishStatuses
      <3>4. Writes(s)
        BY <1>1, <2>7, <3>2, <3>3, UpdatesFields DEF Writes, Ends
      <3>5. QED
        BY <1>3, <3>4 DEF RowMove
    <2>8. QED
      BY <2>2, <2>3, <2>4, <2>5, <2>6, <2>7 DEF Call
  <1>4. CASE r # x
    <2>1. PICK owns, rec : UpdateRow(x, owns, rec) \/ UNCHANGED row
      BY DEF Call, MarkTaskRunStarted, MarkTaskRunLaunched, RenewTaskRunLease,
             RescheduleTaskRun, MarkTaskRunFinished
    <2>2. row'[r] = row[r]
      BY <1>1, <1>4, <2>1, UpdatedRow
    <2>3. QED
      BY <2>2 DEF RowMove
  <1>5. QED
    BY <1>3, <1>4

LEMMA DispatchCalls ==
  ASSUME NEW s \in Slots, Dispatches(s)
  PROVE  Call(s)
  <1>1. CASE StartDispatch(s) \/ Launch(s) \/ LaunchRefused(s)
    BY <1>1 DEF StartDispatch, Launch, LaunchRefused, Call
  <1>2. CASE MarkLaunched(s) \/ Reconcile(s)
    BY <1>2 DEF MarkLaunched, Reconcile, Call
  <1>3. CASE AwaitRun(s) \/ AwaitDelivery(s) \/ Unwind(s) \/ StoreFails(s) \/ HeartbeatFails(s)
    BY <1>3 DEF AwaitRun, AwaitDelivery, Unwind, StoreFails, HeartbeatFails, Call
  <1>4. CASE Finish(s) \/ Settle(s)
    BY <1>4 DEF Finish, Settle, Call
  <1>5. CASE Reschedule(s) \/ Requeue(s)
    BY <1>5 DEF Reschedule, Requeue, Call
  <1>6. CASE Heartbeat(s)
    BY <1>6 DEF Heartbeat, Call
  <1>7. QED
    BY <1>1, <1>2, <1>3, <1>4, <1>5, <1>6 DEF Dispatches

LEMMA LateCalls ==
  ASSUME NEW w \in late, w \in LateOps \X Slots, LateWrite(w)
  PROVE  w[2] \in Slots /\ Call(w[2])
  <1>1. w[2] \in Slots /\ w = <<w[1], w[2]>>
    OBVIOUS
  <1>2. QED
    BY <1>1 DEF LateWrite, Call

\* Rows ended or forgotten without their owner.
LEMMA EndedDrops ==
  ASSUME IInv, NEW r \in Rows, NEW st \in {"error", "interrupted", "cancelled", "dead_letter"},
         row'[r] = EndedRow(row[r], st),
         row[r].status \in Owned /\ ~Pauses => row[r].lease # "live"
  PROVE  RowMove(r)
  <1>1. row'[r].status = st
    BY UpdatesFields DEF IInv, TypeOK
  <1>2. QED
    BY <1>1 DEF RowMove, Drops

LEMMA PollMoves ==
  ASSUME IInv, NEW p \in Procs, Polls(p), NEW r \in Rows
  PROVE  RowMove(r)
  <1>1. CASE TickCleanup(p)
    <2>1. PICK old \in SUBSET {q \in Rows : row[q].status \in Terminal} : CleanupTaskRuns(old)
      BY <1>1 DEF TickCleanup
    <2>2. row'[r] = row[r] \/ (row'[r].status = "gone" /\ row[r].status \in Terminal)
      BY <2>1, FreshRows DEF CleanupTaskRuns
    <2>3. QED
      BY <2>2 DEF RowMove, Drops, Terminal, Owned, Leased
  <1>2. CASE TickReconcile(p)
    BY <1>2, EndedDrops DEF TickReconcile, ReconcileExpiredLaunchedRuns, Orphaned, RowMove
  <1>3. CASE TickClaim(p) \/ ClaimLost(p)
    <2>1. PICK S \in SUBSET Rows : ClaimDueTasks(loop[p].capacity, S)
      BY <1>3 DEF TickClaim, ClaimLost
    <2>2. (\A q \in S : Claims(q)) /\ (\A q \in Rows \ S : Passed(q))
      BY <2>1, ClaimStep DEF Claims
    <2>3. CASE r \in S
      BY <2>2, <2>3 DEF RowMove
    <2>4. CASE row'[r] = row[r]
      BY <2>4 DEF RowMove
    <2>5. CASE row[r].status = "absent" /\ row'[r] = PendingRow
      BY <2>5, FreshRows DEF RowMove, Pends
    <2>6. CASE row[r].status = "absent" /\ row'[r] = QuarantinedRow
      BY <2>6, FreshRows DEF RowMove, Drops, Owned, Leased
    <2>7. CASE /\ row[r].status \in Active /\ ~Holds(row[r])
               /\ row'[r] = EndedRow(row[r], "dead_letter")
      <3>1. row[r].status \in Owned => row[r].lease # "live"
        BY <2>7 DEF Holds, Owned
      <3>2. QED
        BY <2>7, <3>1, EndedDrops
    <2>8. QED
      BY <2>2, <2>3, <2>4, <2>5, <2>6, <2>7 DEF Passed
  <1>4. CASE TickDispatch(p) \/ TickFails(p)
    BY <1>4 DEF TickDispatch, TickFails, RowMove
  <1>5. QED
    BY <1>1, <1>2, <1>3, <1>4 DEF Polls

LEMMA AdministerMoves ==
  ASSUME IInv, Unasked, NEW p \in Procs, Administers(p), NEW r \in Rows
  PROVE  RowMove(r)
  <1>1. CASE \E t \in Tasks : PauseTask(p, t, "pausing") \/ PauseTask(p, t, "deleting")
    <2>1. PICK t \in Tasks, kind \in {"pausing", "deleting"} : PauseTask(p, t, kind)
      BY <1>1
    <2>2. Pauses /\ (row'[r] = row[r] \/ row'[r] = EndedRow(row[r], "cancelled"))
      BY <2>1 DEF PauseTask
    <2>3. QED
      BY <2>2, EndedDrops DEF RowMove
  <1>2. CASE CancelActiveTaskWork(p)
    BY <1>2 DEF CancelActiveTaskWork, RowMove
  <1>3. CASE DeleteTask(p)
    <2>1. Pauses
      BY <1>3 DEF DeleteTask, Unasked, NoRequest, IInv, TypeOK
    <2>2. row'[r] = row[r] \/ row'[r].status = "gone"
      BY <1>3, FreshRows DEF DeleteTask
    <2>3. QED
      BY <2>1, <2>2 DEF RowMove, Drops
  <1>4. QED
    BY <1>1, <1>2, <1>3 DEF Administers

LEMMA TimeMoves ==
  ASSUME IInv, TimePasses, NEW r \in Rows
  PROVE  RowMove(r)
  <1>1. CASE \E t \in Tasks : TaskDue(t)
    BY <1>1 DEF TaskDue, RowMove
  <1>2. ASSUME NEW q \in Rows, RetryDelayElapses(q) \/ LeaseExpires(q) \/ OrphanGraceElapses(q)
        PROVE  RowMove(r)
    <2>1. row \in [Rows -> RowRecord] /\ row[q] \in RowRecord
      BY DEF IInv, TypeOK
    <2>2. CASE r # q
      BY <1>2, <2>1, <2>2 DEF RetryDelayElapses, LeaseExpires, OrphanGraceElapses, RowMove
    <2>3. CASE r = q /\ RetryDelayElapses(q)
      BY <2>1, <2>3 DEF RetryDelayElapses, RowMove, Rests, RowRecord
    <2>4. CASE r = q /\ OrphanGraceElapses(q)
      BY <2>1, <2>4 DEF OrphanGraceElapses, RowMove, Rests, RowRecord
    <2>5. CASE r = q /\ LeaseExpires(q)
      BY <2>1, <2>5 DEF LeaseExpires, RowMove, Expires, RowRecord
    <2>6. QED
      BY <1>2, <2>2, <2>3, <2>4, <2>5
  <1>3. QED
    BY <1>1, <1>2 DEF TimePasses

LEMMA LifeMoves ==
  ASSUME IInv, NEW p \in Procs, LivesAndDies(p), NEW r \in Rows
  PROVE  RowMove(r)
  <1>1. CASE Start(p)
    BY <1>1, EndedDrops DEF Start, ReconcileExpiredLaunchedRuns, Orphaned, RowMove
  <1>2. CASE ~Start(p)
    BY <1>2 DEF LivesAndDies, Stop, StopCancels, Stopped, Crash, RowMove
  <1>3. QED
    BY <1>1, <1>2

\* Every step moves every row in one of these ways.
LEMMA RowMoves ==
  ASSUME EInv, [Next]_vars, NEW r \in Rows
  PROVE  RowMove(r)
  <1> USE DEF EInv, DInv
  <1>1. CASE UNCHANGED vars
    BY <1>1 DEF vars, RowMove
  <1>2. CASE TimePasses
    BY <1>2, TimeMoves
  <1>3. ASSUME NEW p \in Procs, Polls(p) \/ Administers(p) \/ LivesAndDies(p)
        PROVE  RowMove(r)
    BY <1>3, PollMoves, AdministerMoves, LifeMoves
  <1>4. ASSUME NEW s \in Slots, Dispatches(s) \/ Executes(s)
        PROVE  RowMove(r)
    <2>1. CASE Dispatches(s)
      BY <2>1, DispatchCalls, CallMoves
    <2>2. CASE Executes(s)
      BY <2>2 DEF Executes, RunEnds, RunCancelled, UserCancelsRun, RowMove
    <2>3. QED
      BY <1>4, <2>1, <2>2
  <1>5. ASSUME NEW w \in late, LateWrite(w)
        PROVE  RowMove(r)
    <2>1. w \in LateOps \X Slots
      BY DEF IInv, TypeOK
    <2>2. QED
      BY <1>5, <2>1, LateCalls, CallMoves
  <1>6. ASSUME NEW t \in Tasks, CreateTask(t) \/ EnableTask(t)
        PROVE  RowMove(r)
    BY <1>6 DEF CreateTask, EnableTask, RowMove
  <1>7. QED
    BY <1>1, <1>2, <1>3, <1>4, <1>5, <1>6, Steps

-----------------------------------------------------------------------------
(* How a dispatch and its run can move *)

DispMove(s) ==
  /\ run'[s] = "running" => run[s] = "running" \/ disp[s].pc = "launch"
  /\ run[s] \in {"success", "error", "transient"} => run'[s] = run[s]
  /\ disp'[s].pc = "launch" =>
       \/ disp[s].pc = "launch"
       \/ disp[s].pc = "start" /\ StartOwned(s[1], s[2]) /\ UNCHANGED task
  /\ disp'[s].pc \in {"mark", "await"} => disp[s].pc \in {"launch", "mark", "await"}
  /\ disp[s].pc = "done" => disp'[s].pc = "done"
  /\ disp'[s].pc = "done" => disp'[s].hb = "off"
  /\ disp[s].pc # "none" => disp'[s].proc = disp[s].proc
  /\ disp'[s].hb = "dead" =>
       \/ disp[s].hb = "dead"
       \/ disp[s].hb = "on" /\ (DbFailures \/ ~Owns(s[1], s[2]))

LEMMA StandingMove ==
  ASSUME EInv, NEW s \in Slots, disp'[s] = disp[s],
         \/ run'[s] = run[s]
         \/ run[s] \in LiveRuns /\ run'[s] # "running"
  PROVE  DispMove(s)
  BY DEF DispMove, EInv, Stilled, LiveRuns

LEMMA GoingMove ==
  ASSUME EInv, NEW s \in Slots, NEW pc, Goto(s, pc), run'[s] = run[s],
         disp[s].pc # "done", pc # "launch",
         pc \in {"mark", "await"} => disp[s].pc \in {"mark", "await"}
  PROVE  DispMove(s)
  <1>1. /\ disp'[s].pc = pc /\ disp'[s].proc = disp[s].proc
        /\ disp'[s].hb = IF pc = "done" THEN "off" ELSE disp[s].hb
    BY GotoFields DEF EInv, DInv, IInv
  <1>2. QED
    BY <1>1 DEF DispMove

LEMMA OtherStands ==
  ASSUME EInv, NEW q \in Slots, Dispatches(q), NEW s \in Slots, s # q
  PROVE  disp'[s] = disp[s] /\ (run'[s] = run[s] \/ (run[s] \in {"running", "stopping"}
                                                    /\ run'[s] = "cancelling"))
  <1>1. TypeOK
    BY DEF EInv, DInv, IInv
  <1>2. CASE \E pc : Goto(q, pc)
    <2>1. disp'[s] = disp[s]
      BY <1>1, <1>2, GotoFields
    <2>2. CASE Launch(q)
      BY <2>1, <2>2 DEF Launch, Inflight
    <2>3. CASE ~Launch(q)
      BY <2>1, <2>3 DEF Dispatches, StartDispatch, LaunchRefused, MarkLaunched, AwaitRun,
         AwaitDelivery, Finish, Reschedule, Unwind, Requeue, StoreFails, Reconcile, Settle,
         Heartbeat, HeartbeatFails
    <2>4. QED
      BY <2>2, <2>3
  <1>3. CASE StartDispatch(q) \/ Heartbeat(q) \/ HeartbeatFails(q)
    BY <1>1, <1>3 DEF StartDispatch, Heartbeat, HeartbeatFails, TypeOK
  <1>4. QED
    BY <1>2, <1>3 DEF Dispatches, Launch, LaunchRefused, MarkLaunched, AwaitRun,
       AwaitDelivery, Finish, Reschedule, Unwind, Requeue, StoreFails, Reconcile, Settle

LEMMA DispatchMoves ==
  ASSUME EInv, NEW s \in Slots, Dispatches(s)
  PROVE  DispMove(s)
  <1>1. CASE StartDispatch(s)
    <2> DEFINE starts == StartOwned(s[1], s[2])
               rec == [disp[s] EXCEPT !.pc = IF starts THEN "launch" ELSE "done",
                                      !.hb = IF starts THEN "on" ELSE "off"]
    <2>1. disp \in [Slots -> DispRecord] /\ disp[s] \in DispRecord
      BY DEF EInv, DInv, IInv, TypeOK
    <2>2. /\ rec.pc = IF starts THEN "launch" ELSE "done"
          /\ rec.hb = IF starts THEN "on" ELSE "off"
          /\ rec.proc = disp[s].proc
      BY <2>1 DEF DispRecord
    <2>3. disp' = [disp EXCEPT ![s] = rec] /\ disp[s].pc = "start" /\ UNCHANGED <<task, run>>
      BY <1>1 DEF StartDispatch
    <2> HIDE DEF rec
    <2>4. /\ disp'[s].pc = IF starts THEN "launch" ELSE "done"
          /\ disp'[s].hb = IF starts THEN "on" ELSE "off"
          /\ disp'[s].proc = disp[s].proc
      BY <2>1, <2>2, <2>3
    <2>5. QED
      BY <2>3, <2>4 DEF DispMove
  <1>2. CASE Launch(s)
    <2>1. disp[s].pc = "launch" /\ Goto(s, "mark") /\ run[s] = "none"
      BY <1>2 DEF Launch, EInv, DInv, Paced, PaceOf
    <2>2. disp'[s].pc = "mark" /\ disp'[s].proc = disp[s].proc /\ disp'[s].hb = disp[s].hb
      BY <2>1, GotoFields DEF EInv, DInv, IInv
    <2>3. QED
      BY <2>1, <2>2 DEF DispMove
  <1>3. CASE LaunchRefused(s) \/ Unwind(s)
    BY <1>3, GoingMove DEF LaunchRefused, Unwind
  <1>4. CASE MarkLaunched(s)
    BY <1>4, GoingMove DEF MarkLaunched
  <1>5. CASE AwaitRun(s) \/ AwaitDelivery(s)
    <2>1. Decision(s) \in {"requeue", "retry", "finish"}
      BY DEF Decision
    <2>2. PICK pc \in {"deliver", Decision(s)} : Goto(s, pc)
      BY <1>5 DEF AwaitRun, AwaitDelivery
    <2>3. disp[s].pc \in {"await", "deliver"} /\ UNCHANGED run
      BY <1>5 DEF AwaitRun, AwaitDelivery
    <2>4. QED
      BY <2>1, <2>2, <2>3, GoingMove
  <1>6. CASE Finish(s) \/ Reschedule(s) \/ Requeue(s) \/ Settle(s)
    BY <1>6, GoingMove DEF Finish, Reschedule, Requeue, Settle
  <1>7. CASE StoreFails(s)
    <2>1. PICK pc \in {"resched", "reconcile", "done"} : Goto(s, pc)
      BY <1>7 DEF StoreFails
    <2>2. disp[s].pc # "done" /\ UNCHANGED run
      BY <1>7 DEF StoreFails
    <2>3. QED
      BY <2>1, <2>2, GoingMove
  <1>8. CASE Reconcile(s)
    BY <1>8, GoingMove DEF Reconcile
  <1>9. CASE Heartbeat(s) \/ HeartbeatFails(s)
    <2> DEFINE rec == [disp[s] EXCEPT !.hb = "dead"]
    <2>1. disp \in [Slots -> DispRecord] /\ disp[s] \in DispRecord
      BY DEF EInv, DInv, IInv, TypeOK
    <2>2. rec.pc = disp[s].pc /\ rec.proc = disp[s].proc
      BY <2>1 DEF DispRecord
    <2>3. /\ disp[s].hb = "on" /\ UNCHANGED run
          /\ \/ disp'[s] = disp[s]
             \/ disp' = [disp EXCEPT ![s] = rec] /\ (DbFailures \/ ~Owns(s[1], s[2]))
      BY <1>9 DEF Heartbeat, HeartbeatFails
    <2>4. disp[s].pc # "done"
      BY <2>3 DEF EInv, Stilled
    <2> HIDE DEF rec
    <2>5. CASE disp'[s] = disp[s]
      BY <2>3, <2>5, StandingMove
    <2>6. CASE disp'[s] # disp[s]
      <3>1. disp'[s] = rec /\ (DbFailures \/ ~Owns(s[1], s[2]))
        BY <2>1, <2>3, <2>6
      <3>2. QED
        BY <2>2, <2>3, <2>4, <3>1 DEF DispMove
    <2>7. QED
      BY <2>5, <2>6
  <1>10. QED
    BY <1>1, <1>2, <1>3, <1>4, <1>5, <1>6, <1>7, <1>8, <1>9 DEF Dispatches

LEMMA CancelledMove ==
  ASSUME EInv, NEW p \in Procs, NEW X \in SUBSET ActiveDispatches(p), NEW cancelled,
         CancelDispatches(X, cancelled), NEW s \in Slots
  PROVE  /\ DispMove(s)
         /\ s \in X => disp'[s].pc # "launch"
         /\ s \in X /\ disp[s].pc \in LaunchedPcs => run'[s] # "running"
         /\ s \notin X => disp'[s] = disp[s]
         /\ run'[s] = run[s] \/ (run[s] \in {"running", "stopping"}
                                 /\ run'[s] \in {"stopping", "cancelling"})
  <1>1. X \in SUBSET Slots /\ TypeOK
    BY DEF ActiveDispatches, EInv, DInv, IInv
  <1>2. /\ s \notin X => disp'[s] = disp[s]
        /\ s \in X => /\ disp'[s].proc = disp[s].proc
                      /\ disp'[s].pc \in {AfterCancel(s), "done"}
                      /\ disp'[s].hb = IF disp'[s].pc = "done" THEN "off" ELSE disp[s].hb
        /\ run'[s] = run[s] \/ (run[s] \in {"running", "stopping"}
                                /\ run'[s] \in {"stopping", "cancelling"})
        /\ s \in X /\ disp[s].pc \in LaunchedPcs => run'[s] # "running"
    BY <1>1, Cancelled
  <1>3. CASE s \notin X
    BY <1>2, <1>3, StandingMove DEF LiveRuns
  <1>4. CASE s \in X
    <2>1. /\ AfterCancel(s) \in {"requeue", "unwind", "done"} \/ AfterCancel(s) = disp[s].pc
          /\ AfterCancel(s) # "launch" /\ disp[s].pc # "done"
      BY <1>4 DEF AfterCancel, ActiveDispatches
    <2>2. DispMove(s)
      BY <1>2, <1>4, <2>1 DEF DispMove
    <2>3. QED
      BY <1>2, <1>4, <2>1, <2>2
  <1>5. QED
    BY <1>3, <1>4

LEMMA LifeMovesOn ==
  ASSUME EInv, NEW p \in Procs, Stopped(p) \/ Crash(p), NEW s \in Slots
  PROVE  DispMove(s)
  <1>1. run'[s] = run[s] \/ (run[s] \in LiveRuns /\ run'[s] # "running")
    BY DEF Stopped, Crash, RunsLost
  <1>2. CASE disp'[s] = disp[s]
    BY <1>1, <1>2, StandingMove
  <1>3. CASE disp'[s] # disp[s]
    <2> DEFINE rec == [disp[s] EXCEPT !.pc = "done", !.hb = "off"]
    <2>1. disp[s] \in DispRecord
      BY DEF EInv, DInv, IInv, TypeOK
    <2>2. disp'[s] = rec
      BY <1>3 DEF Stopped, Crash
    <2>3. rec.pc = "done" /\ rec.proc = disp[s].proc /\ rec.hb = "off"
      BY <2>1 DEF DispRecord
    <2> HIDE DEF rec
    <2>4. QED
      BY <1>1, <2>2, <2>3 DEF DispMove, LiveRuns
  <1>4. QED
    BY <1>2, <1>3

\* Every step moves every dispatch and its run in this way.
LEMMA DispMoves ==
  ASSUME EInv, [Next]_vars, NEW s \in Slots
  PROVE  DispMove(s)
  <1>1. CASE UNCHANGED <<disp, run>>
    BY <1>1, StandingMove
  <1>2. ASSUME NEW q \in Slots, Dispatches(q)
        PROVE  DispMove(s)
    <2>1. CASE q = s
      BY <1>2, <2>1, DispatchMoves
    <2>2. CASE q # s
      BY <1>2, <2>2, OtherStands, StandingMove DEF LiveRuns
    <2>3. QED
      BY <2>1, <2>2
  <1>3. ASSUME NEW q \in Slots, Executes(q)
        PROVE  DispMove(s)
    <2>1. run'[s] = run[s] \/ (run[s] \in LiveRuns /\ run'[s] # "running")
      BY <1>3 DEF Executes, RunEnds, RunCancelled, UserCancelsRun, LiveRuns, EInv, DInv, IInv, TypeOK
    <2>2. UNCHANGED disp
      BY <1>3 DEF Executes, RunEnds, RunCancelled, UserCancelsRun
    <2>3. QED
      BY <2>1, <2>2, StandingMove
  <1>4. ASSUME NEW p \in Procs, Polls(p)
        PROVE  DispMove(s)
    <2>1. CASE TickDispatch(p)
      <3>1. CASE s \in loop[p].batch
        <4>1. disp'[s].pc = "start" /\ disp'[s].hb = "off" /\ disp[s].pc = "none" /\ UNCHANGED run
          BY <2>1, <3>1 DEF TickDispatch, EInv, DInv, Batched
        <4>2. QED
          BY <4>1 DEF DispMove
      <3>2. CASE s \notin loop[p].batch
        BY <2>1, <3>2, StandingMove DEF TickDispatch
      <3>3. QED
        BY <3>1, <3>2
    <2>2. CASE ~TickDispatch(p)
      <3>1. UNCHANGED <<disp, run>>
        BY <1>4, <2>2 DEF Polls, TickCleanup, TickReconcile, TickClaim, TickFails, ClaimLost
      <3>2. QED
        BY <1>1, <3>1
    <2>3. QED
      BY <2>1, <2>2
  <1>5. ASSUME NEW p \in Procs, Administers(p) \/ LivesAndDies(p)
        PROVE  DispMove(s)
    <2>1. CASE CancelActiveTaskWork(p) \/ StopCancels(p)
      BY <2>1, CancelledMove DEF CancelActiveTaskWork, StopCancels
    <2>2. CASE Stopped(p) \/ Crash(p)
      BY <2>2, LifeMovesOn
    <2>3. CASE Start(p) \/ Stop(p) \/ DeleteTask(p)
               \/ \E t \in Tasks : PauseTask(p, t, "pausing") \/ PauseTask(p, t, "deleting")
      <3>1. UNCHANGED <<disp, run>>
        BY <2>3 DEF Start, Stop, DeleteTask, PauseTask
      <3>2. QED
        BY <1>1, <3>1
    <2>4. QED
      BY <1>5, <2>1, <2>2, <2>3 DEF Administers, LivesAndDies
  <1>6. CASE TimePasses \/ UNCHANGED vars \/ \E t \in Tasks : CreateTask(t) \/ EnableTask(t)
    <2>1. UNCHANGED <<disp, run>>
      BY <1>6 DEF TimePasses, TaskDue, RetryDelayElapses, LeaseExpires, OrphanGraceElapses,
                  vars, CreateTask, EnableTask
    <2>2. QED
      BY <1>1, <2>1
  <1>7. CASE \E w \in late : LateWrite(w)
    BY <1>1, <1>7 DEF LateWrite
  <1>8. QED
    BY <1>2, <1>3, <1>4, <1>5, <1>6, <1>7, Steps

LEMMA AskedOnlyWithPauses ==
  ASSUME EInv, [Next]_vars
  PROVE  Unasked'
  <1> SUFFICES ASSUME ~Pauses, NEW p \in Procs
               PROVE  request'[p] = NoRequest
    BY DEF Unasked
  <1>1. \A q \in Procs : request[q] = NoRequest
    BY DEF EInv, Unasked
  <1>2. CASE UNCHANGED request
    BY <1>1, <1>2
  <1>3. ASSUME NEW q \in Procs, Administers(q)
        PROVE  FALSE
    BY <1>1, <1>3 DEF Administers, PauseTask, CancelActiveTaskWork, DeleteTask, NoRequest
  <1>4. ASSUME NEW q \in Procs, Crash(q)
        PROVE  request'[p] = NoRequest
    BY <1>1, <1>4 DEF Crash, EInv, DInv, IInv, TypeOK
  <1>5. ASSUME NEW q \in Procs, LivesAndDies(q), ~Crash(q)
        PROVE  UNCHANGED request
    BY <1>5 DEF LivesAndDies, Start, Stop, StopCancels, Stopped
  <1>6. ASSUME NEW q \in Procs, Polls(q)
        PROVE  UNCHANGED request
    BY <1>6 DEF Polls, TickCleanup, TickReconcile, TickClaim, TickDispatch, TickFails, ClaimLost
  <1>7. ASSUME NEW s \in Slots, Dispatches(s) \/ Executes(s)
        PROVE  UNCHANGED request
    BY <1>7 DEF Dispatches, StartDispatch, Launch, LaunchRefused, MarkLaunched, AwaitRun,
       AwaitDelivery, Finish, Reschedule, Unwind, Requeue, StoreFails, Reconcile, Settle,
       Heartbeat, HeartbeatFails, Executes, RunEnds, RunCancelled, UserCancelsRun
  <1>8. CASE TimePasses \/ UNCHANGED vars \/ \E t \in Tasks : CreateTask(t) \/ EnableTask(t)
    BY <1>2, <1>8 DEF TimePasses, TaskDue, RetryDelayElapses, LeaseExpires, OrphanGraceElapses,
       vars, CreateTask, EnableTask
  <1>9. CASE \E w \in late : LateWrite(w)
    BY <1>2, <1>9 DEF LateWrite
  <1>10. QED
    BY <1>2, <1>3, <1>4, <1>5, <1>6, <1>7, <1>8, <1>9, Steps

LEMMA EInvStep ==
  ASSUME EInv, [Next]_vars
  PROVE  EInv'
  <1>1. DInv'
    BY DInvStep DEF EInv
  <1>2. Unasked'
    BY AskedOnlyWithPauses
  <1>3. Stilled'
    BY DispMoves DEF Stilled, DispMove
  <1>4. QED
    BY <1>1, <1>2, <1>3 DEF EInv

LEMMA EInvInit ==
  ASSUME Init
  PROVE  EInv
  BY DInvInit DEF EInv, Init, Unasked, Stilled

-----------------------------------------------------------------------------
(* What the history records *)

LEMMA SlotOfOwned ==
  ASSUME TypeOK, NEW s \in Slots, Owns(s[1], s[2])
  PROVE  SlotOf(s[1]) = s /\ row[s[1]].attempt > 0
  BY SlotParts, SchedulerAssumption DEF Owns, SlotOf, Attempts

LEMMA SuccessStep ==
  ASSUME EInv, SuccessIsReal, [Next]_vars
  PROVE  SuccessIsReal'
  <1> SUFFICES ASSUME NEW r \in Rows, row'[r].status = "success"
               PROVE  row'[r].attempt > 0 /\ run'[<<r, row'[r].attempt>>] = "success"
    BY DEF SuccessIsReal, SlotOf
  <1>1. /\ row[r] \in RowRecord /\ row'[r] \in RowRecord /\ RowStep(row[r], row'[r])
        /\ TypeOK /\ TypeOK'
    BY NextStep DEF EInv, DInv, IInv, TypeOK, Good, RowsStep
  <1>2. row'[r].attempt = row[r].attempt
    <2>1. Phase(row'[r].status) = "over"
      BY PhaseOf, StatusSets
    <2>2. QED
      BY <1>1, <2>1, RowStepFacts
  <1>3. row[r].attempt \in 0..MaxAttempts
    BY <1>1, RowRecordFields
  <1>4. row[r].attempt > 0 /\ run[<<r, row[r].attempt>>] = "success"
    <2>1. CASE row[r].status = "success"
      BY <2>1 DEF SuccessIsReal, SlotOf
    <2>2. CASE row[r].status # "success"
      <3>1. PICK s \in Slots : s[1] = r /\ Writes(s)
        BY <2>2, RowMoves DEF RowMove, Rests, Expires, Pends, Claims, Taken, Drops
      <3>2. Owns(s[1], s[2]) /\ run[s] = "success"
        BY <2>2, <3>1 DEF Writes, Starts, Fences, Renews, GivesBack, Ends
      <3>3. QED
        BY <1>1, <3>1, <3>2, SlotOfOwned DEF SlotOf
    <2>3. QED
      BY <2>1, <2>2
  <1>5. <<r, row[r].attempt>> \in Slots
    BY <1>3, <1>4, SchedulerAssumption DEF Slots, Attempts
  <1>6. run'[<<r, row[r].attempt>>] = "success"
    BY <1>4, <1>5, DispMoves DEF DispMove
  <1>7. QED
    BY <1>2, <1>4, <1>6

\* No occurrence is recorded as a success that did not succeed: whatever loses its
\* lease, is cancelled or writes late, the attempt on record of a row that says
\* success has a managed run that ended with success.
THEOREM SuccessesAreReal == Spec => []SuccessIsReal
  <1>1. Init => EInv /\ SuccessIsReal
    BY EInvInit, FreshRows DEF Init, SuccessIsReal
  <1>2. EInv /\ SuccessIsReal /\ [Next]_vars => (EInv /\ SuccessIsReal)'
    BY EInvStep, SuccessStep
  <1>3. QED
    BY <1>1, <1>2, PTL DEF Spec

\* No agent run is replayed that ended by itself: a launched occurrence goes back to
\* retry only if its run ended with a transient failure, was cancelled or never
\* started, or if its dispatch had been cancelled before the outcome was written.
THEOREM EndedRunsAreNotReplayed == Spec => NoReplayOfEndedRun
  <1> DEFINE Kind == \A r \in Rows :
       /\ row[r].status = "launched" /\ row'[r].status = "retry"
       /\ run[SlotOf(r)] \in {"success", "error"}
       => disp[SlotOf(r)].pc \in {"requeue", "done"}
  <1>1. Init => EInv
    BY EInvInit
  <1>2. EInv /\ [Next]_vars => EInv'
    BY EInvStep
  <1>3. ASSUME EInv, [Next]_vars
        PROVE  Kind
    <2> SUFFICES ASSUME NEW r \in Rows,
                        row[r].status = "launched", row'[r].status = "retry",
                        run[SlotOf(r)] \in {"success", "error"}
                 PROVE  disp[SlotOf(r)].pc \in {"requeue", "done"}
      OBVIOUS
    <2>1. PICK s \in Slots : s[1] = r /\ Writes(s)
      BY <1>3, RowMoves DEF RowMove, Rests, Expires, Pends, Claims, Taken, Drops
    <2>2. SlotOf(r) = s
      BY <1>3, <2>1, SlotOfOwned DEF Writes, EInv, DInv, IInv
    <2>3. GivesBack(s)
      BY <2>1 DEF Writes, Starts, Fences, Renews, Ends
    <2>4. CASE disp[s].pc \in {"resched", "retry"}
      BY <1>3, <2>2, <2>4 DEF EInv, DInv, Paced, PaceOf
    <2>5. CASE <<"delayed", s>> \in late \/ <<"requeue", s>> \in late
      BY <1>3, <2>2, <2>5 DEF EInv, DInv, LateOnly, LatenessOf
    <2>6. QED
      BY <2>1, <2>2, <2>3, <2>4, <2>5 DEF GivesBack
  <1>4. EInv /\ [Next]_vars => [Kind]_vars
    BY <1>3
  <1> HIDE DEF Kind
  <1>5. Spec => [][Kind]_vars
    BY <1>1, <1>2, <1>4, PTL DEF Spec
  <1>6. QED
    BY <1>5 DEF NoReplayOfEndedRun, Kind

-----------------------------------------------------------------------------
(* A paused task, in a single process *)

\* The one process of the default deployment, with a store that answers.
OneProcess == \A p, q \in Procs : p = q
Simple == OneProcess /\ ~DbFailures

QuietTask(t) ==
  \A s \in Slots : TaskOf(s[1]) = t => run[s] # "running" /\ disp[s].pc # "launch"
Asked(t) == \E p \in Procs : request[p].kind \in {"pausing", "deleting"} /\ request[p].task = t
Paused(t) == task[t].state = "live" /\ ~task[t].enabled
PauseHolds == \A t \in Tasks \ OnceTasks : Paused(t) => Asked(t) \/ QuietTask(t)

\* A task is paused by users and, if it has no schedule or runs once, by the poll.
LEMMA PausedBy ==
  ASSUME EInv, [Next]_vars, NEW t \in Tasks \ OnceTasks, Paused(t)'
  PROVE  Paused(t) \/ Asked(t)' \/ t \in BadTasks
  <1>1. task \in [Tasks -> TaskRecord] /\ request \in [Procs -> Requests]
    BY DEF EInv, DInv, IInv, TypeOK
  <1>2. ASSUME task'[t] = task[t]
        PROVE  Paused(t)
    BY <1>2 DEF Paused
  <1>3. ASSUME NEW p \in Procs, Polls(p)
        PROVE  Paused(t) \/ t \in BadTasks
    <2>1. CASE TickClaim(p) \/ ClaimLost(p)
      <3>1. PICK S : ClaimDueTasks(loop[p].capacity, S)
        BY <2>1 DEF TickClaim, ClaimLost
      <3>2. PICK D \in DueBatches(loop[p].capacity) : task' = Advanced(D)
        BY <3>1 DEF ClaimDueTasks
      <3>3. CASE t \notin D \/ t \in BadTasks
        BY <1>2, <3>2, <3>3 DEF Advanced, Paused
      <3>4. CASE t \in D /\ t \notin BadTasks
        <4> DEFINE rec == [task[t] EXCEPT !.next = "future"]
        <4>1. rec.enabled = task[t].enabled /\ rec.state = task[t].state
          BY <1>1 DEF TaskRecord
        <4>2. task'[t] = rec
          BY <3>2, <3>4 DEF Advanced
        <4> HIDE DEF rec
        <4>3. QED
          BY <4>1, <4>2 DEF Paused
      <3>5. QED
        BY <3>3, <3>4
    <2>2. CASE ~(TickClaim(p) \/ ClaimLost(p))
      <3>1. UNCHANGED task
        BY <1>3, <2>2 DEF Polls, TickCleanup, TickReconcile, TickDispatch, TickFails
      <3>2. QED
        BY <1>2, <3>1
    <2>3. QED
      BY <2>1, <2>2
  <1>4. ASSUME NEW p \in Procs, Administers(p)
        PROVE  Paused(t) \/ Asked(t)'
    <2>1. ASSUME NEW u \in Tasks, NEW kind \in {"pausing", "deleting"}, PauseTask(p, u, kind)
          PROVE  Paused(t) \/ Asked(t)'
      <3>1. CASE t = u
        <4>1. request'[p].kind = kind /\ request'[p].task = t
          BY <1>1, <2>1, <3>1 DEF PauseTask
        <4>2. QED
          BY <4>1 DEF Asked
      <3>2. CASE t # u
        <4>1. task' = [task EXCEPT ![u].enabled = FALSE]
          BY <2>1 DEF PauseTask
        <4>2. task'[t] = task[t]
          BY <1>1, <3>2, <4>1
        <4>3. QED
          BY <1>2, <4>2
      <3>3. QED
        BY <3>1, <3>2
    <2>2. CASE CancelActiveTaskWork(p)
      BY <1>2, <2>2 DEF CancelActiveTaskWork
    <2>3. CASE DeleteTask(p)
      <3>1. task' = [task EXCEPT ![request[p].task] =
                       [state |-> "deleted", enabled |-> FALSE, next |-> "none"]]
        BY <2>3 DEF DeleteTask
      <3>2. task'[t] = task[t] \/ task'[t].state = "deleted"
        BY <1>1, <3>1
      <3>3. QED
        BY <1>2, <3>2 DEF Paused
    <2>4. QED
      BY <1>4, <2>1, <2>2, <2>3 DEF Administers
  <1>5. ASSUME NEW p \in Procs, LivesAndDies(p)
        PROVE  UNCHANGED task
    BY <1>5 DEF LivesAndDies, Start, Stop, StopCancels, Stopped, Crash
  <1>6. ASSUME NEW s \in Slots, Dispatches(s) \/ Executes(s)
        PROVE  UNCHANGED task
    BY <1>6 DEF Dispatches, StartDispatch, Launch, LaunchRefused, MarkLaunched, AwaitRun,
       AwaitDelivery, Finish, Reschedule, Unwind, Requeue, StoreFails, Reconcile, Settle,
       Heartbeat, HeartbeatFails, Executes, RunEnds, RunCancelled, UserCancelsRun
  <1>7. CASE UNCHANGED vars \/ \E w \in late : LateWrite(w)
    BY <1>2, <1>7 DEF vars, LateWrite
  <1>8. CASE TimePasses
    BY <1>1, <1>8 DEF TimePasses, TaskDue, RetryDelayElapses, LeaseExpires,
       OrphanGraceElapses, Paused, TaskRecord
  <1>9. ASSUME NEW u \in Tasks, CreateTask(u) \/ EnableTask(u)
        PROVE  Paused(t)
    <2> DEFINE on == [task[u] EXCEPT !.enabled = TRUE, !.next = "future"]
               new == [state |-> "live", enabled |-> TRUE, next |-> "future"]
    <2>1. on.enabled = TRUE /\ new.enabled = TRUE
      BY <1>1 DEF TaskRecord
    <2>2. \/ task' = [task EXCEPT ![u] = on]
          \/ task' = [task EXCEPT ![u] = new]
      BY <1>9 DEF CreateTask, EnableTask
    <2> HIDE DEF on, new
    <2>3. CASE u # t
      BY <1>1, <1>2, <2>2, <2>3
    <2>4. CASE u = t
      BY <1>1, <2>1, <2>2, <2>4 DEF Paused
    <2>5. QED
      BY <2>3, <2>4
  <1>10. QED
    BY <1>2, <1>3, <1>4, <1>5, <1>6, <1>7, <1>8, <1>9, Steps

\* A quiet task stays quiet while it is paused.
LEMMA QuietStays ==
  ASSUME EInv, [Next]_vars, NEW t \in Tasks \ OnceTasks, QuietTask(t), Paused(t)'
  PROVE  QuietTask(t)'
  <1> SUFFICES ASSUME NEW s \in Slots, TaskOf(s[1]) = t
               PROVE  run'[s] # "running" /\ disp'[s].pc # "launch"
    BY DEF QuietTask
  <1>1. run[s] # "running" /\ disp[s].pc # "launch" /\ DispMove(s)
    BY DispMoves DEF QuietTask
  <1>2. CASE StartOwned(s[1], s[2]) /\ UNCHANGED task
    BY <1>2 DEF StartOwned, MayRun, Paused
  <1>3. QED
    BY <1>1, <1>2 DEF DispMove

\* A task is quiet when what was asked has been done, or its process is gone.
LEMMA AskedUntilQuiet ==
  ASSUME EInv, Simple, [Next]_vars, NEW t \in Tasks, Asked(t)
  PROVE  Asked(t)' \/ QuietTask(t)'
  <1>1. PICK p \in Procs : request[p].kind \in {"pausing", "deleting"} /\ request[p].task = t
    BY DEF Asked
  <1>2. ASSUME NEW s \in Slots, run[s] = "running" \/ disp[s].pc = "launch"
        PROVE  /\ disp[s].proc = p /\ s \in ActiveDispatches(p)
               /\ run[s] = "running" => disp[s].pc \in LaunchedPcs
    <2>1. /\ run[s] = "running" => disp[s].pc \in {"mark", "await"}
          /\ disp[s].pc # "none" => disp[s].proc \in Procs
      BY DEF EInv, DInv, Paced, PaceOf, Simple
    <2>2. disp[s].proc = p
      BY <1>2, <2>1 DEF Simple, OneProcess
    <2>3. QED
      BY <1>2, <2>1, <2>2 DEF ActiveDispatches, LaunchedPcs
  <1>3. CASE UNCHANGED request
    BY <1>1, <1>3 DEF Asked
  <1>4. ASSUME NEW q \in Procs, CancelActiveTaskWork(q)
        PROVE  QuietTask(t)'
    <2>1. q = p
      BY DEF Simple, OneProcess
    <2> DEFINE X == {s \in ActiveDispatches(p) : TaskOf(s[1]) = t}
               C == {s \in request[p].runs : disp[s].proc = p}
    <2>2. CancelDispatches(X, C)
      BY <1>1, <1>4, <2>1 DEF CancelActiveTaskWork
    <2> SUFFICES ASSUME NEW s \in Slots, TaskOf(s[1]) = t
                 PROVE  run'[s] # "running" /\ disp'[s].pc # "launch"
      BY DEF QuietTask
    <2>3. /\ s \in X => /\ disp'[s].pc # "launch"
                        /\ disp[s].pc \in LaunchedPcs => run'[s] # "running"
          /\ s \notin X => disp'[s] = disp[s]
          /\ run[s] # "running" => run'[s] # "running"
      <3>1. X \in SUBSET ActiveDispatches(p)
        OBVIOUS
      <3> HIDE DEF X, C
      <3>2. QED
        BY <2>2, <3>1, CancelledMove
    <2>4. QED
      BY <1>2, <2>3
  <1>5. ASSUME NEW q \in Procs, Administers(q), ~CancelActiveTaskWork(q)
        PROVE  FALSE
    <2>1. q = p
      BY DEF Simple, OneProcess
    <2>2. QED
      BY <1>1, <1>5, <2>1 DEF Administers, PauseTask, DeleteTask, NoRequest
  <1>6. ASSUME NEW q \in Procs, Crash(q)
        PROVE  QuietTask(t)'
    <2>1. q = p
      BY DEF Simple, OneProcess
    <2> SUFFICES ASSUME NEW s \in Slots, TaskOf(s[1]) = t
                 PROVE  run'[s] # "running" /\ disp'[s].pc # "launch"
      BY DEF QuietTask
    <2> DEFINE rec == [disp[s] EXCEPT !.pc = "done", !.hb = "off"]
    <2>2. rec.pc = "done"
      BY DEF EInv, DInv, IInv, TypeOK, DispRecord
    <2>3. disp'[s] = IF s \in ActiveDispatches(p) THEN rec ELSE disp[s]
      BY <1>6, <2>1 DEF Crash
    <2>4. run'[s] = IF disp[s].proc = p /\ run[s] \in LiveRuns THEN "lost" ELSE run[s]
      BY <1>6, <2>1 DEF Crash, RunsLost
    <2> HIDE DEF rec
    <2>5. disp'[s].pc # "launch"
      BY <1>2, <2>2, <2>3
    <2>6. run'[s] # "running"
      BY <1>2, <2>4 DEF LiveRuns
    <2>7. QED
      BY <2>5, <2>6
  <1>7. ASSUME NEW q \in Procs, LivesAndDies(q), ~Crash(q)
        PROVE  UNCHANGED request
    BY <1>7 DEF LivesAndDies, Start, Stop, StopCancels, Stopped
  <1>8. ASSUME NEW q \in Procs, Polls(q)
        PROVE  UNCHANGED request
    BY <1>8 DEF Polls, TickCleanup, TickReconcile, TickClaim, TickDispatch, TickFails, ClaimLost
  <1>9. ASSUME NEW s \in Slots, Dispatches(s) \/ Executes(s)
        PROVE  UNCHANGED request
    BY <1>9 DEF Dispatches, StartDispatch, Launch, LaunchRefused, MarkLaunched, AwaitRun,
       AwaitDelivery, Finish, Reschedule, Unwind, Requeue, StoreFails, Reconcile, Settle,
       Heartbeat, HeartbeatFails, Executes, RunEnds, RunCancelled, UserCancelsRun
  <1>10. CASE TimePasses \/ UNCHANGED vars \/ \E u \in Tasks : CreateTask(u) \/ EnableTask(u)
    BY <1>3, <1>10 DEF TimePasses, TaskDue, RetryDelayElapses, LeaseExpires,
       OrphanGraceElapses, vars, CreateTask, EnableTask
  <1>11. CASE \E w \in late : LateWrite(w)
    BY <1>3, <1>11 DEF LateWrite
  <1>12. QED
    BY <1>3, <1>4, <1>5, <1>6, <1>7, <1>8, <1>9, <1>10, <1>11, Steps

LEMMA PauseStep ==
  ASSUME Simple, EInv, PauseHolds, [Next]_vars
  PROVE  PauseHolds'
  <1> SUFFICES ASSUME NEW t \in Tasks \ OnceTasks, Paused(t)'
               PROVE  Asked(t)' \/ QuietTask(t)'
    BY DEF PauseHolds
  <1>1. CASE Asked(t)
    BY <1>1, AskedUntilQuiet
  <1>2. CASE t \in BadTasks
    <2>1. QuietTask(t)
      BY <1>2 DEF QuietTask, EInv, DInv, BadIdle, Tried
    <2>2. QED
      BY <2>1, QuietStays
  <1>3. CASE Paused(t) /\ ~Asked(t)
    BY <1>3, QuietStays DEF PauseHolds
  <1>4. QED
    BY <1>1, <1>2, <1>3, PausedBy

\* Once a pause has returned, no managed run of the paused task goes on, and none
\* starts before it is resumed, in the single-process deployment and while the store
\* answers: polls, cancellations, late writes, stops and crashes notwithstanding.
THEOREM PauseIsQuiet == ASSUME Simple PROVE Spec => []PausedTaskIsQuiet
  <1>1. Init => EInv /\ PauseHolds
    <2>1. Init => \A s \in Slots : run[s] # "running" /\ disp[s].pc # "launch"
      BY DEF Init
    <2>2. QED
      BY <2>1, EInvInit DEF PauseHolds, QuietTask
  <1>2. EInv /\ PauseHolds /\ [Next]_vars => (EInv /\ PauseHolds)'
    BY EInvStep, PauseStep
  <1>3. EInv /\ PauseHolds => PausedTaskIsQuiet
    BY DEF PausedTaskIsQuiet, PauseHolds, Paused, Asked, QuietTask, NoRequest
  <1>4. QED
    BY <1>1, <1>2, <1>3, PTL DEF Spec

-----------------------------------------------------------------------------
(* One run per thread *)

\* Heartbeats in time, a store that answers and nobody who pauses; processes crash,
\* stop and restart, runs are cancelled by users and by runs that interrupt.
Steady == Timely /\ ~DbFailures /\ ~Pauses

\* A process has the attempt in hand.
At(s) == disp[s].pc \notin {"none", "done"} \/ \E p \in Procs : s \in loop[p].batch
OwnsRow(s) == Owns(s[1], s[2])

\* No two rows hold one thread.
Exclusive ==
  \A q, r \in Rows : Holds(row[q]) /\ Holds(row[r]) /\ ThreadOfRow(q) = ThreadOfRow(r) => q = r

\* A run that is alive has a dispatch that has yet to give its row back, and that can
\* be late only with the fence; a dispatch unwinds in a process that is ending.
Alive(s) ==
  /\ run[s] \in LiveRuns => /\ disp[s].pc \in {"mark", "await", "unwind"}
                            /\ \A op \in LateOps : <<op, s>> \in late => op = "launched"
  /\ disp[s].pc = "unwind" => proc[disp[s].proc] = "ending"

\* An attempt in hand that owns its row has a live lease; one that may have a run owns
\* its row; a heartbeat ends only with the row; a late write belongs to a process that
\* is ending, and a late fence to a dispatch that has yet to give the row back.
InHand(s) ==
  /\ At(s) /\ OwnsRow(s) => row[s[1]].lease = "live"
  /\ disp[s].pc \in {"launch", "mark", "await"} \/ run[s] \in LiveRuns => OwnsRow(s)
  /\ disp[s].hb = "dead" => ~OwnsRow(s)
  /\ \A op \in LateOps : <<op, s>> \in late => proc[disp[s].proc] = "ending"
  /\ <<"launched", s>> \in late => disp[s].pc \in {"unwind", "requeue"} \/ ~OwnsRow(s)

SoleInv == EInv /\ Exclusive /\ \A s \in Slots : Alive(s) /\ InHand(s)

\* An attempt that lost its row does not get it back.
LEMMA LostForGood ==
  ASSUME EInv, [Next]_vars, NEW s \in Slots, Tried(s), OwnsRow(s)'
  PROVE  OwnsRow(s)
  <1>1. s[1] \in Rows /\ s[2] \in Attempts
    BY SlotParts
  <1>2. /\ row[s[1]] \in RowRecord /\ row'[s[1]] \in RowRecord
        /\ RowStep(row[s[1]], row'[s[1]])
    BY <1>1, NextStep DEF EInv, DInv, IInv, TypeOK, Good, RowsStep
  <1>3. row'[s[1]].attempt = s[2] /\ row'[s[1]].status \in Owned
    BY DEF OwnsRow, Owns
  <1>4. row'[s[1]].status # "gone" /\ row[s[1]].status # "gone"
    BY <1>2, <1>3, RowStepFacts DEF Owned, Leased
  <1>5. s[2] <= row[s[1]].attempt /\ row[s[1]].attempt <= row'[s[1]].attempt
    BY <1>2, <1>4, RowStepFacts DEF EInv, DInv, Numbered
  <1>6. row'[s[1]].attempt = row[s[1]].attempt
    <2>1. row[s[1]].attempt \in Nat /\ row'[s[1]].attempt \in Nat /\ s[2] \in Nat
      BY <1>1, <1>2, RowRecordFields, SchedulerAssumption DEF Attempts
    <2>2. QED
      BY <1>3, <1>5, <2>1
  <1>7. QED
    BY <1>2, <1>3, <1>6, RowStepFacts DEF OwnsRow, Owns

LEMMA AtTried ==
  ASSUME NEW s \in Slots, At(s)
  PROVE  Tried(s)
  BY DEF At, Tried

\* What writes the row of s while s owns it is s.
LEMMA OwnerWrites ==
  ASSUME EInv, NEW s \in Slots, OwnsRow(s), NEW q \in Slots, q[1] = s[1], Writes(q)
  PROVE  q = s
  BY SlotParts DEF OwnsRow, Owns, Writes

\* An attempt comes into the hands of a process only by a claim.
LEMMA AtFrom ==
  ASSUME EInv, [Next]_vars, NEW s \in Slots, At(s)'
  PROVE  At(s) \/ Taken(s[1])
  <1>1. disp[s].pc = "done" => disp'[s].pc = "done"
    BY DispMoves DEF DispMove
  <1>2. CASE Frame
    BY <1>1, <1>2 DEF Frame, At
  <1>3. ASSUME NEW p \in Procs, TickDispatch(p)
        PROVE  At(s)
    <2>1. \A q \in Procs : loop'[q].batch \subseteq loop[q].batch
      BY <1>3 DEF TickDispatch, Idle, EInv, DInv, IInv, TypeOK
    <2>2. disp'[s] = disp[s] \/ s \in loop[p].batch
      BY <1>3 DEF TickDispatch
    <2>3. QED
      BY <2>1, <2>2 DEF At
  <1>4. ASSUME NEW p \in Procs, TickClaim(p) \/ ClaimLost(p)
        PROVE  At(s) \/ Taken(s[1])
    <2>1. PICK S \in SUBSET Rows :
            /\ ClaimDueTasks(loop[p].capacity, S)
            /\ \/ loop' = [loop EXCEPT ![p] =
                             [at |-> "dispatch", capacity |-> 0,
                              batch |-> {<<r, row'[r].attempt>> : r \in S}]]
               \/ loop' = [loop EXCEPT ![p] = Idle("off")]
      BY <1>4 DEF TickClaim, ClaimLost
    <2>2. \A r \in S : Taken(r)
      BY <2>1, ClaimStep DEF EInv, DInv
    <2> DEFINE New == {<<r, row'[r].attempt>> : r \in S}
    <2>3. \A x \in New : x[1] \in S
      OBVIOUS
    <2>4. \A q \in Procs : loop'[q].batch \subseteq loop[q].batch \cup New
      BY <2>1 DEF Idle, EInv, DInv, IInv, TypeOK
    <2>5. UNCHANGED disp
      BY <1>4 DEF TickClaim, ClaimLost
    <2> HIDE DEF New
    <2>6. QED
      BY <2>2, <2>3, <2>4, <2>5 DEF At
  <1>5. ASSUME NEW p \in Procs, TickCleanup(p) \/ TickReconcile(p) \/ TickFails(p)
        PROVE  At(s)
    <2>1. UNCHANGED disp
      BY <1>5 DEF TickCleanup, TickReconcile, TickFails
    <2>2. \A q \in Procs : loop'[q].batch \subseteq loop[q].batch
      BY <1>5 DEF TickCleanup, TickReconcile, TickFails, Idle, EInv, DInv, IInv, TypeOK
    <2>3. QED
      BY <2>1, <2>2 DEF At
  <1>6. CASE \A p \in Procs : ~Polls(p)
    BY <1>2, <1>6, CalmSteps DEF Calm, EInv
  <1>7. QED
    BY <1>3, <1>4, <1>5, <1>6 DEF Polls

\* The lease of an attempt in hand does not run out.
LEMMA LeaseKept ==
  ASSUME SoleInv, Steady, [Next]_vars, NEW s \in Slots, At(s)', OwnsRow(s)'
  PROVE  row'[s[1]].lease = "live"
  <1> DEFINE r == s[1]
  <1>1. r \in Rows /\ TypeOK
    BY SlotParts DEF SoleInv, EInv, DInv, IInv
  <1>2. CASE Taken(r)
    BY <1>2 DEF Taken
  <1>3. CASE At(s) /\ ~Taken(r)
    <2>1. OwnsRow(s)
      BY <1>3, AtTried, LostForGood DEF SoleInv
    <2>2. row[r].lease = "live" /\ disp[s].hb # "dead"
      BY <1>3, <2>1 DEF SoleInv, InHand
    <2>3. SlotOf(r) = s /\ row[r].attempt > 0
      BY <1>1, <2>1, SlotOfOwned DEF OwnsRow
    <2>4. Tended(r)
      BY <1>3, <2>2, <2>3 DEF At, Tended
    <2>5. row'[r].status \in Owned /\ row[r].status \in Owned
      BY <2>1 DEF OwnsRow, Owns
    <2>6. RowMove(r)
      BY <1>1, RowMoves DEF SoleInv
    <2>7. CASE row'[r] = row[r] \/ Rests(r)
      BY <2>2, <2>7 DEF Rests
    <2>8. CASE Expires(r)
      BY <2>4, <2>8 DEF Expires, Steady
    <2>9. CASE Pends(r) \/ Claims(r) \/ Drops(r)
      BY <1>3, <2>5, <2>9 DEF Pends, Claims, Drops, Owned, Leased
    <2>10. ASSUME NEW q \in Slots, q[1] = r, Writes(q)
           PROVE  row'[r].lease = "live"
      BY <2>2, <2>5, <2>10 DEF Writes, Starts, Fences, Renews, GivesBack, Ends, Owned, Leased
    <2>11. QED
      BY <2>6, <2>7, <2>8, <2>9, <2>10 DEF RowMove
  <1>4. QED
    BY <1>2, <1>3, AtFrom DEF SoleInv

\* A run comes alive with its launch, and its dispatch stays with it.
AliveMove(s) ==
  /\ Alive(s)'
  /\ run'[s] \in LiveRuns => run[s] \in LiveRuns \/ disp[s].pc = "launch"

LEMMA StoppingAlive ==
  ASSUME SoleInv, Steady, NEW p \in Procs, StopCancels(p), NEW s \in Slots
  PROVE  AliveMove(s)
  <1> DEFINE X == ActiveDispatches(p)
  <1>1. /\ proc[p] = "draining" /\ CancelDispatches(X, {}) /\ X \in SUBSET Slots
        /\ proc' = [proc EXCEPT ![p] = "ending"] /\ TypeOK /\ EInv
    BY DEF StopCancels, SoleInv, EInv, DInv, IInv, ActiveDispatches
  <1>2. /\ s \notin X => disp'[s] = disp[s]
        /\ s \in X => /\ disp'[s].proc = disp[s].proc
                      /\ disp'[s].pc \in {AfterCancel(s), "done"}
                      /\ disp'[s].pc # AfterCancel(s) => disp[s].pc = "start"
        /\ run'[s] \in LiveRuns => run[s] \in LiveRuns
        /\ \A op : <<op, s>> \in late' =>
             <<op, s>> \in late \/ (s \in X /\ op = WriteOf(s) /\ op # "nothing")
    BY <1>1, Cancelled DEF LiveRuns
  <1>3. Alive(s)
    BY DEF SoleInv
  <1>4. CASE s \in X
    <2>1. disp[s].proc = p /\ disp[s].pc # "unwind"
      BY <1>1, <1>3, <1>4 DEF ActiveDispatches, Alive
    <2>2. proc'[disp'[s].proc] = "ending"
      BY <1>1, <1>2, <1>4, <2>1 DEF TypeOK
    <2>3. ASSUME run[s] \in LiveRuns
          PROVE  /\ disp'[s].pc \in {"await", "unwind"}
                 /\ \A op \in LateOps : <<op, s>> \in late' => op = "launched"
      <3>1. disp[s].pc \in {"mark", "await"}
        BY <1>3, <2>1, <2>3 DEF Alive
      <3>2. AfterCancel(s) = IF disp[s].pc = "mark" THEN "unwind" ELSE "await"
        <4>1. CASE disp[s].pc = "mark"
          BY <4>1 DEF AfterCancel, LaunchedPcs
        <4>2. CASE disp[s].pc = "await"
          BY <2>3, <4>2 DEF AfterCancel
        <4>3. QED
          BY <3>1, <4>1, <4>2
      <3>3. WriteOf(s) = IF disp[s].pc = "mark" THEN "launched" ELSE "nothing"
        BY <3>1 DEF WriteOf
      <3>4. \A op \in LateOps : <<op, s>> \notin late
        BY <1>1, <3>1 DEF EInv, DInv, LateOnly, LatenessOf
      <3>5. QED
        BY <1>2, <1>4, <3>1, <3>2, <3>3, <3>4
    <2>4. QED
      BY <1>2, <2>2, <2>3 DEF AliveMove, Alive
  <1>5. CASE s \notin X
    <2>1. disp[s].pc = "unwind" => disp[s].proc # p
      BY <1>1, <1>3 DEF Alive
    <2>2. disp[s].pc = "unwind" => proc'[disp[s].proc] = "ending"
      BY <1>1, <1>3, <2>1 DEF Alive, TypeOK
    <2>3. QED
      BY <1>2, <1>3, <1>5, <2>2 DEF AliveMove, Alive
  <1>6. QED
    BY <1>4, <1>5

LEMMA DispatchAlive ==
  ASSUME SoleInv, Steady, NEW s \in Slots, Dispatches(s)
  PROVE  AliveMove(s)
  <1>1. UNCHANGED <<late, proc>>
    BY DEF Dispatches, StartDispatch, Launch, LaunchRefused, MarkLaunched, AwaitRun,
       AwaitDelivery, Finish, Reschedule, Unwind, Requeue, StoreFails, Reconcile, Settle,
       Heartbeat, HeartbeatFails
  <1>2. Alive(s) /\ TypeOK /\ disp[s] \in DispRecord
    BY DEF SoleInv, EInv, DInv, IInv, TypeOK
  <1>3. CASE Launch(s)
    <2>1. disp[s].pc = "launch" /\ disp'[s].pc = "mark"
      BY <1>2, <1>3, GotoFields DEF Launch
    <2>2. \A op \in LateOps : <<op, s>> \notin late
      BY <2>1 DEF SoleInv, EInv, DInv, LateOnly, LatenessOf
    <2>3. QED
      BY <1>1, <2>1, <2>2 DEF AliveMove, Alive
  <1>4. CASE MarkLaunched(s)
    <2>1. disp[s].pc = "mark" /\ disp'[s].pc = "await" /\ UNCHANGED run
      BY <1>2, <1>4, GotoFields DEF MarkLaunched
    <2>2. QED
      BY <1>1, <1>2, <2>1 DEF AliveMove, Alive
  <1>5. CASE Heartbeat(s) \/ HeartbeatFails(s)
    <2>1. disp'[s].pc = disp[s].pc /\ disp'[s].proc = disp[s].proc /\ UNCHANGED run
      BY <1>2, <1>5 DEF Heartbeat, HeartbeatFails, TypeOK, DispRecord
    <2>2. QED
      BY <1>1, <1>2, <2>1 DEF AliveMove, Alive
  <1>6. CASE ~Launch(s) /\ ~MarkLaunched(s) /\ ~Heartbeat(s) /\ ~HeartbeatFails(s)
    <2>1. run[s] \notin LiveRuns /\ UNCHANGED run
      <3>1. UNCHANGED run
        BY <1>6 DEF Dispatches, StartDispatch, LaunchRefused, AwaitRun, AwaitDelivery, Finish,
           Reschedule, Unwind, Requeue, StoreFails, Reconcile, Settle
      <3>2. disp[s].pc \in {"mark", "await", "unwind"} => run[s] \notin LiveRuns
        BY <1>6 DEF Dispatches, StartDispatch, LaunchRefused, AwaitRun, AwaitDelivery, Finish,
           Reschedule, Unwind, Requeue, StoreFails, Reconcile, Settle, Steady
      <3>3. QED
        BY <1>2, <3>1, <3>2 DEF Alive
    <2>2. disp'[s].pc # "unwind"
      <3>1. CASE StartDispatch(s)
        BY <1>2, <3>1 DEF StartDispatch, TypeOK, DispRecord
      <3>2. Decision(s) # "unwind"
        BY DEF Decision
      <3>3. CASE ~StartDispatch(s)
        <4>1. PICK pc \in {"deliver", "resched", "reconcile", "settle", "requeue", "done",
                           Decision(s)} : Goto(s, pc)
          BY <1>6, <3>3 DEF Dispatches, LaunchRefused, AwaitRun, AwaitDelivery, Finish,
             Reschedule, Unwind, Requeue, StoreFails, Reconcile, Settle
        <4>2. QED
          BY <1>2, <3>2, <4>1, GotoFields
      <3>4. QED
        BY <3>1, <3>3
    <2>3. QED
      BY <2>1, <2>2 DEF AliveMove, Alive
  <1>7. QED
    BY <1>3, <1>4, <1>5, <1>6

LEMMA AliveMoves ==
  ASSUME SoleInv, Steady, [Next]_vars, NEW s \in Slots
  PROVE  AliveMove(s)
  <1>1. TypeOK /\ Alive(s) /\ EInv
    BY DEF SoleInv, EInv, DInv, IInv
  <1>2. ASSUME late' \subseteq late,
               \A q \in Procs : proc[q] = "ending" => proc'[q] = "ending",
               disp'[s] = disp[s], run'[s] \in LiveRuns => run[s] \in LiveRuns
        PROVE  AliveMove(s)
    <2>1. disp[s].pc = "unwind" => disp[s].proc \in Procs
      BY <1>1 DEF EInv, DInv, Paced, PaceOf
    <2>2. QED
      BY <1>1, <1>2, <2>1 DEF AliveMove, Alive
  <1>3. CASE UNCHANGED <<late, proc, disp, run>>
    BY <1>2, <1>3
  <1>4. ASSUME NEW q \in Slots, Dispatches(q)
        PROVE  AliveMove(s)
    <2>1. UNCHANGED <<late, proc>>
      BY <1>4 DEF Dispatches, StartDispatch, Launch, LaunchRefused, MarkLaunched, AwaitRun,
         AwaitDelivery, Finish, Reschedule, Unwind, Requeue, StoreFails, Reconcile, Settle,
         Heartbeat, HeartbeatFails
    <2>2. CASE q # s
      BY <1>1, <1>2, <1>4, <2>1, <2>2, OtherStands DEF LiveRuns
    <2>3. QED
      BY <1>4, <2>2, DispatchAlive
  <1>5. ASSUME NEW q \in Slots, Executes(q)
        PROVE  AliveMove(s)
    <2>1. UNCHANGED <<late, proc, disp>>
      BY <1>5 DEF Executes, RunEnds, RunCancelled, UserCancelsRun
    <2>2. run'[s] \in LiveRuns => run[s] \in LiveRuns
      BY <1>1, <1>5 DEF Executes, RunEnds, RunCancelled, UserCancelsRun, TypeOK, LiveRuns
    <2>3. QED
      BY <1>2, <2>1, <2>2
  <1>6. ASSUME NEW p \in Procs, Polls(p)
        PROVE  AliveMove(s)
    <2>1. CASE TickDispatch(p) /\ s \in loop[p].batch
      <3>1. disp[s].pc = "none" /\ disp'[s].pc = "start" /\ UNCHANGED run
        BY <1>1, <2>1 DEF TickDispatch, EInv, DInv, Batched
      <3>2. run[s] = "none"
        BY <1>1, <3>1 DEF EInv, DInv, Paced, PaceOf
      <3>3. QED
        BY <3>1, <3>2 DEF AliveMove, Alive, LiveRuns
    <2>2. CASE TickDispatch(p) /\ s \notin loop[p].batch
      BY <1>2, <2>2 DEF TickDispatch
    <2>3. CASE ~TickDispatch(p)
      BY <1>3, <1>6, <2>3 DEF Polls, TickCleanup, TickReconcile, TickClaim, TickFails, ClaimLost
    <2>4. QED
      BY <2>1, <2>2, <2>3
  <1>7. ASSUME NEW p \in Procs, Administers(p)
        PROVE  FALSE
    BY <1>1, <1>7 DEF Administers, PauseTask, CancelActiveTaskWork, DeleteTask, Steady, EInv,
       Unasked, NoRequest
  <1>8. ASSUME NEW p \in Procs, LivesAndDies(p)
        PROVE  AliveMove(s)
    <2>1. CASE StopCancels(p)
      BY <2>1, StoppingAlive
    <2>2. CASE Start(p) \/ Stop(p)
      <3>1. UNCHANGED <<late, disp, run>>
        BY <2>2 DEF Start, Stop
      <3>2. \A q \in Procs : proc[q] = "ending" => proc'[q] = "ending"
        BY <1>1, <2>2 DEF Start, Stop, TypeOK
      <3>3. QED
        BY <1>2, <3>1, <3>2
    <2>3. CASE Stopped(p) \/ Crash(p)
      <3>1. /\ proc' = [proc EXCEPT ![p] = "down"] /\ late' \subseteq late
            /\ run'[s] = IF disp[s].proc = p /\ run[s] \in LiveRuns THEN "lost" ELSE run[s]
        BY <2>3 DEF Stopped, Crash, RunsLost
      <3>2. CASE disp[s].proc = p
        <4>1. run'[s] \notin LiveRuns
          BY <3>1, <3>2 DEF LiveRuns
        <4>2. disp'[s].pc # "unwind"
          <5> DEFINE rec == [disp[s] EXCEPT !.pc = "done", !.hb = "off"]
          <5>1. rec.pc = "done"
            BY <1>1 DEF TypeOK, DispRecord
          <5>2. s \in ActiveDispatches(p) \/ disp[s].pc \in {"none", "done"}
            BY <3>2 DEF ActiveDispatches
          <5>3. /\ Crash(p) => disp'[s] = IF s \in ActiveDispatches(p) THEN rec ELSE disp[s]
                /\ Stopped(p) => disp'[s] = disp[s] /\ s \notin ActiveDispatches(p)
            BY DEF Crash, Stopped
          <5> HIDE DEF rec
          <5>4. QED
            BY <2>3, <5>1, <5>2, <5>3
        <4>3. QED
          BY <4>1, <4>2 DEF AliveMove, Alive
      <3>3. CASE disp[s].proc # p
        <4>1. disp'[s] = disp[s] /\ run'[s] = run[s]
          BY <2>3, <3>1, <3>3 DEF Stopped, Crash, ActiveDispatches
        <4>2. disp[s].pc = "unwind" => proc'[disp[s].proc] = "ending"
          <5>1. disp[s].pc = "unwind" => disp[s].proc \in Procs
            BY <1>1 DEF EInv, DInv, Paced, PaceOf
          <5>2. QED
            BY <1>1, <3>1, <3>3, <5>1 DEF Alive, TypeOK
        <4>3. QED
          BY <1>1, <3>1, <4>1, <4>2 DEF AliveMove, Alive
      <3>4. QED
        BY <3>2, <3>3
    <2>4. QED
      BY <1>8, <2>1, <2>2, <2>3 DEF LivesAndDies
  <1>9. CASE TimePasses \/ UNCHANGED vars \/ \E u \in Tasks : CreateTask(u) \/ EnableTask(u)
    BY <1>3, <1>9 DEF TimePasses, TaskDue, RetryDelayElapses, LeaseExpires,
       OrphanGraceElapses, vars, CreateTask, EnableTask
  <1>10. ASSUME NEW w \in late, LateWrite(w)
         PROVE  AliveMove(s)
    <2>1. UNCHANGED <<disp, proc, run>> /\ late' \subseteq late
      BY <1>10 DEF LateWrite
    <2>2. QED
      BY <1>2, <2>1
  <1>11. QED
    BY <1>4, <1>5, <1>6, <1>7, <1>8, <1>9, <1>10, Steps

\* An attempt that may have a run keeps its row.
LEMMA RowKept ==
  ASSUME SoleInv, Steady, [Next]_vars, NEW s \in Slots,
         disp'[s].pc \in {"launch", "mark", "await"} \/ run'[s] \in LiveRuns
  PROVE  OwnsRow(s)'
  <1> DEFINE r == s[1]
  <1>1. r \in Rows /\ TypeOK /\ EInv /\ Alive(s) /\ InHand(s)
    BY SlotParts DEF SoleInv, EInv, DInv, IInv
  <1>2. /\ disp[s].pc \in {"start", "launch", "mark", "await", "unwind"} /\ OwnsRow(s)
        /\ \A op \in LateOps : <<op, s>> \in late => op = "launched"
    <2>1. CASE disp'[s].pc \in {"launch", "mark", "await"}
      <3>1. \/ disp[s].pc \in {"launch", "mark", "await"}
            \/ disp[s].pc = "start" /\ StartOwned(s[1], s[2])
        BY <1>1, <2>1, DispMoves DEF DispMove
      <3>2. OwnsRow(s)
        BY <1>1, <3>1 DEF StartOwned, OwnsRow, Owns, Owned, InHand
      <3>3. \A op \in LateOps : <<op, s>> \notin late
        BY <1>1, <3>1 DEF EInv, DInv, LateOnly, LatenessOf
      <3>4. QED
        BY <3>1, <3>2, <3>3
    <2>2. CASE run'[s] \in LiveRuns
      <3>1. run[s] \in LiveRuns \/ disp[s].pc = "launch"
        BY <2>2, AliveMoves DEF AliveMove
      <3>2. disp[s].pc = "launch" => \A op \in LateOps : <<op, s>> \notin late
        BY <1>1 DEF EInv, DInv, LateOnly, LatenessOf
      <3>3. QED
        BY <1>1, <3>1, <3>2 DEF Alive, InHand
    <2>3. QED
      BY <2>1, <2>2
  <1>3. row[r].lease = "live" /\ row[r].status \in Owned /\ row[r].attempt = s[2]
    BY <1>1, <1>2 DEF InHand, At, OwnsRow, Owns
  <1>5. RowMove(r)
    BY <1>1, RowMoves
  <1>6. Holds(row[r]) /\ row[r].status # "absent"
    BY <1>3 DEF Holds, Owned, Leased
  <1>7. CASE row'[r] = row[r] \/ Rests(r) \/ Expires(r)
    BY <1>3, <1>7 DEF Rests, Expires, OwnsRow, Owns
  <1>8. CASE Pends(r) \/ Claims(r) \/ Drops(r)
    BY <1>3, <1>6, <1>8 DEF Pends, Claims, Taken, Drops, Steady
  <1>9. ASSUME NEW q \in Slots, q[1] = r, Writes(q)
        PROVE  OwnsRow(s)'
    <2>1. q = s
      BY <1>1, <1>2, <1>9, OwnerWrites
    <2>2. ~GivesBack(s) /\ ~Ends(s)
      BY <1>2 DEF GivesBack, Ends, LateOps
    <2>3. row'[r].attempt = s[2] /\ row'[r].status \in Owned
      BY <1>3, <1>9, <2>1, <2>2 DEF Writes, Starts, Fences, Renews, Owned, Leased
    <2>4. QED
      BY <2>3 DEF OwnsRow, Owns
  <1>10. QED
    BY <1>5, <1>7, <1>8, <1>9 DEF RowMove

\* A row holds its thread after a step only if it did before, or was just claimed.
LEMMA HoldsFrom ==
  ASSUME SoleInv, Steady, [Next]_vars, NEW r \in Rows, Holds(row'[r])
  PROVE  Holds(row[r]) \/ Claims(r)
  <1>1. RowMove(r)
    BY RowMoves DEF SoleInv
  <1>2. CASE row'[r] = row[r] \/ Rests(r) \/ Expires(r)
    BY <1>2 DEF Rests, Expires, Holds
  <1>3. CASE Pends(r) \/ Claims(r) \/ Drops(r)
    BY <1>3 DEF Pends, Drops, Holds, Leased
  <1>4. ASSUME NEW s \in Slots, s[1] = r, Writes(s)
        PROVE  Holds(row[r])
    <2>1. OwnsRow(s) /\ row[r].status \in Owned
      BY <1>4 DEF Writes, OwnsRow, Owns
    <2>2. row[r].lease = "live" => Holds(row[r])
      BY <2>1 DEF Holds, Owned
    <2>3. At(s) => row[r].lease = "live"
      BY <1>4, <2>1 DEF SoleInv, InHand
    <2>4. CASE Starts(s)
      BY <1>4, <2>2, <2>4 DEF Starts, Holds
    <2>5. CASE Fences(s)
      <3>1. disp[s].pc \in {"mark", "reconcile", "unwind", "requeue"}
        BY <2>1, <2>5 DEF Fences, SoleInv, InHand
      <3>2. QED
        BY <2>2, <2>3, <3>1 DEF At
    <2>6. CASE Renews(s)
      <3>1. disp[s].pc \notin {"none", "done"}
        BY <2>6 DEF Renews, SoleInv, EInv, DInv, Stilled, Paced, PaceOf
      <3>2. QED
        BY <2>2, <2>3, <3>1 DEF At
    <2>7. CASE GivesBack(s) \/ Ends(s)
      BY <1>4, <2>7 DEF GivesBack, Ends, Holds, Leased
    <2>8. QED
      BY <1>4, <2>4, <2>5, <2>6, <2>7 DEF Writes
  <1>5. QED
    BY <1>1, <1>2, <1>3, <1>4 DEF RowMove

LEMMA ExclusiveKept ==
  ASSUME SoleInv, Steady, [Next]_vars
  PROVE  Exclusive'
  <1> SUFFICES ASSUME NEW q \in Rows, NEW r \in Rows, Holds(row'[q]), Holds(row'[r]),
                      ThreadOfRow(q) = ThreadOfRow(r)
               PROVE  q = r
    BY DEF Exclusive
  <1>1. CASE Claims(q) \/ Claims(r)
    BY <1>1 DEF Claims
  <1>2. CASE Holds(row[q]) /\ Holds(row[r])
    BY <1>2 DEF SoleInv, Exclusive
  <1>3. QED
    BY <1>1, <1>2, HoldsFrom

\* What a step leaves of the late writes, and of a dispatch that is unwinding.
LateMove(s) ==
  /\ \A op \in LateOps : <<op, s>> \in late' => proc'[disp'[s].proc] = "ending"
  /\ <<"launched", s>> \in late' =>
       \/ disp'[s].pc \in {"unwind", "requeue"}
       \/ <<"launched", s>> \in late /\ disp[s].pc \notin {"unwind", "requeue"}
       \/ ~OwnsRow(s)'

LEMMA StoppingLate ==
  ASSUME SoleInv, Steady, NEW p \in Procs, StopCancels(p), NEW s \in Slots
  PROVE  LateMove(s)
  <1> DEFINE X == ActiveDispatches(p)
  <1>1. /\ proc[p] = "draining" /\ CancelDispatches(X, {}) /\ X \in SUBSET Slots
        /\ proc' = [proc EXCEPT ![p] = "ending"] /\ TypeOK /\ EInv
    BY DEF StopCancels, SoleInv, EInv, DInv, IInv, ActiveDispatches
  <1>2. /\ s \in X => /\ disp'[s].pc \in {AfterCancel(s), "done"} /\ disp'[s].proc = disp[s].proc
                      /\ disp'[s].pc # AfterCancel(s) => disp[s].pc = "start"
        /\ s \notin X => disp'[s] = disp[s]
    BY <1>1, Cancelled
  <1>3. PICK still \in SUBSET {x \in X : WriteOf(x) # "nothing"} :
          late' = late \cup {<<WriteOf(x), x>> : x \in still}
    BY <1>1 DEF CancelDispatches
  <1>4. CASE s \in X
    <2>1. disp[s].proc = p /\ disp[s].pc \notin {"none", "done"}
      BY <1>4 DEF ActiveDispatches
    <2>2. \A op \in LateOps : <<op, s>> \notin late
      BY <1>1, <2>1 DEF SoleInv, InHand
    <2>3. disp'[s].proc = p /\ proc'[p] = "ending"
      BY <1>1, <1>2, <1>4, <2>1 DEF TypeOK
    <2>4. <<"launched", s>> \in late' => WriteOf(s) = "launched"
      BY <1>3, <2>2 DEF LateOps
    <2>5. WriteOf(s) = "launched" => disp[s].pc = "mark"
      BY DEF WriteOf, Steady, SoleInv, EInv, DInv, Paced, PaceOf
    <2>6. disp[s].pc = "mark" => AfterCancel(s) = "unwind"
      BY DEF AfterCancel, LaunchedPcs
    <2>7. QED
      BY <1>2, <1>4, <2>3, <2>4, <2>5, <2>6 DEF LateMove
  <1>5. CASE s \notin X
    <2>1. \A op \in LateOps : <<op, s>> \in late' => <<op, s>> \in late
      BY <1>3, <1>5
    <2>2. disp'[s] = disp[s]
      BY <1>2, <1>5
    <2>3. \A op \in LateOps : <<op, s>> \in late =>
            proc[disp[s].proc] = "ending" /\ disp[s].proc \in Procs
      BY DEF SoleInv, InHand, EInv, DInv, LateOnly, LatenessOf, Paced, PaceOf
    <2>4. \A op \in LateOps : <<op, s>> \in late => proc'[disp[s].proc] = "ending"
      BY <1>1, <2>3 DEF TypeOK
    <2>5. QED
      BY <2>1, <2>2, <2>4 DEF LateMove, LateOps
  <1>6. QED
    BY <1>4, <1>5

\* An unwinding dispatch goes on unwinding until it has given its row back.
LEMMA UnwindsOn ==
  ASSUME SoleInv, Steady, NEW q \in Slots, Dispatches(q), NEW s \in Slots,
         disp[s].pc \in {"unwind", "requeue"}
  PROVE  disp'[s].pc \in {"unwind", "requeue"} \/ ~OwnsRow(s)'
  <1>1. TypeOK /\ EInv /\ RowsType /\ s[1] \in Rows /\ row[s[1]] \in RowRecord
    BY SlotParts DEF SoleInv, EInv, DInv, IInv, TypeOK, RowsType
  <1>2. CASE q # s
    BY <1>1, <1>2, OtherStands
  <1>3. CASE q = s /\ Unwind(s)
    BY <1>1, <1>3, GotoFields DEF Unwind
  <1>4. CASE q = s /\ Requeue(s)
    <2>1. RescheduleTaskRun(s[1], s[2], TRUE)
      BY <1>4 DEF Requeue
    <2>2. \/ row'[s[1]] = row[s[1]] /\ ~Owns(s[1], s[2])
          \/ row'[s[1]] \in {RetryRow(row[s[1]], TRUE), EndedRow(row[s[1]], "dead_letter")}
      BY <1>1, <2>1 DEF RescheduleTaskRun, UpdateRow, RowsType
    <2>3. row'[s[1]].status \in {"retry", "dead_letter"} \/ (row'[s[1]] = row[s[1]] /\ ~Owns(s[1], s[2]))
      <3>1. /\ RetryRow(row[s[1]], TRUE).status = "retry"
            /\ EndedRow(row[s[1]], "dead_letter").status = "dead_letter"
        BY <1>1 DEF RetryRow, EndedRow, RowRecord
      <3>2. QED
        BY <2>2, <3>1
    <2>4. QED
      BY <2>3 DEF OwnsRow, Owns, Owned, Leased
  <1>5. CASE q = s /\ (Heartbeat(s) \/ HeartbeatFails(s))
    <2>1. disp' = disp \/ disp' = [disp EXCEPT ![s].hb = "dead"]
      BY <1>5 DEF Heartbeat, HeartbeatFails
    <2>2. disp'[s].pc = disp[s].pc
      BY <1>1, <2>1 DEF TypeOK, DispRecord
    <2>3. QED
      BY <2>2
  <1>6. CASE q = s /\ ~Unwind(s) /\ ~Requeue(s) /\ ~Heartbeat(s) /\ ~HeartbeatFails(s)
    BY <1>6 DEF Dispatches, StartDispatch, Launch, LaunchRefused, MarkLaunched, AwaitRun,
       AwaitDelivery, Finish, Reschedule, StoreFails, Reconcile, Settle, Steady
  <1>7. QED
    BY <1>2, <1>3, <1>4, <1>5, <1>6

LEMMA LateMoves ==
  ASSUME SoleInv, Steady, [Next]_vars, NEW s \in Slots
  PROVE  LateMove(s)
  <1> USE DEF SoleInv
  <1>1. TypeOK /\ DispMove(s)
    BY DispMoves DEF EInv, DInv, IInv
  <1>2. ASSUME NEW op \in LateOps, <<op, s>> \in late
        PROVE  /\ disp[s].proc \in Procs /\ proc[disp[s].proc] = "ending"
               /\ disp'[s].proc = disp[s].proc
    BY <1>1, <1>2 DEF InHand, EInv, DInv, LateOnly, LatenessOf, Paced, PaceOf, DispMove
  <1>3. ASSUME late' \subseteq late, UNCHANGED proc,
               disp[s].pc \in {"unwind", "requeue"} =>
                 disp'[s].pc \in {"unwind", "requeue"} \/ ~OwnsRow(s)'
        PROVE  LateMove(s)
    <2>1. \A op \in LateOps : <<op, s>> \in late' => <<op, s>> \in late
      BY <1>3
    <2>2. "launched" \in LateOps
      BY DEF LateOps
    <2>3. QED
      BY <1>2, <1>3, <2>1, <2>2 DEF LateMove
  <1>4. CASE UNCHANGED <<late, proc, disp>>
    BY <1>3, <1>4
  <1>5. ASSUME NEW q \in Slots, Dispatches(q)
        PROVE  LateMove(s)
    <2>1. UNCHANGED <<late, proc>>
      BY <1>5 DEF Dispatches, StartDispatch, Launch, LaunchRefused, MarkLaunched, AwaitRun,
         AwaitDelivery, Finish, Reschedule, Unwind, Requeue, StoreFails, Reconcile, Settle,
         Heartbeat, HeartbeatFails
    <2>2. QED
      BY <1>3, <1>5, <2>1, UnwindsOn
  <1>6. ASSUME NEW q \in Slots, Executes(q)
        PROVE  LateMove(s)
    BY <1>4, <1>6 DEF Executes, RunEnds, RunCancelled, UserCancelsRun
  <1>7. ASSUME NEW p \in Procs, Polls(p)
        PROVE  LateMove(s)
    <2>1. CASE TickDispatch(p)
      <3>1. UNCHANGED <<late, proc>>
        BY <2>1 DEF TickDispatch
      <3>2. disp[s].pc # "none" => disp'[s] = disp[s]
        BY <2>1 DEF TickDispatch, EInv, DInv, Batched
      <3>3. QED
        BY <1>3, <3>1, <3>2
    <2>2. CASE ~TickDispatch(p)
      BY <1>4, <1>7, <2>2 DEF Polls, TickCleanup, TickReconcile, TickClaim, TickFails, ClaimLost
    <2>3. QED
      BY <2>1, <2>2
  <1>8. ASSUME NEW p \in Procs, Administers(p)
        PROVE  FALSE
    BY <1>8 DEF Administers, PauseTask, CancelActiveTaskWork, DeleteTask, Steady, EInv,
       Unasked, NoRequest
  <1>9. ASSUME NEW p \in Procs, LivesAndDies(p)
        PROVE  LateMove(s)
    <2>1. CASE StopCancels(p)
      BY <2>1, StoppingLate
    <2>2. CASE Start(p) \/ Stop(p)
      <3>1. UNCHANGED <<late, disp>>
        BY <2>2 DEF Start, Stop
      <3>2. \A q \in Procs : proc[q] = "ending" => proc'[q] = "ending"
        BY <1>1, <2>2 DEF Start, Stop, TypeOK
      <3>3. "launched" \in LateOps
        BY DEF LateOps
      <3>4. QED
        BY <1>2, <3>1, <3>2, <3>3 DEF LateMove
    <2>3. CASE Stopped(p)
      <3>1. /\ UNCHANGED <<late, disp>> /\ proc' = [proc EXCEPT ![p] = "down"]
            /\ \A w \in late : disp[w[2]].proc # p
        BY <2>3 DEF Stopped
      <3>2. \A op \in LateOps : <<op, s>> \in late => disp[s].proc # p
        BY <3>1
      <3>3. \A q \in Procs \ {p} : proc'[q] = proc[q]
        BY <1>1, <3>1 DEF TypeOK
      <3>4. "launched" \in LateOps
        BY DEF LateOps
      <3>5. QED
        BY <1>2, <3>1, <3>2, <3>3, <3>4 DEF LateMove
    <2>4. CASE Crash(p)
      <3>1. /\ late' = {w \in late : disp[w[2]].proc # p} /\ proc' = [proc EXCEPT ![p] = "down"]
            /\ disp[s].proc # p => disp'[s] = disp[s]
        BY <2>4 DEF Crash, ActiveDispatches
      <3>2. \A op \in LateOps : <<op, s>> \in late' => <<op, s>> \in late /\ disp[s].proc # p
        BY <3>1
      <3>3. \A q \in Procs \ {p} : proc'[q] = proc[q]
        BY <1>1, <3>1 DEF TypeOK
      <3>4. "launched" \in LateOps
        BY DEF LateOps
      <3>5. QED
        BY <1>2, <3>1, <3>2, <3>3, <3>4 DEF LateMove
    <2>5. QED
      BY <1>9, <2>1, <2>2, <2>3, <2>4 DEF LivesAndDies
  <1>10. CASE TimePasses \/ UNCHANGED vars \/ \E u \in Tasks : CreateTask(u) \/ EnableTask(u)
    BY <1>4, <1>10 DEF TimePasses, TaskDue, RetryDelayElapses, LeaseExpires,
       OrphanGraceElapses, vars, CreateTask, EnableTask
  <1>11. ASSUME NEW w \in late, LateWrite(w)
         PROVE  LateMove(s)
    <2>1. UNCHANGED <<disp, proc>> /\ late' \subseteq late
      BY <1>11 DEF LateWrite
    <2>2. QED
      BY <1>3, <2>1
  <1>12. QED
    BY <1>5, <1>6, <1>7, <1>8, <1>9, <1>10, <1>11, Steps

LEMMA InHandKept ==
  ASSUME SoleInv, Steady, [Next]_vars, NEW s \in Slots
  PROVE  InHand(s)'
  <1>1. EInv /\ EInv' /\ DispMove(s) /\ InHand(s)
    BY EInvStep, DispMoves DEF SoleInv
  <1>2. At(s)' /\ OwnsRow(s)' => row'[s[1]].lease = "live"
    BY LeaseKept
  <1>3. disp'[s].pc \in {"launch", "mark", "await"} \/ run'[s] \in LiveRuns => OwnsRow(s)'
    BY RowKept
  <1>4. disp'[s].hb = "dead" => ~OwnsRow(s)'
    <2> SUFFICES ASSUME disp'[s].hb = "dead"
                 PROVE  ~OwnsRow(s)'
      OBVIOUS
    <2>1. disp[s].hb \in {"dead", "on"} /\ ~OwnsRow(s)
      BY <1>1 DEF DispMove, InHand, Steady, OwnsRow
    <2>2. Tried(s)
      BY <1>1, <2>1 DEF EInv, DInv, Paced, PaceOf, Tried
    <2>3. QED
      BY <1>1, <2>1, <2>2, LostForGood
  <1>5. LateMove(s)
    BY LateMoves
  <1>6. ASSUME <<"launched", s>> \in late, ~OwnsRow(s)
        PROVE  ~OwnsRow(s)'
    <2>1. Tried(s)
      BY <1>1, <1>6 DEF EInv, DInv, LateOnly, LatenessOf, LateOps, Tried
    <2>2. QED
      BY <1>1, <1>6, <2>1, LostForGood
  <1>7. QED
    BY <1>1, <1>2, <1>3, <1>4, <1>5, <1>6 DEF InHand, LateMove

\* While heartbeats are in time, the store answers and nobody pauses, no two managed
\* runs of any processes are alive on one conversation thread, one that unwinds its
\* cancellation included, whatever crashes, restarts, is claimed again or written late.
THEOREM SingleRun == ASSUME Steady PROVE Spec => []OneRunPerThread
  <1>1. Init => SoleInv
    <2>1. Init => \A s \in Slots : disp[s].pc = "none" /\ disp[s].hb = "off" /\ ~At(s)
      BY DEF Init, Idle, At
    <2>2. Init => \A r \in Rows : ~Holds(row[r])
      BY FreshRows DEF Init, Holds, Leased
    <2>3. Init => late = {}
      BY DEF Init
    <2>4. Init => \A s \in Slots : run[s] = "none"
      BY DEF Init
    <2>5. QED
      BY <2>1, <2>2, <2>3, <2>4, EInvInit DEF SoleInv, Exclusive, InHand, Alive, LiveRuns
  <1>2. SoleInv /\ [Next]_vars => SoleInv'
    BY EInvStep, ExclusiveKept, InHandKept, AliveMoves DEF SoleInv, AliveMove
  <1>3. SoleInv => OneRunPerThread
    <2> SUFFICES ASSUME SoleInv, NEW q \in Slots, NEW s \in Slots,
                        run[q] \in LiveRuns, run[s] \in LiveRuns,
                        ThreadOfRow(q[1]) = ThreadOfRow(s[1])
                 PROVE  q = s
      BY DEF OneRunPerThread
    <2>1. ASSUME NEW x \in {q, s}
          PROVE  OwnsRow(x) /\ Holds(row[x[1]]) /\ x[1] \in Rows
      <3>1. disp[x].pc \in {"mark", "await", "unwind"}
        BY DEF SoleInv, Alive
      <3>2. OwnsRow(x) /\ row[x[1]].lease = "live"
        BY <3>1 DEF SoleInv, InHand, At
      <3>3. QED
        BY <3>2, SlotParts DEF OwnsRow, Owns, Owned, Holds
    <2>2. q[1] = s[1]
      BY <2>1 DEF SoleInv, Exclusive
    <2>3. QED
      BY <2>1, <2>2, SlotParts DEF OwnsRow, Owns
  <1>4. QED
    BY <1>1, <1>2, <1>3, PTL DEF Spec
=============================================================================
