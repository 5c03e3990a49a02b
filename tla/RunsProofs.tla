------------------------------ MODULE RunsProofs ------------------------------
(***************************************************************************)
(* Runs, for any number of runs, threads and subscribers, either bridge and *)
(* whatever fails: the gates exclude, one run of a thread is in flight,     *)
(* outcomes are final, no reconnect grace ticks on a run somebody is        *)
(* attached to, and RUN_FINISHED is said of no run that has failed or of    *)
(* one still at work, but for an expired replay.                            *)
(*                                                                          *)
(* The inductive invariant has five parts.  Typed says that a subscriber    *)
(* has a run.  Gated says that _running_thread_counts is the number of      *)
(* producers that still owe a mark_thread_done(), so that a gate closed at  *)
(* count 0 is closed on a thread without producers.  Settled ties the       *)
(* record's status to the producer's stage.  Watched says that              *)
(* _stream_subscribers is the number of generators attached to a run that   *)
(* has a record.  Accounted says that END is only given of a run that is    *)
(* over or whose replay was let go of.                                      *)
(***************************************************************************)
EXTENDS Runs, FiniteSetTheorems, TLAPS

Typed ==
  /\ TypeOK
  /\ \A c \in Clients : client[c].pc # "out" => client[c].run \in Runs

\* Some subscriber has found the record of r and has not left yet.
Reading(r) == \E c \in Clients : client[c].run = r /\ client[c].pc # "out"

\* The producers that have not called mark_thread_done(), or never will.
Counted == Live \cup {"killed"}
Ledger(t) == {r \in Runs : ThreadOf[r] = t /\ prod[r].pc \in Counted}

Gated ==
  /\ \A t \in Threads : count[t] = Cardinality(Ledger(t))
  /\ \A t \in Threads : t \in running <=> count[t] # 0 \/ t \in archive
  /\ \A t \in Threads : t \in deleting => t \notin running
  /\ \A t \in Threads : t \in archive => count[t] = 0

FinalStatuses == {"success", "error", "timeout"}

Settled ==
  /\ OneInflight
  /\ AbortedNeverSucceeds
  /\ \A r \in Runs : rec[r].status \in FinalStatuses => prod[r].pc \notin Live
  /\ \A r \in Runs : prod[r].pc = "scheduled" /\ ~prod[r].cancel =>
                       rec[r].status \in {"pending", "none"}

-----------------------------------------------------------------------------
(* What the shared parts of the actions do *)

\* set_status() changes the status of one known record.
LEMMA SetStatusFacts ==
  ASSUME rec \in [Runs -> RunRecord], NEW r \in Runs, NEW status \in Statuses,
         SetStatus(r, status)
  PROVE  /\ rec' \in [Runs -> RunRecord]
         /\ \A q \in Runs : q # r => rec'[q] = rec[q]
         /\ rec'[r].abort = rec[r].abort /\ rec'[r].expired = rec[r].expired
         /\ rec'[r].status = IF rec[r].status = "none" THEN "none" ELSE status
<1>1. rec' = [rec EXCEPT ![r] = [rec[r] EXCEPT
                 !.status = IF rec[r].status = "none" THEN rec[r].status ELSE status]]
  BY DEF SetStatus
<1>2. rec[r] \in RunRecord
  OBVIOUS
<1> DEFINE new == [rec[r] EXCEPT
                     !.status = IF rec[r].status = "none" THEN rec[r].status ELSE status]
<1>3. /\ new \in RunRecord
      /\ new.abort = rec[r].abort /\ new.expired = rec[r].expired
      /\ new.status = IF rec[r].status = "none" THEN "none" ELSE status
  BY <1>2 DEF RunRecord
<1> HIDE DEF new
<1> QED
  BY <1>1, <1>3 DEF new

\* cancel() marks the records of R and leaves the others alone.
LEMMA InterruptedFacts ==
  ASSUME rec \in [Runs -> RunRecord], NEW R \in SUBSET Runs
  PROVE  /\ Interrupted(R) \in [Runs -> RunRecord]
         /\ \A q \in R : /\ Interrupted(R)[q].status = "interrupted"
                         /\ Interrupted(R)[q].abort = TRUE
                         /\ Interrupted(R)[q].expired = rec[q].expired
         /\ \A q \in Runs \ R : Interrupted(R)[q] = rec[q]
<1>1. \A q \in Runs : LET new == [rec[q] EXCEPT !.status = "interrupted", !.abort = TRUE]
                      IN /\ new \in RunRecord
                         /\ new.status = "interrupted"
                         /\ new.abort = TRUE
                         /\ new.expired = rec[q].expired
  <2> TAKE q \in Runs
  <2>1. rec[q] \in RunRecord
    OBVIOUS
  <2> QED
    BY <2>1 DEF RunRecord, Statuses, InflightStatuses, FailedStatuses
<1> QED
  BY <1>1 DEF Interrupted

\* task.cancel() changes no producer's stage.
LEMMA CancelledFacts ==
  ASSUME prod \in [Runs -> ProducerRecord], NEW R \in SUBSET Runs
  PROVE  /\ Cancelled(R) \in [Runs -> ProducerRecord]
         /\ \A q \in Runs : Cancelled(R)[q].pc = prod[q].pc
         /\ \A q \in Runs \ R : Cancelled(R)[q] = prod[q]
         /\ \A q \in R : prod[q].pc \in Live => Cancelled(R)[q].cancel
<1>1. \A q \in Runs : LET new == [prod[q] EXCEPT !.cancel = TRUE]
                      IN /\ new \in ProducerRecord
                         /\ new.pc = prod[q].pc
                         /\ new.cancel = TRUE
  <2> TAKE q \in Runs
  <2>1. prod[q] \in ProducerRecord
    OBVIOUS
  <2> QED
    BY <2>1 DEF ProducerRecord
<1>2. \A q \in Runs : prod[q].pc \in Live => HasTask(q)
  BY DEF HasTask
<1> QED
  BY <1>1, <1>2 DEF Cancelled

\* detach_run_stream() keeps the counts and the timers what they are.
LEMMA DetachFacts ==
  ASSUME TypeOK, NEW c \in Clients, client[c].run \in Runs, NEW recs, Detach(c, recs)
  PROVE  /\ subs' \in [Runs -> Nat]
         /\ timers' \subseteq Timers
         /\ UNCHANGED <<bridge, stream, jobs>>
<1> DEFINE r == client[c].run
<1>1. Left(r) \in Nat
  <2>1. subs[r] \in Nat
    BY DEF TypeOK
  <2> QED
    BY <2>1 DEF Left
<1>2. <<"grace", r>> \in Timers
  BY DEF Timers
<1>3. subs' = [subs EXCEPT ![r] = Left(r)] /\ UNCHANGED <<bridge, stream, jobs>>
  BY DEF Detach
<1>4. timers' \in {timers, timers \cup {<<"grace", r>>}}
  BY DEF Detach
<1> QED
  BY <1>1, <1>2, <1>3, <1>4 DEF TypeOK

\* mark_thread_done() keeps the gates what they are.
LEMMA DoneTyped ==
  ASSUME TypeOK, NEW t \in Threads, MarkThreadDone(t)
  PROVE  /\ count' \in [Threads -> Nat]
         /\ running' \subseteq Threads /\ archive' \subseteq Threads
         /\ deleting' \subseteq Threads
<1>1. count[t] \in Nat
  BY DEF TypeOK
<1>2. (IF count[t] > 1 THEN count[t] - 1 ELSE 0) \in Nat
  BY <1>1
<1>3. count' = [count EXCEPT ![t] = IF count[t] > 1 THEN count[t] - 1 ELSE 0]
  BY DEF MarkThreadDone
<1> QED
  BY <1>2, <1>3 DEF MarkThreadDone, TypeOK

\* A new stage for one producer.
LEMMA ProducerTyped ==
  ASSUME prod \in [Runs -> ProducerRecord], NEW r \in Runs,
         NEW pc \in Live \cup {"none", "ending", "done", "cut", "killed"}, NEW due \in BOOLEAN,
         prod' = [prod EXCEPT ![r] = [pc |-> pc, cancel |-> due]]
  PROVE  prod' \in [Runs -> ProducerRecord]
<1>1. [pc |-> pc, cancel |-> due] \in ProducerRecord
  BY DEF ProducerRecord
<1> QED
  BY <1>1

-----------------------------------------------------------------------------
(* Types *)

\* What TypeOK says of each variable, for the steps that leave others alone.
LEMMA TypedParts ==
  ASSUME Typed
  PROVE  /\ rec \in [Runs -> RunRecord]
         /\ prod \in [Runs -> ProducerRecord]
         /\ client \in [Clients -> ClientRecord]
         /\ \A c \in Clients : client[c].pc # "out" => client[c].run \in Runs
BY DEF Typed, TypeOK

\* The gates' own steps and the requests keep the types.
LEMMA TypedRequests ==
  ASSUME Typed,
         \/ \E t \in Threads : ThreadStep(t)
         \/ \E r \in Runs : Request(r)
  PROVE  Typed'
<1> USE RunsAssumption
<1>1. ASSUME NEW t \in Threads, ThreadStep(t) PROVE Typed'
  <2>1. /\ UNCHANGED <<rec, prod, count, replay, client>>
        /\ running' \subseteq running \cup {t}
        /\ archive' \subseteq archive \cup {t}
        /\ deleting' \subseteq deleting \cup {t}
    BY <1>1 DEF ThreadStep, ReserveArchive, ReleaseArchive, BeginDelete, EndDelete
  <2> QED
    BY <2>1 DEF Typed, TypeOK, replay
<1>2. ASSUME NEW r \in Runs, Admit(r) PROVE Typed'
  <2> DEFINE t == ThreadOf[r]
  <2>0. t \in Threads /\ Inflight(t) \in SUBSET Runs
    BY DEF Inflight
  <2>1. PICK mode \in Modes :
          /\ rec' = [Interrupted(Inflight(t)) EXCEPT
                       ![r] = [NoRecord EXCEPT !.status = "pending", !.mode = mode]]
          /\ prod' = [Cancelled(Inflight(t)) EXCEPT ![r].pc = "scheduled"]
    BY <1>2 DEF Admit
  <2>2. [NoRecord EXCEPT !.status = "pending", !.mode = mode] \in RunRecord
    BY DEF NoRecord, RunRecord, Statuses, InflightStatuses
  <2>3. rec' \in [Runs -> RunRecord]
    <3>1. Interrupted(Inflight(t)) \in [Runs -> RunRecord]
      BY <2>0, InterruptedFacts, TypedParts
    <3> QED
      BY <2>1, <2>2, <3>1
  <2>4. prod' \in [Runs -> ProducerRecord]
    <3>1. Cancelled(Inflight(t)) \in [Runs -> ProducerRecord]
      BY <2>0, CancelledFacts, TypedParts
    <3>2. Cancelled(Inflight(t))[r] \in ProducerRecord
      BY <3>1
    <3>3. [Cancelled(Inflight(t))[r] EXCEPT !.pc = "scheduled"] \in ProducerRecord
      BY <3>2 DEF ProducerRecord, Live
    <3> QED
      BY <2>1, <3>1, <3>3
  <2>5. count' \in [Threads -> Nat] /\ running' \subseteq Threads
    <3>1. count[t] + 1 \in Nat
      BY <2>0 DEF Typed, TypeOK
    <3> QED
      BY <1>2, <2>0, <3>1 DEF Admit, MarkThreadRunning, Typed, TypeOK
  <2>6. UNCHANGED <<archive, deleting, replay, client>>
    BY <1>2 DEF Admit, MarkThreadRunning
  <2> QED
    BY <2>3, <2>4, <2>5, <2>6 DEF Typed, TypeOK, replay
<1>3. ASSUME NEW R \in SUBSET Runs, rec' = Interrupted(R), prod' = Cancelled(R),
             UNCHANGED <<gates, replay, client>>
      PROVE  Typed'
  <2>1. rec' \in [Runs -> RunRecord] /\ prod' \in [Runs -> ProducerRecord]
    BY <1>3, InterruptedFacts, CancelledFacts, TypedParts
  <2> QED
    BY <1>3, <2>1 DEF Typed, TypeOK, gates, replay
<1>4. ASSUME NEW r \in Runs, AdmitRefused(r) PROVE Typed'
  <2>1. Inflight(ThreadOf[r]) \in SUBSET Runs
    BY DEF Inflight
  <2> QED
    BY <1>3, <1>4, <2>1 DEF AdmitRefused
<1>5. ASSUME NEW r \in Runs, CancelRun(r) PROVE Typed'
  BY <1>3, <1>5 DEF CancelRun
<1>6. ASSUME NEW r \in Runs, DispatchCancels(r) PROVE Typed'
  <2>1. prod[r] \in ProducerRecord
    BY TypedParts
  <2>2. [prod[r] EXCEPT !.cancel = TRUE] \in ProducerRecord
    BY <2>1 DEF ProducerRecord
  <2>3. prod' \in [Runs -> ProducerRecord]
    BY <1>6, <2>2, TypedParts DEF DispatchCancels
  <2> QED
    BY <1>6, <2>3 DEF DispatchCancels, Typed, TypeOK, gates, replay
<1> QED
  BY <1>1, <1>2, <1>4, <1>5, <1>6 DEF Request

\* The producer's steps keep the types.
LEMMA TypedProduce ==
  ASSUME Typed, NEW r \in Runs, Produce(r)
  PROVE  Typed'
<1> USE RunsAssumption, TypedParts
<1> DEFINE t == ThreadOf[r]
<1>0. t \in Threads
  OBVIOUS
<1>1. ASSUME UNCHANGED <<gates, rec, replay, client>>, prod' \in [Runs -> ProducerRecord]
      PROVE  Typed'
  BY <1>1 DEF Typed, TypeOK, gates, replay
<1>2. ASSUME rec' \in [Runs -> RunRecord], Finally(r) PROVE Typed'
  <2>1. prod' \in [Runs -> ProducerRecord]
    BY <1>2, ProducerTyped DEF Finally
  <2>2. /\ count' \in [Threads -> Nat]
        /\ running' \subseteq Threads /\ archive' \subseteq Threads
        /\ deleting' \subseteq Threads
    BY <1>0, <1>2, DoneTyped DEF Finally, Typed
  <2> QED
    BY <1>2, <2>1, <2>2 DEF Finally, Typed, TypeOK, replay
<1>3. CASE NeverStarted(r)
  BY <1>1, <1>3, ProducerTyped DEF NeverStarted
<1>4. CASE Begin(r)
  <2>1. rec' \in [Runs -> RunRecord]
    BY <1>4, SetStatusFacts DEF Begin, Statuses, InflightStatuses
  <2>2. prod' = [prod EXCEPT ![r] = [pc |-> "streaming", cancel |-> FALSE]]
    BY <1>4 DEF Begin
  <2>3. prod' \in [Runs -> ProducerRecord]
    BY <2>2, ProducerTyped DEF Live
  <2>4. stream' \in [Runs -> {"none", "open", "ended", "expired"}]
    BY <1>4 DEF Begin, Typed, TypeOK
  <2> QED
    BY <1>4, <2>1, <2>3, <2>4 DEF Begin, Typed, TypeOK, gates
<1>5. CASE Complete(r)
  <2>1. PICK status \in Outcomes(r) : SetStatus(r, status)
    BY <1>5 DEF Complete
  <2>2. status \in Statuses
    BY DEF Outcomes, Statuses, FailedStatuses
  <2> QED
    BY <1>2, <1>5, <2>1, <2>2, SetStatusFacts DEF Complete
<1>6. CASE SwallowCancel(r)
  <2>1. prod' = [prod EXCEPT ![r] = [pc |-> "streaming", cancel |-> FALSE]]
    BY <1>6 DEF SwallowCancel
  <2> QED
    BY <1>1, <1>6, <2>1, ProducerTyped DEF SwallowCancel, Live
<1>7. CASE Fails(r)
  <2>1. PICK handler \in Handlers :
          prod' = [prod EXCEPT ![r] = [pc |-> handler, cancel |-> FALSE]]
    BY <1>7 DEF Fails, Handlers
  <2> QED
    BY <1>1, <1>7, <2>1, ProducerTyped DEF Fails, Live
<1>8. CASE Handled(r)
  <2>1. StatusOf(prod[r].pc) \in Statuses
    BY <1>8 DEF Handled, Handlers, StatusOf, Statuses, FailedStatuses
  <2> QED
    BY <1>2, <1>8, <2>1, SetStatusFacts DEF Handled
<1>9. CASE HandlerBroken(r)
  BY <1>2, <1>9 DEF HandlerBroken
<1>10. ASSUME NEW pc \in {"done", "cut"},
              stream' \in {stream, Ended(r)}, timers' \in {timers, Retention(r)},
              prod' = [prod EXCEPT ![r] = [pc |-> pc, cancel |-> FALSE]],
              UNCHANGED <<rec, gates, bridge, subs, jobs, client>>
       PROVE  Typed'
  <2>1. prod' \in [Runs -> ProducerRecord]
    BY <1>10, ProducerTyped
  <2>2. stream' \in [Runs -> {"none", "open", "ended", "expired"}]
    BY <1>10 DEF Ended, Typed, TypeOK
  <2>3. timers' \subseteq Timers
    BY <1>10 DEF Retention, Timers, Typed, TypeOK
  <2> QED
    BY <1>10, <2>1, <2>2, <2>3 DEF Typed, TypeOK, gates
<1>11. CASE End(r)
  <2>1. prod' = [prod EXCEPT ![r] = [pc |-> "done", cancel |-> FALSE]]
    BY <1>11 DEF End
  <2> QED
    BY <1>10, <1>11, <2>1 DEF End
<1>12. CASE EndBroken(r)
  <2>1. prod' = [prod EXCEPT ![r] = [pc |-> "cut", cancel |-> FALSE]]
    BY <1>12 DEF EndBroken
  <2> QED
    BY <1>10, <1>12, <2>1 DEF EndBroken
<1> QED
  BY <1>3, <1>4, <1>5, <1>6, <1>7, <1>8, <1>9, <1>11, <1>12 DEF Produce

\* One subscriber's new stage.
LEMMA ClientTyped ==
  ASSUME Typed, NEW c \in Clients, NEW new \in ClientRecord,
         new.pc # "out" => new.run \in Runs, client' = [client EXCEPT ![c] = new]
  PROVE  /\ client' \in [Clients -> ClientRecord]
         /\ \A d \in Clients : client'[d].pc # "out" => client'[d].run \in Runs
BY DEF Typed, TypeOK

\* A subscriber that has a run moves on to another stage, or goes.
LEMMA ClientMoves ==
  ASSUME Typed, NEW c \in Clients, client[c].pc # "out",
         NEW pc \in {"attached", "reading", "drained"},
         client' = [client EXCEPT ![c].pc = pc]
  PROVE  /\ client' \in [Clients -> ClientRecord]
         /\ \A d \in Clients : client'[d].pc # "out" => client'[d].run \in Runs
<1> DEFINE new == [client[c] EXCEPT !.pc = pc]
<1>1. client[c] \in ClientRecord /\ client[c].run \in Runs
  BY TypedParts
<1>2. new \in ClientRecord /\ new.run \in Runs
  BY <1>1 DEF ClientRecord
<1>3. client' = [client EXCEPT ![c] = new]
  OBVIOUS
<1> HIDE DEF new
<1> QED
  BY <1>2, <1>3, ClientTyped

\* A subscriber goes, told something or nothing.
LEMMA ClientGoes ==
  ASSUME Typed, NEW c \in Clients, NEW told \in {"nothing", "finished", "error"},
         client' = [client EXCEPT ![c] = [Nobody EXCEPT !.told = told]]
  PROVE  /\ client' \in [Clients -> ClientRecord]
         /\ \A d \in Clients : client'[d].pc # "out" => client'[d].run \in Runs
<1> DEFINE new == [Nobody EXCEPT !.told = told]
<1>1. new \in ClientRecord /\ new.pc = "out"
  BY DEF Nobody, ClientRecord
<1> HIDE DEF new
<1> QED
  BY <1>1, ClientTyped DEF new

\* The subscribers' steps keep the types.
LEMMA TypedSubscriber ==
  ASSUME Typed, NEW c \in Clients, Subscriber(c)
  PROVE  Typed'
<1> USE RunsAssumption, TypedParts
<1> DEFINE r == client[c].run
<1>1. ASSUME NEW q \in Runs, Connect(c, q) PROVE Typed'
  <2>1. [pc |-> "opening", run |-> q, told |-> "nothing"] \in ClientRecord
    BY DEF ClientRecord
  <2> QED
    BY <1>1, <2>1, ClientTyped DEF Connect, Typed, TypeOK, gates, replay
<1>2. CASE Attach(c)
  <2>1. r \in Runs
    BY <1>2 DEF Attach
  <2>2. subs' \in [Runs -> Nat]
    <3>1. subs \in [Runs -> Nat] /\ subs[r] + 1 \in Nat
      BY <2>1 DEF Typed, TypeOK
    <3> QED
      BY <1>2, <3>1 DEF Attach
  <2>3. timers' \subseteq timers
    BY <1>2 DEF Attach
  <2> QED
    BY <1>2, <2>2, <2>3, ClientMoves DEF Attach, Typed, TypeOK, gates
<1>3. CASE Subscribe(c)
  <2>1. stream' \in [Runs -> {"none", "open", "ended", "expired"}]
    BY <1>3 DEF Subscribe, Typed, TypeOK
  <2>2. PICK pc \in {"reading", "drained"} : client' = [client EXCEPT ![c].pc = pc]
    BY <1>3 DEF Subscribe
  <2>3. /\ client' \in [Clients -> ClientRecord]
        /\ \A d \in Clients : client'[d].pc # "out" => client'[d].run \in Runs
    BY <1>3, <2>2, ClientMoves DEF Subscribe
  <2> QED
    BY <1>3, <2>1, <2>3 DEF Subscribe, Typed, TypeOK, gates
<1>4. ASSUME NEW told \in {"finished", "error"}, client[c].pc # "out", Detach(c, rec),
             client' = [client EXCEPT ![c] = [Nobody EXCEPT !.told = told]],
             UNCHANGED <<rec, prod, gates>>
      PROVE  Typed'
  <2>1. r \in Runs
    BY <1>4
  <2>2. subs' \in [Runs -> Nat] /\ timers' \subseteq Timers /\ UNCHANGED <<bridge, stream, jobs>>
    BY <1>4, <2>1, DetachFacts DEF Typed
  <2> QED
    BY <1>4, <2>2, ClientGoes DEF Typed, TypeOK, gates
<1>5. CASE ReadEnd(c)
  BY <1>5, ClientMoves DEF ReadEnd, Typed, TypeOK, gates, replay
<1>8. CASE Conclude(c)
  BY <1>4, <1>8 DEF Conclude, Verdict
<1>6. CASE ReadFails(c)
  BY <1>4, <1>6 DEF ReadFails
<1>7. CASE Disconnect(c)
  <2>1. r \in Runs
    BY <1>7 DEF Disconnect
  <2>2. /\ client' \in [Clients -> ClientRecord]
        /\ \A d \in Clients : client'[d].pc # "out" => client'[d].run \in Runs
    <3>1. client' = [client EXCEPT ![c] = [Nobody EXCEPT !.told = "nothing"]]
      BY <1>7 DEF Disconnect, Nobody
    <3> QED
      BY <3>1, ClientGoes
  <2>3. CASE client[c].pc = "opening"
    BY <1>7, <2>2, <2>3 DEF Disconnect, Typed, TypeOK, gates, replay
  <2>4. CASE client[c].pc # "opening"
    <3>1. PICK R \in {{}, {r}} :
            /\ rec' = Interrupted(R) /\ prod' = Cancelled(R)
            /\ Detach(c, rec')
      BY <1>7, <2>4 DEF Disconnect
    <3>2. R \in SUBSET Runs
      BY <2>1
    <3>3. rec' \in [Runs -> RunRecord] /\ prod' \in [Runs -> ProducerRecord]
      BY <3>1, <3>2, InterruptedFacts, CancelledFacts
    <3>4. subs' \in [Runs -> Nat] /\ timers' \subseteq Timers /\ UNCHANGED <<bridge, stream, jobs>>
      BY <2>1, <3>1, DetachFacts DEF Typed
    <3>5. UNCHANGED gates
      BY <1>7 DEF Disconnect
    <3> QED
      BY <2>2, <3>3, <3>4, <3>5 DEF Typed, TypeOK, gates
  <2> QED
    BY <2>3, <2>4
<1> QED
  BY <1>1, <1>2, <1>3, <1>5, <1>6, <1>7, <1>8 DEF Subscriber

\* The timers and their tasks keep the types.
LEMMA TypedRetire ==
  ASSUME Typed, NEW r \in Runs, Retire(r)
  PROVE  Typed'
<1> USE TypedParts
<1>1. {<<"expire", r>>, <<"clean", r>>, <<"failed", r>>} \subseteq Jobs
  BY DEF Jobs
<1>2. ASSUME timers' \subseteq timers,
             jobs' \subseteq jobs \cup {<<"expire", r>>, <<"clean", r>>, <<"failed", r>>},
             UNCHANGED <<rec, prod, gates, bridge, stream, subs, client>>
      PROVE  Typed'
  BY <1>1, <1>2 DEF Typed, TypeOK, gates
<1>3. CASE GraceElapses(r)
  BY <1>2, <1>3 DEF GraceElapses
<1>4. CASE ReplayElapses(r)
  BY <1>2, <1>4 DEF ReplayElapses
<1>5. CASE MetadataElapses(r)
  BY <1>2, <1>5 DEF MetadataElapses
<1>6. CASE ExpireRunReplay(r)
  <2>1. [rec[r] EXCEPT !.expired = (rec[r].expired \/ rec[r].status # "none")] \in RunRecord
    <3>1. rec[r] \in RunRecord
      OBVIOUS
    <3> QED
      BY <3>1 DEF RunRecord
  <2>2. rec' = [rec EXCEPT ![r] = [rec[r] EXCEPT
                   !.expired = (rec[r].expired \/ rec[r].status # "none")]]
    BY <1>6 DEF ExpireRunReplay
  <2>3. rec' \in [Runs -> RunRecord]
    BY <2>1, <2>2
  <2>4. stream' \in [Runs -> {"none", "open", "ended", "expired"}] /\ jobs' \subseteq jobs
    BY <1>6 DEF ExpireRunReplay, Typed, TypeOK
  <2> QED
    BY <1>6, <2>3, <2>4 DEF ExpireRunReplay, Typed, TypeOK, gates
<1>7. CASE CleanupRunLifecycle(r)
  <2>1. rec' \in [Runs -> RunRecord]
    <3>1. NoRecord \in RunRecord
      BY DEF NoRecord, RunRecord, Statuses
    <3> QED
      BY <1>7, <3>1 DEF CleanupRunLifecycle
  <2>2. /\ client' \in [Clients -> ClientRecord]
        /\ \A d \in Clients : client'[d].pc # "out" => client'[d].run \in Runs
    <3>1. \A d \in Clients :
            client'[d] \in {client[d], [client[d] EXCEPT !.pc = "drained"]}
      BY <1>7 DEF CleanupRunLifecycle
    <3>2. \A d \in Clients :
            /\ client[d] \in ClientRecord
            /\ client'[d] # client[d] => client[d].pc = "reading"
      BY <1>7 DEF CleanupRunLifecycle
    <3>3. \A d \in Clients :
            /\ [client[d] EXCEPT !.pc = "drained"] \in ClientRecord
            /\ [client[d] EXCEPT !.pc = "drained"].run = client[d].run
      BY <3>2 DEF ClientRecord
    <3>4. client' = [d \in Clients |-> client'[d]]
      BY <1>7 DEF CleanupRunLifecycle
    <3> QED
      BY <3>1, <3>2, <3>3, <3>4
  <2>3. /\ stream' \in [Runs -> {"none", "open", "ended", "expired"}]
        /\ subs' \in [Runs -> Nat] /\ jobs' \subseteq jobs
    BY <1>7 DEF CleanupRunLifecycle, Typed, TypeOK
  <2> QED
    BY <1>7, <2>1, <2>2, <2>3 DEF CleanupRunLifecycle, Typed, TypeOK, gates
<1>8. CASE CleanupFails(r)
  BY <1>2, <1>8 DEF CleanupFails
<1> QED
  BY <1>3, <1>4, <1>5, <1>6, <1>7, <1>8 DEF Retire

\* The initial state is typed.
LEMMA TypedInit ==
  ASSUME Init PROVE Typed
BY DEF Init, Typed, TypeOK, NoRecord, Nobody, RunRecord, ProducerRecord, ClientRecord,
       Statuses

\* Every step keeps the types.
LEMMA TypedStep ==
  ASSUME Typed, [Next]_vars PROVE Typed'
<1>1. CASE Next
  BY <1>1, TypedRequests, TypedProduce, TypedSubscriber, TypedRetire DEF Next
<1>2. CASE UNCHANGED vars
  BY <1>2 DEF vars, gates, replay, Typed, TypeOK
<1> QED
  BY <1>1, <1>2

\* Every variable stays what its comment says it is.
THEOREM TypeCorrect == Spec => []TypeOK
<1>1. Init => Typed
  BY TypedInit
<1>2. Typed /\ [Next]_vars => Typed'
  BY TypedStep
<1>3. Typed => TypeOK
  BY DEF Typed
<1> QED
  BY <1>1, <1>2, <1>3, PTL DEF Spec

-----------------------------------------------------------------------------
(* The gates *)

\* The ledger of a thread is finite, and so is its count.
LEMMA LedgerFinite ==
  ASSUME NEW t
  PROVE  IsFiniteSet(Ledger(t)) /\ Cardinality(Ledger(t)) \in Nat
<1>1. Ledger(t) \subseteq Runs
  BY DEF Ledger
<1> QED
  BY <1>1, RunsAssumption, FS_Subset, FS_CardinalityType

\* A step that moves no producer into or out of the ledger, nor a gate.
LEMMA GatedQuiet ==
  ASSUME Gated, UNCHANGED gates,
         \A q \in Runs : prod'[q].pc \in Counted <=> prod[q].pc \in Counted
  PROVE  Gated'
<1>1. \A t : Ledger(t)' = Ledger(t)
  BY DEF Ledger
<1> QED
  BY <1>1 DEF Gated, gates

\* finally: mark_thread_done() takes one producer off the ledger.
LEMMA GatedFinally ==
  ASSUME Typed, Gated, NEW r \in Runs, prod[r].pc \in Live, Finally(r)
  PROVE  Gated'
<1> USE RunsAssumption
<1> DEFINE t == ThreadOf[r]
<1>1. t \in Threads /\ r \in Ledger(t)
  BY DEF Ledger, Counted
<1>2. prod' = [prod EXCEPT ![r] = [pc |-> "ending", cancel |-> FALSE]]
  BY DEF Finally
<1>3. Ledger(t)' = Ledger(t) \ {r}
  BY <1>2, TypedParts DEF Ledger, Counted, Live, Handlers
<1>4. \A u \in Threads \ {t} : Ledger(u)' = Ledger(u)
  BY <1>2, TypedParts DEF Ledger
<1>5. Cardinality(Ledger(t)') = Cardinality(Ledger(t)) - 1
  BY <1>1, <1>3, LedgerFinite, FS_RemoveElement
<1>6. count[t] = Cardinality(Ledger(t)) /\ count[t] \in Nat /\ count[t] # 0
  <2>1. Ledger(t) # {}
    BY <1>1
  <2> QED
    BY <1>1, <2>1, LedgerFinite, FS_EmptySet DEF Gated
<1>7. count'[t] = count[t] - 1 /\ \A u \in Threads \ {t} : count'[u] = count[u]
  <2>1. (IF count[t] > 1 THEN count[t] - 1 ELSE 0) = count[t] - 1
    BY <1>6
  <2> QED
    BY <1>1, <2>1 DEF Finally, MarkThreadDone, Typed, TypeOK
<1>8. /\ running' = IF count[t] > 1 THEN running ELSE running \ {t}
      /\ UNCHANGED <<archive, deleting>>
  BY DEF Finally, MarkThreadDone
<1>9. t \in running /\ t \notin archive
  BY <1>1, <1>6 DEF Gated
<1>10. \A u \in Threads : count'[u] = Cardinality(Ledger(u)')
  BY <1>4, <1>5, <1>6, <1>7 DEF Gated
<1>11. \A u \in Threads : u \in running' <=> count'[u] # 0 \/ u \in archive'
  <2>1. t \in running' <=> count'[t] # 0
    BY <1>6, <1>7, <1>8, <1>9
  <2> QED
    BY <1>7, <1>8, <1>9, <2>1 DEF Gated
<1> QED
  BY <1>7, <1>8, <1>9, <1>10, <1>11 DEF Gated

\* mark_thread_running() puts the new producer on the ledger.
LEMMA GatedAdmit ==
  ASSUME Typed, Gated, NEW r \in Runs, Admit(r)
  PROVE  Gated'
<1> USE RunsAssumption
<1> DEFINE t == ThreadOf[r]
<1>1. t \in Threads /\ t \notin deleting \cup archive /\ prod[r].pc = "none"
  BY DEF Admit, Open
<1>2. \A q \in Runs : prod'[q].pc = IF q = r THEN "scheduled" ELSE prod[q].pc
  <2>1. Inflight(t) \in SUBSET Runs
    BY DEF Inflight
  <2>2. prod' = [Cancelled(Inflight(t)) EXCEPT ![r].pc = "scheduled"]
    BY DEF Admit
  <2>3. /\ Cancelled(Inflight(t)) \in [Runs -> ProducerRecord]
        /\ \A q \in Runs : Cancelled(Inflight(t))[q].pc = prod[q].pc
    BY <2>1, CancelledFacts, TypedParts
  <2>4. [Cancelled(Inflight(t))[r] EXCEPT !.pc = "scheduled"].pc = "scheduled"
    <3>1. Cancelled(Inflight(t))[r] \in ProducerRecord
      BY <2>3
    <3> QED
      BY <3>1 DEF ProducerRecord
  <2> QED
    BY <2>2, <2>3, <2>4
<1>3. Ledger(t)' = Ledger(t) \cup {r} /\ r \notin Ledger(t)
  BY <1>1, <1>2 DEF Ledger, Counted, Live, Handlers
<1>4. \A u \in Threads \ {t} : Ledger(u)' = Ledger(u)
  BY <1>2 DEF Ledger
<1>5. Cardinality(Ledger(t)') = Cardinality(Ledger(t)) + 1
  BY <1>3, LedgerFinite, FS_AddElement
<1>6. /\ count' = [count EXCEPT ![t] = count[t] + 1]
      /\ running' = running \cup {t}
      /\ UNCHANGED <<archive, deleting>>
  BY DEF Admit, MarkThreadRunning
<1>7. count[t] \in Nat /\ count'[t] = count[t] + 1
      /\ \A u \in Threads \ {t} : count'[u] = count[u]
  BY <1>1, <1>6 DEF Typed, TypeOK
<1>8. \A u \in Threads : count'[u] = Cardinality(Ledger(u)')
  BY <1>1, <1>4, <1>5, <1>7 DEF Gated
<1>9. count'[t] # 0
  BY <1>7
<1> QED
  BY <1>1, <1>6, <1>7, <1>8, <1>9 DEF Gated

\* Every step keeps the gates' books.
LEMMA GatedStep ==
  ASSUME Typed, Gated, [Next]_vars PROVE Gated'
<1> USE TypedParts
<1>1. ASSUME NEW t \in Threads, ThreadStep(t) PROVE Gated'
  <2>0. \A u : Ledger(u)' = Ledger(u)
    BY <1>1 DEF ThreadStep, ReserveArchive, ReleaseArchive, BeginDelete, EndDelete, Ledger
  <2>1. CASE ReserveArchive(t)
    BY <2>0, <2>1 DEF ReserveArchive, Gated
  <2>2. CASE ReleaseArchive(t)
    BY <2>0, <2>2 DEF ReleaseArchive, Gated
  <2>3. CASE BeginDelete(t)
    BY <2>0, <2>3 DEF BeginDelete, Gated
  <2>4. CASE EndDelete(t)
    BY <2>0, <2>4 DEF EndDelete, Gated
  <2> QED
    BY <1>1, <2>1, <2>2, <2>3, <2>4 DEF ThreadStep
<1>2. ASSUME NEW r \in Runs, Request(r) PROVE Gated'
  <2>1. ASSUME NEW R \in SUBSET Runs, prod' = Cancelled(R), UNCHANGED gates PROVE Gated'
    BY <2>1, CancelledFacts, GatedQuiet
  <2>2. CASE AdmitRefused(r)
    <3>1. Inflight(ThreadOf[r]) \in SUBSET Runs
      BY DEF Inflight
    <3> QED
      BY <2>1, <2>2, <3>1 DEF AdmitRefused
  <2>3. CASE CancelRun(r)
    BY <2>1, <2>3 DEF CancelRun
  <2>4. CASE DispatchCancels(r)
    <3>1. prod[r] \in ProducerRecord
      OBVIOUS
    <3>2. [prod[r] EXCEPT !.cancel = TRUE].pc = prod[r].pc
      BY <3>1 DEF ProducerRecord
    <3>3. \A q \in Runs : prod'[q].pc = prod[q].pc
      BY <2>4, <3>2 DEF DispatchCancels
    <3> QED
      BY <2>4, <3>3, GatedQuiet DEF DispatchCancels
  <2> QED
    BY <1>2, <2>2, <2>3, <2>4, GatedAdmit DEF Request
<1>3. ASSUME NEW r \in Runs, Produce(r) PROVE Gated'
  <2>1. ASSUME NEW pc, NEW due, UNCHANGED gates, pc \in Counted <=> prod[r].pc \in Counted,
               prod' = [prod EXCEPT ![r] = [pc |-> pc, cancel |-> due]]
        PROVE  Gated'
    <3>1. \A q \in Runs : prod'[q].pc \in Counted <=> prod[q].pc \in Counted
      BY <2>1
    <3> QED
      BY <2>1, <3>1, GatedQuiet
  <2> USE DEF Counted, Live, Handlers
  <2>2. CASE NeverStarted(r)
    <3>1. prod[r].pc = "scheduled" /\ UNCHANGED gates
      BY <2>2 DEF NeverStarted
    <3>2. prod' = [prod EXCEPT ![r] = [pc |-> "killed", cancel |-> FALSE]]
      BY <2>2 DEF NeverStarted
    <3> QED
      BY <2>1, <3>1, <3>2
  <2>3. CASE Begin(r)
    <3>1. prod[r].pc = "scheduled" /\ UNCHANGED gates
      BY <2>3 DEF Begin
    <3>2. prod' = [prod EXCEPT ![r] = [pc |-> "streaming", cancel |-> FALSE]]
      BY <2>3 DEF Begin
    <3> QED
      BY <2>1, <3>1, <3>2
  <2>4. CASE Complete(r)
    <3>1. prod[r].pc \in Live /\ Finally(r)
      BY <2>4 DEF Complete
    <3> QED
      BY <3>1, GatedFinally
  <2>5. CASE SwallowCancel(r)
    <3>1. prod[r].pc = "streaming" /\ UNCHANGED gates
      BY <2>5 DEF SwallowCancel
    <3>2. prod' = [prod EXCEPT ![r] = [pc |-> "streaming", cancel |-> FALSE]]
      BY <2>5 DEF SwallowCancel
    <3> QED
      BY <2>1, <3>1, <3>2
  <2>6. CASE Fails(r)
    <3>1. prod[r].pc = "streaming" /\ UNCHANGED gates
      BY <2>6 DEF Fails
    <3>2. PICK handler \in Handlers :
            prod' = [prod EXCEPT ![r] = [pc |-> handler, cancel |-> FALSE]]
      BY <2>6 DEF Fails
    <3> QED
      BY <2>1, <3>1, <3>2
  <2>7. CASE Handled(r)
    BY <2>7, GatedFinally DEF Handled
  <2>8. CASE HandlerBroken(r)
    BY <2>8, GatedFinally DEF HandlerBroken
  <2>9. CASE End(r)
    <3>1. prod[r].pc = "ending" /\ UNCHANGED gates
      BY <2>9 DEF End
    <3>2. prod' = [prod EXCEPT ![r] = [pc |-> "done", cancel |-> FALSE]]
      BY <2>9 DEF End
    <3> QED
      BY <2>1, <3>1, <3>2
  <2>10. CASE EndBroken(r)
    <3>1. prod[r].pc = "ending" /\ UNCHANGED gates
      BY <2>10 DEF EndBroken
    <3>2. prod' = [prod EXCEPT ![r] = [pc |-> "cut", cancel |-> FALSE]]
      BY <2>10 DEF EndBroken
    <3> QED
      BY <2>1, <3>1, <3>2
  <2> QED
    BY <1>3, <2>2, <2>3, <2>4, <2>5, <2>6, <2>7, <2>8, <2>9, <2>10 DEF Produce
<1>4. ASSUME NEW c \in Clients, Subscriber(c) PROVE Gated'
  <2>1. ASSUME UNCHANGED <<prod, gates>> PROVE Gated'
    BY <2>1, GatedQuiet
  <2>2. CASE Disconnect(c)
    <3>1. CASE client[c].pc = "opening"
      BY <2>1, <2>2, <3>1 DEF Disconnect
    <3>2. CASE client[c].pc # "opening"
      <4>1. PICK R \in {{}, {client[c].run}} : prod' = Cancelled(R)
        BY <2>2, <3>2 DEF Disconnect
      <4>2. R \in SUBSET Runs /\ UNCHANGED gates
        BY <2>2 DEF Disconnect
      <4> QED
        BY <4>1, <4>2, CancelledFacts, GatedQuiet
    <3> QED
      BY <3>1, <3>2
  <2>3. CASE ~Disconnect(c)
    BY <1>4, <2>1, <2>3 DEF Subscriber, Connect, Attach, Subscribe, ReadEnd, Conclude, ReadFails
  <2> QED
    BY <2>2, <2>3
<1>5. ASSUME NEW r \in Runs, Retire(r) PROVE Gated'
  <2>1. UNCHANGED <<prod, gates>>
    BY <1>5 DEF Retire, GraceElapses, ReplayElapses, MetadataElapses, ExpireRunReplay,
                CleanupRunLifecycle, CleanupFails
  <2> QED
    BY <2>1, GatedQuiet
<1>6. CASE UNCHANGED vars
  BY <1>6, GatedQuiet DEF vars
<1> QED
  BY <1>1, <1>2, <1>3, <1>4, <1>5, <1>6 DEF Next

\* A gate that is closed is closed on a thread without live producers.
LEMMA GatedExcludes ==
  ASSUME Gated PROVE GateExclusion
<1>1. \A t \in Threads : count[t] = 0 => LiveOn(t) = {}
  <2> SUFFICES ASSUME NEW t \in Threads, count[t] = 0 PROVE LiveOn(t) = {}
    OBVIOUS
  <2>1. Ledger(t) = {}
    BY LedgerFinite, FS_EmptySet DEF Gated
  <2>2. LiveOn(t) \subseteq Ledger(t)
    BY DEF LiveOn, Ledger, Counted
  <2> QED
    BY <2>1, <2>2
<1> QED
  BY <1>1 DEF Gated, GateExclusion

\* No thread has a ledger yet.
LEMMA GatedInit == Init => Gated
<1> SUFFICES ASSUME Init PROVE Gated
  OBVIOUS
<1>1. \A t \in Threads : Ledger(t) = {}
  BY DEF Init, Ledger, Counted, Live, Handlers
<1> QED
  BY <1>1, FS_EmptySet DEF Init, Gated

\* The counts and gates agree with the producers, in every reachable state.
LEMMA Bookkeeping == Spec => []Gated
<1>1. Init => Typed /\ Gated
  BY TypedInit, GatedInit
<1>2. Typed /\ Gated /\ [Next]_vars => (Typed /\ Gated)'
  BY TypedStep, GatedStep
<1> QED
  BY <1>1, <1>2, PTL DEF Spec

\* No run is under way in a thread that is being deleted or archived, and the two
\* exclude each other, whatever is cancelled or fails.
THEOREM Exclusion == Spec => []GateExclusion
<1>1. Gated => GateExclusion
  BY GatedExcludes
<1> QED
  BY <1>1, Bookkeeping, PTL

\* However runs overlap, the gate of mark_thread_running is closed exactly while a
\* run or an archive is at work, or a task was killed before its first step.
THEOREM BusyExactly == Spec => []BusyMeansWork
<1>1. Gated => BusyMeansWork
  <2> SUFFICES ASSUME Gated, NEW t \in Threads
               PROVE  t \in running <=>
                        \/ LiveOn(t) # {} \/ t \in archive
                        \/ \E r \in Runs : ThreadOf[r] = t /\ prod[r].pc = "killed"
    BY DEF BusyMeansWork
  <2>1. count[t] # 0 <=> Ledger(t) # {}
    BY LedgerFinite, FS_EmptySet DEF Gated
  <2>2. Ledger(t) # {} <=>
          LiveOn(t) # {} \/ \E r \in Runs : ThreadOf[r] = t /\ prod[r].pc = "killed"
    BY DEF Ledger, LiveOn, Counted
  <2> QED
    BY <2>1, <2>2 DEF Gated
<1> QED
  BY <1>1, Bookkeeping, PTL

-----------------------------------------------------------------------------
(* Outcomes *)

\* What OutcomeIsFinal says of a step.
OutcomesKept ==
  \A r \in Runs : rec[r].status \in FinalStatuses => rec'[r].status \in {rec[r].status, "none"}

\* A step that leaves every record's status and abort event alone, and takes no
\* producer back to an earlier stage.
LEMMA SettledQuiet ==
  ASSUME Settled,
         \A q \in Runs : rec'[q].status = rec[q].status /\ rec'[q].abort = rec[q].abort,
         \A q \in Runs : prod'[q].pc \in Live => prod[q].pc \in Live,
         \A q \in Runs : prod'[q].pc = "scheduled" /\ ~prod'[q].cancel =>
                            prod[q].pc = "scheduled" /\ ~prod[q].cancel
  PROVE  Settled' /\ OutcomesKept
BY DEF Settled, OneInflight, AbortedNeverSucceeds, OutcomesKept

\* cancel() of the runs R.
LEMMA SettledCancel ==
  ASSUME Typed, Settled, NEW R \in SUBSET Runs, rec' = Interrupted(R), prod' = Cancelled(R),
         \A q \in R : rec[q].status \in InflightStatuses
  PROVE  Settled' /\ OutcomesKept
<1>1. /\ \A q \in R : rec'[q].status = "interrupted"
      /\ \A q \in Runs \ R : rec'[q] = rec[q]
  BY TypedParts, InterruptedFacts
<1>2. /\ \A q \in Runs : prod'[q].pc = prod[q].pc
      /\ \A q \in Runs \ R : prod'[q] = prod[q]
      /\ \A q \in R : prod[q].pc \in Live => prod'[q].cancel
  BY TypedParts, CancelledFacts
<1>3. OneInflight' /\ AbortedNeverSucceeds'
  BY <1>1 DEF Settled, OneInflight, AbortedNeverSucceeds, InflightStatuses
<1>4. \A r \in Runs : rec'[r].status \in FinalStatuses => prod'[r].pc \notin Live
  BY <1>1, <1>2 DEF Settled, FinalStatuses
<1>5. \A r \in Runs : prod'[r].pc = "scheduled" /\ ~prod'[r].cancel =>
                          rec'[r].status \in {"pending", "none"}
  BY <1>1, <1>2 DEF Settled, Live
<1>6. OutcomesKept
  BY <1>1 DEF OutcomesKept, FinalStatuses, InflightStatuses
<1> QED
  BY <1>3, <1>4, <1>5, <1>6 DEF Settled

\* The producer of r takes a step, after set_status() if it sets one.
LEMMA SettledProduce ==
  ASSUME Typed, Settled, NEW r \in Runs, NEW pc, NEW status,
         rec'[r].status = status, rec'[r].abort = rec[r].abort,
         \A q \in Runs \ {r} : rec'[q] = rec[q],
         prod' = [prod EXCEPT ![r] = [pc |-> pc, cancel |-> FALSE]],
         status \in InflightStatuses => rec[r].status \in InflightStatuses,
         status = "success" => ~rec[r].abort,
         pc \in Live => status \notin FinalStatuses,
         status # rec[r].status => prod[r].pc \in Live,
         pc # "scheduled"
  PROVE  Settled' /\ OutcomesKept
<1>1. \A q \in Runs : prod'[q] = IF q = r THEN [pc |-> pc, cancel |-> FALSE] ELSE prod[q]
  BY TypedParts
<1>2. OneInflight' /\ AbortedNeverSucceeds'
  BY DEF Settled, OneInflight, AbortedNeverSucceeds
<1>3. OutcomesKept
  BY DEF OutcomesKept, Settled
<1> QED
  BY <1>1, <1>2, <1>3 DEF Settled

\* create_or_reject(): the thread's runs in flight are interrupted, if any, and
\* the new record is pending.
LEMMA SettledAdmit ==
  ASSUME Typed, Settled, NEW r \in Runs, Admit(r)
  PROVE  Settled' /\ OutcomesKept
<1> DEFINE t == ThreadOf[r]
           R == Inflight(t)
<1>1. /\ R \in SUBSET Runs /\ r \notin R
      /\ \A q \in R : rec[q].status \in InflightStatuses
      /\ \A q \in Runs \ R : ThreadOf[q] = t => rec[q].status \notin InflightStatuses
  BY DEF Admit, Inflight, InflightStatuses
<1>2. /\ Interrupted(R) \in [Runs -> RunRecord]
      /\ \A q \in R : Interrupted(R)[q].status = "interrupted"
      /\ \A q \in Runs \ R : Interrupted(R)[q] = rec[q]
  BY <1>1, TypedParts, InterruptedFacts
<1>3. PICK mode \in Modes :
        rec' = [Interrupted(R) EXCEPT
                  ![r] = [NoRecord EXCEPT !.status = "pending", !.mode = mode]]
  BY DEF Admit
<1>4. /\ rec'[r].status = "pending" /\ rec'[r].abort = FALSE
      /\ \A q \in R : rec'[q].status = "interrupted"
      /\ \A q \in Runs \ (R \cup {r}) : rec'[q] = rec[q]
      /\ rec[r].status = "none"
  BY <1>1, <1>2, <1>3 DEF NoRecord, Admit
<1>5. \A q \in Runs \ {r} : prod'[q] = Cancelled(R)[q]
  <2>1. prod' = [Cancelled(R) EXCEPT ![r].pc = "scheduled"]
    BY DEF Admit
  <2> QED
    BY <1>1, <2>1, TypedParts, CancelledFacts
<1>6. /\ \A q \in Runs \ {r} : prod'[q].pc = prod[q].pc
      /\ \A q \in Runs \ (R \cup {r}) : prod'[q] = prod[q]
      /\ \A q \in R : prod[q].pc \in Live => prod'[q].cancel
  BY <1>1, <1>5, TypedParts, CancelledFacts
<1>7. OneInflight'
  BY <1>1, <1>4 DEF Settled, OneInflight, InflightStatuses
<1>8. AbortedNeverSucceeds'
  BY <1>1, <1>4 DEF Settled, AbortedNeverSucceeds
<1>9. \A q \in Runs : rec'[q].status \in FinalStatuses => prod'[q].pc \notin Live
  BY <1>4, <1>6 DEF Settled, FinalStatuses
<1>10. \A q \in Runs : prod'[q].pc = "scheduled" /\ ~prod'[q].cancel =>
                          rec'[q].status \in {"pending", "none"}
  BY <1>4, <1>6 DEF Settled, Live
<1>11. OutcomesKept
  BY <1>1, <1>4 DEF OutcomesKept, FinalStatuses, InflightStatuses
<1> QED
  BY <1>7, <1>8, <1>9, <1>10, <1>11 DEF Settled

\* The producer's steps.
LEMMA SettledProducer ==
  ASSUME Typed, Settled, NEW r \in Runs, Produce(r)
  PROVE  Settled' /\ OutcomesKept
<1> USE TypedParts
<1>1. ASSUME NEW pc, UNCHANGED rec, pc \in Live => prod[r].pc \in Live, pc # "scheduled",
             prod' = [prod EXCEPT ![r] = [pc |-> pc, cancel |-> FALSE]]
      PROVE  Settled' /\ OutcomesKept
  <2>1. \A q \in Runs : prod'[q] = IF q = r THEN [pc |-> pc, cancel |-> FALSE] ELSE prod[q]
    BY <1>1
  <2> QED
    BY <1>1, <2>1, SettledQuiet
<1>2. ASSUME NEW status \in Statuses \ InflightStatuses, SetStatus(r, status),
             prod[r].pc \in Live, Finally(r), status = "success" => ~rec[r].abort
      PROVE  Settled' /\ OutcomesKept
  <2>1. /\ \A q \in Runs \ {r} : rec'[q] = rec[q]
        /\ rec'[r].abort = rec[r].abort
        /\ rec'[r].status = IF rec[r].status = "none" THEN "none" ELSE status
    BY <1>2, SetStatusFacts
  <2>2. prod' = [prod EXCEPT ![r] = [pc |-> "ending", cancel |-> FALSE]]
    BY <1>2 DEF Finally
  <2>3. rec'[r].status \notin InflightStatuses
    BY <1>2, <2>1 DEF InflightStatuses
  <2>4. "ending" \notin Live
    BY DEF Live, Handlers
  <2>5. rec'[r].status = "success" => ~rec[r].abort
    BY <1>2, <2>1
  <2> QED
    BY <1>2, <2>1, <2>2, <2>3, <2>4, <2>5, SettledProduce
<1>3. CASE NeverStarted(r)
  <2>1. "killed" \notin Live
    BY DEF Live, Handlers
  <2>2. UNCHANGED rec /\ prod' = [prod EXCEPT ![r] = [pc |-> "killed", cancel |-> FALSE]]
    BY <1>3 DEF NeverStarted
  <2> QED
    BY <1>1, <2>1, <2>2
<1>4. CASE Begin(r)
  <2>1. SetStatus(r, "running") /\ prod[r].pc = "scheduled" /\ ~prod[r].cancel
    BY <1>4 DEF Begin
  <2>2. /\ \A q \in Runs \ {r} : rec'[q] = rec[q]
        /\ rec'[r].abort = rec[r].abort
        /\ rec'[r].status = IF rec[r].status = "none" THEN "none" ELSE "running"
    BY <2>1, SetStatusFacts DEF Statuses, InflightStatuses
  <2>3. prod' = [prod EXCEPT ![r] = [pc |-> "streaming", cancel |-> FALSE]]
    BY <1>4 DEF Begin
  <2>4. rec[r].status \in {"pending", "none"}
    BY <2>1 DEF Settled
  <2>5. /\ rec'[r].status \in InflightStatuses => rec[r].status \in InflightStatuses
        /\ rec'[r].status \notin FinalStatuses
        /\ prod[r].pc \in Live
        /\ rec'[r].status # "success"
    BY <2>1, <2>2, <2>4 DEF InflightStatuses, FinalStatuses, Live
  <2> QED
    BY <2>2, <2>3, <2>5, SettledProduce
<1>5. CASE Complete(r)
  <2>1. PICK status \in Outcomes(r) : SetStatus(r, status)
    BY <1>5 DEF Complete
  <2>2. /\ status \in Statuses \ InflightStatuses
        /\ status = "success" => ~rec[r].abort
    BY <2>1 DEF Outcomes, Statuses, InflightStatuses, FailedStatuses
  <2>3. prod[r].pc \in Live /\ Finally(r)
    BY <1>5 DEF Complete, Live
  <2> QED
    BY <1>2, <2>1, <2>2, <2>3
<1>6. CASE SwallowCancel(r)
  <2>1. prod[r].pc = "streaming" /\ UNCHANGED rec
    BY <1>6 DEF SwallowCancel
  <2>2. prod' = [prod EXCEPT ![r] = [pc |-> "streaming", cancel |-> FALSE]]
    BY <1>6 DEF SwallowCancel
  <2> QED
    BY <1>1, <2>1, <2>2
<1>7. CASE Fails(r)
  <2>1. prod[r].pc \in Live /\ UNCHANGED rec
    BY <1>7 DEF Fails, Live
  <2>2. PICK handler \in Handlers :
          prod' = [prod EXCEPT ![r] = [pc |-> handler, cancel |-> FALSE]]
    BY <1>7 DEF Fails, Handlers
  <2>3. handler # "scheduled"
    BY DEF Handlers
  <2> QED
    BY <1>1, <2>1, <2>2, <2>3
<1>8. CASE Handled(r)
  <2>1. /\ StatusOf(prod[r].pc) \in Statuses \ InflightStatuses
        /\ StatusOf(prod[r].pc) # "success"
    BY <1>8 DEF Handled, Handlers, StatusOf, Statuses, FailedStatuses, InflightStatuses
  <2>2. prod[r].pc \in Live /\ Finally(r) /\ SetStatus(r, StatusOf(prod[r].pc))
    BY <1>8 DEF Handled, Live
  <2> QED
    BY <1>2, <2>1, <2>2
<1>9. CASE HandlerBroken(r)
  <2>1. "ending" \notin Live
    BY DEF Live, Handlers
  <2>2. UNCHANGED rec /\ prod' = [prod EXCEPT ![r] = [pc |-> "ending", cancel |-> FALSE]]
    BY <1>9 DEF HandlerBroken, Finally
  <2> QED
    BY <1>1, <2>1, <2>2
<1>10. CASE End(r) \/ EndBroken(r)
  <2>1. PICK pc \in {"done", "cut"} :
          UNCHANGED rec /\ prod' = [prod EXCEPT ![r] = [pc |-> pc, cancel |-> FALSE]]
    BY <1>10 DEF End, EndBroken
  <2>2. pc \notin Live
    BY DEF Live, Handlers
  <2> QED
    BY <1>1, <2>1, <2>2
<1> QED
  BY <1>3, <1>4, <1>5, <1>6, <1>7, <1>8, <1>9, <1>10 DEF Produce

\* Every step keeps the records settled and final outcomes final.
LEMMA SettledStep ==
  ASSUME Typed, Settled, [Next]_vars PROVE Settled' /\ OutcomesKept
<1> USE TypedParts
<1>1. ASSUME UNCHANGED <<rec, prod>> PROVE Settled' /\ OutcomesKept
  BY <1>1, SettledQuiet
<1>2. ASSUME NEW t \in Threads, ThreadStep(t) PROVE Settled' /\ OutcomesKept
  BY <1>1, <1>2 DEF ThreadStep, ReserveArchive, ReleaseArchive, BeginDelete, EndDelete
<1>3. ASSUME NEW r \in Runs, Request(r) PROVE Settled' /\ OutcomesKept
  <2>1. CASE AdmitRefused(r)
    <3>1. /\ Inflight(ThreadOf[r]) \in SUBSET Runs
          /\ \A q \in Inflight(ThreadOf[r]) : rec[q].status \in InflightStatuses
      BY DEF Inflight
    <3> QED
      BY <2>1, <3>1, SettledCancel DEF AdmitRefused
  <2>2. CASE CancelRun(r)
    BY <2>2, SettledCancel DEF CancelRun, MayCancel
  <2>3. CASE DispatchCancels(r)
    <3>1. [prod[r] EXCEPT !.cancel = TRUE].pc = prod[r].pc
          /\ [prod[r] EXCEPT !.cancel = TRUE].cancel
      <4>1. prod[r] \in ProducerRecord
        OBVIOUS
      <4> QED
        BY <4>1 DEF ProducerRecord
    <3>2. /\ UNCHANGED rec
          /\ \A q \in Runs : prod'[q].pc = prod[q].pc
          /\ \A q \in Runs : q = r \/ prod'[q] = prod[q]
          /\ prod'[r].cancel
      BY <2>3, <3>1 DEF DispatchCancels
    <3> QED
      BY <3>2, SettledQuiet
  <2> QED
    BY <1>3, <2>1, <2>2, <2>3, SettledAdmit DEF Request
<1>4. ASSUME NEW c \in Clients, Subscriber(c) PROVE Settled' /\ OutcomesKept
  <2>1. CASE Disconnect(c)
    <3>1. CASE client[c].pc = "opening"
      BY <1>1, <2>1, <3>1 DEF Disconnect
    <3>2. CASE client[c].pc # "opening"
      <4>1. PICK R \in {{}} \cup (IF rec[client[c].run].mode = "cancel" /\ MayCancel(client[c].run)
                                THEN {{client[c].run}} ELSE {}) :
              rec' = Interrupted(R) /\ prod' = Cancelled(R)
        BY <2>1, <3>2 DEF Disconnect
      <4>2. client[c].run \in Runs
        BY <2>1 DEF Disconnect
      <4>3. R \in SUBSET Runs /\ \A q \in R : rec[q].status \in InflightStatuses
        BY <4>1, <4>2 DEF MayCancel
      <4> QED
        BY <4>1, <4>3, SettledCancel
    <3> QED
      BY <3>1, <3>2
  <2>2. CASE ~Disconnect(c)
    BY <1>1, <1>4, <2>2 DEF Subscriber, Connect, Attach, Subscribe, ReadEnd, Conclude, ReadFails
  <2> QED
    BY <2>1, <2>2
<1>5. ASSUME NEW r \in Runs, Retire(r) PROVE Settled' /\ OutcomesKept
  <2>1. CASE ExpireRunReplay(r)
    <3>1. \A q \in Runs : rec'[q].status = rec[q].status /\ rec'[q].abort = rec[q].abort
      <4>1. rec' = [rec EXCEPT ![r] = [rec[r] EXCEPT
                     !.expired = (rec[r].expired \/ rec[r].status # "none")]]
        BY <2>1 DEF ExpireRunReplay
      <4>2. rec[r] \in RunRecord
        OBVIOUS
      <4>3. /\ [rec[r] EXCEPT !.expired = (rec[r].expired \/ rec[r].status # "none")].status
                  = rec[r].status
            /\ [rec[r] EXCEPT !.expired = (rec[r].expired \/ rec[r].status # "none")].abort
                  = rec[r].abort
        BY <4>2 DEF RunRecord
      <4> QED
        BY <4>1, <4>3
    <3> QED
      BY <2>1, <3>1, SettledQuiet DEF ExpireRunReplay
  <2>2. CASE CleanupRunLifecycle(r)
    <3>1. /\ UNCHANGED prod
          /\ rec'[r].status = "none" /\ rec'[r].abort = FALSE
          /\ \A q \in Runs \ {r} : rec'[q] = rec[q]
      BY <2>2 DEF CleanupRunLifecycle, NoRecord
    <3>2. OneInflight' /\ AbortedNeverSucceeds'
      BY <3>1 DEF Settled, OneInflight, AbortedNeverSucceeds, InflightStatuses
    <3> QED
      BY <3>1, <3>2 DEF Settled, OutcomesKept, FinalStatuses
  <2>3. CASE GraceElapses(r) \/ ReplayElapses(r) \/ MetadataElapses(r) \/ CleanupFails(r)
    BY <1>1, <2>3 DEF GraceElapses, ReplayElapses, MetadataElapses, CleanupFails
  <2> QED
    BY <1>5, <2>1, <2>2, <2>3 DEF Retire
<1>6. CASE UNCHANGED vars
  BY <1>1, <1>6 DEF vars
<1> QED
  BY <1>2, <1>3, <1>4, <1>5, <1>6, SettledProducer DEF Next

\* The first state is settled.
LEMMA SettledInit ==
  ASSUME Init PROVE Settled
BY DEF Init, Settled, NoRecord, OneInflight, AbortedNeverSucceeds, InflightStatuses, FinalStatuses

\* create_or_reject() and cancel() together leave at most one pending or running
\* run on a thread.
THEOREM AtMostOneInflight == Spec => []OneInflight
<1>1. Init => Typed /\ Settled
  BY TypedInit, SettledInit
<1>2. Typed /\ Settled /\ [Next]_vars => (Typed /\ Settled)'
  BY TypedStep, SettledStep
<1>3. Settled => OneInflight
  BY DEF Settled
<1> QED
  BY <1>1, <1>2, <1>3, PTL DEF Spec

\* A run that was asked to stop is never recorded as a success.
THEOREM AbortIsHonoured == Spec => []AbortedNeverSucceeds
<1>1. Init => Typed /\ Settled
  BY TypedInit, SettledInit
<1>2. Typed /\ Settled /\ [Next]_vars => (Typed /\ Settled)'
  BY TypedStep, SettledStep
<1>3. Settled => AbortedNeverSucceeds
  BY DEF Settled
<1> QED
  BY <1>1, <1>2, <1>3, PTL DEF Spec

\* A success, an error or a timeout is not overwritten by a later cancellation or
\* handler; only the removal of the record ends it.
THEOREM OutcomesAreFinal == Spec => OutcomeIsFinal
<1>1. Init => Typed /\ Settled
  BY TypedInit, SettledInit
<1>2. Typed /\ Settled /\ [Next]_vars => (Typed /\ Settled)'
  BY TypedStep, SettledStep
<1>3. Typed /\ Settled /\ [Next]_vars =>
        [\A r \in Runs : rec[r].status \in {"success", "error", "timeout"} =>
           rec'[r].status \in {rec[r].status, "none"}]_vars
  BY SettledStep DEF OutcomesKept, FinalStatuses
<1> QED
  BY <1>1, <1>2, <1>3, PTL DEF Spec, OutcomeIsFinal

-----------------------------------------------------------------------------
(* Abandoned records *)

\* No record is abandoned by the step, unless a fault of its own run does it.
NobodyAbandons ==
  \A r \in Runs : Abandoned(r)' => Abandoned(r) \/ HandlerBroken(r) \/ NeverStarted(r)

\* A step that puts no record in flight and takes no producer of one away.
LEMMA AbandonsQuiet ==
  ASSUME \A q \in Runs : rec'[q].status \in InflightStatuses =>
           /\ rec[q].status \in InflightStatuses
           /\ prod[q].pc \in Live => prod'[q].pc \in Live
  PROVE  NobodyAbandons
BY DEF NobodyAbandons, Abandoned

\* cancel() of the runs R: what it takes from the flight is not abandoned.
LEMMA AbandonsCancel ==
  ASSUME Typed, NEW R \in SUBSET Runs, rec' = Interrupted(R), prod' = Cancelled(R)
  PROVE  NobodyAbandons
<1>1. /\ \A q \in R : rec'[q].status = "interrupted"
      /\ \A q \in Runs \ R : rec'[q] = rec[q]
  BY TypedParts, InterruptedFacts
<1>2. \A q \in Runs : prod'[q].pc = prod[q].pc
  BY TypedParts, CancelledFacts
<1> QED
  BY <1>1, <1>2, AbandonsQuiet DEF InflightStatuses

\* A new record has a producer, and those it interrupts are not in flight.
LEMMA AbandonsAdmit ==
  ASSUME Typed, NEW r \in Runs, Admit(r)
  PROVE  NobodyAbandons
<1> DEFINE R == Inflight(ThreadOf[r])
<1>1. R \in SUBSET Runs
  BY DEF Inflight
<1>2. PICK mode \in Modes :
        /\ rec' = [Interrupted(R) EXCEPT
                     ![r] = [NoRecord EXCEPT !.status = "pending", !.mode = mode]]
        /\ prod' = [Cancelled(R) EXCEPT ![r].pc = "scheduled"]
  BY DEF Admit
<1>3. /\ Interrupted(R) \in [Runs -> RunRecord]
      /\ \A q \in R : Interrupted(R)[q].status = "interrupted"
      /\ \A q \in Runs \ R : Interrupted(R)[q] = rec[q]
      /\ Cancelled(R) \in [Runs -> ProducerRecord]
      /\ \A q \in Runs : Cancelled(R)[q].pc = prod[q].pc
  BY <1>1, TypedParts, InterruptedFacts, CancelledFacts
<1>4. prod'[r].pc \in Live
  <2>1. prod'[r] = [Cancelled(R)[r] EXCEPT !.pc = "scheduled"]
    BY <1>2, <1>3
  <2>2. Cancelled(R)[r] \in ProducerRecord
    BY <1>3
  <2> QED
    BY <2>1, <2>2 DEF ProducerRecord, Live
<1>5. \A q \in Runs \ {r} : /\ rec'[q] = Interrupted(R)[q]
                            /\ prod'[q].pc = prod[q].pc
  BY <1>2, <1>3
<1> QED
  BY <1>3, <1>4, <1>5 DEF NobodyAbandons, Abandoned, InflightStatuses

\* A producer that leaves its run without a fault has given it an outcome.
LEMMA AbandonsProducer ==
  ASSUME Typed, NEW r \in Runs, Produce(r)
  PROVE  NobodyAbandons
<1> USE TypedParts
<1>1. ASSUME \A q \in Runs \ {r} : rec'[q] = rec[q] /\ prod'[q] = prod[q],
             Abandoned(r)' => Abandoned(r) \/ HandlerBroken(r) \/ NeverStarted(r)
      PROVE  NobodyAbandons
  BY <1>1 DEF NobodyAbandons, Abandoned
<1>2. ASSUME NEW status \in Statuses \ InflightStatuses, SetStatus(r, status), Finally(r)
      PROVE  NobodyAbandons
  <2>1. /\ \A q \in Runs \ {r} : rec'[q] = rec[q] /\ prod'[q] = prod[q]
        /\ rec'[r].status \in {"none", status}
    BY <1>2, SetStatusFacts DEF Finally
  <2>2. rec'[r].status \notin InflightStatuses
    BY <1>2, <2>1 DEF InflightStatuses
  <2> QED
    BY <1>1, <2>1, <2>2 DEF Abandoned
<1>3. ASSUME NEW pc, UNCHANGED rec, prod[r].pc \in Live => pc \in Live,
             prod' = [prod EXCEPT ![r] = [pc |-> pc, cancel |-> FALSE]]
      PROVE  NobodyAbandons
  <2>1. \A q \in Runs : prod'[q].pc = IF q = r THEN pc ELSE prod[q].pc
    BY <1>3
  <2> QED
    BY <1>3, <2>1, AbandonsQuiet
<1>4. CASE NeverStarted(r)
  <2>1. \A q \in Runs \ {r} : rec'[q] = rec[q] /\ prod'[q] = prod[q]
    BY <1>4 DEF NeverStarted
  <2> QED
    BY <1>1, <1>4, <2>1
<1>5. CASE HandlerBroken(r)
  <2>1. \A q \in Runs \ {r} : rec'[q] = rec[q] /\ prod'[q] = prod[q]
    BY <1>5 DEF HandlerBroken, Finally
  <2> QED
    BY <1>1, <1>5, <2>1
<1>6. CASE Begin(r)
  <2>1. \A q \in Runs \ {r} : rec'[q] = rec[q] /\ prod'[q] = prod[q]
    <3>1. "running" \in Statuses
      BY DEF Statuses, InflightStatuses
    <3> QED
      BY <1>6, <3>1, SetStatusFacts DEF Begin
  <2>2. prod'[r].pc \in Live
    BY <1>6 DEF Begin, Live
  <2> QED
    BY <1>1, <2>1, <2>2 DEF Abandoned
<1>7. CASE Complete(r)
  <2>1. PICK status \in Outcomes(r) : SetStatus(r, status)
    BY <1>7 DEF Complete
  <2>2. status \in Statuses \ InflightStatuses
    BY DEF Outcomes, Statuses, FailedStatuses, InflightStatuses
  <2> QED
    BY <1>2, <1>7, <2>1, <2>2 DEF Complete
<1>8. CASE Handled(r)
  <2>1. StatusOf(prod[r].pc) \in Statuses \ InflightStatuses
    BY <1>8 DEF Handled, Handlers, StatusOf, Statuses, FailedStatuses, InflightStatuses
  <2> QED
    BY <1>2, <1>8, <2>1 DEF Handled
<1>9. CASE SwallowCancel(r)
  <2>1. /\ UNCHANGED rec /\ "streaming" \in Live
        /\ prod' = [prod EXCEPT ![r] = [pc |-> "streaming", cancel |-> FALSE]]
    BY <1>9 DEF SwallowCancel, Live
  <2> QED
    BY <1>3, <2>1
<1>10. CASE Fails(r)
  <2>1. PICK handler \in Handlers :
          prod' = [prod EXCEPT ![r] = [pc |-> handler, cancel |-> FALSE]]
    BY <1>10 DEF Fails, Handlers
  <2>2. UNCHANGED rec /\ handler \in Live
    BY <1>10 DEF Fails, Live
  <2> QED
    BY <1>3, <2>1, <2>2
<1>11. CASE End(r) \/ EndBroken(r)
  <2>1. PICK pc \in {"done", "cut"} :
          UNCHANGED rec /\ prod' = [prod EXCEPT ![r] = [pc |-> pc, cancel |-> FALSE]]
    BY <1>11 DEF End, EndBroken
  <2>2. prod[r].pc = "ending"
    BY <1>11 DEF End, EndBroken
  <2>3. "ending" \notin Live
    BY DEF Live, Handlers
  <2> QED
    BY <1>3, <2>1, <2>2, <2>3
<1> QED
  BY <1>4, <1>5, <1>6, <1>7, <1>8, <1>9, <1>10, <1>11 DEF Produce

\* Every step.
LEMMA AbandonsStep ==
  ASSUME Typed, [Next]_vars PROVE NobodyAbandons
<1> USE TypedParts
<1>1. ASSUME UNCHANGED <<rec, prod>> PROVE NobodyAbandons
  BY <1>1, AbandonsQuiet
<1>2. ASSUME NEW t \in Threads, ThreadStep(t) PROVE NobodyAbandons
  BY <1>1, <1>2 DEF ThreadStep, ReserveArchive, ReleaseArchive, BeginDelete, EndDelete
<1>3. ASSUME NEW r \in Runs, Request(r) PROVE NobodyAbandons
  <2>1. CASE AdmitRefused(r)
    <3>1. Inflight(ThreadOf[r]) \in SUBSET Runs
      BY DEF Inflight
    <3> QED
      BY <2>1, <3>1, AbandonsCancel DEF AdmitRefused
  <2>2. CASE CancelRun(r)
    BY <2>2, AbandonsCancel DEF CancelRun
  <2>3. CASE DispatchCancels(r)
    <3>1. [prod[r] EXCEPT !.cancel = TRUE].pc = prod[r].pc
      <4>1. prod[r] \in ProducerRecord
        OBVIOUS
      <4> QED
        BY <4>1 DEF ProducerRecord
    <3>2. UNCHANGED rec /\ \A q \in Runs : prod'[q].pc = prod[q].pc
      BY <2>3, <3>1 DEF DispatchCancels
    <3> QED
      BY <3>2, AbandonsQuiet
  <2> QED
    BY <1>3, <2>1, <2>2, <2>3, AbandonsAdmit DEF Request
<1>4. ASSUME NEW c \in Clients, Subscriber(c) PROVE NobodyAbandons
  <2>1. CASE Disconnect(c) /\ client[c].pc # "opening"
    <3>1. PICK R \in {{}} \cup (IF rec[client[c].run].mode = "cancel" /\ MayCancel(client[c].run)
                              THEN {{client[c].run}} ELSE {}) :
            rec' = Interrupted(R) /\ prod' = Cancelled(R)
      BY <2>1 DEF Disconnect
    <3>2. R \in SUBSET Runs
      BY <2>1, <3>1 DEF Disconnect
    <3> QED
      BY <3>1, <3>2, AbandonsCancel
  <2>2. CASE Disconnect(c) /\ client[c].pc = "opening"
    BY <1>1, <2>2 DEF Disconnect
  <2>3. CASE ~Disconnect(c)
    BY <1>1, <1>4, <2>3 DEF Subscriber, Connect, Attach, Subscribe, ReadEnd, Conclude, ReadFails
  <2> QED
    BY <2>1, <2>2, <2>3
<1>5. ASSUME NEW r \in Runs, Retire(r) PROVE NobodyAbandons
  <2>1. CASE ExpireRunReplay(r)
    <3>1. [rec[r] EXCEPT !.expired = (rec[r].expired \/ rec[r].status # "none")].status
            = rec[r].status
      <4>1. rec[r] \in RunRecord
        OBVIOUS
      <4> QED
        BY <4>1 DEF RunRecord
    <3>2. UNCHANGED prod /\ \A q \in Runs : rec'[q].status = rec[q].status
      BY <2>1, <3>1 DEF ExpireRunReplay
    <3> QED
      BY <3>2, AbandonsQuiet
  <2>2. CASE CleanupRunLifecycle(r)
    <3>1. /\ UNCHANGED prod
          /\ \A q \in Runs : rec'[q].status \in {rec[q].status, "none"}
      BY <2>2 DEF CleanupRunLifecycle, NoRecord
    <3> QED
      BY <3>1, AbandonsQuiet DEF InflightStatuses
  <2>3. CASE GraceElapses(r) \/ ReplayElapses(r) \/ MetadataElapses(r) \/ CleanupFails(r)
    BY <1>1, <2>3 DEF GraceElapses, ReplayElapses, MetadataElapses, CleanupFails
  <2> QED
    BY <1>5, <2>1, <2>2, <2>3 DEF Retire
<1>6. CASE UNCHANGED vars
  BY <1>1, <1>6 DEF vars
<1> QED
  BY <1>2, <1>3, <1>4, <1>5, <1>6, AbandonsProducer DEF Next

\* create_or_reject refuses a thread with a run in flight: only a handler broken off
\* at its publish() and a task that never started leave one that nothing ends.
THEOREM FaultsAbandon == Spec => OnlyFaultsAbandon
<1>1. Init => Typed
  BY TypedInit
<1>2. Typed /\ [Next]_vars => Typed'
  BY TypedStep
<1>3. Typed /\ [Next]_vars =>
        [\A r \in Runs : Abandoned(r)' => Abandoned(r) \/ HandlerBroken(r) \/ NeverStarted(r)]_vars
  BY AbandonsStep DEF NobodyAbandons
<1> QED
  BY <1>1, <1>2, <1>3, PTL DEF Spec, OnlyFaultsAbandon

-----------------------------------------------------------------------------
(* Who is attached *)

Watchers(r) == {c \in Clients : Attached(c) /\ client[c].run = r}

\* Nothing is known of a run before it is admitted.
Unadmitted(r) ==
  /\ rec[r].status = "none" /\ stream[r] = "none" /\ subs[r] = 0
  /\ ~prod[r].cancel /\ ~Reading(r)
  /\ \A kind : <<kind, r>> \notin timers \cup jobs

\* _stream_subscribers counts who is attached to a run that has a record, and a
\* ticking grace has nobody attached.
Attended(r) ==
  rec[r].status # "none" =>
    /\ IsFiniteSet(Watchers(r)) /\ subs[r] = Cardinality(Watchers(r))
    /\ <<"grace", r>> \in timers => Watchers(r) = {}

Watched == \A r \in Runs : (prod[r].pc = "none" => Unadmitted(r)) /\ Attended(r)

\* A step about the run r leaves the other runs alone.
Elsewhere(r) ==
  \A q \in Runs \ {r} :
    /\ rec'[q] = rec[q] /\ prod'[q] = prod[q]
    /\ stream'[q] = stream[q] /\ subs'[q] = subs[q]
    /\ \A kind : /\ <<kind, q>> \in timers' <=> <<kind, q>> \in timers
                 /\ <<kind, q>> \in jobs' <=> <<kind, q>> \in jobs
    /\ Watchers(q)' = Watchers(q)
    /\ Reading(q)' <=> Reading(q)

\* The replay has been let go of, with its record or before it.
LetGo(r) == rec[r].expired \/ rec[r].status = "none"

\* What the step of a generator may do to its own run.
Serves(r) ==
  /\ stream'[r] = stream[r] \/ (stream[r] = "none" /\ stream'[r] = "open")
  /\ \/ UNCHANGED <<rec, prod>>
     \/ /\ rec[r].status \in InflightStatuses
        /\ rec' = Interrupted({r}) /\ prod' = Cancelled({r})

\* Whoever is attached reads.
LEMMA WatchersRead ==
  ASSUME NEW r, ~Reading(r) PROVE Watchers(r) = {}
BY DEF Reading, Watchers, Attached

\* The step of one subscriber of the run r.
LEMMA OneClientMoves ==
  ASSUME NEW c \in Clients, NEW r \in Runs,
         \A d \in Clients \ {c} : client'[d] = client[d],
         client[c].pc = "out" \/ client[c].run = r,
         client'[c].pc = "out" \/ client'[c].run = r
  PROVE  /\ \A q \in Runs \ {r} : Watchers(q)' = Watchers(q) /\ (Reading(q)' <=> Reading(q))
         /\ Watchers(r)' = IF Attached(c)' THEN Watchers(r) \cup {c} ELSE Watchers(r) \ {c}
         /\ client[c].pc # "out" => Reading(r)
         /\ Reading(r)' => Reading(r) \/ client'[c].pc # "out"
<1>1. \A q \in Runs \ {r} : Watchers(q)' = Watchers(q)
  BY DEF Watchers, Attached
<1>2. \A q \in Runs \ {r} : Reading(q)' <=> Reading(q)
  BY DEF Reading
<1>3. Watchers(r)' = IF Attached(c)' THEN Watchers(r) \cup {c} ELSE Watchers(r) \ {c}
  BY DEF Watchers, Attached
<1>4. /\ client[c].pc # "out" => Reading(r)
      /\ Reading(r)' => Reading(r) \/ client'[c].pc # "out"
  BY DEF Reading
<1> QED
  BY <1>1, <1>2, <1>3, <1>4

\* A producer's step is about its own run, and touches neither the subscribers nor
\* a ticking grace.
LEMMA ProduceMoves ==
  ASSUME Typed, NEW r \in Runs, Produce(r)
  PROVE  /\ Elsewhere(r)
         /\ UNCHANGED <<subs, jobs, client>>
         /\ prod[r].pc # "none" /\ prod'[r].pc # "none"
         /\ rec'[r].status = "none" <=> rec[r].status = "none"
         /\ rec'[r].expired = rec[r].expired
         /\ <<"grace", r>> \in timers' => <<"grace", r>> \in timers
<1> USE TypedParts
<1> DEFINE Recorded ==
      /\ \A q \in Runs \ {r} : rec'[q] = rec[q]
      /\ rec'[r].status = "none" <=> rec[r].status = "none"
      /\ rec'[r].expired = rec[r].expired
<1>0. UNCHANGED <<subs, jobs, client>>
  BY DEF Produce, NeverStarted, Begin, Complete, SwallowCancel, Fails, Handled, HandlerBroken,
         End, EndBroken, Finally, replay
<1>1. ASSUME NEW status \in Statuses \ {"none"}, SetStatus(r, status) PROVE Recorded
  BY <1>1, SetStatusFacts
<1>2. Recorded
  <2>1. CASE UNCHANGED rec
    BY <2>1
  <2>2. CASE Begin(r)
    <3>1. "running" \in Statuses \ {"none"}
      BY DEF Statuses, InflightStatuses
    <3> QED
      BY <1>1, <2>2, <3>1 DEF Begin
  <2>3. CASE Complete(r)
    <3>1. PICK status \in Outcomes(r) : SetStatus(r, status)
      BY <2>3 DEF Complete
    <3>2. status \in Statuses \ {"none"}
      BY DEF Outcomes, Statuses, FailedStatuses
    <3> QED
      BY <1>1, <3>1, <3>2
  <2>4. CASE Handled(r)
    <3>1. StatusOf(prod[r].pc) \in Statuses \ {"none"}
      BY <2>4 DEF Handled, Handlers, StatusOf, Statuses, FailedStatuses
    <3> QED
      BY <1>1, <2>4, <3>1 DEF Handled
  <2> QED
    BY <2>1, <2>2, <2>3, <2>4
       DEF Produce, NeverStarted, SwallowCancel, Fails, HandlerBroken, End, EndBroken
<1>3. /\ \A q \in Runs \ {r} : prod'[q] = prod[q]
      /\ prod[r].pc # "none" /\ prod'[r].pc # "none"
  <2>1. ASSUME NEW pc, pc # "none", prod[r].pc # "none",
               prod' = [prod EXCEPT ![r] = [pc |-> pc, cancel |-> FALSE]]
        PROVE  /\ \A q \in Runs \ {r} : prod'[q] = prod[q]
               /\ prod[r].pc # "none" /\ prod'[r].pc # "none"
    BY <2>1
  <2> USE DEF Handlers
  <2>2. CASE NeverStarted(r)
    BY <2>1, <2>2 DEF NeverStarted
  <2>3. CASE Begin(r)
    BY <2>1, <2>3 DEF Begin
  <2>4. CASE Complete(r)
    BY <2>1, <2>4 DEF Complete, Finally
  <2>5. CASE SwallowCancel(r)
    BY <2>1, <2>5 DEF SwallowCancel
  <2>6. CASE Fails(r)
    BY <2>1, <2>6 DEF Fails
  <2>7. CASE Handled(r)
    BY <2>1, <2>7 DEF Handled, Finally
  <2>8. CASE HandlerBroken(r)
    BY <2>1, <2>8 DEF HandlerBroken, Finally
  <2>9. CASE End(r)
    BY <2>1, <2>9 DEF End
  <2>10. CASE EndBroken(r)
    BY <2>1, <2>10 DEF EndBroken
  <2> QED
    BY <2>2, <2>3, <2>4, <2>5, <2>6, <2>7, <2>8, <2>9, <2>10 DEF Produce
<1>4. \A q \in Runs \ {r} : stream'[q] = stream[q]
  <2>1. stream' \in {stream, Ended(r)} \/ Begin(r)
    BY DEF Produce, NeverStarted, Complete, SwallowCancel, Fails, Handled, HandlerBroken,
           End, EndBroken, Finally, replay
  <2>2. stream \in [Runs -> {"none", "open", "ended", "expired"}]
    BY DEF Typed, TypeOK
  <2> QED
    BY <2>1, <2>2 DEF Begin, Ended
<1>5. timers' \in {timers, Retention(r)}
  BY DEF Produce, NeverStarted, Begin, Complete, SwallowCancel, Fails, Handled, HandlerBroken,
         End, EndBroken, Finally, replay
<1>6. /\ \A q \in Runs \ {r} : \A kind : <<kind, q>> \in timers' <=> <<kind, q>> \in timers
      /\ <<"grace", r>> \in timers' => <<"grace", r>> \in timers
  BY <1>5 DEF Retention
<1>7. \A q \in Runs : Watchers(q)' = Watchers(q) /\ (Reading(q)' <=> Reading(q))
  BY <1>0 DEF Watchers, Reading, Attached
<1>8. Elsewhere(r)
  BY <1>0, <1>2, <1>3, <1>4, <1>6, <1>7 DEF Elsewhere
<1> QED
  BY <1>0, <1>2, <1>3, <1>6, <1>8

\* cancel() of runs in flight gives and takes away no record.
LEMMA CancelMoves ==
  ASSUME Typed, NEW R \in SUBSET Runs, rec' = Interrupted(R), prod' = Cancelled(R),
         \A q \in R : rec[q].status \in InflightStatuses
  PROVE  \A q \in Runs : /\ rec'[q].status = "none" <=> rec[q].status = "none"
                         /\ rec'[q].expired = rec[q].expired
                         /\ prod'[q].pc = prod[q].pc
                         /\ q \notin R => rec'[q] = rec[q] /\ prod'[q] = prod[q]
<1>1. /\ \A q \in R : /\ rec'[q].status = "interrupted"
                     /\ rec'[q].expired = rec[q].expired
      /\ \A q \in Runs \ R : rec'[q] = rec[q]
  BY TypedParts, InterruptedFacts
<1>2. /\ \A q \in Runs : prod'[q].pc = prod[q].pc
      /\ \A q \in Runs \ R : prod'[q] = prod[q]
  BY TypedParts, CancelledFacts
<1> QED
  BY <1>1, <1>2 DEF InflightStatuses

\* It is enough to look at the run the step is about.
LEMMA WatchedLocal ==
  ASSUME Watched, NEW r \in Runs, Elsewhere(r), prod'[r].pc # "none", Attended(r)'
  PROVE  Watched'
<1> SUFFICES ASSUME NEW q \in Runs, q # r
             PROVE  (prod'[q].pc = "none" => Unadmitted(q)') /\ Attended(q)'
  BY DEF Watched
<1>1. /\ rec'[q] = rec[q] /\ prod'[q] = prod[q]
      /\ stream'[q] = stream[q] /\ subs'[q] = subs[q]
      /\ \A kind : /\ <<kind, q>> \in timers' <=> <<kind, q>> \in timers
                   /\ <<kind, q>> \in jobs' <=> <<kind, q>> \in jobs
      /\ Watchers(q)' = Watchers(q)
      /\ Reading(q)' <=> Reading(q)
  BY DEF Elsewhere
<1>2. (prod[q].pc = "none" => Unadmitted(q)) /\ Attended(q)
  BY DEF Watched
<1>3. prod'[q].pc = "none" => Unadmitted(q)'
  BY <1>1, <1>2 DEF Unadmitted
<1>4. Attended(q)'
  BY <1>1, <1>2 DEF Attended
<1> QED
  BY <1>3, <1>4

\* A step that touches records and producers only.
LEMMA WatchedRecords ==
  ASSUME Watched, UNCHANGED <<replay, client>>,
         \A q \in Runs : /\ rec'[q].status = "none" <=> rec[q].status = "none"
                         /\ prod'[q].pc = "none" => prod[q].pc = "none" /\ ~prod'[q].cancel
  PROVE  Watched'
<1>1. \A q : Watchers(q)' = Watchers(q) /\ (Reading(q)' <=> Reading(q))
  BY DEF Watchers, Reading, Attached
<1> QED
  BY <1>1 DEF Watched, Unadmitted, Attended, replay

\* create_or_reject() of a run that nobody knows yet.
LEMMA WatchedAdmit ==
  ASSUME Typed, Watched, NEW r \in Runs, Admit(r)
  PROVE  Watched'
<1> DEFINE R == Inflight(ThreadOf[r])
<1>1. R \in SUBSET Runs /\ r \notin R /\ \A q \in R : rec[q].status \in InflightStatuses
  BY DEF Inflight, Admit, InflightStatuses
<1>2. PICK mode \in Modes :
        /\ rec' = [Interrupted(R) EXCEPT
                     ![r] = [NoRecord EXCEPT !.status = "pending", !.mode = mode]]
        /\ prod' = [Cancelled(R) EXCEPT ![r].pc = "scheduled"]
  BY DEF Admit
<1>3. /\ Interrupted(R) \in [Runs -> RunRecord] /\ Cancelled(R) \in [Runs -> ProducerRecord]
      /\ \A q \in R : Interrupted(R)[q].status = "interrupted"
      /\ \A q \in Runs \ R : Interrupted(R)[q] = rec[q] /\ Cancelled(R)[q] = prod[q]
      /\ \A q \in Runs : Cancelled(R)[q].pc = prod[q].pc
  BY <1>1, TypedParts, InterruptedFacts, CancelledFacts
<1>4. Unadmitted(r) /\ UNCHANGED <<replay, client>>
  BY DEF Watched, Admit
<1>5. \A q : Watchers(q)' = Watchers(q) /\ (Reading(q)' <=> Reading(q))
  BY <1>4 DEF Watchers, Reading, Attached
<1>6. prod'[r].pc = "scheduled"
  <2>1. prod'[r] = [Cancelled(R)[r] EXCEPT !.pc = "scheduled"]
    BY <1>2, <1>3
  <2>2. Cancelled(R)[r] \in ProducerRecord
    BY <1>3
  <2> QED
    BY <2>1, <2>2 DEF ProducerRecord
<1>7. Attended(r)'
  <2>1. Watchers(r) = {}
    BY <1>4, WatchersRead DEF Unadmitted
  <2> QED
    BY <1>4, <1>5, <2>1, FS_EmptySet DEF Attended, Unadmitted, replay
<1>8. ASSUME NEW q \in Runs, q # r
      PROVE  (prod'[q].pc = "none" => Unadmitted(q)') /\ Attended(q)'
  <2>1. rec'[q] = Interrupted(R)[q] /\ prod'[q] = Cancelled(R)[q]
    BY <1>2, <1>3, <1>8
  <2>2. rec'[q].status = "none" <=> rec[q].status = "none"
    BY <1>1, <1>3, <2>1 DEF InflightStatuses
  <2>3. Attended(q) /\ (prod[q].pc = "none" => Unadmitted(q))
    BY DEF Watched
  <2>4. Attended(q)'
    BY <1>4, <1>5, <2>2, <2>3 DEF Attended, replay
  <2>5. prod'[q].pc = "none" => Unadmitted(q)'
    <3> SUFFICES ASSUME prod'[q].pc = "none" PROVE Unadmitted(q)'
      OBVIOUS
    <3>1. Unadmitted(q)
      BY <1>3, <2>1, <2>3
    <3>2. q \notin R
      BY <1>1, <3>1 DEF Unadmitted, InflightStatuses
    <3>3. prod'[q] = prod[q]
      BY <1>3, <2>1, <3>2
    <3> QED
      BY <1>4, <1>5, <2>2, <3>1, <3>3 DEF Unadmitted, replay
  <2> QED
    BY <2>4, <2>5
<1> QED
  BY <1>6, <1>7, <1>8 DEF Watched

\* detach_run_stream(): the last one to leave may start the grace.
LEMMA WatchedDetach ==
  ASSUME Typed, Watched, NEW c \in Clients, Attached(c), NEW r \in Runs, r = client[c].run,
         Detach(c, rec'), client'[c].pc = "out",
         \A d \in Clients \ {c} : client'[d] = client[d],
         \A q \in Runs : /\ rec'[q].status = "none" <=> rec[q].status = "none"
                         /\ prod'[q].pc = prod[q].pc
                         /\ q # r => rec'[q] = rec[q] /\ prod'[q] = prod[q]
  PROVE  Elsewhere(r) /\ Watched' /\ (Reading(r)' => Reading(r))
<1>1. subs \in [Runs -> Nat]
  BY DEF Typed, TypeOK
<1>2. /\ subs' = [subs EXCEPT ![r] = Left(r)]
      /\ timers' \in {timers, timers \cup {<<"grace", r>>}}
      /\ timers' # timers => Left(r) = 0
      /\ UNCHANGED <<stream, jobs>>
  BY DEF Detach
<1>3. /\ \A q \in Runs \ {r} : Watchers(q)' = Watchers(q) /\ (Reading(q)' <=> Reading(q))
      /\ Watchers(r)' = Watchers(r) \ {c}
      /\ Reading(r)
  <2>1. client[c].pc # "out" /\ ~Attached(c)'
    BY DEF Attached
  <2> QED
    BY <2>1, OneClientMoves
<1>4. \A q \in Runs \ {r} : \A kind : <<kind, q>> \in timers' <=> <<kind, q>> \in timers
  BY <1>2
<1>5. Elsewhere(r)
  BY <1>1, <1>2, <1>3, <1>4 DEF Elsewhere
<1>6. Attended(r)'
  <2> SUFFICES ASSUME rec'[r].status # "none"
               PROVE  /\ IsFiniteSet(Watchers(r)') /\ subs'[r] = Cardinality(Watchers(r)')
                      /\ <<"grace", r>> \in timers' => Watchers(r)' = {}
    BY DEF Attended
  <2>1. /\ IsFiniteSet(Watchers(r)) /\ subs[r] = Cardinality(Watchers(r))
        /\ <<"grace", r>> \in timers => Watchers(r) = {}
    BY DEF Watched, Attended
  <2>2. c \in Watchers(r)
    BY DEF Watchers
  <2>3. /\ IsFiniteSet(Watchers(r)')
        /\ Cardinality(Watchers(r)') = Cardinality(Watchers(r)) - 1
        /\ Cardinality(Watchers(r)') \in Nat
    BY <1>3, <2>1, <2>2, FS_RemoveElement, FS_CardinalityType
  <2>4. subs'[r] = subs[r] - 1 /\ Left(r) = subs[r] - 1
    BY <1>1, <1>2, <2>1, <2>3 DEF Left
  <2>5. <<"grace", r>> \in timers' => Watchers(r)' = {}
    BY <1>2, <2>1, <2>2, <2>3, <2>4, FS_EmptySet
  <2> QED
    BY <2>1, <2>3, <2>4, <2>5
<1>7. prod'[r].pc # "none"
  BY <1>3 DEF Watched, Unadmitted
<1> QED
  BY <1>3, <1>5, <1>6, <1>7, WatchedLocal

\* A generator's steps are about its own run, which has been admitted.
LEMMA SubscriberMoves ==
  ASSUME Typed, Watched, NEW c \in Clients, Subscriber(c)
  PROVE  /\ Watched'
         /\ \E r \in Runs : Elsewhere(r) /\ Serves(r)
<1> USE TypedParts
<1> SUFFICES ASSUME NEW r, r = client[c].run
             PROVE  Watched' /\ \E q \in Runs : Elsewhere(q) /\ Serves(q)
  OBVIOUS
<1>0. UNCHANGED gates
  BY DEF Subscriber, Connect, Attach, Subscribe, ReadEnd, Conclude, ReadFails, Disconnect
<1>1. ASSUME NEW q \in Runs, Connect(c, q) PROVE Elsewhere(q) /\ Serves(q) /\ Watched'
  <2>1. /\ client[c].pc = "out" /\ rec[q].status # "none"
        /\ client' = [client EXCEPT ![c] = [pc |-> "opening", run |-> q, told |-> "nothing"]]
        /\ UNCHANGED <<rec, prod, replay>>
    BY <1>1 DEF Connect
  <2>2. /\ client'[c].pc = "opening" /\ client'[c].run = q
        /\ \A d \in Clients \ {c} : client'[d] = client[d]
    BY <2>1
  <2>3. /\ \A p \in Runs \ {q} : Watchers(p)' = Watchers(p) /\ (Reading(p)' <=> Reading(p))
        /\ Watchers(q)' = Watchers(q) \ {c}
    BY <2>1, <2>2, OneClientMoves DEF Attached
  <2>4. Watchers(q)' = Watchers(q)
    BY <2>1, <2>3 DEF Watchers, Attached
  <2>5. Elsewhere(q)
    BY <2>1, <2>3 DEF Elsewhere, replay
  <2>6. Attended(q)' /\ prod'[q].pc # "none"
    BY <2>1, <2>4 DEF Watched, Attended, Unadmitted, replay
  <2>7. Serves(q)
    BY <2>1 DEF Serves, replay
  <2> QED
    BY <2>5, <2>6, <2>7, WatchedLocal
<1>2. ASSUME Attach(c) PROVE r \in Runs /\ Elsewhere(r) /\ Serves(r) /\ Watched'
  <2>1. /\ client[c].pc = "opening" /\ r \in Runs
        /\ client' = [client EXCEPT ![c].pc = "attached"]
        /\ subs' = [subs EXCEPT ![r] = subs[r] + 1]
        /\ timers' = timers \ {<<"grace", r>>}
        /\ UNCHANGED <<rec, prod, stream, jobs>>
    BY <1>2 DEF Attach
  <2>2. /\ client'[c].pc = "attached" /\ client'[c].run = r
        /\ \A d \in Clients \ {c} : client'[d] = client[d]
    BY <2>1 DEF ClientRecord
  <2>3. /\ \A p \in Runs \ {r} : Watchers(p)' = Watchers(p) /\ (Reading(p)' <=> Reading(p))
        /\ Watchers(r)' = Watchers(r) \cup {c}
        /\ Reading(r)
    BY <2>1, <2>2, OneClientMoves DEF Attached
  <2>4. subs \in [Runs -> Nat]
    BY DEF Typed, TypeOK
  <2>5. Elsewhere(r)
    BY <2>1, <2>3, <2>4 DEF Elsewhere
  <2>6. Attended(r)'
    <3> SUFFICES ASSUME rec[r].status # "none"
                 PROVE  /\ IsFiniteSet(Watchers(r)') /\ subs'[r] = Cardinality(Watchers(r)')
                        /\ <<"grace", r>> \in timers' => Watchers(r)' = {}
      BY <2>1 DEF Attended
    <3>1. IsFiniteSet(Watchers(r)) /\ subs[r] = Cardinality(Watchers(r))
      BY <2>1 DEF Watched, Attended
    <3>2. c \notin Watchers(r)
      BY <2>1 DEF Watchers, Attached
    <3>3. /\ IsFiniteSet(Watchers(r)')
          /\ Cardinality(Watchers(r)') = Cardinality(Watchers(r)) + 1
      BY <2>3, <3>1, <3>2, FS_AddElement
    <3> QED
      BY <2>1, <2>4, <3>1, <3>3
  <2>7. prod'[r].pc # "none"
    BY <2>1, <2>3 DEF Watched, Unadmitted
  <2>8. Serves(r)
    BY <2>1, <2>3 DEF Serves
  <2> QED
    BY <2>1, <2>5, <2>6, <2>7, <2>8, WatchedLocal
<1>3. ASSUME Subscribe(c) PROVE r \in Runs /\ Elsewhere(r) /\ Serves(r) /\ Watched'
  <2>1. /\ client[c].pc = "attached" /\ r \in Runs
        /\ \E pc \in {"reading", "drained"} : client' = [client EXCEPT ![c].pc = pc]
        /\ \/ UNCHANGED stream
           \/ stream[r] = "none" /\ stream' = [stream EXCEPT ![r] = "open"]
        /\ UNCHANGED <<rec, prod, subs, timers, jobs>>
    BY <1>3 DEF Subscribe
  <2>2. /\ client'[c].pc \in {"reading", "drained"} /\ client'[c].run = r
        /\ \A d \in Clients \ {c} : client'[d] = client[d]
    BY <2>1 DEF ClientRecord
  <2>3. /\ \A p \in Runs \ {r} : Watchers(p)' = Watchers(p) /\ (Reading(p)' <=> Reading(p))
        /\ Watchers(r)' = Watchers(r) \cup {c}
        /\ Reading(r)
    BY <2>1, <2>2, OneClientMoves DEF Attached
  <2>4. Watchers(r)' = Watchers(r)
    BY <2>1, <2>3 DEF Watchers, Attached
  <2>5. Elsewhere(r)
    BY <2>1, <2>3 DEF Elsewhere, Typed, TypeOK
  <2>6. Attended(r)' /\ prod'[r].pc # "none"
    BY <2>1, <2>3, <2>4 DEF Watched, Attended, Unadmitted
  <2>7. Serves(r)
    BY <2>1, <2>3 DEF Serves, Typed, TypeOK
  <2> QED
    BY <2>1, <2>5, <2>6, <2>7, WatchedLocal
<1>4. ASSUME Attached(c), NEW told, client' = [client EXCEPT ![c] = [Nobody EXCEPT !.told = told]],
             Detach(c, rec), UNCHANGED <<rec, prod>>
      PROVE  r \in Runs /\ Elsewhere(r) /\ Serves(r) /\ Watched'
  <2>1. r \in Runs
    BY <1>4 DEF Attached
  <2>2. client'[c].pc = "out" /\ \A d \in Clients \ {c} : client'[d] = client[d]
    BY <1>4 DEF Nobody
  <2>3. Detach(c, rec')
    BY <1>4 DEF Detach
  <2>4. Elsewhere(r) /\ Watched'
    BY <1>4, <2>1, <2>2, <2>3, WatchedDetach
  <2>5. Serves(r)
    BY <1>4 DEF Serves, Detach
  <2> QED
    BY <2>1, <2>4, <2>5
<1>5. CASE Conclude(c)
  <2>1. Attached(c) /\ Detach(c, rec) /\ UNCHANGED <<rec, prod>>
    BY <1>5 DEF Conclude, Attached
  <2>2. client' = [client EXCEPT ![c] = [Nobody EXCEPT !.told = Verdict(rec[r].status)]]
    BY <1>5 DEF Conclude
  <2> QED
    BY <1>4, <2>1, <2>2
<1>6. CASE ReadEnd(c)
  <2>1. /\ client[c].pc = "reading" /\ r \in Runs
        /\ client' = [client EXCEPT ![c].pc = "drained"]
        /\ UNCHANGED <<rec, prod, replay>>
    BY <1>6 DEF ReadEnd
  <2>2. /\ client'[c].pc = "drained" /\ client'[c].run = r
        /\ \A d \in Clients \ {c} : client'[d] = client[d]
    BY <2>1 DEF ClientRecord
  <2>3. /\ \A p \in Runs \ {r} : Watchers(p)' = Watchers(p) /\ (Reading(p)' <=> Reading(p))
        /\ Watchers(r)' = Watchers(r) \cup {c}
        /\ Reading(r)
    BY <2>1, <2>2, OneClientMoves DEF Attached
  <2>4. Watchers(r)' = Watchers(r)
    BY <2>1, <2>3 DEF Watchers, Attached
  <2>5. Elsewhere(r)
    BY <2>1, <2>3 DEF Elsewhere, replay
  <2>6. Attended(r)' /\ prod'[r].pc # "none"
    BY <2>1, <2>3, <2>4 DEF Watched, Attended, Unadmitted, replay
  <2>7. Serves(r)
    BY <2>1 DEF Serves, replay
  <2> QED
    BY <2>1, <2>5, <2>6, <2>7, WatchedLocal
<1>7. CASE ReadFails(c)
  <2>1. Attached(c) /\ Detach(c, rec) /\ UNCHANGED <<rec, prod>>
    BY <1>7 DEF ReadFails, Attached
  <2>2. client' = [client EXCEPT ![c] = [Nobody EXCEPT !.told = "error"]]
    BY <1>7 DEF ReadFails
  <2> QED
    BY <1>4, <2>1, <2>2
<1>8. CASE Disconnect(c)
  <2>1. /\ client[c].pc # "out" /\ r \in Runs
        /\ client' = [client EXCEPT ![c] = Nobody]
    BY <1>8 DEF Disconnect
  <2>2. client'[c].pc = "out" /\ \A d \in Clients \ {c} : client'[d] = client[d]
    BY <2>1 DEF Nobody
  <2>3. CASE client[c].pc = "opening"
    <3>1. UNCHANGED <<rec, prod, replay>>
      BY <1>8, <2>3 DEF Disconnect
    <3>2. /\ \A p \in Runs \ {r} : Watchers(p)' = Watchers(p) /\ (Reading(p)' <=> Reading(p))
          /\ Watchers(r)' = Watchers(r) \ {c}
          /\ Reading(r)
      BY <2>1, <2>2, OneClientMoves DEF Attached
    <3>3. Watchers(r)' = Watchers(r)
      BY <2>3, <3>2 DEF Watchers, Attached
    <3>4. Elsewhere(r)
      BY <3>1, <3>2 DEF Elsewhere, replay
    <3>5. Attended(r)' /\ prod'[r].pc # "none"
      BY <2>1, <3>1, <3>2, <3>3 DEF Watched, Attended, Unadmitted, replay
    <3>6. Serves(r)
      BY <3>1, <3>2 DEF Serves, replay
    <3> QED
      BY <2>1, <3>4, <3>5, <3>6, WatchedLocal
  <2>4. CASE client[c].pc # "opening"
    <3>1. PICK R \in {{}} \cup (IF rec[r].mode = "cancel" /\ MayCancel(r) THEN {{r}} ELSE {}) :
            rec' = Interrupted(R) /\ prod' = Cancelled(R) /\ Detach(c, rec')
      BY <1>8, <2>4 DEF Disconnect
    <3>2. R \in SUBSET {r} /\ \A q \in R : rec[q].status \in InflightStatuses
      BY <2>1, <3>1 DEF MayCancel
    <3>3. \A q \in Runs : /\ rec'[q].status = "none" <=> rec[q].status = "none"
                          /\ prod'[q].pc = prod[q].pc
                          /\ q \notin R => rec'[q] = rec[q] /\ prod'[q] = prod[q]
      BY <2>1, <3>1, <3>2, CancelMoves
    <3>4. Attached(c)
      BY <2>1, <2>4 DEF Attached, ClientRecord
    <3>5. Elsewhere(r) /\ Watched'
      BY <2>1, <2>2, <3>1, <3>2, <3>3, <3>4, WatchedDetach
    <3>6. \/ UNCHANGED <<rec, prod>>
          \/ /\ rec[r].status \in InflightStatuses
             /\ rec' = Interrupted({r}) /\ prod' = Cancelled({r})
      <4>1. CASE R = {}
        BY <3>1, <4>1, TypedParts DEF Interrupted, Cancelled
      <4>2. CASE R = {r}
        BY <3>1, <3>2, <4>2
      <4> QED
        BY <3>2, <4>1, <4>2
    <3>7. Serves(r)
      BY <3>1, <3>5, <3>6 DEF Serves, Detach
    <3> QED
      BY <2>1, <3>5, <3>7
  <2> QED
    BY <2>3, <2>4
<1> QED
  BY <1>1, <1>2, <1>3, <1>5, <1>6, <1>7, <1>8 DEF Subscriber

\* Timers and their tasks belong to runs that have been admitted.
LEMMA RetireMoves ==
  ASSUME Typed, Watched, NEW r \in Runs, Retire(r)
  PROVE  Elsewhere(r) /\ Watched' /\ UNCHANGED prod /\ (Reading(r)' <=> Reading(r))
<1> USE TypedParts
<1>1. UNCHANGED prod
  BY DEF Retire, GraceElapses, ReplayElapses, MetadataElapses, ExpireRunReplay,
         CleanupRunLifecycle, CleanupFails
<1>2. \E kind : <<kind, r>> \in timers \cup jobs
  BY DEF Retire, GraceElapses, ReplayElapses, MetadataElapses, ExpireRunReplay,
         CleanupRunLifecycle, CleanupFails
<1>3. prod'[r].pc # "none"
  BY <1>1, <1>2 DEF Watched, Unadmitted
<1>4. \A q \in Runs : Watchers(q)' = Watchers(q) /\ (Reading(q)' <=> Reading(q))
  <2>1. CASE UNCHANGED client
    BY <2>1 DEF Watchers, Reading, Attached
  <2>2. CASE CleanupRunLifecycle(r)
    <3>1. \A d \in Clients : /\ client'[d].run = client[d].run
                             /\ client'[d].pc = "out" <=> client[d].pc = "out"
                             /\ Attached(d)' <=> Attached(d)
      <4> SUFFICES ASSUME NEW d \in Clients
                   PROVE  /\ client'[d].run = client[d].run
                          /\ client'[d].pc = "out" <=> client[d].pc = "out"
                          /\ Attached(d)' <=> Attached(d)
        OBVIOUS
      <4>1. \/ client'[d] = client[d]
            \/ /\ client[d].pc = "reading"
               /\ client'[d] = [client[d] EXCEPT !.pc = "drained"]
        BY <2>2 DEF CleanupRunLifecycle
      <4>2. client[d] \in ClientRecord
        OBVIOUS
      <4> QED
        BY <4>1, <4>2 DEF ClientRecord, Attached
    <3> QED
      BY <3>1 DEF Watchers, Reading
  <2> QED
    BY <2>1, <2>2 DEF Retire, GraceElapses, ReplayElapses, MetadataElapses, ExpireRunReplay,
                            CleanupFails
<1>5. /\ \A q \in Runs \ {r} :
           /\ rec'[q] = rec[q] /\ stream'[q] = stream[q] /\ subs'[q] = subs[q]
           /\ \A kind : /\ <<kind, q>> \in timers' <=> <<kind, q>> \in timers
                        /\ <<kind, q>> \in jobs' <=> <<kind, q>> \in jobs
      /\ rec'[r].status = "none" \/ /\ rec'[r].status = rec[r].status
                                    /\ UNCHANGED subs
                                    /\ timers' \subseteq timers
  <2>1. CASE GraceElapses(r)
    BY <2>1 DEF GraceElapses
  <2>2. CASE ReplayElapses(r)
    BY <2>2 DEF ReplayElapses
  <2>3. CASE MetadataElapses(r)
    BY <2>3 DEF MetadataElapses
  <2>4. CASE ExpireRunReplay(r)
    <3>1. rec' = [rec EXCEPT ![r] = [rec[r] EXCEPT
                   !.expired = (rec[r].expired \/ rec[r].status # "none")]]
      BY <2>4 DEF ExpireRunReplay
    <3>2. rec'[r].status = rec[r].status /\ \A q \in Runs \ {r} : rec'[q] = rec[q]
      <4>1. rec[r] \in RunRecord
        OBVIOUS
      <4> QED
        BY <3>1, <4>1 DEF RunRecord
    <3>3. /\ \A q \in Runs \ {r} : stream'[q] = stream[q]
          /\ UNCHANGED <<subs, timers>>
          /\ jobs' = jobs \ {<<"expire", r>>}
      BY <2>4 DEF ExpireRunReplay, Typed, TypeOK
    <3> QED
      BY <3>2, <3>3
  <2>5. CASE CleanupRunLifecycle(r)
    <3>1. rec'[r].status = "none" /\ \A q \in Runs \ {r} : rec'[q] = rec[q]
      BY <2>5 DEF CleanupRunLifecycle, NoRecord
    <3>2. /\ \A q \in Runs \ {r} : stream'[q] = stream[q] /\ subs'[q] = subs[q]
          /\ UNCHANGED timers
          /\ jobs' = jobs \ {<<"clean", r>>}
      BY <2>5 DEF CleanupRunLifecycle, Typed, TypeOK
    <3> QED
      BY <3>1, <3>2
  <2>6. CASE CleanupFails(r)
    BY <2>6 DEF CleanupFails
  <2> QED
    BY <2>1, <2>2, <2>3, <2>4, <2>5, <2>6 DEF Retire
<1>6. Elsewhere(r)
  BY <1>1, <1>4, <1>5 DEF Elsewhere
<1>7. Attended(r)'
  BY <1>4, <1>5 DEF Attended, Watched
<1> QED
  BY <1>1, <1>3, <1>4, <1>6, <1>7, WatchedLocal

\* Every step.
LEMMA WatchedStep ==
  ASSUME Typed, Watched, [Next]_vars PROVE Watched'
<1> USE TypedParts
<1>1. ASSUME UNCHANGED <<rec, prod, replay, client>> PROVE Watched'
  <2>1. \A q \in Runs : prod[q].pc = "none" => ~prod[q].cancel
    BY DEF Watched, Unadmitted
  <2> QED
    BY <1>1, <2>1, WatchedRecords
<1>2. ASSUME NEW t \in Threads, ThreadStep(t) PROVE Watched'
  BY <1>1, <1>2 DEF ThreadStep, ReserveArchive, ReleaseArchive, BeginDelete, EndDelete
<1>3. ASSUME NEW R \in SUBSET Runs, rec' = Interrupted(R), prod' = Cancelled(R),
             \A q \in R : rec[q].status \in InflightStatuses, UNCHANGED <<replay, client>>
      PROVE  Watched'
  <2>1. \A q \in Runs : /\ rec'[q].status = "none" <=> rec[q].status = "none"
                        /\ prod'[q].pc = prod[q].pc
                        /\ q \notin R => prod'[q] = prod[q]
    BY <1>3, CancelMoves
  <2>2. \A q \in Runs : prod[q].pc = "none" => ~prod[q].cancel /\ q \notin R
    BY <1>3 DEF Watched, Unadmitted, InflightStatuses
  <2> QED
    BY <1>3, <2>1, <2>2, WatchedRecords
<1>4. ASSUME NEW r \in Runs, Request(r) PROVE Watched'
  <2>1. CASE AdmitRefused(r)
    <3>1. /\ Inflight(ThreadOf[r]) \in SUBSET Runs
          /\ \A q \in Inflight(ThreadOf[r]) : rec[q].status \in InflightStatuses
      BY DEF Inflight
    <3> QED
      BY <1>3, <2>1, <3>1 DEF AdmitRefused
  <2>2. CASE CancelRun(r)
    BY <1>3, <2>2 DEF CancelRun, MayCancel
  <2>3. CASE DispatchCancels(r)
    <3>1. HasTask(r) /\ prod' = [prod EXCEPT ![r].cancel = TRUE]
          /\ UNCHANGED <<rec, replay, client>>
      BY <2>3 DEF DispatchCancels
    <3>2. prod'[r].pc = prod[r].pc /\ \A q \in Runs \ {r} : prod'[q] = prod[q]
      <4>1. prod[r] \in ProducerRecord
        OBVIOUS
      <4> QED
        BY <3>1, <4>1 DEF ProducerRecord
    <3>3. prod[r].pc # "none"
      BY <3>1 DEF HasTask, Live, Handlers
    <3>4. \A q \in Runs : prod[q].pc = "none" => ~prod[q].cancel
      BY DEF Watched, Unadmitted
    <3> QED
      BY <3>1, <3>2, <3>3, <3>4, WatchedRecords
  <2> QED
    BY <1>4, <2>1, <2>2, <2>3, WatchedAdmit DEF Request
<1>5. ASSUME NEW r \in Runs, Produce(r) PROVE Watched'
  <2>1. /\ Elsewhere(r) /\ prod'[r].pc # "none"
        /\ UNCHANGED <<subs, client>>
        /\ rec'[r].status = "none" <=> rec[r].status = "none"
        /\ <<"grace", r>> \in timers' => <<"grace", r>> \in timers
    BY <1>5, ProduceMoves
  <2>2. Watchers(r)' = Watchers(r)
    BY <2>1 DEF Watchers, Attached
  <2>3. Attended(r)'
    BY <2>1, <2>2 DEF Watched, Attended
  <2> QED
    BY <2>1, <2>3, WatchedLocal
<1>6. CASE UNCHANGED vars
  BY <1>1, <1>6 DEF vars
<1> QED
  BY <1>2, <1>4, <1>5, <1>6, SubscriberMoves, RetireMoves DEF Next

\* Nobody watches the first state.
LEMMA WatchedInit ==
  ASSUME Init PROVE Watched
<1>1. /\ \A c \in Clients : client[c].pc = "out"
      /\ timers = {} /\ jobs = {}
      /\ \A r \in Runs : /\ rec[r].status = "none" /\ stream[r] = "none"
                         /\ subs[r] = 0 /\ ~prod[r].cancel
  BY DEF Init, Nobody, NoRecord
<1>2. \A r \in Runs : ~Reading(r)
  BY <1>1 DEF Reading
<1> QED
  BY <1>1, <1>2 DEF Watched, Unadmitted, Attended

\* attach_run_stream() and detach_run_stream() between them never leave a reconnect
\* grace ticking on a run somebody is attached to: the count of subscribers is the
\* number of those attached for as long as the run has a record.
THEOREM GraceIsForTheUnwatched == Spec => []GraceOnlyUnwatched
<1>1. Init => Typed /\ Watched
  BY TypedInit, WatchedInit
<1>2. Typed /\ Watched /\ [Next]_vars => (Typed /\ Watched)'
  BY TypedStep, WatchedStep
<1>3. Typed /\ Watched => GraceOnlyUnwatched
  <2> SUFFICES ASSUME Typed, Watched, NEW c \in Clients, Attached(c),
                      rec[client[c].run].status # "none", <<"grace", client[c].run>> \in timers
               PROVE  FALSE
    BY DEF GraceOnlyUnwatched
  <2>1. client[c].run \in Runs /\ c \in Watchers(client[c].run)
    BY DEF Typed, Attached, Watchers
  <2> QED
    BY <2>1 DEF Watched, Attended
<1> QED
  BY <1>1, <1>2, <1>3, PTL DEF Spec

-----------------------------------------------------------------------------
(* What a subscriber is told *)

\* The producer is not at work, or the replay has been let go of.
Over(r) == LetGo(r) \/ prod[r].pc \notin Live

\* END is stored, or was given, of such runs only.
Accounted ==
  /\ \A r \in Runs : stream[r] \in {"ended", "expired"} => Over(r)
  /\ \A c \in Clients : client[c].pc = "drained" => Over(client[c].run)

\* The runs a step leaves alone.
LEMMA OverElsewhere ==
  ASSUME NEW r \in Runs, Elsewhere(r), NEW q \in Runs, q # r
  PROVE  (Over(q)' <=> Over(q)) /\ stream'[q] = stream[q]
<1>1. rec'[q] = rec[q] /\ prod'[q] = prod[q] /\ stream'[q] = stream[q]
  BY DEF Elsewhere
<1> QED
  BY <1>1 DEF Over, LetGo

\* A step that starts no producer and gives back no replay.
LEMMA OverKept ==
  ASSUME NEW r \in Runs, rec'[r].status = "none" <=> rec[r].status = "none",
         rec'[r].expired = rec[r].expired,
         prod[r].pc \notin Live => prod'[r].pc \notin Live, Over(r)
  PROVE  Over(r)'
BY DEF Over, LetGo

\* create_or_reject() and cancel() of the registry.
LEMMA AccountedRequest ==
  ASSUME Typed, Watched, Accounted, NEW p \in Runs, Request(p)
  PROVE  Accounted'
<1> USE TypedParts
<1>0. UNCHANGED <<replay, client>>
  BY DEF Request, Admit, AdmitRefused, CancelRun, DispatchCancels
<1>1. ASSUME \A q \in Runs : Over(q) => Over(q)' PROVE Accounted'
  <2>1. \A c \in Clients : client[c].pc = "drained" => client[c].run \in Runs
    OBVIOUS
  <2> QED
    BY <1>0, <1>1, <2>1 DEF Accounted, replay
<1>2. ASSUME NEW R \in SUBSET Runs, rec' = Interrupted(R), prod' = Cancelled(R),
             \A q \in R : rec[q].status \in InflightStatuses
      PROVE  Accounted'
  BY <1>1, <1>2, CancelMoves, OverKept
<1>3. CASE AdmitRefused(p)
  <2>1. /\ Inflight(ThreadOf[p]) \in SUBSET Runs
        /\ \A q \in Inflight(ThreadOf[p]) : rec[q].status \in InflightStatuses
    BY DEF Inflight
  <2> QED
    BY <1>2, <1>3, <2>1 DEF AdmitRefused
<1>4. CASE CancelRun(p)
  BY <1>2, <1>4 DEF CancelRun, MayCancel
<1>5. CASE DispatchCancels(p)
  <2>1. UNCHANGED rec /\ prod' = [prod EXCEPT ![p].cancel = TRUE]
    BY <1>5 DEF DispatchCancels
  <2>2. \A q \in Runs : prod'[q].pc = prod[q].pc
    <3>1. \A q \in Runs : prod[q] \in ProducerRecord
      OBVIOUS
    <3> QED
      BY <2>1, <3>1 DEF ProducerRecord
  <2> QED
    BY <1>1, <2>1, <2>2, OverKept
<1>6. CASE Admit(p)
  <2> DEFINE R == Inflight(ThreadOf[p])
  <2>1. R \in SUBSET Runs /\ p \notin R /\ \A q \in R : rec[q].status \in InflightStatuses
    BY <1>6 DEF Inflight, Admit, InflightStatuses
  <2>2. PICK mode \in Modes :
          /\ rec' = [Interrupted(R) EXCEPT
                       ![p] = [NoRecord EXCEPT !.status = "pending", !.mode = mode]]
          /\ prod' = [Cancelled(R) EXCEPT ![p].pc = "scheduled"]
    BY <1>6 DEF Admit
  <2>3. /\ Interrupted(R) \in [Runs -> RunRecord] /\ Cancelled(R) \in [Runs -> ProducerRecord]
        /\ \A q \in R : Interrupted(R)[q].status = "interrupted"
                        /\ Interrupted(R)[q].expired = rec[q].expired
        /\ \A q \in Runs \ R : Interrupted(R)[q] = rec[q]
        /\ \A q \in Runs : Cancelled(R)[q].pc = prod[q].pc
    BY <2>1, InterruptedFacts, CancelledFacts
  <2>4. Unadmitted(p)
    BY <1>6 DEF Watched, Admit
  <2>5. ASSUME NEW q \in Runs, q # p PROVE Over(q) => Over(q)'
    <3>1. rec'[q] = Interrupted(R)[q] /\ prod'[q] = Cancelled(R)[q]
      BY <2>2, <2>3, <2>5
    <3>2. /\ rec'[q].status = "none" <=> rec[q].status = "none"
          /\ rec'[q].expired = rec[q].expired
          /\ prod'[q].pc = prod[q].pc
      BY <2>1, <2>3, <3>1 DEF InflightStatuses
    <3> QED
      BY <3>2, OverKept
  <2>6. \A c \in Clients : client[c].pc = "drained" =>
          client[c].run \in Runs /\ client[c].run # p
    BY <2>4 DEF Unadmitted, Reading
  <2>7. stream[p] = "none"
    BY <2>4 DEF Unadmitted
  <2> QED
    BY <1>0, <2>5, <2>6, <2>7 DEF Accounted, replay
<1> QED
  BY <1>3, <1>4, <1>5, <1>6 DEF Request

\* END is stored when the producer's work is done.
LEMMA AccountedProduce ==
  ASSUME Typed, Accounted, NEW r \in Runs, Produce(r)
  PROVE  Accounted'
<1> USE TypedParts
<1>1. /\ Elsewhere(r) /\ UNCHANGED client
      /\ rec'[r].status = "none" <=> rec[r].status = "none"
      /\ rec'[r].expired = rec[r].expired
  BY ProduceMoves
<1>2. CASE prod[r].pc \in Live
  <2>1. stream' = stream \/ Begin(r)
    BY <1>2 DEF Produce, NeverStarted, Complete, SwallowCancel, Fails, Handled,
                HandlerBroken, End, EndBroken, Finally, replay, Live, Handlers
  <2>2. stream'[r] \in {"ended", "expired"} => stream[r] \in {"ended", "expired"}
    BY <2>1 DEF Begin, Typed, TypeOK
  <2>3. Over(r) => Over(r)'
    BY <1>1, <1>2, OverKept
  <2> QED
    BY <1>1, <2>2, <2>3, OverElsewhere DEF Accounted
<1>3. CASE prod[r].pc \notin Live
  <2>1. End(r) \/ EndBroken(r)
    <3>1. {"scheduled", "streaming"} \subseteq Live /\ Handlers \subseteq Live
      BY DEF Live
    <3>2. NeverStarted(r) \/ Begin(r) => prod[r].pc = "scheduled"
      BY DEF NeverStarted, Begin
    <3>3. Complete(r) \/ SwallowCancel(r) => prod[r].pc = "streaming"
      BY DEF Complete, SwallowCancel
    <3>4. Fails(r) => prod[r].pc = "streaming"
      BY DEF Fails
    <3>5. Handled(r) \/ HandlerBroken(r) => prod[r].pc \in Handlers
      BY DEF Handled, HandlerBroken
    <3> QED
      BY <1>3, <3>1, <3>2, <3>3, <3>4, <3>5 DEF Produce
  <2>2. prod'[r].pc \in {"done", "cut"}
    BY <2>1 DEF End, EndBroken
  <2>3. Over(r)'
    BY <2>2 DEF Over, Live, Handlers
  <2> QED
    BY <1>1, <2>3, OverElsewhere DEF Accounted
<1> QED
  BY <1>2, <1>3

\* A subscriber is given END of an ended stream or an expired replay.
LEMMA AccountedSubscriber ==
  ASSUME Typed, Watched, Accounted, NEW c \in Clients, Subscriber(c)
  PROVE  Accounted'
<1> USE TypedParts
<1>1. PICK r \in Runs : Elsewhere(r) /\ Serves(r)
  BY SubscriberMoves
<1>2. Over(r) => Over(r)'
  <2>1. CASE UNCHANGED <<rec, prod>>
    BY <2>1 DEF Over, LetGo
  <2>2. CASE /\ rec[r].status \in InflightStatuses
             /\ rec' = Interrupted({r}) /\ prod' = Cancelled({r})
    <3>1. {r} \in SUBSET Runs /\ \A q \in {r} : rec[q].status \in InflightStatuses
      BY <2>2
    <3>2. /\ rec'[r].status = "none" <=> rec[r].status = "none"
          /\ rec'[r].expired = rec[r].expired
          /\ prod'[r].pc = prod[r].pc
      BY <2>2, <3>1, CancelMoves
    <3> QED
      BY <3>2, OverKept
  <2> QED
    BY <1>1, <2>1, <2>2 DEF Serves
<1>3. \A q \in Runs : (Over(q) => Over(q)') /\
                       (stream'[q] \in {"ended", "expired"} => stream'[q] = stream[q])
  BY <1>1, <1>2, OverElsewhere DEF Serves
<1>4. \A d \in Clients \ {c} : client'[d] = client[d]
  BY DEF Subscriber, Connect, Attach, Subscribe, ReadEnd, Conclude, ReadFails, Disconnect
<1>5. (client[c].pc = "drained" => Over(client[c].run))'
  <2>0. client[c] \in ClientRecord
    OBVIOUS
  <2>1. CASE Subscribe(c)
    <3>1. client'[c].run = client[c].run /\ client[c].run \in Runs
      BY <2>0, <2>1 DEF Subscribe, ClientRecord
    <3>2. client'[c].pc = "drained" => \/ rec[client[c].run].expired
                                      \/ stream[client[c].run] = "expired"
      BY <2>0, <2>1 DEF Subscribe, ClientRecord
    <3> QED
      BY <1>3, <3>1, <3>2 DEF Accounted, Over, LetGo
  <2>2. CASE ReadEnd(c)
    <3>1. client'[c].run = client[c].run /\ client[c].run \in Runs
      BY <2>0, <2>2 DEF ReadEnd, ClientRecord
    <3>2. stream[client[c].run] \in {"ended", "expired"}
      BY <2>2 DEF ReadEnd, EndReaches
    <3> QED
      BY <1>3, <3>1, <3>2 DEF Accounted
  <2>3. ASSUME ~Subscribe(c), ~ReadEnd(c) PROVE client'[c].pc # "drained"
    BY <2>0, <2>3 DEF Subscriber, Connect, Attach, Conclude, ReadFails, Disconnect, Nobody,
                      ClientRecord
  <2> QED
    BY <2>1, <2>2, <2>3
<1>6. \A d \in Clients : client[d].pc = "drained" => client[d].run \in Runs
  OBVIOUS
<1> QED
  BY <1>3, <1>4, <1>5, <1>6 DEF Accounted

\* An expired replay is let go of, and so is a record that is removed.
LEMMA AccountedRetire ==
  ASSUME Typed, Watched, Accounted, NEW r \in Runs, Retire(r)
  PROVE  Accounted'
<1> USE TypedParts
<1>1. Elsewhere(r) /\ UNCHANGED prod
  BY RetireMoves
<1>2. CASE UNCHANGED <<rec, stream, client>>
  BY <1>1, <1>2 DEF Accounted, Over, LetGo
<1>3. CASE ExpireRunReplay(r)
  <2>1. rec' = [rec EXCEPT ![r] = [rec[r] EXCEPT
                   !.expired = (rec[r].expired \/ rec[r].status # "none")]]
        /\ UNCHANGED client
    BY <1>3 DEF ExpireRunReplay
  <2>2. LetGo(r)'
    <3>1. rec[r] \in RunRecord
      OBVIOUS
    <3> QED
      BY <2>1, <3>1 DEF RunRecord, LetGo
  <2> QED
    BY <1>1, <2>1, <2>2, OverElsewhere DEF Accounted, Over
<1>4. CASE CleanupRunLifecycle(r)
  <2>1. LetGo(r)'
    BY <1>4 DEF CleanupRunLifecycle, NoRecord, LetGo
  <2>2. \A c \in Clients : client'[c].run = client[c].run
        /\ (client'[c].pc = "drained" => client[c].pc = "drained" \/ client[c].run = r)
    <3> TAKE c \in Clients
    <3>1. \/ client'[c] = client[c]
          \/ client[c].run = r /\ client'[c] = [client[c] EXCEPT !.pc = "drained"]
      BY <1>4 DEF CleanupRunLifecycle
    <3>2. client[c] \in ClientRecord
      OBVIOUS
    <3> QED
      BY <3>1, <3>2 DEF ClientRecord
  <2>3. \A c \in Clients : client[c].pc = "drained" => client[c].run \in Runs
    OBVIOUS
  <2> QED
    BY <1>1, <2>1, <2>2, <2>3, OverElsewhere DEF Accounted, Over
<1> QED
  BY <1>2, <1>3, <1>4
     DEF Retire, GraceElapses, ReplayElapses, MetadataElapses, CleanupFails

\* Every step.
LEMMA AccountedStep ==
  ASSUME Typed, Watched, Accounted, [Next]_vars PROVE Accounted'
<1>1. ASSUME UNCHANGED <<rec, prod, replay, client>> PROVE Accounted'
  BY <1>1 DEF Accounted, Over, LetGo, replay
<1>2. ASSUME NEW t \in Threads, ThreadStep(t) PROVE Accounted'
  BY <1>1, <1>2 DEF ThreadStep, ReserveArchive, ReleaseArchive, BeginDelete, EndDelete
<1>3. CASE UNCHANGED vars
  BY <1>1, <1>3 DEF vars
<1> QED
  BY <1>2, <1>3, AccountedRequest, AccountedProduce, AccountedSubscriber, AccountedRetire
     DEF Next

\* The first state has no END.
LEMMA AccountedInit ==
  ASSUME Init PROVE Accounted
BY DEF Init, Nobody, Accounted

\* RUN_FINISHED is sent by a subscriber that was given END.
LEMMA ToldStep ==
  ASSUME Typed, Accounted, [Next]_vars, NEW c \in Clients,
         client[c].told = "nothing", client'[c].told = "finished"
  PROVE  LET r == client[c].run
         IN \/ rec[r].status \in {"success", "none"}
            \/ rec[r].status \in InflightStatuses /\ (rec[r].expired \/ Abandoned(r))
<1> USE TypedParts
<1> DEFINE r == client[c].run
<1>1. Conclude(c)
  <2>1. \A d \in Clients : client[d] \in ClientRecord
    OBVIOUS
  <2>2. client' # client
    OBVIOUS
  <2>3. ASSUME NEW d \in Clients, Subscriber(d), d # c PROVE FALSE
    <3>1. client'[c] = client[c]
      BY <2>1, <2>3
         DEF Subscriber, Connect, Attach, Subscribe, ReadEnd, Conclude, ReadFails, Disconnect
    <3> QED
      BY <3>1
  <2>4. ASSUME Subscriber(c), ~Conclude(c) PROVE FALSE
    <3>1. client'[c].told \in {client[c].told, "nothing", "error"}
      BY <2>1, <2>4 DEF Subscriber, Connect, Attach, Subscribe, ReadEnd, ReadFails,
                        Disconnect, Nobody, ClientRecord
    <3> QED
      BY <3>1
  <2>5. ASSUME NEW q \in Runs, CleanupRunLifecycle(q) PROVE FALSE
    <3>1. client'[c] \in {client[c], [client[c] EXCEPT !.pc = "drained"]}
      BY <2>5 DEF CleanupRunLifecycle
    <3> QED
      BY <2>1, <3>1 DEF ClientRecord
  <2>6. \A t \in Threads : ThreadStep(t) => UNCHANGED client
    BY DEF ThreadStep, ReserveArchive, ReleaseArchive, BeginDelete, EndDelete
  <2>7. \A q \in Runs : Request(q) \/ Produce(q) => UNCHANGED client
    BY ProduceMoves DEF Request, Admit, AdmitRefused, CancelRun, DispatchCancels
  <2>8. \A q \in Runs : Retire(q) => UNCHANGED client \/ CleanupRunLifecycle(q)
    BY DEF Retire, GraceElapses, ReplayElapses, MetadataElapses, ExpireRunReplay, CleanupFails
  <2> QED
    BY <2>2, <2>3, <2>4, <2>5, <2>6, <2>7, <2>8 DEF Next, vars
<1>2. client[c].pc = "drained" /\ r \in Runs /\ client'[c].told = Verdict(rec[r].status)
  <2>1. client[c] \in ClientRecord
    OBVIOUS
  <2>2. client[c].pc = "drained"
        /\ client' = [client EXCEPT ![c] = [Nobody EXCEPT !.told = Verdict(rec[r].status)]]
    BY <1>1 DEF Conclude
  <2> QED
    BY <2>1, <2>2 DEF Nobody
<1>3. rec[r].status \in InflightStatuses \cup {"success", "none"}
  <2>1. rec[r] \in RunRecord
    BY <1>2
  <2> QED
    BY <1>2, <2>1 DEF Verdict, RunRecord, Statuses
<1>4. Over(r)
  BY <1>2 DEF Accounted
<1> QED
  BY <1>3, <1>4 DEF Over, LetGo, Abandoned

\* A subscriber is told RUN_FINISHED of no run that failed or was interrupted, nor
\* of one still at work unless its replay expired, whatever fails and however late
\* it reads: END is given when the outcome is set, and the verdict follows END.
THEOREM FinishedMeansSuccess == Spec => FinishedIsSuccess
<1>1. Init => Typed /\ Watched /\ Accounted
  BY TypedInit, WatchedInit, AccountedInit
<1>2. Typed /\ Watched /\ Accounted /\ [Next]_vars => (Typed /\ Watched /\ Accounted)'
  BY TypedStep, WatchedStep, AccountedStep
<1>3. Typed /\ Accounted /\ [Next]_vars =>
        [\A c \in Clients :
           LET r == client[c].run
           IN client[c].told = "nothing" /\ client'[c].told = "finished" =>
                \/ rec[r].status \in {"success", "none"}
                \/ rec[r].status \in InflightStatuses /\ (rec[r].expired \/ Abandoned(r))]_vars
  BY ToldStep
<1> QED
  BY <1>1, <1>2, <1>3, PTL DEF Spec, FinishedIsSuccess
=============================================================================
