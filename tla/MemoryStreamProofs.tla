-------------------------- MODULE MemoryStreamProofs --------------------------
(***************************************************************************)
(* Proofs about MemoryStream, for any ring size, number of events and set   *)
(* of subscribers: the ring holds the newest events at their own offsets,   *)
(* a reader is given the oldest of them it has not seen, and the whole      *)
(* implements EventLog.                                                     *)
(***************************************************************************)
EXTENDS MemoryStream, TLAPS

\* A reader of a live stream goes on exactly after what it has seen, or has fallen
\* behind to the oldest retained event.
Following ==
  \A c \in Subscribers :
    reader[c].pc = "reading" /\ ~expired =>
      reader[c].next = reader[c].last \/ reader[c].next <= start

IInv == Window /\ OffsetsFit /\ Following

\* What Window says of the ring, in terms of event numbers alone.
LEMMA RetainedRange ==
  ASSUME Window
  PROVE  /\ Retained = {e \in Nat : start < e /\ e <= start + Len(events)}
         /\ Len(events) \in Nat /\ start \in Nat
<1>1. /\ Len(events) \in Nat /\ start \in Nat /\ events \in Seq(Nat)
      /\ \A i \in 1..Len(events) : events[i] = start + i
  BY DEF Window, TypeOK
<1>2. ASSUME NEW e \in Retained PROVE e \in Nat /\ start < e /\ e <= start + Len(events)
  <2>1. PICK i \in 1..Len(events) : events[i] = e
    BY <1>2 DEF Retained
  <2>2. e = start + i
    BY <1>1, <2>1
  <2> QED
    BY <1>1, <2>1, <2>2
<1>3. ASSUME NEW e \in Nat, start < e, e <= start + Len(events) PROVE e \in Retained
  <2>1. e - start \in 1..Len(events)
    BY <1>1, <1>3
  <2>2. events[e - start] = e
    BY <1>1, <1>3, <2>1
  <2> QED
    BY <2>1, <2>2 DEF Retained
<1> QED
  BY <1>1, <1>2, <1>3

\* Replay begins after the acknowledged event if it is still buffered, otherwise
\* at the oldest one that is.
LEMMA StartOffsetIs ==
  ASSUME Window, NEW id \in Nat
  PROVE  StartOffset(id) = IF id \in Retained THEN id ELSE start
<1>1. /\ Len(events) \in Nat /\ start \in Nat
      /\ \A i \in 1..Len(events) : events[i] = start + i
  BY DEF Window, TypeOK
<1>2. CASE id \in Retained
  <2>1. \E i \in 1..Len(events) : events[i] = id
    BY <1>2 DEF Retained
  <2> DEFINE k == CHOOSE i \in 1..Len(events) : events[i] = id
  <2>2. k \in 1..Len(events) /\ events[k] = id
    BY <2>1
  <2>3. start + k = id
    BY <1>1, <2>2
  <2>4. StartOffset(id) = start + k
    BY <1>2 DEF StartOffset
  <2> QED
    BY <1>2, <2>3, <2>4
<1>3. CASE id \notin Retained
  BY <1>3 DEF StartOffset
<1> QED
  BY <1>2, <1>3

\* The next event of a reader lies in the ring, after everything it has seen.
LEMMA ReadIs ==
  ASSUME IInv, NEW c \in Subscribers, Read(c)
  PROVE  /\ ~expired
         /\ Offset(c) \in Nat
         /\ reader' = [reader EXCEPT ![c] = [pc |-> "reading", next |-> Offset(c) + 1,
                                                 last |-> Offset(c) + 1]]
         /\ start <= Offset(c) /\ reader[c].last <= Offset(c) /\ Offset(c) < count
         /\ reader[c].next <= start => Offset(c) = start
         /\ reader[c].next > start => Offset(c) = reader[c].next
<1>1. /\ Len(events) \in Nat /\ start \in Nat /\ count \in Nat /\ reader[c] \in Reader
      /\ \A i \in 1..Len(events) : events[i] = start + i
      /\ expired => Len(events) = 0
      /\ ~expired => count = start + Len(events)
  BY DEF IInv, Window, TypeOK
<1>2. reader[c].next \in Nat /\ reader[c].last \in Nat
  BY <1>1 DEF Reader
<1>3. Offset(c) \in Nat /\ Offset(c) >= start /\ Offset(c) >= reader[c].next
  BY <1>1, <1>2 DEF Offset
<1>4. Offset(c) < start + Len(events)
  BY DEF Read, Available
<1>5. ~expired
  BY <1>1, <1>3, <1>4
<1>6. reader[c].last <= reader[c].next
  BY DEF IInv, OffsetsFit, Read
<1>7. Offset(c) - start + 1 \in 1..Len(events)
  BY <1>1, <1>3, <1>4
<1>8. events[Offset(c) - start + 1] = Offset(c) + 1
  BY <1>1, <1>3, <1>7
<1>9. reader' = [reader EXCEPT ![c] = [pc |-> "reading", next |-> Offset(c) + 1,
                                           last |-> Offset(c) + 1]]
  BY <1>8 DEF Read
<1>10. /\ reader[c].next <= start => Offset(c) = start
       /\ reader[c].next > start => Offset(c) = reader[c].next
  BY <1>1, <1>2 DEF Offset
<1> QED
  BY <1>1, <1>2, <1>3, <1>4, <1>5, <1>6, <1>9, <1>10

LEMMA InitHolds == Init => IInv
<1> SUFFICES ASSUME Init PROVE IInv
  OBVIOUS
<1>1. events = <<>> /\ Len(events) = 0 /\ events \in Seq(Nat)
  BY DEF Init
<1>2. TypeOK
  BY <1>1 DEF Init, TypeOK, Reader
<1>3. Window
  BY <1>1, <1>2, MemoryStreamAssumption DEF Init, Window
<1>4. OffsetsFit /\ Following
  BY DEF Init, OffsetsFit, Following
<1> QED
  BY <1>3, <1>4 DEF IInv

\* An event is appended and the ring cut to its size.
LEMMA PublishHolds == ASSUME IInv, Publish PROVE IInv'
<1>1. /\ events \in Seq(Nat) /\ Len(events) \in Nat /\ start \in Nat /\ count \in Nat
      /\ \A i \in 1..Len(events) : events[i] = start + i
      /\ count = start + Len(events) /\ Len(events) <= QueueMaxsize
      /\ QueueMaxsize \in Nat \ {0}
  BY MemoryStreamAssumption DEF IInv, Window, TypeOK, Publish
<1> DEFINE appended == Append(events, count + 1)
           dropped == IF Len(appended) > QueueMaxsize THEN Len(appended) - QueueMaxsize ELSE 0
<1>2. /\ ~expired /\ count' = count + 1
      /\ events' = SubSeq(appended, dropped + 1, Len(appended))
      /\ start' = start + dropped
      /\ UNCHANGED <<ended, expired, done, reader>>
  BY DEF Publish, Overflow
<1>3. /\ appended \in Seq(Nat) /\ Len(appended) = Len(events) + 1
      /\ \A i \in 1..Len(appended) : appended[i] = start + i
  BY <1>1
<1>4. dropped \in {0, 1} /\ Len(appended) - dropped <= QueueMaxsize /\ dropped < Len(appended)
  BY <1>1, <1>3
<1> HIDE DEF appended, dropped
<1>5. /\ events' \in Seq(Nat) /\ Len(events') = Len(appended) - dropped
      /\ \A i \in 1..Len(events') : events'[i] = appended[i + dropped]
  BY <1>2, <1>3, <1>4
<1>6. \A i \in 1..Len(events') : events'[i] = start' + i
  BY <1>1, <1>2, <1>3, <1>4, <1>5
<1>7. count' = start' + Len(events') /\ start' \in Nat /\ Len(events') <= QueueMaxsize
  <2>1. dropped \in Nat /\ Len(appended) = Len(events) + 1
    BY <1>3, <1>4
  <2>2. Len(events') = Len(events) + 1 - dropped
    BY <1>5, <2>1
  <2>3. Len(events) \in Nat /\ start \in Nat /\ count = start + Len(events)
    BY <1>1
  <2>4. start' = start + dropped /\ count' = count + 1
    BY <1>2
  <2>5. Len(events') <= QueueMaxsize
    BY <1>4, <1>5
  <2> QED
    BY <2>1, <2>2, <2>3, <2>4, <2>5
<1>8. Window'
  BY <1>1, <1>2, <1>5, <1>6, <1>7 DEF IInv, Window, TypeOK
<1>9. OffsetsFit'
  <2> SUFFICES ASSUME NEW c \in Subscribers
               PROVE  /\ reader[c].last <= count + 1
                      /\ reader[c].pc = "reading" => reader[c].last <= reader[c].next
                      /\ reader[c].pc = "reading" => reader[c].next <= count + 1
    BY <1>2 DEF OffsetsFit
  <2>1. reader[c].last \in Nat /\ reader[c].next \in Nat
    BY DEF IInv, Window, TypeOK, Reader
  <2> QED
    BY <1>1, <1>2, <2>1 DEF IInv, OffsetsFit
<1>10. Following'
  <2> SUFFICES ASSUME NEW c \in Subscribers, reader[c].pc = "reading"
               PROVE  reader[c].next = reader[c].last \/ reader[c].next <= start'
    BY <1>2 DEF Following
  <2>1. reader[c].next \in Nat /\ start <= start' /\ start' \in Nat
    BY <1>1, <1>2, <1>4 DEF IInv, Window, TypeOK, Reader
  <2> QED
    BY <1>1, <1>2, <2>1 DEF IInv, Following
<1> QED
  BY <1>8, <1>9, <1>10 DEF IInv

LEMMA CloseHolds == ASSUME IInv, PublishEnd \/ Expire PROVE IInv'
<1>1. CASE PublishEnd
  <2>1. Window'
    BY <1>1 DEF IInv, Window, TypeOK, PublishEnd
  <2>2. OffsetsFit' /\ Following'
    BY <1>1 DEF IInv, OffsetsFit, Following, PublishEnd
  <2> QED
    BY <2>1, <2>2 DEF IInv
<1>2. CASE Expire
  <2>1. Window'
    BY <1>2, MemoryStreamAssumption DEF IInv, Window, TypeOK, Expire, EndedByExpiry
  <2>2. OffsetsFit' /\ Following'
    BY <1>2 DEF IInv, OffsetsFit, Following, Expire
  <2> QED
    BY <2>1, <2>2 DEF IInv
<1> QED
  BY <1>1, <1>2

LEMMA SubscribeHolds == ASSUME IInv, NEW c \in Subscribers, Subscribe(c) PROVE IInv'
<1>1. UNCHANGED <<stream, count, done>>
  BY DEF Subscribe
<1>2. PICK id \in {0, reader[c].last} :
        reader' = [reader EXCEPT ![c] = [pc |-> IF expired THEN "over" ELSE "reading",
                                         next |-> StartOffset(id), last |-> id]]
  BY DEF Subscribe
<1>3. /\ reader \in [Subscribers -> Reader] /\ start \in Nat /\ count \in Nat
      /\ Len(events) \in Nat /\ ~expired => count = start + Len(events)
  BY DEF IInv, Window, TypeOK
<1>4. id \in Nat /\ id <= count
  BY <1>3 DEF Reader, IInv, OffsetsFit
<1>5. StartOffset(id) = IF id \in Retained THEN id ELSE start
  BY <1>4, StartOffsetIs DEF IInv
<1>6. Retained = {e \in Nat : start < e /\ e <= start + Len(events)}
  BY RetainedRange DEF IInv
<1>7. StartOffset(id) \in Nat /\ (~expired => id <= StartOffset(id) /\ StartOffset(id) <= count)
  BY <1>3, <1>4, <1>5, <1>6
<1>8. Window'
  BY <1>1, <1>2, <1>3, <1>4, <1>7 DEF IInv, Window, TypeOK, Reader, stream
<1>9. OffsetsFit'
  BY <1>1, <1>2, <1>3, <1>4, <1>7 DEF IInv, OffsetsFit, stream
<1>10. Following'
  BY <1>1, <1>2, <1>3, <1>5, <1>7 DEF IInv, Following, stream
<1> QED
  BY <1>8, <1>9, <1>10 DEF IInv

LEMMA ReaderHolds ==
  ASSUME IInv, NEW c \in Subscribers, Read(c) \/ ReadEnd(c) \/ Leave(c) PROVE IInv'
<1>1. UNCHANGED <<stream, count, done>>
  BY DEF Read, ReadEnd, Leave
<1>2. reader \in [Subscribers -> Reader] /\ count \in Nat
  BY DEF IInv, Window, TypeOK
<1>3. CASE Read(c)
  <2>1. /\ Offset(c) \in Nat /\ Offset(c) < count
        /\ reader' = [reader EXCEPT ![c] = [pc |-> "reading", next |-> Offset(c) + 1,
                                                last |-> Offset(c) + 1]]
    BY <1>3, ReadIs
  <2>n. [pc |-> "reading", next |-> Offset(c) + 1, last |-> Offset(c) + 1] \in Reader
    BY <1>2, <2>1 DEF Reader
  <2>r. reader' \in [Subscribers -> Reader]
    BY <1>2, <2>1, <2>n
  <2>2. Window'
    BY <1>1, <2>r DEF IInv, Window, TypeOK, stream
  <2>3. OffsetsFit'
    BY <1>1, <1>2, <2>1 DEF IInv, OffsetsFit, stream
  <2>4. Following'
    BY <1>1, <1>2, <2>1 DEF IInv, Following, stream
  <2> QED
    BY <2>2, <2>3, <2>4 DEF IInv
<1>4. CASE ReadEnd(c) \/ Leave(c)
  <2>1. PICK pc \in {"out", "over"} : reader' = [reader EXCEPT ![c].pc = pc]
    BY <1>4 DEF ReadEnd, Leave
  <2>2. reader' \in [Subscribers -> Reader]
    BY <1>2, <2>1 DEF Reader
  <2>3. Window'
    BY <1>1, <2>2 DEF IInv, Window, TypeOK, stream
  <2>4. OffsetsFit' /\ Following'
    BY <1>1, <1>2, <2>1 DEF IInv, OffsetsFit, Following, stream
  <2> QED
    BY <2>3, <2>4 DEF IInv
<1> QED
  BY <1>3, <1>4

LEMMA StepHolds == IInv /\ [Next]_vars => IInv'
<1> SUFFICES ASSUME IInv, [Next]_vars PROVE IInv'
  OBVIOUS
<1>1. CASE UNCHANGED vars
  BY <1>1 DEF vars, stream, IInv, Window, TypeOK, OffsetsFit, Following
<1>2. CASE Next
  BY <1>2, PublishHolds, CloseHolds, SubscribeHolds, ReaderHolds DEF Next
<1> QED
  BY <1>1, <1>2

LEMMA Invariance == Spec => []IInv
BY InitHolds, StepHolds, PTL DEF Spec

\* The ring is the newest events, each at the offset the readers count with.
THEOREM RingIsWindow == Spec => []Window
BY Invariance, PTL DEF IInv

\* Resuming and falling behind keep every reader's offset between what it has seen
\* and what the producer has published.
THEOREM OffsetsAlwaysFit == Spec => []OffsetsFit
BY Invariance, PTL DEF IInv

-----------------------------------------------------------------------------
(* What the readers are given *)

\* Only its own generator moves a reader.
LEMMA ReaderMoves ==
  ASSUME IInv, [Next]_vars, NEW c \in Subscribers, reader'[c] # reader[c],
         reader[c].pc = "reading"
  PROVE  Read(c) \/ ReadEnd(c) \/ Leave(c)
<1>1. reader \in [Subscribers -> Reader]
  BY DEF IInv, Window, TypeOK
<1>2. PICK d \in Subscribers : Subscribe(d) \/ Read(d) \/ ReadEnd(d) \/ Leave(d)
  BY DEF Next, vars, Publish, PublishEnd, Expire
<1>3. d = c
  BY <1>1, <1>2 DEF Subscribe, Read, ReadEnd, Leave
<1>4. ~Subscribe(c)
  BY DEF Subscribe
<1> QED
  BY <1>2, <1>3, <1>4

LEMMA DeliversNextStep ==
  ASSUME IInv, [Next]_vars, NEW c \in Subscribers,
         reader[c].pc = "reading", reader'[c].last # reader[c].last
  PROVE  /\ reader'[c].last \in Retained
         /\ \A e \in Retained : e > reader[c].last => e >= reader'[c].last
<1>1. /\ reader \in [Subscribers -> Reader] /\ Len(events) \in Nat /\ start \in Nat
      /\ reader[c].last \in Nat /\ reader[c].next \in Nat
      /\ ~expired => count = start + Len(events)
  BY DEF IInv, Window, TypeOK, Reader
<1>2. Read(c)
  BY <1>1, ReaderMoves DEF ReadEnd, Leave, Reader
<1>3. /\ Offset(c) \in Nat /\ start <= Offset(c) /\ Offset(c) < count /\ ~expired
      /\ reader' = [reader EXCEPT ![c] = [pc |-> "reading", next |-> Offset(c) + 1,
                                              last |-> Offset(c) + 1]]
      /\ reader[c].next <= start => Offset(c) = start
      /\ reader[c].next > start => Offset(c) = reader[c].next
  BY <1>2, ReadIs
<1>4. reader'[c].last = Offset(c) + 1
  BY <1>1, <1>3
<1>5. Offset(c) = start \/ Offset(c) = reader[c].last
  BY <1>1, <1>3 DEF IInv, Following
<1>6. Retained = {e \in Nat : start < e /\ e <= start + Len(events)}
  BY RetainedRange DEF IInv
<1> QED
  BY <1>1, <1>3, <1>4, <1>5, <1>6

\* Last-Event-ID replay and catching up skip nothing that is still buffered.
THEOREM NextIsDelivered == Spec => DeliversNext
<1>1. IInv /\ [Next]_vars =>
        [\A c \in Subscribers :
           reader[c].pc = "reading" /\ reader'[c].last # reader[c].last =>
             /\ reader'[c].last \in Retained
             /\ \A e \in Retained : e > reader[c].last => e >= reader'[c].last]_vars
  BY DeliversNextStep
<1> QED
  BY <1>1, Invariance, PTL DEF Spec, DeliversNext

LEMMA EndIsLastStep ==
  ASSUME IInv, [Next]_vars, NEW c \in Subscribers,
         reader[c].pc = "reading", reader'[c].pc = "over"
  PROVE  \A e \in Retained : e <= reader[c].last
<1>1. /\ reader \in [Subscribers -> Reader] /\ Len(events) \in Nat /\ start \in Nat
      /\ reader[c].last \in Nat /\ reader[c].next \in Nat
      /\ expired => Len(events) = 0
  BY DEF IInv, Window, TypeOK, Reader
<1>2. reader'[c] # reader[c]
  OBVIOUS
<1>3. ReadEnd(c)
  BY <1>1, <1>2, ReaderMoves DEF Read, Leave, Reader
<1>4. ~(start <= Offset(c) /\ Offset(c) < start + Len(events))
  BY <1>3 DEF ReadEnd, Available
<1>5. Offset(c) = IF reader[c].next < start THEN start ELSE reader[c].next
  BY DEF Offset
<1>6. Len(events) = 0 \/ (reader[c].next >= start + Len(events) /\ reader[c].next > start)
  BY <1>1, <1>4, <1>5
<1>7. Len(events) = 0 \/ reader[c].last >= start + Len(events)
  BY <1>1, <1>6 DEF IInv, Following
<1>8. Retained = {e \in Nat : start < e /\ e <= start + Len(events)}
  BY RetainedRange DEF IInv
<1> QED
  BY <1>1, <1>7, <1>8

\* END follows every event that is still buffered.
THEOREM EndComesLast == Spec => EndIsLast
<1>1. IInv /\ [Next]_vars =>
        [\A c \in Subscribers :
           reader[c].pc = "reading" /\ reader'[c].pc = "over" =>
             \A e \in Retained : e <= reader[c].last]_vars
  BY EndIsLastStep
<1> QED
  BY <1>1, Invariance, PTL DEF Spec, EndIsLast

-----------------------------------------------------------------------------
(* The ring implements the promise of the bridge *)

LEMMA LogInitHolds == Init => EventLog!LogInit
<1> SUFFICES ASSUME Init PROVE EventLog!LogInit
  OBVIOUS
<1>1. \A c \in Subscribers : reader[c].last = 0 /\ (reader[c].pc = "over") = FALSE
  BY DEF Init
<1> QED
  BY <1>1 DEF Init, EventLog!LogInit

\* A step of one reader, as the log sees it.
LEMMA ReaderStep ==
  ASSUME NEW c \in Subscribers, NEW r \in Reader,
         reader \in [Subscribers -> Reader], reader' = [reader EXCEPT ![c] = r],
         NEW over \in BOOLEAN, over <=> r.pc = "over"
  PROVE  /\ [d \in Subscribers |-> reader[d].last]' =
              [[d \in Subscribers |-> reader[d].last] EXCEPT ![c] = r.last]
         /\ [d \in Subscribers |-> reader[d].pc = "over"]' =
              [[d \in Subscribers |-> reader[d].pc = "over"] EXCEPT ![c] = over]
<1>1. \A d \in Subscribers : reader'[d] = IF d = c THEN r ELSE reader[d]
  OBVIOUS
<1>2. \A d \in Subscribers : (reader'[d].pc = "over") = IF d = c THEN over ELSE reader[d].pc = "over"
  BY <1>1
<1>3. [d \in Subscribers |-> reader[d].last]' =
        [[d \in Subscribers |-> reader[d].last] EXCEPT ![c] = r.last]
  BY <1>1
<1>4. [d \in Subscribers |-> reader[d].pc = "over"]' =
        [[d \in Subscribers |-> reader[d].pc = "over"] EXCEPT ![c] = over]
  BY <1>2
<1> QED
  BY <1>3, <1>4

LEMMA LogStep ==
  ASSUME IInv, [Next]_vars
  PROVE  [EventLog!LogNext]_(EventLog!logVars)
<1> DEFINE seen == [c \in Subscribers |-> reader[c].last]
           told == [c \in Subscribers |-> reader[c].pc = "over"]
<1>t. /\ reader \in [Subscribers -> Reader] /\ count \in Nat /\ ended \in BOOLEAN
      /\ ended <=> done \/ expired
  BY DEF IInv, Window, TypeOK
<1>1. CASE UNCHANGED <<count, ended, reader>>
  BY <1>1 DEF EventLog!logVars
<1>2. CASE Publish
  BY <1>2 DEF Publish, EventLog!LogNext, EventLog!Append1
<1>3. CASE PublishEnd \/ Expire
  <2>1. UNCHANGED <<count, reader>> /\ (ended' = ended \/ ended' = TRUE)
    BY <1>3, <1>t DEF PublishEnd, Expire, EndedByExpiry
  <2> QED
    BY <2>1 DEF EventLog!LogNext, EventLog!Close, EventLog!logVars
<1>4. ASSUME NEW c \in Subscribers, Subscribe(c) PROVE EventLog!Resubscribe(c)
  <2>1. PICK id \in {0, reader[c].last} :
          reader' = [reader EXCEPT ![c] = [pc |-> IF expired THEN "over" ELSE "reading",
                                           next |-> StartOffset(id), last |-> id]]
    BY <1>4 DEF Subscribe
  <2> DEFINE r == [pc |-> IF expired THEN "over" ELSE "reading",
                   next |-> StartOffset(id), last |-> id]
  <2>o. id \in Nat /\ StartOffset(id) \in Nat /\ expired \in BOOLEAN
    BY <1>t, <2>1, StartOffsetIs DEF IInv, Window, TypeOK, Reader
  <2>r. r \in Reader /\ r.last = id /\ (expired <=> r.pc = "over")
    BY <2>o DEF Reader
  <2>2. seen' = [seen EXCEPT ![c] = id] /\ told' = [told EXCEPT ![c] = expired]
    BY <1>t, <2>1, <2>o, <2>r, ReaderStep
  <2>3. seen' \in {seen, [seen EXCEPT ![c] = 0]}
    BY <2>2
  <2>4. told' \in {[told EXCEPT ![c] = FALSE]} \cup
                  (IF ended THEN {[told EXCEPT ![c] = TRUE]} ELSE {})
    BY <1>t, <2>2 DEF IInv, Window, TypeOK
  <2>5. UNCHANGED <<count, ended>>
    BY <1>4 DEF Subscribe, stream
  <2> QED
    BY <2>3, <2>4, <2>5 DEF EventLog!Resubscribe
<1>5. ASSUME NEW c \in Subscribers, Read(c) PROVE EventLog!Deliver(c)
  <2>1. /\ Offset(c) \in Nat /\ reader[c].last <= Offset(c) /\ Offset(c) < count
        /\ reader' = [reader EXCEPT ![c] = [pc |-> "reading", next |-> Offset(c) + 1,
                                                last |-> Offset(c) + 1]]
    BY <1>5, ReadIs
  <2>2. UNCHANGED <<count, ended>> /\ reader[c].pc = "reading"
    BY <1>5 DEF Read, stream
  <2> DEFINE r == [pc |-> "reading", next |-> Offset(c) + 1, last |-> Offset(c) + 1]
  <2>r. /\ r \in Reader /\ r.last = Offset(c) + 1 /\ (FALSE <=> r.pc = "over")
        /\ reader' = [reader EXCEPT ![c] = r]
    BY <1>t, <2>1, <2>2 DEF Reader
  <2>3. seen' = [seen EXCEPT ![c] = Offset(c) + 1] /\ told' = [told EXCEPT ![c] = FALSE]
    BY <1>t, <2>r, ReaderStep
  <2>6. told' = told
    BY <2>2, <2>3
  <2>4. Offset(c) + 1 \in 1..count /\ Offset(c) + 1 > seen[c]
    BY <1>t, <2>1 DEF Reader
  <2>5. ~told[c]
    BY <2>2
  <2> QED
    BY <2>2, <2>3, <2>4, <2>5, <2>6 DEF EventLog!Deliver
<1>6. ASSUME NEW c \in Subscribers, ReadEnd(c) PROVE EventLog!Finish(c)
  <2>1. ended /\ UNCHANGED <<count, ended>> /\ reader' = [reader EXCEPT ![c].pc = "over"]
    BY <1>6 DEF ReadEnd, stream
  <2> DEFINE r == [reader[c] EXCEPT !.pc = "over"]
  <2>r. /\ r \in Reader /\ r.last = reader[c].last /\ (TRUE <=> r.pc = "over")
        /\ reader' = [reader EXCEPT ![c] = r]
    BY <1>t, <2>1 DEF Reader
  <2>3. seen' = [seen EXCEPT ![c] = reader[c].last] /\ told' = [told EXCEPT ![c] = TRUE]
    BY <1>t, <2>r, ReaderStep
  <2>2. seen' = seen /\ told' = [told EXCEPT ![c] = TRUE]
    BY <2>3
  <2> QED
    BY <2>1, <2>2 DEF EventLog!Finish
<1>7. ASSUME NEW c \in Subscribers, Leave(c) PROVE EventLog!Resubscribe(c)
  <2>1. UNCHANGED <<count, ended>> /\ reader' = [reader EXCEPT ![c].pc = "out"]
    BY <1>7 DEF Leave, stream
  <2> DEFINE r == [reader[c] EXCEPT !.pc = "out"]
  <2>r. /\ r \in Reader /\ r.last = reader[c].last /\ (FALSE <=> r.pc = "over")
        /\ reader' = [reader EXCEPT ![c] = r]
    BY <1>t, <2>1 DEF Reader
  <2>3. seen' = [seen EXCEPT ![c] = reader[c].last] /\ told' = [told EXCEPT ![c] = FALSE]
    BY <1>t, <2>r, ReaderStep
  <2>2. seen' = seen /\ told' = [told EXCEPT ![c] = FALSE]
    BY <2>3
  <2> QED
    BY <2>1, <2>2 DEF EventLog!Resubscribe
<1> QED
  BY <1>1, <1>2, <1>3, <1>4, <1>5, <1>6, <1>7 DEF Next, vars, stream, EventLog!LogNext

\* The ring implements what base.py promises of a stream.
THEOREM ImplementsLog == Spec => LogSpec
<1>1. Init => EventLog!LogInit
  BY LogInitHolds
<1>2. IInv /\ [Next]_vars => [EventLog!LogNext]_(EventLog!logVars)
  BY LogStep
<1> QED
  BY <1>1, <1>2, Invariance, PTL DEF Spec, LogSpec, EventLog!LogSpec
=============================================================================
