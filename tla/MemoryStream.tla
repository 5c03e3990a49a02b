----------------------------- MODULE MemoryStream -----------------------------
(***************************************************************************)
(* deerflow/runtime/stream_bridge/memory.py: the ring of events of one run, *)
(* its producer and its subscribers, on one asyncio loop.  Offsets count    *)
(* the events ever published; events[1] is at offset `start`.               *)
(***************************************************************************)
EXTENDS Naturals, Sequences

CONSTANTS
  Subscribers,
  QueueMaxsize,   \* stream_bridge.queue_maxsize
  MaxEvents       \* bound on the events of the run

ASSUME MemoryStreamAssumption ==
  /\ QueueMaxsize \in Nat \ {0}
  /\ MaxEvents \in Nat

VARIABLES
  events,   \* _RunStream.events, each by its number
  start,    \* _RunStream.start_offset
  ended,    \* _RunStream.ended
  expired,  \* _RunStream.expired
  count,    \* _counters[run_id]
  done,     \* the producer has called publish_end()
  reader    \* the subscribe() generator of each subscriber

stream == <<events, start, ended, expired>>
vars == <<stream, count, done, reader>>

Reader == [pc: {"out", "reading", "over"},
           next: Nat,    \* next_offset
           last: Nat]    \* the Last-Event-ID of the client, 0 if it has none

Init ==
  /\ events = <<>> /\ start = 0
  /\ ended = FALSE /\ expired = FALSE
  /\ count = 0 /\ done = FALSE
  /\ reader = [c \in Subscribers |-> [pc |-> "out", next |-> 0, last |-> 0]]

Retained == {events[i] : i \in 1..Len(events)}

-----------------------------------------------------------------------------
(* The producer and the run's lifecycle *)

\* start_offset after `dropped` events were deleted from the front.
Overflow(dropped) == start + dropped

\* publish()
Publish ==
  LET appended == Append(events, count + 1)
      dropped  == IF Len(appended) > QueueMaxsize THEN Len(appended) - QueueMaxsize ELSE 0
  IN /\ ~done /\ ~expired
     /\ count < MaxEvents
     /\ count' = count + 1
     /\ events' = SubSeq(appended, dropped + 1, Len(appended))
     /\ start' = Overflow(dropped)
     /\ UNCHANGED <<ended, expired, done, reader>>

\* publish_end(): an expired stream is left alone.
PublishEnd ==
  /\ ~done
  /\ done' = TRUE
  /\ ended' = (ended \/ ~expired)
  /\ UNCHANGED <<events, start, expired, count, reader>>

\* Mutant: an expired stream is only marked, its readers are not ended.
EndedByExpiryNot == ended

\* expire() ends the stream for whoever reads it.
EndedByExpiry == TRUE

Expire ==
  /\ ~expired
  /\ events' = <<>> /\ start' = 0
  /\ ended' = EndedByExpiry /\ expired' = TRUE
  /\ UNCHANGED <<count, done, reader>>

-----------------------------------------------------------------------------
(* subscribe() *)

\* _resolve_start_offset(): after the acknowledged event, or the oldest retained.
StartOffset(id) ==
  IF id \in Retained THEN start + (CHOOSE i \in 1..Len(events) : events[i] = id) ELSE start

\* A subscription begins, with or without a Last-Event-ID.
Subscribe(c) ==
  /\ reader[c].pc = "out"
  /\ \E id \in {0, reader[c].last} :
       reader' = [reader EXCEPT ![c] =
                    [pc |-> IF expired THEN "over" ELSE "reading",
                     next |-> StartOffset(id), last |-> id]]
  /\ UNCHANGED <<stream, count, done>>

\* Mutant: it resumes at the newest event.
OffsetNewest(c) == IF reader[c].next < start THEN start + Len(events) - 1 ELSE reader[c].next

\* A reader that fell behind resumes at the oldest retained event.
Offset(c) == IF reader[c].next < start THEN start ELSE reader[c].next

Available(c) == start <= Offset(c) /\ Offset(c) < start + Len(events)

\* One turn of the loop that yields an event.
Read(c) ==
  /\ reader[c].pc = "reading"
  /\ Available(c)
  /\ reader' = [reader EXCEPT ![c] = [pc |-> "reading", next |-> Offset(c) + 1,
                                       last |-> events[Offset(c) - start + 1]]]
  /\ UNCHANGED <<stream, count, done>>

\* END_SENTINEL, once the buffer is drained.
ReadEnd(c) ==
  /\ reader[c].pc = "reading"
  /\ ~Available(c) /\ ended
  /\ reader' = [reader EXCEPT ![c].pc = "over"]
  /\ UNCHANGED <<stream, count, done>>

\* The client goes; it may come back.
Leave(c) ==
  /\ reader[c].pc # "out"
  /\ reader' = [reader EXCEPT ![c].pc = "out"]
  /\ UNCHANGED <<stream, count, done>>

-----------------------------------------------------------------------------
Next == \/ Publish \/ PublishEnd \/ Expire
        \/ \E c \in Subscribers : Subscribe(c) \/ Read(c) \/ ReadEnd(c) \/ Leave(c)

Spec == Init /\ [][Next]_vars

\* The loop runs a reader that has something to read, and runs end.
Fairness == /\ WF_vars(PublishEnd)
            /\ \A c \in Subscribers : WF_vars(Read(c)) /\ WF_vars(ReadEnd(c))

LiveSpec == Spec /\ Fairness

-----------------------------------------------------------------------------
(* Properties *)

TypeOK ==
  /\ events \in Seq(Nat) /\ start \in Nat
  /\ ended \in BOOLEAN /\ expired \in BOOLEAN
  /\ count \in Nat /\ done \in BOOLEAN
  /\ reader \in [Subscribers -> Reader]

\* The ring is the newest QueueMaxsize events, each at its own offset, until the
\* replay expires; only the producer's end or the expiry ends the stream.
Window ==
  /\ TypeOK
  /\ Len(events) <= QueueMaxsize
  /\ \A i \in 1..Len(events) : events[i] = start + i
  /\ IF expired THEN events = <<>> /\ start = 0 ELSE count = start + Len(events)
  /\ ended <=> done \/ expired

\* A reader's offset never lags what it has seen, nor runs ahead of the producer.
OffsetsFit ==
  \A c \in Subscribers :
    /\ reader[c].last <= count
    /\ reader[c].pc = "reading" => reader[c].last <= reader[c].next
    /\ reader[c].pc = "reading" /\ ~expired => reader[c].next <= count

\* Last-Event-ID replay: what is yielded is the oldest retained event the client
\* has not seen, so an event is skipped only when it is no longer buffered.
DeliversNext ==
  [][\A c \in Subscribers :
       reader[c].pc = "reading" /\ reader'[c].last # reader[c].last =>
         /\ reader'[c].last \in Retained
         /\ \A e \in Retained : e > reader[c].last => e >= reader'[c].last]_vars

\* END comes after every event that is still buffered.
EndIsLast ==
  [][\A c \in Subscribers :
       reader[c].pc = "reading" /\ reader'[c].pc = "over" =>
         \A e \in Retained : e <= reader[c].last]_vars

\* A subscriber hears the end of the run, or leaves.
EveryReaderEnds ==
  \A c \in Subscribers : reader[c].pc = "reading" ~> reader[c].pc # "reading"

\* The ring implements what base.py promises.
EventLog == INSTANCE EventLog
              WITH published <- count, closed <- ended,
                   seen <- [c \in Subscribers |-> reader[c].last],
                   told <- [c \in Subscribers |-> reader[c].pc = "over"]
LogSpec == EventLog!LogSpec
=============================================================================
