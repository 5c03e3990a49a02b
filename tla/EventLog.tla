------------------------------- MODULE EventLog -------------------------------
(***************************************************************************)
(* What a StreamBridge (deerflow/runtime/stream_bridge/base.py) promises of *)
(* the events of one run: a subscriber that resumes from its Last-Event-ID  *)
(* is given published events in order and none twice, and END is the last   *)
(* it is given, after the producer has ended or the replay has expired.     *)
(***************************************************************************)
EXTENDS Naturals

CONSTANTS Subscribers

VARIABLES published, \* events 1..published exist
          closed,    \* publish_end() or expire() was called
          seen,      \* the newest event each subscriber acknowledges
          told       \* it was given END

logVars == <<published, closed, seen, told>>

LogInit ==
  /\ published = 0
  /\ closed = FALSE
  /\ seen = [c \in Subscribers |-> 0]
  /\ told = [c \in Subscribers |-> FALSE]

Append1 == published' = published + 1 /\ UNCHANGED <<closed, seen, told>>
Close == closed' = TRUE /\ UNCHANGED <<published, seen, told>>

\* Events may be skipped: the buffer is bounded.
Deliver(c) ==
  /\ ~told[c]
  /\ \E e \in 1..published : e > seen[c] /\ seen' = [seen EXCEPT ![c] = e]
  /\ UNCHANGED <<published, closed, told>>

Finish(c) ==
  /\ closed
  /\ told' = [told EXCEPT ![c] = TRUE]
  /\ UNCHANGED <<published, closed, seen>>

\* A subscription begins, from the last event or from nothing.  It may be over
\* at once.
Resubscribe(c) ==
  /\ told' \in {[told EXCEPT ![c] = FALSE]} \cup
               (IF closed THEN {[told EXCEPT ![c] = TRUE]} ELSE {})
  /\ seen' \in {seen, [seen EXCEPT ![c] = 0]}
  /\ UNCHANGED <<published, closed>>

LogNext == \/ Append1 \/ Close
           \/ \E c \in Subscribers : Deliver(c) \/ Finish(c) \/ Resubscribe(c)

LogSpec == LogInit /\ [][LogNext]_logVars
=============================================================================
