------------------------------ MODULE RedisStream ------------------------------
(***************************************************************************)
(* deerflow/runtime/stream_bridge/redis.py: the events of one run in a      *)
(* Redis stream.  A command is in flight between the await that sends it    *)
(* and its effect; commands of one process use several connections, so a    *)
(* DELETE may overtake an XADD.  _expired_runs is the process's own.        *)
(***************************************************************************)
EXTENDS Naturals, Sequences, SequencesExt

CONSTANTS
  Subscribers,
  Maxlen,        \* XADD MAXLEN ~
  ReadCount,     \* XREAD COUNT
  MaxEvents,     \* bound on the events of the run
  Faults         \* what may happen while somebody reads, of AllFaults

AllFaults == {"expiry",  \* the replay expires
              "command", \* an XADD raises, applied or not
              "ttl"}     \* nothing is written for retention_seconds

ASSUME RedisStreamAssumption ==
  /\ Maxlen \in Nat \ {0} /\ ReadCount \in Nat \ {0} /\ MaxEvents \in Nat
  /\ Faults \subseteq AllFaults

VARIABLES
  key,      \* the entries under the run's key
  count,    \* the newest entry id
  sent,     \* the producer's XADD in flight
  done,     \* the producer has called publish_end()
  expired,  \* run_id in _expired_runs
  deleting, \* the DELETE of expire() in flight
  reader    \* the subscribe() generator of each subscriber

producer == <<sent, done>>
vars == <<key, count, producer, expired, deleting, reader>>

Entry == [id: Nat, end: BOOLEAN]
Reader == [pc: {"out", "reading", "over"},
           last: Nat,        \* redis_id, the client's Last-Event-ID
           batch: Seq(Entry)]\* the XREAD response, not yet yielded

Init ==
  /\ key = <<>> /\ count = 0
  /\ sent = "none" /\ done = FALSE
  /\ expired = FALSE /\ deleting = FALSE
  /\ reader = [c \in Subscribers |-> [pc |-> "out", last |-> 0, batch |-> <<>>]]

-----------------------------------------------------------------------------
(* The producer *)

\* publish() and publish_end() look at _expired_runs before they send.
Publish ==
  /\ sent = "none" /\ ~done /\ ~expired
  /\ count < MaxEvents
  /\ sent' = "event"
  /\ UNCHANGED <<key, count, done, expired, deleting, reader>>

PublishEnd ==
  /\ sent = "none" /\ ~done
  /\ done' = TRUE
  /\ sent' = IF expired THEN "none" ELSE "end"
  /\ UNCHANGED <<key, count, expired, deleting, reader>>

\* Approximate trimming drops whole nodes of old entries, and may drop none.
Trimmed(entries) ==
  {SubSeq(entries, n, Len(entries)) :
     n \in 1..(IF Len(entries) > Maxlen THEN Len(entries) - Maxlen + 1 ELSE 1)}

Xadd ==
  /\ sent # "none"
  /\ count' = count + 1
  /\ key' \in Trimmed(Append(key, [id |-> count', end |-> sent = "end"]))
  /\ sent' = "none"
  /\ UNCHANGED <<done, expired, deleting, reader>>

\* The command raises in the producer, which goes on to its handlers.
XaddFails ==
  /\ "command" \in Faults
  /\ sent # "none"
  /\ sent' = "none"
  /\ UNCHANGED <<key, count, done, expired, deleting, reader>>

-----------------------------------------------------------------------------
(* Expiry *)

Expire ==
  /\ "expiry" \in Faults
  /\ ~expired
  /\ expired' = TRUE /\ deleting' = TRUE
  /\ UNCHANGED <<key, count, producer, reader>>

Delete ==
  /\ deleting
  /\ key' = <<>> /\ deleting' = FALSE
  /\ UNCHANGED <<count, producer, expired, reader>>

\* The EXPIRE of the last write elapses.
KeyExpires ==
  /\ "ttl" \in Faults
  /\ sent = "none" /\ key # <<>>
  /\ key' = <<>>
  /\ UNCHANGED <<count, producer, expired, deleting, reader>>

-----------------------------------------------------------------------------
(* subscribe() *)

\* Mutant: a stream that is not there is taken for one that has expired.
GoneIfMissing == key = <<>>

\* A subscription to an expired run is given END at once.
Gone == expired

Subscribe(c) ==
  /\ reader[c].pc = "out"
  /\ \E id \in {0, reader[c].last} :
       reader' = [reader EXCEPT ![c] =
                    [pc |-> IF Gone THEN "over" ELSE "reading", last |-> id, batch |-> <<>>]]
  /\ UNCHANGED <<key, count, producer, expired, deleting>>

\* Mutant: XREAD is given an inclusive start, as XRANGE would be.
BehindInclusive(n, id) == key[n].id >= id /\ \A i \in 1..(n - 1) : key[i].id < id

\* The first entry behind an id.
Behind(n, id) == key[n].id > id /\ \A i \in 1..(n - 1) : key[i].id <= id

\* XREAD answers; an empty answer is a heartbeat and changes nothing.
Fetch(c) ==
  /\ reader[c].pc = "reading" /\ reader[c].batch = <<>>
  /\ \E n \in 1..Len(key) :
       /\ Behind(n, reader[c].last)
       /\ LET last == IF Len(key) < n + ReadCount THEN Len(key) ELSE n + ReadCount - 1
          IN reader' = [reader EXCEPT ![c].batch = SubSeq(key, n, last)]
  /\ UNCHANGED <<key, count, producer, expired, deleting>>

\* Mutant: the END entry is yielded like an event, and not recognised.
AfterEntryEndless(r) == [r EXCEPT !.last = Head(r.batch).id, !.batch = Tail(r.batch)]

\* Mutant: a batch that holds END ends the subscription before its events.
AfterEntryEager(r) ==
  IF \E i \in 1..Len(r.batch) : r.batch[i].end THEN [r EXCEPT !.pc = "over", !.batch = <<>>]
  ELSE [r EXCEPT !.last = Head(r.batch).id, !.batch = Tail(r.batch)]

\* The reader after the next entry of its batch.
AfterEntry(r) ==
  IF Head(r.batch).end THEN [r EXCEPT !.pc = "over", !.batch = <<>>]
  ELSE [r EXCEPT !.last = Head(r.batch).id, !.batch = Tail(r.batch)]

Yield(c) ==
  /\ reader[c].pc = "reading" /\ reader[c].batch # <<>>
  /\ reader' = [reader EXCEPT ![c] = AfterEntry(@)]
  /\ UNCHANGED <<key, count, producer, expired, deleting>>

Leave(c) ==
  /\ reader[c].pc # "out"
  /\ reader' = [reader EXCEPT ![c].pc = "out", ![c].batch = <<>>]
  /\ UNCHANGED <<key, count, producer, expired, deleting>>

-----------------------------------------------------------------------------
Next == \/ Publish \/ PublishEnd \/ Xadd \/ XaddFails
        \/ Expire \/ Delete \/ KeyExpires
        \/ \E c \in Subscribers : Subscribe(c) \/ Fetch(c) \/ Yield(c) \/ Leave(c)

Spec == Init /\ [][Next]_vars

\* Runs end (strong: a publish that fails in between is no excuse), commands arrive,
\* and readers read.
Fairness == /\ SF_vars(PublishEnd) /\ WF_vars(Xadd) /\ WF_vars(Delete)
            /\ \A c \in Subscribers : WF_vars(Fetch(c)) /\ WF_vars(Yield(c))

LiveSpec == Spec /\ Fairness

-----------------------------------------------------------------------------
(* Properties *)

TypeOK ==
  /\ key \in Seq(Entry)
  /\ count \in Nat
  /\ sent \in {"none", "event", "end"} /\ done \in BOOLEAN
  /\ expired \in BOOLEAN /\ deleting \in BOOLEAN
  /\ reader \in [Subscribers -> Reader]

Ascending(entries) == \A i, j \in 1..Len(entries) : i < j => entries[i].id < entries[j].id

\* Entries are in the order they were published, on the server and in every
\* response, a response holds only what its reader has not seen, and END is the
\* newest entry of all.
Ordered ==
  /\ TypeOK
  /\ Ascending(key)
  /\ \A i \in 1..Len(key) : key[i].id <= count /\ (key[i].end => done /\ key[i].id = count)
  /\ \A c \in Subscribers :
       LET b == reader[c].batch IN
       /\ reader[c].last <= count
       /\ Ascending(b)
       /\ \A i \in 1..Len(b) : /\ reader[c].last < b[i].id /\ b[i].id <= count
                               /\ b[i].end => done

\* END comes after every event that is still stored.
EndIsLast ==
  [][\A c \in Subscribers :
       reader[c].pc = "reading" /\ reader'[c].pc = "over" =>
         \A i \in 1..Len(key) : key[i].end \/ key[i].id <= reader[c].last]_vars

\* A subscriber hears the end of the run whenever the server holds one: it waits for
\* ever only if no END entry was stored, or none is left.
EveryStoredEndIsHeard ==
  \A c \in Subscribers :
    reader[c].pc = "reading" ~>
      \/ reader[c].pc # "reading"
      \/ done /\ sent = "none" /\ \A i \in 1..Len(key) : ~key[i].end

\* The Redis stream implements what base.py promises.
EventLog == INSTANCE EventLog
              WITH published <- count, closed <- (done \/ expired),
                   seen <- [c \in Subscribers |-> reader[c].last],
                   told <- [c \in Subscribers |-> reader[c].pc = "over"]
LogSpec == EventLog!LogSpec
=============================================================================
