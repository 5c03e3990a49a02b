--------------------------- MODULE RedisStreamProofs ---------------------------
(***************************************************************************)
(* RedisStream, for any number of subscribers and events, any MAXLEN and    *)
(* COUNT, and every fault: entries are in order on the server and in every  *)
(* response, END comes after everything that is still stored, and the       *)
(* stream implements EventLog.                                              *)
(*                                                                          *)
(* Ordered is nearly inductive.  It lacks that nothing follows END into the *)
(* stream (Closed), and that a response still agrees with the key after the *)
(* key was trimmed, deleted or lapsed: between what its reader has seen and *)
(* what the response reaches, the key holds only entries of it (Agrees).    *)
(***************************************************************************)
EXTENDS RedisStream, SequenceTheorems, TLAPS

\* END is in flight or stored only when the producer has ended, and then nothing follows.
Closed ==
  /\ sent = "end" => done
  /\ \A i \in 1..Len(key) : key[i].end => sent = "none"
  /\ \A c \in Subscribers : \A i \in 1..Len(reader[c].batch) :
       reader[c].batch[i].end => sent = "none" /\ reader[c].batch[i].id = count

Agrees ==
  \A c \in Subscribers : \A i \in 1..Len(key) :
    LET b == reader[c].batch IN
    b # <<>> /\ reader[c].last < key[i].id /\ key[i].id <= b[Len(b)].id
      => \E j \in 1..Len(b) : b[j] = key[i]

IInv == Ordered /\ Closed /\ Agrees

-----------------------------------------------------------------------------
(* Sequences of entries *)

\* What a sequence of entries holds.
LEMMA Entries ==
  ASSUME NEW q \in Seq(Entry)
  PROVE  /\ Len(q) \in Nat
         /\ \A i \in 1..Len(q) : q[i] \in Entry /\ q[i].id \in Nat /\ q[i].end \in BOOLEAN
         /\ q # <<>> => 1 \in 1..Len(q) /\ Len(q) \in 1..Len(q)
<1>1. Len(q) \in Nat /\ \A i \in 1..Len(q) : q[i] \in Entry
  BY LenProperties, ElementOfSeq
<1>2. \A x \in Entry : x.id \in Nat /\ x.end \in BOOLEAN
  BY DEF Entry
<1>3. q # <<>> => Len(q) # 0
  BY EmptySeq
<1> QED
  BY <1>1, <1>2, <1>3

\* The entries of a part of a sequence are entries of it, at a distance.
LEMMA Part ==
  ASSUME NEW s \in Seq(Entry), NEW m \in 1..(Len(s) + 1), NEW n \in 0..Len(s)
  PROVE  LET t == SubSeq(s, m, n) IN
         /\ t \in Seq(Entry) /\ Len(t) = IF m <= n THEN n - m + 1 ELSE 0
         /\ \A i \in 1..Len(t) : t[i] = s[m + i - 1] /\ m + i - 1 \in 1..Len(s)
<1>1. Len(s) \in Nat /\ \A i \in m..n : s[i] \in Entry
  BY LenProperties, ElementOfSeq
<1>2. /\ SubSeq(s, m, n) \in Seq(Entry)
      /\ Len(SubSeq(s, m, n)) = IF m <= n THEN n - m + 1 ELSE 0
      /\ \A i \in 1..(n - m + 1) : SubSeq(s, m, n)[i] = s[m + i - 1]
  BY <1>1, SubSeqProperties
<1> QED
  BY <1>1, <1>2

\* What XADD leaves: the new entry, behind some of the old ones.
LEMMA Left ==
  ASSUME NEW s \in Seq(Entry), NEW e \in Entry, NEW t \in Trimmed(Append(s, e))
  PROVE  /\ t \in Seq(Entry)
         /\ \E d \in Nat : /\ Len(t) + d = Len(s) + 1
                           /\ \A i \in 1..Len(t) : t[i] = IF i + d <= Len(s) THEN s[i + d] ELSE e
<1> DEFINE a == Append(s, e)
<1>1. /\ a \in Seq(Entry) /\ Len(a) = Len(s) + 1 /\ Len(s) \in Nat
      /\ \A i \in 1..Len(s) : a[i] = s[i]
      /\ a[Len(s) + 1] = e
  BY AppendProperties, LenProperties
<1>2. PICK n \in 1..(IF Len(a) > Maxlen THEN Len(a) - Maxlen + 1 ELSE 1) : t = SubSeq(a, n, Len(a))
  BY DEF Trimmed
<1> HIDE DEF a
<1>3. n \in 1..Len(a)
  BY <1>1, <1>2, RedisStreamAssumption
<1>4. /\ t \in Seq(Entry) /\ Len(t) = Len(a) - n + 1
      /\ \A i \in 1..Len(t) : t[i] = a[n + i - 1] /\ n + i - 1 \in 1..Len(a)
  BY <1>1, <1>2, <1>3, Part
<1>5. n - 1 \in Nat /\ Len(t) + (n - 1) = Len(s) + 1
  BY <1>1, <1>3, <1>4
<1>6. ASSUME NEW i \in 1..Len(t)
      PROVE  t[i] = IF i + (n - 1) <= Len(s) THEN s[i + (n - 1)] ELSE e
  <2>1. n + i - 1 = i + (n - 1) /\ i + (n - 1) \in 1..(Len(s) + 1) /\ t[i] = a[i + (n - 1)]
    BY <1>1, <1>3, <1>4
  <2>2. CASE i + (n - 1) <= Len(s)
    BY <2>1, <2>2, <1>1
  <2>3. CASE ~(i + (n - 1) <= Len(s))
    <3>1. i + (n - 1) = Len(s) + 1
      BY <2>1, <2>3, <1>1, <1>3
    <3> QED
      BY <2>1, <2>3, <3>1, <1>1
  <2> QED
    BY <2>2, <2>3
<1> QED
  BY <1>4, <1>5, <1>6

-----------------------------------------------------------------------------
(* The invariant is inductive *)

\* The parts of Ordered that are about order.
Sorted ==
  /\ Ascending(key)
  /\ \A i \in 1..Len(key) : key[i].id <= count /\ (key[i].end => done /\ key[i].id = count)

InOrder(r) ==
  /\ r.last <= count
  /\ Ascending(r.batch)
  /\ \A i \in 1..Len(r.batch) : /\ r.last < r.batch[i].id /\ r.batch[i].id <= count
                                /\ r.batch[i].end => done

\* Ordered, part by part.
LEMMA Parts == Ordered <=> TypeOK /\ Sorted /\ \A c \in Subscribers : InOrder(reader[c])
  BY DEF Ordered, Sorted, InOrder

\* Nothing is stored, and nobody reads, at the start.
LEMMA InitIInv == Init => IInv
<1> SUFFICES ASSUME Init PROVE IInv
  OBVIOUS
<1> USE RedisStreamAssumption DEF Init
<1>1. <<>> \in Seq(Entry) /\ Len(<<>>) = 0
  BY EmptySeq
<1>2. done \in BOOLEAN /\ expired \in BOOLEAN /\ deleting \in BOOLEAN
  BY Zenon
<1>3. TypeOK
  BY <1>1, <1>2 DEF TypeOK, Reader
<1>4. Sorted /\ \A c \in Subscribers : InOrder(reader[c])
  BY <1>1 DEF Sorted, InOrder, Ascending
<1>5. Closed /\ Agrees
  BY <1>1 DEF Closed, Agrees
<1> QED
  BY <1>3, <1>4, <1>5, Parts DEF IInv

\* The flags stay truth values.
LEMMA FlagsStep ==
  TypeOK /\ [Next]_vars => done' \in BOOLEAN /\ expired' \in BOOLEAN /\ deleting' \in BOOLEAN
<1> SUFFICES ASSUME TypeOK, [Next]_vars
             PROVE  done' \in BOOLEAN /\ expired' \in BOOLEAN /\ deleting' \in BOOLEAN
  OBVIOUS
<1>1. done' \in {done, TRUE} /\ expired' \in {expired, TRUE} /\ deleting' \in {deleting, TRUE, FALSE}
  BY DEF Next, vars, producer, Publish, PublishEnd, Xadd, XaddFails, Expire, Delete, KeyExpires,
         Subscribe, Fetch, Yield, Leave
<1> QED
  BY <1>1, Zenon DEF TypeOK

\* The entry that XADD adds.
LEMMA NewEntry ==
  ASSUME TypeOK, Xadd
  PROVE  /\ key' \in Seq(Entry)
         /\ \E e \in Entry, d \in Nat :
              /\ e.id = count + 1 /\ (e.end <=> sent = "end")
              /\ Len(key') + d = Len(key) + 1
              /\ \A i \in 1..Len(key') : key'[i] = IF i + d <= Len(key) THEN key[i + d] ELSE e
<1> DEFINE e == [id |-> count', end |-> sent = "end"]
<1>1. (sent = "end") \in BOOLEAN
  BY Zenon
<1>2. e \in Entry
  BY <1>1 DEF Xadd, TypeOK, Entry
<1>3. e.id = count + 1 /\ (e.end <=> sent = "end") /\ key' \in Trimmed(Append(key, e))
  BY DEF Xadd
<1> HIDE DEF e
<1>4. key \in Seq(Entry)
  BY DEF TypeOK
<1>5. /\ key' \in Seq(Entry)
      /\ \E d \in Nat :
           /\ Len(key') + d = Len(key) + 1
           /\ \A i \in 1..Len(key') : key'[i] = IF i + d <= Len(key) THEN key[i + d] ELSE e
  BY <1>2, <1>3, <1>4, Left
<1> QED
  BY <1>2, <1>3, <1>5

\* XADD: what was stored stays in order in front of the new entry.
LEMMA XaddStep ==
  ASSUME IInv, Xadd
  PROVE  key' \in Seq(Entry) /\ Sorted' /\ Closed' /\ Agrees'
<1> USE DEF IInv, Ordered, TypeOK
<1>1. key' \in Seq(Entry)
  BY NewEntry
<1>2. PICK e \in Entry, d \in Nat :
        /\ e.id = count + 1 /\ (e.end <=> sent = "end")
        /\ Len(key') + d = Len(key) + 1
        /\ \A i \in 1..Len(key') : key'[i] = IF i + d <= Len(key) THEN key[i + d] ELSE e
  BY NewEntry
<1>3. /\ count' = count + 1 /\ sent # "none" /\ sent' = "none"
      /\ UNCHANGED <<done, expired, deleting, reader>>
  BY DEF Xadd
<1>4. /\ Len(key) \in Nat /\ Len(key') \in Nat
      /\ \A i \in 1..Len(key) : key[i] \in Entry /\ key[i].id \in Nat
      /\ \A i \in 1..Len(key') : key'[i] \in Entry /\ key'[i].id \in Nat
  BY <1>1, Entries
\* An entry of the key is an old one, not END, or the new one.
<1>5. \A i \in 1..Len(key') :
        \/ i + d \in 1..Len(key) /\ key'[i] = key[i + d] /\ ~key'[i].end /\ key'[i].id <= count
        \/ i + d = Len(key) + 1 /\ key'[i] = e
  <2> TAKE i \in 1..Len(key')
  <2>1. CASE i + d <= Len(key)
    <3>1. i + d \in 1..Len(key) /\ key'[i] = key[i + d]
      BY <2>1, <1>2, <1>4
    <3> QED
      BY <3>1, <1>3 DEF Closed
  <2>2. CASE ~(i + d <= Len(key))
    <3>1. i + d = Len(key) + 1
      <4>1. i \in Nat /\ i <= Len(key') /\ Len(key') + d = Len(key) + 1
        BY <1>2, <1>4
      <4> HIDE DEF IInv, Ordered, TypeOK
      <4> QED
        BY <4>1, <2>2, <1>4
    <3>2. key'[i] = e
      BY <2>2, <1>2
    <3> QED
      BY <3>1, <3>2
  <2> QED
    BY <2>1, <2>2
<1>6. Ascending(key')
  <2> SUFFICES ASSUME NEW i \in 1..Len(key'), NEW j \in 1..Len(key'), i < j
               PROVE  key'[i].id < key'[j].id
    BY DEF Ascending
  <2>1. i + d \in 1..Len(key) /\ key'[i] = key[i + d] /\ key'[i].id <= count
    BY <1>2, <1>4, <1>5
  <2>2. CASE j + d \in 1..Len(key)
    <3>1. key'[j] = key[j + d] /\ i + d < j + d
      BY <2>2, <1>4, <1>5
    <3> QED
      BY <2>1, <2>2, <3>1 DEF Ascending
  <2>3. CASE j + d \notin 1..Len(key)
    <3>1. key'[j] = e /\ e.id = count + 1
      BY <2>3, <1>2, <1>5
    <3>2. key'[i].id \in Nat /\ count \in Nat
      BY <1>4
    <3> QED
      BY <2>1, <3>1, <3>2
  <2> QED
    BY <2>2, <2>3
<1>7. \A i \in 1..Len(key') : key'[i].id <= count' /\ (key'[i].end => done' /\ key'[i].id = count')
  BY <1>2, <1>3, <1>4, <1>5 DEF Closed
<1>8. Closed'
  BY <1>3 DEF Closed
<1>9. Agrees'
  <2> SUFFICES ASSUME NEW c \in Subscribers, NEW i \in 1..Len(key'), reader[c].batch # <<>>,
                      reader[c].last < key'[i].id,
                      key'[i].id <= reader[c].batch[Len(reader[c].batch)].id
               PROVE  \E j \in 1..Len(reader[c].batch) : reader[c].batch[j] = key'[i]
    BY <1>3 DEF Agrees
  <2>1. Len(reader[c].batch) \in 1..Len(reader[c].batch) /\ reader[c].batch \in Seq(Entry)
    <3>1. reader[c].batch \in Seq(Entry)
      BY DEF Reader
    <3> QED
      BY <3>1, EmptySeq, LenProperties
  <2>2. /\ reader[c].batch[Len(reader[c].batch)].id <= count
        /\ reader[c].batch[Len(reader[c].batch)].id \in Nat
    <3>1. reader[c].batch[Len(reader[c].batch)] \in Entry
      BY <2>1, ElementOfSeq
    <3> QED
      BY <2>1, <3>1 DEF Entry
  <2>3. key'[i].id # count + 1
    BY <2>2, <1>4
  <2>4. i + d \in 1..Len(key) /\ key'[i] = key[i + d]
    BY <2>3, <1>2, <1>5
  <2> QED
    BY <2>4 DEF Agrees
<1> QED
  BY <1>1, <1>3, <1>6, <1>7, <1>8, <1>9 DEF Sorted

\* A step of the producer that leaves the stream alone.
LEMMA ProducerStep ==
  ASSUME IInv, Publish \/ PublishEnd \/ XaddFails
  PROVE  Sorted' /\ (\A c \in Subscribers : InOrder(reader[c])') /\ Closed' /\ Agrees'
<1>1. /\ UNCHANGED <<key, count, reader>>
      /\ done => done'
      /\ sent' = "end" => done'
      /\ sent' = "none" \/ ~done
  BY DEF Publish, PublishEnd, XaddFails
<1>2. Sorted'
  BY <1>1, Parts DEF IInv, Sorted, Ascending
<1>3. \A c \in Subscribers : InOrder(reader[c])'
  BY <1>1, Parts DEF IInv, InOrder, Ascending
<1>4. Closed'
  BY <1>1, Parts DEF IInv, Sorted, InOrder, Closed
<1>5. Agrees'
  BY <1>1 DEF IInv, Agrees
<1> QED
  BY <1>2, <1>3, <1>4, <1>5

\* The key goes.
LEMMA KeyStep ==
  ASSUME IInv, Delete \/ KeyExpires
  PROVE  key' \in Seq(Entry) /\ Sorted' /\ Closed' /\ Agrees'
<1>1. key' = <<>> /\ UNCHANGED <<count, sent, done, reader>>
  BY DEF Delete, KeyExpires, producer
<1>2. <<>> \in Seq(Entry) /\ Len(<<>>) = 0
  BY EmptySeq
<1>3. Sorted'
  BY <1>1, <1>2 DEF Sorted, Ascending
<1>4. Closed'
  BY <1>1, <1>2 DEF IInv, Closed
<1>5. Agrees'
  BY <1>1, <1>2 DEF Agrees
<1> QED
  BY <1>1, <1>2, <1>3, <1>4, <1>5

-----------------------------------------------------------------------------
(* A reader's steps *)

\* What Closed and Agrees say of one reader.
Fits(r) ==
  /\ \A i \in 1..Len(r.batch) : r.batch[i].end => sent = "none" /\ r.batch[i].id = count
  /\ \A i \in 1..Len(key) :
       r.batch # <<>> /\ r.last < key[i].id /\ key[i].id <= r.batch[Len(r.batch)].id
         => \E j \in 1..Len(r.batch) : r.batch[j] = key[i]

\* The invariant, reader by reader.
LEMMA ByReader ==
  ASSUME IInv, NEW c \in Subscribers
  PROVE  reader[c] \in Reader /\ InOrder(reader[c]) /\ Fits(reader[c])
<1>1. reader[c] \in Reader
  BY DEF IInv, Ordered, TypeOK
<1>2. InOrder(reader[c])
  BY Parts DEF IInv
<1>3. Fits(reader[c])
  BY DEF IInv, Closed, Agrees, Fits
<1> QED
  BY <1>1, <1>2, <1>3

\* It is enough to look at the reader that moves.
LEMMA OneReader ==
  ASSUME IInv, NEW c \in Subscribers, NEW r \in Reader, InOrder(r), Fits(r),
         reader' = [reader EXCEPT ![c] = r], UNCHANGED <<key, count, producer>>
  PROVE  /\ reader' \in [Subscribers -> Reader]
         /\ Sorted' /\ (\A d \in Subscribers : InOrder(reader[d])') /\ Closed' /\ Agrees'
<1>1. UNCHANGED <<key, count, sent, done>>
  BY DEF producer
<1>2. reader \in [Subscribers -> Reader]
  BY DEF IInv, Ordered, TypeOK
<1>3. \A d \in Subscribers : reader'[d] = IF d = c THEN r ELSE reader[d]
  BY <1>2
<1>4. \A d \in Subscribers : InOrder(reader'[d]) /\ Fits(reader'[d])
  BY <1>3, ByReader
<1>5. reader' \in [Subscribers -> Reader]
  BY <1>2
<1>6. Sorted'
  BY <1>1, Parts DEF IInv, Sorted, Ascending
<1>7. \A d \in Subscribers : InOrder(reader[d])'
  BY <1>1, <1>4 DEF InOrder
<1>8. Closed'
  BY <1>1, <1>4 DEF IInv, Closed, Fits
<1>9. Agrees'
  BY <1>1, <1>4 DEF Agrees, Fits
<1> QED
  BY <1>5, <1>6, <1>7, <1>8, <1>9

\* A reader between two responses is in order wherever it stands.
LEMMA EmptyHanded ==
  ASSUME NEW r \in Reader, r.batch = <<>>, r.last <= count
  PROVE  InOrder(r) /\ Fits(r)
<1>1. Len(<<>>) = 0
  BY EmptySeq
<1> QED
  BY <1>1 DEF InOrder, Fits, Ascending

\* A subscription begins, or its generator is closed.
LEMMA ComesOrGoes ==
  ASSUME IInv, NEW c \in Subscribers, Subscribe(c) \/ Leave(c)
  PROVE  \E r \in Reader : r.batch = <<>> /\ r.last <= count /\ reader' = [reader EXCEPT ![c] = r]
<1>1. reader[c] \in Reader /\ reader[c].last <= count /\ count \in Nat
  BY ByReader DEF InOrder, IInv, Ordered, TypeOK
<1>2. <<>> \in Seq(Entry)
  BY EmptySeq
<1>3. CASE Subscribe(c)
  <2>1. PICK id \in {0, reader[c].last} :
          reader' = [reader EXCEPT ![c] =
                       [pc |-> IF Gone THEN "over" ELSE "reading", last |-> id, batch |-> <<>>]]
    BY <1>3 DEF Subscribe
  <2> DEFINE r == [pc |-> IF Gone THEN "over" ELSE "reading", last |-> id, batch |-> <<>>]
  <2>2. id \in Nat /\ id <= count
    BY <1>1 DEF Reader
  <2>3. r \in Reader
    BY <1>2, <2>2 DEF Reader
  <2> QED
    BY <2>1, <2>2, <2>3
<1>4. CASE Leave(c)
  <2> DEFINE r == [reader[c] EXCEPT !.pc = "out", !.batch = <<>>]
  <2>1. r \in Reader /\ r.batch = <<>> /\ r.last = reader[c].last
    BY <1>1, <1>2 DEF Reader
  <2>2. reader' = [reader EXCEPT ![c] = r]
    BY <1>4 DEF Leave
  <2> QED
    BY <1>1, <2>1, <2>2
<1> QED
  BY <1>3, <1>4

\* XREAD answers with entries its reader has not seen, and skips none of them.
LEMMA FetchStep ==
  ASSUME IInv, NEW c \in Subscribers, Fetch(c)
  PROVE  \E r \in Reader : InOrder(r) /\ Fits(r) /\ reader' = [reader EXCEPT ![c] = r]
<1>1. PICK n \in 1..Len(key) :
        /\ Behind(n, reader[c].last)
        /\ reader' = [reader EXCEPT ![c].batch =
                        SubSeq(key, n, IF Len(key) < n + ReadCount THEN Len(key)
                                       ELSE n + ReadCount - 1)]
  BY DEF Fetch
<1>2. reader[c] \in Reader /\ reader[c].last <= count
  BY ByReader DEF InOrder
<1>3. key \in Seq(Entry) /\ count \in Nat
  BY DEF IInv, Ordered, TypeOK
<1>4. Len(key) \in Nat /\ \A i \in 1..Len(key) : key[i].id \in Nat
  BY <1>3, Entries
<1>5. PICK m : m = IF Len(key) < n + ReadCount THEN Len(key) ELSE n + ReadCount - 1
  OBVIOUS
<1>6. m \in n..Len(key)
  <2>1. ReadCount \in Nat /\ ReadCount >= 1 /\ n \in Nat /\ n >= 1 /\ n <= Len(key)
    BY <1>4, RedisStreamAssumption
  <2> QED
    BY <2>1, <1>4, <1>5
<1>7. PICK b \in Seq(Entry) :
        /\ b = SubSeq(key, n, m) /\ Len(b) = m - n + 1
        /\ \A i \in 1..Len(b) : b[i] = key[n + i - 1] /\ n + i - 1 \in 1..Len(key)
  <2>1. n \in 1..(Len(key) + 1) /\ m \in 0..Len(key) /\ n <= m
    BY <1>4, <1>6
  <2>2. LET t == SubSeq(key, n, m) IN
        /\ t \in Seq(Entry) /\ Len(t) = IF n <= m THEN m - n + 1 ELSE 0
        /\ \A i \in 1..Len(t) : t[i] = key[n + i - 1] /\ n + i - 1 \in 1..Len(key)
    BY <2>1, <1>3, Part
  <2> QED
    BY <2>1, <2>2
<1> DEFINE r == [reader[c] EXCEPT !.batch = b]
<1>8. r \in Reader /\ r.batch = b /\ r.last = reader[c].last /\ r.last \in Nat
  BY <1>2, <1>7 DEF Reader
<1>9. reader' = [reader EXCEPT ![c] = r]
  BY <1>1, <1>5, <1>7
<1> HIDE DEF r
<1>10. Sorted
  BY Parts DEF IInv
<1>11. InOrder(r)
  <2>1. Ascending(b)
    <3> SUFFICES ASSUME NEW i \in 1..Len(b), NEW j \in 1..Len(b), i < j PROVE b[i].id < b[j].id
      BY DEF Ascending
    <3>1. n + i - 1 < n + j - 1
      BY <1>1, <1>4, <1>6, <1>7
    <3> QED
      BY <1>7, <1>10, <3>1 DEF Sorted, Ascending
  <2>2. ASSUME NEW i \in 1..Len(b)
        PROVE  r.last < b[i].id /\ b[i].id <= count /\ (b[i].end => done)
    <3>1. b[i] = key[n + i - 1] /\ n + i - 1 \in 1..Len(key)
      BY <1>7
    <3>2. b[i].id <= count /\ (b[i].end => done)
      BY <3>1, <1>10 DEF Sorted
    <3>3. r.last < key[n].id
      BY <1>1, <1>8 DEF Behind
    <3>4. n = n + i - 1 \/ n < n + i - 1
      BY <1>1, <1>4, <1>6, <1>7
    <3>5. key[n].id <= key[n + i - 1].id
      BY <3>1, <3>4, <1>1, <1>4, <1>10 DEF Sorted, Ascending
    <3>6. r.last < b[i].id
      BY <3>1, <3>3, <3>5, <1>1, <1>4, <1>8
    <3> QED
      BY <3>2, <3>6
  <2> QED
    BY <1>2, <1>8, <2>1, <2>2 DEF InOrder
<1>12. Fits(r)
  <2>1. ASSUME NEW i \in 1..Len(b), b[i].end PROVE sent = "none" /\ b[i].id = count
    BY <1>7, <1>10, <2>1 DEF Sorted, IInv, Closed
  <2>2. ASSUME NEW i \in 1..Len(key), r.last < key[i].id, key[i].id <= b[Len(b)].id
        PROVE  \E j \in 1..Len(b) : b[j] = key[i]
    <3>1. i >= n
      BY <2>2, <1>1, <1>4, <1>8 DEF Behind
    <3>2. b[Len(b)] = key[m]
      <4>1. Len(b) \in 1..Len(b) /\ n + Len(b) - 1 = m
        BY <1>1, <1>4, <1>6, <1>7
      <4> QED
        BY <4>1, <1>7
    <3>3. i <= m
      <4>1. i > m => key[m].id < key[i].id
        BY <1>1, <1>4, <1>6, <1>10 DEF Sorted, Ascending
      <4> QED
        BY <4>1, <2>2, <3>2, <1>1, <1>4, <1>6
    <3>4. i - n + 1 \in 1..Len(b) /\ n + (i - n + 1) - 1 = i
      BY <3>1, <3>3, <1>1, <1>4, <1>6, <1>7
    <3> QED
      BY <3>4, <1>7
  <2> QED
    BY <1>8, <2>1, <2>2 DEF Fits
<1> QED
  BY <1>8, <1>9, <1>11, <1>12

\* The next entry of a response is handed over.
LEMMA YieldStep ==
  ASSUME IInv, NEW c \in Subscribers, Yield(c)
  PROVE  \E r \in Reader : InOrder(r) /\ Fits(r) /\ reader' = [reader EXCEPT ![c] = r]
<1>1. reader' = [reader EXCEPT ![c] = AfterEntry(reader[c])] /\ reader[c].batch # <<>>
  BY DEF Yield
<1>2. reader[c] \in Reader /\ InOrder(reader[c]) /\ Fits(reader[c])
  BY ByReader
<1>3. PICK b \in Seq(Entry) : b = reader[c].batch
  BY <1>2 DEF Reader
<1>4. /\ Len(b) \in Nat
      /\ \A i \in 1..Len(b) : b[i] \in Entry /\ b[i].id \in Nat
      /\ b # <<>> /\ 1 \in 1..Len(b) /\ Len(b) \in 1..Len(b)
  BY <1>1, <1>3, Entries
<1>5. /\ Head(b) = b[1] /\ Tail(b) \in Seq(Entry) /\ Len(Tail(b)) = Len(b) - 1
      /\ \A i \in 1..Len(Tail(b)) : Tail(b)[i] = b[i + 1]
  BY <1>4, HeadTailProperties
<1>6. reader[c].last \in Nat /\ count \in Nat
  BY <1>2 DEF Reader, IInv, Ordered, TypeOK
<1>7. CASE b[1].end
  <2> DEFINE r == [reader[c] EXCEPT !.pc = "over", !.batch = <<>>]
  <2>1. r = AfterEntry(reader[c])
    BY <1>3, <1>5, <1>7 DEF AfterEntry
  <2>2. r \in Reader /\ r.batch = <<>> /\ r.last <= count
    BY <1>2, EmptySeq DEF Reader, InOrder
  <2> QED
    BY <1>1, <2>1, <2>2, EmptyHanded
<1>8. CASE ~b[1].end
  <2> DEFINE r == [reader[c] EXCEPT !.last = b[1].id, !.batch = Tail(b)]
  <2>1. r = AfterEntry(reader[c])
    BY <1>3, <1>5, <1>8 DEF AfterEntry
  <2>2. r \in Reader /\ r.batch = Tail(b) /\ r.last = b[1].id
    BY <1>2, <1>4, <1>5 DEF Reader
  <2> HIDE DEF r
  <2>3. /\ Ascending(b)
        /\ \A i \in 1..Len(b) : /\ reader[c].last < b[i].id /\ b[i].id <= count
                                /\ b[i].end => done
    BY <1>2, <1>3 DEF InOrder
  <2>4. \A i \in 1..Len(Tail(b)) : i + 1 \in 1..Len(b) /\ 1 < i + 1
    BY <1>4, <1>5
  <2>5. InOrder(r)
    <3>1. Ascending(Tail(b))
      <4> SUFFICES ASSUME NEW i \in 1..Len(Tail(b)), NEW j \in 1..Len(Tail(b)), i < j
                   PROVE  Tail(b)[i].id < Tail(b)[j].id
        BY DEF Ascending
      <4>1. i + 1 < j + 1
        OBVIOUS
      <4> QED
        BY <4>1, <1>5, <2>3, <2>4 DEF Ascending
    <3>2. \A i \in 1..Len(Tail(b)) : b[1].id < Tail(b)[i].id
      BY <1>4, <1>5, <2>3, <2>4 DEF Ascending
    <3>3. \A i \in 1..Len(Tail(b)) : Tail(b)[i].id <= count /\ (Tail(b)[i].end => done)
      BY <1>5, <2>3, <2>4
    <3> QED
      BY <2>2, <2>3, <3>1, <3>2, <3>3, <1>4 DEF InOrder
  <2>6. Fits(r)
    <3>1. ASSUME NEW i \in 1..Len(Tail(b)), Tail(b)[i].end
          PROVE  sent = "none" /\ Tail(b)[i].id = count
      BY <3>1, <1>2, <1>3, <1>5, <2>4 DEF Fits
    <3>2. ASSUME NEW i \in 1..Len(key), Tail(b) # <<>>, b[1].id < key[i].id,
                 key[i].id <= Tail(b)[Len(Tail(b))].id
          PROVE  \E j \in 1..Len(Tail(b)) : Tail(b)[j] = key[i]
      <4>1. Len(Tail(b)) \in 1..Len(Tail(b)) /\ Len(Tail(b)) + 1 = Len(b)
        BY <3>2, <1>4, <1>5, Entries
      <4>2. Tail(b)[Len(Tail(b))] = b[Len(b)]
        BY <4>1, <1>5
      <4>3. key[i].id \in Nat
        BY Entries DEF IInv, Ordered, TypeOK
      <4>4. reader[c].last < key[i].id
        BY <3>2, <4>3, <2>3, <1>4, <1>6
      <4>5. PICK j \in 1..Len(b) : b[j] = key[i]
        BY <3>2, <4>2, <4>4, <1>2, <1>3, <1>4 DEF Fits
      <4>6. j # 1
        BY <4>5, <3>2, <4>3, <1>4
      <4>7. j - 1 \in 1..Len(Tail(b)) /\ (j - 1) + 1 = j
        BY <4>6, <1>4, <1>5
      <4> QED
        BY <4>5, <4>7, <1>5
    <3> QED
      BY <2>2, <3>1, <3>2 DEF Fits
  <2> QED
    BY <1>1, <2>1, <2>2, <2>5, <2>6
<1> QED
  BY <1>7, <1>8

-----------------------------------------------------------------------------
(* The invariant holds *)

\* Every step, by the disjuncts of Next.
LEMMA NextIInv == IInv /\ [Next]_vars => IInv'
<1> SUFFICES ASSUME IInv, [Next]_vars PROVE IInv'
  OBVIOUS
<1>t. TypeOK
  BY DEF IInv, Ordered
<1>f. done' \in BOOLEAN /\ expired' \in BOOLEAN /\ deleting' \in BOOLEAN
  BY <1>t, FlagsStep
<1>o. TypeOK' /\ Sorted' /\ (\A c \in Subscribers : InOrder(reader[c])') => Ordered'
  BY DEF Ordered, Sorted, InOrder
<1>1. CASE UNCHANGED vars
  BY <1>1 DEF IInv, Ordered, TypeOK, Ascending, Closed, Agrees, vars, producer
<1>2. CASE Publish \/ PublishEnd \/ XaddFails
  <2>1. sent' \in {"none", "event", "end"} /\ UNCHANGED <<key, count, reader>>
    BY <1>2 DEF Publish, PublishEnd, XaddFails
  <2>2. TypeOK'
    BY <1>t, <1>f, <2>1 DEF TypeOK
  <2> QED
    BY <1>2, <1>o, <2>2, ProducerStep DEF IInv
<1>3. CASE Xadd
  <2>1. key' \in Seq(Entry) /\ Sorted' /\ Closed' /\ Agrees'
    BY <1>3, XaddStep
  <2>2. sent' = "none" /\ count' = count + 1 /\ UNCHANGED <<done, reader>>
    BY <1>3 DEF Xadd
  <2>3. TypeOK'
    BY <1>t, <1>f, <2>1, <2>2 DEF TypeOK
  <2>4. ASSUME NEW c \in Subscribers PROVE InOrder(reader[c])'
    <3>1. InOrder(reader[c]) /\ reader[c] \in Reader
      BY ByReader
    <3>2. /\ Len(reader[c].batch) \in Nat /\ reader[c].last \in Nat /\ count \in Nat
          /\ \A i \in 1..Len(reader[c].batch) : reader[c].batch[i].id \in Nat
      BY <1>t, <3>1, Entries DEF Reader, TypeOK
    <3> QED
      BY <2>2, <3>1, <3>2 DEF InOrder, Ascending
  <2> QED
    BY <1>o, <2>1, <2>3, <2>4 DEF IInv
<1>4. CASE Expire
  <2>1. UNCHANGED <<key, count, sent, done, reader>>
    BY <1>4 DEF Expire, producer
  <2>2. TypeOK'
    BY <1>t, <1>f, <2>1 DEF TypeOK
  <2> QED
    BY <2>1, <2>2 DEF IInv, Ordered, Ascending, Closed, Agrees
<1>5. CASE Delete \/ KeyExpires
  <2>1. key' \in Seq(Entry) /\ Sorted' /\ Closed' /\ Agrees'
    BY <1>5, KeyStep
  <2>2. UNCHANGED <<count, sent, done, reader>>
    BY <1>5 DEF Delete, KeyExpires, producer
  <2>3. TypeOK'
    BY <1>t, <1>f, <2>1, <2>2 DEF TypeOK
  <2>4. \A c \in Subscribers : InOrder(reader[c])'
    BY <2>2, Parts DEF IInv, InOrder, Ascending
  <2> QED
    BY <1>o, <2>1, <2>3, <2>4 DEF IInv
<1>6. ASSUME NEW c \in Subscribers, Subscribe(c) \/ Fetch(c) \/ Yield(c) \/ Leave(c) PROVE IInv'
  <2>1. UNCHANGED <<key, count, producer>>
    BY <1>6 DEF Subscribe, Fetch, Yield, Leave
  <2>2. \E r \in Reader : InOrder(r) /\ Fits(r) /\ reader' = [reader EXCEPT ![c] = r]
    BY <1>6, ComesOrGoes, EmptyHanded, FetchStep, YieldStep
  <2>3. /\ reader' \in [Subscribers -> Reader]
        /\ Sorted' /\ (\A d \in Subscribers : InOrder(reader[d])') /\ Closed' /\ Agrees'
    BY <2>1, <2>2, OneReader
  <2>4. TypeOK'
    BY <1>t, <1>f, <2>1, <2>3 DEF TypeOK, producer
  <2> QED
    BY <1>o, <2>3, <2>4 DEF IInv
<1> QED
  BY <1>1, <1>2, <1>3, <1>4, <1>5, <1>6 DEF Next

\* The inductive invariant of the Redis stream.
THEOREM Inductive == Spec => []IInv
<1> QED
  BY InitIInv, NextIInv, PTL DEF Spec

\* The variables keep the types redis.py gives them.
THEOREM TypeCorrect == Spec => []TypeOK
<1>1. IInv => TypeOK
  BY DEF IInv, Ordered
<1> QED
  BY <1>1, Inductive, PTL

\* Whatever is trimmed, deleted or lost, entries are read in the order of their publication.
THEOREM EntriesAreOrdered == Spec => []Ordered
<1>1. IInv => Ordered
  BY DEF IInv
<1> QED
  BY <1>1, Inductive, PTL

-----------------------------------------------------------------------------
(* END comes last *)

\* A yield hands over END, the newest entry of all, or a newer event.
LEMMA YieldIs ==
  ASSUME IInv, NEW c \in Subscribers, Yield(c)
  PROVE  LET e == Head(reader[c].batch) IN
         \/ /\ e.end /\ done
            /\ reader' = [reader EXCEPT ![c] = [reader[c] EXCEPT !.pc = "over", !.batch = <<>>]]
            /\ \A i \in 1..Len(key) : reader[c].last < key[i].id => key[i] = e
         \/ /\ e.id \in 1..count /\ reader[c].last < e.id
            /\ Tail(reader[c].batch) \in Seq(Entry)
            /\ reader' = [reader EXCEPT ![c] = [reader[c] EXCEPT !.last = e.id,
                                                               !.batch = Tail(reader[c].batch)]]
<1>1. /\ reader' = [reader EXCEPT ![c] = AfterEntry(reader[c])]
      /\ reader[c].batch # <<>>
  BY DEF Yield
<1>2. reader[c] \in Reader /\ InOrder(reader[c]) /\ Fits(reader[c])
  BY ByReader
<1>3. PICK b \in Seq(Entry) : b = reader[c].batch
  BY <1>2 DEF Reader
<1>4. /\ Len(b) \in Nat
      /\ \A i \in 1..Len(b) : b[i] \in Entry /\ b[i].id \in Nat
      /\ b # <<>> /\ 1 \in 1..Len(b) /\ Len(b) \in 1..Len(b)
  BY <1>1, <1>3, Entries
<1>5. Head(b) = b[1] /\ Tail(b) \in Seq(Entry)
  BY <1>4, HeadTailProperties
<1>6. reader[c].last \in Nat /\ count \in Nat
  BY <1>2 DEF Reader, IInv, Ordered, TypeOK
<1>7. /\ Ascending(b)
      /\ \A i \in 1..Len(b) : /\ reader[c].last < b[i].id /\ b[i].id <= count
                              /\ b[i].end => done
  BY <1>2, <1>3 DEF InOrder
<1>8. CASE b[1].end
  <2>1. done /\ b[1].id = count
    BY <1>2, <1>3, <1>4, <1>7, <1>8 DEF Fits
  <2>2. AfterEntry(reader[c]) = [reader[c] EXCEPT !.pc = "over", !.batch = <<>>]
    BY <1>3, <1>5, <1>8 DEF AfterEntry
  <2>3. ASSUME NEW i \in 1..Len(key), reader[c].last < key[i].id PROVE key[i] = b[1]
    <3>1. key[i].id <= count /\ key[i].id \in Nat
      BY Parts, Entries DEF IInv, Sorted, TypeOK
    <3>2. b[Len(b)].id = count
      <4>1. PICK k \in 1..Len(b) : k = Len(b)
        BY <1>4
      <4>2. ASSUME 1 # k PROVE b[1].id < b[k].id
        <5>1. 1 < k
          BY <4>2
        <5> QED
          BY <5>1, <1>4, <1>7 DEF Ascending
      <4>3. b[k].id = count
        BY <4>2, <2>1, <1>4, <1>6, <1>7
      <4> QED
        BY <4>1, <4>3
    <3>3. PICK j \in 1..Len(b) : b[j] = key[i]
      BY <2>3, <3>1, <3>2, <1>2, <1>3, <1>4 DEF Fits
    <3>4. j = 1
      <4>1. ASSUME 1 # j PROVE b[1].id < b[j].id
        <5>1. 1 < j
          BY <4>1
        <5> QED
          BY <5>1, <1>4, <1>7 DEF Ascending
      <4> QED
        BY <4>1, <2>1, <1>4, <1>6, <1>7
    <3> QED
      BY <3>3, <3>4
  <2>4. reader' = [reader EXCEPT ![c] = [reader[c] EXCEPT !.pc = "over", !.batch = <<>>]]
    BY <1>1, <2>2
  <2> QED
    BY <1>3, <1>5, <1>8, <2>1, <2>3, <2>4
<1>9. CASE ~b[1].end
  <2>1. AfterEntry(reader[c]) = [reader[c] EXCEPT !.last = b[1].id, !.batch = Tail(b)]
    BY <1>3, <1>5, <1>9 DEF AfterEntry
  <2>2. reader' = [reader EXCEPT ![c] = [reader[c] EXCEPT !.last = b[1].id, !.batch = Tail(b)]]
    BY <1>1, <1>3, <2>1
  <2>3. b[1].id \in 1..count /\ reader[c].last < b[1].id
    BY <1>4, <1>6, <1>7
  <2> QED
    BY <1>3, <1>5, <2>2, <2>3
<1> QED
  BY <1>8, <1>9

\* What EndIsLast says of a step.
LEMMA EndIsLastStep ==
  ASSUME IInv, [Next]_vars
  PROVE  [\A c \in Subscribers :
            reader[c].pc = "reading" /\ reader'[c].pc = "over" =>
              \A i \in 1..Len(key) : key[i].end \/ key[i].id <= reader[c].last]_vars
<1> SUFFICES ASSUME NEW c \in Subscribers, reader[c].pc = "reading", reader'[c].pc = "over",
                    NEW i \in 1..Len(key)
             PROVE  key[i].end \/ key[i].id <= reader[c].last
  OBVIOUS
<1>t. reader \in [Subscribers -> Reader] /\ key[i].id \in Nat /\ reader[c].last \in Nat
  BY Entries DEF IInv, Ordered, TypeOK, Reader
<1>1. PICK d \in Subscribers : Subscribe(d) \/ Fetch(d) \/ Yield(d) \/ Leave(d)
  BY DEF Next, vars, Publish, PublishEnd, Xadd, XaddFails, Expire, Delete, KeyExpires
<1>2. CASE Yield(d)
  <2>1. CASE d = c
    <3>1. \/ /\ Head(reader[c].batch).end
             /\ \A k \in 1..Len(key) :
                  reader[c].last < key[k].id => key[k] = Head(reader[c].batch)
          \/ reader'[c].pc = reader[c].pc
      <4>1. Yield(c)
        BY <1>2, <2>1
      <4>2. reader[c] \in Reader
        BY <1>t
      <4>3. ASSUME reader' = [reader EXCEPT ![c] =
                                [reader[c] EXCEPT !.last = Head(reader[c].batch).id,
                                                  !.batch = Tail(reader[c].batch)]]
            PROVE  reader'[c].pc = reader[c].pc
        BY <4>2, <4>3, <1>t DEF Reader
      <4> QED
        BY <4>1, <4>3, YieldIs
    <3>2. reader'[c].pc # reader[c].pc
      OBVIOUS
    <3> QED
      BY <1>t, <3>1, <3>2
  <2>2. CASE d # c
    BY <1>2, <1>t, <2>2 DEF Yield
  <2> QED
    BY <2>1, <2>2
<1>3. CASE Subscribe(d)
  <2>1. d # c /\ \E r : reader' = [reader EXCEPT ![d] = r]
    BY <1>3 DEF Subscribe
  <2> QED
    BY <1>t, <2>1
<1>4. CASE Fetch(d)
  <2>1. \E b : reader' = [reader EXCEPT ![d].batch = b]
    BY <1>4 DEF Fetch
  <2> QED
    BY <1>t, <2>1 DEF Reader
<1>5. CASE Leave(d)
  BY <1>5, <1>t DEF Leave, Reader
<1> QED
  BY <1>1, <1>2, <1>3, <1>4, <1>5

\* No reader is given END while the server still holds an event it has not seen.
THEOREM EndComesLast == Spec => EndIsLast
<1>1. IInv /\ [Next]_vars =>
        [\A c \in Subscribers :
            reader[c].pc = "reading" /\ reader'[c].pc = "over" =>
              \A i \in 1..Len(key) : key[i].end \/ key[i].id <= reader[c].last]_vars
  BY EndIsLastStep
<1> QED
  BY <1>1, Inductive, PTL DEF Spec, EndIsLast

-----------------------------------------------------------------------------
(* The stream implements the promise of the bridge *)

\* Nothing is published, seen or told at the start.
LEMMA LogInitHolds == Init => EventLog!LogInit
<1> SUFFICES ASSUME Init PROVE EventLog!LogInit
  OBVIOUS
<1>1. \A c \in Subscribers : reader[c].last = 0 /\ (reader[c].pc = "over") = FALSE
  BY DEF Init
<1>2. (done \/ expired) = FALSE
  BY DEF Init
<1> QED
  BY <1>1, <1>2 DEF Init, EventLog!LogInit

\* A step of one reader, as the log sees it.
LEMMA ReaderStep ==
  ASSUME NEW c \in Subscribers, NEW r \in Reader,
         reader \in [Subscribers -> Reader], reader' = [reader EXCEPT ![c] = r],
         NEW over \in BOOLEAN, over <=> r.pc = "over"
  PROVE  /\ [d \in Subscribers |-> reader[d].last]' =
              [[d \in Subscribers |-> reader[d].last] EXCEPT ![c] = r.last]
         /\ [d \in Subscribers |-> reader[d].pc = "over"]' =
              [[d \in Subscribers |-> reader[d].pc = "over"] EXCEPT ![c] = over]
<1>1. \A d \in Subscribers : reader'[d] = IF d = c THEN r ELSE reader[d]
  OBVIOUS
<1>2. \A d \in Subscribers : (reader'[d].pc = "over") = IF d = c THEN over ELSE reader[d].pc = "over"
  BY <1>1
<1>3. [d \in Subscribers |-> reader[d].last]' =
        [[d \in Subscribers |-> reader[d].last] EXCEPT ![c] = r.last]
  BY <1>1
<1>4. [d \in Subscribers |-> reader[d].pc = "over"]' =
        [[d \in Subscribers |-> reader[d].pc = "over"] EXCEPT ![c] = over]
  BY <1>2
<1> QED
  BY <1>3, <1>4

\* The producer's steps and the server's, as the log sees them.
LEMMA QuietStep ==
  ASSUME IInv,
         Publish \/ PublishEnd \/ Xadd \/ XaddFails \/ Expire \/ Delete \/ KeyExpires
  PROVE  EventLog!Append1 \/ EventLog!Close \/ UNCHANGED EventLog!logVars
<1>1. CASE Xadd
  BY <1>1 DEF Xadd, EventLog!Append1
<1>2. CASE PublishEnd \/ Expire
  <2>1. (done \/ expired)' = TRUE /\ UNCHANGED <<count, reader>>
    BY <1>2 DEF PublishEnd, Expire
  <2> QED
    BY <2>1 DEF EventLog!Close
<1>3. CASE Publish \/ XaddFails \/ Delete \/ KeyExpires
  <2>1. UNCHANGED <<count, done, expired, reader>>
    BY <1>3 DEF Publish, XaddFails, Delete, KeyExpires, producer
  <2> QED
    BY <2>1 DEF EventLog!logVars
<1> QED
  BY <1>1, <1>2, <1>3

\* A reader's step is a step of the log for that subscriber, or none.
LEMMA LogReaderStep ==
  ASSUME IInv, NEW c \in Subscribers, Subscribe(c) \/ Fetch(c) \/ Yield(c) \/ Leave(c)
  PROVE  \/ EventLog!Deliver(c) \/ EventLog!Finish(c) \/ EventLog!Resubscribe(c)
         \/ UNCHANGED EventLog!logVars
<1> DEFINE seen == [d \in Subscribers |-> reader[d].last]
           told == [d \in Subscribers |-> reader[d].pc = "over"]
           closed == done \/ expired
<1>t. /\ reader \in [Subscribers -> Reader] /\ reader[c] \in Reader /\ reader[c].last \in Nat
      /\ closed \in BOOLEAN /\ expired \in BOOLEAN
  BY DEF IInv, Ordered, TypeOK, Reader
<1>u. UNCHANGED <<count, done, expired>>
  BY DEF Subscribe, Fetch, Yield, Leave, producer
<1>1. CASE Subscribe(c)
  <2>1. PICK id \in {0, reader[c].last} :
          reader' = [reader EXCEPT ![c] =
                       [pc |-> IF Gone THEN "over" ELSE "reading", last |-> id, batch |-> <<>>]]
    BY <1>1 DEF Subscribe
  <2> DEFINE r == [pc |-> IF Gone THEN "over" ELSE "reading", last |-> id, batch |-> <<>>]
  <2>2. id \in Nat
    BY <1>t
  <2>3. r \in Reader /\ r.last = id /\ (expired <=> r.pc = "over")
    BY <2>2, EmptySeq DEF Reader, Gone
  <2>4. seen' = [seen EXCEPT ![c] = id] /\ told' = [told EXCEPT ![c] = expired]
    BY <1>t, <2>1, <2>3, ReaderStep
  <2>5. seen' \in {seen, [seen EXCEPT ![c] = 0]}
    BY <2>4
  <2>6. told' \in {[told EXCEPT ![c] = FALSE]} \cup
                  (IF closed THEN {[told EXCEPT ![c] = TRUE]} ELSE {})
    BY <1>t, <2>4
  <2> QED
    BY <1>u, <2>5, <2>6 DEF EventLog!Resubscribe
<1>2. CASE Leave(c)
  <2> DEFINE r == [reader[c] EXCEPT !.pc = "out", !.batch = <<>>]
  <2>1. reader' = [reader EXCEPT ![c] = r]
    BY <1>2 DEF Leave
  <2>2. r \in Reader /\ r.last = reader[c].last /\ (FALSE <=> r.pc = "over")
    BY <1>t, EmptySeq DEF Reader
  <2>3. seen' = [seen EXCEPT ![c] = reader[c].last] /\ told' = [told EXCEPT ![c] = FALSE]
    BY <1>t, <2>1, <2>2, ReaderStep
  <2>4. seen' = seen /\ told' = [told EXCEPT ![c] = FALSE]
    BY <2>3
  <2> QED
    BY <1>u, <2>4 DEF EventLog!Resubscribe
<1>3. CASE Fetch(c)
  <2>1. \E b : reader' = [reader EXCEPT ![c].batch = b]
    BY <1>3 DEF Fetch
  <2>2. \A d \in Subscribers : reader'[d].last = reader[d].last /\ reader'[d].pc = reader[d].pc
    BY <1>t, <2>1 DEF Reader
  <2>3. seen' = seen /\ told' = told
    BY <2>2
  <2> QED
    BY <1>u, <2>3 DEF EventLog!logVars
<1>4. CASE Yield(c)
  <2> DEFINE e == Head(reader[c].batch)
  <2>1. reader[c].pc = "reading"
    BY <1>4 DEF Yield
  <2>2. CASE /\ e.end /\ done
             /\ reader' = [reader EXCEPT ![c] = [reader[c] EXCEPT !.pc = "over", !.batch = <<>>]]
    <3> DEFINE r == [reader[c] EXCEPT !.pc = "over", !.batch = <<>>]
    <3>1. r \in Reader /\ r.last = reader[c].last /\ (TRUE <=> r.pc = "over")
      BY <1>t, EmptySeq DEF Reader
    <3>2. seen' = [seen EXCEPT ![c] = reader[c].last] /\ told' = [told EXCEPT ![c] = TRUE]
      BY <1>t, <2>2, <3>1, ReaderStep
    <3>3. seen' = seen /\ told' = [told EXCEPT ![c] = TRUE]
      BY <3>2
    <3> QED
      BY <1>u, <2>2, <3>3 DEF EventLog!Finish
  <2>3. CASE /\ e.id \in 1..count /\ reader[c].last < e.id
             /\ Tail(reader[c].batch) \in Seq(Entry)
             /\ reader' = [reader EXCEPT ![c] = [reader[c] EXCEPT !.last = e.id,
                                                                !.batch = Tail(reader[c].batch)]]
    <3> DEFINE r == [reader[c] EXCEPT !.last = e.id, !.batch = Tail(reader[c].batch)]
    <3>1. e.id \in Nat
      BY <2>3
    <3>2. r \in Reader /\ r.last = e.id /\ (FALSE <=> r.pc = "over")
      BY <1>t, <2>1, <2>3, <3>1 DEF Reader
    <3>3. seen' = [seen EXCEPT ![c] = e.id] /\ told' = [told EXCEPT ![c] = FALSE]
      BY <1>t, <2>3, <3>2, ReaderStep
    <3>4. told' = told /\ ~told[c]
      BY <2>1, <3>3
    <3>5. e.id > seen[c]
      BY <1>t, <2>3, <3>1
    <3> QED
      BY <1>u, <2>3, <3>3, <3>4, <3>5 DEF EventLog!Deliver
  <2> QED
    BY <1>4, <2>2, <2>3, YieldIs
<1> QED
  BY <1>1, <1>2, <1>3, <1>4

\* Every step of the stream is a step of the log, or none.
LEMMA LogStep ==
  ASSUME IInv, [Next]_vars
  PROVE  [EventLog!LogNext]_(EventLog!logVars)
<1>1. CASE UNCHANGED vars
  <2>1. UNCHANGED <<count, done, expired, reader>>
    BY <1>1 DEF vars, producer
  <2> QED
    BY <2>1 DEF EventLog!logVars
<1>2. CASE Publish \/ PublishEnd \/ Xadd \/ XaddFails \/ Expire \/ Delete \/ KeyExpires
  BY <1>2, QuietStep DEF EventLog!LogNext
<1>3. ASSUME NEW c \in Subscribers, Subscribe(c) \/ Fetch(c) \/ Yield(c) \/ Leave(c)
      PROVE  [EventLog!LogNext]_(EventLog!logVars)
  BY <1>3, LogReaderStep DEF EventLog!LogNext
<1> QED
  BY <1>1, <1>2, <1>3 DEF Next

\* The Redis stream, whatever fails, implements what base.py promises of a stream.
THEOREM ImplementsLog == Spec => LogSpec
<1>1. Init => EventLog!LogInit
  BY LogInitHolds
<1>2. IInv /\ [Next]_vars => [EventLog!LogNext]_(EventLog!logVars)
  BY LogStep
<1> QED
  BY <1>1, <1>2, Inductive, PTL DEF Spec, LogSpec, EventLog!LogSpec

=============================================================================
