---------------------------- MODULE EngineProofs ----------------------------
(***************************************************************************)
(* Proofs about the engine: its type invariant and exactly-once            *)
(* application; that it serves the durable order until a recovery reads    *)
(* past a torn record; and what it promises when every log write is all or *)
(* nothing.                                                                *)
(***************************************************************************)
EXTENDS EngineInv, TLAPS

\* What apply_dedup does to a snapshot-shaped value, field by field.
LEMMA AppliedFields ==
  ASSUME NEW e \in Snapshot, NEW r \in Record
  PROVE  /\ Applied(e, r) \in Snapshot
         /\ Applied(e, r).state = Append(e.state, r)
         /\ Applied(e, r).applied \in [Clients -> Nat]
         /\ Applied(e, r).applied = [e.applied EXCEPT ![r.op.client] = r.op.seq]
         /\ Applied(e, r).last_ts = IF r.ts > e.last_ts THEN r.ts ELSE e.last_ts
<1>1. /\ r.op.client \in Clients /\ r.op.seq \in Nat /\ r.ts \in Nat
      /\ e.state \in Seq(Record) /\ e.applied \in [Clients -> Nat] /\ e.last_ts \in Nat
  BY EngineAssumption DEF Record, Op, Snapshot
<1>2. [e.applied EXCEPT ![r.op.client] = r.op.seq] \in [Clients -> Nat]
  BY <1>1, Zenon
<1>3. Append(e.state, r) \in Seq(Record)
  BY <1>1
<1> QED
  BY <1>1, <1>2, <1>3, Zenon DEF Applied, Snapshot

LEMMA AppliedType ==
  ASSUME NEW e \in Snapshot, NEW r \in Record
  PROVE  Applied(e, r) \in Snapshot
BY AppliedFields, Zenon

LEMMA SnapshotFields ==
  ASSUME NEW e \in Snapshot
  PROVE  /\ e.state \in Seq(Record)
         /\ e.applied \in [Clients -> Nat]
         /\ e.last_ts \in Nat
BY Zenon DEF Snapshot

LEMMA EmptyType ==
  EmptySnapshot \in Snapshot /\ << >> \in Seq(Record) /\ Len(<< >>) = 0
BY DEF EmptySnapshot, Snapshot

LEMMA EmptyLog ==
  ASSUME NEW q, q = << >>
  PROVE  q \in Seq(Record) /\ Len(q) = 0
BY EmptyType, Zenon

LEMMA NewRecordType ==
  ASSUME NEW o \in Op, NEW ts \in 1..MaxTs
  PROVE  NewRecord(o, ts) \in Record
BY Zenon DEF NewRecord, Record

LEMMA SentType ==
  ASSUME sent \in [Clients -> Nat], NEW o \in Op, Send(o)
  PROVE  sent' \in [Clients -> Nat]
BY EngineAssumption DEF Send, Op

TypeInv == TypeOK /\ ControlInv

LEMMA TypeStep == TypeInv /\ [Next]_vars => TypeInv'
<1> SUFFICES ASSUME TypeInv, [Next]_vars PROVE TypeInv'
  BY Zenon
<1> USE EngineAssumption
<1>1. CASE Recover
  BY <1>1, Zenon DEF TypeInv, TypeOK, ControlInv, Recover, disk
<1>2. CASE ReplayRecord
  <2>1. log[pos] \in Record
    BY <1>2 DEF ReplayRecord, TypeInv, TypeOK
  <2>2. eng' = eng \/ eng' = Applied(eng, log[pos])
    BY <1>2, Zenon DEF ReplayRecord
  <2>4. eng' \in Snapshot
    BY <2>1, <2>2, AppliedType, Zenon DEF TypeInv, TypeOK
  <2>3. pos' \in 1..(Len(log') + 1) /\ replayed' \in Nat
    BY <1>2 DEF ReplayRecord, TypeInv, TypeOK, disk
  <2> QED
    BY <1>2, <2>3, <2>4, Zenon DEF ReplayRecord, TypeInv, TypeOK, ControlInv, disk
<1>3. CASE ReplayTornTail
  BY <1>3 DEF TypeInv, TypeOK, ControlInv, ReplayTornTail, disk
<1>4. CASE ReplayTornInside
  <2>3. eng' = eng \/ \E r \in Record : eng' = Applied(eng, r)
    BY <1>4, Zenon DEF ReplayTornInside
  <2>4. eng' \in Snapshot
    BY <2>3, AppliedType, Zenon DEF TypeInv, TypeOK
  <2>1. replayed' \in Nat
    BY <1>4 DEF ReplayTornInside, TypeInv, TypeOK
  <2>2. pos' \in 1..(Len(log') + 1)
    BY <1>4 DEF ReplayTornInside, TypeInv, TypeOK, disk
  <2> QED
    BY <1>4, <2>1, <2>2, <2>4, Zenon DEF ReplayTornInside, TypeInv, TypeOK, ControlInv, disk
<1>5. CASE FinishRecover
  <2>1. Interval \in Nat /\ Interval >= 1
    BY DEF Interval
  <2>2. ops_since_snap' \in Nat
    BY <1>5, <2>1 DEF FinishRecover, TypeInv, TypeOK
  <2>3. pos' \in 1..(Len(log') + 1)
    BY <1>5 DEF FinishRecover, TypeInv, TypeOK, disk
  <2> QED
    BY <1>5, <2>2, <2>3, Zenon DEF FinishRecover, TypeInv, TypeOK, ControlInv, disk
<1>6. ASSUME NEW o \in Op, Deliver(o) PROVE TypeInv'
  <2>0. sent' \in [Clients -> Nat]
    BY <1>6, SentType, Zenon DEF Deliver, TypeInv, TypeOK
  <2>1. ASSUME NEW ts \in Timestamps, DeliverFresh(NewRecord(o, ts))
        PROVE  TypeInv'
    <3>2. NewRecord(o, ts) \in Record
      BY NewRecordType, Zenon DEF Timestamps
    <3>3. eng' \in Snapshot
      BY <2>1, <3>2, AppliedType, Zenon DEF DeliverFresh, TypeInv, TypeOK
    <3> QED
      BY <2>0, <2>1, <3>2, <3>3, Zenon DEF DeliverFresh, TypeInv, TypeOK, ControlInv, disk
  <2>2. CASE DeliverDuplicate(NewRecord(o, eng.last_ts))
    <3>1. acked' \in SUBSET Op
      BY <2>2, Zenon DEF DeliverDuplicate, NewRecord, TypeInv, TypeOK
    <3> QED
      BY <2>0, <2>2, <3>1, Zenon DEF DeliverDuplicate, TypeInv, TypeOK, ControlInv, disk
  <2> QED
    BY <1>6, <2>1, <2>2, Zenon DEF Deliver
<1>7. ASSUME NEW p \in Snapshot, ImportState(p), sent' \in [Clients -> Nat]
      PROVE  TypeInv'
  BY <1>7, Zenon DEF ImportState, TypeInv, TypeOK, ControlInv, disk
<1>15. CASE ImportEqual
  BY <1>7, <1>15, Zenon DEF ImportEqual, TypeInv, TypeOK
<1>16. ASSUME NEW o \in Op, ImportAhead(o) PROVE TypeInv'
  <2>0. sent' \in [Clients -> Nat]
    BY <1>16, SentType, Zenon DEF ImportAhead, TypeInv, TypeOK
  <2>1. ASSUME NEW ts \in Timestamps
        PROVE  Applied(eng, NewRecord(o, ts)) \in Snapshot
    BY NewRecordType, AppliedType, Zenon DEF TypeInv, TypeOK, Timestamps
  <2> QED
    BY <1>7, <1>16, <2>0, <2>1, Zenon DEF ImportAhead
<1>8. CASE AppendRecord
  <2>1. log' \in Seq(Record) /\ order' \in Seq(Record) /\ Len(log') = Len(log) + 1
    BY <1>8 DEF AppendRecord, TypeInv, TypeOK, ControlInv
  <2> QED
    BY <1>8, <2>1 DEF AppendRecord, TypeInv, TypeOK, ControlInv
<1>9. CASE RenameSnapshot
  BY <1>9 DEF RenameSnapshot, TypeInv, TypeOK, ControlInv, Snapshot
<1>10. CASE RemoveLog
  <2>1. log' \in Seq(Record) /\ stale' \in 0..Len(log')
    <3>1. CASE log' = << >> /\ stale' = 0
      <4>1. log' \in Seq(Record) /\ Len(log') = 0
        BY <3>1, EmptyLog, Zenon
      <4> QED
        BY <3>1, <4>1
    <3>2. CASE UNCHANGED <<log, stale>>
      BY <3>2, Zenon DEF TypeInv, TypeOK
    <3> QED
      BY <1>10, <3>1, <3>2, Zenon DEF RemoveLog
  <2>2. pos' \in 1..(Len(log') + 1)
    BY <1>10, <2>1 DEF RemoveLog, TypeInv, ControlInv
  <2> QED
    BY <1>10, <2>1, <2>2, Zenon DEF RemoveLog, TypeInv, TypeOK, ControlInv
<1>11. CASE Reply
  <2>1. Ids(eng.state) \subseteq Op
    <3>1. \A i \in DOMAIN eng.state : eng.state[i] \in Record
      BY SnapshotFields DEF TypeInv, TypeOK
    <3> QED
      BY <3>1, Zenon DEF Ids, Record
  <2>2. cur # NoRecord => cur.op \in Op
    BY Zenon DEF TypeInv, TypeOK, Record
  <2>3. acked' \in SUBSET Op
    BY <1>11, <2>1, <2>2, Zenon DEF Reply, TypeInv, TypeOK
  <2> QED
    BY <1>11, <2>3, Zenon DEF Reply, TypeInv, TypeOK, ControlInv, disk
<1>12. CASE Stop
  BY <1>12, EmptyType DEF Stop, LoseMemory, TypeInv, TypeOK, ControlInv
<1>13. CASE StopTearingAppend
  <2>1. [cur EXCEPT !.torn = TRUE] \in Record
    BY <1>13, Zenon DEF StopTearingAppend, TypeInv, ControlInv, Record
  <2>2. log' \in Seq(Record) /\ Len(log') = Len(log) + 1
    BY <1>13, <2>1 DEF StopTearingAppend, TypeInv, TypeOK
  <2> QED
    BY <1>13, <2>2, EmptyType DEF StopTearingAppend, LoseMemory, TypeInv, TypeOK, ControlInv
<1>14. CASE UNCHANGED vars
  BY <1>14, Zenon DEF vars, TypeInv, TypeOK, ControlInv
<1> QED
  BY <1>1, <1>2, <1>3, <1>4, <1>5, <1>6, <1>7, <1>8, <1>9, <1>10, <1>11,
     <1>12, <1>13, <1>14, <1>15, <1>16, Zenon DEF Next

LEMMA InitTypeInv == Init => TypeInv
<1> SUFFICES ASSUME Init PROVE TypeInv
  BY Zenon
<1>1. log \in Seq(Record) /\ Len(log) = 0 /\ order \in Seq(Record)
  BY EmptyLog, Zenon DEF Init
<1>2. pos \in 1..(Len(log) + 1) /\ stale \in 0..Len(log)
  BY <1>1 DEF Init
<1>3. snap \in Snapshot /\ eng \in Snapshot
  BY EmptyType, Zenon DEF Init
<1>4. /\ ops_since_snap = 0 /\ pc = "down" /\ cur = NoRecord /\ pos = 1
      /\ replayed = 0 /\ acked = {} /\ misread = FALSE /\ stops = 0
  BY Zenon DEF Init
<1>8. sent \in [Clients -> Nat]
  BY Zenon DEF Init
<1>5. acked \in SUBSET Op /\ cur \in Record \cup {NoRecord}
  BY <1>4, Zenon
<1>6. ops_since_snap \in Nat /\ replayed \in Nat /\ stops \in 0..MaxStops
  BY <1>4, EngineAssumption
<1>7. misread \in BOOLEAN
  BY <1>4, Zenon
<1> QED
  BY <1>1, <1>2, <1>3, <1>4, <1>5, <1>6, <1>7, <1>8, Zenon DEF TypeInv, TypeOK, ControlInv

\* Spec keeps every variable of the engine in its type (TypeOK), for every
\* number of clients, operations, stops and every snapshot interval.
THEOREM TypeCorrect == Spec => []TypeOK
<1>1. TypeInv => TypeOK
  BY Zenon DEF TypeInv
<1> QED
  BY <1>1, InitTypeInv, TypeStep, PTL DEF Spec

-----------------------------------------------------------------------------
(* Exactly-once application: Marked is kept by every step, with or without *)
(* torn records.                                                           *)

\* The sequence apply_dedup leaves, record by record.
LEMMA AppendFields ==
  ASSUME NEW q \in Seq(Record), NEW r \in Record
  PROVE  /\ Append(q, r) \in Seq(Record)
         /\ Len(Append(q, r)) = Len(q) + 1
         /\ DOMAIN Append(q, r) = 1..(Len(q) + 1)
         /\ \A i \in 1..Len(q) : Append(q, r)[i] = q[i]
         /\ Append(q, r)[Len(q) + 1] = r
OBVIOUS

LEMMA RecordFields ==
  ASSUME NEW r \in Record
  PROVE  /\ r.op \in Op /\ r.op.client \in Clients
         /\ r.op.seq \in Nat /\ r.op.seq >= 1 /\ r.op.seq <= MaxSeq
         /\ r.ts \in Nat /\ r.torn \in BOOLEAN
BY EngineAssumption DEF Record, Op

LEMMA SequenceFields ==
  ASSUME NEW q \in Seq(Record)
  PROVE  /\ Len(q) \in Nat /\ DOMAIN q = 1..Len(q)
         /\ \A i \in 1..Len(q) : q[i] \in Record
OBVIOUS

\* A record past its client's high-water mark keeps the marks covering the
\* state when apply_dedup applies it.
LEMMA AppliedMarked ==
  ASSUME NEW e \in Snapshot, NEW r \in Record, Marked(e),
         ~(r.op.seq <= e.applied[r.op.client])
  PROVE  Marked(Applied(e, r))
<1> DEFINE q == e.state
           a == Applied(e, r).applied
           n == Len(q)
<1>1. /\ q \in Seq(Record) /\ e.applied \in [Clients -> Nat] /\ n \in Nat
      /\ \A i \in 1..n : q[i] \in Record
  BY SnapshotFields, SequenceFields, Zenon
<1>2. /\ Applied(e, r).state = Append(q, r)
      /\ a = [e.applied EXCEPT ![r.op.client] = r.op.seq]
  BY AppliedFields, Zenon
<1>3. /\ DOMAIN Append(q, r) = 1..(n + 1)
      /\ \A i \in 1..n : Append(q, r)[i] = q[i]
      /\ Append(q, r)[n + 1] = r
  BY <1>1, AppendFields, Zenon
<1>4. \A i \in 1..n : /\ q[i].op.client \in Clients /\ q[i].op.seq \in Nat
                      /\ q[i].op.seq <= e.applied[q[i].op.client]
  BY <1>1, RecordFields DEF Marked
<1>5. \A i, j \in 1..n :
        i < j /\ q[i].op.client = q[j].op.client => q[i].op.seq < q[j].op.seq
  BY <1>1 DEF Marked
<1>6. /\ r.op.client \in Clients /\ r.op.seq \in Nat
      /\ e.applied[r.op.client] \in Nat /\ e.applied[r.op.client] < r.op.seq
  BY <1>1, RecordFields
<1>7. \A c \in Clients : a[c] = IF c = r.op.client THEN r.op.seq ELSE e.applied[c]
  BY <1>1, <1>2, <1>6, Zenon
<1>10. n \in Nat
  BY <1>1, Zenon
<1> HIDE DEF q, a, n
<1>8. ASSUME NEW i \in 1..(n + 1)
      PROVE  Append(q, r)[i].op.seq <= a[Append(q, r)[i].op.client]
  <2>1. CASE i = n + 1
    BY <2>1, <1>3, <1>6, <1>7
  <2>2. CASE i \in 1..n
    <3>1. Append(q, r)[i] = q[i]
      BY <2>2, <1>3, Zenon
    <3>2. CASE q[i].op.client = r.op.client
      BY <2>2, <3>1, <3>2, <1>4, <1>6, <1>7
    <3>3. CASE q[i].op.client # r.op.client
      BY <2>2, <3>1, <3>3, <1>4, <1>7, Zenon
    <3> QED
      BY <3>2, <3>3, Zenon
  <2>3. i = n + 1 \/ i \in 1..n
    BY <1>10
  <2> QED
    BY <2>1, <2>2, <2>3, Zenon
<1>9. \A i, j \in 1..(n + 1) :
        i < j /\ Append(q, r)[i].op.client = Append(q, r)[j].op.client
          => Append(q, r)[i].op.seq < Append(q, r)[j].op.seq
  <2> SUFFICES ASSUME NEW i \in 1..(n + 1), NEW j \in 1..(n + 1), i < j,
                      Append(q, r)[i].op.client = Append(q, r)[j].op.client
               PROVE  Append(q, r)[i].op.seq < Append(q, r)[j].op.seq
    BY Zenon
  <2>1. i \in 1..n /\ Append(q, r)[i] = q[i]
    BY <1>1, <1>3
  <2>2. CASE j = n + 1
    BY <2>1, <2>2, <1>3, <1>4, <1>6, SMTT(30)
  <2>3. CASE j \in 1..n
    BY <2>1, <2>3, <1>3, <1>5, Zenon
  <2>4. j = n + 1 \/ j \in 1..n
    BY <1>10
  <2> QED
    BY <2>2, <2>3, <2>4, Zenon
<1> QED
  BY <1>2, <1>3, <1>8, <1>9, Zenon DEF Marked, a

LEMMA EmptyMarked == Marked(EmptySnapshot)
<1>1. DOMAIN EmptySnapshot.state = {}
  BY DEF EmptySnapshot
<1> QED
  BY <1>1, Zenon DEF Marked

LEMMA MarkedStep ==
  TypeInv /\ Marked(eng) /\ Marked(snap) /\ [Next]_vars
    => Marked(eng)' /\ Marked(snap)'
<1> SUFFICES ASSUME TypeInv, Marked(eng), Marked(snap), [Next]_vars
             PROVE  Marked(eng') /\ Marked(snap')
  BY Zenon DEF Marked
<1> USE DEF TypeInv, TypeOK
<1>1. CASE UNCHANGED <<eng, snap>>
  BY <1>1, Zenon
<1>2. CASE Recover
  BY <1>2, Zenon DEF Recover, disk
<1>3. CASE ReplayRecord
  <2>1. log[pos] \in Record
    BY <1>3 DEF ReplayRecord
  <2>2. snap' = snap /\ (eng' = eng \/ (~Duplicate(log[pos]) /\ eng' = Applied(eng, log[pos])))
    BY <1>3, Zenon DEF ReplayRecord, disk
  <2> QED
    BY <2>1, <2>2, AppliedMarked, Zenon DEF Duplicate
<1>4. CASE ReplayTornInside
  <2>1. snap' = snap /\ (eng' = eng \/ \E r \in Record : ~Duplicate(r) /\ eng' = Applied(eng, r))
    BY <1>4, Zenon DEF ReplayTornInside, disk
  <2> QED
    BY <2>1, AppliedMarked, Zenon DEF Duplicate
<1>5. ASSUME NEW o \in Op, Deliver(o) \/ ImportAhead(o)
      PROVE  Marked(eng') /\ Marked(snap')
  <2>1. snap' = snap
    BY <1>5, Zenon DEF Deliver, ImportAhead, DeliverFresh, DeliverDuplicate, ImportState, disk
  <2>2. \/ eng' = eng
        \/ \E ts \in Timestamps :
             ~Duplicate(NewRecord(o, ts)) /\ eng' = Applied(eng, NewRecord(o, ts))
    BY <1>5, Zenon DEF Deliver, ImportAhead, DeliverFresh, DeliverDuplicate, ImportState
  <2>3. \A ts \in Timestamps : NewRecord(o, ts) \in Record
    BY NewRecordType, Zenon DEF Timestamps
  <2> QED
    BY <2>1, <2>2, <2>3, AppliedMarked, Zenon DEF Duplicate
<1>6. CASE RenameSnapshot
  BY <1>6, Zenon DEF RenameSnapshot
<1>7. CASE Stop \/ StopTearingAppend
  BY <1>7, EmptyMarked, Zenon DEF Stop, StopTearingAppend, LoseMemory
<1>8. CASE \/ ReplayTornTail \/ FinishRecover \/ AppendRecord \/ RemoveLog \/ Reply
           \/ ImportEqual
  BY <1>1, <1>8, Zenon DEF ReplayTornTail, FinishRecover, AppendRecord, RemoveLog, Reply,
                    ImportEqual, ImportState, disk
<1> QED
  BY <1>1, <1>2, <1>3, <1>4, <1>5, <1>6, <1>7, <1>8, Zenon DEF Next, vars

\* No operation is applied twice by deliver or recover, and a client's
\* operations are applied in the order of their sequence numbers (ExactlyOnce):
\* the duplicate test of apply_dedup against marks that snapshots carry is
\* enough, even for a log that is misread behind a torn record.
THEOREM AppliedExactlyOnce == Spec => []ExactlyOnce
<1> DEFINE I == TypeInv /\ Marked(eng) /\ Marked(snap)
<1>1. Init => I
  BY InitTypeInv, EmptyMarked, Zenon DEF Init
<1>2. I /\ [Next]_vars => I'
  BY TypeStep, MarkedStep, Zenon
<1>3. I => ExactlyOnce
  BY Zenon DEF Marked, ExactlyOnce
<1> QED
  BY <1>1, <1>2, <1>3, PTL DEF Spec

-----------------------------------------------------------------------------
(* The durable order: the relation between disk, order and memory          *)
(* (EngineInv) is kept by every step, one lemma per action, until a        *)
(* recovery reads past a torn record.                                      *)

Related == DiskInv /\ OrderInv /\ ReplayInv /\ ServeInv

-----------------------------------------------------------------------------
(* What apply_dedup does to each part of the relation.                     *)

LEMMA AppliedAttained ==
  ASSUME NEW e \in Snapshot, NEW r \in Record, Attained(e)
  PROVE  Attained(Applied(e, r))
<1> DEFINE q == e.state
           a == Applied(e, r).applied
           n == Len(q)
           s == Append(q, r)
           m == r.op.client
<1>1. /\ q \in Seq(Record) /\ e.applied \in [Clients -> Nat]
      /\ n \in Nat /\ DOMAIN q = 1..n
  BY SnapshotFields, SequenceFields, Zenon
<1>2. Applied(e, r).state = s /\ a = [e.applied EXCEPT ![m] = r.op.seq]
  BY AppliedFields, Zenon
<1>3. /\ DOMAIN s = 1..(n + 1)
      /\ \A i \in 1..n : s[i] = q[i]
      /\ s[n + 1] = r
  BY <1>1, AppendFields, Zenon
<1>4. m \in Clients /\ n \in Nat
  BY <1>1, RecordFields, Zenon
<1>5. \A c \in Clients : a[c] = IF c = m THEN r.op.seq ELSE e.applied[c]
  BY <1>1, <1>2, <1>4, Zenon
<1>6. \A c \in Clients : e.applied[c] > 0 =>
        \E i \in 1..n : q[i].op.client = c /\ q[i].op.seq = e.applied[c]
  BY <1>1, Zenon DEF Attained
<1> HIDE DEF q, a, n, s, m
<1>7. ASSUME NEW c \in Clients, a[c] > 0
      PROVE  \E i \in 1..(n + 1) : s[i].op.client = c /\ s[i].op.seq = a[c]
  <2>1. CASE c = m
    <3>1. n + 1 \in 1..(n + 1) /\ s[n + 1].op.client = c /\ s[n + 1].op.seq = a[c]
      BY <2>1, <1>3, <1>4, <1>5 DEF m
    <3> QED
      BY <3>1, Zenon
  <2>2. CASE c # m
    <3>1. PICK i \in 1..n : q[i].op.client = c /\ q[i].op.seq = e.applied[c]
      BY <2>2, <1>5, <1>6, <1>7, Zenon
    <3>2. i \in 1..(n + 1) /\ s[i] = q[i]
      BY <1>3, <1>4
    <3> QED
      BY <2>2, <3>1, <3>2, <1>5, Zenon
  <2> QED
    BY <2>1, <2>2, Zenon
<1>8. Applied(e, r).state = s /\ Applied(e, r).applied = a
  BY <1>2, Zenon DEF a
<1> QED
  BY <1>3, <1>7, <1>8 DEF Attained

LEMMA AppliedStamped ==
  ASSUME NEW e \in Snapshot, NEW r \in Record, Stamped(e),
         \A i \in DOMAIN e.state : e.state[i].ts <= r.ts
  PROVE  Stamped(Applied(e, r))
<1> DEFINE q == e.state
           n == Len(q)
           s == Append(q, r)
           t == Applied(e, r).last_ts
<1>1. /\ q \in Seq(Record) /\ e.last_ts \in Nat /\ n \in Nat /\ DOMAIN q = 1..n
      /\ \A i \in 1..n : q[i] \in Record
  BY SnapshotFields, SequenceFields, Zenon
<1>2. Applied(e, r).state = s /\ t = IF r.ts > e.last_ts THEN r.ts ELSE e.last_ts
  BY AppliedFields, Zenon
<1>3. /\ DOMAIN s = 1..(n + 1)
      /\ \A i \in 1..n : s[i] = q[i]
      /\ s[n + 1] = r
  BY <1>1, AppendFields, Zenon
<1>4. /\ r.ts \in Nat /\ n \in Nat /\ e.last_ts \in Nat
      /\ \A i \in 1..n : q[i].ts \in Nat /\ q[i].ts <= e.last_ts /\ q[i].ts <= r.ts
  BY <1>1, RecordFields, Zenon DEF Stamped
<1>5. \A i, j \in 1..n : i < j => q[i].ts <= q[j].ts
  BY <1>1, Zenon DEF Stamped
<1> HIDE DEF q, n, s, t
<1>6. ASSUME NEW i \in 1..(n + 1) PROVE s[i].ts <= t
  <2>1. i = n + 1 \/ i \in 1..n
    BY <1>4
  <2>2. CASE i = n + 1
    BY <2>2, <1>2, <1>3, <1>4
  <2>3. CASE i \in 1..n
    BY <2>3, <1>2, <1>3, <1>4, Zenon
  <2> QED
    BY <2>1, <2>2, <2>3, Zenon
<1>7. ASSUME NEW i \in 1..(n + 1), NEW j \in 1..(n + 1), i < j
      PROVE  s[i].ts <= s[j].ts
  <2>1. i \in 1..n /\ (j = n + 1 \/ j \in 1..n)
    BY <1>4, <1>7
  <2>2. CASE j = n + 1
    BY <2>1, <2>2, <1>3, <1>4, Zenon
  <2>3. CASE j \in 1..n
    BY <2>1, <2>3, <1>3, <1>5, <1>7, Zenon
  <2> QED
    BY <2>1, <2>2, <2>3, Zenon
<1>8. Applied(e, r).state = s /\ Applied(e, r).last_ts = t
  BY <1>2, Zenon DEF t
<1> QED
  BY <1>3, <1>6, <1>7, <1>8, Zenon DEF Stamped

LEMMA AppliedGrows ==
  ASSUME NEW e \in Snapshot, NEW r \in Record,
         ~(r.op.seq <= e.applied[r.op.client])
  PROVE  /\ \A c \in Clients : e.applied[c] <= Applied(e, r).applied[c]
         /\ Applied(e, r).applied[r.op.client] = r.op.seq
<1>1. /\ e.applied \in [Clients -> Nat]
      /\ Applied(e, r).applied = [e.applied EXCEPT ![r.op.client] = r.op.seq]
      /\ r.op.client \in Clients /\ r.op.seq \in Nat
  BY SnapshotFields, AppliedFields, RecordFields, Zenon
<1> QED
  BY <1>1

-----------------------------------------------------------------------------
(* The parts of the relation that a step leaves alone.                     *)

LEMMA DiskFrame ==
  ASSUME DiskInv, UNCHANGED <<log, snap, order, stale>>
  PROVE  DiskInv'
BY Zenon DEF DiskInv, Prefix, Readable, Complete, Fresh, Attained, Stamped

LEMMA OrderFrame ==
  ASSUME OrderInv, UNCHANGED <<order, sent, acked>>
  PROVE  OrderInv'
BY Zenon DEF OrderInv, Sound, Ids

LEMMA FreshNone ==
  ASSUME TypeInv
  PROVE  Fresh(0) = 0
BY SequenceFields DEF TypeInv, TypeOK, Fresh, Complete

LEMMA AppendExtends ==
  ASSUME NEW q \in Seq(Record), NEW r \in Record
  PROVE  Prefix(q, Append(q, r))
BY AppendFields, SequenceFields DEF Prefix

\* What holds of a prefix of the order.
LEMMA PrefixOfOrder ==
  ASSUME TypeInv, OrderInv, NEW q \in Seq(Record), Prefix(q, order)
  PROVE  Sound(q)
<1>1. /\ DOMAIN q = 1..Len(q) /\ Len(q) \in Nat /\ Len(q) <= Len(order)
      /\ Len(order) \in Nat /\ DOMAIN order = 1..Len(order)
      /\ \A i \in 1..Len(q) : q[i] = order[i]
  BY SequenceFields, Zenon DEF TypeInv, TypeOK, Prefix
<1>2. \A i \in 1..Len(q) : i \in DOMAIN order
  BY <1>1
<1> QED
  BY <1>1, <1>2, Zenon DEF Sound, OrderInv

-----------------------------------------------------------------------------
(* Recovery *)

LEMMA RecoverRelated ==
  ASSUME TypeInv, Related, Recover
  PROVE  Related'
<1>1. /\ pc' = "replay" /\ eng' = snap /\ pos' = 1
      /\ UNCHANGED <<log, snap, order, stale, sent, acked, cur>>
  BY Zenon DEF Recover, TypeInv, ControlInv, disk
<1>2. DiskInv' /\ OrderInv'
  BY <1>1, DiskFrame, OrderFrame, Zenon DEF Related
<1>3. Prefix(snap.state, order) /\ snap \in Snapshot /\ snap.state \in Seq(Record)
  BY SnapshotFields, Zenon DEF Related, DiskInv, TypeInv, TypeOK
<1>4. Sound(snap.state)
  BY <1>3, PrefixOfOrder, Zenon DEF Related
<1>5. ReplayInv'
  <2>1. Fresh(0)' = 0
    BY <1>1, FreshNone, Zenon DEF Fresh, Complete
  <2>2. Fresh(pos - 1)' = Fresh(0)'
    BY <1>1 DEF Fresh, Complete
  <2>3. Len(snap.state) \in Nat /\ \A c \in Clients : snap.applied[c] \in Nat
    BY <1>3, SnapshotFields, SequenceFields, Zenon
  <2>4. Prefix(eng.state, order)'
    BY <1>1, <1>3, Zenon DEF Prefix
  <2> QED
    BY <1>1, <2>1, <2>2, <2>3, <2>4 DEF ReplayInv
<1>6. ServeInv'
  <2>1. Attained(snap) /\ Stamped(snap)
    BY Zenon DEF Related, DiskInv
  <2>2. Attained(eng)' /\ Stamped(eng)' /\ Sound(eng.state)'
    BY <1>1, <1>4, <2>1, Zenon DEF Attained, Stamped, Sound
  <2>3. \A i \in DOMAIN log' : ~(i < pos')
    BY <1>1, SequenceFields DEF TypeInv, TypeOK
  <2> QED
    BY <1>1, <1>4, <2>2, <2>3, Zenon DEF ServeInv
<1> QED
  BY <1>2, <1>5, <1>6, Zenon DEF Related

\* While recovery scans record pos, nothing before it is torn and the engine
\* has rebuilt the order up to it.
LEMMA ReplayedSoFar ==
  ASSUME TypeInv, Related, pc = "replay", pos \in DOMAIN log, ~log[pos].torn
  PROVE  /\ pos \in 1..Len(log) /\ Len(log) \in Nat /\ stale \in Nat
         /\ \A k \in 1..pos : ~log[k].torn
         /\ pos <= stale => Len(eng.state) = Len(snap.state) /\ Fresh(pos) = 0
         /\ pos > stale => /\ Len(eng.state) = Len(snap.state) + (pos - 1 - stale)
                           /\ Fresh(pos) = pos - stale
<1>1. pos \in 1..Len(log) /\ Len(log) \in Nat /\ stale \in Nat
  BY SequenceFields DEF TypeInv, TypeOK
<1>2. \A k \in 1..pos : ~log[k].torn
  BY <1>1 DEF Related, ReplayInv
<1>3. Complete \in Nat /\ Complete >= pos
  BY <1>1 DEF Complete
<1>4. /\ pos <= stale => Fresh(pos - 1) = 0 /\ Fresh(pos) = 0
      /\ pos > stale => Fresh(pos - 1) = pos - 1 - stale /\ Fresh(pos) = pos - stale
  BY <1>1, <1>3 DEF Fresh
<1>5. Len(eng.state) = Len(snap.state) + Fresh(pos - 1)
  BY Zenon DEF Related, ReplayInv
<1>6. Len(snap.state) \in Nat
  BY SnapshotFields, SequenceFields, Zenon DEF TypeInv, TypeOK
<1> QED
  BY <1>1, <1>2, <1>4, <1>5, <1>6

\* A stale record is suppressed; a fresh one is the next of the order and is
\* applied.
LEMMA ReplayRecordRelated ==
  ASSUME TypeInv, Marked(eng), Related, ReplayRecord
  PROVE  Related'
<1> DEFINE r == log[pos]
<1>1. /\ pc = "replay" /\ pc' = "replay" /\ pos \in DOMAIN log /\ ~r.torn
      /\ pos' = pos + 1 /\ UNCHANGED <<log, snap, order, stale, sent, acked, cur>>
  BY Zenon DEF ReplayRecord, disk
<1>2. DiskInv' /\ OrderInv'
  BY <1>1, DiskFrame, OrderFrame, Zenon DEF Related
<1>3. /\ pos \in 1..Len(log) /\ Len(log) \in Nat /\ stale \in Nat
      /\ \A k \in 1..pos : ~log[k].torn
      /\ pos <= stale => Len(eng.state) = Len(snap.state) /\ Fresh(pos) = 0
      /\ pos > stale => /\ Len(eng.state) = Len(snap.state) + (pos - 1 - stale)
                        /\ Fresh(pos) = pos - stale
  BY <1>1, ReplayedSoFar, Zenon
<1>4. r \in Record /\ eng \in Snapshot /\ snap \in Snapshot
  BY <1>1, <1>3, SequenceFields, Zenon DEF TypeInv, TypeOK
<1>5. /\ Len(snap.state) \in Nat /\ eng.state \in Seq(Record)
      /\ Len(eng.state) \in Nat /\ DOMAIN eng.state = 1..Len(eng.state)
      /\ \A c \in Clients : snap.applied[c] \in Nat /\ eng.applied[c] \in Nat
  BY <1>4, SnapshotFields, SequenceFields, Zenon
<1>6. /\ Prefix(eng.state, order)
      /\ \A c \in Clients : snap.applied[c] <= eng.applied[c]
  BY <1>1, Zenon DEF Related, ReplayInv
<1>7. Fresh(pos - 1)' = Fresh(pos)
  <2>1. pos' - 1 = pos
    BY <1>1, <1>3
  <2> QED
    BY <1>1, <2>1, Zenon DEF Fresh, Complete
<1>8. r.op.client \in Clients /\ r.op.seq \in Nat /\ r.ts \in Nat
  BY <1>4, RecordFields, Zenon
<1>9. /\ \A i \in DOMAIN log : i < pos =>
           (~log[i].torn => log[i].op.seq <= eng.applied[log[i].op.client])
      /\ Attained(eng) /\ Stamped(eng) /\ Sound(eng.state)
  BY <1>1, Zenon DEF Related, ServeInv
<1>10. \A i \in DOMAIN log : log[i].op.client \in Clients /\ log[i].op.seq \in Nat
  BY RecordFields, SequenceFields, Zenon DEF TypeInv, TypeOK
<1> HIDE DEF r
<1>11. CASE pos <= stale
  <2>1. r.op.seq <= snap.applied[r.op.client]
    BY <1>1, <1>3, <1>11 DEF Related, DiskInv, r
  <2>2. Duplicate(r)
    BY <2>1, <1>5, <1>6, <1>8 DEF Duplicate
  <2>3. eng' = eng
    BY <2>2, Zenon DEF ReplayRecord, r
  <2>4. ReplayInv'
    <3>1. Len(eng.state)' = Len(snap.state)' + Fresh(pos - 1)'
      BY <1>1, <1>3, <1>5, <1>7, <1>11, <2>3
    <3>2. Prefix(eng.state, order)'
      BY <1>1, <1>6, <2>3, Zenon DEF Prefix
    <3>3. \A k \in 1..(pos' - 1) : ~log'[k].torn
      BY <1>1, <1>3
    <3> QED
      BY <1>1, <1>6, <2>3, <3>1, <3>2, <3>3, Zenon DEF ReplayInv
  <2>5. ServeInv'
    <3>1. \A i \in DOMAIN log' : i < pos' =>
            (~log'[i].torn => log'[i].op.seq <= eng'.applied[log'[i].op.client])
      BY <1>1, <1>3, <1>9, <2>2, <2>3 DEF Duplicate, r
    <3> QED
      BY <1>1, <1>9, <2>3, <3>1, Zenon DEF ServeInv, Attained, Stamped, Sound
  <2> QED
    BY <1>2, <2>4, <2>5, Zenon DEF Related
<1>12. CASE pos > stale
  <2> DEFINE L == Len(eng.state)
  <2>1. /\ L = Len(snap.state) + pos - 1 - stale /\ L \in Nat
        /\ Fresh(pos) = pos - stale
    <3>1. Len(snap.state) \in Nat /\ Len(eng.state) \in Nat
      BY <1>5, Zenon
    <3>2. pos \in Nat /\ stale \in Nat
      BY <1>3
    <3>3. Len(eng.state) = Len(snap.state) + (pos - 1 - stale) /\ Fresh(pos) = pos - stale
      BY <1>3, <1>12, Zenon
    <3> QED
      BY <3>1, <3>2, <3>3, Zenon
  <2>2. /\ Len(snap.state) + pos - stale <= Len(order)
        /\ order[Len(snap.state) + pos - stale] = log[pos]
    <3>1. pos \in (stale + 1)..Len(log)
      BY <1>3, <1>12
    <3> QED
      BY <3>1, <1>3, Zenon DEF Related, DiskInv
  <2>3. L + 1 <= Len(order) /\ order[L + 1] = r
    <3>1. Len(snap.state) \in Nat /\ pos \in Nat /\ stale \in Nat
      BY <1>3, <1>5
    <3>2. L + 1 = Len(snap.state) + pos - stale
      BY <2>1, <3>1
    <3> QED
      BY <2>2, <3>2, Zenon DEF r
  <2>4. /\ order \in Seq(Record) /\ DOMAIN order = 1..Len(order) /\ Len(order) \in Nat
        /\ \A i \in 1..Len(order) : order[i] \in Record
    BY SequenceFields, Zenon DEF TypeInv, TypeOK
  <2>5. \A i \in 1..L : eng.state[i] = order[i] /\ i \in DOMAIN order /\ i < L + 1
    BY <1>5, <1>6, <2>1, <2>3, <2>4 DEF Prefix
  <2>6. L + 1 \in DOMAIN order
    BY <2>1, <2>3, <2>4
  <2>7. \A i \in 1..L : /\ eng.state[i].ts <= r.ts
                        /\ eng.state[i].op.client = r.op.client
                             => eng.state[i].op.seq < r.op.seq
    BY <2>3, <2>5, <2>6, Zenon DEF Related, OrderInv
  <2> HIDE DEF L
  <2>9. ~(r.op.seq <= eng.applied[r.op.client])
    <3> SUFFICES ASSUME r.op.seq <= eng.applied[r.op.client] PROVE FALSE
      BY Zenon
    <3>1. eng.applied[r.op.client] > 0
      BY <1>4, <1>5, <1>8, RecordFields
    <3>2. PICK i \in DOMAIN eng.state : /\ eng.state[i].op.client = r.op.client
                                        /\ eng.state[i].op.seq = eng.applied[r.op.client]
      BY <3>1, <1>8, <1>9, Zenon DEF Attained
    <3>3. eng.state[i].op.seq < r.op.seq
      BY <3>2, <2>7, <1>5, Zenon DEF L
    <3> QED
      BY <3>2, <3>3, <1>5, <1>8
  <2>10. eng' = Applied(eng, r)
    BY <2>9, Zenon DEF ReplayRecord, Duplicate, r
  <2>11. eng'.state = Append(eng.state, r)
    BY <2>10, <1>4, AppliedFields, Zenon
  <2>12. /\ Len(eng'.state) = L + 1 /\ DOMAIN eng'.state = 1..(L + 1)
         /\ \A i \in 1..L : eng'.state[i] = eng.state[i]
         /\ eng'.state[L + 1] = r
    BY <2>11, <1>4, <1>5, AppendFields DEF L
  <2>13. \A i \in 1..(L + 1) : eng'.state[i] = order[i]
    <3> TAKE i \in 1..(L + 1)
    <3>1. i = L + 1 \/ i \in 1..L
      BY <2>1
    <3> QED
      BY <3>1, <2>3, <2>5, <2>12, Zenon
  <2>14. Prefix(eng'.state, order)
    BY <2>3, <2>12, <2>13, Zenon DEF Prefix
  <2>16. Attained(eng') /\ Stamped(eng') /\ Sound(eng'.state)
    <3>1. Attained(eng')
      BY <1>4, <1>9, <2>10, AppliedAttained, Zenon
    <3>2. \A i \in DOMAIN eng.state : eng.state[i].ts <= r.ts
      BY <1>5, <2>7, Zenon DEF L
    <3>3. Stamped(eng')
      BY <1>4, <1>9, <2>10, <3>2, AppliedStamped, Zenon
    <3>4. eng'.state \in Seq(Record)
      BY <1>4, <1>5, <2>11, AppendFields, Zenon
    <3>5. Sound(eng'.state)
      BY <2>14, <3>4, PrefixOfOrder, Zenon DEF Related
    <3> QED
      BY <3>1, <3>3, <3>5, Zenon
  <2>18. /\ \A c \in Clients : eng.applied[c] <= eng'.applied[c]
         /\ eng'.applied[r.op.client] = r.op.seq
         /\ \A c \in Clients : eng'.applied[c] \in Nat
    <3>1. Applied(eng, r) \in Snapshot
      BY <1>4, AppliedType, Zenon
    <3>2. \A c \in Clients : eng'.applied[c] \in Nat
      BY <2>10, <3>1, SnapshotFields, Zenon
    <3> QED
      BY <1>4, <2>9, <2>10, <3>2, AppliedGrows, Zenon
  <2>19. ReplayInv'
    <3>1. Len(eng'.state) = Len(snap'.state) + Fresh(pos - 1)'
      <4>1. L + 1 = Len(snap.state) + (pos - stale)
        BY <1>3, <1>5, <2>1
      <4> QED
        BY <4>1, <1>1, <1>7, <2>1, <2>12, Zenon
    <3>2. \A c \in Clients : snap'.applied[c] <= eng'.applied[c]
      BY <1>1, <1>5, <1>6, <2>18
    <3>3. \A k \in 1..(pos' - 1) : ~log'[k].torn
      BY <1>1, <1>3
    <3>4. Prefix(eng'.state, order')
      BY <1>1, <2>14, Zenon
    <3> QED
      BY <1>1, <3>1, <3>2, <3>3, <3>4, Zenon DEF ReplayInv, Prefix
  <2>20. ServeInv'
    <3>1. \A i \in DOMAIN log' : i < pos' =>
            (~log'[i].torn => log'[i].op.seq <= eng'.applied[log'[i].op.client])
      <4> SUFFICES ASSUME NEW i \in DOMAIN log, i < pos + 1, ~log[i].torn
                   PROVE  log[i].op.seq <= eng'.applied[log[i].op.client]
        BY <1>1, Zenon
      <4>0. i = pos \/ i < pos
        BY <1>3
      <4>1. CASE i = pos
        BY <4>1, <2>18, <1>8 DEF r
      <4>2. CASE i < pos
        BY <4>2, <1>5, <1>9, <1>10, <2>18
      <4> QED
        BY <4>0, <4>1, <4>2, Zenon
    <3> QED
      BY <1>1, <2>16, <3>1, Zenon DEF ServeInv, Attained, Stamped, Sound
  <2> QED
    BY <1>2, <2>19, <2>20, Zenon DEF Related
<1> QED
  BY <1>3, <1>11, <1>12

LEMMA ReplayTornTailRelated ==
  ASSUME TypeInv, Related, ReplayTornTail
  PROVE  Related'
<1>1. /\ pc = "replay" /\ pc' = "replay" /\ pos = Len(log) /\ log[pos].torn
      /\ pos > 0 /\ pos' = pos + 1
      /\ UNCHANGED <<log, snap, order, stale, sent, acked, cur, eng>>
  BY Zenon DEF ReplayTornTail, disk
<1>2. DiskInv' /\ OrderInv'
  BY <1>1, DiskFrame, OrderFrame, Zenon DEF Related
<1>3. pos \in Nat /\ Len(log) \in Nat /\ stale \in Nat /\ DOMAIN log = 1..Len(log)
  BY <1>1, SequenceFields DEF TypeInv, TypeOK
<1>4. Complete = pos - 1
  <2>1. log # << >>
    BY <1>1, <1>3
  <2> QED
    BY <1>1, <2>1, Zenon DEF Complete
<1>5. Fresh(pos) = Fresh(pos - 1)
  BY <1>3, <1>4 DEF Fresh
<1>6. Fresh(pos - 1)' = Fresh(pos)
  <2>1. pos' - 1 = pos
    BY <1>1, <1>3
  <2> QED
    BY <1>1, <2>1, Zenon DEF Fresh, Complete
<1>7. ReplayInv'
  <2>1. \A k \in 1..(pos' - 1) : k < Len(log') => ~log'[k].torn
    BY <1>1, <1>3 DEF Related, ReplayInv
  <2>2. Prefix(eng.state, order)'
    BY <1>1, Zenon DEF Prefix, Related, ReplayInv
  <2>3. Len(eng'.state) = Len(snap'.state) + Fresh(pos - 1)'
    BY <1>1, <1>5, <1>6, Zenon DEF Related, ReplayInv
  <2> QED
    BY <1>1, <2>1, <2>2, <2>3, Zenon DEF Related, ReplayInv
<1>8. ServeInv'
  <2>1. \A i \in DOMAIN log' : i < pos' =>
          (~log'[i].torn => log'[i].op.seq <= eng'.applied[log'[i].op.client])
    <3>1. \A i \in DOMAIN log : i < pos =>
            (~log[i].torn => log[i].op.seq <= eng.applied[log[i].op.client])
      BY <1>1, Zenon DEF Related, ServeInv
    <3>2. \A i \in DOMAIN log : i < pos + 1 => i < pos \/ i = pos
      BY <1>3
    <3> QED
      BY <1>1, <3>1, <3>2, Zenon
  <2>2. Attained(eng)' /\ Stamped(eng)' /\ Sound(eng.state)'
    <3>1. pc # "down"
      BY <1>1, Zenon
    <3>2. Attained(eng) /\ Stamped(eng) /\ Sound(eng.state)
      BY <3>1, Zenon DEF Related, ServeInv
    <3> QED
      BY <1>1, <3>2, Zenon DEF Attained, Stamped, Sound
  <2> QED
    BY <1>1, <2>1, <2>2, Zenon DEF ServeInv
<1> QED
  BY <1>2, <1>7, <1>8, Zenon DEF Related

\* Equal length and agreement make sequences equal.
LEMMA PrefixEqual ==
  ASSUME NEW p \in Seq(Record), NEW q \in Seq(Record), Prefix(p, q), Len(p) = Len(q)
  PROVE  p = q
BY SequenceFields DEF Prefix

LEMMA FinishRecoverRelated ==
  ASSUME TypeInv, Related, FinishRecover
  PROVE  Related'
<1>1. /\ pc = "replay" /\ pc' = "idle" /\ pos \notin DOMAIN log
      /\ UNCHANGED <<log, snap, order, stale, sent, acked, cur, eng>>
  BY Zenon DEF FinishRecover, disk
<1>2. DiskInv' /\ OrderInv'
  BY <1>1, DiskFrame, OrderFrame, Zenon DEF Related
<1>3. pos = Len(log) + 1 /\ Len(log) \in Nat /\ DOMAIN log = 1..Len(log)
  <2>1. log \in Seq(Record) /\ pos \in 1..(Len(log) + 1)
    BY Zenon DEF TypeInv, TypeOK
  <2>2. Len(log) \in Nat /\ DOMAIN log = 1..Len(log)
    BY <2>1, SequenceFields, Zenon
  <2> QED
    BY <1>1, <2>1, <2>2
<1>4. Readable
  BY <1>1, <1>3 DEF Readable, Related, ReplayInv
<1>5. pos - 1 = Len(log)
  BY <1>3
<1>6. Len(eng.state) = Len(order)
  BY <1>1, <1>4, <1>5, Zenon DEF Related, ReplayInv, DiskInv
<1>7. eng.state \in Seq(Record) /\ order \in Seq(Record)
  BY SnapshotFields, Zenon DEF TypeInv, TypeOK
<1>8. eng.state = order
  BY <1>1, <1>6, <1>7, PrefixEqual, Zenon DEF Related, ReplayInv
<1>9. \A i \in DOMAIN log : ~log[i].torn => log[i].op.seq <= eng.applied[log[i].op.client]
  BY <1>1, <1>3 DEF Related, ServeInv
<1>10. cur = NoRecord
  BY <1>1, Zenon DEF TypeInv, ControlInv
<1>11. ServeInv'
  BY <1>1, <1>8, <1>9, <1>10, Zenon DEF Related, ServeInv, Attained, Stamped, Sound
<1> QED
  BY <1>1, <1>2, <1>11, Zenon DEF Related, ReplayInv

-----------------------------------------------------------------------------
(* Delivery *)

LEMMA OpEqual ==
  ASSUME NEW o \in Op, NEW p \in Op, o.client = p.client, o.seq = p.seq
  PROVE  o = p
BY DEF Op

\* Sending only raises the numbers a client has used.
LEMMA SendGrows ==
  ASSUME TypeInv, NEW o \in Op, Send(o)
  PROVE  /\ o.client \in Clients /\ o.seq \in Nat /\ o.seq <= sent'[o.client]
         /\ \A c \in Clients : sent[c] \in Nat /\ sent'[c] \in Nat /\ sent[c] <= sent'[c]
BY EngineAssumption DEF TypeInv, TypeOK, Send, Op

LEMMA SoundGrows ==
  ASSUME TypeInv, NEW o \in Op, Send(o), NEW q \in Seq(Record), Sound(q)
  PROVE  \A i \in DOMAIN q : ~q[i].torn /\ q[i].op.seq <= sent'[q[i].op.client]
<1> TAKE i \in DOMAIN q
<1>1. q[i].op.client \in Clients /\ q[i].op.seq \in Nat
  BY RecordFields
<1>2. \A c \in Clients : sent[c] \in Nat /\ sent'[c] \in Nat /\ sent[c] <= sent'[c]
  BY SendGrows, Zenon
<1> QED
  BY <1>1, <1>2 DEF Sound

\* The order and the answers stay in relation when a client sends.
LEMMA SendKeepsOrder ==
  ASSUME TypeInv, OrderInv, NEW o \in Op, Send(o), UNCHANGED <<order, acked>>
  PROVE  OrderInv'
<1>1. order \in Seq(Record)
  BY Zenon DEF TypeInv, TypeOK
<1>2. Sound(order)'
  BY <1>1, SoundGrows, Zenon DEF OrderInv, Sound
<1> QED
  BY <1>2, Zenon DEF OrderInv, Ids

\* An operation its client may send that the marks suppress is in the state.
LEMMA DuplicateApplied ==
  ASSUME TypeInv, Related, pc = "idle", NEW o \in Op, MaySend(o),
         o.seq <= eng.applied[o.client]
  PROVE  o \in Ids(order)
<1>1. CASE o \in acked
  BY <1>1, Zenon DEF Related, OrderInv
<1>2. CASE o.seq >= sent[o.client]
  <2>1. /\ o.client \in Clients /\ o.seq \in Nat /\ o.seq >= 1
        /\ eng.applied[o.client] \in Nat /\ sent[o.client] \in Nat
    BY SnapshotFields, EngineAssumption DEF TypeInv, TypeOK, Op
  <2>2. eng.state = order /\ Attained(eng) /\ Sound(eng.state)
    BY Zenon DEF Related, ServeInv
  <2>3. PICK i \in DOMAIN order : /\ order[i].op.client = o.client
                                  /\ order[i].op.seq = eng.applied[o.client]
    BY <2>1, <2>2 DEF Attained
  <2>4. eng.applied[o.client] <= sent[o.client]
    BY <2>2, <2>3, Zenon DEF Sound
  <2>5. order[i].op.seq = o.seq
    BY <1>2, <2>1, <2>3, <2>4
  <2>6. order[i].op \in Op
    BY RecordFields DEF TypeInv, TypeOK
  <2>7. order[i].op = o
    BY <2>3, <2>5, <2>6, OpEqual, Zenon
  <2> QED
    BY <2>7, Zenon DEF Ids
<1>3. o \in acked \/ o.seq >= sent[o.client]
  BY EngineAssumption DEF MaySend, TypeInv, TypeOK, Op
<1> QED
  BY <1>1, <1>2, <1>3, Zenon

\* The engine after a fresh operation, delivered here or at a peer.
LEMMA FreshApplied ==
  ASSUME TypeInv, Marked(eng), Related, pc = "idle",
         NEW o \in Op, Send(o), NEW ts \in Timestamps, ~Duplicate(NewRecord(o, ts))
  PROVE  LET r == NewRecord(o, ts)
             e == Applied(eng, r)
         IN  /\ r \in Record /\ ~r.torn
             /\ e.state = Append(order, r)
             /\ r.op.seq = e.applied[r.op.client]
             /\ Attained(e) /\ Stamped(e)
             /\ \A i \in DOMAIN e.state :
                  ~e.state[i].torn /\ e.state[i].op.seq <= sent'[e.state[i].op.client]
             /\ \A i \in DOMAIN log :
                  ~log[i].torn => log[i].op.seq <= e.applied[log[i].op.client]
<1> DEFINE r == NewRecord(o, ts)
           e == Applied(eng, r)
<1>1. ts \in 1..MaxTs /\ ts >= eng.last_ts /\ eng.last_ts \in Nat /\ ts \in Nat
  BY SnapshotFields, EngineAssumption DEF TypeInv, TypeOK, Timestamps
<1>2. r \in Record /\ ~r.torn /\ r.op = o /\ r.ts = ts
  BY <1>1, NewRecordType, Zenon DEF NewRecord
<1>3. eng \in Snapshot /\ eng.state \in Seq(Record) /\ DOMAIN eng.state = 1..Len(eng.state)
      /\ Len(eng.state) \in Nat
  BY SnapshotFields, SequenceFields, Zenon DEF TypeInv, TypeOK
<1>4. /\ eng.state = order /\ Attained(eng) /\ Stamped(eng) /\ Sound(eng.state)
      /\ \A i \in DOMAIN log :
           ~log[i].torn => log[i].op.seq <= eng.applied[log[i].op.client]
  BY Zenon DEF Related, ServeInv
<1>6. ~(r.op.seq <= eng.applied[r.op.client])
  BY Zenon DEF Duplicate
<1>7. \A i \in DOMAIN eng.state : eng.state[i].ts <= r.ts
  <2> TAKE i \in DOMAIN eng.state
  <2>1. eng.state[i].ts <= eng.last_ts /\ eng.state[i] \in Record
    BY <1>3, <1>4 DEF Stamped
  <2>2. eng.state[i].ts \in Nat
    BY <2>1, RecordFields, Zenon
  <2> QED
    BY <1>1, <1>2, <2>1, <2>2
<1> HIDE DEF r
<1>9. e.state = Append(eng.state, r)
  BY <1>2, <1>3, AppliedFields, Zenon
<1>10. Attained(e)
  BY <1>2, <1>3, <1>4, AppliedAttained, Zenon
<1>11. Stamped(e)
  BY <1>2, <1>3, <1>4, <1>7, AppliedStamped, Zenon
<1>13. \A i \in DOMAIN e.state :
         ~e.state[i].torn /\ e.state[i].op.seq <= sent'[e.state[i].op.client]
  <2>1. /\ DOMAIN e.state = 1..(Len(eng.state) + 1)
        /\ \A i \in 1..Len(eng.state) : e.state[i] = eng.state[i]
        /\ e.state[Len(eng.state) + 1] = r
    BY <1>2, <1>3, <1>9, AppendFields
  <2>2. ~r.torn /\ r.op.seq <= sent'[r.op.client]
    BY <1>2, SendGrows, Zenon
  <2>3. \A i \in DOMAIN eng.state :
          ~eng.state[i].torn /\ eng.state[i].op.seq <= sent'[eng.state[i].op.client]
    BY <1>3, <1>4, SoundGrows, Zenon
  <2> TAKE i \in DOMAIN e.state
  <2>4. i = Len(eng.state) + 1 \/ i \in 1..Len(eng.state)
    BY <2>1, <1>3
  <2> QED
    BY <2>1, <2>2, <2>3, <2>4, <1>3, Zenon
<1>14. /\ \A c \in Clients : eng.applied[c] <= e.applied[c]
       /\ e.applied[r.op.client] = r.op.seq
  BY <1>2, <1>3, <1>6, AppliedGrows, Zenon
<1>15. \A c \in Clients : eng.applied[c] \in Nat /\ e.applied[c] \in Nat
  BY <1>2, <1>3, AppliedType, SnapshotFields, Zenon
<1>16. \A i \in DOMAIN log : log[i].op.client \in Clients /\ log[i].op.seq \in Nat
  BY RecordFields, SequenceFields, Zenon DEF TypeInv, TypeOK
<1>17. \A i \in DOMAIN log :
         ~log[i].torn => log[i].op.seq <= e.applied[log[i].op.client]
  BY <1>4, <1>14, <1>15, <1>16
<1> QED
  BY <1>2, <1>4, <1>9, <1>10, <1>11, <1>13, <1>14, <1>17, Zenon DEF r

LEMMA DeliverRelated ==
  ASSUME TypeInv, Marked(eng), Related, NEW o \in Op, Deliver(o)
  PROVE  Related'
<1>0. Send(o) /\ MaySend(o)
  BY Zenon DEF Deliver, Send
<1>1. ASSUME NEW ts \in Timestamps, DeliverFresh(NewRecord(o, ts))
      PROVE  Related'
  <2> DEFINE r == NewRecord(o, ts)
  <2>1. /\ pc = "idle" /\ pc' = "append" /\ ~Duplicate(r) /\ eng' = Applied(eng, r)
        /\ cur' = r /\ UNCHANGED <<log, snap, order, stale, acked>>
    BY <1>1, Zenon DEF DeliverFresh, disk
  <2>3. /\ ~r.torn
        /\ eng'.state = Append(order, r)
        /\ r.op.seq = eng'.applied[r.op.client]
        /\ Attained(eng') /\ Stamped(eng')
        /\ \A i \in DOMAIN eng'.state :
             ~eng'.state[i].torn /\ eng'.state[i].op.seq <= sent'[eng'.state[i].op.client]
        /\ \A i \in DOMAIN log :
             ~log[i].torn => log[i].op.seq <= eng'.applied[log[i].op.client]
    BY <2>1, <1>0, FreshApplied, Zenon
  <2>4. DiskInv' /\ OrderInv'
    BY <1>0, <2>1, DiskFrame, SendKeepsOrder, Zenon DEF Related
  <2> HIDE DEF r
  <2>5. ServeInv'
    BY <2>1, <2>3, Zenon DEF ServeInv, Attained, Stamped, Sound
  <2> QED
    BY <2>1, <2>4, <2>5, Zenon DEF Related, ReplayInv
<1>2. CASE DeliverDuplicate(NewRecord(o, eng.last_ts))
  <2>1. /\ pc = "idle" /\ acked' = acked \cup {o} /\ o.seq <= eng.applied[o.client]
        /\ UNCHANGED <<log, snap, order, stale, eng, cur, pc, pos>>
    BY <1>2, Zenon DEF DeliverDuplicate, Duplicate, NewRecord, disk
  <2>2. o \in Ids(order)
    BY <1>0, <2>1, DuplicateApplied, Zenon
  <2>3. order \in Seq(Record) /\ eng.state = order
    BY <2>1, Zenon DEF TypeInv, TypeOK, Related, ServeInv
  <2>4. Sound(order)' /\ Sound(eng.state)'
    BY <1>0, <2>1, <2>3, SoundGrows, Zenon DEF Related, OrderInv, Sound
  <2>6. acked' \subseteq Ids(order')
    BY <2>1, <2>2, Zenon DEF Related, OrderInv
  <2>7. OrderInv'
    BY <2>1, <2>4, <2>6, Zenon DEF Related, OrderInv
  <2>8. DiskInv'
    BY <2>1, DiskFrame, Zenon DEF Related
  <2>9. ServeInv'
    BY <2>1, <2>4, Zenon DEF Related, ServeInv, Attained, Stamped
  <2> QED
    BY <2>1, <2>7, <2>8, <2>9, Zenon DEF Related, ReplayInv
<1> QED
  BY <1>1, <1>2, Zenon DEF Deliver

LEMMA ImportEqualRelated ==
  ASSUME TypeInv, Related, ImportEqual
  PROVE  Related'
<1>1. /\ pc = "idle" /\ pc' = "rename" /\ eng' = eng /\ cur' = NoRecord
      /\ UNCHANGED <<log, snap, order, stale, sent, acked>>
  BY Zenon DEF ImportEqual, ImportState, disk, TypeInv, ControlInv
<1>2. DiskInv' /\ OrderInv'
  BY <1>1, DiskFrame, OrderFrame, Zenon DEF Related
<1>3. Prefix(order, eng.state)'
  BY <1>1, SequenceFields DEF Related, ServeInv, Prefix, TypeInv, TypeOK
<1>4. ServeInv'
  BY <1>1, <1>3, Zenon DEF Related, ServeInv, Attained, Stamped, Sound
<1> QED
  BY <1>1, <1>2, <1>4, Zenon DEF Related, ReplayInv

LEMMA ImportAheadRelated ==
  ASSUME TypeInv, Marked(eng), Related, NEW o \in Op, ImportAhead(o)
  PROVE  Related'
<1>1. Send(o)
  BY Zenon DEF ImportAhead
<1>2. ASSUME NEW ts \in Timestamps, ~Duplicate(NewRecord(o, ts)),
             ImportState(Applied(eng, NewRecord(o, ts)))
      PROVE  Related'
  <2> DEFINE r == NewRecord(o, ts)
  <2>1. /\ pc = "idle" /\ pc' = "rename" /\ eng' = Applied(eng, r) /\ cur' = NoRecord
        /\ UNCHANGED <<log, snap, order, stale, acked>>
    BY <1>2, Zenon DEF ImportState, disk, TypeInv, ControlInv
  <2>3. /\ r \in Record
        /\ eng'.state = Append(order, r)
        /\ Attained(eng') /\ Stamped(eng')
        /\ \A i \in DOMAIN eng'.state :
             ~eng'.state[i].torn /\ eng'.state[i].op.seq <= sent'[eng'.state[i].op.client]
        /\ \A i \in DOMAIN log :
             ~log[i].torn => log[i].op.seq <= eng'.applied[log[i].op.client]
    BY <1>1, <1>2, <2>1, FreshApplied, Zenon
  <2>4. DiskInv' /\ OrderInv'
    BY <1>1, <2>1, DiskFrame, SendKeepsOrder, Zenon DEF Related
  <2> HIDE DEF r
  <2>5. Prefix(order', eng'.state)
    <3>1. order \in Seq(Record)
      BY Zenon DEF TypeInv, TypeOK
    <3> QED
      BY <2>1, <2>3, <3>1, AppendExtends, Zenon
  <2>6. ServeInv'
    BY <2>1, <2>3, <2>5, Zenon DEF ServeInv, Attained, Stamped, Sound, Prefix
  <2> QED
    BY <2>1, <2>4, <2>6, Zenon DEF Related, ReplayInv
<1> QED
  BY <1>2, Zenon DEF ImportAhead

\* An append, whole or cut short, behind the complete records of the log.
LEMMA AppendedDisk ==
  ASSUME TypeInv, DiskInv, NEW r \in Record, log' = Append(log, r),
         UNCHANGED <<snap, stale>>,
         order' = IF r.torn THEN order ELSE Append(order, r)
  PROVE  DiskInv'
<1> DEFINE n == Len(log)
           S == Len(snap.state)
           N == Len(order)
<1>1. /\ log \in Seq(Record) /\ n \in Nat /\ DOMAIN log = 1..n /\ stale \in 0..n
      /\ snap \in Snapshot /\ order \in Seq(Record) /\ N \in Nat /\ S \in Nat
      /\ DOMAIN order = 1..N /\ DOMAIN snap.state = 1..S
  BY SnapshotFields, SequenceFields, Zenon DEF TypeInv, TypeOK
<1>2. /\ Len(log') = n + 1 /\ DOMAIN log' = 1..(n + 1)
      /\ \A i \in 1..n : log'[i] = log[i]
      /\ log'[n + 1] = r
  BY <1>1, AppendFields, Zenon
<1>3. /\ r.torn => Len(order') = N
      /\ ~r.torn => Len(order') = N + 1
      /\ \A i \in 1..N : order'[i] = order[i]
      /\ ~r.torn => order'[N + 1] = r
  BY <1>1, AppendFields, Zenon
<1>4. /\ S <= N /\ \A i \in 1..S : snap.state[i] = order[i]
  BY <1>1, Zenon DEF DiskInv, Prefix
<1>5. \A i \in (stale + 1)..n : (\A k \in 1..i : ~log[k].torn) =>
        S + i - stale <= N /\ order[S + i - stale] = log[i]
  BY Zenon DEF DiskInv
<1>6. (\A k \in 1..n : ~log[k].torn) => N = S + (n - stale)
  <2> SUFFICES ASSUME \A k \in 1..n : ~log[k].torn PROVE N = S + (n - stale)
    BY Zenon
  <2>1. Readable
    BY <1>1 DEF Readable
  <2>2. Complete = n
    <3>1. log # << >> => n \in 1..n
      BY <1>1
    <3> QED
      BY <3>1, Zenon DEF Complete
  <2>3. Fresh(n) = n - stale
    <3>1. n \in Nat /\ stale \in Nat /\ stale <= n
      BY <1>1
    <3> HIDE DEF n
    <3> QED
      BY <2>2, <3>1 DEF Fresh
  <2> QED
    BY <2>1, <2>3, Zenon DEF DiskInv
<1>7. /\ \A i \in 1..stale : ~log[i].torn => log[i].op.seq <= snap.applied[log[i].op.client]
      /\ Attained(snap) /\ Stamped(snap)
  BY Zenon DEF DiskInv
<1>8. n \in Nat /\ N \in Nat /\ S \in Nat /\ stale \in Nat /\ stale <= n
  BY <1>1
<1>9. Readable' => \A k \in 1..n : ~log[k].torn
  <2>1. Len(log') - 1 = n
    BY <1>2, <1>8
  <2> QED
    BY <1>2, <2>1, Zenon DEF Readable
<1>10. Readable' => Len(order') = Len(snap'.state) + Fresh(Len(log))'
  <2> SUFFICES ASSUME Readable' PROVE Len(order') = Len(snap'.state) + Fresh(Len(log))'
    BY Zenon
  <2>1. N = S + (n - stale)
    BY <1>6, <1>9, Zenon
  <2>2. log' # << >>
    BY <1>2, <1>8
  <2>3. /\ r.torn => Complete' = n
        /\ ~r.torn => Complete' = n + 1
    BY <1>2, <1>8, <2>2 DEF Complete
  <2>4. /\ r.torn => Fresh(Len(log))' = n - stale
        /\ ~r.torn => Fresh(Len(log))' = n + 1 - stale
    BY <1>2, <1>8, <2>3 DEF Fresh
  <2>7. Len(snap'.state) = S
    BY Zenon
  <2> HIDE DEF n, S, N
  <2>5. CASE r.torn
    BY <2>1, <2>4, <2>5, <2>7, <1>3, <1>8, Zenon
  <2>6. CASE ~r.torn
    BY <2>1, <2>4, <2>6, <2>7, <1>3, <1>8
  <2> QED
    BY <2>5, <2>6, Zenon
<1> HIDE DEF n, S, N
<1>11. ASSUME NEW i \in (stale + 1)..(n + 1), \A k \in 1..i : ~log'[k].torn
       PROVE  S + i - stale <= Len(order') /\ order'[S + i - stale] = log'[i]
  <2>1. i = n + 1 \/ i \in (stale + 1)..n
    BY <1>8
  <2>2. CASE i = n + 1
    <3>1. \A k \in 1..n : k \in 1..i
      BY <1>8, <2>2
    <3>2. \A k \in 1..n : ~log[k].torn
      BY <1>2, <1>11, <3>1, Zenon
    <3>3. i \in 1..i
      BY <1>8, <2>2
    <3>4. ~r.torn
      BY <1>2, <1>11, <2>2, <3>3, Zenon
    <3>5. S + i - stale = N + 1
      BY <1>6, <1>8, <2>2, <3>2
    <3>6. Len(order') = N + 1 /\ order'[N + 1] = r /\ log'[i] = r
      BY <1>2, <1>3, <2>2, <3>4, Zenon
    <3>7. N + 1 <= N + 1
      BY <1>8
    <3> QED
      BY <3>5, <3>6, <3>7, Zenon
  <2>3. CASE i \in (stale + 1)..n
    <3>1. \A k \in 1..i : log'[k] = log[k]
      BY <1>2, <1>8, <2>3
    <3>2. S + i - stale <= N /\ order[S + i - stale] = log[i]
      BY <1>5, <1>11, <2>3, <3>1, Zenon
    <3>3. S + i - stale \in 1..N
      BY <1>8, <2>3, <3>2
    <3>4. i \in 1..i
      BY <1>8, <2>3
    <3>5. order'[S + i - stale] = log'[i]
      BY <1>3, <3>1, <3>2, <3>3, <3>4, Zenon
    <3>6. S + i - stale <= Len(order')
      BY <1>3, <1>8, <3>2, <3>3
    <3> QED
      BY <3>5, <3>6, Zenon
  <2> QED
    BY <2>1, <2>2, <2>3, Zenon
<1>12. Prefix(snap.state, order)'
  <2>1. \A i \in 1..S : i \in 1..N
    BY <1>4, <1>8
  <2>2. Len(snap.state) = S /\ DOMAIN snap.state = 1..S
    BY <1>1, Zenon DEF S
  <2>3. S <= Len(order')
    BY <1>3, <1>4, <1>8
  <2> QED
    BY <1>3, <1>4, <2>1, <2>2, <2>3, Zenon DEF Prefix
<1>13. \A i \in 1..stale' : ~log'[i].torn => log'[i].op.seq <= snap'.applied[log'[i].op.client]
  BY <1>2, <1>7, <1>8
<1>14. Attained(snap)' /\ Stamped(snap)'
  BY <1>7, Zenon DEF Attained, Stamped
<1>15. Len(snap'.state) = S /\ Len(log') = n + 1
  BY <1>2, Zenon DEF S
<1> QED
  BY <1>10, <1>11, <1>12, <1>13, <1>14, <1>15, Zenon DEF DiskInv

LEMMA AppendRecordRelated ==
  ASSUME TypeInv, Marked(eng), Related, AppendRecord
  PROVE  Related'
<1>1. /\ pc = "append" /\ pc' \in {"rename", "reply"}
      /\ log' = Append(log, cur) /\ order' = Append(order, cur)
      /\ UNCHANGED <<snap, eng, cur, pos, stale, sent, acked>>
  BY Zenon DEF AppendRecord
<1>2. /\ cur \in Record /\ ~cur.torn
      /\ eng.state = Append(order, cur)
      /\ cur.op.seq = eng.applied[cur.op.client]
      /\ Attained(eng) /\ Stamped(eng) /\ Sound(eng.state)
      /\ \A i \in DOMAIN log :
           ~log[i].torn => log[i].op.seq <= eng.applied[log[i].op.client]
  BY <1>1, Zenon DEF TypeInv, ControlInv, Related, ServeInv
<1>3. DiskInv'
  BY <1>1, <1>2, AppendedDisk, Zenon DEF Related
<1>4. order \in Seq(Record) /\ log \in Seq(Record) /\ Len(log) \in Nat /\ Len(order) \in Nat
  BY SequenceFields, Zenon DEF TypeInv, TypeOK
<1>5. eng.state = order'
  BY <1>1, <1>2, Zenon
<1>6. /\ DOMAIN order' = 1..(Len(order) + 1) /\ DOMAIN order = 1..Len(order)
      /\ \A i \in 1..Len(order) : order'[i] = order[i]
      /\ order'[Len(order) + 1] = cur
  BY <1>1, <1>2, <1>4, AppendFields, SequenceFields
<1>7. cur.op \in Ids(order')
  <2>1. Len(order) + 1 \in DOMAIN order'
    BY <1>4, <1>6
  <2> QED
    BY <1>6, <2>1, Zenon DEF Ids
<1>8. OrderInv'
  <2>1. acked' \subseteq Ids(order')
    <3>1. Ids(order) \subseteq Ids(order')
      BY <1>4, <1>6 DEF Ids
    <3> QED
      BY <1>1, <3>1, Zenon DEF Related, OrderInv
  <2>3. \A i, j \in DOMAIN order' :
          i < j => /\ order'[i].ts <= order'[j].ts
                   /\ order'[i].op.client = order'[j].op.client
                        => order'[i].op.seq < order'[j].op.seq
    BY <1>2, <1>5, Zenon DEF Stamped, Marked
  <2>4. Sound(order')
    BY <1>2, <1>5, Zenon
  <2> QED
    BY <1>1, <2>1, <2>3, <2>4, Zenon DEF OrderInv, Sound
<1>9. \A i \in DOMAIN log' :
        ~log'[i].torn => log'[i].op.seq <= eng'.applied[log'[i].op.client]
  <2>1. /\ DOMAIN log' = 1..(Len(log) + 1) /\ DOMAIN log = 1..Len(log)
        /\ \A i \in 1..Len(log) : log'[i] = log[i]
        /\ log'[Len(log) + 1] = cur
    BY <1>1, <1>2, <1>4, AppendFields, SequenceFields
  <2> TAKE i \in DOMAIN log'
  <2>2. i = Len(log) + 1 \/ i \in 1..Len(log)
    BY <1>4, <2>1
  <2>3. cur.op.seq <= eng.applied[cur.op.client]
    BY <1>2, RecordFields
  <2> QED
    BY <1>1, <1>2, <2>1, <2>2, <2>3, Zenon
<1>10. Prefix(order', eng'.state)
  BY <1>1, <1>5, <1>6, SequenceFields DEF Prefix, TypeInv, TypeOK, Snapshot
<1>11. ServeInv'
  <2>1. eng' = eng /\ eng'.state = order' /\ cur'.op \in Ids(order')
    BY <1>1, <1>5, <1>7, Zenon
  <2>2. cur'.op \in Ids(eng'.state)
    BY <2>1, Zenon
  <2>3. /\ Attained(eng') /\ Stamped(eng') /\ Sound(eng'.state)
    BY <1>2, <2>1, Zenon
  <2>4. pc' # "append" /\ pc' # "remove" /\ pc' # "replay"
    BY <1>1, Zenon
  <2> QED
    BY <1>1, <1>9, <1>10, <2>1, <2>2, <2>3, <2>4, Zenon
       DEF ServeInv, Attained, Stamped, Sound, Prefix, Ids
<1> QED
  BY <1>1, <1>3, <1>8, <1>11, Zenon DEF Related, ReplayInv

LEMMA RenameSnapshotRelated ==
  ASSUME TypeInv, Marked(eng), Related, RenameSnapshot
  PROVE  Related'
<1>1. /\ pc = "rename" /\ pc' = "remove" /\ snap' = eng /\ order' = eng.state
      /\ stale' = Len(log) /\ UNCHANGED <<log, eng, cur, pos, sent, acked>>
  BY Zenon DEF RenameSnapshot
<1>2. /\ Prefix(order, eng.state)
      /\ cur # NoRecord => cur.op \in Ids(eng.state)
      /\ Attained(eng) /\ Stamped(eng) /\ Sound(eng.state)
      /\ \A i \in DOMAIN log :
           ~log[i].torn => log[i].op.seq <= eng.applied[log[i].op.client]
  BY <1>1, Zenon DEF Related, ServeInv
<1>3. /\ eng.state \in Seq(Record) /\ order \in Seq(Record) /\ log \in Seq(Record)
      /\ Len(log) \in Nat /\ Len(eng.state) \in Nat
      /\ DOMAIN log = 1..Len(log) /\ DOMAIN eng.state = 1..Len(eng.state)
      /\ DOMAIN order = 1..Len(order) /\ Len(order) \in Nat
  BY SnapshotFields, SequenceFields, Zenon DEF TypeInv, TypeOK
<1>4. DiskInv'
  <2>1. Prefix(snap.state, order)'
    BY <1>1, <1>3 DEF Prefix
  <2>2. Fresh(Len(log))' = 0
    <3>1. Complete' \in Nat /\ Complete' <= Len(log)
      BY <1>1, <1>3 DEF Complete
    <3> QED
      BY <1>1, <1>3, <3>1 DEF Fresh
  <2>3. (stale' + 1)..Len(log') = {}
    BY <1>1, <1>3
  <2>4. Len(order') = Len(snap'.state) + Fresh(Len(log))'
    BY <1>1, <1>3, <2>2
  <2>5. \A i \in 1..stale' : ~log'[i].torn => log'[i].op.seq <= snap'.applied[log'[i].op.client]
    BY <1>1, <1>2, <1>3, Zenon
  <2>6. Attained(snap)' /\ Stamped(snap)'
    BY <1>1, <1>2, Zenon DEF Attained, Stamped
  <2> QED
    BY <2>1, <2>3, <2>4, <2>5, <2>6, Zenon DEF DiskInv
<1>5. OrderInv'
  <2>1. Ids(order) \subseteq Ids(eng.state)
    BY <1>2, <1>3 DEF Prefix, Ids
  <2>2. acked' \subseteq Ids(order')
    BY <1>1, <2>1, Zenon DEF Related, OrderInv
  <2>3. \A i, j \in DOMAIN order' :
          i < j => /\ order'[i].ts <= order'[j].ts
                   /\ order'[i].op.client = order'[j].op.client
                        => order'[i].op.seq < order'[j].op.seq
    BY <1>1, <1>2, Zenon DEF Stamped, Marked
  <2> QED
    BY <1>1, <1>2, <2>2, <2>3, Zenon DEF OrderInv, Sound
<1>6. ServeInv'
  BY <1>1, <1>2, Zenon DEF ServeInv, Attained, Stamped, Sound, Ids
<1> QED
  BY <1>1, <1>4, <1>5, <1>6, Zenon DEF Related, ReplayInv

LEMMA RemoveLogRelated ==
  ASSUME TypeInv, Related, RemoveLog
  PROVE  Related'
<1>1. /\ pc = "remove" /\ pc' = "reply"
      /\ UNCHANGED <<snap, eng, cur, pos, order, sent, acked>>
      /\ (log' = << >> /\ stale' = 0) \/ UNCHANGED <<log, stale>>
  BY Zenon DEF RemoveLog
<1>2. /\ eng = snap /\ order = snap.state
      /\ cur # NoRecord => cur.op \in Ids(eng.state)
      /\ Attained(eng) /\ Stamped(eng) /\ Sound(eng.state)
      /\ \A i \in DOMAIN log :
           ~log[i].torn => log[i].op.seq <= eng.applied[log[i].op.client]
  BY <1>1, Zenon DEF Related, ServeInv
<1>3. OrderInv'
  BY <1>1, OrderFrame, Zenon DEF Related
<1>4. /\ DiskInv'
      /\ \A i \in DOMAIN log' :
           ~log'[i].torn => log'[i].op.seq <= eng'.applied[log'[i].op.client]
  <2>1. CASE log' = << >> /\ stale' = 0
    <3>1. log' \in Seq(Record) /\ Len(log') = 0
      BY <2>1, EmptyLog, Zenon
    <3>2. DOMAIN log' = {} /\ (stale' + 1)..Len(log') = {} /\ 1..stale' = {}
      BY <2>1, <3>1, SequenceFields
    <3>3. Fresh(Len(log))' = 0
      <4>1. Complete' = 0
        BY <2>1, <3>1, Zenon DEF Complete
      <4> QED
        BY <2>1, <3>1, <4>1 DEF Fresh
    <3>4. order \in Seq(Record) /\ Len(order) \in Nat
      BY SequenceFields, Zenon DEF TypeInv, TypeOK
    <3>5. Prefix(snap.state, order)'
      BY <1>1, <1>2, <3>4 DEF Prefix
    <3>6. Len(order') = Len(snap'.state) + Fresh(Len(log))'
      BY <1>1, <1>2, <3>3, <3>4
    <3>7. Attained(snap)' /\ Stamped(snap)'
      BY <1>1, <1>2, Zenon DEF Attained, Stamped
    <3> QED
      BY <3>2, <3>5, <3>6, <3>7, Zenon DEF DiskInv
  <2>2. CASE UNCHANGED <<log, stale>>
    BY <1>1, <1>2, <2>2, DiskFrame, Zenon DEF Related
  <2> QED
    BY <1>1, <2>1, <2>2, Zenon
<1>5. ServeInv'
  BY <1>1, <1>2, <1>4 DEF ServeInv, Attained, Stamped, Sound, Ids
<1> QED
  BY <1>1, <1>3, <1>4, <1>5, Zenon DEF Related, ReplayInv

LEMMA ReplyRelated ==
  ASSUME TypeInv, Related, Reply
  PROVE  Related'
<1>1. /\ pc = "reply" /\ pc' = "idle" /\ UNCHANGED <<log, snap, eng, pos, order, stale, sent>>
      /\ acked' = acked \cup (IF cur = NoRecord THEN Ids(eng.state) ELSE {cur.op})
      /\ cur' = NoRecord
  BY Zenon DEF Reply, disk
<1>2. eng.state = order /\ (cur # NoRecord => cur.op \in Ids(order))
  BY <1>1, Zenon DEF Related, ServeInv
<1>3. acked' \subseteq Ids(order')
  BY <1>1, <1>2, Zenon DEF Related, OrderInv
<1>4. OrderInv'
  BY <1>1, <1>3, Zenon DEF Related, OrderInv, Sound
<1>5. DiskInv'
  BY <1>1, DiskFrame, Zenon DEF Related
<1>6. ServeInv'
  BY <1>1, Zenon DEF Related, ServeInv, Attained, Stamped, Sound
<1> QED
  BY <1>1, <1>4, <1>5, <1>6, Zenon DEF Related, ReplayInv

-----------------------------------------------------------------------------
(* Stopping *)

LEMMA StopRelated ==
  ASSUME TypeInv, Related, Stop \/ StopTearingAppend
  PROVE  Related'
<1>1. pc' = "down" /\ UNCHANGED <<snap, order, stale, sent, acked>>
  BY Zenon DEF Stop, StopTearingAppend, LoseMemory
<1>2. OrderInv'
  BY <1>1, OrderFrame, Zenon DEF Related
<1>3. ASSUME Stop PROVE DiskInv'
  BY <1>1, <1>3, DiskFrame, Zenon DEF Related, Stop
<1>4. ASSUME StopTearingAppend PROVE DiskInv'
  <2> DEFINE r == [cur EXCEPT !.torn = TRUE]
  <2>1. cur \in Record /\ log' = Append(log, r)
    BY <1>4, Zenon DEF StopTearingAppend, TypeInv, ControlInv
  <2>2. r \in Record /\ r.torn
    BY <2>1, Zenon DEF Record
  <2> HIDE DEF r
  <2> QED
    BY <1>1, <2>1, <2>2, AppendedDisk, Zenon DEF Related
<1>5. DiskInv'
  BY <1>3, <1>4, Zenon
<1>6. ReplayInv' /\ ServeInv'
  BY <1>1, Zenon DEF ReplayInv, ServeInv
<1> QED
  BY <1>2, <1>5, <1>6, Zenon DEF Related

-----------------------------------------------------------------------------
(* The invariant and its consequences *)

LEMMA InitIInv == Init => IInv
<1> SUFFICES ASSUME Init PROVE IInv
  BY Zenon
<1>1. TypeInv /\ Marked(eng) /\ Marked(snap)
  BY InitTypeInv, EmptyMarked, Zenon DEF Init
<1>2. /\ log \in Seq(Record) /\ Len(log) = 0 /\ order \in Seq(Record) /\ Len(order) = 0
  BY EmptyLog, Zenon DEF Init
<1>3. DOMAIN log = {} /\ DOMAIN order = {}
  BY <1>2, SequenceFields
<1>4. pc = "down" /\ stale = 0 /\ acked = {} /\ snap.state = order
      /\ snap.applied = [c \in Clients |-> 0]
  BY Zenon DEF Init, EmptySnapshot
<1>5. OrderInv
  BY <1>3, <1>4, Zenon DEF OrderInv, Sound
<1>6. DiskInv
  <2>1. Prefix(snap.state, order)
    BY <1>2, <1>4 DEF Prefix
  <2>2. (stale + 1)..Len(log) = {} /\ 1..stale = {}
    BY <1>2, <1>4
  <2>3. Len(order) = Len(snap.state) + Fresh(Len(log))
    <3>1. Fresh(Len(log)) = 0
      BY <1>1, <1>2, FreshNone, Zenon
    <3> QED
      BY <1>2, <1>4, <3>1
  <2>4. Attained(snap)
    <3>0. \A c \in Clients : snap.applied[c] = 0
      BY <1>4, Zenon
    <3> QED
      BY <3>0 DEF Attained
  <2>5. Stamped(snap)
    BY <1>3, <1>4, Zenon DEF Stamped
  <2> QED
    BY <2>1, <2>2, <2>3, <2>4, <2>5, Zenon DEF DiskInv
<1>7. ReplayInv /\ ServeInv
  BY <1>4, Zenon DEF ReplayInv, ServeInv
<1> QED
  BY <1>1, <1>5, <1>6, <1>7, Zenon DEF IInv, TypeInv

LEMMA RelatedFrame ==
  ASSUME Related, UNCHANGED vars
  PROVE  Related'
<1>1. DiskInv' /\ OrderInv'
  BY DiskFrame, OrderFrame, Zenon DEF Related, vars
<1>2. ReplayInv'
  BY Zenon DEF Related, ReplayInv, vars, Prefix, Fresh, Complete
<1>3. ServeInv'
  BY Zenon DEF Related, ServeInv, vars, Prefix, Attained, Stamped, Sound, Ids
<1> QED
  BY <1>1, <1>2, <1>3, Zenon DEF Related

LEMMA IInvStep == IInv /\ [Next]_vars => IInv'
<1> SUFFICES ASSUME IInv, [Next]_vars PROVE IInv'
  BY Zenon
<1>1. TypeInv /\ Marked(eng) /\ Marked(snap) /\ (~misread => Related)
  BY Zenon DEF IInv, TypeInv, Related
<1>2. TypeInv' /\ Marked(eng)' /\ Marked(snap)'
  BY <1>1, TypeStep, MarkedStep, Zenon
<1>3. ASSUME ~misread' PROVE Related'
  <2>1. ~misread /\ ~ReplayTornInside
    BY <1>3 DEF Next, vars, Recover, ReplayRecord, ReplayTornTail, ReplayTornInside,
                FinishRecover, Deliver, ImportAhead, ImportEqual, DeliverFresh, DeliverDuplicate,
                ImportState, AppendRecord, RenameSnapshot, RemoveLog, Reply, Stop,
                StopTearingAppend, LoseMemory
  <2>2. Related
    BY <1>1, <2>1, Zenon
  <2>3. CASE \E o \in Op : Deliver(o) \/ ImportAhead(o)
    BY <1>1, <2>2, <2>3, DeliverRelated, ImportAheadRelated, Zenon
  <2> QED
    BY <1>1, <2>1, <2>2, <2>3, RelatedFrame, RecoverRelated, ReplayRecordRelated, ImportEqualRelated,
       ReplayTornTailRelated, FinishRecoverRelated, AppendRecordRelated,
       RenameSnapshotRelated, RemoveLogRelated, ReplyRelated, StopRelated, Zenon DEF Next
<1> QED
  BY <1>2, <1>3, Zenon DEF IInv, TypeInv, Related

LEMMA AlwaysIInv == Spec => []IInv
BY InitIInv, IInvStep, PTL DEF Spec

\* Whenever the engine can answer, its state is the durable order
\* (ServesDurableOrder): for every crash point of deliver, write_snapshot and
\* import_state, every snapshot interval and any number of crashes, recover
\* drops, repeats and reorders nothing, unless it read past a torn record.
THEOREM StateIsDurableOrder == Spec => []ServesDurableOrder
<1>1. IInv => ServesDurableOrder
  BY Zenon DEF IInv, ServeInv, ServesDurableOrder
<1> QED
  BY <1>1, AlwaysIInv, PTL

\* The timestamps of the durable order grow (TimestampsIncrease): the last_ts
\* that recover restores is never behind a record on disk.
THEOREM OrderIsTimestamped == Spec => []TimestampsIncrease
<1>1. IInv => TimestampsIncrease
  BY Zenon DEF IInv, OrderInv, TimestampsIncrease
<1> QED
  BY <1>1, AlwaysIInv, PTL

-----------------------------------------------------------------------------
(* What a recovery replays.                                                *)

LEMMA Intervals ==
  /\ Interval \in Nat /\ Interval >= 1 /\ Interval * 0 = 0
  /\ \A n \in Nat : Interval * n \in Nat /\ Interval * (n + 1) = Interval * n + Interval
<1>1. Interval \in Nat /\ Interval >= 1
  BY EngineAssumption DEF Interval
<1> QED
  BY <1>1

LEMMA LagTypes ==
  ASSUME TypeOK
  PROVE  /\ Len(order) \in Nat /\ Len(snap.state) \in Nat /\ Len(eng.state) \in Nat
         /\ ops_since_snap \in Nat /\ replayed \in Nat /\ stops \in Nat
<1>1. order \in Seq(Record) /\ snap.state \in Seq(Record) /\ eng.state \in Seq(Record)
  BY SnapshotFields, Zenon DEF TypeOK
<1>2. stops \in 0..MaxStops /\ ops_since_snap \in Nat /\ replayed \in Nat
  BY Zenon DEF TypeOK
<1> QED
  BY <1>1, <1>2, EngineAssumption

\* A stop forgets the records counted so far, fewer than an interval.
LEMMA StopLag ==
  ASSUME TypeOK, LagInv, LoseMemory
  PROVE  LagInv'
<1>1. /\ stops' = stops + 1 /\ ops_since_snap' = 0 /\ replayed' = 0 /\ pc' = "down"
      /\ snap' = snap /\ order' = order
  BY Zenon DEF LoseMemory
<1>2. Len(order) <= Len(snap.state) + Interval * stops + ops_since_snap /\ ops_since_snap <= Interval
  BY Zenon DEF LagInv
<1>3. Len(order)' = Len(order) /\ Len(snap.state)' = Len(snap.state) /\ pc' \notin {"replay", "idle", "append", "reply"}
  BY <1>1, Zenon
<1>4. Interval * (stops + 1) = Interval * stops + Interval /\ Interval * (stops + 1) \in Nat
  BY LagTypes, Intervals
<1>5. Interval * stops' = Interval * stops + Interval
  BY <1>1, <1>4, Zenon
<1>6. /\ Len(order)' <= Len(snap.state)' + Interval * stops' + ops_since_snap'
      /\ replayed' <= Interval * stops' /\ ops_since_snap' <= Interval
  <2>1. Interval * stops \in Nat /\ Interval \in Nat /\ Len(snap.state) \in Nat
        /\ Len(order) \in Nat /\ ops_since_snap \in Nat
    BY LagTypes, Intervals, Zenon
  <2>2. Len(order) <= Len(snap.state) + (Interval * stops + Interval) + 0
    BY <1>2, <2>1
  <2>3. 0 <= Interval * stops + Interval /\ 0 <= Interval
    BY <2>1
  <2> QED
    BY <1>1, <1>3, <1>5, <2>2, <2>3, Zenon
<1> QED
  BY <1>1, <1>3, <1>6, Zenon DEF LagInv

\* One record more: the snapshot is due before the count passes the interval.
LEMMA AppendLag ==
  ASSUME TypeOK, LagInv, AppendRecord
  PROVE  LagInv'
<1>1. /\ ops_since_snap' = ops_since_snap + 1 /\ order' = Append(order, cur)
      /\ pc = "append" /\ pc' = IF ops_since_snap + 1 >= Interval THEN "rename" ELSE "reply"
      /\ stops' = stops /\ snap' = snap /\ replayed' = replayed
  BY Zenon DEF AppendRecord
<1>2. /\ Len(order) <= Len(snap.state) + Interval * stops + ops_since_snap
      /\ ops_since_snap < Interval /\ replayed <= Interval * stops
  BY <1>1, Zenon DEF LagInv
<1>3. Len(order') = Len(order) + 1
  <2>1. order \in Seq(Record)
    BY Zenon DEF TypeOK
  <2> QED
    BY <1>1, <2>1
<1>4. Len(order') <= Len(snap'.state) + Interval * stops' + ops_since_snap' /\ ops_since_snap' <= Interval
  BY <1>1, <1>2, <1>3, LagTypes, Intervals
<1>5. pc' \notin {"down", "replay", "idle", "append"} /\ (pc' = "reply" => ops_since_snap' < Interval)
  BY <1>1, LagTypes, Intervals
<1> QED
  BY <1>1, <1>2, <1>4, <1>5, Zenon DEF LagInv

\* A recovery rebuilds a prefix of the durable order.
LEMMA ReplayLag ==
  ASSUME TypeOK, LagInv, ReplayRecord, TypeOK', Prefix(eng.state, order)'
  PROVE  LagInv'
<1>1. /\ pc = "replay" /\ pc' = "replay" /\ ops_since_snap' = ops_since_snap /\ stops' = stops
      /\ snap' = snap /\ order' = order
      /\ \/ eng' = eng /\ replayed' = replayed
         \/ eng' = Applied(eng, log[pos]) /\ replayed' = replayed + 1
  BY Zenon DEF ReplayRecord, disk
<1>2. /\ Len(order) <= Len(snap.state) + Interval * stops + ops_since_snap
      /\ ops_since_snap = 0 /\ ops_since_snap <= Interval
      /\ Len(eng.state) = Len(snap.state) + replayed
  BY <1>1, Zenon DEF LagInv
<1>3. log[pos] \in Record /\ eng \in Snapshot
  BY DEF ReplayRecord, TypeOK
<1>4. Applied(eng, log[pos]).state = Append(eng.state, log[pos]) /\ eng.state \in Seq(Record)
  BY <1>3, AppliedFields, SnapshotFields, Zenon
<1>5. Len(Append(eng.state, log[pos])) = Len(eng.state) + 1
  BY <1>4
<1>6. Len(eng'.state) = Len(snap.state) + replayed'
  BY <1>1, <1>2, <1>4, <1>5, LagTypes
<1>7. Len(eng'.state) <= Len(order)
  BY <1>1, Zenon DEF Prefix
<1>8. replayed' <= Interval * stops
  BY <1>1, <1>2, <1>6, <1>7, LagTypes, Intervals
<1> QED
  BY <1>1, <1>2, <1>6, <1>8, Zenon DEF LagInv

LEMMA LagStep ==
  ASSUME RecoveryInv, [Next]_vars, ~misread', IInv'
  PROVE  LagInv'
<1>1. TypeOK /\ TypeOK' /\ ReplayInv' /\ ServeInv'
  BY Zenon DEF RecoveryInv, IInv
<1>2. ~misread /\ ~ReplayTornInside
  BY DEF Next, vars, Recover, ReplayRecord, ReplayTornTail, ReplayTornInside,
         FinishRecover, Deliver, ImportAhead, ImportEqual, DeliverFresh, DeliverDuplicate,
         ImportState, AppendRecord, RenameSnapshot, RemoveLog, Reply, Stop,
         StopTearingAppend, LoseMemory
<1>3. LagInv
  BY <1>2, Zenon DEF RecoveryInv
<1>4. CASE Stop \/ StopTearingAppend
  BY <1>1, <1>3, <1>4, StopLag, Zenon DEF Stop, StopTearingAppend
<1>5. CASE AppendRecord
  BY <1>1, <1>3, <1>5, AppendLag, Zenon
<1>6. CASE ReplayRecord
  <2>1. pc' = "replay"
    BY <1>6, Zenon DEF ReplayRecord
  <2>2. Prefix(eng.state, order)'
    BY <1>1, <2>1, Zenon DEF ReplayInv
  <2> QED
    BY <1>1, <1>3, <1>6, <2>2, ReplayLag, Zenon
<1>7. CASE Recover
  <2>1. /\ pc = "down" /\ pc' = "replay" /\ eng' = snap
        /\ UNCHANGED <<ops_since_snap, replayed, order, snap, stops>>
    BY <1>7, Zenon DEF Recover, disk
  <2>2. Len(snap.state) = Len(snap.state) + replayed
    BY <1>1, <1>3, <2>1, LagTypes DEF LagInv
  <2> QED
    BY <1>3, <2>1, <2>2, Zenon DEF LagInv
<1>8. CASE FinishRecover
  <2>1. /\ pc = "replay" /\ pc' = "idle" /\ ops_since_snap' = replayed % Interval
        /\ UNCHANGED <<replayed, order, snap, stops>>
    BY <1>8, Zenon DEF FinishRecover, disk
  <2>2. replayed % Interval \in 0..(Interval - 1)
    BY <1>1, LagTypes, Intervals
  <2>3. Len(order) <= Len(snap.state) + Interval * stops + 0 /\ replayed <= Interval * stops
    BY <1>3, <2>1, Zenon DEF LagInv
  <2>4. /\ Len(order) <= Len(snap.state) + Interval * stops + (replayed % Interval)
        /\ replayed % Interval <= Interval /\ replayed % Interval < Interval
    BY <1>1, <2>2, <2>3, LagTypes, Intervals
  <2> QED
    BY <2>1, <2>3, <2>4, Zenon DEF LagInv
<1>9. CASE RenameSnapshot
  <2>1. /\ pc' = "remove" /\ snap' = eng /\ order' = eng.state
        /\ UNCHANGED <<ops_since_snap, replayed, stops>>
    BY <1>9, Zenon DEF RenameSnapshot
  <2>2. ops_since_snap <= Interval /\ replayed <= Interval * stops
    BY <1>3, Zenon DEF LagInv
  <2>3. Len(eng.state) <= Len(eng.state) + Interval * stops + ops_since_snap
    BY <1>1, LagTypes, Intervals
  <2> QED
    BY <2>1, <2>2, <2>3, Zenon DEF LagInv
<1>10. CASE RemoveLog
  <2>1. /\ pc' = "reply" /\ ops_since_snap' = 0 /\ pc = "remove"
        /\ UNCHANGED <<snap, order, replayed, stops>>
    BY <1>10, Zenon DEF RemoveLog
  <2>2. order = snap.state
    BY <1>2, <2>1, Zenon DEF RecoveryInv, IInv, ServeInv
  <2>3. Len(order) <= Len(snap.state) + Interval * stops + 0 /\ 0 <= Interval /\ 0 < Interval
    BY <1>1, <2>2, LagTypes, Intervals
  <2>4. replayed <= Interval * stops
    BY <1>3, Zenon DEF LagInv
  <2> QED
    BY <2>1, <2>3, <2>4, Zenon DEF LagInv
<1>11. CASE ReplayTornTail \/ UNCHANGED vars
  BY <1>3, <1>11, Zenon DEF ReplayTornTail, vars, disk, LagInv
<1>12. CASE Reply \/ ImportEqual \/ \E o \in Op : Deliver(o) \/ ImportAhead(o)
  <2>1. /\ UNCHANGED <<snap, order, ops_since_snap, replayed, stops>>
        /\ pc \in {"idle", "reply"} /\ pc' \in {"idle", "append", "rename"}
    BY <1>12, Zenon DEF Reply, ImportEqual, Deliver, ImportAhead, ImportState, DeliverFresh,
                 DeliverDuplicate, disk
  <2> QED
    BY <1>3, <2>1, Zenon DEF LagInv
<1> QED
  BY <1>2, <1>4, <1>5, <1>6, <1>7, <1>8, <1>9, <1>10, <1>11, <1>12, Zenon DEF Next

\* The relation of log, snapshot, memory, durable order and counters that makes a
\* recovery exact and bounded (RecoveryInv) holds at every point where deliver,
\* recover, write_snapshot and import_state can stop, for every instance.
THEOREM RecoveryInvariant == Spec => []RecoveryInv
<1>1. Init => RecoveryInv
  <2> SUFFICES ASSUME Init PROVE LagInv
    BY InitIInv, Zenon DEF RecoveryInv
  <2>1. /\ pc = "down" /\ ops_since_snap = 0 /\ replayed = 0 /\ stops = 0
        /\ order = << >> /\ snap.state = << >>
    BY Zenon DEF Init, EmptySnapshot
  <2>2. Len(order) = 0 /\ Len(snap.state) = 0
    BY <2>1, EmptyType, Zenon
  <2>3. 0 <= Interval /\ Interval * 0 = 0
    BY Intervals
  <2> QED
    BY <2>1, <2>2, <2>3 DEF LagInv
<1>2. RecoveryInv /\ [Next]_vars => RecoveryInv'
  BY IInvStep, LagStep, Zenon DEF RecoveryInv
<1> QED
  BY <1>1, <1>2, PTL DEF Spec

\* A recovery replays at most one snapshot interval of records for every stop so
\* far (ReplayBounded), for every interval and any number of stops, unless one
\* read past a torn record (replayed and ops_since_snap of recover).
THEOREM ReplaysBounded == Spec => []ReplayBounded
<1>1. RecoveryInv => ReplayBounded
  BY Zenon DEF RecoveryInv, LagInv, ReplayBounded
<1> QED
  BY <1>1, RecoveryInvariant, PTL

-----------------------------------------------------------------------------
(* Until a recovery reads past a torn record, an answered operation stays  *)
(* recoverable and the engine implements the exactly-once service.         *)

\* An operation that deliver has answered is recoverable from the snapshot and
\* the log at every later point, crashes between any two durable steps and within
\* an append included, as long as no record was written behind a torn one
\* (AckedRecoverable).
THEOREM AckedIsDurable == Spec => []AckedRecoverable
<1>1. IInv => AckedRecoverable
  <2> SUFFICES ASSUME IInv, ~misread, Readable, NEW o \in acked PROVE o \in Recoverable
    BY Zenon DEF AckedRecoverable
  <2>1. /\ DiskInv /\ OrderInv /\ TypeOK
    BY Zenon DEF IInv
  <2> DEFINE n == Len(log)
             S == Len(snap.state)
             N == Len(order)
             m == Complete
  <2>2. /\ n \in Nat /\ DOMAIN log = 1..n /\ stale \in 0..n
        /\ S \in Nat /\ DOMAIN snap.state = 1..S
        /\ N \in Nat /\ DOMAIN order = 1..N
    BY <2>1, SnapshotFields, SequenceFields, Zenon DEF TypeOK
  <2>3. m \in Int /\ m <= n /\ \A k \in 1..m : ~log[k].torn
    <3>1. CASE log # << >> /\ log[n].torn
      <4>1. m = n - 1
        BY <3>1, Zenon DEF Complete
      <4> QED
        BY <2>2, <4>1 DEF Readable
    <3>2. CASE ~(log # << >> /\ log[n].torn)
      <4>1. m = n
        BY <3>2, Zenon DEF Complete
      <4>2. \A k \in 1..n : k \in 1..(n - 1) \/ k = n
        <5>1. n \in Nat
          BY <2>2, Zenon
        <5> HIDE DEF n
        <5> QED
          BY <5>1
      <4>3. \A k \in 1..n : log # << >>
        <5>1. log = << >> => n = 0
          BY SMT
        <5> QED
          BY <2>2, <5>1
      <4>4. \A k \in 1..n : ~log[k].torn
        BY <3>2, <4>2, <4>3, Zenon DEF Readable
      <4> QED
        BY <2>2, <4>1, <4>4
    <3> QED
      BY <3>1, <3>2, Zenon
  <2>4. N = S + (IF m > stale THEN m - stale ELSE 0)
    <3>1. n \in Nat /\ stale \in Nat /\ m \in Int /\ m <= n
      BY <2>2, <2>3
    <3>2. Fresh(n) = IF m > stale THEN m - stale ELSE 0
      <4> HIDE DEF n
      <4> QED
        BY <3>1 DEF Fresh
    <3> QED
      BY <2>1, <3>2, Zenon DEF DiskInv
  <2>5. PICK i \in 1..N : order[i].op = o
    BY <2>1, <2>2, Zenon DEF OrderInv, Ids
  <2> HIDE DEF m
  <2>6. CASE i <= S
    <3>1. i \in 1..S
      <4> HIDE DEF n, N, S
      <4> QED
        BY <2>2, <2>6
    <3>2. snap.state[i] = order[i]
      BY <2>1, <2>2, <3>1, Zenon DEF DiskInv, Prefix
    <3> QED
      BY <2>2, <2>5, <3>1, <3>2, Zenon DEF Recoverable, Ids
  <2>7. CASE i > S
    <3> DEFINE j == i - S + stale
    <3>1. n \in Nat /\ N \in Nat /\ S \in Nat /\ stale \in Nat /\ m \in Int /\ m <= n /\ i \in Nat
          /\ i <= N
      BY <2>2, <2>3
    <3>2. j \in (stale + 1)..n /\ S + j - stale = i /\ j \in 1..n /\ j \in 1..m
      <4> HIDE DEF n, N, S
      <4> QED
        BY <2>4, <2>7, <3>1
    <3>3. \A k \in 1..j : ~log[k].torn
      BY <2>3, <3>1, <3>2
    <3>4. order[i] = log[j]
      BY <2>1, <3>2, <3>3, Zenon DEF DiskInv
    <3> HIDE DEF j
    <3>5. j \in DOMAIN log
      BY <2>2, <3>2, Zenon
    <3> QED
      BY <2>5, <3>3, <3>4, <3>5, Zenon DEF Recoverable
  <2>8. i <= S \/ i > S
    BY <2>2
  <2> QED
    BY <2>6, <2>7, <2>8, Zenon
<1> QED
  BY <1>1, AlwaysIInv, PTL

LEMMA ServiceStep == IInv /\ IInv' /\ ~misread' /\ [Next]_vars => Service!Next
<1> SUFFICES ASSUME IInv, IInv', ~misread', [Next]_vars PROVE Service!Next
  BY Zenon
<1>0. ~misread
  BY Zenon DEF Next, vars, Recover, ReplayRecord, ReplayTornTail, ReplayTornInside,
       FinishRecover, RemoveLog, Reply, Stop, StopTearingAppend, LoseMemory,
       Deliver, ImportAhead, ImportEqual, DeliverFresh, DeliverDuplicate, ImportState,
       AppendRecord, RenameSnapshot
<1>1. /\ TypeInv /\ ServeInv /\ OrderInv' /\ ServeInv'
  BY <1>0, Zenon DEF IInv, TypeInv
<1>2. Service!Extends(order', order)
  <2>0. order \in Seq(Record) /\ Len(order) \in Nat
    BY <1>1, SequenceFields, Zenon DEF TypeInv, TypeOK
  <2>1. CASE order' = order
    BY <2>0, <2>1 DEF Service!Extends
  <2>2. CASE AppendRecord
    <3>1. cur \in Record /\ order' = Append(order, cur)
      BY <1>1, <2>2, Zenon DEF AppendRecord, TypeInv, ControlInv
    <3> QED
      BY <2>0, <3>1, AppendFields, SequenceFields DEF Service!Extends
  <2>3. CASE RenameSnapshot
    <3>1. Prefix(order, eng.state) /\ order' = eng.state
      BY <1>1, <2>3, Zenon DEF RenameSnapshot, ServeInv
    <3> QED
      BY <3>1, Zenon DEF Prefix, Service!Extends
  <2>4. order' = order \/ AppendRecord \/ RenameSnapshot
    BY Zenon DEF Next, vars, Recover, ReplayRecord, ReplayTornTail, ReplayTornInside,
           FinishRecover, RemoveLog, Reply, Stop, StopTearingAppend, LoseMemory,
           Deliver, ImportAhead, ImportEqual, DeliverFresh, DeliverDuplicate, ImportState
  <2> QED
    BY <2>1, <2>2, <2>3, <2>4, Zenon
<1>3. Service!OnceEach(order')
  BY <1>1, Zenon DEF OrderInv, Service!OnceEach
<1>4. acked \subseteq acked'
  BY Zenon DEF Next, vars, Recover, ReplayRecord, ReplayTornTail, ReplayTornInside,
         FinishRecover, RemoveLog, Reply, Stop, StopTearingAppend, LoseMemory,
         Deliver, ImportAhead, ImportEqual, DeliverFresh, DeliverDuplicate, ImportState,
         AppendRecord, RenameSnapshot
<1>5. acked' \subseteq {order'[i].op : i \in DOMAIN order'}
  BY <1>1, Zenon DEF OrderInv, Ids
<1>6. (IF pc' \in {"idle", "reply"} THEN {eng'.state} ELSE {}) \subseteq {order'}
  BY <1>1, Zenon DEF ServeInv
<1> QED
  BY <1>2, <1>3, <1>4, <1>5, <1>6, Zenon DEF Service!Next

\* The engine implements the exactly-once service (ImplementsService): each step
\* of deliver, recover, write_snapshot and import_state, and each crash, extends
\* the order or leaves it alone, and answers are computed from the whole order, up
\* to the first recovery that reads past a torn record.
THEOREM EngineImplementsService == Spec => ImplementsService
<1>1. Init => Service!Init
  BY Zenon DEF Init, Service!Init
<1>2. IInv /\ IInv' /\ [Next]_vars => [misread' \/ Service!Next]_(Service!vars)
  BY ServiceStep, Zenon
<1> QED
  BY <1>1, <1>2, AlwaysIInv, PTL DEF Spec, ImplementsService

-----------------------------------------------------------------------------
(* When every log write is all or nothing, no record is ever misread.      *)

\* No record on disk is torn, and none was ever misread.
Whole == ~misread /\ \A i \in DOMAIN log : ~log[i].torn

WInv == IInv /\ Whole

LEMMA WInvStep ==
  ASSUME CanTear = FALSE
  PROVE  WInv /\ [Next]_vars => WInv'
<1> SUFFICES ASSUME WInv, [Next]_vars PROVE Whole'
  BY IInvStep, Zenon DEF WInv
<1>1. ~misread /\ (\A i \in DOMAIN log : ~log[i].torn) /\ log \in Seq(Record)
  BY Zenon DEF WInv, Whole, IInv, TypeOK
<1>2. CASE UNCHANGED <<log, misread>>
  BY <1>1, <1>2, Zenon DEF Whole
<1>3. CASE AppendRecord
  <2>1. cur \in Record /\ ~cur.torn /\ log' = Append(log, cur) /\ misread' = misread
    BY <1>1, <1>3, Zenon DEF AppendRecord, WInv, IInv, ControlInv, ServeInv
  <2>2. /\ DOMAIN log' = 1..(Len(log) + 1) /\ DOMAIN log = 1..Len(log) /\ Len(log) \in Nat
        /\ \A i \in 1..Len(log) : log'[i] = log[i]
        /\ log'[Len(log) + 1] = cur
    BY <1>1, <2>1, AppendFields, SequenceFields, Zenon
  <2>3. \A i \in 1..(Len(log) + 1) : i = Len(log) + 1 \/ i \in 1..Len(log)
    BY <2>2
  <2> QED
    BY <1>1, <2>1, <2>2, <2>3, Zenon DEF Whole
<1>4. CASE RemoveLog
  <2>1. CASE log' = << >>
    <3>1. DOMAIN log' = {}
      BY <2>1, EmptyLog, SequenceFields
    <3> QED
      BY <1>1, <1>4, <3>1, Zenon DEF RemoveLog, Whole
  <2> QED
    BY <1>2, <1>4, <2>1, Zenon DEF RemoveLog
<1>5. ~ReplayTornInside
  <2>1. ASSUME pos \in 1..(Len(log) - 1) PROVE pos \in DOMAIN log
    BY <1>1, <2>1, SequenceFields
  <2> QED
    BY <1>1, <2>1, Zenon DEF ReplayTornInside
<1>6. ~StopTearingAppend
  BY Zenon DEF StopTearingAppend
<1>7. CASE \/ Recover \/ ReplayRecord \/ ReplayTornTail \/ FinishRecover
           \/ RenameSnapshot \/ Reply \/ Stop \/ ImportEqual
           \/ \E o \in Op : Deliver(o) \/ ImportAhead(o)
  BY <1>2, <1>7, Zenon DEF Recover, ReplayRecord, ReplayTornTail, FinishRecover, disk,
       RenameSnapshot, Reply, Stop, LoseMemory, Deliver, ImportAhead, ImportEqual, DeliverFresh,
       DeliverDuplicate, ImportState
<1> QED
  BY <1>2, <1>3, <1>4, <1>5, <1>6, <1>7, Zenon DEF Next, vars

LEMMA AlwaysWInv ==
  ASSUME CanTear = FALSE
  PROVE  Spec => []WInv
<1>1. Init => WInv
  <2> SUFFICES ASSUME Init PROVE Whole
    BY InitIInv, Zenon DEF WInv
  <2>1. DOMAIN log = {} /\ misread = FALSE
    BY EmptyLog, SequenceFields DEF Init
  <2> QED
    BY <2>1, Zenon DEF Whole
<1>2. WInv /\ [Next]_vars => WInv'
  BY WInvStep, Zenon
<1> QED
  BY <1>1, <1>2, PTL DEF Spec

\* When a log write is all or nothing, the engine implements the exactly-once
\* service without reserve.
THEOREM WholeWritesImplementService ==
  ASSUME CanTear = FALSE
  PROVE  Spec => Service!Spec
<1>1. Init => Service!Init
  BY Zenon DEF Init, Service!Init
<1>2. WInv /\ WInv' /\ [Next]_vars => [Service!Next]_(Service!vars)
  BY ServiceStep, Zenon DEF WInv, Whole
<1> QED
  BY <1>1, <1>2, AlwaysWInv, PTL DEF Spec, Service!Spec
=============================================================================
