------------------------------- MODULE Engine -------------------------------
(***************************************************************************)
(* The replication engine of crates/onebarrier/src/lib.rs over the         *)
(* file-backed store of durable.rs: an ordered log and one snapshot.       *)
(*                                                                         *)
(* The engine is generic in a deterministic state machine, so its state is *)
(* represented by the sequence of records applied to it: two engines have  *)
(* the same state in every state machine iff they applied the same         *)
(* sequence.  A record is a delivered operation and its timestamp.  The    *)
(* log is a sequence of records; one whose write was cut short is "torn".  *)
(*                                                                         *)
(* deliver, recover and import_state are split at every point where a      *)
(* crash leaves a different disk; the in-memory work between two such      *)
(* points is one step.  A missing snapshot file behaves as the empty       *)
(* snapshot and a missing log as the empty log, so Engine::create on a     *)
(* fresh directory is Recover on an empty disk.                            *)
(***************************************************************************)
EXTENDS Integers, Sequences

CONSTANTS Clients,       \* client identities
          MaxSeq,        \* bound: highest per-client sequence number
          MaxTs,         \* bound: highest timestamp the caller assigns
          MaxStops,      \* bound: crashes and I/O errors in a behaviour
          snap_interval, \* operations between snapshots
          CanTear,       \* whether a log write may be cut short
          CallsOnMisread \* bound: whether new calls follow a misread log

ASSUME EngineAssumption == /\ MaxSeq \in Nat
                           /\ MaxTs \in Nat
                           /\ MaxStops \in Nat
                           /\ snap_interval \in Nat
                           /\ CanTear \in BOOLEAN
                           /\ CallsOnMisread \in BOOLEAN

Op == [client : Clients, seq : 1..MaxSeq]

Record == [ts : 1..MaxTs, op : Op, torn : BOOLEAN]

NoRecord == [ts |-> 0]

\* What a snapshot holds: exactly the replicated fields of the engine.
Snapshot == [state : Seq(Record), applied : [Clients -> Nat], last_ts : Nat]

EmptySnapshot == [state |-> << >>, applied |-> [c \in Clients |-> 0], last_ts |-> 0]

VARIABLES
  log, snap,       \* the two files on disk
  eng,             \* the engine's state, applied and last_ts, in memory
  ops_since_snap,
  pc,              \* the next durable step of the call in progress
  cur,             \* the record being delivered, NoRecord during import_state
  pos,             \* recovery: the next log record to replay
  replayed,        \* Stats::replayed
  order,           \* history: the records that reached the disk, in order
  stale,           \* history: how many leading log records the snapshot covers
  sent,            \* history: the highest sequence number each client has used
  acked,           \* history: operations a caller got an answer for
  misread,         \* history: a recovery met a torn record with bytes behind it
  stops            \* history: how often the engine crashed or failed

disk == <<log, snap>>

vars == <<log, snap, eng, ops_since_snap, pc, cur, pos, replayed, order, stale,
          sent, acked, misread, stops>>

\* snap_interval.max(1)
Interval == IF snap_interval < 1 THEN 1 ELSE snap_interval

Ids(q) == {q[i].op : i \in DOMAIN q}

Init ==
  /\ log = << >>
  /\ snap = EmptySnapshot
  /\ eng = EmptySnapshot
  /\ ops_since_snap = 0
  /\ pc = "down"
  /\ cur = NoRecord
  /\ pos = 1
  /\ replayed = 0
  /\ order = << >>
  /\ stale = 0
  /\ sent = [c \in Clients |-> 0]
  /\ acked = {}
  /\ misread = FALSE
  /\ stops = 0

-----------------------------------------------------------------------------
(* apply_dedup: the duplicate test, and the state change when it fails.    *)

Duplicate(r) == r.op.seq <= eng.applied[r.op.client]

Applied(e, r) ==
  [state |-> Append(e.state, r),
   applied |-> [e.applied EXCEPT ![r.op.client] = r.op.seq],
   last_ts |-> IF r.ts > e.last_ts THEN r.ts ELSE e.last_ts]

-----------------------------------------------------------------------------
(* Engine::recover *)

\* Mutants: load_snapshot restores the state without its high-water marks, or
\* without its horizon.
RecoverWithoutMarks ==
  /\ pc = "down"
  /\ eng' = [snap EXCEPT !.applied = [c \in Clients |-> 0]]
  /\ pc' = "replay"
  /\ UNCHANGED <<disk, ops_since_snap, cur, pos, replayed, order, stale, acked,
                 sent, misread, stops>>

RecoverWithoutHorizon ==
  /\ pc = "down"
  /\ eng' = [snap EXCEPT !.last_ts = 0]
  /\ pc' = "replay"
  /\ UNCHANGED <<disk, ops_since_snap, cur, pos, replayed, order, stale, acked,
                 sent, misread, stops>>

Recover ==
  /\ pc = "down"
  /\ eng' = snap
  /\ pc' = "replay"
  /\ UNCHANGED <<disk, ops_since_snap, cur, pos, replayed, order, stale, acked,
                 sent, misread, stops>>

\* Mutants: the scan advances by a record's length twice, or not at all when the
\* record is suppressed.
ReplayRecordSkipping ==
  /\ pc = "replay"
  /\ pos \in DOMAIN log
  /\ ~log[pos].torn
  /\ ~Duplicate(log[pos])
  /\ eng' = Applied(eng, log[pos])
  /\ replayed' = replayed + 1
  /\ pos' = pos + 2
  /\ UNCHANGED <<disk, ops_since_snap, pc, cur, order, stale, acked, sent,
                 misread, stops>>

ReplayRecordStuck ==
  /\ pc = "replay"
  /\ pos \in DOMAIN log
  /\ ~log[pos].torn
  /\ \/ Duplicate(log[pos]) /\ UNCHANGED <<eng, replayed, pos>>
     \/ /\ ~Duplicate(log[pos])
        /\ eng' = Applied(eng, log[pos])
        /\ replayed' = replayed + 1
        /\ pos' = pos + 1
  /\ UNCHANGED <<disk, ops_since_snap, pc, cur, order, stale, acked, sent,
                 misread, stops>>

ReplayRecord ==
  /\ pc = "replay"
  /\ pos \in DOMAIN log
  /\ ~log[pos].torn
  /\ \/ Duplicate(log[pos]) /\ UNCHANGED <<eng, replayed>>
     \/ /\ ~Duplicate(log[pos])
        /\ eng' = Applied(eng, log[pos])
        /\ replayed' = replayed + 1
  /\ pos' = pos + 1
  /\ UNCHANGED <<disk, ops_since_snap, pc, cur, order, stale, acked, sent,
                 misread, stops>>

\* Mutant: the length of the last record is not checked against the file.
ReplayTornTailApplied ==
  /\ pc = "replay"
  /\ pos = Len(log)
  /\ pos > 0
  /\ log[pos].torn
  /\ eng' = Applied(eng, log[pos])
  /\ pos' = pos + 1
  /\ UNCHANGED <<disk, ops_since_snap, pc, cur, replayed, order, stale, acked,
                 sent, misread, stops>>

\* A torn record at the end of the log ends the scan.
ReplayTornTail ==
  /\ pc = "replay"
  /\ pos = Len(log)
  /\ pos > 0
  /\ log[pos].torn
  /\ pos' = pos + 1
  /\ UNCHANGED <<disk, eng, ops_since_snap, pc, cur, replayed, order, stale,
                 acked, sent, misread, stops>>

\* With more bytes behind it, the length field of a torn record swallows them:
\* the scan resumes wherever those bytes end, and the mixed payload decodes to
\* nothing or to an operation nobody sent.
ReplayTornInside ==
  /\ pc = "replay"
  /\ pos \in 1..(Len(log) - 1)
  /\ log[pos].torn
  /\ misread' = TRUE
  /\ pos' \in (pos + 2)..(Len(log) + 1)
  /\ \/ UNCHANGED <<eng, replayed>>
     \/ \E r \in Record : /\ r.torn
                          /\ ~Duplicate(r)
                          /\ eng' = Applied(eng, r)
                          /\ replayed' = replayed + 1
  /\ UNCHANGED <<disk, ops_since_snap, pc, cur, order, stale, acked, sent, stops>>

FinishRecover ==
  /\ pc = "replay"
  /\ pos \notin DOMAIN log
  /\ ops_since_snap' = replayed % Interval
  /\ pos' = 1
  /\ pc' = "idle"
  /\ UNCHANGED <<disk, eng, cur, replayed, order, stale, acked, sent, misread,
                 stops>>

-----------------------------------------------------------------------------
(* Engine::deliver: a duplicate is answered at once; a fresh record is     *)
(* applied in memory, appended to the log, and then possibly covered by a  *)
(* snapshot before the caller gets the output.                             *)

DeliverDuplicate(r) ==
  /\ pc = "idle"
  /\ Duplicate(r)
  /\ acked' = acked \cup {r.op}
  /\ UNCHANGED <<disk, eng, ops_since_snap, pc, cur, pos, replayed, order, stale,
                 misread, stops>>

\* Mutant: the output is handed out before the record is persisted.
DeliverFreshAckFirst(r) ==
  /\ pc = "idle"
  /\ ~Duplicate(r)
  /\ eng' = Applied(eng, r)
  /\ cur' = r
  /\ acked' = acked \cup {r.op}
  /\ pc' = "append"
  /\ UNCHANGED <<disk, ops_since_snap, pos, replayed, order, stale, misread, stops>>

DeliverFresh(r) ==
  /\ pc = "idle"
  /\ ~Duplicate(r)
  /\ eng' = Applied(eng, r)
  /\ cur' = r
  /\ pc' = "append"
  /\ UNCHANGED <<disk, ops_since_snap, pos, replayed, order, stale, acked,
                 misread, stops>>

\* Mutant: the snapshot is due one operation late.
AppendRecordLate ==
  /\ pc = "append"
  /\ log' = Append(log, cur)
  /\ order' = Append(order, cur)
  /\ ops_since_snap' = ops_since_snap + 1
  /\ pc' = IF ops_since_snap >= Interval THEN "rename" ELSE "reply"
  /\ UNCHANGED <<snap, eng, cur, pos, replayed, stale, acked, sent, misread,
                 stops>>

\* Durable::append in full, then the snapshot test of deliver.
AppendRecord ==
  /\ pc = "append"
  /\ log' = Append(log, cur)
  /\ order' = Append(order, cur)
  /\ ops_since_snap' = ops_since_snap + 1
  /\ pc' = IF ops_since_snap + 1 >= Interval THEN "rename" ELSE "reply"
  /\ UNCHANGED <<snap, eng, cur, pos, replayed, stale, acked, sent, misread,
                 stops>>

\* Mutants: the log is cleared before the snapshot is in place, or the snapshot
\* is written without the high-water marks.
RenameSnapshotLogFirst ==
  /\ pc = "rename"
  /\ log' = << >>
  /\ order' = eng.state
  /\ stale' = 0
  /\ pc' = "remove"
  /\ UNCHANGED <<snap, eng, ops_since_snap, cur, pos, replayed, acked, sent,
                 misread, stops>>

RenameSnapshotUnmarked ==
  /\ pc = "rename"
  /\ snap' = [eng EXCEPT !.applied = [c \in Clients |-> 0]]
  /\ order' = eng.state
  /\ stale' = Len(log)
  /\ pc' = "remove"
  /\ UNCHANGED <<log, eng, ops_since_snap, cur, pos, replayed, acked, sent,
                 misread, stops>>

\* Durable::write_snapshot up to and including the rename of the temp file.
RenameSnapshot ==
  /\ pc = "rename"
  /\ snap' = eng
  /\ order' = eng.state
  /\ stale' = Len(log)
  /\ pc' = "remove"
  /\ UNCHANGED <<log, eng, ops_since_snap, cur, pos, replayed, acked, sent,
                 misread, stops>>

\* remove_file on the log; its error is discarded.
RemoveLog ==
  /\ pc = "remove"
  /\ \/ log' = << >> /\ stale' = 0
     \/ UNCHANGED <<log, stale>>
  /\ ops_since_snap' = 0
  /\ pc' = "reply"
  /\ UNCHANGED <<snap, eng, cur, pos, replayed, order, acked, sent, misread,
                 stops>>

\* deliver (or import_state) returns to its caller.
Reply ==
  /\ pc = "reply"
  /\ acked' = acked \cup (IF cur = NoRecord THEN Ids(eng.state) ELSE {cur.op})
  /\ cur' = NoRecord
  /\ pc' = "idle"
  /\ UNCHANGED <<disk, eng, ops_since_snap, pos, replayed, order, stale, sent,
                 misread, stops>>

\* import_state: adopt a peer's exported snapshot in memory, then install it
\* with write_snapshot.
ImportState(p) ==
  /\ pc = "idle"
  /\ eng' = p
  /\ pc' = "rename"
  /\ UNCHANGED <<disk, ops_since_snap, cur, pos, replayed, order, stale, acked,
                 misread, stops>>

-----------------------------------------------------------------------------
(* Crashes and I/O errors.  Either way the engine value is gone and only   *)
(* the disk is left; a write that was cut short leaves a torn record.      *)

LoseMemory ==
  /\ stops < MaxStops
  /\ stops' = stops + 1
  /\ eng' = EmptySnapshot
  /\ ops_since_snap' = 0
  /\ cur' = NoRecord
  /\ pos' = 1
  /\ replayed' = 0
  /\ pc' = "down"
  /\ UNCHANGED <<snap, order, stale, acked, sent, misread>>

Stop ==
  /\ pc # "down"
  /\ LoseMemory
  /\ UNCHANGED log

StopTearingAppend ==
  /\ CanTear
  /\ pc = "append"
  /\ LoseMemory
  /\ log' = Append(log, [cur EXCEPT !.torn = TRUE])

-----------------------------------------------------------------------------
(* The caller.  Timestamps of new operations are not before last_ts (the   *)
(* service seeds its clock there, the fabric delivers in order).  A client *)
(* uses growing sequence numbers, not always consecutive ones, and moves   *)
(* on only after an answer; it may send an old operation again at any      *)
(* time.                                                                   *)

MaySend(o) ==
  \/ o \in acked
  \/ o.seq = sent[o.client]
  \/ /\ o.seq > sent[o.client]
     /\ sent[o.client] = 0 \/ [o EXCEPT !.seq = sent[o.client]] \in acked

Send(o) ==
  /\ MaySend(o)
  /\ sent' = [sent EXCEPT ![o.client] = IF o.seq > @ THEN o.seq ELSE @]

Timestamps == {ts \in 1..MaxTs : ts >= eng.last_ts}

NewRecord(o, ts) == [ts |-> ts, op |-> o, torn |-> FALSE]

\* Callers take no notice of a misread log; the bound may keep them from going on.
MayCall == misread => CallsOnMisread

Deliver(o) ==
  /\ Send(o)
  /\ \/ MayCall /\ \E ts \in Timestamps : DeliverFresh(NewRecord(o, ts))
     \/ DeliverDuplicate(NewRecord(o, eng.last_ts))

\* State transfer from a peer that delivered the same operations, or one more.
ImportEqual ==
  /\ ImportState(eng)
  /\ UNCHANGED sent

ImportAhead(o) ==
  /\ MayCall
  /\ Send(o)
  /\ \E ts \in Timestamps :
       /\ ~Duplicate(NewRecord(o, ts))
       /\ ImportState(Applied(eng, NewRecord(o, ts)))

Next ==
  \/ Recover
  \/ ReplayRecord
  \/ ReplayTornTail
  \/ ReplayTornInside
  \/ FinishRecover
  \/ \E o \in Op : Deliver(o) \/ ImportAhead(o)
  \/ ImportEqual
  \/ AppendRecord
  \/ RenameSnapshot
  \/ RemoveLog
  \/ Reply
  \/ Stop
  \/ StopTearingAppend

Spec == Init /\ [][Next]_vars

\* The engine runs on one thread that the operating system schedules; callers,
\* crashes and errors owe nothing.
Progress == Recover \/ ReplayRecord \/ ReplayTornTail \/ ReplayTornInside
            \/ FinishRecover \/ AppendRecord \/ RenameSnapshot \/ RemoveLog \/ Reply

FairSpec == Spec /\ WF_vars(Progress)
-----------------------------------------------------------------------------
(* Properties *)

\* Every variable keeps its type; a log position never runs past the log.
TypeOK ==
  /\ log \in Seq(Record)
  /\ snap \in Snapshot
  /\ eng \in Snapshot
  /\ ops_since_snap \in Nat
  /\ pc \in {"down", "replay", "idle", "append", "rename", "remove", "reply"}
  /\ cur \in Record \cup {NoRecord}
  /\ pos \in 1..(Len(log) + 1)
  /\ replayed \in Nat
  /\ order \in Seq(Record)
  /\ stale \in 0..Len(log)
  /\ sent \in [Clients -> Nat]
  /\ acked \in SUBSET Op
  /\ misread \in BOOLEAN
  /\ stops \in 0..MaxStops

\* Whenever the engine can answer a caller, its state is the result of exactly
\* the records that reached the disk, in the order they reached it: no crash
\* point of deliver, write_snapshot or import_state makes recovery drop, repeat
\* or reorder one (the oracle reference_apply of lib.rs), as long as no
\* recovery has read past a torn record.
ServesDurableOrder ==
  ~misread => (pc \in {"idle", "reply"} => eng.state = order)

\* The operations a recovery started now would rebuild: the snapshot's, and
\* those of the log up to its first torn record.
Recoverable ==
  Ids(snap.state) \cup
  {log[i].op : i \in {j \in DOMAIN log : \A k \in 1..j : ~log[k].torn}}

\* Only the last record of the log may be torn.
Readable == \A i \in 1..(Len(log) - 1) : ~log[i].torn

\* An operation that deliver answered (with its output, or as a suppressed
\* duplicate) is recoverable from the disk from then on, also from a log with a
\* torn tail; nothing is claimed once a record was written behind a torn one.
AckedRecoverable == ~misread /\ Readable => acked \subseteq Recoverable

\* Every operation deliver answered is part of the state the engine serves, after
\* any number of crashes: what durable.rs and the crash tests promise.
AckedServed == pc = "idle" => acked \subseteq Ids(eng.state)

\* No operation takes effect twice, and each client's operations take effect in
\* the order of their sequence numbers, whatever is replayed or delivered again.
ExactlyOnce ==
  \A i, j \in DOMAIN eng.state :
    i < j /\ eng.state[i].op.client = eng.state[j].op.client
      => eng.state[i].op.seq < eng.state[j].op.seq

\* Timestamps follow the order of effect across restarts: the recovered last_ts,
\* from which the next timestamps are taken, is never behind a durable record.
TimestampsIncrease ==
  ~misread => \A i, j \in DOMAIN order : i < j => order[i].ts <= order[j].ts

\* A recovery replays at most one snapshot interval of records for every time
\* the engine stopped: a stop just before a due snapshot starts the next
\* interval over (replayed % snap_interval), so the log may outgrow an interval.
\* A recovery that reads past a torn record may count records nobody wrote.
ReplayBounded == ~misread => replayed <= Interval * stops

\* Every call of the engine returns or the engine stops, and every recovery
\* ends: the engine is again and again ready for the next call.
EventuallyReady == []<>(pc = "idle")

Service == INSTANCE ExactlyOnceService
             WITH views <- IF pc \in {"idle", "reply"} THEN {eng.state} ELSE {}

\* The engine implements the exactly-once service, with its answers computed
\* from eng.state: across crashes, I/O errors, torn log writes, failed log removals
\* and state transfers, up to the first recovery that reads past a torn record.
ImplementsService == Service!Init /\ [][misread' \/ Service!Next]_(Service!vars)
=============================================================================
