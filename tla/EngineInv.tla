------------------------------ MODULE EngineInv ------------------------------
(***************************************************************************)
(* The inductive invariant behind the engine's safety properties: how the  *)
(* two files, the engine in memory and the durable order are related at    *)
(* every point where the engine can stop.                                  *)
(***************************************************************************)
EXTENDS Engine

\* The high-water marks of e cover its state, whose records are in per-client
\* sequence.
Marked(e) ==
  /\ \A i \in DOMAIN e.state : e.state[i].op.seq <= e.applied[e.state[i].op.client]
  /\ \A i, j \in DOMAIN e.state :
       i < j /\ e.state[i].op.client = e.state[j].op.client
         => e.state[i].op.seq < e.state[j].op.seq

\* The high-water marks of e are sequence numbers of its state.
Attained(e) ==
  \A c \in Clients : e.applied[c] > 0 =>
    \E i \in DOMAIN e.state : /\ e.state[i].op.client = c
                             /\ e.state[i].op.seq = e.applied[c]

\* The timestamps of e's state never fall and last_ts is not behind any.
Stamped(e) ==
  /\ \A i \in DOMAIN e.state : e.state[i].ts <= e.last_ts
  /\ \A i, j \in DOMAIN e.state : i < j => e.state[i].ts <= e.state[j].ts

\* The records of q are whole, and of operations their clients sent.
Sound(q) == \A i \in DOMAIN q : ~q[i].torn /\ q[i].op.seq <= sent[q[i].op.client]

Prefix(p, q) == Len(p) <= Len(q) /\ \A i \in DOMAIN p : p[i] = q[i]

\* The number of complete records of a readable log.
Complete == IF log # << >> /\ log[Len(log)].torn THEN Len(log) - 1 ELSE Len(log)

\* How many of the first n log records are complete and past the stale ones.
Fresh(n) == LET m == IF n > Complete THEN Complete ELSE n
            IN  IF m > stale THEN m - stale ELSE 0

\* The disk: the snapshot is a prefix of the durable order, the complete log
\* records after the stale ones are the rest of it, and the stale ones are
\* suppressed by the snapshot's marks.
DiskInv ==
  /\ Prefix(snap.state, order)
  /\ \A i \in (stale + 1)..Len(log) :
       (\A k \in 1..i : ~log[k].torn) =>
          /\ Len(snap.state) + i - stale <= Len(order)
          /\ order[Len(snap.state) + i - stale] = log[i]
  /\ Readable => Len(order) = Len(snap.state) + Fresh(Len(log))
  /\ \A i \in 1..stale : ~log[i].torn => log[i].op.seq <= snap.applied[log[i].op.client]
  /\ Attained(snap) /\ Stamped(snap)

\* The durable order itself, and the answers given for it.
OrderInv ==
  /\ Sound(order)
  /\ \A i, j \in DOMAIN order :
       i < j => /\ order[i].ts <= order[j].ts
                /\ order[i].op.client = order[j].op.client
                     => order[i].op.seq < order[j].op.seq
  /\ acked \subseteq Ids(order)

\* Recovery: the engine has rebuilt the part of the order that the snapshot and
\* the records before pos hold.
ReplayInv ==
  pc = "replay" =>
    /\ \A k \in 1..(pos - 1) : k < Len(log) => ~log[k].torn
    /\ Prefix(eng.state, order)
    /\ Len(eng.state) = Len(snap.state) + Fresh(pos - 1)
    /\ \A c \in Clients : snap.applied[c] <= eng.applied[c]

\* Service: what the engine in memory has beyond the disk at each step.
ServeInv ==
  /\ pc \in {"idle", "reply"} => eng.state = order
  /\ pc = "append" => /\ ~cur.torn
                      /\ eng.state = Append(order, cur)
                      /\ cur.op.seq = eng.applied[cur.op.client]
  /\ pc = "rename" => Prefix(order, eng.state)
  /\ pc = "rename" /\ cur # NoRecord => eng.state = order
  /\ pc = "remove" => eng = snap /\ order = snap.state /\ stale = Len(log)
  /\ pc = "reply" /\ cur # NoRecord => cur.op \in Ids(order)
  /\ pc \in {"rename", "remove"} /\ cur # NoRecord => cur.op \in Ids(eng.state)
  /\ pc # "down" =>
       /\ \A i \in DOMAIN log :
            i < pos \/ pc # "replay" =>
              (~log[i].torn => log[i].op.seq <= eng.applied[log[i].op.client])
       /\ Attained(eng) /\ Stamped(eng) /\ Sound(eng.state)

\* pos is only in use during recovery, cur only during a delivery, and an append
\* has its record.
ControlInv ==
  /\ pc # "replay" => pos = 1
  /\ pc \in {"down", "replay", "idle"} => cur = NoRecord
  /\ pc = "append" => cur \in Record

\* As long as no recovery has read past a torn record, disk, order and memory
\* stay related as above; the high-water marks cover the state in any case.
IInv ==
  /\ TypeOK /\ ControlInv
  /\ Marked(eng) /\ Marked(snap)
  /\ ~misread => DiskInv /\ OrderInv /\ ReplayInv /\ ServeInv

\* How far the snapshot is behind: the durable order exceeds it by at most the
\* records counted since and one interval for every stop, which forgot its count.
\* A recovery counts what it has rebuilt beyond the snapshot.
LagInv ==
  /\ ops_since_snap <= Interval
  /\ pc \in {"idle", "append", "reply"} => ops_since_snap < Interval
  /\ pc \in {"down", "replay"} => ops_since_snap = 0
  /\ pc = "down" => replayed = 0
  /\ pc = "replay" => Len(eng.state) = Len(snap.state) + replayed
  /\ Len(order) <= Len(snap.state) + Interval * stops + ops_since_snap
  /\ replayed <= Interval * stops

\* The inductive invariant with the bound on what a recovery replays: what disk,
\* memory and the counters of lib.rs hold at every point where the engine can stop.
RecoveryInv == IInv /\ (~misread => LagInv)
=============================================================================
