---------------------------------- MODULE Wire ----------------------------------
(***************************************************************************)
(* One RESP connection from its bytes to the bytes on disk and back:       *)
(* RespProtocol::serve_conn (server.rs) reads commands byte by byte, a     *)
(* read may time out anywhere, a SET is delivered to the engine (lib.rs),  *)
(* which logs it and now and then writes a snapshot, and Engine::recover   *)
(* reads back what a crash, or a power loss without fsync, left.           *)
(* The control of the engine is in module Engine; here are its formats.    *)
(***************************************************************************)
EXTENDS Codec, RespReader

CONSTANTS Inputs,        \* what a client may send: sequences of [text, args]
          Kinds,         \* the kinds of operation another caller may deliver
          snap_interval, \* operations between snapshots
          MaxTimeouts    \* bound: read timeouts

VARIABLES
  cmds,      \* what this client sends
  pos,       \* bytes read
  rd,        \* the reader within read_command
  open,      \* whether the connection thread runs
  seq,       \* sequence number of the connection
  executed,  \* history: the commands dispatched
  broken,    \* history: read_command was left in the middle of a command
  timeouts,
  eng,       \* the engine's state, applied and last_ts
  log, snap, \* the two files
  base, recs, \* history: the engine at the snapshot, the operations since
  cut,       \* history: the bytes of the log or snapshot that survived
  pc         \* "up", "down" or "recovered"

conn == <<pos, rd, open, seq, executed, broken, timeouts>>
disk == <<eng, log, snap, base, recs>>
vars == <<cmds, conn, disk, cut, pc>>

Text == FoldLeft(LAMBDA o, c : o \o c.text, << >>, cmds)

\* The connection, and another caller of KvService::apply.
Client == 1
Other == 2

Init ==
  /\ cmds \in Inputs
  /\ pos = 0 /\ rd = Fresh /\ open = TRUE /\ seq = 0
  /\ executed = << >> /\ broken = FALSE /\ timeouts = 0
  /\ eng = EmptyEngine /\ log = << >> /\ snap = << >>
  /\ base = EmptyEngine /\ recs = << >>
  /\ cut = "none" /\ pc = "up"

-----------------------------------------------------------------------------
(* Engine::deliver, the only client's clock giving the timestamp           *)

Without(f, x) == [z \in DOMAIN f \ {x} |-> f[z]]

Parse(v) == IF Len(v) = 1 THEN v[1] ELSE 0

\* KvStore::apply; a number is one byte.
ApplyKind(m, kind) ==
  CASE kind.tag = 0 -> With(m, kind.key, kind.val)
    [] kind.tag = 1 -> With(m, kind.key,
                            <<(IF kind.key \in DOMAIN m THEN Parse(m[kind.key]) ELSE 0) + kind.by>>)
    [] kind.tag = 2 -> m
    [] kind.tag = 3 -> Without(m, kind.key)
    [] kind.tag = 4 ->
         FoldLeft(LAMBDA x, w : IF w.del THEN Without(x, w.key) ELSE With(x, w.key, w.val),
                  m, kind.writes)

ApplyOp(e, op, ts) ==
  [state |-> ApplyKind(e.state, op.kind),
   applied |-> With(e.applied, op.client, op.seq),
   last_ts |-> ts]

Deliver(op) ==
  LET ts == eng.last_ts + 1
      e == ApplyOp(eng, op, ts)
  IN  /\ eng' = e
      /\ IF Len(recs) + 1 >= snap_interval
           THEN snap' = encode_snapshot(e) /\ log' = << >> /\ base' = e /\ recs' = << >>
           ELSE /\ log' = log \o Record(ts, encode(op))
                /\ recs' = Append(recs, op)
                /\ UNCHANGED <<snap, base>>

DeliverOther ==
  /\ pc = "up" /\ Other \notin DOMAIN eng.applied
  /\ \E kind \in Kinds : Deliver([client |-> Other, seq |-> 1, kind |-> kind])
  /\ UNCHANGED <<cmds, conn, cut, pc>>

\* resp_dispatch: SET reaches the engine, the other commands here do not.
Dispatch(args) ==
  IF args[1] = <<SET>> /\ Len(args) >= 3
    THEN Deliver([client |-> Client, seq |-> seq + 1,
                  kind |-> [tag |-> 0, key |-> args[2], val |-> args[3]]])
    ELSE UNCHANGED disk

\* What serve_conn does with what read_command returned.
Serve(res) ==
  CASE res.tag = "more" -> rd' = res.rd /\ UNCHANGED <<open, seq, executed, disk>>
    [] res.tag = "command" ->
         /\ rd' = Fresh
         /\ UNCHANGED open
         /\ IF res.args = << >>
              THEN UNCHANGED <<seq, executed, disk>>
              ELSE /\ seq' = seq + 1
                   /\ executed' = Append(executed, res.args)
                   /\ Dispatch(res.args)
    [] res.tag \in {"error", "end"} ->
         rd' = Fresh /\ open' = FALSE /\ UNCHANGED <<seq, executed, disk>>

Read ==
  /\ pc = "up" /\ open /\ pos < Len(Text)
  /\ pos' = pos + 1
  /\ Serve(Feed(rd, Text[pos + 1]))
  /\ UNCHANGED <<cmds, broken, timeouts, cut, pc>>

\* The client is gone, and with it the rest of its input.
EndOfInput ==
  /\ pc = "up" /\ open
  /\ pos' = Len(Text)
  /\ Serve(AtEnd(rd))
  /\ broken' = (broken \/ (rd.mode = "line" /\ rd.buf # << >> /\ rd.buf[1] # Star))
  /\ UNCHANGED <<cmds, timeouts, cut, pc>>

\* No byte for 500 ms: read_command is called afresh.
ReadTimeout ==
  /\ pc = "up" /\ open
  /\ timeouts < MaxTimeouts /\ timeouts' = timeouts + 1
  /\ rd' = Fresh
  /\ broken' = (broken \/ rd # Fresh)
  /\ UNCHANGED <<cmds, pos, open, seq, executed, disk, cut, pc>>

-----------------------------------------------------------------------------
(* The process ends, and what it had not synced may be cut short *)

Gone == /\ pos' = 0 /\ rd' = Fresh /\ open' = FALSE /\ seq' = 0
        /\ executed' = << >> /\ broken' = FALSE /\ timeouts' = 0 /\ cmds' = << >>

Kill ==
  /\ pc = "up" /\ pc' = "down"
  /\ Gone
  /\ UNCHANGED <<disk, cut>>

LoseLog ==
  /\ pc = "up" /\ pc' = "down"
  /\ Gone
  /\ \E n \in 0..(Len(log) - 1) : log' = SubSeq(log, 1, n)
  /\ cut' = "log"
  /\ UNCHANGED <<eng, snap, base, recs>>

LoseSnapshot ==
  /\ pc = "up" /\ pc' = "down"
  /\ Gone
  /\ \E n \in 0..(Len(snap) - 1) : snap' = SubSeq(snap, 1, n)
  /\ cut' = "snapshot"
  /\ UNCHANGED <<eng, log, base, recs>>

\* One record of the log; one that does not decode is skipped, and a suppressed
\* one leaves the engine as it is.
ReplayOp(e, op, ts) ==
  LET mark == IF op.client \in DOMAIN e.applied THEN e.applied[op.client] ELSE 0
  IN  IF op = NoOp THEN e
      ELSE IF op.seq <= mark THEN e
      ELSE ApplyOp(e, op, IF ts > e.last_ts THEN ts ELSE e.last_ts)

Replay(e, r) == ReplayOp(e, decode(r.bytes), r.ts)

\* Engine::recover
Recover ==
  /\ pc = "down" /\ pc' = "recovered"
  /\ eng' = FoldLeft(Replay, load_snapshot(EmptyEngine, snap), read_log(log))
  /\ UNCHANGED <<cmds, conn, log, snap, base, recs, cut>>

Over == pc = "recovered" /\ UNCHANGED vars

Next ==
  \/ Read \/ EndOfInput \/ ReadTimeout \/ DeliverOther
  \/ Kill \/ LoseLog \/ LoseSnapshot \/ Recover \/ Over

Spec == Init /\ [][Next]_vars
-----------------------------------------------------------------------------
Sent == [i \in DOMAIN cmds |-> cmds[i].args]

NotEmpty(s) == SelectSeq(s, LAMBDA a : a # << >>)

\* What is executed is an initial part of what the client sent, argument by
\* argument, wherever input pauses or ends; unless it pauses within a command or
\* ends within an inline one (read_command, called afresh after a timeout).
ExecutesWhatWasSent == ~broken => IsPrefix(executed, NotEmpty(Sent))

FitsKey(k) == Len(k) < Base^2

Fits(op) == IF op.kind.tag = 4 THEN \A i \in DOMAIN op.kind.writes : FitsKey(op.kind.writes[i].key)
                               ELSE FitsKey(op.kind.key)

\* The operations whose records lie wholly in the log.
Whole ==
  CHOOSE n \in 0..Len(recs) :
    LET size(m) == FoldLeft(LAMBDA o, op : o + Len(Record(0, encode(op))), 0, SubSeq(recs, 1, m))
    IN  size(n) <= Len(log) /\ (n < Len(recs) => size(n + 1) > Len(log))

\* The engine as it was when it had taken the first n operations after base.
After(e, n) == FoldLeft(LAMBDA x, op : ApplyOp(x, op, x.last_ts + 1), e, SubSeq(recs, 1, n))

\* The snapshot ends in the last three bytes of a high-water mark.
WithinMark == /\ Len(snap) \in 12..(12 + 12 * Cardinality(DOMAIN base.applied))
              /\ Len(snap) % 12 \in 9..11

\* Every key that recovery is to read back fits its length field.
KeysFit == /\ \A i \in DOMAIN recs : Fits(recs[i])
           /\ \A k \in DOMAIN base.state : FitsKey(k)

\* Recovery restores the engine as it was after the last record that is wholly in
\* the log, wherever the log was cut; from the operations of the log alone if the
\* snapshot was cut short (encode, decode, read_log, encode_snapshot,
\* load_snapshot).  It supposes keys that fit the two bytes of their length.  A
\* snapshot cut within the last bytes of a mark, by a power loss without fsync, is
\* left out: load_snapshot may take it for a complete one.
RecoversWholeRecords ==
  pc = "recovered" /\ KeysFit =>
    /\ cut # "snapshot" => eng = After(base, Whole)
    /\ cut = "snapshot" /\ ~WithinMark =>
         eng = IF recs = << >> THEN EmptyEngine
               ELSE After([EmptyEngine EXCEPT !.last_ts = base.last_ts], Len(recs))

\* A server that was killed recovers the state it had: every write that took
\* effect is in the log or in the snapshot and is read back, whatever its key
\* (server.rs: writes are durable and the service recovers on restart).
KilledRecovers == pc = "recovered" /\ cut = "none" => eng = After(base, Len(recs))
=============================================================================
