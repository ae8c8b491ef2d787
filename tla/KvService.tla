------------------------------- MODULE KvService -------------------------------
(***************************************************************************)
(* The server of crates/onebarrier/src/server.rs: KvService, whose single  *)
(* executor thread owns the engine and takes jobs from a queue, the accept *)
(* loop, and the connection threads that run a front end.                  *)
(*                                                                         *)
(* The engine appears as its abstract service (ExactlyOnceService, which   *)
(* module Engine implements): a delivery takes effect durably and at once, *)
(* and a crash loses no effect.  When deliver fails, its effect may or may *)
(* not be durable, and the executor thread ends.                           *)
(***************************************************************************)
EXTENDS FrontEnds

CONSTANTS MaxConn,    \* bound: highest connection id
          MaxStops,   \* bound: crashes, stops and accept errors
          Scenarios   \* front ends with their bounds on commands and engine errors

ASSUME BoundsAssumption == MaxConn \in Nat /\ MaxStops \in Nat

ASSUME ScenariosAssumption ==
  \A s \in Scenarios : /\ s.proto \in {"resp", "http", "memcache", "txn", "stream"}
                       /\ s.cmds \in Nat /\ s.fails \in Nat

Conns == 1..MaxConn

VARIABLES
  proto,              \* the server's front end
  limit,              \* bounds of this behaviour: commands and engine errors
  store, marks, last_ts, \* the engine: its state, applied and last_ts
  clock, GLOBAL_TICK,
  up,                 \* whether the server has been started
  exec,               \* the executor thread: "running" or "gone"
  queue,              \* connections whose job waits for the executor
  shutdown, accept,   \* the flag, and the accept thread
  conn_id,            \* the next connection's id
  conn,               \* the connection threads
  hist,               \* history: the operations that took effect
  done,               \* history: commands and their replies
  answered,           \* history: operations the executor answered
  cmds, stops, fails

engine == <<store, marks, last_ts, hist>>
server == <<up, shutdown, accept, conn_id>>
bounds == <<cmds, stops, fails>>
fixed == <<proto, limit>>
vars == <<fixed, engine, clock, GLOBAL_TICK, server, exec, queue, conn, done, answered,
          bounds>>

NoConn == [pc |-> "none", seq |-> 0, cmd |-> Command("none", NoKey), val |-> Text(0),
           ops |-> << >>, outs |-> << >>, buf |-> << >>, in_txn |-> FALSE, due |-> {}]

Init ==
  /\ \E s \in Scenarios : proto = s.proto /\ limit = [cmds |-> s.cmds, fails |-> s.fails]
  /\ store = EmptyMap
  /\ marks = [c \in Conns |-> 0]
  /\ last_ts = 0
  /\ hist = << >>
  /\ clock = 0 /\ GLOBAL_TICK = 1
  /\ up = FALSE /\ shutdown = FALSE /\ accept = "over" /\ conn_id = 0
  /\ exec = "gone"
  /\ queue = << >>
  /\ conn = [c \in Conns |-> NoConn]
  /\ done = {} /\ answered = {}
  /\ cmds = 0 /\ stops = 0 /\ fails = 0

-----------------------------------------------------------------------------
(* start and KvService::start *)

\* Engine::max_client
MaxClient == CHOOSE n \in 0..MaxConn : /\ n = 0 \/ marks[n] > 0
                                       /\ \A c \in Conns : marks[c] > 0 => c <= n

\* Mutants: connection ids start over after a restart, or skip one.
FirstConnFixed == 1

FirstConnSkips == MaxClient + 2

FirstConn == MaxClient + 1

\* Mutant: the clock starts over after a restart.
FirstClockFixed == 0

FirstClock == last_ts + 1

Start ==
  /\ ~up
  /\ up' = TRUE /\ shutdown' = FALSE /\ accept' = "running"
  /\ exec' = "running"
  /\ conn_id' = FirstConn
  /\ clock' = FirstClock
  /\ UNCHANGED <<fixed, engine, GLOBAL_TICK, queue, conn, done, answered, bounds>>

\* The engine cannot be recovered: the executor thread ends before it reports a
\* client id, and the server starts without it.
StartWithoutExecutor ==
  /\ ~up
  /\ fails < limit.fails /\ fails' = fails + 1
  /\ up' = TRUE /\ shutdown' = FALSE /\ accept' = "running"
  /\ conn_id' = 1
  /\ UNCHANGED <<fixed, engine, clock, GLOBAL_TICK, exec, queue, conn, done, answered,
                 cmds, stops>>

-----------------------------------------------------------------------------
(* The executor thread *)

Waiting(c) == conn[c].pc = "busy" /\ Len(conn[c].outs) < Len(conn[c].ops)

Job == LET c == Head(queue) IN conn[c].ops[Len(conn[c].ops)]

Answer(c, out) == [conn EXCEPT ![c].outs = Append(@, out)]

Tick ==
  /\ clock' = clock + 1
  /\ GLOBAL_TICK' = GLOBAL_TICK + 1

Timestamp == IF clock + 1 > GLOBAL_TICK THEN clock + 1 ELSE GLOBAL_TICK

Fresh(op) == op.seq > marks[op.client]

\* Engine::deliver of a new operation, in effect and durable
TakeEffect(op) ==
  /\ store' = Apply(store, op.kind).map
  /\ marks' = [marks EXCEPT ![op.client] = op.seq]
  /\ last_ts' = Timestamp
  /\ hist' = Append(hist, [op |-> op, ts |-> Timestamp])

ExecuteLen ==
  /\ exec = "running" /\ queue # << >> /\ Job.kind.tag = "Len"
  /\ queue' = Tail(queue)
  /\ conn' = Answer(Head(queue), Value(Cardinality(DOMAIN store)))
  /\ UNCHANGED <<fixed, engine, clock, GLOBAL_TICK, server, exec, done, answered, bounds>>

ExecuteFresh ==
  /\ exec = "running" /\ queue # << >> /\ Job.kind.tag # "Len"
  /\ Fresh(Job)
  /\ Tick
  /\ TakeEffect(Job)
  /\ queue' = Tail(queue)
  /\ conn' = Answer(Head(queue), Apply(store, Job.kind).out)
  /\ answered' = answered \cup {Job}
  /\ UNCHANGED <<fixed, server, exec, done, bounds>>

ExecuteDuplicate ==
  /\ exec = "running" /\ queue # << >> /\ Job.kind.tag # "Len"
  /\ ~Fresh(Job)
  /\ Tick
  /\ queue' = Tail(queue)
  /\ conn' = Answer(Head(queue), Suppressed)
  /\ answered' = answered \cup {Job}
  /\ UNCHANGED <<fixed, engine, server, exec, done, bounds>>

\* Mutant: the callers' reply channels outlive the executor.
DropQueueLeaking ==
  /\ exec' = "gone"
  /\ queue' = << >>
  /\ UNCHANGED conn

\* The receiver is dropped with the executor: every caller gets None.
DropQueue ==
  /\ exec' = "gone"
  /\ queue' = << >>
  /\ conn' = [c \in Conns |->
                IF Waiting(c) THEN [conn[c] EXCEPT !.outs = Append(@, None)] ELSE conn[c]]

\* deliver(ts, &op)? returns an error, with or without a durable effect.
ExecuteFails ==
  /\ exec = "running" /\ queue # << >> /\ Job.kind.tag # "Len"
  /\ Fresh(Job)
  /\ fails < limit.fails /\ fails' = fails + 1
  /\ Tick
  /\ TakeEffect(Job) \/ UNCHANGED engine
  /\ DropQueue
  /\ UNCHANGED <<fixed, server, done, answered, cmds, stops>>

Live(c) == conn[c].pc \in {"read", "busy"}

\* rx.recv() fails once the accept thread and all connections dropped their
\* senders.
ExecutorEnds ==
  /\ exec = "running"
  /\ accept = "over" /\ \A c \in Conns : ~Live(c)
  /\ exec' = "gone"
  /\ UNCHANGED <<fixed, engine, clock, GLOBAL_TICK, server, queue, conn, done, answered,
                 bounds>>

-----------------------------------------------------------------------------
(* The accept thread *)

Accept ==
  /\ accept = "running" /\ ~shutdown
  /\ conn_id <= MaxConn
  /\ conn' = [conn EXCEPT ![conn_id] = [NoConn EXCEPT !.pc = "read"]]
  /\ conn_id' = conn_id + 1
  /\ UNCHANGED <<fixed, engine, clock, GLOBAL_TICK, up, shutdown, accept, exec, queue,
                 done, answered, bounds>>

\* The loop breaks when it sees the flag.
AcceptBreaks ==
  /\ accept = "running" /\ shutdown
  /\ accept' = "joining"
  /\ UNCHANGED <<fixed, engine, clock, GLOBAL_TICK, up, shutdown, conn_id, exec, queue,
                 conn, done, answered, bounds>>

\* The loop breaks on an error of accept other than WouldBlock.
AcceptFails ==
  /\ accept = "running"
  /\ stops < MaxStops /\ stops' = stops + 1
  /\ accept' = "joining"
  /\ UNCHANGED <<fixed, engine, clock, GLOBAL_TICK, up, shutdown, conn_id, exec, queue,
                 conn, done, answered, cmds, fails>>

\* Mutant: the accept thread also waits for the executor.
AcceptEndsLast ==
  /\ accept = "joining" /\ \A c \in Conns : ~Live(c)
  /\ exec = "gone"
  /\ accept' = "over"
  /\ UNCHANGED <<fixed, engine, clock, GLOBAL_TICK, up, shutdown, conn_id, exec, queue,
                 conn, done, answered, bounds>>

\* The connection threads are joined, and the thread's sender is dropped.
AcceptEnds ==
  /\ accept = "joining" /\ \A c \in Conns : ~Live(c)
  /\ accept' = "over"
  /\ UNCHANGED <<fixed, engine, clock, GLOBAL_TICK, up, shutdown, conn_id, exec, queue,
                 conn, done, answered, bounds>>

-----------------------------------------------------------------------------
(* ServerHandle::stop, and a crash of the process *)

Stop ==
  /\ up /\ ~shutdown
  /\ stops < MaxStops /\ stops' = stops + 1
  /\ shutdown' = TRUE
  /\ UNCHANGED <<fixed, engine, clock, GLOBAL_TICK, up, accept, conn_id, exec, queue,
                 conn, done, answered, cmds, fails>>

\* stop returns when both threads are joined; the handle is gone.
StopReturns ==
  /\ up /\ shutdown /\ accept = "over" /\ exec = "gone"
  /\ up' = FALSE
  /\ conn' = [c \in Conns |-> NoConn]
  /\ UNCHANGED <<fixed, engine, clock, GLOBAL_TICK, shutdown, accept, conn_id, exec,
                 queue, done, answered, bounds>>

Crash ==
  /\ up
  /\ stops < MaxStops /\ stops' = stops + 1
  /\ up' = FALSE /\ shutdown' = FALSE /\ accept' = "over" /\ conn_id' = 0
  /\ exec' = "gone" /\ queue' = << >> /\ conn' = [c \in Conns |-> NoConn]
  /\ clock' = 0 /\ GLOBAL_TICK' = 1
  /\ UNCHANGED <<fixed, engine, done, answered, cmds, fails>>
-----------------------------------------------------------------------------
(* A connection thread: serve_conn *)

Commands ==
  CASE proto = "resp" -> RespCommands
    [] proto = "http" -> HttpCommands
    [] proto = "memcache" -> MemcacheCommands
    [] proto = "txn" -> TxnCommands
    [] proto = "stream" -> StreamCommands

StepOf(cmd, outs, val, buf, in_txn) ==
  CASE proto = "resp" -> RespStep(cmd, outs, val)
    [] proto = "http" -> HttpStep(cmd, outs, val)
    [] proto = "memcache" -> MemcacheStep(cmd, outs, val)
    [] proto = "txn" -> TxnStep(cmd, outs, val, buf, in_txn)
    [] proto = "stream" -> StreamStep(cmd, outs, val)

\* RESP and HTTP count commands, the others count operations.
SeqPerCommand == proto \in {"resp", "http"}

\* Mutant: every front end counts commands.
NextSeqPerCommand(seq, first, asks) == IF first THEN seq + 1 ELSE seq

NextSeq(seq, first, asks) ==
  IF SeqPerCommand THEN (IF first THEN seq + 1 ELSE seq)
                   ELSE (IF asks THEN seq + 1 ELSE seq)

\* KvService::apply: the job is queued, or refused when the receiver is gone.
Request(c, k, seq, kind) ==
  LET op == [client |-> c, seq |-> seq, kind |-> kind]
      busy == [k EXCEPT !.pc = "busy", !.seq = seq, !.ops = Append(@, op)]
  IN  IF exec = "running"
        THEN queue' = Append(queue, c) /\ conn' = [conn EXCEPT ![c] = busy]
        ELSE /\ UNCHANGED queue
             /\ conn' = [conn EXCEPT ![c] = [busy EXCEPT !.outs = Append(@, None)]]

\* The reply is written to the client, which then is ready for the next command;
\* or the connection is broken and the thread ends.
Respond(c, k, seq, r) ==
  /\ UNCHANGED queue
  /\ \/ /\ done' = done \cup {[client |-> c, cmd |-> k.cmd, val |-> k.val, ops |-> k.ops,
                              outs |-> k.outs, ok |-> r.ok, reply |-> r.val, due |-> k.due]}
        /\ conn' = [conn EXCEPT ![c] =
             [NoConn EXCEPT !.pc = "read", !.seq = seq,
                !.buf = IF proto = "txn" THEN TxnBuffer(k.cmd, k.val, k.buf, k.in_txn)
                                         ELSE << >>,
                !.in_txn = proto = "txn" /\ TxnOpen(k.cmd, k.in_txn)]]
     \/ /\ conn' = [conn EXCEPT ![c] = [NoConn EXCEPT !.pc = "closed"]]
        /\ UNCHANGED done

Proceed(c, k, first) ==
  LET s == StepOf(k.cmd, k.outs, k.val, k.buf, k.in_txn)
      seq == NextSeq(k.seq, first, s.ask)
  IN  /\ IF s.ask THEN Request(c, k, seq, s.kind) /\ UNCHANGED done
                  ELSE Respond(c, k, seq, s)
      /\ UNCHANGED <<fixed, engine, clock, GLOBAL_TICK, server, exec, answered, stops, fails>>

\* The messages whose publication was acknowledged on a topic.
Published(topic) == {d \in done : d.cmd = Command("PUB", topic) /\ d.ok}

ReadCommand(c, cmd) ==
  /\ conn[c].pc = "read"
  /\ cmds < limit.cmds /\ cmds' = cmds + 1
  /\ Proceed(c, [conn[c] EXCEPT !.cmd = cmd, !.val = Text(cmds + 1),
                   !.due = IF cmd.name = "SUB" THEN {d.reply.n : d \in Published(cmd.key)}
                                               ELSE {}], TRUE)

Continue(c) ==
  /\ conn[c].pc = "busy" /\ ~Waiting(c)
  /\ Proceed(c, conn[c], FALSE)
  /\ UNCHANGED cmds

\* Between two GETs a SUB writes the messages found so far.
Streaming(c) ==
  conn[c].pc = "busy" /\ conn[c].cmd.name = "SUB" /\ ~Waiting(c) /\ Len(conn[c].outs) > 1

\* The client leaves, or a read fails, or a write within a SUB.
Disconnect(c) ==
  /\ conn[c].pc = "read" \/ Streaming(c)
  /\ conn' = [conn EXCEPT ![c] = [NoConn EXCEPT !.pc = "closed"]]
  /\ UNCHANGED <<fixed, engine, clock, GLOBAL_TICK, server, exec, queue, done, answered,
                 bounds>>

\* A read times out; the thread ends only if the server is stopping.
ReadTimeout(c) ==
  /\ conn[c].pc = "read" /\ shutdown
  /\ conn' = [conn EXCEPT ![c] = [NoConn EXCEPT !.pc = "closed"]]
  /\ UNCHANGED <<fixed, engine, clock, GLOBAL_TICK, server, exec, queue, done, answered,
                 bounds>>
-----------------------------------------------------------------------------
Executor == ExecuteLen \/ ExecuteFresh \/ ExecuteDuplicate \/ ExecutorEnds

Acceptor == AcceptBreaks \/ AcceptEnds

Next ==
  \/ Start \/ StartWithoutExecutor
  \/ ExecuteLen \/ ExecuteFresh \/ ExecuteDuplicate \/ ExecuteFails \/ ExecutorEnds
  \/ Accept \/ AcceptBreaks \/ AcceptFails \/ AcceptEnds
  \/ Stop \/ StopReturns \/ Crash
  \/ \E c \in Conns : \/ \E cmd \in Commands : ReadCommand(c, cmd)
                      \/ Continue(c) \/ Disconnect(c) \/ ReadTimeout(c)

Spec == Init /\ [][Next]_vars

\* The threads of the server are scheduled, a read with nothing to read times
\* out, and a client that sent a command does not block the write of its reply.
\* Clients need not send anything, or leave.
FairSpec ==
  /\ Spec
  /\ WF_vars(Executor) /\ WF_vars(Acceptor) /\ WF_vars(StopReturns)
  /\ \A c \in Conns : WF_vars(Continue(c)) /\ WF_vars(ReadTimeout(c))
-----------------------------------------------------------------------------
(* Properties *)

\* Every variable keeps its type; a queued connection waits for its answer.
TypeOK ==
  /\ \E s \in Scenarios : proto = s.proto /\ limit = [cmds |-> s.cmds, fails |-> s.fails]
  /\ marks \in [Conns -> Nat]
  /\ last_ts \in Nat /\ clock \in Nat /\ GLOBAL_TICK \in Nat
  /\ up \in BOOLEAN /\ shutdown \in BOOLEAN
  /\ accept \in {"running", "joining", "over"}
  /\ exec \in {"running", "gone"}
  /\ conn_id \in 0..(MaxConn + 1)
  /\ \A c \in Conns : /\ conn[c].pc \in {"none", "read", "busy", "closed"}
                      /\ conn[c].seq \in Nat
                      /\ Waiting(c) <=> \E i \in DOMAIN queue : queue[i] = c
  /\ cmds \in 0..limit.cmds /\ stops \in 0..MaxStops /\ fails \in 0..limit.fails

\* An operation is taken for a duplicate only if it repeats an earlier one of its
\* own command (DEL k k): ids given out after a restart are above every recovered
\* one, and sequence numbers are used once (server.rs start, lib.rs max_client).
SuppressesOnlyRepeats ==
  \A c \in Conns : \A i \in DOMAIN conn[c].outs :
    conn[c].outs[i] = Suppressed => \E j \in 1..(i - 1) : conn[c].ops[j] = conn[c].ops[i]

Effective(op) == \E i \in DOMAIN hist : hist[i].op = op

\* A reply that reports a write as done is given only when the write is durable.
AckedWritesDurable ==
  \A d \in done :
    d.ok => \A i \in DOMAIN d.ops : IsWrite(d.ops[i].kind) => Effective(d.ops[i])

\* Timestamps grow strictly over restarts, from a clock that restarts at last_ts
\* and a counter that restarts at 1: what Engine assumes of its caller.
TimestampsStrict ==
  \A i, j \in DOMAIN hist : i < j => hist[i].ts < hist[j].ts

\* An acknowledged publication keeps its offset and its message, whatever other
\* publishers and crashes do between the INCR and the SET of a PUB.
PublicationsKept ==
  fails = 0 =>
    \A d \in done : d.cmd.name = "PUB" /\ d.ok =>
      LET k == Offset(d.cmd.key, d.reply.n)
      IN  k \in DOMAIN store /\ store[k] = d.val

\* A subscriber gets every message whose publication was acknowledged before it
\* asked.
SubscribersComplete ==
  fails = 0 =>
    \A d \in done : d.cmd.name = "SUB" =>
      \A off \in d.due : off + 1 \in DOMAIN d.outs /\ d.outs[off + 1].tag = "Bytes"

\* A value that a connection has queued in an open transaction is in no store (the
\* buffer of txn.rs, until COMMIT).  Of a queued DEL nothing could be seen but that
\* its key is gone, which any connection may have brought about.
TransactionsHidden ==
  \A c \in Conns : \A i \in DOMAIN conn[c].buf :
    LET w == conn[c].buf[i]
    IN  conn[c].pc = "read" /\ ~w.del /\ w.key \in DOMAIN store => store[w.key] # w.val

\* As seen by its connections the server is the exactly-once service: one order
\* that only grows, in which no (client, seq) occurs twice, and answers only
\* for operations of that order.
Service == INSTANCE ExactlyOnceService
             WITH order <- hist, acked <- answered, views <- {}

ImplementsService == Service!Spec

\* Every operation handed to the executor is answered, also if the executor dies.
EventuallyAnswered == \A c \in Conns : Waiting(c) ~> ~Waiting(c)

\* Once the clients send no more commands, stop returns: the connections, the
\* accept thread and the executor end, each waiting for the one before it.
EventuallyStopped == shutdown ~> ~up
=============================================================================
