---------------------------- MODULE KvServiceProofs ----------------------------
(***************************************************************************)
(* Proofs about the server, for any number of connections, commands, stops *)
(* and engine errors: the timestamps the executor gives out grow strictly  *)
(* over restarts; and what a step of the executor or of a connection does, *)
(* in terms of the invariant OnceInv of module KvServiceOnceProofs.        *)
(***************************************************************************)
EXTENDS KvService, TLAPS

-----------------------------------------------------------------------------
(* Timestamps *)

\* The next timestamp of a running executor is above all that the engine has seen.
ClockAhead == exec = "running" => Timestamp > last_ts

ClockTyped == clock \in Nat /\ GLOBAL_TICK \in Nat /\ last_ts \in Nat

\* The engine's last_ts is at least every timestamp of an operation in effect.
HistBelow ==
  /\ \E S : hist \in Seq(S)
  /\ \A i \in DOMAIN hist : hist[i].ts \in Nat /\ hist[i].ts <= last_ts

TInv == ClockTyped /\ ClockAhead /\ HistBelow /\ TimestampsStrict

\* What Append makes of a sequence.
LEMMA AppendFields ==
  ASSUME NEW S, NEW s \in Seq(S), NEW e
  PROVE  /\ Append(s, e) \in Seq(S \cup {e})
         /\ Len(s) \in Nat /\ DOMAIN s = 1..Len(s)
         /\ DOMAIN Append(s, e) = 1..(Len(s) + 1)
         /\ \A i \in 1..Len(s) : Append(s, e)[i] = s[i]
         /\ Append(s, e)[Len(s) + 1] = e
<1>1. s \in Seq(S \cup {e}) /\ e \in S \cup {e}
  OBVIOUS
<1> QED
  BY <1>1

\* The initial state: no operation is in effect.
LEMMA InitTInv == Init => TInv
BY DEF Init, TInv, ClockTyped, ClockAhead, HistBelow, TimestampsStrict

\* Steps that leave the engine alone and keep a running clock ahead.
LEMMA EngineUnchanged ==
  ASSUME TInv, UNCHANGED <<hist, last_ts>>, ClockTyped', ClockAhead'
  PROVE  TInv'
BY Zenon DEF TInv, HistBelow, TimestampsStrict

\* A delivery takes effect with the executor's next timestamp.
LEMMA TakeEffectTInv ==
  ASSUME TInv, NEW op, exec = "running", Tick, TakeEffect(op)
  PROVE  TInv'
<1>1. /\ clock \in Nat /\ GLOBAL_TICK \in Nat /\ last_ts \in Nat
      /\ Timestamp \in Nat /\ Timestamp > last_ts
  BY DEF TInv, ClockTyped, ClockAhead, Timestamp
<1>2. /\ last_ts' = Timestamp
      /\ hist' = Append(hist, [op |-> op, ts |-> Timestamp])
      /\ clock' = clock + 1 /\ GLOBAL_TICK' = GLOBAL_TICK + 1
  BY Zenon DEF TakeEffect, Tick
<1> DEFINE e == [op |-> op, ts |-> Timestamp]
<1>3. e.ts = Timestamp
  BY Zenon
<1> HIDE DEF e
<1>4. PICK S : hist \in Seq(S)
  BY Zenon DEF TInv, HistBelow
<1>5. /\ hist' \in Seq(S \cup {e})
      /\ Len(hist) \in Nat /\ DOMAIN hist = 1..Len(hist)
      /\ DOMAIN hist' = 1..(Len(hist) + 1)
      /\ \A i \in 1..Len(hist) : hist'[i] = hist[i]
      /\ hist'[Len(hist) + 1] = e
  BY <1>2, <1>4, AppendFields DEF e
<1>6. ClockTyped' /\ ClockAhead'
  BY <1>1, <1>2 DEF ClockTyped, ClockAhead, Timestamp
<1>7. \A i \in 1..Len(hist) : hist'[i].ts \in Nat /\ hist'[i].ts <= last_ts
  BY <1>5, Zenon DEF TInv, HistBelow
<1>8. HistBelow'
  <2>1. \A i \in DOMAIN hist' : hist'[i].ts \in Nat /\ hist'[i].ts <= last_ts'
    BY <1>1, <1>2, <1>3, <1>5, <1>7
  <2> QED
    BY <1>5, <2>1, Zenon DEF HistBelow
<1>9. TimestampsStrict'
  <2> SUFFICES ASSUME NEW i \in DOMAIN hist', NEW j \in DOMAIN hist', i < j
               PROVE  hist'[i].ts < hist'[j].ts
    BY Zenon DEF TimestampsStrict
  <2>1. i \in 1..Len(hist)
    BY <1>5
  <2>2. CASE j = Len(hist) + 1
    BY <1>1, <1>3, <1>5, <1>7, <2>1, <2>2
  <2>3. CASE j \in 1..Len(hist)
    BY <1>5, <2>1, <2>3, Zenon DEF TInv, TimestampsStrict
  <2> QED
    BY <1>5, <2>2, <2>3
<1> QED
  BY <1>6, <1>8, <1>9, Zenon DEF TInv

\* What a connection thread does with a command leaves the engine and its clock alone.
LEMMA ProceedKeeps ==
  ASSUME NEW c, NEW k, NEW first, Proceed(c, k, first)
  PROVE  UNCHANGED <<engine, clock, GLOBAL_TICK, exec>>
  BY Zenon DEF Proceed

\* Every step of the server keeps the invariant.
LEMMA NextTInv == TInv /\ [Next]_vars => TInv'
<1> SUFFICES ASSUME TInv, [Next]_vars PROVE TInv'
  BY Zenon
<1> USE DEF engine, server, bounds, fixed
<1>1. CASE UNCHANGED <<hist, last_ts, clock, GLOBAL_TICK, exec>>
  BY <1>1, EngineUnchanged, Zenon DEF TInv, ClockTyped, ClockAhead, Timestamp
<1>2. CASE Start
  <2>1. UNCHANGED <<hist, last_ts, GLOBAL_TICK>> /\ clock' = last_ts + 1
    BY <1>2, Zenon DEF Start, FirstClock
  <2>2. ClockTyped' /\ ClockAhead'
    BY <2>1 DEF TInv, ClockTyped, ClockAhead, Timestamp
  <2> QED
    BY <2>1, <2>2, EngineUnchanged, Zenon
<1>3. CASE ExecuteFresh
  BY <1>3, TakeEffectTInv, Zenon DEF ExecuteFresh
<1>4. CASE ExecuteDuplicate
  <2>1. UNCHANGED <<hist, last_ts, exec>> /\ Tick
    BY <1>4, Zenon DEF ExecuteDuplicate
  <2>2. ClockTyped' /\ ClockAhead'
    BY <2>1 DEF TInv, ClockTyped, ClockAhead, Timestamp, Tick
  <2> QED
    BY <2>1, <2>2, EngineUnchanged, Zenon
<1>5. CASE ExecuteFails
  <2>1. exec = "running" /\ exec' = "gone" /\ Tick
    BY <1>5, Zenon DEF ExecuteFails, DropQueue
  <2>2. CASE UNCHANGED engine
    <3>1. ClockTyped' /\ ClockAhead'
      BY <2>1, <2>2 DEF TInv, ClockTyped, ClockAhead, Tick
    <3> QED
      BY <2>2, <3>1, EngineUnchanged, Zenon
  <2>3. CASE TakeEffect(Job)
    BY <2>1, <2>3, TakeEffectTInv, Zenon
  <2> QED
    BY <1>5, <2>2, <2>3, Zenon DEF ExecuteFails
<1>6. CASE ExecutorEnds \/ Crash
  <2>1. UNCHANGED <<hist, last_ts>> /\ exec' = "gone"
    BY <1>6, Zenon DEF ExecutorEnds, Crash
  <2>2. ClockTyped'
    BY <1>6 DEF ExecutorEnds, Crash, TInv, ClockTyped
  <2> QED
    BY <2>1, <2>2, EngineUnchanged, Zenon DEF ClockAhead
<1>7. CASE \E c \in Conns : \/ \E cmd \in Commands : ReadCommand(c, cmd)
                            \/ Continue(c) \/ Disconnect(c) \/ ReadTimeout(c)
  <2>1. PICK c \in Conns : \/ \E cmd \in Commands : ReadCommand(c, cmd)
                           \/ Continue(c) \/ Disconnect(c) \/ ReadTimeout(c)
    BY <1>7, Zenon
  <2>2. CASE Disconnect(c) \/ ReadTimeout(c)
    BY <1>1, <2>2, Zenon DEF Disconnect, ReadTimeout
  <2>3. CASE Continue(c)
    BY <1>1, <2>3, ProceedKeeps, Zenon DEF Continue
  <2>4. CASE \E cmd \in Commands : ReadCommand(c, cmd)
    BY <1>1, <2>4, ProceedKeeps, Zenon DEF ReadCommand
  <2> QED
    BY <2>1, <2>2, <2>3, <2>4, Zenon
<1>8. CASE StartWithoutExecutor \/ ExecuteLen
  BY <1>1, <1>8, Zenon DEF StartWithoutExecutor, ExecuteLen
<1>9. CASE Accept \/ AcceptBreaks \/ AcceptFails \/ AcceptEnds \/ Stop \/ StopReturns
  BY <1>1, <1>9, Zenon DEF Accept, AcceptBreaks, AcceptFails, AcceptEnds, Stop, StopReturns
<1>10. CASE UNCHANGED vars
  BY <1>1, <1>10, Zenon DEF vars
<1> QED
  BY <1>2, <1>3, <1>4, <1>5, <1>6, <1>7, <1>8, <1>9, <1>10, Zenon DEF Next

\* The timestamps of the operations in effect grow strictly, whatever connections,
\* crashes, stops and engine errors a behaviour has: KvService::start begins its
\* clock above the recovered last_ts, and each job advances it.
THEOREM TimestampsGrow == Spec => []TimestampsStrict
<1>1. TInv => TimestampsStrict
  BY Zenon DEF TInv
<1> QED
  BY <1>1, InitTInv, NextTInv, PTL DEF Spec

-----------------------------------------------------------------------------
(* Connections, the queue, and the engine's sequence numbers *)

\* A sequence, of its own elements.
IsSeq(s) == s \in Seq({s[i] : i \in DOMAIN s})

Ops(c) == conn[c].ops

Outs(c) == conn[c].outs

\* The command of a connection thread, and the outputs it has received.
Busy(c) == conn[c].pc = "busy"

NextStep(c) ==
  StepOf(conn[c].cmd, conn[c].outs, conn[c].val, conn[c].buf, conn[c].in_txn)

\* A connection thread, by its fields: it has at most one job without an answer.
Threaded(c) ==
  /\ conn[c] = [pc |-> conn[c].pc, seq |-> conn[c].seq, cmd |-> conn[c].cmd,
                val |-> conn[c].val, ops |-> conn[c].ops, outs |-> conn[c].outs,
                buf |-> conn[c].buf, in_txn |-> conn[c].in_txn, due |-> conn[c].due]
  /\ conn[c].pc \in {"none", "read", "busy", "closed"}
  /\ conn[c].seq \in Nat
  /\ IsSeq(Ops(c)) /\ IsSeq(Outs(c))
  /\ ~Busy(c) => Ops(c) = << >> /\ Outs(c) = << >>
  /\ Busy(c) => /\ conn[c].cmd \in Commands
                /\ Len(Ops(c)) > 0
                /\ Len(Outs(c)) <= Len(Ops(c)) /\ Len(Ops(c)) <= Len(Outs(c)) + 1

Tags == {"Set", "Incr", "Del", "Get", "Txn", "Len"}

\* The sequence numbers of a command's operations: RESP and HTTP use one for all
\* of them, the others a new one for each.
Numbered(c) ==
  \A i \in DOMAIN Ops(c) :
    /\ Ops(c)[i] = [client |-> c, seq |-> Ops(c)[i].seq, kind |-> Ops(c)[i].kind]
    /\ Ops(c)[i].seq \in Nat /\ Ops(c)[i].kind.tag \in Tags
    /\ IF SeqPerCommand \/ i = Len(Ops(c)) THEN Ops(c)[i].seq = conn[c].seq
                                           ELSE Ops(c)[i].seq < conn[c].seq

\* Of the commands that share a sequence number among operations, DEL alone has
\* more than one: one for each key it names.  DBSIZE asks for the length, and PLAIN
\* for nothing.
Deleting(c) ==
  /\ SeqPerCommand /\ Len(Ops(c)) > 1 => proto = "resp" /\ conn[c].cmd.name = "DEL"
  /\ proto = "resp" /\ conn[c].cmd.name = "DEL" =>
       \A i \in DOMAIN Ops(c) : /\ i \in DOMAIN conn[c].cmd.keys
                                /\ Ops(c)[i].kind = Del(Plain(conn[c].cmd.keys[i]))
  /\ proto = "resp" /\ conn[c].cmd.name \in {"PLAIN", "DBSIZE"} =>
       \A i \in DOMAIN Ops(c) : Ops(c)[i].kind.tag = "Len"

\* A waiting job is the operation its front end asked for.
Asked(c) ==
  Waiting(c) => NextStep(c).ask /\ Ops(c)[Len(Ops(c))].kind = NextStep(c).kind

ConnOK(c) == Threaded(c) /\ Numbered(c) /\ Deleting(c) /\ Asked(c)

ConnInv == conn = [c \in Conns |-> conn[c]] /\ \A c \in Conns : ConnOK(c)

\* The executor's queue holds each waiting connection once.
Queued ==
  /\ queue \in Seq(Conns)
  /\ \A i, j \in DOMAIN queue : queue[i] = queue[j] => i = j
  /\ \A c \in Conns : Waiting(c) <=> \E i \in DOMAIN queue : queue[i] = c
  /\ exec \in {"running", "gone"}
  /\ exec = "gone" => queue = << >>

Protos == {"resp", "http", "memcache", "txn", "stream"}

\* A server that is not started has neither an executor nor connections.
Started ==
  /\ proto \in Protos
  /\ up \in BOOLEAN
  /\ ~up => exec = "gone" /\ accept = "over" /\ \A c \in Conns : conn[c].pc = "none"
  /\ conn_id \in Nat
  /\ up => conn_id > 0

\* Of the clients the engine knows one is the last.
LastClient == \E n \in 0..MaxConn : /\ n = 0 \/ marks[n] > 0
                                    /\ \A c \in Conns : marks[c] > 0 => c <= n

\* The engine's sequence numbers cover the operations in effect, each once.
Marked ==
  /\ marks \in [Conns -> Nat] /\ LastClient
  /\ IsSeq(hist)
  /\ \A i \in DOMAIN hist : /\ hist[i].op.client \in Conns /\ hist[i].op.seq \in Nat
                            /\ hist[i].op.seq <= marks[hist[i].op.client]
  /\ Service!OnceEach(hist)

\* While the executor runs, the ids not yet given out are unknown to the engine,
\* and it has seen of a connection no number above the connection's own; it has
\* seen that one only with an earlier operation of the same command.
Recognised(c) ==
  /\ c >= conn_id => marks[c] = 0 /\ conn[c].pc = "none"
  /\ Live(c) => marks[c] <= conn[c].seq
  /\ Busy(c) /\ marks[c] = conn[c].seq =>
       \E i \in DOMAIN Ops(c) : /\ Ops(c)[i].seq = conn[c].seq
                                /\ Effective(Ops(c)[i])
                                /\ Waiting(c) => i < Len(Ops(c))

\* What an output says of its operation: an operation is suppressed only behind
\* another one with its sequence number, and a write with an output is in effect.
Answered(c) ==
  \A i \in DOMAIN Outs(c) :
    /\ Outs(c)[i] = Suppressed => SeqPerCommand /\ i > 1
    /\ IsWrite(Ops(c)[i].kind) /\ Outs(c)[i] \notin {None, Suppressed} => Effective(Ops(c)[i])

Recognises == exec = "running" => \A c \in Conns : Recognised(c)

OnceInv ==
  ConnInv /\ Queued /\ Started /\ Marked /\ Recognises /\ \A c \in Conns : Answered(c)

\* No DEL names two different keys.
LoneKeys == \A ks \in DelKeys : \A i, j \in DOMAIN ks : ks[i] = ks[j]

\* Every answered operation is in effect.
AnsweredInEffect == answered \subseteq {hist[i].op : i \in DOMAIN hist}

-----------------------------------------------------------------------------
(* Sequences and natural numbers *)

LEMMA SeqOfOwn ==
  ASSUME NEW S, NEW s \in Seq(S)
  PROVE  IsSeq(s)
BY DEF IsSeq

LEMMA SeqFacts ==
  ASSUME NEW s, IsSeq(s)
  PROVE  Len(s) \in Nat /\ DOMAIN s = 1..Len(s)
BY DEF IsSeq

LEMMA NoElements ==
  ASSUME NEW s, s = << >>
  PROVE  IsSeq(s) /\ Len(s) = 0 /\ DOMAIN s = {}
<1>1. s \in Seq(Nat)
  OBVIOUS
<1>2. Len(s) = 0
  BY Zenon
<1>3. IsSeq(s)
  BY <1>1 DEF IsSeq
<1> QED
  BY <1>1, <1>2, <1>3

\* What Append makes of a sequence, whatever its elements.
LEMMA Appended ==
  ASSUME NEW s, IsSeq(s), NEW e
  PROVE  /\ IsSeq(Append(s, e))
         /\ Len(Append(s, e)) = Len(s) + 1
         /\ DOMAIN Append(s, e) = 1..(Len(s) + 1)
         /\ \A i \in 1..Len(s) : Append(s, e)[i] = s[i]
         /\ Append(s, e)[Len(s) + 1] = e
<1> DEFINE S == {s[i] : i \in DOMAIN s}
<1>1. s \in Seq(S)
  BY Zenon DEF IsSeq
<1> HIDE DEF S
<1>2. s \in Seq(S \cup {e}) /\ e \in S \cup {e}
  BY <1>1
<1>3. Append(s, e) \in Seq(S \cup {e}) /\ Len(Append(s, e)) = Len(s) + 1
  BY <1>2
<1>4. IsSeq(Append(s, e))
  BY <1>3, SeqOfOwn, Zenon
<1> QED
  BY <1>1, <1>3, <1>4, AppendFields

\* Engine::max_client is the largest client with an operation in effect.
LEMMA MaxClientIs ==
  ASSUME LastClient
  PROVE  /\ MaxClient \in 0..MaxConn
         /\ \A c \in Conns : marks[c] > 0 => c <= MaxClient
BY Zenon DEF LastClient, MaxClient

-----------------------------------------------------------------------------
(* One connection *)

\* A connection whose record a step leaves alone.
LEMMA ConnSame ==
  ASSUME NEW c, ConnOK(c), conn'[c] = conn[c], proto' = proto
  PROVE  ConnOK(c)'
<1>1. Threaded(c)'
  BY Zenon DEF ConnOK, Threaded, Ops, Outs, Busy, Commands
<1>2. Numbered(c)' /\ Deleting(c)'
  BY Zenon DEF ConnOK, Numbered, Deleting, Ops, SeqPerCommand
<1>3. Asked(c)'
  BY Zenon DEF ConnOK, Asked, Waiting, NextStep, StepOf, Ops
<1> QED
  BY <1>1, <1>2, <1>3, Zenon DEF ConnOK

IdleConn(p, q, b, t) ==
  [pc |-> p, seq |-> q, cmd |-> Command("none", NoKey), val |-> Text(0), ops |-> << >>,
   outs |-> << >>, buf |-> b, in_txn |-> t, due |-> {}]

LEMMA IdleForms ==
  /\ NoConn = IdleConn("none", 0, << >>, FALSE)
  /\ \A p : [NoConn EXCEPT !.pc = p] = IdleConn(p, 0, << >>, FALSE)
<1>1. NoConn = IdleConn("none", 0, << >>, FALSE)
  BY Zenon DEF NoConn, IdleConn
<1>2. ASSUME NEW p PROVE [NoConn EXCEPT !.pc = p] = IdleConn(p, 0, << >>, FALSE)
  <2>1. ASSUME NEW r, r = [NoConn EXCEPT !.pc = p] PROVE r = IdleConn(p, 0, << >>, FALSE)
    BY <2>1, Zenon DEF NoConn, IdleConn
  <2> QED
    BY <2>1, Zenon
<1> QED
  BY <1>1, <1>2, Zenon

\* A connection without a command: not yet open, between two commands, or closed.
LEMMA ConnIdle ==
  ASSUME NEW c, NEW p \in {"none", "read", "closed"}, NEW q \in Nat, NEW b, NEW t,
         conn'[c] = IdleConn(p, q, b, t)
  PROVE  /\ ConnOK(c)' /\ ~Waiting(c)' /\ ~Busy(c)' /\ Outs(c)' = << >>
         /\ conn'[c].pc = p /\ conn'[c].seq = q
<1>2. /\ conn'[c].pc = p /\ conn'[c].seq = q /\ conn'[c].ops = << >> /\ conn'[c].outs = << >>
      /\ p # "busy"
  BY DEF IdleConn
<1>3. /\ IsSeq(conn'[c].ops) /\ Len(conn'[c].ops) = 0 /\ DOMAIN conn'[c].ops = {}
      /\ IsSeq(conn'[c].outs)
  BY <1>2, NoElements, Zenon
<1>4. Threaded(c)'
  BY <1>2, <1>3, Zenon DEF Threaded, Busy, Ops, Outs, IdleConn
<1>5. Numbered(c)' /\ Deleting(c)' /\ Asked(c)'
  BY <1>2, <1>3 DEF Numbered, Deleting, Asked, Waiting, Ops
<1> QED
  BY <1>2, <1>4, <1>5, Zenon DEF ConnOK, Waiting, Busy, Outs

LEMMA ConnNone ==
  ASSUME NEW c, conn'[c] = NoConn
  PROVE  ConnOK(c)' /\ ~Waiting(c)' /\ ~Busy(c)' /\ Outs(c)' = << >> /\ conn'[c].pc = "none"
<1>1. conn'[c] = IdleConn("none", 0, << >>, FALSE)
  BY IdleForms, Zenon
<1>2. PICK p \in {"none", "read", "closed"}, q \in Nat :
        p = "none" /\ conn'[c] = IdleConn(p, q, << >>, FALSE)
  BY <1>1, Zenon
<1>3. PICK b, t : conn'[c] = IdleConn(p, q, b, t)
  BY <1>2, Zenon
<1>4. ConnOK(c)' /\ ~Waiting(c)' /\ ~Busy(c)' /\ Outs(c)' = << >> /\ conn'[c].pc = p
  BY <1>3, ConnIdle
<1> QED
  BY <1>2, <1>4, Zenon

\* The fields of a connection whose job is answered.
AnsweredConn(c, out) == [conn[c] EXCEPT !.outs = Append(@, out)]

LEMMA ConnAnswered ==
  ASSUME NEW c, NEW out, ConnOK(c), Waiting(c), proto' = proto,
         conn'[c] = AnsweredConn(c, out)
  PROVE  /\ ConnOK(c)' /\ ~Waiting(c)' /\ Busy(c)'
         /\ conn'[c].seq = conn[c].seq /\ Ops(c)' = Ops(c)
         /\ Outs(c)' = Append(Outs(c), out) /\ Len(Outs(c)) + 1 = Len(Ops(c))
<1>1. conn[c] = [pc |-> conn[c].pc, seq |-> conn[c].seq, cmd |-> conn[c].cmd,
                 val |-> conn[c].val, ops |-> conn[c].ops, outs |-> conn[c].outs,
                 buf |-> conn[c].buf, in_txn |-> conn[c].in_txn, due |-> conn[c].due]
  BY Zenon DEF ConnOK, Threaded
<1>2. /\ conn'[c].pc = conn[c].pc /\ conn'[c].seq = conn[c].seq /\ conn'[c].cmd = conn[c].cmd
      /\ conn'[c].val = conn[c].val /\ conn'[c].ops = conn[c].ops
      /\ conn'[c].outs = Append(conn[c].outs, out)
      /\ conn'[c].buf = conn[c].buf /\ conn'[c].in_txn = conn[c].in_txn
      /\ conn'[c].due = conn[c].due
  BY <1>1, Zenon DEF AnsweredConn
<1>3. conn'[c] = [pc |-> conn'[c].pc, seq |-> conn'[c].seq, cmd |-> conn'[c].cmd,
                  val |-> conn'[c].val, ops |-> conn'[c].ops, outs |-> conn'[c].outs,
                  buf |-> conn'[c].buf, in_txn |-> conn'[c].in_txn, due |-> conn'[c].due]
  BY <1>1, <1>2, Zenon DEF AnsweredConn
<1>4. /\ conn[c].pc = "busy" /\ Len(conn[c].outs) < Len(conn[c].ops)
      /\ IsSeq(conn[c].ops) /\ IsSeq(conn[c].outs)
      /\ Len(conn[c].ops) <= Len(conn[c].outs) + 1
  BY Zenon DEF ConnOK, Threaded, Waiting, Busy, Ops, Outs
<1>5. Len(conn[c].ops) \in Nat /\ Len(conn[c].outs) \in Nat
  BY <1>4, SeqFacts, Zenon
<1>6. Len(conn[c].ops) = Len(conn[c].outs) + 1
  BY <1>4, <1>5
<1>7. IsSeq(conn'[c].outs) /\ Len(conn'[c].outs) = Len(conn[c].outs) + 1
  BY <1>2, <1>4, Appended
<1>8. Threaded(c)'
  <2>1. conn'[c].cmd \in Commands' /\ Len(conn'[c].ops) > 0 /\ IsSeq(conn'[c].ops)
    BY <1>2, <1>4, Zenon DEF ConnOK, Threaded, Busy, Ops, Outs, Commands
  <2>2. Len(conn'[c].outs) <= Len(conn'[c].ops) /\ Len(conn'[c].ops) <= Len(conn'[c].outs) + 1
    BY <1>2, <1>5, <1>6, <1>7
  <2>3. conn'[c].pc = "busy" /\ conn'[c].seq \in Nat
    BY <1>2, <1>4, Zenon DEF ConnOK, Threaded
  <2> QED
    BY <1>3, <1>7, <2>1, <2>2, <2>3, Zenon DEF Threaded, Busy, Ops, Outs
<1>9. Numbered(c)'
  BY <1>2, Zenon DEF ConnOK, Numbered, Ops, SeqPerCommand
<1>10. Deleting(c)'
  BY <1>2, Zenon DEF ConnOK, Deleting, Ops, SeqPerCommand
<1>11. ~Waiting(c)'
  BY <1>2, <1>5, <1>6, <1>7 DEF Waiting
<1> QED
  BY <1>2, <1>4, <1>6, <1>8, <1>9, <1>10, <1>11, Zenon DEF ConnOK, Asked, Busy, Ops, Outs

\* What a command is called.
LEMMA CommandFields ==
  /\ \A n, k : Command(n, k).name = n /\ Command(n, k).key = k
  /\ \A cmd \in RespCommands :
       /\ cmd.name \in {"PLAIN", "SET", "GET", "INCR", "DECR", "DBSIZE", "DEL"}
       /\ cmd.name = "DEL" => cmd.keys \in DelKeys
  /\ \A cmd \in HttpCommands : cmd.name \in {"OTHER", "GET", "PUT", "POST", "DELETE"}
  /\ \A cmd \in StreamCommands : cmd.name \in {"PUB", "SUB", "LEN"} /\ cmd.key \in Keys
  /\ \A cmd \in MemcacheCommands :
       cmd.name \in {"version", "set", "get", "incr", "decr", "delete"}
  /\ \A cmd \in TxnCommands : cmd.name \in {"BEGIN", "COMMIT", "ABORT", "SET", "DEL", "GET"}
<1>1. \A n, k : Command(n, k).name = n /\ Command(n, k).key = k
  BY Zenon DEF Command
<1>2. ASSUME NEW cmd \in RespCommands
      PROVE  /\ cmd.name \in {"PLAIN", "SET", "GET", "INCR", "DECR", "DBSIZE", "DEL"}
             /\ cmd.name = "DEL" => cmd.keys \in DelKeys
  <2>1. CASE cmd = Command("PLAIN", NoKey)
    BY <1>1, <2>1
  <2>2. CASE \E n \in {"SET", "GET", "INCR", "DECR", "DBSIZE"}, k \in Keys : cmd = Command(n, k)
    <3>1. PICK n \in {"SET", "GET", "INCR", "DECR", "DBSIZE"}, k \in Keys : cmd = Command(n, k)
      BY <2>2, Zenon
    <3>2. cmd.name = n
      BY <1>1, <3>1, Zenon
    <3> QED
      BY <3>2, Zenon
  <2>3. CASE \E ks \in DelKeys : cmd = DelCommand(ks)
    <3>1. PICK ks \in DelKeys : cmd = DelCommand(ks)
      BY <2>3, Zenon
    <3>2. cmd.name = "DEL" /\ cmd.keys = ks
      BY <3>1, Zenon DEF DelCommand
    <3> QED
      BY <3>2, Zenon
  <2> QED
    BY <2>1, <2>2, <2>3 DEF RespCommands
<1>3. ASSUME NEW cmd \in HttpCommands
      PROVE  cmd.name \in {"OTHER", "GET", "PUT", "POST", "DELETE"}
  <2>1. CASE cmd = Command("OTHER", NoKey)
    BY <1>1, <2>1, Zenon
  <2>2. CASE \E n \in {"GET", "PUT", "POST", "DELETE"}, k \in Keys : cmd = Command(n, k)
    <3>1. PICK n \in {"GET", "PUT", "POST", "DELETE"}, k \in Keys : cmd = Command(n, k)
      BY <2>2, Zenon
    <3>2. cmd.name = n
      BY <1>1, <3>1, Zenon
    <3> QED
      BY <3>2, Zenon
  <2> QED
    BY <2>1, <2>2 DEF HttpCommands
<1>4. ASSUME NEW cmd \in StreamCommands
      PROVE  cmd.name \in {"PUB", "SUB", "LEN"} /\ cmd.key \in Keys
  <2>1. PICK n \in {"PUB", "SUB", "LEN"}, k \in Keys : cmd = Command(n, k)
    BY DEF StreamCommands
  <2>2. cmd.name = n /\ cmd.key = k
    BY <1>1, <2>1, Zenon
  <2> QED
    BY <2>2, Zenon
<1>5. ASSUME NEW cmd \in MemcacheCommands
      PROVE  cmd.name \in {"version", "set", "get", "incr", "decr", "delete"}
  <2>1. CASE cmd = Command("version", NoKey)
    BY <1>1, <2>1, Zenon
  <2>2. CASE \E n \in {"set", "get", "incr", "decr", "delete"}, k \in Keys : cmd = Command(n, k)
    <3>1. PICK n \in {"set", "get", "incr", "decr", "delete"}, k \in Keys : cmd = Command(n, k)
      BY <2>2, Zenon
    <3>2. cmd.name = n
      BY <1>1, <3>1, Zenon
    <3> QED
      BY <3>2, Zenon
  <2> QED
    BY <2>1, <2>2 DEF MemcacheCommands
<1>6. ASSUME NEW cmd \in TxnCommands
      PROVE  cmd.name \in {"BEGIN", "COMMIT", "ABORT", "SET", "DEL", "GET"}
  <2>1. PICK n \in {"BEGIN", "COMMIT", "ABORT", "SET", "DEL", "GET"}, k \in Keys \cup {NoKey} :
          cmd = Command(n, k)
    <3>1. CASE \E n \in {"BEGIN", "COMMIT", "ABORT"} : cmd = Command(n, NoKey)
      BY <3>1, Zenon
    <3>2. CASE \E n \in {"SET", "DEL", "GET"}, k \in Keys : cmd = Command(n, k)
      BY <3>2, Zenon
    <3> QED
      BY <3>1, <3>2 DEF TxnCommands
  <2>2. cmd.name = n
    BY <1>1, <2>1, Zenon
  <2> QED
    BY <2>2, Zenon
<1> QED
  BY <1>1, <1>2, <1>3, <1>4, <1>5, <1>6, Zenon

\* The operations a front end asks for.
LEMMA KindTags ==
  ASSUME proto \in Protos, NEW cmd \in Commands, NEW outs, NEW val, NEW buf, NEW t,
         StepOf(cmd, outs, val, buf, t).ask
  PROVE  StepOf(cmd, outs, val, buf, t).kind.tag \in Tags
<1> DEFINE s == StepOf(cmd, outs, val, buf, t)
<1> USE DEF Ask, Reply, GetReply, Set, Get, Del, Incr, Txn, Tags
<1>1. CASE proto = "resp"
  <2>1. s = RespStep(cmd, outs, val) /\ cmd \in RespCommands
    BY <1>1, Zenon DEF StepOf, Commands
  <2>2. cmd.name \in {"PLAIN", "SET", "GET", "INCR", "DECR", "DBSIZE", "DEL"}
    BY <2>1, CommandFields, Zenon
  <2>3. RespStep(cmd, outs, val).ask
    BY <2>1, Zenon
  <2>4. RespStep(cmd, outs, val).kind.tag \in Tags
    BY <2>2, <2>3, Zenon DEF RespStep
  <2> QED
    BY <2>1, <2>4, Zenon
<1>2. CASE proto = "http"
  <2>1. s = HttpStep(cmd, outs, val) /\ cmd \in HttpCommands
    BY <1>2, Zenon DEF StepOf, Commands
  <2>2. cmd.name \in {"OTHER", "GET", "PUT", "POST", "DELETE"}
    BY <2>1, CommandFields, Zenon
  <2>3. HttpStep(cmd, outs, val).ask
    BY <2>1, Zenon
  <2>4. HttpStep(cmd, outs, val).kind.tag \in Tags
    BY <2>2, <2>3, Zenon DEF HttpStep
  <2> QED
    BY <2>1, <2>4, Zenon
<1>3. CASE proto = "memcache"
  <2>1. s = MemcacheStep(cmd, outs, val) /\ cmd \in MemcacheCommands
    BY <1>3, Zenon DEF StepOf, Commands
  <2>2. cmd.name \in {"version", "set", "get", "incr", "decr", "delete"}
    BY <2>1, CommandFields, Zenon
  <2>3. MemcacheStep(cmd, outs, val).ask
    BY <2>1, Zenon
  <2>4. MemcacheStep(cmd, outs, val).kind.tag \in Tags
    BY <2>2, <2>3 DEF MemcacheStep
  <2> QED
    BY <2>1, <2>4, Zenon
<1>4. CASE proto = "txn"
  <2>1. s = TxnStep(cmd, outs, val, buf, t) /\ cmd \in TxnCommands
    BY <1>4, Zenon DEF StepOf, Commands
  <2>2. cmd.name \in {"BEGIN", "COMMIT", "ABORT", "SET", "DEL", "GET"}
    BY <2>1, CommandFields, Zenon
  <2>3. TxnStep(cmd, outs, val, buf, t).ask
    BY <2>1, Zenon
  <2>4. TxnStep(cmd, outs, val, buf, t).kind.tag \in Tags
    BY <2>2, <2>3, Zenon DEF TxnStep
  <2> QED
    BY <2>1, <2>4, Zenon
<1>5. CASE proto = "stream"
  <2>1. s = StreamStep(cmd, outs, val) /\ cmd \in StreamCommands
    BY <1>5, Zenon DEF StepOf, Commands
  <2>2. cmd.name \in {"PUB", "SUB", "LEN"}
    BY <2>1, CommandFields, Zenon
  <2>3. StreamStep(cmd, outs, val).ask
    BY <2>1, Zenon
  <2>4. StreamStep(cmd, outs, val).kind.tag \in Tags
    BY <2>2, <2>3 DEF StreamStep
  <2> QED
    BY <2>1, <2>4, Zenon
<1> QED
  BY <1>1, <1>2, <1>3, <1>4, <1>5, Zenon DEF Protos

\* What the operations of a RESP or HTTP command are: one for each key of a DEL, and
\* at most one otherwise.
LEMMA SharedNumber ==
  ASSUME SeqPerCommand, NEW cmd \in Commands, NEW outs, IsSeq(outs), NEW val, NEW buf, NEW t,
         StepOf(cmd, outs, val, buf, t).ask
  PROVE  /\ Len(outs) > 0 => proto = "resp" /\ cmd.name = "DEL"
         /\ proto = "resp" /\ cmd.name = "DEL" =>
              /\ Len(outs) + 1 \in DOMAIN cmd.keys
              /\ StepOf(cmd, outs, val, buf, t).kind = Del(Plain(cmd.keys[Len(outs) + 1]))
         /\ proto = "resp" /\ cmd.name \in {"PLAIN", "DBSIZE"} =>
              StepOf(cmd, outs, val, buf, t).kind.tag = "Len"
<1>0. Len(outs) \in Nat
  BY SeqFacts, Zenon
<1>1. CASE proto = "resp"
  <2>1. StepOf(cmd, outs, val, buf, t) = RespStep(cmd, outs, val) /\ cmd \in RespCommands
    BY <1>1, Zenon DEF StepOf, Commands
  <2>2. RespStep(cmd, outs, val).ask
    BY <2>1, Zenon
  <2>3. cmd.name \in {"PLAIN", "SET", "GET", "INCR", "DECR", "DBSIZE", "DEL"}
    BY <2>1, CommandFields, Zenon
  <2>4. CASE cmd.name = "DEL"
    <3>1. cmd.keys \in Seq(Keys)
      BY <2>1, <2>4, DelKeysAssumption, CommandFields, Zenon
    <3>2. RespStep(cmd, outs, val) =
            IF Len(outs) < Len(cmd.keys) THEN Ask(Del(Plain(cmd.keys[Len(outs) + 1])))
            ELSE Reply(\A i \in DOMAIN outs : Removed(outs[i]), Value(Count(outs)))
      BY <2>4, Zenon DEF RespStep
    <3>3. Len(outs) < Len(cmd.keys)
      BY <2>2, <3>2 DEF Reply
    <3>4. RespStep(cmd, outs, val).kind = Del(Plain(cmd.keys[Len(outs) + 1]))
      BY <3>2, <3>3 DEF Ask
    <3> QED
      BY <1>0, <1>1, <2>1, <2>4, <3>1, <3>3, <3>4
  <2>5. CASE cmd.name # "DEL"
    <3>1. ~(Len(outs) > 0)
      <4> SUFFICES ASSUME Len(outs) # 0 PROVE FALSE
        OBVIOUS
      <4> QED
        BY <2>2, <2>3, <2>5, Zenon DEF RespStep, Reply, GetReply
    <3>2. ASSUME cmd.name \in {"PLAIN", "DBSIZE"}
          PROVE  RespStep(cmd, outs, val).kind.tag = "Len"
      <4>1. cmd.name = "PLAIN" => RespStep(cmd, outs, val) = Reply(TRUE, Ok)
        BY Zenon DEF RespStep
      <4>2. cmd.name = "DBSIZE" =>
              RespStep(cmd, outs, val)
                = IF Len(outs) = 0 THEN Ask([tag |-> "Len"]) ELSE Reply(TRUE, outs[Len(outs)])
        BY Zenon DEF RespStep
      <4> QED
        BY <2>2, <3>2, <4>1, <4>2 DEF Ask, Reply
    <3> QED
      BY <2>1, <2>5, <3>1, <3>2, Zenon
  <2> QED
    BY <2>4, <2>5, Zenon
<1>2. CASE proto = "http"
  <2>1. HttpStep(cmd, outs, val).ask /\ cmd \in HttpCommands
    BY <1>2, Zenon DEF StepOf, Commands
  <2>2. cmd.name \in {"OTHER", "GET", "PUT", "POST", "DELETE"}
    BY <2>1, CommandFields, Zenon
  <2>3. outs = << >>
    <3> SUFFICES ASSUME outs # << >> PROVE FALSE
      BY Zenon
    <3> QED
      BY <2>1, <2>2, Zenon DEF HttpStep, Reply, GetReply
  <2>4. Len(outs) = 0
    BY <2>3, NoElements, Zenon
  <2> QED
    BY <1>2, <2>4
<1> QED
  BY <1>1, <1>2, Zenon DEF SeqPerCommand

\* The record a connection thread takes a front end's step with: its own, or its own
\* with the command it has just read.
Prepared(c, k, first) ==
  /\ k = [pc |-> k.pc, seq |-> conn[c].seq, cmd |-> k.cmd, val |-> k.val, ops |-> Ops(c),
          outs |-> Outs(c), buf |-> conn[c].buf, in_txn |-> conn[c].in_txn, due |-> k.due]
  /\ k.cmd \in Commands
  /\ first \in BOOLEAN
  /\ IF first THEN conn[c].pc = "read" ELSE k = conn[c] /\ Busy(c) /\ ~Waiting(c)

\* Before a step all operations of the command are answered.
LEMMA PreparedFacts ==
  ASSUME NEW c, ConnOK(c), NEW k, NEW first, Prepared(c, k, first)
  PROVE  /\ IsSeq(Ops(c)) /\ IsSeq(Outs(c)) /\ Len(Ops(c)) \in Nat
         /\ DOMAIN Ops(c) = 1..Len(Ops(c)) /\ DOMAIN Outs(c) = 1..Len(Ops(c))
         /\ Len(Outs(c)) = Len(Ops(c)) /\ (first <=> Len(Ops(c)) = 0)
         /\ conn[c].seq \in Nat /\ Live(c)
         /\ ~Waiting(c)
<1>1. /\ IsSeq(Ops(c)) /\ IsSeq(Outs(c)) /\ conn[c].seq \in Nat
      /\ ~Busy(c) => Ops(c) = << >> /\ Outs(c) = << >>
      /\ Busy(c) => Len(Ops(c)) > 0 /\ Len(Outs(c)) <= Len(Ops(c))
  BY Zenon DEF ConnOK, Threaded
<1>2. /\ Len(Ops(c)) \in Nat /\ DOMAIN Ops(c) = 1..Len(Ops(c))
      /\ Len(Outs(c)) \in Nat /\ DOMAIN Outs(c) = 1..Len(Outs(c))
  BY <1>1, SeqFacts, Zenon
<1>3. CASE first
  <2>1. conn[c].pc = "read" /\ ~Busy(c)
    BY <1>3, Zenon DEF Prepared, Busy
  <2>2. Len(Ops(c)) = 0 /\ Len(Outs(c)) = 0
    BY <1>1, <2>1, NoElements, Zenon
  <2> QED
    BY <1>1, <1>2, <1>3, <2>1, <2>2, Zenon DEF Live, Waiting
<1>4. CASE ~first
  <2>1. Busy(c) /\ ~Waiting(c)
    BY <1>4, Zenon DEF Prepared
  <2>2. Len(Outs(c)) = Len(Ops(c)) /\ Len(Ops(c)) # 0
    BY <1>1, <1>2, <2>1 DEF Waiting, Busy, Ops, Outs
  <2> QED
    BY <1>1, <1>2, <1>4, <2>1, <2>2, Zenon DEF Live, Busy
<1> QED
  BY <1>3, <1>4, Zenon DEF Prepared

\* The number of the next operation.
LEMMA NextSeqIs ==
  ASSUME NEW q \in Nat, NEW first \in BOOLEAN
  PROVE  /\ NextSeq(q, first, TRUE) = IF SeqPerCommand /\ ~first THEN q ELSE q + 1
         /\ NextSeq(q, first, TRUE) \in Nat
BY DEF NextSeq

\* The record of a connection whose front end has asked for an operation.
AskedConn(c, k, op, o) ==
  [pc |-> "busy", seq |-> op.seq, cmd |-> k.cmd, val |-> k.val, ops |-> Append(Ops(c), op),
   outs |-> o, buf |-> conn[c].buf, in_txn |-> conn[c].in_txn, due |-> k.due]

Asking(c, k, first, op) ==
  LET s == StepOf(k.cmd, k.outs, k.val, k.buf, k.in_txn)
  IN  s.ask /\ op = [client |-> c, seq |-> NextSeq(k.seq, first, TRUE), kind |-> s.kind]

LEMMA AskForm ==
  ASSUME NEW c, NEW k, NEW first, Prepared(c, k, first), NEW op
  PROVE  LET b == [k EXCEPT !.pc = "busy", !.seq = op.seq, !.ops = Append(@, op)]
         IN  /\ b = AskedConn(c, k, op, Outs(c))
             /\ [b EXCEPT !.outs = Append(@, None)] = AskedConn(c, k, op, Append(Outs(c), None))
<1>1. ASSUME NEW b, b = [k EXCEPT !.pc = "busy", !.seq = op.seq, !.ops = Append(@, op)]
      PROVE  b = AskedConn(c, k, op, Outs(c))
  <2>1. PICK p, m, v, d :
          k = [pc |-> p, seq |-> conn[c].seq, cmd |-> m, val |-> v, ops |-> Ops(c),
               outs |-> Outs(c), buf |-> conn[c].buf, in_txn |-> conn[c].in_txn, due |-> d]
    BY Zenon DEF Prepared
  <2>2. k.cmd = m /\ k.val = v /\ k.due = d
    BY <2>1, Zenon
  <2>3. b = [pc |-> "busy", seq |-> op.seq, cmd |-> m, val |-> v, ops |-> Append(Ops(c), op),
             outs |-> Outs(c), buf |-> conn[c].buf, in_txn |-> conn[c].in_txn, due |-> d]
    BY <1>1, <2>1, Zenon
  <2> QED
    BY <2>2, <2>3, Zenon DEF AskedConn
<1>2. ASSUME NEW b, b = AskedConn(c, k, op, Outs(c)),
             NEW d, d = [b EXCEPT !.outs = Append(@, None)]
      PROVE  d = AskedConn(c, k, op, Append(Outs(c), None))
  BY <1>2, Zenon DEF AskedConn
<1> QED
  BY <1>1, <1>2, Zenon

LEMMA AskedFields ==
  ASSUME NEW c, NEW k, NEW op, NEW o, NEW r, r = AskedConn(c, k, op, o)
  PROVE  /\ r.pc = "busy" /\ r.seq = op.seq /\ r.cmd = k.cmd /\ r.val = k.val
         /\ r.ops = Append(Ops(c), op) /\ r.outs = o
         /\ r.buf = conn[c].buf /\ r.in_txn = conn[c].in_txn /\ r.due = k.due
         /\ r = [pc |-> r.pc, seq |-> r.seq, cmd |-> r.cmd, val |-> r.val, ops |-> r.ops,
                 outs |-> r.outs, buf |-> r.buf, in_txn |-> r.in_txn, due |-> r.due]
BY Zenon DEF AskedConn

\* A front end asks: the connection's record gets one more operation.
LEMMA ConnAsks ==
  ASSUME proto \in Protos, NEW c, ConnOK(c), NEW k, NEW first, Prepared(c, k, first),
         proto' = proto, NEW op, Asking(c, k, first, op), NEW o, o \in {Outs(c), Append(Outs(c), None)},
         conn'[c] = AskedConn(c, k, op, o)
  PROVE  /\ ConnOK(c)' /\ Busy(c)' /\ conn'[c].seq = op.seq /\ Ops(c)' = Append(Ops(c), op)
         /\ Outs(c)' = o
         /\ IF o = Outs(c) THEN Waiting(c)' ELSE ~Waiting(c)'
         /\ op.client = c /\ op.seq \in Nat
         /\ op.seq = IF SeqPerCommand /\ ~first THEN conn[c].seq ELSE conn[c].seq + 1
<1>1. /\ k.seq = conn[c].seq /\ k.ops = Ops(c) /\ k.outs = Outs(c)
      /\ k.buf = conn[c].buf /\ k.in_txn = conn[c].in_txn
  BY DEF Prepared
<1>5. /\ conn'[c].pc = "busy" /\ conn'[c].seq = op.seq /\ conn'[c].cmd = k.cmd
      /\ conn'[c].val = k.val /\ conn'[c].ops = Append(Ops(c), op) /\ conn'[c].outs = o
      /\ conn'[c].buf = conn[c].buf /\ conn'[c].in_txn = conn[c].in_txn /\ conn'[c].due = k.due
  BY AskedFields
<1>6. /\ IsSeq(Ops(c)) /\ IsSeq(Outs(c)) /\ Len(Ops(c)) \in Nat
      /\ DOMAIN Ops(c) = 1..Len(Ops(c)) /\ Len(Outs(c)) = Len(Ops(c))
      /\ first <=> Len(Ops(c)) = 0
      /\ conn[c].seq \in Nat /\ first \in BOOLEAN /\ k.cmd \in Commands
  BY PreparedFacts, Zenon DEF Prepared
<1>7. /\ IsSeq(conn'[c].ops) /\ Len(conn'[c].ops) = Len(Ops(c)) + 1
      /\ DOMAIN conn'[c].ops = 1..(Len(Ops(c)) + 1)
      /\ \A i \in 1..Len(Ops(c)) : conn'[c].ops[i] = Ops(c)[i]
      /\ conn'[c].ops[Len(Ops(c)) + 1] = op
  BY <1>5, <1>6, Appended, SMTT(30)
<1>8. IsSeq(o) /\ Len(o) = IF o = Outs(c) THEN Len(Ops(c)) ELSE Len(Ops(c)) + 1
  <2>1. CASE o = Outs(c)
    BY <1>6, <2>1, Zenon
  <2>2. CASE o # Outs(c)
    <3>1. o = Append(Outs(c), None)
      BY <2>2, Zenon
    <3>2. IsSeq(o) /\ Len(o) = Len(Outs(c)) + 1
      BY <1>6, <3>1, Appended, Zenon
    <3> QED
      BY <1>6, <2>2, <3>2, Zenon
  <2> QED
    BY <2>1, <2>2, Zenon
<1>9. /\ op = [client |-> c, seq |-> op.seq, kind |-> op.kind] /\ op.client = c
      /\ op.seq \in Nat
      /\ op.seq = IF SeqPerCommand /\ ~first THEN conn[c].seq ELSE conn[c].seq + 1
      /\ StepOf(k.cmd, k.outs, k.val, k.buf, k.in_txn).ask
      /\ op.kind = StepOf(k.cmd, k.outs, k.val, k.buf, k.in_txn).kind
      /\ op.kind.tag \in Tags
  <2> DEFINE s == StepOf(k.cmd, k.outs, k.val, k.buf, k.in_txn)
  <2>1. s.ask /\ op = [client |-> c, seq |-> NextSeq(k.seq, first, TRUE), kind |-> s.kind]
    BY Zenon DEF Asking
  <2> HIDE DEF s
  <2>2. op.client = c /\ op.seq = NextSeq(k.seq, first, TRUE) /\ op.kind = s.kind
    BY <2>1, Zenon
  <2>3. op = [client |-> c, seq |-> op.seq, kind |-> op.kind]
    BY <2>1, <2>2, Zenon
  <2>4. /\ NextSeq(k.seq, first, TRUE)
             = IF SeqPerCommand /\ ~first THEN conn[c].seq ELSE conn[c].seq + 1
        /\ NextSeq(k.seq, first, TRUE) \in Nat
    BY <1>1, <1>6, NextSeqIs, Zenon
  <2>5. op.seq \in Nat
    BY <2>2, <2>4, Zenon
  <2>6. op.seq = IF SeqPerCommand /\ ~first THEN conn[c].seq ELSE conn[c].seq + 1
    BY <2>2, <2>4, Zenon
  <2>7. s.ask /\ op.kind = s.kind
    BY <2>1, <2>2, Zenon
  <2>8. op.kind.tag \in Tags
    BY <1>6, <2>7, KindTags, Zenon DEF s
  <2> QED
    BY <2>2, <2>3, <2>5, <2>6, <2>7, <2>8, Zenon DEF s
<1>10. Threaded(c)'
  <2>1. conn'[c].cmd \in Commands'
    BY <1>5, <1>6, Zenon DEF Commands
  <2>2. /\ IsSeq(conn'[c].outs) /\ Len(conn'[c].ops) > 0
        /\ Len(conn'[c].outs) <= Len(conn'[c].ops) /\ Len(conn'[c].ops) <= Len(conn'[c].outs) + 1
    BY <1>5, <1>6, <1>7, <1>8, SMTT(30)
  <2>3. conn'[c] = [pc |-> conn'[c].pc, seq |-> conn'[c].seq, cmd |-> conn'[c].cmd,
                    val |-> conn'[c].val, ops |-> conn'[c].ops, outs |-> conn'[c].outs,
                    buf |-> conn'[c].buf, in_txn |-> conn'[c].in_txn, due |-> conn'[c].due]
    BY AskedFields
  <2> QED
    BY <1>5, <1>7, <1>9, <2>1, <2>2, <2>3, Zenon DEF Threaded, Busy, Ops, Outs
<1>11. Numbered(c)'
  <2>1. ASSUME NEW i \in 1..(Len(Ops(c)) + 1), NEW x, x = conn'[c].ops[i]
        PROVE  /\ x = [client |-> c, seq |-> x.seq, kind |-> x.kind]
               /\ x.seq \in Nat /\ x.kind.tag \in Tags
               /\ IF SeqPerCommand \/ i = Len(Ops(c)) + 1 THEN x.seq = op.seq
                                                         ELSE x.seq < op.seq
    <3>1. CASE i = Len(Ops(c)) + 1
      <4>1. x = op
        BY <1>7, <2>1, <3>1, Zenon
      <4> QED
        BY <1>9, <3>1, <4>1, Zenon
    <3>2. CASE i \in 1..Len(Ops(c))
      <4>1. /\ x = [client |-> c, seq |-> x.seq, kind |-> x.kind]
            /\ x.seq \in Nat /\ x.kind.tag \in Tags
            /\ IF SeqPerCommand \/ i = Len(Ops(c)) THEN x.seq = conn[c].seq
                                                   ELSE x.seq < conn[c].seq
        BY <1>6, <1>7, <2>1, <3>2, Zenon DEF ConnOK, Numbered
      <4>2. ~first /\ i # Len(Ops(c)) + 1
        BY <1>6, <3>2
      <4>3. IF SeqPerCommand THEN x.seq = op.seq ELSE x.seq < op.seq
        BY <1>6, <1>9, <4>1, <4>2
      <4> QED
        BY <4>1, <4>2, <4>3, Zenon
    <3> QED
      BY <1>6, <3>1, <3>2
  <2>2. SeqPerCommand' = SeqPerCommand
    BY Zenon DEF SeqPerCommand
  <2> QED
    BY <1>5, <1>7, <2>1, <2>2, Zenon DEF Numbered, Ops
<1>12. Deleting(c)'
  <2>0. SeqPerCommand' = SeqPerCommand
    BY Zenon DEF SeqPerCommand
  <2>1. SeqPerCommand =>
          /\ Len(Ops(c)) > 0 => proto = "resp" /\ k.cmd.name = "DEL"
          /\ proto = "resp" /\ k.cmd.name = "DEL" =>
               /\ Len(Ops(c)) + 1 \in DOMAIN k.cmd.keys
               /\ op.kind = Del(Plain(k.cmd.keys[Len(Ops(c)) + 1]))
          /\ proto = "resp" /\ k.cmd.name \in {"PLAIN", "DBSIZE"} => op.kind.tag = "Len"
    BY <1>1, <1>6, <1>9, SharedNumber
  <2>2. SeqPerCommand' /\ Len(conn'[c].ops) > 1 => proto' = "resp" /\ conn'[c].cmd.name = "DEL"
    BY <1>5, <1>6, <1>7, <2>0, <2>1
  <2>3. ASSUME proto = "resp", k.cmd.name = "DEL", NEW i \in 1..(Len(Ops(c)) + 1)
        PROVE  i \in DOMAIN k.cmd.keys /\ conn'[c].ops[i].kind = Del(Plain(k.cmd.keys[i]))
    <3>1. CASE i = Len(Ops(c)) + 1
      BY <1>7, <2>1, <2>3, <3>1, Zenon DEF SeqPerCommand
    <3>2. CASE i \in 1..Len(Ops(c))
      <4>1. ~first
        BY <1>6, <3>2, SMTT(30)
      <4>2. k.cmd = conn[c].cmd
        BY <4>1, Zenon DEF Prepared
      <4> QED
        BY <1>6, <1>7, <2>3, <3>2, <4>2, Zenon DEF ConnOK, Deleting
    <3> QED
      BY <1>6, <3>1, <3>2
  <2>4. ASSUME proto = "resp", k.cmd.name \in {"PLAIN", "DBSIZE"}, NEW i \in 1..(Len(Ops(c)) + 1)
        PROVE  conn'[c].ops[i].kind.tag = "Len"
    <3>1. SeqPerCommand /\ ~(Len(Ops(c)) > 0)
      <4>1. k.cmd.name # "DEL"
        BY <2>4, Zenon
      <4> QED
        BY <2>1, <2>4, <4>1, Zenon DEF SeqPerCommand
    <3>2. i = Len(Ops(c)) + 1
      BY <1>6, <3>1
    <3> QED
      BY <1>7, <2>1, <2>4, <3>1, <3>2, Zenon
  <2> QED
    BY <1>5, <1>7, <2>2, <2>3, <2>4, Zenon DEF Deleting, Ops
<1>13. IF o = Outs(c) THEN Waiting(c)' ELSE ~Waiting(c)'
  BY <1>5, <1>6, <1>7, <1>8 DEF Waiting
<1>14. Asked(c)'
  <2> SUFFICES ASSUME Waiting(c)'
               PROVE  /\ NextStep(c)'.ask
                      /\ conn'[c].ops[Len(conn'[c].ops)].kind = NextStep(c)'.kind
    BY Zenon DEF Asked, Ops
  <2>1. o = Outs(c)
    BY <1>13, Zenon
  <2>2. NextStep(c)' = StepOf(k.cmd, k.outs, k.val, k.buf, k.in_txn)
    BY <1>1, <1>5, <2>1, Zenon DEF NextStep, StepOf
  <2> QED
    BY <1>7, <1>9, <2>2, Zenon
<1> QED
  BY <1>5, <1>9, <1>10, <1>11, <1>12, <1>13, <1>14, Zenon DEF ConnOK, Busy, Ops, Outs

-----------------------------------------------------------------------------
(* What a step leaves alone *)

Grows == \A x : Effective(x) => Effective(x)'

LEMMA SameHist == hist' = hist => Grows
BY Zenon DEF Grows, Effective

\* A step that changes the record of one connection.
LEMMA ConnOne ==
  ASSUME ConnInv, proto' = proto, NEW c \in Conns, NEW r, conn' = [conn EXCEPT ![c] = r],
         ConnOK(c)'
  PROVE  ConnInv' /\ conn'[c] = r /\ \A d \in Conns \ {c} : conn'[d] = conn[d]
<1>1. conn = [d \in Conns |-> conn[d]]
  BY Zenon DEF ConnInv
<1>2. /\ conn' = [d \in Conns |-> conn'[d]] /\ conn'[c] = r
      /\ \A d \in Conns \ {c} : conn'[d] = conn[d]
  BY <1>1, Zenon
<1>3. ASSUME NEW d \in Conns PROVE ConnOK(d)'
  <2>1. CASE d = c
    BY <2>1, Zenon
  <2>2. CASE d # c
    BY <1>2, <2>2, ConnSame, Zenon DEF ConnInv
  <2> QED
    BY <2>1, <2>2, Zenon
<1> QED
  BY <1>2, <1>3, Zenon DEF ConnInv

\* The value of an updated function of the connections.
LEMMA ConnExcept ==
  ASSUME ConnInv, NEW c \in Conns, NEW r, conn' = [conn EXCEPT ![c] = r]
  PROVE  conn'[c] = r /\ \A d \in Conns \ {c} : conn'[d] = conn[d]
<1>1. conn = [d \in Conns |-> conn[d]]
  BY Zenon DEF ConnInv
<1> QED
  BY <1>1, Zenon

\* A connection a step leaves alone.
LEMMA Frame ==
  ASSUME NEW c, conn'[c] = conn[c], proto' = proto, Grows
  PROVE  /\ Waiting(c)' = Waiting(c) /\ Live(c)' = Live(c)
         /\ Answered(c) => Answered(c)'
         /\ Recognised(c) /\ marks'[c] = marks[c] /\ (c >= conn_id' => c >= conn_id)
              => Recognised(c)'
<1>1. /\ Waiting(c)' = Waiting(c) /\ Live(c)' = Live(c) /\ Ops(c)' = Ops(c)
      /\ Outs(c)' = Outs(c) /\ Busy(c)' = Busy(c) /\ SeqPerCommand' = SeqPerCommand
  BY Zenon DEF Waiting, Live, Ops, Outs, Busy, SeqPerCommand
<1>2. Answered(c) => Answered(c)'
  <2> SUFFICES ASSUME Answered(c), NEW i \in DOMAIN Outs(c)
               PROVE  /\ Outs(c)[i] = Suppressed => SeqPerCommand /\ i > 1
                      /\ IsWrite(Ops(c)[i].kind) /\ Outs(c)[i] \notin {None, Suppressed}
                           => Effective(Ops(c)[i])'
    BY <1>1, Zenon DEF Answered
  <2>1. /\ Outs(c)[i] = Suppressed => SeqPerCommand /\ i > 1
        /\ IsWrite(Ops(c)[i].kind) /\ Outs(c)[i] \notin {None, Suppressed}
             => Effective(Ops(c)[i])
    BY Zenon DEF Answered
  <2>2. Effective(Ops(c)[i]) => Effective(Ops(c)[i])'
    BY <1>1, Zenon DEF Grows, Effective
  <2> QED
    BY <2>1, <2>2, Zenon
<1>3. ASSUME Recognised(c), marks'[c] = marks[c], c >= conn_id' => c >= conn_id
      PROVE  Recognised(c)'
  <2>1. c >= conn_id' => marks'[c] = 0 /\ conn'[c].pc = "none"
    BY <1>3, Zenon DEF Recognised
  <2>2. Live(c)' => marks'[c] <= conn'[c].seq
    BY <1>1, <1>3, Zenon DEF Recognised
  <2>3. ASSUME Busy(c)', marks'[c] = conn'[c].seq
        PROVE  \E i \in DOMAIN Ops(c)' : /\ Ops(c)'[i].seq = conn'[c].seq
                                         /\ Effective(Ops(c)[i])'
                                         /\ Waiting(c)' => i < Len(Ops(c)')
    <3>1. PICK i \in DOMAIN Ops(c) : /\ Ops(c)[i].seq = conn[c].seq
                                     /\ Effective(Ops(c)[i])
                                     /\ Waiting(c) => i < Len(Ops(c))
      BY <1>1, <1>3, <2>3, Zenon DEF Recognised
    <3>2. Effective(Ops(c)[i])'
      BY <1>1, <3>1, Zenon DEF Grows, Effective
    <3> QED
      BY <1>1, <3>1, <3>2, Zenon
  <2> QED
    BY <2>1, <2>2, <2>3, Zenon DEF Recognised
<1> QED
  BY <1>1, <1>2, <1>3, Zenon

\* A connection without a command has nothing to be answered, and the engine may know
\* no number above its own.
LEMMA FrameIdle ==
  ASSUME NEW c, Outs(c)' = << >>, ~Busy(c)'
  PROVE  /\ Answered(c)'
         /\ (c >= conn_id' => marks'[c] = 0 /\ conn'[c].pc = "none")
            /\ (Live(c)' => marks'[c] <= conn'[c].seq) => Recognised(c)'
<1>1. DOMAIN Outs(c)' = {}
  BY NoElements, Zenon
<1> QED
  BY <1>1, Zenon DEF Answered, Recognised

-----------------------------------------------------------------------------
(* The queue *)

LEMMA QueueSame ==
  ASSUME Queued, queue' = queue, exec' = exec, \A d \in Conns : Waiting(d)' = Waiting(d)
  PROVE  Queued'
BY Zenon DEF Queued

LEMMA QueueGone ==
  ASSUME queue' = << >>, exec' = "gone", \A d \in Conns : ~Waiting(d)'
  PROVE  Queued'
<1>1. queue' \in Seq(Conns)
  OBVIOUS
<1>2. DOMAIN queue' = {}
  BY NoElements, Zenon
<1> QED
  BY <1>1, <1>2, Zenon DEF Queued

LEMMA QueueAppend ==
  ASSUME Queued, NEW c \in Conns, queue' = Append(queue, c), exec' = "running",
         ~Waiting(c), Waiting(c)', \A d \in Conns \ {c} : Waiting(d)' = Waiting(d)
  PROVE  Queued'
<1>1. queue \in Seq(Conns) /\ queue' \in Seq(Conns)
  BY DEF Queued
<1>2. /\ Len(queue) \in Nat /\ DOMAIN queue = 1..Len(queue) /\ DOMAIN queue' = 1..(Len(queue) + 1)
      /\ \A i \in 1..Len(queue) : queue'[i] = queue[i]
      /\ queue'[Len(queue) + 1] = c
  BY <1>1
<1>3. \A i \in 1..Len(queue) : queue[i] # c
  BY <1>2, Zenon DEF Queued
<1>4. \A i, j \in DOMAIN queue' : queue'[i] = queue'[j] => i = j
  BY <1>2, <1>3 DEF Queued
<1>5. ASSUME NEW d \in Conns PROVE Waiting(d)' <=> \E i \in DOMAIN queue' : queue'[i] = d
  <2>1. CASE d = c
    BY <1>2, <2>1
  <2>2. CASE d # c
    <3>1. (\E i \in DOMAIN queue' : queue'[i] = d) <=> (\E i \in DOMAIN queue : queue[i] = d)
      BY <1>2, <2>2
    <3> QED
      BY <2>2, <3>1, Zenon DEF Queued
  <2> QED
    BY <2>1, <2>2, Zenon
<1> QED
  BY <1>1, <1>4, <1>5, Zenon DEF Queued

LEMMA QueueTail ==
  ASSUME Queued, queue # << >>, NEW c, c = Head(queue), queue' = Tail(queue), exec' = exec,
         exec = "running", ~Waiting(c)', \A d \in Conns \ {c} : Waiting(d)' = Waiting(d)
  PROVE  Queued'
<1>1. queue \in Seq(Conns) /\ queue' \in Seq(Conns)
  BY DEF Queued
<1>2. /\ Len(queue) \in Nat /\ Len(queue) > 0 /\ DOMAIN queue = 1..Len(queue)
      /\ DOMAIN queue' = 1..(Len(queue) - 1)
      /\ \A i \in 1..(Len(queue) - 1) : queue'[i] = queue[i + 1]
      /\ c = queue[1] /\ c \in Conns
  BY <1>1
<1>3. \A i \in 2..Len(queue) : queue[i] # c
  BY <1>2 DEF Queued
<1>4. \A i, j \in DOMAIN queue' : queue'[i] = queue'[j] => i = j
  <2> SUFFICES ASSUME NEW i \in 1..(Len(queue) - 1), NEW j \in 1..(Len(queue) - 1),
                      queue'[i] = queue'[j]
               PROVE  i = j
    BY <1>2, Zenon
  <2>1. i + 1 \in DOMAIN queue /\ j + 1 \in DOMAIN queue /\ queue[i + 1] = queue[j + 1]
    BY <1>2
  <2>2. i + 1 = j + 1
    BY <2>1, Zenon DEF Queued
  <2> QED
    BY <2>2
<1>5. ASSUME NEW d \in Conns PROVE Waiting(d)' <=> \E i \in DOMAIN queue' : queue'[i] = d
  <2>1. CASE d = c
    BY <1>2, <1>3, <2>1
  <2>2. CASE d # c
    <3>1. ASSUME NEW i \in DOMAIN queue', queue'[i] = d
          PROVE  \E j \in DOMAIN queue : queue[j] = d
      BY <1>2, <3>1
    <3>2. ASSUME NEW j \in DOMAIN queue, queue[j] = d
          PROVE  \E i \in DOMAIN queue' : queue'[i] = d
      <4>1. j # 1 /\ j \in 1..Len(queue)
        BY <1>2, <2>2, <3>2, Zenon
      <4>2. j - 1 \in 1..(Len(queue) - 1) /\ (j - 1) + 1 = j
        BY <1>2, <4>1
      <4>3. queue'[j - 1] = d
        BY <1>2, <3>2, <4>2, Zenon
      <4> QED
        BY <1>2, <4>2, <4>3, Zenon
    <3> QED
      BY <2>2, <3>1, <3>2, Zenon DEF Queued
  <2> QED
    BY <2>1, <2>2, Zenon
<1> QED
  BY <1>1, <1>4, <1>5, Zenon DEF Queued

\* The head of the queue is a waiting connection.
LEMMA HeadWaits ==
  ASSUME Queued, queue # << >>
  PROVE  Head(queue) \in Conns /\ Waiting(Head(queue)) /\ exec = "running"
<1>1. queue \in Seq(Conns) /\ exec = "running"
  BY Zenon DEF Queued
<1>2. Head(queue) \in Conns /\ 1 \in DOMAIN queue /\ queue[1] = Head(queue)
  BY <1>1
<1> QED
  BY <1>1, <1>2, Zenon DEF Queued

-----------------------------------------------------------------------------
(* What the engine has seen *)

\* An operation with a number above its client's last takes effect.
LEMMA EffectMarked ==
  ASSUME Marked, NEW op, op.client \in Conns, op.seq \in Nat, Fresh(op), TakeEffect(op)
  PROVE  /\ Marked' /\ Grows /\ Effective(op)'
         /\ marks'[op.client] = op.seq
         /\ \A c \in Conns \ {op.client} : marks'[c] = marks[c]
<1> DEFINE e == [op |-> op, ts |-> Timestamp]
<1>0. e.op = op
  BY Zenon
<1>1. /\ marks' = [marks EXCEPT ![op.client] = op.seq] /\ hist' = Append(hist, e)
      /\ op.seq > marks[op.client]
  BY Zenon DEF TakeEffect, Fresh
<1> HIDE DEF e
<1>2. marks \in [Conns -> Nat] /\ IsSeq(hist)
  BY Zenon DEF Marked
<1>3. /\ marks' \in [Conns -> Nat] /\ marks'[op.client] = op.seq
      /\ \A c \in Conns \ {op.client} : marks'[c] = marks[c]
  BY <1>1, <1>2, Zenon
<1>4. /\ IsSeq(hist') /\ Len(hist) \in Nat /\ DOMAIN hist = 1..Len(hist)
      /\ DOMAIN hist' = 1..(Len(hist) + 1)
      /\ \A i \in 1..Len(hist) : hist'[i] = hist[i]
      /\ hist'[Len(hist) + 1] = e
  BY <1>1, <1>2, Appended, SeqFacts
<1>5. \A i \in 1..Len(hist) : /\ hist[i].op.client \in Conns /\ hist[i].op.seq \in Nat
                              /\ hist[i].op.seq <= marks[hist[i].op.client]
  BY <1>4, Zenon DEF Marked
<1>6. ASSUME NEW i \in DOMAIN hist'
      PROVE  /\ hist'[i].op.client \in Conns /\ hist'[i].op.seq \in Nat
             /\ hist'[i].op.seq <= marks'[hist'[i].op.client]
  <2>1. CASE i = Len(hist) + 1
    BY <1>0, <1>3, <1>4, <2>1
  <2>2. CASE i \in 1..Len(hist)
    <3>1. /\ hist'[i] = hist[i] /\ hist[i].op.client \in Conns /\ hist[i].op.seq \in Nat
          /\ hist[i].op.seq <= marks[hist[i].op.client]
      BY <1>4, <1>5, <2>2, Zenon
    <3>2. CASE hist[i].op.client = op.client
      <4>1. marks[op.client] \in Nat
        BY <1>2, Zenon
      <4> QED
        BY <1>1, <1>3, <3>1, <3>2, <4>1
    <3>3. CASE hist[i].op.client # op.client
      BY <1>3, <3>1, <3>3, Zenon
    <3> QED
      BY <3>2, <3>3, Zenon
  <2> QED
    BY <1>4, <2>1, <2>2
<1>7. ASSUME NEW i \in DOMAIN hist', NEW j \in DOMAIN hist', i < j,
             hist'[i].op.client = hist'[j].op.client
      PROVE  hist'[i].op.seq < hist'[j].op.seq
  <2>1. i \in 1..Len(hist) /\ hist'[i] = hist[i]
    BY <1>4, <1>7
  <2>2. CASE j = Len(hist) + 1
    <3>1. hist'[j].op = op
      BY <1>0, <1>4, <2>2, Zenon
    <3>2. hist[i].op.seq \in Nat /\ hist[i].op.seq <= marks[op.client] /\ marks[op.client] \in Nat
      BY <1>2, <1>5, <1>7, <2>1, <3>1, Zenon
    <3> QED
      BY <1>1, <2>1, <3>1, <3>2
  <2>3. CASE j \in 1..Len(hist)
    BY <1>4, <1>7, <2>1, <2>3, Zenon DEF Marked, Service!OnceEach
  <2> QED
    BY <1>4, <2>2, <2>3
<1>11. LastClient'
  <2>1. PICK n \in 0..MaxConn : /\ n = 0 \/ marks[n] > 0
                                /\ \A c \in Conns : marks[c] > 0 => c <= n
    BY Zenon DEF Marked, LastClient
  <2>2. op.client \in Nat /\ op.client > 0 /\ op.client \in 0..MaxConn /\ n \in Nat
    BY BoundsAssumption DEF Conns
  <2>3. marks'[op.client] > 0
    BY <1>1, <1>2, <1>3
  <2>4. CASE op.client <= n
    <3>1. n = 0 \/ marks'[n] > 0
      BY <1>3, <2>1, <2>2, <2>3, <2>4 DEF Conns
    <3>2. \A c \in Conns : marks'[c] > 0 => c <= n
      BY <1>3, <2>1, <2>4, Zenon
    <3> QED
      BY <3>1, <3>2, Zenon DEF LastClient
  <2>5. CASE ~(op.client <= n)
    <3>1. ASSUME NEW c \in Conns, marks'[c] > 0 PROVE c <= op.client
      <4>1. c \in Nat
        BY DEF Conns
      <4> QED
        BY <1>3, <2>1, <2>2, <2>5, <3>1, <4>1
    <3> QED
      BY <2>2, <2>3, <3>1, Zenon DEF LastClient
  <2> QED
    BY <2>4, <2>5, Zenon
<1>8. Marked'
  BY <1>3, <1>4, <1>6, <1>7, <1>11, Zenon DEF Marked, Service!OnceEach
<1>9. Effective(op)'
  BY <1>0, <1>4 DEF Effective
<1>10. Grows
  <2> SUFFICES ASSUME NEW x, Effective(x) PROVE Effective(x)'
    BY Zenon DEF Grows
  <2>1. PICK i \in DOMAIN hist : hist[i].op = x
    BY Zenon DEF Effective
  <2>2. i \in DOMAIN hist' /\ hist'[i].op = x
    BY <1>4, <2>1
  <2> QED
    BY <2>2, Zenon DEF Effective
<1> QED
  BY <1>3, <1>8, <1>9, <1>10, Zenon

\* The job at the head of the queue.
LEMMA JobIs ==
  ASSUME OnceInv, queue # << >>, NEW c, c = Head(queue)
  PROVE  /\ c \in Conns /\ Waiting(c) /\ Busy(c) /\ exec = "running" /\ ConnOK(c)
         /\ Recognised(c) /\ Answered(c)
         /\ Len(Ops(c)) \in DOMAIN Ops(c) /\ Job = Ops(c)[Len(Ops(c))]
         /\ Len(Ops(c)) \in Nat /\ DOMAIN Ops(c) = 1..Len(Ops(c))
         /\ Job.client = c /\ Job.seq = conn[c].seq /\ Job.seq \in Nat
<1>1. c \in Conns /\ Waiting(c) /\ exec = "running"
  BY HeadWaits, Zenon DEF OnceInv
<1>2. ConnOK(c) /\ Recognised(c) /\ Answered(c) /\ Busy(c)
  BY <1>1, Zenon DEF OnceInv, ConnInv, Recognises, Waiting, Busy
<1>3. /\ Len(Ops(c)) \in Nat /\ DOMAIN Ops(c) = 1..Len(Ops(c)) /\ Len(Ops(c)) > 0
  BY <1>2, SeqFacts, Zenon DEF ConnOK, Threaded
<1>4. Len(Ops(c)) \in DOMAIN Ops(c)
  BY <1>3
<1>5. Job = Ops(c)[Len(Ops(c))]
  BY Zenon DEF Job, Ops
<1>6. LET x == Ops(c)[Len(Ops(c))]
      IN  x = [client |-> c, seq |-> x.seq, kind |-> x.kind] /\ x.seq \in Nat
          /\ x.seq = conn[c].seq
  BY <1>2, <1>4, Zenon DEF ConnOK, Numbered
<1>7. Job.client = c /\ Job.seq = conn[c].seq /\ Job.seq \in Nat
  BY <1>5, <1>6
<1> QED
  BY <1>1, <1>2, <1>3, <1>4, <1>5, <1>7, Zenon

\* The executor answers the connection at the head of the queue.
LEMMA AnswerOnce ==
  ASSUME OnceInv, queue # << >>, NEW c, c = Head(queue), NEW job, job = Job, NEW out,
         conn' = Answer(c, out), queue' = Tail(queue), UNCHANGED <<proto, server, exec>>,
         Marked', Grows, \A d \in Conns \ {c} : marks'[d] = marks[d],
         out = Suppressed => SeqPerCommand /\ Len(Ops(c)) > 1,
         IsWrite(job.kind) /\ out \notin {None, Suppressed} => Effective(job)',
         marks'[c] <= conn[c].seq,
         marks'[c] = conn[c].seq => \E i \in DOMAIN Ops(c) : /\ Ops(c)[i].seq = conn[c].seq
                                                             /\ Effective(Ops(c)[i])'
  PROVE  OnceInv'
<1>0. proto' = proto /\ exec' = exec /\ up' = up /\ conn_id' = conn_id /\ accept' = accept
  BY Zenon DEF server
<1>1. /\ c \in Conns /\ Waiting(c) /\ Busy(c) /\ exec = "running" /\ ConnOK(c)
      /\ Recognised(c) /\ Answered(c) /\ Job = Ops(c)[Len(Ops(c))]
      /\ Len(Ops(c)) \in Nat
  BY JobIs, Zenon
<1>2. conn' = [conn EXCEPT ![c] = AnsweredConn(c, out)]
  BY Zenon DEF Answer, AnsweredConn
<1>3. /\ conn'[c] = AnsweredConn(c, out)
      /\ \A d \in Conns \ {c} : conn'[d] = conn[d]
  BY <1>1, <1>2, ConnExcept, Zenon DEF OnceInv
<1>4. /\ ConnOK(c)' /\ ~Waiting(c)' /\ Busy(c)'
      /\ conn'[c].seq = conn[c].seq /\ Ops(c)' = Ops(c)
      /\ Outs(c)' = Append(Outs(c), out) /\ Len(Outs(c)) + 1 = Len(Ops(c))
  BY <1>0, <1>1, <1>3, ConnAnswered, Zenon
<1>5. ConnInv'
  BY <1>1, <1>2, <1>4, ConnOne, Zenon DEF OnceInv
<1>6. \A d \in Conns \ {c} : Waiting(d)' = Waiting(d) /\ Answered(d)' /\ Recognised(d)'
  BY <1>1, <1>3, Frame, Zenon DEF OnceInv, Recognises, server
<1>7. Queued'
  BY <1>1, <1>4, <1>6, QueueTail, Zenon DEF OnceInv
<1>8. Started'
  <2>1. up /\ up' = up /\ conn_id' = conn_id /\ accept' = accept
    BY <1>1, Zenon DEF OnceInv, Started, server
  <2> QED
    BY <2>1, Zenon DEF OnceInv, Started
<1>9. Recognised(c)'
  <2>1. ~(c >= conn_id')
    BY <1>1, Zenon DEF Recognised, Busy, server
  <2>2. Live(c)' => marks'[c] <= conn'[c].seq
    BY <1>4, Zenon
  <2>3. ASSUME marks'[c] = conn'[c].seq
        PROVE  \E i \in DOMAIN Ops(c)' : /\ Ops(c)'[i].seq = conn'[c].seq
                                         /\ Effective(Ops(c)[i])'
                                         /\ Waiting(c)' => i < Len(Ops(c)')
    BY <1>4, <2>3, Zenon
  <2> QED
    BY <2>1, <2>2, <2>3, Zenon DEF Recognised
<1>10. Answered(c)'
  <2>1. /\ IsSeq(Outs(c)) /\ Len(Outs(c)) \in Nat /\ DOMAIN Outs(c) = 1..Len(Outs(c))
    BY <1>1, SeqFacts, Zenon DEF ConnOK, Threaded
  <2>2. /\ DOMAIN Outs(c)' = 1..(Len(Outs(c)) + 1)
        /\ \A i \in 1..Len(Outs(c)) : Outs(c)'[i] = Outs(c)[i]
        /\ Outs(c)'[Len(Outs(c)) + 1] = out
    BY <1>4, <2>1, Appended
  <2>3. SeqPerCommand' = SeqPerCommand
    BY Zenon DEF SeqPerCommand
  <2>4. ASSUME NEW i \in DOMAIN Outs(c)'
        PROVE  /\ Outs(c)'[i] = Suppressed => SeqPerCommand /\ i > 1
               /\ IsWrite(Ops(c)[i].kind) /\ Outs(c)'[i] \notin {None, Suppressed}
                    => Effective(Ops(c)[i])'
    <3>1. CASE i = Len(Outs(c)) + 1
      <4>1. Outs(c)'[i] = out /\ i = Len(Ops(c)) /\ Ops(c)[i] = job
        BY <1>1, <1>4, <2>2, <3>1, Zenon
      <4>2. Effective(job)' => Effective(Ops(c)[i])'
        BY <1>4, <4>1, Zenon DEF Effective
      <4> QED
        BY <4>1, <4>2, Zenon
    <3>2. CASE i \in 1..Len(Outs(c))
      <4>1. /\ Outs(c)[i] = Suppressed => SeqPerCommand /\ i > 1
            /\ IsWrite(Ops(c)[i].kind) /\ Outs(c)[i] \notin {None, Suppressed}
                 => Effective(Ops(c)[i])
        BY <1>1, <2>1, <3>2, Zenon DEF Answered
      <4>2. Effective(Ops(c)[i]) => Effective(Ops(c)[i])'
        BY <1>4, Zenon DEF Grows, Effective
      <4> QED
        BY <2>2, <3>2, <4>1, <4>2, Zenon
    <3> QED
      BY <2>1, <2>2, <3>1, <3>2
  <2> QED
    BY <1>4, <2>3, <2>4, Zenon DEF Answered
<1> QED
  BY <1>5, <1>6, <1>7, <1>8, <1>9, <1>10, Zenon DEF OnceInv, Recognises

-----------------------------------------------------------------------------
(* The executor *)

\* What the engine computes is neither a suppressed nor a missing answer.
LEMMA ApplyAnswers ==
  ASSUME NEW m, NEW kind, kind.tag \in Tags \ {"Len"}
  PROVE  Apply(m, kind).out \notin {None, Suppressed}
<1>1. CASE kind.tag = "Set"
  BY <1>1, Zenon DEF Apply, Ok, None, Suppressed
<1>2. CASE kind.tag = "Incr"
  <2>1. Apply(m, kind).out.tag = "Value"
    BY <1>2, Zenon DEF Apply, Incremented, Value
  <2> QED
    BY <2>1 DEF None, Suppressed
<1>3. CASE kind.tag = "Del"
  <2>1. Apply(m, kind).out.tag = "Value"
    BY <1>3, Zenon DEF Apply, Value
  <2> QED
    BY <2>1 DEF None, Suppressed
<1>4. CASE kind.tag = "Get"
  <2>1. Apply(m, kind).out.tag \in {"Bytes", "NoBytes"}
    BY <1>4, Zenon DEF Apply, Bytes, NoBytes
  <2> QED
    BY <2>1 DEF None, Suppressed
<1>5. CASE kind.tag = "Txn"
  <2>1. Apply(m, kind).out.tag = "Value"
    BY <1>5, Zenon DEF Apply, Value
  <2> QED
    BY <2>1 DEF None, Suppressed
<1> QED
  BY <1>1, <1>2, <1>3, <1>4, <1>5, Zenon DEF Tags

\* What the engine has seen of the connection at the head of the queue.
LEMMA HeadSeen ==
  ASSUME OnceInv, queue # << >>, NEW c, c = Head(queue)
  PROVE  /\ marks[c] \in Nat /\ marks[c] <= conn[c].seq
         /\ marks[c] = conn[c].seq =>
              \E i \in DOMAIN Ops(c) : /\ Ops(c)[i].seq = conn[c].seq /\ Effective(Ops(c)[i])
                                       /\ i < Len(Ops(c))
<1>1. c \in Conns /\ Waiting(c) /\ Busy(c) /\ Recognised(c)
  BY JobIs, Zenon
<1>2. Live(c)
  BY <1>1, Zenon DEF Busy, Live
<1>3. marks[c] \in Nat
  BY <1>1, Zenon DEF OnceInv, Marked, LastClient
<1> QED
  BY <1>1, <1>2, <1>3, Zenon DEF Recognised

\* The operations of the connection at the head of the queue stay, and with them what
\* the engine has seen of it, unless the engine sees more.
LEMMA HeadKept ==
  ASSUME OnceInv, queue # << >>, NEW c, c = Head(queue), NEW out, conn' = Answer(c, out),
         proto' = proto, Grows
  PROVE  /\ Ops(c)' = Ops(c)
         /\ marks' = marks /\ marks'[c] = conn[c].seq =>
              \E i \in DOMAIN Ops(c) : Ops(c)[i].seq = conn[c].seq /\ Effective(Ops(c)[i])'
<1>1. c \in Conns /\ ConnOK(c) /\ Waiting(c)
  BY JobIs, Zenon
<1>2. conn' = [conn EXCEPT ![c] = AnsweredConn(c, out)]
  BY Zenon DEF Answer, AnsweredConn
<1>3. conn'[c] = AnsweredConn(c, out)
  BY <1>1, <1>2, ConnExcept, Zenon DEF OnceInv
<1>4. Ops(c)' = Ops(c)
  BY <1>1, <1>3, ConnAnswered, Zenon
<1>5. ASSUME marks' = marks, marks'[c] = conn[c].seq
      PROVE  \E i \in DOMAIN Ops(c) : Ops(c)[i].seq = conn[c].seq /\ Effective(Ops(c)[i])'
  <2>1. PICK i \in DOMAIN Ops(c) : Ops(c)[i].seq = conn[c].seq /\ Effective(Ops(c)[i])
    BY <1>5, HeadSeen, Zenon
  <2>2. Effective(Ops(c)[i])'
    BY <1>4, <2>1, Zenon DEF Grows, Effective
  <2> QED
    BY <2>1, <2>2, Zenon
<1> QED
  BY <1>4, <1>5, Zenon

\* An answer that is missing says nothing.
LEMMA AnsweredNone ==
  ASSUME NEW c, Answered(c), Grows, proto' = proto, NEW ops, IsSeq(Outs(c)),
         Ops(c)' = ops, \A i \in DOMAIN Outs(c) : ops[i] = Ops(c)[i],
         Outs(c)' = Append(Outs(c), None)
  PROVE  Answered(c)'
<1>1. Len(Outs(c)) \in Nat /\ DOMAIN Outs(c) = 1..Len(Outs(c))
  BY SeqFacts, Zenon
<1>2. /\ DOMAIN Outs(c)' = 1..(Len(Outs(c)) + 1)
      /\ \A i \in 1..Len(Outs(c)) : Outs(c)'[i] = Outs(c)[i]
      /\ Outs(c)'[Len(Outs(c)) + 1] = None
  BY Appended
<1>3. None # Suppressed
  BY Zenon DEF None, Suppressed
<1>4. SeqPerCommand' = SeqPerCommand
  BY Zenon DEF SeqPerCommand
<1>5. ASSUME NEW i \in DOMAIN Outs(c)'
      PROVE  /\ Outs(c)'[i] = Suppressed => SeqPerCommand /\ i > 1
             /\ IsWrite(ops[i].kind) /\ Outs(c)'[i] \notin {None, Suppressed}
                  => Effective(Ops(c)[i])'
  <2>1. CASE i = Len(Outs(c)) + 1
    BY <1>2, <1>3, <2>1, Zenon
  <2>2. CASE i \in 1..Len(Outs(c))
    <3>1. /\ Outs(c)[i] = Suppressed => SeqPerCommand /\ i > 1
          /\ IsWrite(ops[i].kind) /\ Outs(c)[i] \notin {None, Suppressed} => Effective(ops[i])
      BY <1>1, <2>2, Zenon DEF Answered
    <3>2. Effective(ops[i]) => Effective(Ops(c)[i])'
      BY Zenon DEF Grows, Effective
    <3> QED
      BY <1>2, <2>2, <3>1, <3>2, Zenon
  <2> QED
    BY <1>1, <1>2, <2>1, <2>2
<1> QED
  BY <1>4, <1>5, Zenon DEF Answered

LEMMA ExecuteLenOnce == OnceInv /\ ExecuteLen => OnceInv'
<1> SUFFICES ASSUME OnceInv, ExecuteLen PROVE OnceInv'
  BY Zenon
<1>1. PICK c, out : c = Head(queue) /\ out = Value(Cardinality(DOMAIN store))
  BY Zenon
<1>2. /\ queue # << >> /\ queue' = Tail(queue) /\ conn' = Answer(c, out)
      /\ UNCHANGED <<proto, server, exec>> /\ marks' = marks /\ hist' = hist
      /\ Job.kind.tag = "Len"
  BY <1>1, Zenon DEF ExecuteLen, fixed, engine
<1>3. Grows
  BY <1>2, SameHist, Zenon
<1>4. Marked'
  BY <1>2, Zenon DEF OnceInv, Marked, LastClient
<1>5. out # Suppressed
  <2>1. out.tag = "Value"
    BY <1>1, Zenon DEF Value
  <2> QED
    BY <2>1 DEF Suppressed
<1>6. marks'[c] <= conn[c].seq /\ \A d \in Conns \ {c} : marks'[d] = marks[d]
  BY <1>1, <1>2, HeadSeen, Zenon
<1>7. PICK job : job = Job
  BY Zenon
<1>8. ~IsWrite(job.kind)
  BY <1>2, <1>7, Zenon DEF IsWrite
<1>9. marks'[c] = conn[c].seq =>
        \E i \in DOMAIN Ops(c) : Ops(c)[i].seq = conn[c].seq /\ Effective(Ops(c)[i])'
  BY <1>1, <1>2, <1>3, HeadKept, Zenon
<1> QED
  BY <1>1, <1>2, <1>3, <1>4, <1>5, <1>6, <1>7, <1>8, <1>9, AnswerOnce, Zenon

\* A job whose number is used: an earlier operation of its command has it.
LEMMA ExecuteDuplicateOnce == OnceInv /\ ExecuteDuplicate => OnceInv'
<1> SUFFICES ASSUME OnceInv, ExecuteDuplicate PROVE OnceInv'
  BY Zenon
<1>1. PICK c, job : c = Head(queue) /\ job = Job
  BY Zenon
<1>2. /\ queue # << >> /\ queue' = Tail(queue) /\ conn' = Answer(c, Suppressed)
      /\ UNCHANGED <<proto, server, exec>> /\ marks' = marks /\ hist' = hist
      /\ ~Fresh(job)
  BY <1>1, Zenon DEF ExecuteDuplicate, fixed, engine
<1>3. Grows
  BY <1>2, SameHist, Zenon
<1>4. Marked'
  BY <1>2, Zenon DEF OnceInv, Marked, LastClient
<1>5. /\ marks[c] \in Nat /\ marks[c] <= conn[c].seq
      /\ \A d \in Conns \ {c} : marks'[d] = marks[d]
  BY <1>1, <1>2, HeadSeen, Zenon
<1>6. marks'[c] = conn[c].seq =>
        \E i \in DOMAIN Ops(c) : Ops(c)[i].seq = conn[c].seq /\ Effective(Ops(c)[i])'
  BY <1>1, <1>2, <1>3, HeadKept, Zenon
<1>7. SeqPerCommand /\ Len(Ops(c)) > 1
  <2>1. /\ job.client = c /\ job.seq = conn[c].seq /\ job.seq \in Nat /\ ConnOK(c)
        /\ Len(Ops(c)) \in Nat /\ DOMAIN Ops(c) = 1..Len(Ops(c))
    BY <1>1, <1>2, JobIs, Zenon
  <2>2. marks[c] = conn[c].seq
    BY <1>2, <1>5, <2>1 DEF Fresh
  <2>3. PICK i \in DOMAIN Ops(c) : Ops(c)[i].seq = conn[c].seq /\ i < Len(Ops(c))
    BY <1>1, <1>2, <2>2, HeadSeen, Zenon
  <2>4. IF SeqPerCommand \/ i = Len(Ops(c)) THEN Ops(c)[i].seq = conn[c].seq
                                            ELSE Ops(c)[i].seq < conn[c].seq
    BY <2>1, Zenon DEF ConnOK, Numbered
  <2>5. SeqPerCommand
    BY <2>1, <2>3, <2>4
  <2> QED
    BY <2>1, <2>3, <2>5
<1> QED
  BY <1>1, <1>2, <1>3, <1>4, <1>5, <1>6, <1>7, AnswerOnce, Zenon

\* A new job takes effect before it is answered.
LEMMA ExecuteFreshOnce == OnceInv /\ ExecuteFresh => OnceInv'
<1> SUFFICES ASSUME OnceInv, ExecuteFresh PROVE OnceInv'
  BY Zenon
<1>1. PICK c, job, out : c = Head(queue) /\ job = Job /\ out = Apply(store, Job.kind).out
  BY Zenon
<1>2. /\ queue # << >> /\ queue' = Tail(queue) /\ conn' = Answer(c, out)
      /\ UNCHANGED <<proto, server, exec>> /\ TakeEffect(job) /\ Fresh(job)
      /\ job.kind.tag # "Len"
  BY <1>1, Zenon DEF ExecuteFresh, fixed
<1>3. /\ c \in Conns /\ job.client = c /\ job.seq = conn[c].seq /\ job.seq \in Nat /\ ConnOK(c)
      /\ Len(Ops(c)) \in DOMAIN Ops(c) /\ job = Ops(c)[Len(Ops(c))]
  BY <1>1, <1>2, JobIs, Zenon
<1>4. /\ Marked' /\ Grows /\ Effective(job)' /\ marks'[c] = job.seq
      /\ \A d \in Conns \ {c} : marks'[d] = marks[d]
  BY <1>2, <1>3, EffectMarked, Zenon DEF OnceInv
<1>5. out # Suppressed
  <2>1. job.kind.tag \in Tags \ {"Len"}
    BY <1>2, <1>3, Zenon DEF ConnOK, Numbered
  <2> QED
    BY <1>1, <2>1, ApplyAnswers, Zenon
<1>6. Ops(c)' = Ops(c)
  BY <1>1, <1>2, <1>4, HeadKept, Zenon
<1>7. \E i \in DOMAIN Ops(c) : Ops(c)[i].seq = conn[c].seq /\ Effective(Ops(c)[i])'
  <2>1. Effective(Ops(c)[Len(Ops(c))])'
    BY <1>3, <1>4, <1>6, Zenon DEF Effective
  <2> QED
    BY <1>3, <2>1, <1>6, Zenon
<1>8. marks'[c] <= conn[c].seq
  BY <1>3, <1>4
<1> QED
  BY <1>1, <1>2, <1>4, <1>5, <1>7, <1>8, AnswerOnce, Zenon

\* The executor ends with an error: all who wait get no answer.
LEMMA ExecuteFailsOnce == OnceInv /\ ExecuteFails => OnceInv'
<1> SUFFICES ASSUME OnceInv, ExecuteFails PROVE OnceInv'
  BY Zenon
<1>1. PICK c, job : c = Head(queue) /\ job = Job
  BY Zenon
<1>2. /\ queue # << >> /\ UNCHANGED <<proto, server>> /\ Fresh(job)
      /\ TakeEffect(job) \/ UNCHANGED engine
      /\ exec = "running" /\ DropQueue
  BY <1>1, Zenon DEF ExecuteFails, fixed
<1>3. c \in Conns /\ job.client = c /\ job.seq \in Nat
  BY <1>1, <1>2, JobIs, Zenon
<1>4. Marked' /\ Grows
  <2>1. CASE TakeEffect(job)
    BY <1>2, <1>3, <2>1, EffectMarked, Zenon DEF OnceInv
  <2>2. CASE UNCHANGED engine
    <3>1. hist' = hist /\ marks' = marks
      BY <2>2, Zenon DEF engine
    <3> QED
      BY <3>1, SameHist, Zenon DEF OnceInv, Marked, LastClient
  <2> QED
    BY <1>2, <2>1, <2>2, Zenon
<1>5. exec' = "gone" /\ queue' = << >> /\ proto' = proto
  BY <1>2, Zenon DEF DropQueue
<1>6. \A d \in Conns : conn'[d] = IF Waiting(d) THEN AnsweredConn(d, None) ELSE conn[d]
  BY <1>2, Zenon DEF DropQueue, AnsweredConn
<1>7. conn' = [d \in Conns |-> conn'[d]]
  BY <1>2, Zenon DEF DropQueue
<1>8. ASSUME NEW d \in Conns PROVE ConnOK(d)' /\ ~Waiting(d)' /\ Answered(d)'
  <2>0. ConnOK(d) /\ Answered(d)
    BY Zenon DEF OnceInv, ConnInv
  <2>1. CASE ~Waiting(d)
    <3>1. conn'[d] = conn[d]
      BY <1>6, <2>1, Zenon
    <3> QED
      BY <1>4, <1>5, <2>0, <2>1, <3>1, ConnSame, Frame, Zenon
  <2>2. CASE Waiting(d)
    <3>1. conn'[d] = AnsweredConn(d, None)
      BY <1>6, <2>2, Zenon
    <3>2. /\ ConnOK(d)' /\ ~Waiting(d)' /\ Ops(d)' = Ops(d)
          /\ Outs(d)' = Append(Outs(d), None)
      BY <1>5, <2>0, <2>2, <3>1, ConnAnswered, Zenon
    <3>3. Answered(d)'
      <4>1. IsSeq(Outs(d))
        BY <2>0, Zenon DEF ConnOK, Threaded
      <4> QED
        BY <1>4, <1>5, <2>0, <3>2, <4>1, AnsweredNone, Zenon
    <3> QED
      BY <3>2, <3>3, Zenon
  <2> QED
    BY <2>1, <2>2, Zenon
<1>9. ConnInv'
  BY <1>7, <1>8, Zenon DEF ConnInv
<1>10. Queued'
  BY <1>5, <1>8, QueueGone, Zenon
<1>11. Started'
  <2>1. up /\ up' = up /\ conn_id' = conn_id
    BY <1>2, Zenon DEF OnceInv, Started, server
  <2> QED
    BY <1>5, <2>1, Zenon DEF OnceInv, Started
<1> QED
  BY <1>4, <1>5, <1>8, <1>9, <1>10, <1>11, Zenon DEF OnceInv, Recognises
=============================================================================
