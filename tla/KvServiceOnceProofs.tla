------------------------- MODULE KvServiceOnceProofs -------------------------
(***************************************************************************)
(* Proofs about the server, for any number of connections, commands, stops *)
(* and engine errors: every operation has at most one effect, none is      *)
(* suppressed for another command's, and as seen by its connections the    *)
(* server is the exactly-once service.  Last, the five kinds of step.      *)
(***************************************************************************)
EXTENDS KvServiceProofs

-----------------------------------------------------------------------------
(* The connection threads *)

Idles(c, p, q, b, t) == conn' = [conn EXCEPT ![c] = IdleConn(p, q, b, t)]

\* A connection without a job gets rid of its command: it is new, has replied, or ends.
LEMMA IdleOnce ==
  ASSUME OnceInv, NEW c \in Conns, ~Waiting(c), up,
         NEW p \in {"read", "closed"}, NEW q \in Nat, NEW b, NEW t,
         Idles(c, p, q, b, t),
         UNCHANGED <<proto, queue, exec, marks, hist, up, accept>>,
         conn_id' \in Nat, conn_id' >= conn_id,
         exec = "running" => c < conn_id' /\ (p = "read" => marks[c] <= q)
  PROVE  OnceInv'
<1>1. /\ conn'[c] = IdleConn(p, q, b, t)
      /\ \A d \in Conns \ {c} : conn'[d] = conn[d]
  BY ConnExcept, Zenon DEF OnceInv, Idles
<1>2. /\ ConnOK(c)' /\ ~Waiting(c)' /\ ~Busy(c)' /\ Outs(c)' = << >>
      /\ conn'[c].pc = p /\ conn'[c].seq = q
  BY <1>1, ConnIdle
<1>3. ConnInv'
  BY <1>2, ConnOne, Zenon DEF OnceInv, Idles
<1>4. Grows /\ Marked'
  BY SameHist, Zenon DEF OnceInv, Marked, LastClient
<1>5. ASSUME NEW d \in Conns \ {c}
      PROVE  Waiting(d)' = Waiting(d) /\ Answered(d)' /\ (exec = "running" => Recognised(d)')
  <2>1. d >= conn_id' => d >= conn_id
    BY DEF Conns, OnceInv, Started
  <2> QED
    BY <1>1, <1>4, <2>1, Frame, Zenon DEF OnceInv, Recognises
<1>6. Queued'
  <2>1. Waiting(c)' = Waiting(c)
    BY <1>2, Zenon DEF Waiting
  <2> QED
    BY <1>5, <2>1, QueueSame, Zenon DEF OnceInv
<1>7. Started'
  BY DEF OnceInv, Started
<1>8. Answered(c)' /\ (exec = "running" => Recognised(c)')
  <2>1. Answered(c)'
    BY <1>2, FrameIdle, Zenon
  <2>2. ASSUME exec = "running" PROVE Recognised(c)'
    <3>1. ~(c >= conn_id')
      BY <2>2 DEF Conns
    <3>2. Live(c)' => marks'[c] <= conn'[c].seq
      BY <1>2, <2>2, Zenon DEF Live
    <3> QED
      BY <1>2, <3>1, <3>2, FrameIdle, Zenon
  <2> QED
    BY <2>1, <2>2, Zenon
<1> QED
  BY <1>3, <1>4, <1>5, <1>6, <1>7, <1>8, Zenon DEF OnceInv, Recognises

\* A live connection belongs to a started server, and its id has been given out.
LEMMA LiveIs ==
  ASSUME OnceInv, NEW c \in Conns, Live(c)
  PROVE  /\ up /\ conn_id \in Nat /\ conn_id >= conn_id
         /\ exec = "running" => c < conn_id /\ marks[c] <= conn[c].seq
<1>1. up /\ conn_id \in Nat
  BY Zenon DEF OnceInv, Started, Live
<1>2. ASSUME exec = "running" PROVE c < conn_id /\ marks[c] <= conn[c].seq
  <2>1. Recognised(c)
    BY <1>2, Zenon DEF OnceInv, Recognises
  <2>2. ~(c >= conn_id) /\ marks[c] <= conn[c].seq
    BY <2>1, Zenon DEF Recognised, Live
  <2> QED
    BY <1>1, <2>2 DEF Conns
<1> QED
  BY <1>1, <1>2

\* The client leaves, or the thread sees that the server stops.
LEMMA LeaveOnce ==
  ASSUME OnceInv, NEW c \in Conns, Disconnect(c) \/ ReadTimeout(c)
  PROVE  OnceInv'
<1>1. /\ ~Waiting(c) /\ Live(c)
      /\ conn' = [conn EXCEPT ![c] = [NoConn EXCEPT !.pc = "closed"]]
      /\ UNCHANGED <<proto, queue, exec, marks, hist, up, accept>> /\ conn_id' = conn_id
  BY Zenon DEF Disconnect, ReadTimeout, Streaming, Waiting, Live, fixed, engine, server
<1>2. Idles(c, "closed", 0, << >>, FALSE)
  BY <1>1, IdleForms, Zenon DEF Idles
<1>3. /\ up /\ conn_id' \in Nat /\ conn_id' >= conn_id
      /\ exec = "running" => c < conn_id'
  BY <1>1, LiveIs, Zenon
<1> QED
  BY <1>1, <1>2, <1>3, IdleOnce, Zenon

LEMMA ReplyForm ==
  ASSUME NEW c, NEW q, NEW b, NEW t,
         conn' = [conn EXCEPT ![c] =
                    [NoConn EXCEPT !.pc = "read", !.seq = q, !.buf = b, !.in_txn = t]]
  PROVE  Idles(c, "read", q, b, t)
<1>1. ASSUME NEW x, x = [NoConn EXCEPT !.pc = "read", !.seq = q, !.buf = b, !.in_txn = t]
      PROVE  x = IdleConn("read", q, b, t)
  BY <1>1, Zenon DEF NoConn, IdleConn
<1> QED
  BY <1>1, Zenon DEF Idles

\* The front end replies, or finds the connection broken.
LEMMA RespondOnce ==
  ASSUME OnceInv, NEW c \in Conns, NEW k, NEW first, Prepared(c, k, first), NEW q \in Nat,
         q >= conn[c].seq, NEW r, Respond(c, k, q, r),
         UNCHANGED <<proto, exec, marks, hist, up, accept, conn_id>>
  PROVE  OnceInv'
<1>1. ~Waiting(c) /\ Live(c) /\ conn[c].seq \in Nat
  BY PreparedFacts, Zenon DEF OnceInv, ConnInv
<1>2. queue' = queue
  BY Zenon DEF Respond
<1>3. /\ up /\ conn_id' \in Nat /\ conn_id' >= conn_id
      /\ exec = "running" => c < conn_id' /\ marks[c] <= conn[c].seq
  BY <1>1, LiveIs, Zenon
<1>4. exec = "running" => marks[c] <= q
  <2>1. marks[c] \in Nat
    BY Zenon DEF OnceInv, Marked, LastClient
  <2> QED
    BY <1>1, <1>3, <2>1, SMTT(30)
<1>5. CASE conn' = [conn EXCEPT ![c] = [NoConn EXCEPT !.pc = "closed"]]
  <2>1. Idles(c, "closed", 0, << >>, FALSE)
    BY <1>5, IdleForms, Zenon DEF Idles
  <2> QED
    BY <1>1, <1>2, <1>3, <2>1, IdleOnce, Zenon
<1>6. ASSUME NEW b, NEW t,
             conn' = [conn EXCEPT ![c] =
                        [NoConn EXCEPT !.pc = "read", !.seq = q, !.buf = b, !.in_txn = t]]
      PROVE  OnceInv'
  <2>1. Idles(c, "read", q, b, t)
    BY <1>6, ReplyForm, Zenon
  <2>2. exec = "running" => c < conn_id' /\ marks[c] <= q
    BY <1>3, <1>4, Zenon
  <2> QED
    BY <1>1, <1>2, <1>3, <2>1, <2>2, IdleOnce, Zenon
<1> QED
  BY <1>5, <1>6, Zenon DEF Respond

\* What KvService::apply does to the connection and to the queue.
LEMMA RequestForm ==
  ASSUME NEW c, NEW k, NEW first, Prepared(c, k, first), NEW op,
         op = [client |-> c, seq |-> op.seq, kind |-> op.kind], Request(c, k, op.seq, op.kind)
  PROVE  \E o : /\ IF exec = "running" THEN o = Outs(c) /\ queue' = Append(queue, c)
                                       ELSE o = Append(Outs(c), None) /\ queue' = queue
               /\ conn' = [conn EXCEPT ![c] = AskedConn(c, k, op, o)]
<1>1. LET b == [k EXCEPT !.pc = "busy", !.seq = op.seq, !.ops = Append(@, op)]
      IN  /\ b = AskedConn(c, k, op, Outs(c))
          /\ [b EXCEPT !.outs = Append(@, None)] = AskedConn(c, k, op, Append(Outs(c), None))
  BY AskForm, Zenon
<1>2. CASE exec = "running"
  BY <1>1, <1>2, Zenon DEF Request
<1>3. CASE exec # "running"
  BY <1>1, <1>3, Zenon DEF Request
<1> QED
  BY <1>2, <1>3, Zenon

\* The front end hands an operation to the executor, or finds it gone.
LEMMA RequestOnce ==
  ASSUME OnceInv, NEW c \in Conns, NEW k, NEW first, Prepared(c, k, first), NEW op,
         Asking(c, k, first, op), Request(c, k, op.seq, op.kind),
         UNCHANGED <<proto, exec, marks, hist, up, accept, conn_id>>
  PROVE  OnceInv'
<1>1. /\ ConnOK(c) /\ Answered(c) /\ proto \in Protos
  BY Zenon DEF OnceInv, ConnInv, Started
<1>2. /\ IsSeq(Ops(c)) /\ IsSeq(Outs(c)) /\ Len(Ops(c)) \in Nat
      /\ DOMAIN Ops(c) = 1..Len(Ops(c)) /\ DOMAIN Outs(c) = 1..Len(Ops(c))
      /\ Len(Outs(c)) = Len(Ops(c)) /\ (first <=> Len(Ops(c)) = 0)
      /\ conn[c].seq \in Nat /\ Live(c) /\ ~Waiting(c)
  BY <1>1, PreparedFacts, Zenon
<1>3. op = [client |-> c, seq |-> op.seq, kind |-> op.kind]
  BY Zenon DEF Asking
<1>4. PICK o : /\ IF exec = "running" THEN o = Outs(c) /\ queue' = Append(queue, c)
                                      ELSE o = Append(Outs(c), None) /\ queue' = queue
               /\ conn' = [conn EXCEPT ![c] = AskedConn(c, k, op, o)]
  BY <1>3, RequestForm, Zenon
<1>5. /\ conn'[c] = AskedConn(c, k, op, o)
      /\ \A d \in Conns \ {c} : conn'[d] = conn[d]
  BY <1>4, ConnExcept, Zenon DEF OnceInv
<1>6. o \in {Outs(c), Append(Outs(c), None)}
  BY <1>4, Zenon
<1>7. /\ ConnOK(c)' /\ Busy(c)' /\ conn'[c].seq = op.seq /\ Ops(c)' = Append(Ops(c), op)
      /\ Outs(c)' = o
      /\ IF o = Outs(c) THEN Waiting(c)' ELSE ~Waiting(c)'
      /\ op.client = c /\ op.seq \in Nat
      /\ op.seq = IF SeqPerCommand /\ ~first THEN conn[c].seq ELSE conn[c].seq + 1
  <2>1. proto' = proto
    BY Zenon
  <2> QED
    BY <1>1, <1>5, <1>6, <2>1, ConnAsks
<1>8. ConnInv'
  BY <1>4, <1>7, ConnOne, Zenon DEF OnceInv
<1>9. Grows /\ Marked'
  BY SameHist, Zenon DEF OnceInv, Marked, LastClient
<1>10. /\ \A d \in Conns \ {c} : Waiting(d)' = Waiting(d) /\ Answered(d)'
       /\ exec = "running" => \A d \in Conns \ {c} : Recognised(d)'
  BY <1>5, <1>9, Frame, Zenon DEF OnceInv, Recognises
<1>11. Append(Outs(c), None) # Outs(c)
  <2>1. Len(Append(Outs(c), None)) = Len(Outs(c)) + 1
    BY <1>2, Appended, Zenon
  <2>2. ASSUME NEW x, Len(x) = Len(Outs(c)) + 1 PROVE x # Outs(c)
    BY <1>2, <2>2
  <2> QED
    BY <2>1, <2>2, Zenon
<1>12. Queued'
  <2>1. CASE exec = "running"
    BY <1>2, <1>4, <1>7, <1>10, <2>1, QueueAppend, Zenon DEF OnceInv
  <2>2. CASE exec # "running"
    <3>1. ~Waiting(c)' /\ queue' = queue
      BY <1>4, <1>7, <1>11, <2>2, Zenon
    <3>2. Waiting(c)' = Waiting(c)
      BY <1>2, <3>1, Zenon DEF Waiting
    <3> QED
      BY <1>10, <3>1, <3>2, QueueSame, Zenon DEF OnceInv
  <2> QED
    BY <2>1, <2>2, Zenon
<1>13. Started'
  <2>1. up
    BY <1>2, LiveIs, Zenon
  <2> QED
    BY <2>1, Zenon DEF OnceInv, Started
<1>14. /\ IsSeq(Ops(c)') /\ Len(Ops(c)') = Len(Ops(c)) + 1
       /\ DOMAIN Ops(c)' = 1..(Len(Ops(c)) + 1)
       /\ \A i \in 1..Len(Ops(c)) : Ops(c)'[i] = Ops(c)[i]
  <2>1. Ops(c)' = Append(Ops(c), op)
    BY <1>7, Zenon
  <2>2. /\ IsSeq(Append(Ops(c), op)) /\ Len(Append(Ops(c), op)) = Len(Ops(c)) + 1
        /\ DOMAIN Append(Ops(c), op) = 1..(Len(Ops(c)) + 1)
        /\ \A i \in 1..Len(Ops(c)) : Append(Ops(c), op)[i] = Ops(c)[i]
    <3>1. IsSeq(Ops(c))
      BY <1>2, Zenon
    <3> QED
      BY <3>1, Appended
  <2> QED
    BY <2>1, <2>2, Zenon
<1>15. Answered(c)'
  <2>1. \A i \in DOMAIN Outs(c) : Ops(c)'[i] = Ops(c)[i]
    BY <1>2, <1>14, Zenon
  <2>2. CASE o = Append(Outs(c), None)
    BY <1>1, <1>2, <1>7, <1>9, <2>1, <2>2, AnsweredNone, Zenon
  <2>3. CASE o = Outs(c)
    <3>1. SeqPerCommand' = SeqPerCommand
      BY Zenon DEF SeqPerCommand
    <3>2. ASSUME NEW i \in DOMAIN Outs(c)
          PROVE  Effective(Ops(c)[i]) => Effective(Ops(c)[i])'
      BY <2>1, Zenon DEF Effective
    <3> QED
      BY <1>1, <1>7, <2>1, <2>3, <3>1, <3>2, Zenon DEF Answered
  <2> QED
    BY <1>6, <2>2, <2>3, Zenon
<1>16. ASSUME exec = "running" PROVE Recognised(c)'
  <2>1. Recognised(c) /\ c < conn_id /\ marks[c] <= conn[c].seq /\ marks[c] \in Nat
    BY <1>2, <1>16, LiveIs, Zenon DEF OnceInv, Recognises, Marked
  <2>2. ~(c >= conn_id')
    <3>1. c \in Int /\ conn_id \in Nat
      BY DEF Conns, OnceInv, Started
    <3>2. ~(c >= conn_id)
      BY <2>1, <3>1
    <3> QED
      BY <3>2, Zenon
  <2>3. marks'[c] <= conn'[c].seq
    <3>1. op.seq >= conn[c].seq /\ conn[c].seq \in Nat /\ op.seq \in Nat
      BY <1>2, <1>7
    <3>2. marks[c] <= op.seq
      BY <2>1, <3>1
    <3> QED
      BY <1>7, <3>2, Zenon
  <2>4. ASSUME marks'[c] = conn'[c].seq
        PROVE  \E i \in DOMAIN Ops(c)' : /\ Ops(c)'[i].seq = conn'[c].seq
                                         /\ Effective(Ops(c)[i])'
                                         /\ Waiting(c)' => i < Len(Ops(c)')
    <3>1. ~first /\ op.seq = conn[c].seq /\ marks[c] = conn[c].seq
      <4>1. marks[c] = op.seq
        BY <1>7, <2>4, Zenon
      <4>2. op.seq = IF SeqPerCommand /\ ~first THEN conn[c].seq ELSE conn[c].seq + 1
        BY <1>7, Zenon
      <4> QED
        BY <1>2, <2>1, <4>1, <4>2
    <3>2. Busy(c)
      BY <3>1, Zenon DEF Prepared
    <3>3. PICK i \in DOMAIN Ops(c) : Ops(c)[i].seq = conn[c].seq /\ Effective(Ops(c)[i])
      BY <2>1, <3>1, <3>2, Zenon DEF Recognised
    <3>4. i \in DOMAIN Ops(c)' /\ i < Len(Ops(c)') /\ Ops(c)'[i] = Ops(c)[i]
      <4>1. i \in 1..Len(Ops(c)) /\ Len(Ops(c)) \in Nat
        BY <1>2, Zenon
      <4>2. i \in 1..(Len(Ops(c)) + 1) /\ i < Len(Ops(c)) + 1
        BY <4>1
      <4> QED
        BY <1>14, <4>1, <4>2, Zenon
    <3>5. Effective(Ops(c)[i])'
      BY <3>3, <3>4, Zenon DEF Effective
    <3> QED
      BY <1>7, <3>1, <3>3, <3>4, <3>5, Zenon
  <2> QED
    BY <2>2, <2>3, <2>4, Zenon DEF Recognised
<1> QED
  BY <1>8, <1>9, <1>10, <1>12, <1>13, <1>15, <1>16, Zenon DEF OnceInv, Recognises

\* A front end's step, for a command just read or for one whose job is answered.
LEMMA ProceedOnce ==
  ASSUME OnceInv, NEW c \in Conns, NEW k, NEW first, Prepared(c, k, first),
         Proceed(c, k, first)
  PROVE  OnceInv'
<1>1. PICK s : s = StepOf(k.cmd, k.outs, k.val, k.buf, k.in_txn)
  BY Zenon
<1>2. /\ IF s.ask THEN Request(c, k, NextSeq(k.seq, first, s.ask), s.kind)
                  ELSE Respond(c, k, NextSeq(k.seq, first, s.ask), s)
      /\ UNCHANGED <<proto, exec, marks, hist, up, accept, conn_id>>
  BY <1>1, Zenon DEF Proceed, fixed, engine, server
<1>3. conn[c].seq \in Nat /\ k.seq = conn[c].seq /\ first \in BOOLEAN
  BY PreparedFacts DEF OnceInv, ConnInv, Prepared
<1>4. CASE s.ask
  <2>1. PICK op : op = [client |-> c, seq |-> NextSeq(k.seq, first, TRUE), kind |-> s.kind]
    BY Zenon
  <2>2. Request(c, k, op.seq, op.kind)
    BY <1>2, <1>4, <2>1, Zenon
  <2>3. Asking(c, k, first, op)
    BY <1>1, <1>4, <2>1, Zenon DEF Asking
  <2> QED
    BY <1>2, <2>2, <2>3, RequestOnce, Zenon
<1>5. CASE ~s.ask
  <2>1. PICK q : q = NextSeq(k.seq, first, s.ask)
    BY Zenon
  <2>2. q \in Nat /\ q >= conn[c].seq
    BY <1>3, <2>1 DEF NextSeq
  <2>3. Respond(c, k, q, s)
    BY <1>2, <1>5, <2>1, Zenon
  <2> QED
    BY <1>2, <2>2, <2>3, RespondOnce, Zenon
<1> QED
  BY <1>4, <1>5, Zenon

\* The offsets a command just read has to find.
DueOf(cmd) == IF cmd.name = "SUB" THEN {d.reply.n : d \in Published(cmd.key)} ELSE {}

\* The record with the command just read.
WithCommand(c, cmd) ==
  [conn[c] EXCEPT !.cmd = cmd, !.val = Text(cmds + 1), !.due = DueOf(cmd)]

LEMMA PreparedRead ==
  ASSUME NEW c, ConnOK(c), conn[c].pc = "read", NEW cmd \in Commands, NEW k,
         k = WithCommand(c, cmd)
  PROVE  /\ Prepared(c, k, TRUE) /\ k.cmd = cmd /\ k.val = Text(cmds + 1)
         /\ k.due = DueOf(cmd)
<1>0. PICK r : r = conn[c]
  BY Zenon
<1>1. PICK p, q, m, x, o, u, b, t, e :
        r = [pc |-> p, seq |-> q, cmd |-> m, val |-> x, ops |-> o, outs |-> u,
             buf |-> b, in_txn |-> t, due |-> e]
  BY <1>0, Zenon DEF ConnOK, Threaded
<1>2. q = conn[c].seq /\ o = Ops(c) /\ u = Outs(c) /\ b = conn[c].buf /\ t = conn[c].in_txn
  BY <1>0, <1>1, SMTT(30) DEF Ops, Outs
<1>3. PICK v, d :
        /\ v = Text(cmds + 1)
        /\ d = DueOf(cmd)
  BY Zenon
<1>4. k = [r EXCEPT !.cmd = cmd, !.val = v, !.due = d]
  BY <1>0, <1>3, Zenon DEF WithCommand
<1>5. k = [pc |-> p, seq |-> q, cmd |-> cmd, val |-> v, ops |-> o, outs |-> u, buf |-> b,
           in_txn |-> t, due |-> d]
  BY <1>1, <1>4, Zenon
<1>6. k.pc = p /\ k.cmd = cmd /\ k.val = v /\ k.due = d
  BY <1>5
<1>7. k = [pc |-> k.pc, seq |-> conn[c].seq, cmd |-> k.cmd, val |-> k.val, ops |-> Ops(c),
           outs |-> Outs(c), buf |-> conn[c].buf, in_txn |-> conn[c].in_txn, due |-> k.due]
  BY <1>2, <1>5, <1>6, Zenon
<1> QED
  BY <1>3, <1>6, <1>7, Zenon DEF Prepared

LEMMA PreparedBusy ==
  ASSUME NEW c, ConnOK(c), Busy(c), ~Waiting(c)
  PROVE  Prepared(c, conn[c], FALSE)
<1>1. conn[c] = [pc |-> conn[c].pc, seq |-> conn[c].seq, cmd |-> conn[c].cmd,
                 val |-> conn[c].val, ops |-> Ops(c), outs |-> Outs(c),
                 buf |-> conn[c].buf, in_txn |-> conn[c].in_txn, due |-> conn[c].due]
  BY Zenon DEF ConnOK, Threaded, Ops, Outs
<1>2. conn[c].cmd \in Commands
  BY Zenon DEF ConnOK, Threaded
<1> QED
  BY <1>1, <1>2, Zenon DEF Prepared

LEMMA ThreadOnce ==
  ASSUME OnceInv, NEW c \in Conns,
         (\E cmd \in Commands : ReadCommand(c, cmd)) \/ Continue(c)
  PROVE  OnceInv'
<1>1. ConnOK(c)
  BY Zenon DEF OnceInv, ConnInv
<1>2. CASE \E cmd \in Commands : ReadCommand(c, cmd)
  <2>1. PICK cmd \in Commands : ReadCommand(c, cmd)
    BY <1>2, Zenon
  <2>2. PICK k : k = WithCommand(c, cmd) /\ Proceed(c, k, TRUE) /\ conn[c].pc = "read"
    BY <2>1, Zenon DEF ReadCommand, WithCommand, DueOf
  <2>3. Prepared(c, k, TRUE)
    BY <1>1, <2>2, PreparedRead, Zenon
  <2> QED
    BY <2>2, <2>3, ProceedOnce, Zenon
<1>3. CASE Continue(c)
  <2>1. Prepared(c, conn[c], FALSE) /\ Proceed(c, conn[c], FALSE)
    BY <1>1, <1>3, PreparedBusy, Zenon DEF Continue, Busy
  <2> QED
    BY <2>1, ProceedOnce, Zenon
<1> QED
  BY <1>2, <1>3, Zenon

-----------------------------------------------------------------------------
(* The accept thread, start, stop and crash *)

\* Steps that leave the connections and the engine alone.
LEMMA ServerOnce ==
  ASSUME OnceInv, UNCHANGED <<proto, conn, queue, marks, hist>>, Started', Recognises',
         exec' \in {"running", "gone"}, exec' = "gone" => queue = << >>
  PROVE  OnceInv'
<1>1. Grows /\ Marked'
  BY SameHist, Zenon DEF OnceInv, Marked, LastClient
<1>2. ConnInv'
  BY ConnSame, Zenon DEF OnceInv, ConnInv
<1>3. ASSUME NEW c \in Conns PROVE Answered(c)' /\ Waiting(c)' = Waiting(c)
  BY <1>1, Frame, Zenon DEF OnceInv
<1>4. Queued'
  BY <1>3, Zenon DEF OnceInv, Queued
<1> QED
  BY <1>1, <1>2, <1>3, <1>4, Zenon DEF OnceInv

\* The same, with the executor and the ids given out left alone too.
LEMMA SameServerOnce ==
  ASSUME OnceInv, UNCHANGED <<proto, conn, queue, marks, hist, exec, conn_id>>, up, up' = up
  PROVE  OnceInv'
<1>1. Grows
  BY SameHist, Zenon
<1>2. Recognises'
  BY <1>1, Frame, Zenon DEF OnceInv, Recognises
<1>3. Started'
  BY Zenon DEF OnceInv, Started
<1> QED
  BY <1>2, <1>3, ServerOnce, Zenon DEF OnceInv, Queued

AllGone == conn' = [c \in Conns |-> NoConn]

\* All connections are gone.
LEMMA AllGoneOnce ==
  ASSUME OnceInv, AllGone, UNCHANGED <<proto, marks, hist>>,
         ~up', up' \in BOOLEAN, accept' = "over", conn_id' \in Nat, exec' = "gone",
         queue' = << >>
  PROVE  OnceInv'
<1>1. Marked'
  BY Zenon DEF OnceInv, Marked, LastClient
<1>2. ASSUME NEW c \in Conns
      PROVE  /\ ConnOK(c)' /\ ~Waiting(c)' /\ Answered(c)' /\ conn'[c].pc = "none"
  <2>1. conn'[c] = NoConn
    BY Zenon DEF AllGone
  <2>2. ConnOK(c)' /\ ~Waiting(c)' /\ ~Busy(c)' /\ Outs(c)' = << >> /\ conn'[c].pc = "none"
    BY <2>1, ConnNone, Zenon
  <2> QED
    BY <2>2, FrameIdle, Zenon
<1>3. ConnInv'
  BY <1>2, Zenon DEF ConnInv, AllGone
<1>4. Queued'
  BY <1>2, QueueGone, Zenon
<1>5. Started'
  BY <1>2, Zenon DEF OnceInv, Started
<1> QED
  BY <1>1, <1>2, <1>3, <1>4, <1>5, Zenon DEF OnceInv, Recognises

\* After a restart the ids to be given out are above every id the engine knows.
LEMMA StartOnce == OnceInv /\ Start => OnceInv'
<1> SUFFICES ASSUME OnceInv, Start PROVE OnceInv'
  BY Zenon
<1>1. /\ UNCHANGED <<proto, conn, queue, marks, hist>> /\ ~up /\ up' = TRUE
      /\ exec' = "running" /\ conn_id' = MaxClient + 1
  BY Zenon DEF Start, FirstConn, fixed, engine
<1>2. marks \in [Conns -> Nat] /\ LastClient /\ \A c \in Conns : conn[c].pc = "none"
  BY <1>1, Zenon DEF OnceInv, Marked, Started
<1>3. MaxClient \in 0..MaxConn /\ \A c \in Conns : marks[c] > 0 => c <= MaxClient
  BY <1>2, MaxClientIs, Zenon
<1>4. conn_id' \in Nat /\ conn_id' > 0
  BY <1>1, <1>3, BoundsAssumption
<1>5. ASSUME NEW c \in Conns PROVE Recognised(c)'
  <2>1. conn'[c].pc = "none" /\ ~Live(c)' /\ ~Busy(c)'
    BY <1>1, <1>2, Zenon DEF Live, Busy
  <2>2. ASSUME c >= conn_id' PROVE marks'[c] = 0
    <3>1. c \in Nat /\ marks[c] \in Nat /\ MaxClient \in Nat
      BY <1>2, <1>3, BoundsAssumption DEF Conns
    <3>2. ~(c <= MaxClient)
      BY <1>1, <2>2, <3>1
    <3> QED
      BY <1>1, <1>3, <3>1, <3>2
  <2> QED
    BY <2>1, <2>2, Zenon DEF Recognised
<1>6. Started'
  BY <1>1, <1>4, Zenon DEF OnceInv, Started
<1> QED
  BY <1>1, <1>5, <1>6, ServerOnce, Zenon DEF Recognises

LEMMA ServerStepsOnce ==
  ASSUME OnceInv, \/ StartWithoutExecutor \/ ExecutorEnds \/ Accept \/ AcceptBreaks
                  \/ AcceptFails \/ AcceptEnds \/ Stop \/ StopReturns \/ Crash
  PROVE  OnceInv'
<1>1. CASE StartWithoutExecutor
  <2>1. /\ UNCHANGED <<proto, conn, queue, marks, hist, exec>> /\ ~up /\ up' = TRUE
        /\ conn_id' = 1
    BY <1>1, Zenon DEF StartWithoutExecutor, fixed, engine
  <2>2. exec = "gone" /\ queue = << >>
    BY <2>1, Zenon DEF OnceInv, Started, Queued
  <2>3. Started' /\ Recognises'
    BY <2>1, <2>2 DEF OnceInv, Started, Recognises
  <2> QED
    BY <2>1, <2>2, <2>3, ServerOnce, Zenon
<1>2. CASE ExecutorEnds
  <2>1. /\ UNCHANGED <<proto, conn, queue, marks, hist, up, conn_id, accept>>
        /\ exec = "running" /\ exec' = "gone" /\ \A c \in Conns : ~Live(c)
    BY <1>2, Zenon DEF ExecutorEnds, fixed, engine, server
  <2>2. queue = << >>
    <3> SUFFICES ASSUME queue # << >> PROVE FALSE
      BY Zenon
    <3>1. Head(queue) \in Conns /\ Waiting(Head(queue))
      BY HeadWaits, Zenon DEF OnceInv
    <3> QED
      BY <2>1, <3>1, Zenon DEF Waiting, Live
  <2>3. Started' /\ Recognises'
    BY <2>1, Zenon DEF OnceInv, Started, Recognises
  <2> QED
    BY <2>1, <2>2, <2>3, ServerOnce, Zenon
<1>3. CASE Accept
  <2>1. PICK c : c = conn_id
    BY Zenon
  <2>2. /\ UNCHANGED <<proto, queue, exec, marks, hist, up, accept>> /\ conn_id' = conn_id + 1
        /\ accept = "running" /\ conn_id <= MaxConn
        /\ conn' = [conn EXCEPT ![c] = [NoConn EXCEPT !.pc = "read"]]
    BY <1>3, <2>1, Zenon DEF Accept, fixed, engine
  <2>3. up /\ conn_id \in Nat /\ conn_id > 0
    BY <2>2, Zenon DEF OnceInv, Started
  <2>4. c \in Conns
    BY <2>1, <2>2, <2>3, BoundsAssumption DEF Conns
  <2>5. Idles(c, "read", 0, << >>, FALSE)
    BY <2>2, IdleForms, Zenon DEF Idles
  <2>6. ~Waiting(c) /\ (exec = "running" => marks[c] = 0)
    <3>1. CASE exec = "running"
      BY <2>1, <2>3, <2>4, <3>1 DEF OnceInv, Recognises, Recognised, Waiting
    <3>2. CASE exec # "running"
      BY <2>4, <3>2 DEF OnceInv, Queued
    <3> QED
      BY <3>1, <3>2, Zenon
  <2>7. conn_id' \in Nat /\ conn_id' >= conn_id /\ c < conn_id'
    BY <2>1, <2>2, <2>3
  <2>8. exec = "running" => c < conn_id' /\ marks[c] <= 0
    BY <2>6, <2>7
  <2> QED
    BY <2>2, <2>3, <2>4, <2>5, <2>6, <2>7, <2>8, IdleOnce, Zenon
<1>4. CASE AcceptBreaks \/ AcceptFails \/ AcceptEnds
  <2>1. /\ UNCHANGED <<proto, conn, queue, marks, hist, exec, conn_id>> /\ up' = up
        /\ accept \in {"running", "joining"}
    BY <1>4, Zenon DEF AcceptBreaks, AcceptFails, AcceptEnds, fixed, engine
  <2>2. up
    BY <2>1, Zenon DEF OnceInv, Started
  <2> QED
    BY <2>1, <2>2, SameServerOnce, Zenon
<1>5. CASE Stop
  <2>1. UNCHANGED <<proto, conn, queue, marks, hist, exec, conn_id>> /\ up' = up /\ up
    BY <1>5, Zenon DEF Stop, fixed, engine
  <2> QED
    BY <2>1, SameServerOnce, Zenon
<1>6. CASE StopReturns
  <2>1. /\ AllGone /\ UNCHANGED <<proto, marks, hist>> /\ up' = FALSE /\ accept' = "over"
        /\ conn_id' = conn_id /\ exec' = "gone" /\ queue' = queue /\ exec = "gone"
    BY <1>6, Zenon DEF StopReturns, fixed, engine, AllGone
  <2>2. queue = << >> /\ conn_id \in Nat
    BY <2>1, Zenon DEF OnceInv, Queued, Started
  <2> QED
    BY <2>1, <2>2, AllGoneOnce, Zenon
<1>7. CASE Crash
  <2>1. /\ AllGone /\ UNCHANGED <<proto, marks, hist>> /\ up' = FALSE /\ accept' = "over"
        /\ conn_id' = 0 /\ exec' = "gone" /\ queue' = << >>
    BY <1>7, Zenon DEF Crash, fixed, engine, AllGone
  <2> QED
    BY <2>1, AllGoneOnce, Zenon
<1> QED
  BY <1>1, <1>2, <1>3, <1>4, <1>5, <1>6, <1>7, Zenon

-----------------------------------------------------------------------------
(* The invariant *)

LEMMA InitOnce == Init => OnceInv
<1> SUFFICES ASSUME Init PROVE OnceInv
  BY Zenon
<1>1. /\ conn = [c \in Conns |-> NoConn] /\ queue = << >> /\ hist = << >> /\ exec = "gone"
      /\ marks = [c \in Conns |-> 0] /\ up = FALSE /\ accept = "over" /\ conn_id = 0
      /\ \E s \in Scenarios : proto = s.proto
  BY Zenon DEF Init
<1>2. proto \in Protos
  BY <1>1, ScenariosAssumption, Zenon DEF Protos
<1>3. ASSUME NEW c \in Conns
      PROVE  ConnOK(c) /\ ~Waiting(c) /\ Answered(c) /\ conn[c].pc = "none"
  <2>1. conn[c] = NoConn
    BY <1>1, Zenon
  <2>2. /\ conn[c].pc = "none" /\ conn[c].seq = 0 /\ Ops(c) = << >> /\ Outs(c) = << >>
    <3>1. /\ NoConn.pc = "none" /\ NoConn.seq = 0 /\ NoConn.ops = << >>
          /\ NoConn.outs = << >>
      BY Zenon DEF NoConn
    <3> QED
      BY <2>1, <3>1, Zenon DEF Ops, Outs
  <2>3. /\ IsSeq(Ops(c)) /\ Len(Ops(c)) = 0 /\ DOMAIN Ops(c) = {}
        /\ IsSeq(Outs(c)) /\ DOMAIN Outs(c) = {}
    BY <2>2, NoElements, Zenon
  <2>4. conn[c] = [pc |-> conn[c].pc, seq |-> conn[c].seq, cmd |-> conn[c].cmd,
                   val |-> conn[c].val, ops |-> conn[c].ops, outs |-> conn[c].outs,
                   buf |-> conn[c].buf, in_txn |-> conn[c].in_txn, due |-> conn[c].due]
    BY <2>1, Zenon DEF NoConn
  <2>5. Threaded(c) /\ ~Waiting(c)
    BY <2>2, <2>3, <2>4 DEF Threaded, Busy, Waiting
  <2>6. Numbered(c) /\ Deleting(c) /\ Asked(c) /\ Answered(c)
    <3>1. Numbered(c) /\ Asked(c) /\ Answered(c)
      BY <2>3, <2>5, Zenon DEF Numbered, Asked, Answered
    <3>2. ~(Len(Ops(c)) > 1)
      BY <2>3
    <3> QED
      BY <2>3, <3>1, <3>2, Zenon DEF Deleting
  <2> QED
    BY <2>2, <2>5, <2>6, Zenon DEF ConnOK
<1>4. ConnInv
  BY <1>1, <1>3, Zenon DEF ConnInv
<1>5. Queued
  BY <1>1, <1>3 DEF Queued
<1>6. Started
  BY <1>1, <1>2, <1>3, Zenon DEF Started
<1>7. Marked
  <2>1. IsSeq(hist) /\ DOMAIN hist = {}
    BY <1>1, NoElements, Zenon
  <2> QED
    BY <1>1, <2>1, BoundsAssumption DEF Marked, LastClient, Service!OnceEach
<1> QED
  BY <1>1, <1>3, <1>4, <1>5, <1>6, <1>7, Zenon DEF OnceInv, Recognises

LEMMA NextOnce == OnceInv /\ [Next]_vars => OnceInv'
<1> SUFFICES ASSUME OnceInv, [Next]_vars PROVE OnceInv'
  BY Zenon
<1>1. CASE UNCHANGED vars
  <2>1. UNCHANGED <<proto, conn, queue, marks, hist, exec, conn_id, up, accept>>
    BY <1>1, Zenon DEF vars, fixed, engine, server
  <2>2. Started' /\ Recognises'
    <3>1. Grows
      BY <2>1, SameHist, Zenon
    <3> QED
      BY <2>1, <3>1, Frame, Zenon DEF OnceInv, Started, Recognises
  <2> QED
    BY <2>1, <2>2, ServerOnce, Zenon DEF OnceInv, Queued
<1>2. CASE \E c \in Conns : \/ \E cmd \in Commands : ReadCommand(c, cmd)
                            \/ Continue(c) \/ Disconnect(c) \/ ReadTimeout(c)
  BY <1>2, ThreadOnce, LeaveOnce, Zenon
<1> QED
  BY <1>1, <1>2, StartOnce, ExecuteLenOnce, ExecuteFreshOnce, ExecuteDuplicateOnce,
     ExecuteFailsOnce, ServerStepsOnce, Zenon DEF Next

\* Whatever the connections ask and whenever the server stops, each (client, seq) is
\* executed at most once, no connection is mistaken for an earlier one, and the answers a
\* connection holds are those of the executor.
THEOREM ServesOnce == Spec => []OnceInv
BY InitOnce, NextOnce, PTL DEF Spec

-----------------------------------------------------------------------------
(* Duplicates, and the exactly-once service *)

\* Without a DEL of two different keys, operations that share a sequence number are the
\* same operation.
LEMMA SameNumberSameOp ==
  ASSUME LoneKeys, NEW c, ConnOK(c), SeqPerCommand, Len(Ops(c)) > 1,
         NEW i \in DOMAIN Ops(c), NEW j \in DOMAIN Ops(c)
  PROVE  Ops(c)[i] = Ops(c)[j]
<1>1. proto = "resp" /\ conn[c].cmd.name = "DEL"
  BY Zenon DEF ConnOK, Deleting
<1>2. Busy(c)
  <2>1. Ops(c) = << >> => Len(Ops(c)) = 0
    BY NoElements, Zenon
  <2> QED
    <3>1. ~Busy(c) => Ops(c) = << >>
      BY Zenon DEF ConnOK, Threaded
    <3> QED
      BY <2>1, <3>1
<1>3. conn[c].cmd \in RespCommands
  BY <1>1, <1>2, Zenon DEF ConnOK, Threaded, Commands
<1>4. conn[c].cmd.keys \in DelKeys
  BY <1>1, <1>3, CommandFields, Zenon
<1>5. PICK ks : ks = conn[c].cmd.keys
  BY Zenon
<1>6. /\ i \in DOMAIN ks /\ Ops(c)[i].kind = Del(Plain(ks[i]))
      /\ j \in DOMAIN ks /\ Ops(c)[j].kind = Del(Plain(ks[j]))
  BY <1>1, <1>5, Zenon DEF ConnOK, Deleting
<1>7. ks[i] = ks[j]
  BY <1>4, <1>5, <1>6, Zenon DEF LoneKeys
<1>8. Ops(c)[i].kind = Ops(c)[j].kind
  BY <1>6, <1>7, Zenon
<1>9. /\ Ops(c)[i] = [client |-> c, seq |-> conn[c].seq, kind |-> Ops(c)[i].kind]
      /\ Ops(c)[j] = [client |-> c, seq |-> conn[c].seq, kind |-> Ops(c)[j].kind]
  BY Zenon DEF ConnOK, Numbered
<1>10. ASSUME NEW x, NEW y, x = y
       PROVE  [client |-> c, seq |-> conn[c].seq, kind |-> x]
                = [client |-> c, seq |-> conn[c].seq, kind |-> y]
  BY <1>10, Zenon
<1> QED
  BY <1>8, <1>9, <1>10, Zenon

LEMMA OnceSuppresses ==
  ASSUME LoneKeys, OnceInv
  PROVE  SuppressesOnlyRepeats
<1> SUFFICES ASSUME NEW c \in Conns, NEW i \in DOMAIN Outs(c), Outs(c)[i] = Suppressed
             PROVE  \E j \in 1..(i - 1) : Ops(c)[j] = Ops(c)[i]
  BY Zenon DEF SuppressesOnlyRepeats, Outs, Ops
<1>1. ConnOK(c) /\ Answered(c)
  BY Zenon DEF OnceInv, ConnInv
<1>2. SeqPerCommand /\ i > 1
  BY <1>1, Zenon DEF Answered
<1>3. /\ Len(Ops(c)) \in Nat /\ DOMAIN Ops(c) = 1..Len(Ops(c))
      /\ Len(Outs(c)) \in Nat /\ DOMAIN Outs(c) = 1..Len(Outs(c))
  BY <1>1, SeqFacts, Zenon DEF ConnOK, Threaded
<1>4. Len(Outs(c)) <= Len(Ops(c))
  <2>1. Outs(c) # << >>
    BY NoElements, Zenon
  <2> QED
    BY <1>1, <2>1, Zenon DEF ConnOK, Threaded
<1>5. 1 \in DOMAIN Ops(c) /\ i \in DOMAIN Ops(c) /\ Len(Ops(c)) > 1 /\ 1 \in 1..(i - 1)
  BY <1>2, <1>3, <1>4
<1>6. Ops(c)[1] = Ops(c)[i]
  BY <1>1, <1>2, <1>5, SameNumberSameOp, Zenon
<1> QED
  BY <1>5, <1>6, Zenon

\* KvService's executor takes an operation for a duplicate only if it repeats an earlier one
\* of its own command, as long as no DEL names two different keys: the ids start gives out
\* and the numbers connections count are never used for two operations.
THEOREM SuppressesRepeats ==
  ASSUME LoneKeys
  PROVE  Spec => []SuppressesOnlyRepeats
<1>1. OnceInv => SuppressesOnlyRepeats
  BY OnceSuppresses, Zenon
<1> QED
  BY <1>1, ServesOnce, PTL

\* What an operation does to the order: nothing, or it is appended.
LEMMA OrderGrows ==
  ASSUME Marked, hist' = hist \/ \E e : hist' = Append(hist, e)
  PROVE  Service!Extends(hist', hist)
<1>1. IsSeq(hist) /\ Len(hist) \in Nat /\ DOMAIN hist = 1..Len(hist)
  BY SeqFacts, Zenon DEF Marked
<1>2. CASE hist' = hist
  BY <1>1, <1>2 DEF Service!Extends
<1>3. CASE \E e : hist' = Append(hist, e)
  <2>1. PICK e : hist' = Append(hist, e)
    BY <1>3, Zenon
  <2>2. Len(hist') = Len(hist) + 1 /\ \A i \in 1..Len(hist) : hist'[i] = hist[i]
    <3>1. /\ Len(Append(hist, e)) = Len(hist) + 1
          /\ \A i \in 1..Len(hist) : Append(hist, e)[i] = hist[i]
      BY <1>1, Appended, Zenon
    <3> QED
      BY <2>1, <3>1, Zenon
  <2>3. Len(hist) <= Len(hist')
    BY <1>1, <2>2
  <2>4. \A i \in DOMAIN hist : hist'[i] = hist[i]
    BY <1>1, <2>2, Zenon
  <2> QED
    BY <2>3, <2>4, Zenon DEF Service!Extends
<1> QED
  BY <1>2, <1>3, Zenon

\* The executor answers only operations in effect.
LEMMA AnsweredStep ==
  ASSUME LoneKeys, OnceInv, AnsweredInEffect, [Next]_vars
  PROVE  /\ AnsweredInEffect'
         /\ answered \subseteq answered'
         /\ hist' = hist \/ \E e : hist' = Append(hist, e)
<1>1. ASSUME Grows, NEW x, answered' = answered \cup {x}, Effective(x)'
      PROVE  AnsweredInEffect'
  <2> SUFFICES ASSUME NEW y \in answered' PROVE \E i \in DOMAIN hist' : hist'[i].op = y
    BY Zenon DEF AnsweredInEffect
  <2>1. CASE y = x
    BY <1>1, <2>1, Zenon DEF Effective
  <2>2. CASE y \in answered
    <3>1. Effective(y)
      BY <2>2, Zenon DEF AnsweredInEffect, Effective
    <3> QED
      BY <1>1, <3>1, Zenon DEF Grows, Effective
  <2> QED
    BY <1>1, <2>1, <2>2, Zenon
<1>2. CASE ExecuteFresh
  <2>1. PICK c, job : c = Head(queue) /\ job = Job
    BY Zenon
  <2>2. /\ queue # << >> /\ TakeEffect(job) /\ Fresh(job)
        /\ answered' = answered \cup {job}
    BY <1>2, <2>1, Zenon DEF ExecuteFresh
  <2>3. c \in Conns /\ job.client = c /\ job.seq \in Nat
    BY <2>1, <2>2, JobIs, Zenon
  <2>4. Grows /\ Effective(job)'
    BY <2>2, <2>3, EffectMarked, Zenon DEF OnceInv
  <2>5. hist' = Append(hist, [op |-> job, ts |-> Timestamp])
    BY <2>2, Zenon DEF TakeEffect
  <2> QED
    BY <1>1, <2>2, <2>4, <2>5, Zenon
<1>3. CASE ExecuteDuplicate
  <2>1. PICK c, job : c = Head(queue) /\ job = Job
    BY Zenon
  <2>2. /\ queue # << >> /\ ~Fresh(job) /\ hist' = hist
        /\ answered' = answered \cup {job}
    BY <1>3, <2>1, Zenon DEF ExecuteDuplicate, engine
  <2>3. /\ c \in Conns /\ job.client = c /\ job.seq = conn[c].seq /\ job.seq \in Nat
        /\ ConnOK(c) /\ Len(Ops(c)) \in Nat /\ DOMAIN Ops(c) = 1..Len(Ops(c))
        /\ Len(Ops(c)) \in DOMAIN Ops(c) /\ job = Ops(c)[Len(Ops(c))]
    BY <2>1, <2>2, JobIs, Zenon
  <2>4. marks[c] = conn[c].seq
    <3>1. marks[c] \in Nat /\ marks[c] <= conn[c].seq
      BY <2>1, <2>2, HeadSeen, Zenon
    <3> QED
      BY <2>2, <2>3, <3>1 DEF Fresh
  <2>5. PICK i \in DOMAIN Ops(c) : /\ Ops(c)[i].seq = conn[c].seq /\ Effective(Ops(c)[i])
                                   /\ i < Len(Ops(c))
    BY <2>1, <2>2, <2>4, HeadSeen, Zenon
  <2>6. SeqPerCommand /\ Len(Ops(c)) > 1
    <3>1. IF SeqPerCommand \/ i = Len(Ops(c)) THEN Ops(c)[i].seq = conn[c].seq
                                              ELSE Ops(c)[i].seq < conn[c].seq
      BY <2>3, Zenon DEF ConnOK, Numbered
    <3> QED
      BY <2>3, <2>5, <3>1
  <2>7. job = Ops(c)[i]
    BY <2>3, <2>5, <2>6, SameNumberSameOp, Zenon
  <2>8. Effective(job)' /\ Grows
    BY <2>2, <2>5, <2>7, SameHist, Zenon DEF Effective
  <2> QED
    BY <1>1, <2>2, <2>8, Zenon
<1>4. CASE ExecuteFails
  <2>1. PICK c, job : c = Head(queue) /\ job = Job
    BY Zenon
  <2>2. /\ queue # << >> /\ Fresh(job) /\ answered' = answered
        /\ TakeEffect(job) \/ UNCHANGED engine
    BY <1>4, <2>1, Zenon DEF ExecuteFails
  <2>3. c \in Conns /\ job.client = c /\ job.seq \in Nat
    BY <2>1, <2>2, JobIs, Zenon
  <2>4. CASE UNCHANGED engine
    BY <2>2, <2>4, Zenon DEF engine, AnsweredInEffect
  <2>5. CASE TakeEffect(job)
    <3>1. Grows
      BY <2>2, <2>3, <2>5, EffectMarked, Zenon DEF OnceInv
    <3>2. AnsweredInEffect'
      BY <2>2, <3>1, Zenon DEF AnsweredInEffect, Grows, Effective
    <3>3. hist' = Append(hist, [op |-> job, ts |-> Timestamp])
      BY <2>5, Zenon DEF TakeEffect
    <3> QED
      BY <2>2, <3>2, <3>3, Zenon
  <2> QED
    BY <2>2, <2>4, <2>5, Zenon
<1>5. CASE UNCHANGED <<hist, answered>>
  BY <1>5, Zenon DEF AnsweredInEffect
<1>6. CASE \/ Start \/ StartWithoutExecutor \/ ExecuteLen \/ ExecutorEnds \/ Accept
           \/ AcceptBreaks \/ AcceptFails \/ AcceptEnds \/ Stop \/ StopReturns \/ Crash
  <2>1. UNCHANGED <<hist, answered>>
    BY <1>6, Zenon DEF Start, StartWithoutExecutor, ExecuteLen, ExecutorEnds, Accept, AcceptBreaks,
       AcceptFails, AcceptEnds, Stop, StopReturns, Crash, engine
  <2> QED
    BY <1>5, <2>1, Zenon
<1>7. CASE \E c \in Conns : \/ \E cmd \in Commands : ReadCommand(c, cmd)
                            \/ Continue(c) \/ Disconnect(c) \/ ReadTimeout(c)
  <2>1. \A c, k, first : Proceed(c, k, first) => UNCHANGED <<hist, answered>>
    BY Zenon DEF Proceed, engine
  <2>2. UNCHANGED <<hist, answered>>
    BY <1>7, <2>1, Zenon DEF ReadCommand, Continue, Disconnect, ReadTimeout, engine
  <2> QED
    BY <1>5, <2>2, Zenon
<1>8. CASE UNCHANGED vars
  BY <1>5, <1>8, Zenon DEF vars, engine
<1> QED
  BY <1>2, <1>3, <1>4, <1>6, <1>7, <1>8, Zenon DEF Next

\* As seen by its connections the server is the exactly-once service, over restarts and
\* engine errors, as long as no DEL names two different keys: KvService's operations take
\* effect in one order that only grows, none of them twice, and the executor answers only
\* operations of that order.
THEOREM ServerImplementsService ==
  ASSUME LoneKeys
  PROVE  Spec => ImplementsService
<1> DEFINE I == OnceInv /\ AnsweredInEffect
<1>1. Init => I /\ Service!Init
  BY InitOnce, Zenon DEF Init, AnsweredInEffect, Service!Init
<1>2. I /\ [Next]_vars => I' /\ [Service!Next]_<<hist, answered, {}>>
  <2> SUFFICES ASSUME I, [Next]_vars PROVE I' /\ Service!Next
    BY Zenon
  <2>1. OnceInv' /\ Marked /\ Marked'
    BY NextOnce, Zenon DEF OnceInv
  <2>2. /\ AnsweredInEffect' /\ answered \subseteq answered'
        /\ hist' = hist \/ \E e : hist' = Append(hist, e)
    BY AnsweredStep, Zenon
  <2>3. Service!Extends(hist', hist)
    BY <2>1, <2>2, OrderGrows, Zenon
  <2>4. Service!OnceEach(hist')
    BY <2>1, Zenon DEF Marked
  <2>5. answered' \subseteq {hist'[i].op : i \in DOMAIN hist'}
    BY <2>2, Zenon DEF AnsweredInEffect
  <2> QED
    BY <2>1, <2>2, <2>3, <2>4, <2>5, Zenon DEF Service!Next
<1> HIDE DEF I
<1> QED
  BY <1>1, <1>2, PTL DEF Spec, ImplementsService, Service!Spec, Service!vars

-----------------------------------------------------------------------------
(* Types *)

\* The server's own state and the bounds of a behaviour.
Bounded ==
  /\ \E s \in Scenarios : proto = s.proto /\ limit = [cmds |-> s.cmds, fails |-> s.fails]
  /\ shutdown \in BOOLEAN
  /\ accept \in {"running", "joining", "over"}
  /\ conn_id \in 0..(MaxConn + 1)
  /\ cmds \in 0..limit.cmds /\ stops \in 0..MaxStops /\ fails \in 0..limit.fails

LEMMA InitBounded ==
  ASSUME Init
  PROVE  Bounded
<1>1. PICK s \in Scenarios : proto = s.proto /\ limit = [cmds |-> s.cmds, fails |-> s.fails]
  BY Zenon DEF Init
<1>2. limit.cmds \in Nat /\ limit.fails \in Nat
  BY <1>1, ScenariosAssumption, Zenon
<1>3. shutdown = FALSE /\ accept = "over" /\ conn_id = 0 /\ cmds = 0 /\ stops = 0 /\ fails = 0
  BY Zenon DEF Init
<1>4. conn_id \in 0..(MaxConn + 1) /\ stops \in 0..MaxStops
  BY <1>3, BoundsAssumption
<1>5. cmds \in 0..limit.cmds /\ fails \in 0..limit.fails
  BY <1>2, <1>3
<1> QED
  BY <1>1, <1>3, <1>4, <1>5, Zenon DEF Bounded

LEMMA NextBounded ==
  ASSUME OnceInv, Bounded, [Next]_vars
  PROVE  Bounded'
<1>1. /\ limit.cmds \in Nat /\ limit.fails \in Nat /\ MaxConn \in Nat /\ MaxStops \in Nat
      /\ cmds \in 0..limit.cmds /\ stops \in 0..MaxStops /\ fails \in 0..limit.fails
      /\ conn_id \in 0..(MaxConn + 1)
  <2>1. PICK s \in Scenarios : proto = s.proto /\ limit = [cmds |-> s.cmds, fails |-> s.fails]
    BY Zenon DEF Bounded
  <2> QED
    BY <2>1, ScenariosAssumption, BoundsAssumption, Zenon DEF Bounded
<1>2. CASE Start
  <2>1. MaxClient \in 0..MaxConn
    BY MaxClientIs, Zenon DEF OnceInv, Marked
  <2>2. conn_id' \in 0..(MaxConn + 1)
    BY <1>1, <1>2, <2>1 DEF Start, FirstConn
  <2> QED
    BY <1>2, <2>2, Zenon DEF Start, Bounded, fixed, bounds
<1>3. CASE StartWithoutExecutor
  <2>1. /\ UNCHANGED <<proto, limit, cmds, stops>> /\ shutdown' = FALSE
        /\ accept' = "running" /\ conn_id' = 1 /\ fails < limit.fails /\ fails' = fails + 1
    BY <1>3, Zenon DEF StartWithoutExecutor, fixed
  <2>2. conn_id' \in 0..(MaxConn + 1) /\ fails' \in 0..limit.fails
    BY <1>1, <2>1
  <2> QED
    BY <2>1, <2>2, Zenon DEF Bounded
<1>4. CASE ExecuteLen \/ ExecuteFresh \/ ExecuteDuplicate \/ ExecutorEnds
  <2>1. UNCHANGED <<proto, limit, shutdown, accept, conn_id, cmds, stops, fails>>
    BY <1>4, Zenon DEF ExecuteLen, ExecuteFresh, ExecuteDuplicate, ExecutorEnds, fixed, server, bounds
  <2> QED
    BY <2>1, Zenon DEF Bounded
<1>5. CASE ExecuteFails
  <2>1. /\ UNCHANGED <<proto, limit, shutdown, accept, conn_id, cmds, stops>>
        /\ fails < limit.fails /\ fails' = fails + 1
    BY <1>5, Zenon DEF ExecuteFails, fixed, server
  <2> QED
    BY <1>1, <2>1 DEF Bounded
<1>6. CASE Accept
  <2>1. /\ UNCHANGED <<proto, limit, shutdown, accept, cmds, stops, fails>>
        /\ conn_id <= MaxConn /\ conn_id' = conn_id + 1
    BY <1>6, Zenon DEF Accept, fixed, bounds
  <2> QED
    BY <1>1, <2>1 DEF Bounded
<1>7. CASE AcceptBreaks \/ AcceptEnds \/ StopReturns
  <2>1. /\ UNCHANGED <<proto, limit, shutdown, conn_id, cmds, stops, fails>>
        /\ accept' \in {accept, "joining", "over"}
    BY <1>7, Zenon DEF AcceptBreaks, AcceptEnds, StopReturns, fixed, bounds
  <2> QED
    BY <2>1, Zenon DEF Bounded
<1>8. CASE AcceptFails \/ Stop \/ Crash
  <2>1. /\ UNCHANGED <<proto, limit, cmds, fails>> /\ stops < MaxStops /\ stops' = stops + 1
        /\ accept' \in {accept, "joining", "over"} /\ conn_id' \in {conn_id, 0}
    BY <1>8, Zenon DEF AcceptFails, Stop, Crash, fixed
  <2>2. shutdown' = shutdown \/ shutdown' = TRUE \/ shutdown' = FALSE
    BY <1>8, Zenon DEF AcceptFails, Stop, Crash
  <2>3. shutdown' \in BOOLEAN
    BY <2>2, Zenon DEF Bounded
  <2>4. stops' \in 0..MaxStops /\ conn_id' \in 0..(MaxConn + 1)
    BY <1>1, <2>1
  <2> QED
    BY <2>1, <2>3, <2>4, Zenon DEF Bounded
<1>9. ASSUME NEW c \in Conns, \/ \E cmd \in Commands : ReadCommand(c, cmd)
                              \/ Continue(c) \/ Disconnect(c) \/ ReadTimeout(c)
      PROVE  Bounded'
  <2>1. \A k, first :
          Proceed(c, k, first) =>
            UNCHANGED <<proto, limit, shutdown, accept, conn_id, stops, fails>>
    BY Zenon DEF Proceed, fixed, server
  <2>2. /\ UNCHANGED <<proto, limit, shutdown, accept, conn_id, stops, fails>>
        /\ cmds' = cmds \/ (cmds < limit.cmds /\ cmds' = cmds + 1)
    BY <1>9, <2>1, Zenon DEF ReadCommand, Continue, Disconnect, ReadTimeout, fixed, server, bounds
  <2> QED
    BY <1>1, <2>2 DEF Bounded
<1>10. CASE UNCHANGED vars
  <2>1. UNCHANGED <<proto, limit, shutdown, accept, conn_id, cmds, stops, fails>>
    BY <1>10, Zenon DEF vars, fixed, server, bounds
  <2> QED
    BY <2>1, Zenon DEF Bounded
<1> QED
  BY <1>2, <1>3, <1>4, <1>5, <1>6, <1>7, <1>8, <1>9, <1>10, Zenon DEF Next

\* Every variable of the server keeps its type, connection ids stay within one of the
\* highest, and the executor's queue holds exactly the connections that wait for it.
THEOREM ServerTypes == Spec => []TypeOK
<1> DEFINE I == OnceInv /\ TInv /\ Bounded
<1>1. Init => I
  BY InitOnce, InitTInv, InitBounded, Zenon
<1>2. I /\ [Next]_vars => I'
  BY NextOnce, NextTInv, NextBounded, Zenon
<1>3. I => TypeOK
  <2> SUFFICES ASSUME I PROVE TypeOK
    BY Zenon
  <2>1. /\ marks \in [Conns -> Nat] /\ up \in BOOLEAN /\ exec \in {"running", "gone"}
        /\ \A c \in Conns : Waiting(c) <=> \E i \in DOMAIN queue : queue[i] = c
    BY Zenon DEF OnceInv, Marked, Started, Queued
  <2>2. ASSUME NEW c \in Conns
        PROVE  conn[c].pc \in {"none", "read", "busy", "closed"} /\ conn[c].seq \in Nat
    BY Zenon DEF OnceInv, ConnInv, ConnOK, Threaded
  <2> QED
    BY <2>1, <2>2, Zenon DEF TypeOK, TInv, ClockTyped, Bounded
<1> HIDE DEF I
<1> QED
  BY <1>1, <1>2, <1>3, PTL DEF Spec

-----------------------------------------------------------------------------
(* The steps, by what they do to the connections *)

OthersKept(c) == \A d \in Conns \ {c} : conn'[d] = conn[d]

\* A connection is opened or ends: it has no command.
Resets(c) == \E p \in {"none", "read", "closed"} : conn'[c] = IdleConn(p, 0, << >>, FALSE)

\* A step that only opens or ends connections.
Quiet ==
  /\ UNCHANGED <<proto, store, hist, done>>
  /\ cmds' \in {cmds, cmds + 1} /\ fails' \in {fails, fails + 1}
  /\ \A c \in Conns : conn'[c] = conn[c] \/ Resets(c)

\* The executor answers the job of c.
Executed(c, job, out) ==
  /\ c \in Conns /\ Waiting(c) /\ job = Ops(c)[Len(Ops(c))]
  /\ conn'[c] = AnsweredConn(c, out) /\ OthersKept(c)
  /\ UNCHANGED <<proto, done, cmds, fails>>
  /\ \/ /\ \/ job.kind.tag = "Len" /\ out = Value(Cardinality(DOMAIN store))
           \/ out = Suppressed
        /\ UNCHANGED <<store, hist>>
     \/ /\ job.kind.tag # "Len"
        /\ out = Apply(store, job.kind).out /\ store' = Apply(store, job.kind).map
        /\ hist' = Append(hist, [op |-> job, ts |-> Timestamp])

\* It fails instead.
Failed(c, job) ==
  /\ c \in Conns /\ Waiting(c) /\ job = Ops(c)[Len(Ops(c))] /\ job.kind.tag # "Len"
  /\ \A d \in Conns :
       conn'[d] = conn[d] \/ (Waiting(d) /\ conn'[d] = AnsweredConn(d, None))
  /\ UNCHANGED <<proto, done, cmds>> /\ fails' = fails + 1
  /\ \/ UNCHANGED <<store, hist>>
     \/ /\ store' = Apply(store, job.kind).map
        /\ hist' = Append(hist, [op |-> job, ts |-> Timestamp])

\* The command of a connection thread's step: the one it has, or one just read.
Reading(k, first) ==
  IF first THEN /\ cmds' = cmds + 1 /\ k.val = Text(cmds + 1)
                /\ k.due = DueOf(k.cmd)
           ELSE cmds' = cmds

Thread(c, k, first) ==
  /\ c \in Conns /\ Prepared(c, k, first) /\ Reading(k, first) /\ OthersKept(c)
  /\ UNCHANGED <<proto, store, hist, fails>>

Asks(c, k, first, op, o) ==
  /\ Thread(c, k, first) /\ Asking(c, k, first, op) /\ conn'[c] = AskedConn(c, k, op, o)
  /\ IF exec = "running" THEN o = Outs(c) ELSE o = Append(Outs(c), None)
  /\ done' = done

Reported(c, k, r) ==
  [client |-> c, cmd |-> k.cmd, val |-> k.val, ops |-> k.ops, outs |-> k.outs,
   ok |-> r.ok, reply |-> r.val, due |-> k.due]

Replies(c, k, first, r) ==
  /\ Thread(c, k, first) /\ ~r.ask /\ r = StepOf(k.cmd, k.outs, k.val, k.buf, k.in_txn)
  /\ done' = done \cup {Reported(c, k, r)}
  /\ \E q : conn'[c] =
       IdleConn("read", q,
                IF proto = "txn" THEN TxnBuffer(k.cmd, k.val, k.buf, k.in_txn) ELSE << >>,
                proto = "txn" /\ TxnOpen(k.cmd, k.in_txn))

Cases ==
  \/ Quiet
  \/ \E c, job, out : Executed(c, job, out)
  \/ \E c, job : Failed(c, job)
  \/ \E c, k, first, op, o : Asks(c, k, first, op, o)
  \/ \E c, k, first, r : Replies(c, k, first, r)

LEMMA ExecutedCase ==
  ASSUME OnceInv, NEW out, exec = "running", queue # << >>,
         conn' = Answer(Head(queue), out), UNCHANGED <<proto, done, cmds, fails>>,
         \/ /\ \/ Job.kind.tag = "Len" /\ out = Value(Cardinality(DOMAIN store))
               \/ out = Suppressed
            /\ UNCHANGED <<store, hist>>
         \/ Job.kind.tag # "Len" /\ out = Apply(store, Job.kind).out /\ TakeEffect(Job)
  PROVE  \E c, job : Executed(c, job, out)
<1>1. PICK c, job : c = Head(queue) /\ job = Job
  BY Zenon
<1>2. c \in Conns /\ Waiting(c) /\ job = Ops(c)[Len(Ops(c))]
  <2>1. c \in Conns /\ Waiting(c)
    BY <1>1, HeadWaits, Zenon DEF OnceInv
  <2> QED
    BY <1>1, <2>1, Zenon DEF Job, Ops
<1>3. conn'[c] = AnsweredConn(c, out) /\ OthersKept(c)
  <2>1. conn' = [conn EXCEPT ![c] = AnsweredConn(c, out)]
    BY <1>1, Zenon DEF Answer, AnsweredConn
  <2> QED
    BY <1>2, <2>1, ConnExcept, Zenon DEF OnceInv, OthersKept
<1> QED
  BY <1>1, <1>2, <1>3, Zenon DEF Executed, TakeEffect

LEMMA ExecutorCases ==
  ASSUME OnceInv, ExecuteLen \/ ExecuteFresh \/ ExecuteDuplicate \/ ExecuteFails
  PROVE  Cases
<1>1. CASE ExecuteLen
  <2>1. PICK out : /\ out = Value(Cardinality(DOMAIN store))
                   /\ conn' = Answer(Head(queue), out)
    BY <1>1, Zenon DEF ExecuteLen
  <2>2. /\ exec = "running" /\ queue # << >> /\ Job.kind.tag = "Len"
        /\ UNCHANGED <<proto, done, cmds, fails, store, hist>>
    BY <1>1, Zenon DEF ExecuteLen, fixed, engine, bounds
  <2>3. \E c, job : Executed(c, job, out)
    BY <2>1, <2>2, ExecutedCase, Zenon
  <2> QED
    BY <2>3, Zenon DEF Cases
<1>2. CASE ExecuteFresh
  <2>1. PICK out : out = Apply(store, Job.kind).out /\ conn' = Answer(Head(queue), out)
    BY <1>2, Zenon DEF ExecuteFresh
  <2>2. /\ exec = "running" /\ queue # << >> /\ Job.kind.tag # "Len" /\ TakeEffect(Job)
        /\ UNCHANGED <<proto, done, cmds, fails>>
    BY <1>2, Zenon DEF ExecuteFresh, fixed, bounds
  <2>3. \E c, job : Executed(c, job, out)
    BY <2>1, <2>2, ExecutedCase, Zenon
  <2> QED
    BY <2>3, Zenon DEF Cases
<1>3. CASE ExecuteDuplicate
  <2>1. PICK out : out = Suppressed /\ conn' = Answer(Head(queue), out)
    BY <1>3, Zenon DEF ExecuteDuplicate
  <2>2. /\ exec = "running" /\ queue # << >>
        /\ UNCHANGED <<proto, done, cmds, fails, store, hist>>
    BY <1>3, Zenon DEF ExecuteDuplicate, fixed, engine, bounds
  <2>3. \E c, job : Executed(c, job, out)
    BY <2>1, <2>2, ExecutedCase, Zenon
  <2> QED
    BY <2>3, Zenon DEF Cases
<1>4. CASE ExecuteFails
  <2>1. PICK c, job : c = Head(queue) /\ job = Job
    BY Zenon
  <2>2. /\ queue # << >> /\ DropQueue /\ job.kind.tag # "Len"
        /\ UNCHANGED <<proto, done, cmds>> /\ fails' = fails + 1
        /\ TakeEffect(job) \/ UNCHANGED <<store, hist>>
    BY <1>4, <2>1, Zenon DEF ExecuteFails, fixed, engine
  <2>3. c \in Conns /\ Waiting(c) /\ job = Ops(c)[Len(Ops(c))]
    <3>1. c \in Conns /\ Waiting(c)
      BY <2>1, <2>2, HeadWaits, Zenon DEF OnceInv
    <3> QED
      BY <2>1, <3>1, Zenon DEF Job, Ops
  <2>4. \A d \in Conns :
          conn'[d] = conn[d] \/ (Waiting(d) /\ conn'[d] = AnsweredConn(d, None))
    BY <2>2, Zenon DEF DropQueue, AnsweredConn
  <2>5. Failed(c, job)
    BY <2>2, <2>3, <2>4, Zenon DEF Failed, TakeEffect
  <2> QED
    BY <2>5, Zenon DEF Cases
<1> QED
  BY <1>1, <1>2, <1>3, <1>4, Zenon

\* One connection ends or is opened.
LEMMA QuietCase ==
  ASSUME OnceInv, NEW c \in Conns, NEW p \in {"none", "read", "closed"},
         conn' = [conn EXCEPT ![c] = [NoConn EXCEPT !.pc = p]],
         UNCHANGED <<proto, store, hist, done, fails>>, cmds' \in {cmds, cmds + 1}
  PROVE  Cases
<1>1. conn' = [conn EXCEPT ![c] = IdleConn(p, 0, << >>, FALSE)]
  BY IdleForms, Zenon
<1>2. conn'[c] = IdleConn(p, 0, << >>, FALSE) /\ \A d \in Conns \ {c} : conn'[d] = conn[d]
  BY <1>1, ConnExcept, Zenon DEF OnceInv
<1> QED
  BY <1>2, Zenon DEF Quiet, Cases, Resets

LEMMA ServerCases ==
  ASSUME OnceInv, \/ Start \/ StartWithoutExecutor \/ ExecutorEnds \/ Accept \/ AcceptBreaks
                  \/ AcceptFails \/ AcceptEnds \/ Stop \/ StopReturns \/ Crash
                  \/ UNCHANGED vars
  PROVE  Cases
<1>1. CASE Start \/ StartWithoutExecutor \/ ExecutorEnds \/ AcceptBreaks
           \/ AcceptFails \/ AcceptEnds \/ Stop
  <2>1. UNCHANGED <<proto, store, hist, done, cmds, conn>> /\ fails' \in {fails, fails + 1}
    BY <1>1, Zenon DEF Start, StartWithoutExecutor, ExecutorEnds, AcceptBreaks, AcceptFails,
       AcceptEnds, Stop, fixed, engine, bounds
  <2> QED
    BY <2>1, Zenon DEF Quiet, Cases
<1>2. CASE Accept
  <2>1. PICK c : c = conn_id
    BY Zenon
  <2>2. /\ conn' = [conn EXCEPT ![c] = [NoConn EXCEPT !.pc = "read"]]
        /\ UNCHANGED <<proto, store, hist, done, cmds, fails>> /\ conn_id <= MaxConn
        /\ accept = "running"
    BY <1>2, <2>1, Zenon DEF Accept, fixed, engine, bounds
  <2>3. conn_id \in Nat /\ conn_id > 0
    BY <2>2, Zenon DEF OnceInv, Started
  <2>4. c \in Conns
    BY <2>1, <2>2, <2>3, BoundsAssumption DEF Conns
  <2> QED
    BY <2>2, <2>4, QuietCase, Zenon
<1>3. CASE StopReturns \/ Crash
  <2>1. UNCHANGED <<proto, store, hist, done, cmds, fails>> /\ conn' = [c \in Conns |-> NoConn]
    BY <1>3, Zenon DEF StopReturns, Crash, fixed, engine, bounds
  <2>2. \A c \in Conns : conn'[c] = IdleConn("none", 0, << >>, FALSE)
    BY <2>1, IdleForms, Zenon
  <2> QED
    BY <2>1, <2>2, Zenon DEF Quiet, Cases, Resets
<1>4. CASE UNCHANGED vars
  <2>1. UNCHANGED <<proto, store, hist, done, cmds, conn, fails>>
    BY <1>4, Zenon DEF vars, fixed, engine, bounds
  <2> QED
    BY <2>1, Zenon DEF Quiet, Cases
<1> QED
  BY <1>1, <1>2, <1>3, <1>4, Zenon

LEMMA ThreadCases ==
  ASSUME OnceInv, NEW c \in Conns, NEW k, NEW first, Prepared(c, k, first),
         Reading(k, first), Proceed(c, k, first)
  PROVE  Cases
<1>1. PICK s, q : /\ s = StepOf(k.cmd, k.outs, k.val, k.buf, k.in_txn)
                  /\ q = NextSeq(k.seq, first, s.ask)
  BY Zenon
<1>2. /\ IF s.ask THEN Request(c, k, q, s.kind) /\ done' = done ELSE Respond(c, k, q, s)
      /\ UNCHANGED <<proto, store, hist, fails>>
  BY <1>1, Zenon DEF Proceed, fixed, engine
<1>3. CASE s.ask
  <2>1. PICK op : op = [client |-> c, seq |-> q, kind |-> s.kind]
    BY Zenon
  <2>2. Asking(c, k, first, op)
    BY <1>1, <1>3, <2>1, Zenon DEF Asking
  <2>3. PICK o : /\ IF exec = "running" THEN o = Outs(c) ELSE o = Append(Outs(c), None)
                 /\ conn' = [conn EXCEPT ![c] = AskedConn(c, k, op, o)]
    <3>1. op.seq = q /\ op.kind = s.kind /\ op = [client |-> c, seq |-> op.seq, kind |-> op.kind]
      BY <2>1, Zenon
    <3>2. Request(c, k, op.seq, op.kind)
      BY <1>2, <1>3, <3>1, Zenon
    <3> QED
      BY <3>1, <3>2, RequestForm, Zenon
  <2>4. conn'[c] = AskedConn(c, k, op, o) /\ OthersKept(c)
    BY <2>3, ConnExcept, Zenon DEF OnceInv, OthersKept
  <2>5. Asks(c, k, first, op, o)
    BY <1>2, <1>3, <2>2, <2>3, <2>4, Zenon DEF Asks, Thread
  <2> QED
    BY <2>5, Zenon DEF Cases
<1>4. CASE ~s.ask /\ conn' = [conn EXCEPT ![c] = [NoConn EXCEPT !.pc = "closed"]] /\ done' = done
  <2>1. cmds' \in {cmds, cmds + 1}
    BY Zenon DEF Reading
  <2> QED
    BY <1>2, <1>4, <2>1, QuietCase, Zenon
<1>5. ASSUME ~s.ask, NEW b, NEW t,
             b = IF proto = "txn" THEN TxnBuffer(k.cmd, k.val, k.buf, k.in_txn) ELSE << >>,
             t = (proto = "txn" /\ TxnOpen(k.cmd, k.in_txn)),
             done' = done \cup {Reported(c, k, s)},
             conn' = [conn EXCEPT ![c] =
                        [NoConn EXCEPT !.pc = "read", !.seq = q, !.buf = b, !.in_txn = t]]
      PROVE  Cases
  <2>1. conn' = [conn EXCEPT ![c] = IdleConn("read", q, b, t)]
    <3>1. Idles(c, "read", q, b, t)
      BY <1>5, ReplyForm, Zenon
    <3> QED
      BY <3>1, Zenon DEF Idles
  <2>2. conn'[c] = IdleConn("read", q, b, t) /\ OthersKept(c)
    BY <2>1, ConnExcept, Zenon DEF OnceInv, OthersKept
  <2>3. Replies(c, k, first, s)
    BY <1>1, <1>2, <1>5, <2>2, Zenon DEF Replies, Thread
  <2> QED
    BY <2>3, Zenon DEF Cases
<1> QED
  BY <1>2, <1>3, <1>4, <1>5, Zenon DEF Respond, Reported

LEMMA StepCases ==
  ASSUME OnceInv, [Next]_vars
  PROVE  Cases
<1>1. ASSUME NEW c \in Conns PROVE ConnOK(c)
  BY Zenon DEF OnceInv, ConnInv
<1>2. ASSUME NEW c \in Conns, NEW cmd \in Commands, ReadCommand(c, cmd) PROVE Cases
  <2>1. PICK k : k = WithCommand(c, cmd)
    BY Zenon
  <2>2. Proceed(c, k, TRUE) /\ conn[c].pc = "read" /\ cmds' = cmds + 1
    BY <1>2, <2>1, Zenon DEF ReadCommand, WithCommand, DueOf
  <2>3. /\ Prepared(c, k, TRUE) /\ k.cmd = cmd /\ k.val = Text(cmds + 1)
        /\ k.due = DueOf(cmd)
    <3>1. ConnOK(c)
      BY <1>1, Zenon
    <3> QED
      BY <2>1, <2>2, <3>1, PreparedRead, Zenon
  <2>4. Reading(k, TRUE)
    BY <2>2, <2>3, Zenon DEF Reading
  <2> QED
    BY <2>2, <2>3, <2>4, ThreadCases, Zenon
<1>3. ASSUME NEW c \in Conns, Continue(c) PROVE Cases
  <2>1. Prepared(c, conn[c], FALSE) /\ Proceed(c, conn[c], FALSE) /\ cmds' = cmds
    BY <1>1, <1>3, PreparedBusy, Zenon DEF Continue, Busy
  <2>2. Reading(conn[c], FALSE)
    BY <2>1, Zenon DEF Reading
  <2> QED
    BY <2>1, <2>2, ThreadCases, Zenon
<1>4. ASSUME NEW c \in Conns, Disconnect(c) \/ ReadTimeout(c) PROVE Cases
  <2>1. /\ conn' = [conn EXCEPT ![c] = [NoConn EXCEPT !.pc = "closed"]]
        /\ UNCHANGED <<proto, store, hist, done, cmds, fails>>
    BY <1>4, Zenon DEF Disconnect, ReadTimeout, fixed, engine, bounds
  <2> QED
    BY <2>1, QuietCase, Zenon
<1> QED
  BY <1>2, <1>3, <1>4, ExecutorCases, ServerCases, Zenon DEF Next

\* A connection that is opened or ends.
LEMMA ResetFields ==
  ASSUME NEW c, Resets(c)
  PROVE  /\ ~Busy(c)' /\ Outs(c)' = << >> /\ DOMAIN Outs(c)' = {} /\ conn'[c].buf = << >>
         /\ ~conn'[c].in_txn /\ conn'[c].cmd.name = "none"
<1>1. PICK p \in {"none", "read", "closed"} : conn'[c] = IdleConn(p, 0, << >>, FALSE)
  BY Zenon DEF Resets
<1>2. /\ conn'[c].pc = p /\ conn'[c].outs = << >> /\ conn'[c].buf = << >>
      /\ conn'[c].in_txn = FALSE /\ conn'[c].cmd.name = "none"
  BY <1>1 DEF IdleConn, Command
<1> QED
  BY <1>2, NoElements, Zenon DEF Busy, Outs

\* The operations in effect stay in effect.
LEMMA CasesGrow ==
  ASSUME OnceInv, Cases
  PROVE  Grows
<1>1. hist' = hist \/ \E e : hist' = Append(hist, e)
  BY Zenon DEF Cases, Quiet, Executed, Failed, Asks, Replies, Thread
<1>2. CASE hist' = hist
  BY <1>2, SameHist, Zenon
<1>3. CASE \E e : hist' = Append(hist, e)
  <2>1. PICK e : hist' = Append(hist, e)
    BY <1>3, Zenon
  <2>2. IsSeq(hist) /\ Len(hist) \in Nat /\ DOMAIN hist = 1..Len(hist)
    BY SeqFacts, Zenon DEF OnceInv, Marked
  <2>3. /\ DOMAIN Append(hist, e) = 1..(Len(hist) + 1)
        /\ \A i \in 1..Len(hist) : Append(hist, e)[i] = hist[i]
    BY <2>2, Appended
  <2>4. \A i \in DOMAIN hist : i \in DOMAIN hist' /\ hist'[i] = hist[i]
    BY <2>1, <2>2, <2>3
  <2> QED
    BY <2>4, Zenon DEF Grows, Effective
<1> QED
  BY <1>1, <1>2, <1>3, Zenon
=============================================================================
