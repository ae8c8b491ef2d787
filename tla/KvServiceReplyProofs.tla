------------------------- MODULE KvServiceReplyProofs --------------------------
(***************************************************************************)
(* What the replies of the server mean: an acknowledged write is durable   *)
(* and an open transaction is invisible.                                   *)
(***************************************************************************)
EXTENDS KvServiceOnceProofs

-----------------------------------------------------------------------------
(* The invariants *)

\* The executor runs as long as somebody may call it.
Manned == up => exec = "running" \/ (accept = "over" /\ \A c \in Conns : ~Live(c))

Unbroken(c) == \A i \in DOMAIN Outs(c) : Outs(c)[i] # None

\* Without engine errors the executor outlives the connections, and all calls are
\* answered by it.
Outlives ==
  fails \in Nat /\ (fails = 0 => Manned /\ \A c \in Conns : Unbroken(c))

\* An acknowledged write is in effect, unless a front end that does not look at the
\* results met an engine error.
Durable(d) ==
  d.ok /\ (SeqPerCommand \/ fails = 0) =>
    \A i \in DOMAIN d.ops : IsWrite(d.ops[i].kind) => Effective(d.ops[i])

AckInv == \A d \in done : Durable(d)

\* The values of the first n commands: each command that writes has its own.
Texts(n) == {Text(m) : m \in 1..n}

Buffered(c) == {conn[c].buf[i].val : i \in DOMAIN conn[c].buf}

\* The values a connection may still write.
Owned(c) == Buffered(c) \cup (IF Busy(c) THEN {conn[c].val} ELSE {})

Stored == {store[x] : x \in DOMAIN store}

Committing(c) == Busy(c) /\ conn[c].cmd.name = "COMMIT"

\* A connection's buffer is empty outside a transaction, and its values are in the
\* store only once COMMIT has handed them to the executor.
Hiding(c) ==
  /\ IsSeq(conn[c].buf)
  /\ ~conn[c].in_txn => conn[c].buf = << >>
  /\ Busy(c) /\ conn[c].cmd.name \in {"SET", "DEL"} => ~conn[c].in_txn
  /\ Owned(c) \subseteq Texts(cmds)
  /\ ~Committing(c) => Buffered(c) \cap Stored = {}

Hidden ==
  /\ Stored \subseteq Texts(cmds)
  /\ \A c \in Conns : Hiding(c)
  /\ \A c, d \in Conns : c # d => Owned(c) \cap Owned(d) = {}

HidInv ==
  /\ cmds \in Nat
  /\ IF proto = "txn" THEN Hidden ELSE \A c \in Conns : conn[c].buf = << >>

-----------------------------------------------------------------------------
(* Without engine errors *)

LEMMA InitOutlives ==
  ASSUME Init
  PROVE  Outlives
<1>1. ASSUME NEW c \in Conns PROVE Unbroken(c)
  <2>1. Outs(c) = << >>
    BY Zenon DEF Init, NoConn, Outs
  <2> QED
    BY <2>1, NoElements, Zenon DEF Unbroken
<1> QED
  BY <1>1, Zenon DEF Init, Outlives, Manned

LEMMA MannedStep ==
  ASSUME OnceInv, Manned, [Next]_vars, fails \in Nat, fails' = fails
  PROVE  Manned'
<1>1. CASE Start \/ ExecuteLen \/ ExecuteFresh \/ ExecuteDuplicate
  BY <1>1, Zenon DEF Start, ExecuteLen, ExecuteFresh, ExecuteDuplicate, Manned, server
<1>2. CASE StartWithoutExecutor \/ ExecuteFails
  BY <1>2 DEF StartWithoutExecutor, ExecuteFails
<1>3. CASE ExecutorEnds
  BY <1>3, Zenon DEF ExecutorEnds, Manned, Live, server
<1>4. CASE Accept \/ AcceptBreaks \/ AcceptFails \/ AcceptEnds
  <2>1. accept # "over" /\ UNCHANGED <<exec, up>>
    BY <1>4, Zenon DEF Accept, AcceptBreaks, AcceptFails, AcceptEnds
  <2>2. up
    BY <2>1, Zenon DEF OnceInv, Started
  <2> QED
    BY <2>1, <2>2, Zenon DEF Manned
<1>5. CASE Stop \/ UNCHANGED vars
  <2>1. UNCHANGED <<up, exec, accept, conn>>
    BY <1>5, Zenon DEF Stop, vars, server
  <2> QED
    BY <2>1, Zenon DEF Manned, Live
<1>6. CASE StopReturns \/ Crash
  BY <1>6, Zenon DEF StopReturns, Crash, Manned
<1>7. ASSUME NEW c \in Conns, \/ \E cmd \in Commands : ReadCommand(c, cmd)
                              \/ Continue(c) \/ Disconnect(c) \/ ReadTimeout(c)
      PROVE  Manned'
  <2>1. Live(c)
    BY <1>7, Zenon DEF ReadCommand, Continue, Disconnect, ReadTimeout, Streaming, Live
  <2>2. up
    BY <2>1, LiveIs, Zenon
  <2>3. \A k, first : Proceed(c, k, first) => UNCHANGED <<exec, up>>
    BY Zenon DEF Proceed, server
  <2>4. UNCHANGED <<exec, up>>
    BY <1>7, <2>3, Zenon DEF ReadCommand, Continue, Disconnect, ReadTimeout, server
  <2> QED
    BY <2>1, <2>2, <2>4, Zenon DEF Manned
<1> QED
  BY <1>1, <1>2, <1>3, <1>4, <1>5, <1>6, <1>7, Zenon DEF Next

LEMMA OutlivesStep ==
  ASSUME OnceInv, Outlives, [Next]_vars
  PROVE  Outlives'
<1>1. Cases
  BY StepCases, Zenon
<1>2. fails' \in {fails, fails + 1} /\ fails \in Nat
  BY <1>1, Zenon DEF Cases, Quiet, Executed, Failed, Asks, Replies, Thread, Outlives
<1>3. ASSUME fails' = 0 PROVE Manned' /\ \A d \in Conns : Unbroken(d)'
  <2>1. fails' = fails /\ fails = 0 /\ Manned /\ \A c \in Conns : Unbroken(c)
    BY <1>2, <1>3 DEF Outlives
  <2>2. Manned'
    BY <2>1, MannedStep, Zenon
  <2> SUFFICES ASSUME NEW d \in Conns PROVE Unbroken(d)'
    BY <2>2, Zenon
  <2>3. ASSUME conn'[d] = conn[d] PROVE Unbroken(d)'
    BY <2>1, <2>3, Zenon DEF Unbroken, Outs
  <2>4. ASSUME Outs(d)' = << >> PROVE Unbroken(d)'
    BY <2>4, NoElements, Zenon DEF Unbroken
  <2>5. CASE Quiet
    BY <2>3, <2>4, <2>5, ResetFields, Zenon DEF Quiet
  <2>6. ASSUME NEW c, NEW job, NEW out, Executed(c, job, out) PROVE Unbroken(d)'
    <3>1. CASE c # d
      BY <2>3, <2>6, <3>1, Zenon DEF Executed, OthersKept
    <3>2. CASE c = d
      <4>1. /\ ConnOK(d) /\ Waiting(d) /\ proto' = proto
            /\ conn'[d] = AnsweredConn(d, out) /\ job = Ops(d)[Len(Ops(d))]
        BY <2>6, <3>2, Zenon DEF Executed, OnceInv, ConnInv
      <4>2. Outs(d)' = Append(Outs(d), out) /\ Len(Outs(d)) + 1 = Len(Ops(d))
        BY <4>1, ConnAnswered, Zenon
      <4>3. IsSeq(Outs(d)) /\ Len(Outs(d)) \in Nat /\ DOMAIN Outs(d) = 1..Len(Outs(d))
        BY <4>1, SeqFacts, Zenon DEF ConnOK, Threaded
      <4>4. out # None
        <5>1. job.kind.tag \in Tags
          <6>1. Len(Ops(d)) \in Nat /\ DOMAIN Ops(d) = 1..Len(Ops(d))
            BY <4>1, SeqFacts, Zenon DEF ConnOK, Threaded
          <6>2. Len(Ops(d)) \in DOMAIN Ops(d)
            BY <4>2, <4>3, <6>1
          <6> QED
            BY <4>1, <6>2, Zenon DEF ConnOK, Numbered
        <5>2. job.kind.tag # "Len" => Apply(store, job.kind).out # None
          BY <5>1, ApplyAnswers, Zenon
        <5>3. \A n : Value(n) # None
          BY Zenon DEF Value, None
        <5>4. Suppressed # None
          BY Zenon DEF Suppressed, None
        <5> QED
          BY <2>6, <5>2, <5>3, <5>4, Zenon DEF Executed
      <4>5. /\ DOMAIN Append(Outs(d), out) = 1..(Len(Outs(d)) + 1)
            /\ \A i \in 1..Len(Outs(d)) : Append(Outs(d), out)[i] = Outs(d)[i]
            /\ Append(Outs(d), out)[Len(Outs(d)) + 1] = out
        BY <4>3, Appended
      <4> QED
        BY <2>1, <4>2, <4>3, <4>4, <4>5 DEF Unbroken
    <3> QED
      BY <3>1, <3>2, Zenon
  <2>7. ASSUME NEW c, NEW job, Failed(c, job) PROVE FALSE
    BY <1>2, <2>1, <2>7 DEF Failed
  <2>8. ASSUME NEW c, NEW k, NEW first, NEW op, NEW o, Asks(c, k, first, op, o)
        PROVE  Unbroken(d)'
    <3>1. CASE c # d
      BY <2>3, <2>8, <3>1, Zenon DEF Asks, Thread, OthersKept
    <3>2. CASE c = d
      <4>1. Live(d)
        BY <2>8, <3>2, PreparedFacts, Zenon DEF Asks, Thread, OnceInv, ConnInv
      <4>2. exec = "running"
        BY <2>1, <4>1, LiveIs, Zenon DEF Manned
      <4>3. conn'[d] = AskedConn(d, k, op, o) /\ o = Outs(d)
        BY <2>8, <3>2, <4>2, Zenon DEF Asks
      <4>4. Outs(d)' = Outs(d)
        BY <4>3, AskedFields DEF Outs
      <4> QED
        BY <2>1, <4>4, Zenon DEF Unbroken
    <3> QED
      BY <3>1, <3>2, Zenon
  <2>9. ASSUME NEW c, NEW k, NEW first, NEW r, Replies(c, k, first, r)
        PROVE  Unbroken(d)'
    <3>1. CASE c # d
      BY <2>3, <2>9, <3>1, Zenon DEF Replies, Thread, OthersKept
    <3>2. CASE c = d
      <4>1. Outs(d)' = << >>
        BY <2>9, <3>2 DEF Replies, IdleConn, Outs
      <4> QED
        BY <2>4, <4>1, Zenon
    <3> QED
      BY <3>1, <3>2, Zenon
  <2> QED
    BY <1>1, <2>5, <2>6, <2>7, <2>8, <2>9, Zenon DEF Cases
<1> QED
  BY <1>2, <1>3 DEF Outlives

-----------------------------------------------------------------------------
(* Acknowledged writes *)

LEMMA ReplyOk ==
  ASSUME NEW b, NEW v, NEW r, r = Reply(b, v), r.ok
  PROVE  b
BY Zenon DEF Reply

\* What the replies of RESP and HTTP look at.
LEMMA RespReply ==
  ASSUME NEW cmd \in RespCommands, NEW outs, NEW n \in Nat, n # 0, Len(outs) = n, NEW val,
         NEW r, r = RespStep(cmd, outs, val), ~r.ask, r.ok, cmd.name # "PLAIN",
         cmd.name # "DBSIZE"
  PROVE  IF cmd.name = "DEL" THEN \A i \in DOMAIN outs : Removed(outs[i]) ELSE outs[n] # None
<1>1. cmd.name \in {"SET", "GET", "INCR", "DECR", "DEL"}
  BY CommandFields, Zenon
<1>2. CASE cmd.name = "DEL"
  <2>1. r = IF n < Len(cmd.keys) THEN Ask(Del(Plain(cmd.keys[n + 1])))
            ELSE Reply(\A i \in DOMAIN outs : Removed(outs[i]), Value(Count(outs)))
    BY <1>2, Zenon DEF RespStep
  <2>2. \A x : Ask(x).ask
    BY Zenon DEF Ask
  <2>3. r = Reply(\A i \in DOMAIN outs : Removed(outs[i]), Value(Count(outs)))
    BY <2>1, <2>2, Zenon
  <2>4. \A i \in DOMAIN outs : Removed(outs[i])
    BY <2>3, ReplyOk, Zenon
  <2> QED
    BY <1>2, <2>4, Zenon
<1>3. CASE cmd.name = "SET"
  <2>1. r = Reply(outs[n] # None, Ok)
    BY <1>3, Zenon DEF RespStep
  <2>2. outs[n] # None
    BY <2>1, ReplyOk, Zenon
  <2> QED
    BY <1>3, <2>2, Zenon
<1>4. CASE cmd.name \in {"GET", "INCR", "DECR"}
  <2>1. r = Reply(outs[n].tag = "Bytes", outs[n]) \/ r = Reply(outs[n].tag = "Value", outs[n])
    BY <1>4, Zenon DEF RespStep, GetReply
  <2>2. outs[n].tag = "Bytes" \/ outs[n].tag = "Value"
    BY <2>1, ReplyOk, Zenon
  <2> QED
    BY <1>4, <2>2 DEF None
<1> QED
  BY <1>1, <1>2, <1>3, <1>4, Zenon

LEMMA HttpReply ==
  ASSUME NEW cmd \in HttpCommands, NEW outs, outs # << >>, NEW val,
         NEW r, r = HttpStep(cmd, outs, val), r.ok
  PROVE  outs[1] # None
<1>1. cmd.name \in {"OTHER", "GET", "PUT", "POST", "DELETE"}
  BY CommandFields, Zenon
<1>2. CASE cmd.name = "PUT"
  <2>1. r = Reply(outs[1] # None, Ok)
    BY <1>2, Zenon DEF HttpStep
  <2> QED
    BY <2>1, ReplyOk, Zenon
<1>3. CASE cmd.name # "PUT"
  <2>1. \/ r = Reply(FALSE, None)
        \/ r = Reply(outs[1].tag = "Bytes", outs[1])
        \/ r = Reply(outs[1].tag = "Value", outs[1])
        \/ r = Reply(Removed(outs[1]), Value(Count(outs)))
    BY <1>1, <1>3, Zenon DEF HttpStep, GetReply
  <2>2. r # Reply(FALSE, None)
    BY DEF Reply
  <2>3. r = Reply(outs[1].tag = "Bytes", outs[1]) => outs[1].tag = "Bytes"
    BY ReplyOk, Zenon
  <2>4. r = Reply(outs[1].tag = "Value", outs[1]) => outs[1].tag = "Value"
    BY ReplyOk, Zenon
  <2>5. r = Reply(Removed(outs[1]), Value(Count(outs))) => outs[1].tag = "Value"
    BY ReplyOk, Zenon DEF Removed
  <2>6. outs[1].tag \in {"Bytes", "Value"}
    BY <2>1, <2>2, <2>3, <2>4, <2>5, Zenon
  <2> QED
    BY <2>6 DEF None
<1> QED
  BY <1>2, <1>3, Zenon

\* A reply of RESP or HTTP that reports a write as done has seen its output.
LEMMA OkSeen ==
  ASSUME SeqPerCommand, NEW c, ConnOK(c), Answered(c), NEW k, NEW first,
         Prepared(c, k, first), NEW r,
         r = StepOf(k.cmd, k.outs, k.val, k.buf, k.in_txn), ~r.ask, r.ok,
         NEW i \in DOMAIN Ops(c), IsWrite(Ops(c)[i].kind)
  PROVE  Outs(c)[i] \notin {None, Suppressed}
<1>1. /\ Len(Ops(c)) \in Nat /\ DOMAIN Ops(c) = 1..Len(Ops(c))
      /\ DOMAIN Outs(c) = 1..Len(Ops(c)) /\ Len(Outs(c)) = Len(Ops(c))
      /\ first <=> Len(Ops(c)) = 0
  BY PreparedFacts
<1>2. k = conn[c] /\ k.outs = Outs(c) /\ k.cmd \in Commands /\ Len(Ops(c)) # 0
  BY <1>1 DEF Prepared, Outs
<1>3. ASSUME Len(Ops(c)) = 1 PROVE i = 1 /\ i = Len(Ops(c)) /\ Outs(c)[i] # Suppressed
  BY <1>1, <1>3 DEF Answered
<1>4. CASE proto = "resp"
  <2>1. k.cmd \in RespCommands /\ r = RespStep(k.cmd, k.outs, k.val)
    BY <1>2, <1>4, Zenon DEF Commands, StepOf
  <2>2. k.cmd.name \notin {"PLAIN", "DBSIZE"}
    <3> SUFFICES ASSUME k.cmd.name \in {"PLAIN", "DBSIZE"} PROVE FALSE
      BY Zenon
    <3>1. Ops(c)[i].kind.tag = "Len"
      BY <1>2, <1>4, Zenon DEF ConnOK, Deleting
    <3> QED
      BY <3>1, Zenon DEF IsWrite
  <2>3. IF k.cmd.name = "DEL" THEN \A j \in DOMAIN Outs(c) : Removed(Outs(c)[j])
                              ELSE Outs(c)[Len(Ops(c))] # None
    BY <1>1, <1>2, <2>1, <2>2, RespReply, Zenon
  <2>4. CASE k.cmd.name = "DEL"
    BY <1>1, <2>3, <2>4 DEF Removed, None, Suppressed
  <2>5. CASE k.cmd.name # "DEL"
    <3>1. Len(Ops(c)) = 1
      BY <1>1, <1>2, <2>5 DEF ConnOK, Deleting
    <3> QED
      BY <1>3, <2>3, <2>5, <3>1, Zenon
  <2> QED
    BY <2>4, <2>5, Zenon
<1>5. CASE proto = "http"
  <2>1. k.cmd \in HttpCommands /\ r = HttpStep(k.cmd, k.outs, k.val)
    BY <1>2, <1>5, Zenon DEF Commands, StepOf
  <2>2. Len(Ops(c)) = 1
    BY <1>1, <1>2, <1>5 DEF ConnOK, Deleting
  <2>3. k.outs # << >>
    BY <1>1, <1>2, NoElements, Zenon
  <2>4. Outs(c)[1] # None
    BY <1>2, <2>1, <2>3, HttpReply, Zenon
  <2> QED
    BY <1>3, <2>2, <2>4, Zenon
<1> QED
  BY <1>4, <1>5, Zenon DEF SeqPerCommand

\* The command just answered.
LEMMA ReportedFields ==
  ASSUME NEW c, NEW k, NEW r, NEW d, d = Reported(c, k, r)
  PROVE  /\ d.client = c /\ d.cmd = k.cmd /\ d.val = k.val /\ d.ops = k.ops
         /\ d.outs = k.outs /\ d.ok = r.ok /\ d.reply = r.val /\ d.due = k.due
BY Zenon DEF Reported

LEMMA AckStep ==
  ASSUME OnceInv, Outlives, AckInv, [Next]_vars
  PROVE  AckInv'
<1>1. Cases
  BY StepCases, Zenon
<1>2. Grows
  BY <1>1, CasesGrow, Zenon
<1>3. proto' = proto /\ fails' \in {fails, fails + 1} /\ fails \in Nat
  BY <1>1, Zenon DEF Cases, Quiet, Executed, Failed, Asks, Replies, Thread, Outlives
<1>4. (SeqPerCommand \/ fails = 0)' => SeqPerCommand \/ fails = 0
  BY <1>3 DEF SeqPerCommand
<1> SUFFICES ASSUME NEW d \in done', d.ok, SeqPerCommand \/ fails = 0,
                    NEW i \in DOMAIN d.ops, IsWrite(d.ops[i].kind)
             PROVE  Effective(d.ops[i])'
  BY <1>4, Zenon DEF AckInv, Durable
<1>5. CASE d \in done
  <2>1. Effective(d.ops[i])
    BY <1>5, Zenon DEF AckInv, Durable
  <2> QED
    BY <1>2, <2>1, Zenon DEF Grows
<1>6. CASE d \notin done
  <2>1. PICK c, k, first, r : Replies(c, k, first, r) /\ d = Reported(c, k, r)
    BY <1>1, <1>6, Zenon DEF Cases, Quiet, Executed, Failed, Asks, Replies
  <2>2. /\ c \in Conns /\ Prepared(c, k, first) /\ ~r.ask
        /\ r = StepOf(k.cmd, k.outs, k.val, k.buf, k.in_txn)
    BY <2>1, Zenon DEF Replies, Thread
  <2>3. d.ops = Ops(c) /\ r.ok
    BY <2>1, <2>2, ReportedFields DEF Prepared
  <2>4. ConnOK(c) /\ Answered(c)
    BY <2>2, Zenon DEF OnceInv, ConnInv
  <2>5. DOMAIN Outs(c) = DOMAIN Ops(c)
    BY <2>2, <2>4, PreparedFacts, Zenon
  <2>6. Outs(c)[i] \notin {None, Suppressed}
    <3>1. CASE SeqPerCommand
      BY <2>2, <2>3, <2>4, <3>1, OkSeen, Zenon
    <3>2. CASE ~SeqPerCommand /\ fails = 0
      BY <2>2, <2>3, <2>4, <2>5, <3>2, Zenon DEF Outlives, Unbroken, Answered
    <3> QED
      BY <3>1, <3>2, Zenon
  <2>7. Effective(Ops(c)[i])
    BY <2>3, <2>4, <2>5, <2>6, Zenon DEF Answered
  <2> QED
    BY <1>2, <2>3, <2>7, Zenon DEF Grows
<1> QED
  BY <1>5, <1>6, Zenon

\* A command that is reported as done has its writes in effect, whatever stops and
\* crashes happen around it: with engine errors too for RESP and HTTP, which look at the
\* results of their calls, and without engine errors for the front ends that do not.
THEOREM AcknowledgedDurable ==
  Spec => [](SeqPerCommand \/ fails = 0 => AckedWritesDurable)
<1> DEFINE I == OnceInv /\ Outlives /\ AckInv
<1>1. Init => I
  BY InitOnce, InitOutlives, Zenon DEF Init, AckInv
<1>2. I /\ [Next]_vars => I'
  BY NextOnce, OutlivesStep, AckStep, Zenon
<1>3. I => (SeqPerCommand \/ fails = 0 => AckedWritesDurable)
  BY Zenon DEF AckInv, Durable, AckedWritesDurable
<1> HIDE DEF I
<1> QED
  BY <1>1, <1>2, <1>3, PTL DEF Spec

-----------------------------------------------------------------------------
(* Transactions *)

\* A transaction stores nothing but its own values.
LEMMA WriteAllValues ==
  ASSUME NEW m, NEW ws, NEW x \in DOMAIN WriteAll(m, ws)
  PROVE  \/ x \in DOMAIN m /\ WriteAll(m, ws)[x] = m[x]
         \/ \E i \in DOMAIN ws : WriteAll(m, ws)[x] = ws[i].val
<1> DEFINE keys == {ws[i].key : i \in DOMAIN ws}
           sets == {i \in Deciding(ws) : ~ws[i].del}
           dom == (DOMAIN m \ keys) \cup {ws[i].key : i \in sets}
<1>1. WriteAll(m, ws) = [k \in dom |-> IF k \in keys THEN ws[CHOOSE i \in sets : ws[i].key = k].val
                                                   ELSE m[k]]
  BY Zenon DEF WriteAll
<1>2. sets \subseteq DOMAIN ws
  BY Zenon DEF Deciding
<1>3. x \in dom
  BY <1>1, Zenon
<1>4. CASE x \in keys
  <2>1. \E i \in sets : ws[i].key = x
    BY <1>3, <1>4, Zenon
  <2>2. PICK j : j = CHOOSE i \in sets : ws[i].key = x
    BY Zenon
  <2>3. j \in sets
    BY <2>1, <2>2, Zenon
  <2>4. WriteAll(m, ws)[x] = ws[j].val
    BY <1>1, <1>3, <1>4, <2>2, Zenon
  <2> QED
    BY <1>2, <2>3, <2>4, Zenon
<1>5. CASE x \notin keys
  <2>1. x \in DOMAIN m
    BY <1>2, <1>3, <1>5, Zenon
  <2> QED
    BY <1>1, <1>3, <1>5, <2>1, Zenon
<1> QED
  BY <1>4, <1>5, Zenon

LEMMA NewText ==
  ASSUME NEW n \in Nat
  PROVE  /\ Texts(n) \subseteq Texts(n + 1)
         /\ Text(n + 1) \in Texts(n + 1) /\ Text(n + 1) \notin Texts(n)
<1>1. \A a, b : Text(a) = Text(b) => a = b
  BY Zenon DEF Text
<1> QED
  BY <1>1 DEF Texts

\* What the executor is asked to write in a transaction: the value of a single SET, or
\* the buffer of a COMMIT.
LEMMA TxnJob ==
  ASSUME proto = "txn", NEW c, ConnOK(c), Hiding(c), Waiting(c), NEW job,
         job = Ops(c)[Len(Ops(c))], job.kind.tag # "Get"
  PROVE  /\ \E ws : job.kind = Txn(ws) /\ \A i \in DOMAIN ws : ws[i].val \in Owned(c)
         /\ Committing(c) \/ Buffered(c) = {}
<1>1. PICK cmd, outs, v, b, t :
        cmd = conn[c].cmd /\ outs = conn[c].outs /\ v = conn[c].val /\ b = conn[c].buf
          /\ t = conn[c].in_txn
  BY Zenon
<1>2. PICK s : s = TxnStep(cmd, outs, v, b, t)
  BY Zenon
<1>3. s.ask /\ job.kind = s.kind
  BY <1>1, <1>2, Zenon DEF ConnOK, Asked, NextStep, StepOf
<1>4. Busy(c)
  BY Zenon DEF Waiting, Busy
<1>5. cmd \in TxnCommands
  BY <1>1, <1>4, Zenon DEF ConnOK, Threaded, Commands
<1>6. cmd.name \in {"BEGIN", "COMMIT", "ABORT", "SET", "DEL", "GET"}
  BY <1>5, CommandFields, Zenon
<1>7. \A x : Ask(x).kind = x
  BY Zenon DEF Ask
<1>8. \A x, y : ~Reply(x, y).ask
  BY Zenon DEF Reply
<1>9. CASE cmd.name \in {"BEGIN", "ABORT"}
  BY <1>2, <1>3, <1>8, <1>9, Zenon DEF TxnStep
<1>10. CASE cmd.name = "GET"
  <2>1. s = IF outs = << >> THEN Ask(Get(Plain(cmd.key))) ELSE GetReply(outs[1])
    BY <1>2, <1>10, Zenon DEF TxnStep
  <2>2. s.kind = Get(Plain(cmd.key))
    BY <1>3, <1>7, <1>8, <2>1, Zenon DEF GetReply
  <2> QED
    BY <1>3, <2>2 DEF Get
<1>11. CASE cmd.name \in {"SET", "DEL"}
  <2>1. s = IF t \/ outs # << >> THEN Reply(TRUE, Ok) ELSE Ask(Txn(<<Entry(cmd, v)>>))
    BY <1>2, <1>11, Zenon DEF TxnStep
  <2>2. ~t /\ s.kind = Txn(<<Entry(cmd, v)>>)
    BY <1>3, <1>7, <1>8, <2>1, Zenon
  <2>3. Buffered(c) = {}
    <3>1. conn[c].buf = << >>
      BY <1>1, <2>2, Zenon DEF Hiding
    <3>2. DOMAIN conn[c].buf = {}
      BY <3>1, NoElements, Zenon
    <3> QED
      BY <3>2, Zenon DEF Buffered
  <2>4. \A i \in DOMAIN <<Entry(cmd, v)>> : <<Entry(cmd, v)>>[i].val = v
    <3>1. Entry(cmd, v).val = v
      BY Zenon DEF Entry
    <3> QED
      BY <3>1
  <2>5. v \in Owned(c)
    BY <1>1, <1>4, Zenon DEF Owned
  <2> QED
    BY <1>3, <2>2, <2>3, <2>4, <2>5, Zenon
<1>12. CASE cmd.name = "COMMIT"
  <2>1. s = IF ~t THEN Reply(FALSE, None)
            ELSE IF outs = << >> THEN Ask(Txn(b)) ELSE Reply(TRUE, Value(Len(b)))
    BY <1>2, <1>12, Zenon DEF TxnStep
  <2>2. s.kind = Txn(b)
    BY <1>3, <1>7, <1>8, <2>1, Zenon
  <2>3. \A i \in DOMAIN b : b[i].val \in Owned(c)
    BY <1>1, Zenon DEF Owned, Buffered
  <2> QED
    BY <1>1, <1>3, <1>4, <1>12, <2>2, <2>3, Zenon DEF Committing
<1> QED
  BY <1>6, <1>9, <1>10, <1>11, <1>12, Zenon

\* The store after the executor's step: the values it had and those of the connection
\* it worked for.
LEMMA TxnStored ==
  ASSUME proto = "txn", NEW c, ConnOK(c), Hiding(c), Waiting(c), NEW job,
         job = Ops(c)[Len(Ops(c))],
         store' = Apply(store, job.kind).map \/ store' = store
  PROVE  \/ Stored' = Stored
         \/ Stored' \subseteq Stored \cup Owned(c) /\ (Committing(c) \/ Buffered(c) = {})
<1>1. CASE store' = store
  BY <1>1, Zenon DEF Stored
<1>2. CASE job.kind.tag = "Get" /\ store' = Apply(store, job.kind).map
  <2>1. store' = store
    BY <1>2, Zenon DEF Apply
  <2> QED
    BY <2>1, Zenon DEF Stored
<1>3. CASE job.kind.tag # "Get" /\ store' = Apply(store, job.kind).map
  <2>1. PICK ws : job.kind = Txn(ws) /\ \A i \in DOMAIN ws : ws[i].val \in Owned(c)
    BY <1>3, TxnJob, Zenon
  <2>2. Committing(c) \/ Buffered(c) = {}
    BY <1>3, TxnJob, Zenon
  <2>3. store' = WriteAll(store, ws)
    <3>1. job.kind.tag = "Txn" /\ job.kind.writes = ws
      BY <2>1 DEF Txn
    <3> QED
      BY <1>3, <3>1, Zenon DEF Apply
  <2>4. ASSUME NEW x \in DOMAIN store' PROVE store'[x] \in Stored \cup Owned(c)
    <3>1. \/ x \in DOMAIN store /\ store'[x] = store[x]
          \/ \E i \in DOMAIN ws : store'[x] = ws[i].val
      BY <2>3, WriteAllValues
    <3> QED
      BY <2>1, <3>1, Zenon DEF Stored
  <2>5. Stored' \subseteq Stored \cup Owned(c)
    BY <2>4, Zenon DEF Stored
  <2> QED
    BY <2>2, <2>5, Zenon
<1> QED
  BY <1>1, <1>2, <1>3, Zenon

\* What connection threads own stays apart, when only one gets something new.
LEMMA OwnedApart ==
  ASSUME Hidden, NEW new, new \cap Texts(cmds) = {}, NEW c,
         Owned(c)' \subseteq Owned(c) \cup new,
         \A d \in Conns \ {c} : Owned(d)' \subseteq Owned(d)
  PROVE  \A e, d \in Conns : e # d => (Owned(e) \cap Owned(d) = {})'
<1>1. \A d \in Conns : Owned(d) \subseteq Texts(cmds)
  BY Zenon DEF Hidden, Hiding
<1> SUFFICES ASSUME NEW e \in Conns, NEW d \in Conns, e # d, NEW x, x \in Owned(e)', x \in Owned(d)'
             PROVE  FALSE
  BY Zenon
<1>2. x \notin Owned(e) \cap Owned(d)
  BY Zenon DEF Hidden
<1> QED
  BY <1>1, <1>2, Zenon

\* A connection that keeps its command and its buffer.
Keeps(c) ==
  /\ Busy(c)' = Busy(c) /\ conn'[c].cmd = conn[c].cmd /\ conn'[c].val = conn[c].val
  /\ conn'[c].buf = conn[c].buf /\ conn'[c].in_txn = conn[c].in_txn
  /\ conn'[c].due = conn[c].due

LEMMA AnsweredKeeps ==
  ASSUME NEW c, ConnOK(c), conn'[c] = conn[c] \/ \E out : conn'[c] = AnsweredConn(c, out)
  PROVE  Keeps(c)
<1>0. PICK r : r = conn[c]
  BY Zenon
<1>1. PICK p, q, m, x, o, u, b, t, e :
        r = [pc |-> p, seq |-> q, cmd |-> m, val |-> x, ops |-> o, outs |-> u,
             buf |-> b, in_txn |-> t, due |-> e]
  BY <1>0, Zenon DEF ConnOK, Threaded
<1>2. ASSUME NEW out, NEW y, y = [r EXCEPT !.outs = Append(@, out)]
      PROVE  y.pc = r.pc /\ y.cmd = r.cmd /\ y.val = r.val /\ y.buf = r.buf
               /\ y.in_txn = r.in_txn /\ y.due = r.due
  BY <1>1, <1>2, Zenon
<1>3. /\ conn'[c].pc = conn[c].pc /\ conn'[c].cmd = conn[c].cmd /\ conn'[c].val = conn[c].val
      /\ conn'[c].buf = conn[c].buf /\ conn'[c].in_txn = conn[c].in_txn
      /\ conn'[c].due = conn[c].due
  <2>1. CASE conn'[c] = conn[c]
    BY <2>1, Zenon
  <2>2. ASSUME NEW out, conn'[c] = AnsweredConn(c, out)
        PROVE  /\ conn'[c].pc = r.pc /\ conn'[c].cmd = r.cmd /\ conn'[c].val = r.val
               /\ conn'[c].buf = r.buf /\ conn'[c].in_txn = r.in_txn
               /\ conn'[c].due = r.due
    <3>1. PICK y : y = conn'[c]
      BY Zenon
    <3>2. y = [r EXCEPT !.outs = Append(@, out)]
      BY <1>0, <2>2, <3>1, Zenon DEF AnsweredConn
    <3>3. y.pc = r.pc /\ y.cmd = r.cmd /\ y.val = r.val /\ y.buf = r.buf
            /\ y.in_txn = r.in_txn /\ y.due = r.due
      BY <1>2, <3>2, Zenon
    <3> QED
      BY <3>1, <3>3, Zenon
  <2> QED
    BY <1>0, <2>1, <2>2, Zenon
<1> QED
  BY <1>3, Zenon DEF Keeps, Busy

LEMMA KeepsOwned ==
  ASSUME NEW c, Keeps(c)
  PROVE  Owned(c)' = Owned(c) /\ Buffered(c)' = Buffered(c) /\ Committing(c)' = Committing(c)
BY Zenon DEF Keeps, Owned, Buffered, Committing

\* Steps of the executor.
LEMMA ExecutorHides ==
  ASSUME proto = "txn", OnceInv, Hidden, cmds' = cmds, \A d \in Conns : Keeps(d),
         NEW c \in Conns, Waiting(c), NEW job, job = Ops(c)[Len(Ops(c))],
         store' = Apply(store, job.kind).map \/ store' = store
  PROVE  Hidden'
<1>1. ConnOK(c) /\ Hiding(c)
  BY Zenon DEF OnceInv, ConnInv, Hidden
<1>2. \/ Stored' = Stored
      \/ Stored' \subseteq Stored \cup Owned(c) /\ (Committing(c) \/ Buffered(c) = {})
  BY <1>1, TxnStored, Zenon
<1>3. \A d \in Conns : /\ Owned(d)' = Owned(d) /\ Buffered(d)' = Buffered(d)
                       /\ Committing(d)' = Committing(d) /\ Buffered(d) \subseteq Owned(d)
  BY KeepsOwned, Zenon DEF Owned
<1>4. Texts(cmds)' = Texts(cmds)
  BY Zenon DEF Texts
<1>5. Stored' \subseteq Texts(cmds)'
  BY <1>1, <1>2, <1>4, Zenon DEF Hidden, Hiding
<1>6. ASSUME NEW d \in Conns, ~Committing(d), NEW x, x \in Buffered(d), x \in Stored'
      PROVE  FALSE
  <2>1. x \notin Stored
    BY <1>6, Zenon DEF Hidden, Hiding
  <2>2. x \in Owned(c) /\ (Committing(c) \/ Buffered(c) = {})
    BY <1>2, <1>6, <2>1, Zenon
  <2>3. d # c
    BY <1>6, <2>2, Zenon
  <2> QED
    BY <1>3, <1>6, <2>2, <2>3, Zenon DEF Hidden
<1>7. ASSUME NEW d \in Conns PROVE Hiding(d)'
  <2>1. Hiding(d) /\ Keeps(d)
    BY Zenon DEF Hidden
  <2>2. Buffered(d)' \cap Stored' = {} \/ Committing(d)'
    BY <1>3, <1>6, Zenon
  <2> QED
    BY <1>3, <1>4, <2>1, <2>2, Zenon DEF Hiding, Keeps
<1>8. \A e, d \in Conns : e # d => (Owned(e) \cap Owned(d) = {})'
  BY <1>3, Zenon DEF Hidden
<1> QED
  BY <1>5, <1>7, <1>8, Zenon DEF Hidden

\* A connection that loses its command and its buffer, or keeps both.
LEMMA Lighter ==
  ASSUME NEW d, conn'[d] = conn[d] \/ Resets(d)
  PROVE  /\ Owned(d)' \subseteq Owned(d) /\ Buffered(d)' \subseteq Buffered(d)
         /\ Committing(d) => Committing(d)' \/ Buffered(d)' = {}
<1>1. CASE conn'[d] = conn[d]
  BY <1>1, Zenon DEF Owned, Buffered, Committing, Busy
<1>2. CASE Resets(d)
  <2>1. ~Busy(d)' /\ conn'[d].buf = << >>
    BY <1>2, ResetFields, Zenon
  <2>2. DOMAIN conn'[d].buf = {}
    BY <2>1, NoElements, Zenon
  <2> QED
    BY <2>1, <2>2, Zenon DEF Owned, Buffered, Committing
<1> QED
  BY <1>1, <1>2, Zenon

\* A connection a step takes nothing from but to which it may add new values.
LEMMA HidingKept ==
  ASSUME NEW d, Hiding(d), conn'[d] = conn[d] \/ Resets(d), store' = store,
         Texts(cmds) \subseteq Texts(cmds')
  PROVE  Hiding(d)'
<1>1. Stored' = Stored
  BY Zenon DEF Stored
<1>2. /\ Owned(d)' \subseteq Owned(d) /\ Buffered(d)' \subseteq Buffered(d)
      /\ Committing(d) => Committing(d)' \/ Buffered(d)' = {}
  BY Lighter, Zenon
<1>3. Owned(d)' \subseteq Texts(cmds)'
  BY <1>2, Zenon DEF Hiding, Texts
<1>4. ~Committing(d)' => Buffered(d)' \cap Stored' = {}
  BY <1>1, <1>2, Zenon DEF Hiding
<1>5. CASE conn'[d] = conn[d]
  BY <1>3, <1>4, <1>5, Zenon DEF Hiding, Busy
<1>6. CASE Resets(d)
  <2>1. ~Busy(d)' /\ conn'[d].buf = << >>
    BY <1>6, ResetFields, Zenon
  <2> QED
    BY <1>3, <1>4, <2>1, NoElements, Zenon DEF Hiding
<1> QED
  BY <1>5, <1>6, Zenon

LEMMA TextsKept ==
  ASSUME cmds \in Nat, cmds' \in {cmds, cmds + 1}
  PROVE  Texts(cmds) \subseteq Texts(cmds') /\ cmds' \in Nat
BY NewText

LEMMA QuietHides ==
  ASSUME Hidden, cmds \in Nat, Quiet
  PROVE  Hidden'
<1>1. /\ store' = store /\ cmds' \in {cmds, cmds + 1}
      /\ \A c \in Conns : conn'[c] = conn[c] \/ Resets(c)
  BY Zenon DEF Quiet
<1>2. Texts(cmds) \subseteq Texts(cmds')
  BY <1>1, TextsKept, Zenon
<1>3. \A d \in Conns : Hiding(d)'
  BY <1>1, <1>2, HidingKept, Zenon DEF Hidden
<1>4. \A d \in Conns : Owned(d)' \subseteq Owned(d)
  BY <1>1, Lighter, Zenon
<1>5. \A e, d \in Conns : e # d => (Owned(e) \cap Owned(d) = {})'
  BY <1>4, OwnedApart, Zenon
<1>6. Stored' \subseteq Texts(cmds')
  BY <1>1, <1>2, Zenon DEF Hidden, Stored
<1> QED
  BY <1>3, <1>5, <1>6, Zenon DEF Hidden, Texts

\* The step of a connection thread, by what the thread owns afterwards.
LEMMA ThreadHides ==
  ASSUME Hidden, cmds \in Nat, NEW c, NEW k, NEW first, Thread(c, k, first), Hiding(c)',
         NEW new, new \subseteq {k.val}, Owned(c)' \subseteq Owned(c) \cup new, first \/ new = {}
  PROVE  Hidden'
<1>1. /\ c \in Conns /\ store' = store /\ OthersKept(c) /\ first \in BOOLEAN
      /\ IF first THEN cmds' = cmds + 1 /\ k.val = Text(cmds + 1) ELSE cmds' = cmds
  BY Zenon DEF Thread, Reading, Prepared
<1>2. Texts(cmds) \subseteq Texts(cmds') /\ new \cap Texts(cmds) = {}
  BY <1>1, NewText
<1>3. ASSUME NEW d \in Conns \ {c} PROVE Hiding(d)' /\ Owned(d)' \subseteq Owned(d)
  BY <1>1, <1>2, HidingKept, Lighter, Zenon DEF Hidden, OthersKept
<1>4. \A e, d \in Conns : e # d => (Owned(e) \cap Owned(d) = {})'
  BY <1>2, <1>3, OwnedApart, Zenon
<1>5. Stored' \subseteq Texts(cmds')
  BY <1>1, <1>2, Zenon DEF Hidden, Stored
<1> QED
  BY <1>3, <1>4, <1>5, Zenon DEF Hidden, Texts

LEMMA AskHides ==
  ASSUME proto = "txn", OnceInv, Hidden, cmds \in Nat,
         NEW c, NEW k, NEW first, NEW op, NEW o, Asks(c, k, first, op, o)
  PROVE  Hidden'
<1>1. /\ Thread(c, k, first) /\ conn'[c] = AskedConn(c, k, op, o) /\ c \in Conns
      /\ Prepared(c, k, first) /\ Reading(k, first) /\ store' = store /\ Hiding(c)
  BY Zenon DEF Asks, Thread, Hidden
<1>2. /\ conn'[c].cmd = k.cmd /\ conn'[c].val = k.val /\ conn'[c].buf = conn[c].buf
      /\ conn'[c].in_txn = conn[c].in_txn /\ Busy(c)'
  BY <1>1, AskedFields DEF Busy
<1>3. Buffered(c)' = Buffered(c) /\ Stored' = Stored
  BY <1>1, <1>2, Zenon DEF Buffered, Stored
<1>4. Owned(c)' = Buffered(c) \cup {k.val}
  BY <1>2, <1>3, Zenon DEF Owned
<1>5. ~first => k = conn[c] /\ Busy(c) /\ Owned(c)' = Owned(c)
  BY <1>1, <1>4, Zenon DEF Prepared, Owned
<1>6. first => ~Committing(c) /\ cmds' = cmds + 1 /\ k.val = Text(cmds + 1)
  BY <1>1, Zenon DEF Prepared, Committing, Busy, Reading
<1>7. ~first => cmds' = cmds
  BY <1>1, Zenon DEF Reading
<1>8. Owned(c)' \subseteq Texts(cmds)'
  <2>1. CASE first
    <3>1. Buffered(c) \subseteq Texts(cmds)
      BY <1>1, Zenon DEF Hiding, Owned
    <3>2. Texts(cmds) \subseteq Texts(cmds + 1) /\ Text(cmds + 1) \in Texts(cmds + 1)
      BY NewText, Zenon
    <3>3. Texts(cmds)' = Texts(cmds + 1)
      BY <1>6, <2>1, Zenon DEF Texts
    <3> QED
      BY <1>4, <1>6, <2>1, <3>1, <3>2, <3>3, Zenon
  <2>2. CASE ~first
    BY <1>1, <1>5, <1>7, <2>2, Zenon DEF Hiding, Texts
  <2> QED
    BY <2>1, <2>2, Zenon
<1>9. ~Committing(c)' => Buffered(c)' \cap Stored' = {}
  <2> SUFFICES ASSUME ~Committing(c)' PROVE ~Committing(c)
    BY <1>1, <1>3, Zenon DEF Hiding
  <2> QED
    BY <1>2, <1>5, <1>6, Zenon DEF Committing, Prepared
<1>10. ASSUME conn'[c].cmd.name \in {"SET", "DEL"} PROVE ~conn'[c].in_txn
  <2>1. TxnStep(k.cmd, k.outs, k.val, k.buf, k.in_txn).ask
    BY Zenon DEF Asks, Asking, StepOf
  <2>2. TxnStep(k.cmd, k.outs, k.val, k.buf, k.in_txn)
          = IF k.in_txn \/ k.outs # << >> THEN Reply(TRUE, Ok)
            ELSE Ask(Txn(<<Entry(k.cmd, k.val)>>))
    BY <1>2, <1>10, Zenon DEF TxnStep
  <2>3. ~k.in_txn
    BY <2>1, <2>2 DEF Reply
  <2> QED
    BY <1>1, <1>2, <2>3 DEF Prepared
<1>11. Hiding(c)'
  BY <1>1, <1>2, <1>8, <1>9, <1>10, Zenon DEF Hiding
<1>12. PICK new : new = IF first THEN {k.val} ELSE {}
  BY Zenon
<1>13. Owned(c)' \subseteq Owned(c) \cup new
  BY <1>4, <1>5, <1>12, Zenon DEF Owned
<1> QED
  BY <1>1, <1>11, <1>12, <1>13, ThreadHides, Zenon

\* The buffer after a command: empty, as it was, or with the command's own entry.
LEMMA TxnReply ==
  ASSUME NEW cmd \in TxnCommands, NEW val, NEW buf, NEW t
  PROVE  \/ TxnBuffer(cmd, val, buf, t) = << >>
         \/ /\ TxnBuffer(cmd, val, buf, t) = buf /\ TxnOpen(cmd, t) = t
            /\ cmd.name # "COMMIT"
         \/ /\ TxnBuffer(cmd, val, buf, t) = Append(buf, Entry(cmd, val))
            /\ TxnOpen(cmd, t) = t /\ t /\ cmd.name \in {"SET", "DEL"}
<1>1. cmd.name \in {"BEGIN", "COMMIT", "ABORT", "SET", "DEL", "GET"}
  BY CommandFields, Zenon
<1>2. CASE cmd.name \in {"BEGIN", "ABORT", "COMMIT"}
  BY <1>2, Zenon DEF TxnBuffer
<1>3. CASE cmd.name \in {"SET", "DEL"}
  BY <1>3, Zenon DEF TxnBuffer, TxnOpen
<1>4. CASE cmd.name = "GET"
  BY <1>4, Zenon DEF TxnBuffer, TxnOpen
<1> QED
  BY <1>1, <1>2, <1>3, <1>4, Zenon

LEMMA IdleOpen ==
  ASSUME NEW p, NEW q, NEW b, NEW t, NEW x, x = IdleConn(p, q, b, t)
  PROVE  x.pc = p /\ x.buf = b /\ x.in_txn = t
BY Zenon DEF IdleConn

LEMMA ReplyHides ==
  ASSUME proto = "txn", OnceInv, Hidden, cmds \in Nat,
         NEW c, NEW k, NEW first, NEW r, Replies(c, k, first, r)
  PROVE  Hidden'
<1>1. PICK b, t : /\ b = TxnBuffer(k.cmd, k.val, k.buf, k.in_txn)
                  /\ t = TxnOpen(k.cmd, k.in_txn)
  BY Zenon
<1>2. /\ Thread(c, k, first) /\ c \in Conns /\ Prepared(c, k, first) /\ Reading(k, first)
      /\ store' = store /\ Hiding(c)
  BY Zenon DEF Replies, Thread, Hidden
<1> DEFINE z == IF proto = "txn" THEN TxnBuffer(k.cmd, k.val, k.buf, k.in_txn) ELSE << >>
           y == proto = "txn" /\ TxnOpen(k.cmd, k.in_txn)
<1>3. ~Busy(c)' /\ conn'[c].buf = b /\ ~Committing(c)'
  <2>1. PICK q : conn'[c] = IdleConn("read", q, z, y)
    BY Zenon DEF Replies
  <2> HIDE DEF z, y
  <2>2. conn'[c].pc = "read" /\ conn'[c].buf = z
    BY <2>1, IdleOpen
  <2>3. z = b
    BY <1>1, Zenon DEF z
  <2> QED
    BY <2>2, <2>3, Zenon DEF Busy, Committing
<1>4. ~conn'[c].in_txn => ~t
  <2>1. PICK q : conn'[c] = IdleConn("read", q, z, y)
    BY Zenon DEF Replies
  <2> HIDE DEF z, y
  <2>2. conn'[c].in_txn = y
    BY <2>1, IdleOpen
  <2> QED
    BY <1>1, <2>2, Zenon DEF y
<1>5. Owned(c)' = Buffered(c)' /\ Stored' = Stored
  BY <1>2, <1>3, Zenon DEF Owned, Stored
<1>6. /\ k.buf = conn[c].buf /\ k.in_txn = conn[c].in_txn /\ k.cmd \in TxnCommands
      /\ ~first => k = conn[c] /\ Busy(c)
      /\ first => ~Busy(c)
  BY <1>2 DEF Prepared, Commands, Busy
<1>7. Texts(cmds) \subseteq Texts(cmds)'
  <2>1. cmds' \in {cmds, cmds + 1}
    BY <1>2, Zenon DEF Reading
  <2> QED
    BY <2>1, TextsKept, Zenon DEF Texts
<1>8. ASSUME b = << >> PROVE Hidden'
  <2>1. DOMAIN conn'[c].buf = {} /\ IsSeq(conn'[c].buf)
    BY <1>3, <1>8, NoElements, Zenon
  <2>2. Buffered(c)' = {}
    BY <2>1, Zenon DEF Buffered
  <2>3. Hiding(c)'
    BY <1>3, <1>5, <1>8, <2>1, <2>2, Zenon DEF Hiding
  <2>4. PICK new : new = {}
    BY Zenon
  <2> QED
    BY <1>2, <1>5, <2>2, <2>3, <2>4, ThreadHides, Zenon
<1>9. ASSUME b = k.buf, t = k.in_txn, k.cmd.name # "COMMIT" PROVE Hidden'
  <2>1. Buffered(c)' = Buffered(c) /\ conn'[c].buf = conn[c].buf
    BY <1>3, <1>6, <1>9, Zenon DEF Buffered
  <2>2. ~Committing(c)
    BY <1>6, <1>9, Zenon DEF Committing
  <2>3. Buffered(c) \subseteq Owned(c)
    BY Zenon DEF Owned
  <2>4. ~conn'[c].in_txn => conn'[c].buf = << >>
    BY <1>2, <1>4, <1>6, <1>9, <2>1, Zenon DEF Hiding
  <2>5. Hiding(c)'
    BY <1>2, <1>3, <1>5, <1>7, <2>1, <2>2, <2>3, <2>4, Zenon DEF Hiding
  <2>6. PICK new : new = {}
    BY Zenon
  <2> QED
    BY <1>2, <1>5, <2>1, <2>3, <2>5, <2>6, ThreadHides, Zenon
<1>10. ASSUME b = Append(k.buf, Entry(k.cmd, k.val)), t = k.in_txn, k.in_txn,
              k.cmd.name \in {"SET", "DEL"}
       PROVE  Hidden'
  <2>1. first
    BY <1>2, <1>6, <1>10, Zenon DEF Hiding
  <2>2. k.val = Text(cmds + 1) /\ cmds' = cmds + 1 /\ ~Committing(c)
    BY <1>2, <1>6, <2>1, Zenon DEF Reading, Committing
  <2>3. /\ IsSeq(conn[c].buf) /\ Len(conn[c].buf) \in Nat
        /\ DOMAIN conn[c].buf = 1..Len(conn[c].buf)
    BY <1>2, SeqFacts, Zenon DEF Hiding
  <2>4. conn'[c].buf = Append(conn[c].buf, Entry(k.cmd, k.val)) /\ Entry(k.cmd, k.val).val = k.val
    BY <1>3, <1>6, <1>10, Zenon DEF Entry
  <2>5. PICK e : e = Entry(k.cmd, k.val)
    BY Zenon
  <2>6. /\ IsSeq(Append(conn[c].buf, e))
        /\ DOMAIN Append(conn[c].buf, e) = 1..(Len(conn[c].buf) + 1)
        /\ \A i \in 1..Len(conn[c].buf) : Append(conn[c].buf, e)[i] = conn[c].buf[i]
        /\ Append(conn[c].buf, e)[Len(conn[c].buf) + 1] = e
    BY <2>3, Appended
  <2>7. IsSeq(conn'[c].buf)
    BY <2>4, <2>5, <2>6, Zenon
  <2>8. ASSUME NEW i \in DOMAIN conn'[c].buf
        PROVE  conn'[c].buf[i].val \in Buffered(c) \cup {k.val}
    <3>1. CASE i = Len(conn[c].buf) + 1
      BY <2>4, <2>5, <2>6, <3>1, Zenon
    <3>2. CASE i \in 1..Len(conn[c].buf)
      BY <2>3, <2>4, <2>5, <2>6, <3>2, Zenon DEF Buffered
    <3> QED
      BY <2>3, <2>4, <2>5, <2>6, <3>1, <3>2
  <2>9. Buffered(c)' \subseteq Buffered(c) \cup {k.val}
    BY <2>8, Zenon DEF Buffered
  <2>10. /\ Text(cmds + 1) \in Texts(cmds + 1) /\ Text(cmds + 1) \notin Texts(cmds)
         /\ Texts(cmds)' = Texts(cmds + 1)
    BY <2>2, NewText, Zenon DEF Texts
  <2>11. Buffered(c)' \cap Stored' = {}
    BY <1>2, <1>5, <2>2, <2>9, <2>10, Zenon DEF Hidden, Hiding
  <2>12. Owned(c)' \subseteq Texts(cmds)'
    BY <1>2, <1>5, <1>7, <2>2, <2>9, <2>10 DEF Hiding, Owned
  <2>13. Hiding(c)'
    BY <1>3, <1>4, <1>10, <2>7, <2>11, <2>12, Zenon DEF Hiding
  <2>14. PICK new : new = {k.val}
    BY Zenon
  <2>15. Owned(c)' \subseteq Owned(c) \cup new
    BY <1>5, <2>9, <2>14, Zenon DEF Owned
  <2> QED
    BY <1>2, <2>1, <2>13, <2>14, <2>15, ThreadHides, Zenon
<1> QED
  BY <1>1, <1>6, <1>8, <1>9, <1>10, TxnReply

\* An answer leaves every connection its command and its buffer.
LEMMA ExecutorKeeps ==
  ASSUME OnceInv, NEW c, NEW job, NEW out, Executed(c, job, out) \/ Failed(c, job)
  PROVE  \A d \in Conns : Keeps(d)
<1>1. ASSUME NEW d \in Conns PROVE ConnOK(d)
  BY Zenon DEF OnceInv, ConnInv
<1>2. ASSUME NEW d \in Conns
      PROVE  conn'[d] = conn[d] \/ \E x : conn'[d] = AnsweredConn(d, x)
  BY Zenon DEF Executed, Failed, OthersKept
<1> QED
  BY <1>1, <1>2, AnsweredKeeps, Zenon

\* Outside the transaction protocol nothing is buffered.
LEMMA NothingBuffered ==
  ASSUME proto # "txn", OnceInv, \A c \in Conns : conn[c].buf = << >>, Cases,
         NEW d \in Conns
  PROVE  conn'[d].buf = << >>
<1>1. CASE Quiet
  BY <1>1, ResetFields, Zenon DEF Quiet
<1>2. ASSUME NEW c, NEW job, NEW out, Executed(c, job, out) \/ Failed(c, job)
      PROVE  conn'[d].buf = << >>
  BY <1>2, ExecutorKeeps, Zenon DEF Keeps
<1>3. ASSUME NEW c, NEW k, NEW first, NEW op, NEW o, Asks(c, k, first, op, o)
      PROVE  conn'[d].buf = << >>
  <2>1. conn'[c].buf = conn[c].buf /\ OthersKept(c) /\ c \in Conns
    BY <1>3, AskedFields DEF Asks, Thread
  <2> QED
    BY <2>1, Zenon DEF OthersKept
<1>4. ASSUME NEW c, NEW k, NEW first, NEW r, Replies(c, k, first, r)
      PROVE  conn'[d].buf = << >>
  <2>1. conn'[c].buf = << >> /\ OthersKept(c)
    BY <1>4 DEF Replies, Thread, IdleConn
  <2> QED
    BY <2>1, Zenon DEF OthersKept
<1> QED
  BY <1>1, <1>2, <1>3, <1>4, Zenon DEF Cases

LEMMA InitHid ==
  ASSUME Init
  PROVE  HidInv
<1>1. ASSUME NEW c \in Conns PROVE conn[c].buf = << >> /\ ~conn[c].in_txn /\ ~Busy(c)
  <2>1. conn[c] = IdleConn("none", 0, << >>, FALSE)
    BY IdleForms, Zenon DEF Init
  <2> QED
    BY <2>1 DEF IdleConn, Busy
<1>2. ASSUME NEW c \in Conns PROVE IsSeq(conn[c].buf) /\ Owned(c) = {} /\ Buffered(c) = {}
  <2>1. IsSeq(conn[c].buf) /\ DOMAIN conn[c].buf = {}
    BY <1>1, NoElements, Zenon
  <2> QED
    BY <1>1, <2>1, Zenon DEF Owned, Buffered
<1>3. Stored = {} /\ cmds = 0
  BY DEF Init, Stored, EmptyMap
<1> QED
  BY <1>1, <1>2, <1>3, Zenon DEF HidInv, Hidden, Hiding

LEMMA HidStep ==
  ASSUME OnceInv, HidInv, [Next]_vars
  PROVE  HidInv'
<1>1. Cases
  BY StepCases, Zenon
<1>2. proto' = proto /\ cmds \in Nat /\ cmds' \in {cmds, cmds + 1}
  <2>1. ASSUME NEW c, NEW k, NEW first, Thread(c, k, first)
        PROVE  proto' = proto /\ cmds' \in {cmds, cmds + 1}
    BY <2>1, Zenon DEF Thread, Reading
  <2>2. ASSUME NEW c, NEW job, NEW out, Executed(c, job, out) \/ Failed(c, job)
        PROVE  proto' = proto /\ cmds' \in {cmds, cmds + 1}
    BY <2>2, Zenon DEF Executed, Failed
  <2> QED
    BY <1>1, <2>1, <2>2, Zenon DEF Cases, Quiet, Asks, Replies, HidInv
<1>3. cmds' \in Nat
  BY <1>2
<1>4. CASE proto # "txn"
  BY <1>1, <1>2, <1>3, <1>4, NothingBuffered, Zenon DEF HidInv
<1>5. CASE proto = "txn"
  <2>1. Hidden
    BY <1>5, Zenon DEF HidInv
  <2>2. ASSUME Quiet PROVE Hidden'
    BY <1>2, <2>1, <2>2, QuietHides, Zenon
  <2>3. ASSUME NEW c, NEW job, NEW out, Executed(c, job, out) \/ Failed(c, job)
        PROVE  Hidden'
    <3>1. \A d \in Conns : Keeps(d)
      BY <2>3, ExecutorKeeps, Zenon
    <3>2. /\ c \in Conns /\ Waiting(c) /\ job = Ops(c)[Len(Ops(c))] /\ cmds' = cmds
          /\ store' = Apply(store, job.kind).map \/ store' = store
      BY <2>3, Zenon DEF Executed, Failed
    <3> QED
      BY <1>5, <2>1, <3>1, <3>2, ExecutorHides, Zenon
  <2>4. ASSUME NEW c, NEW k, NEW first, NEW op, NEW o, Asks(c, k, first, op, o)
        PROVE  Hidden'
    BY <1>2, <1>5, <2>1, <2>4, AskHides, Zenon
  <2>5. ASSUME NEW c, NEW k, NEW first, NEW r, Replies(c, k, first, r)
        PROVE  Hidden'
    BY <1>2, <1>5, <2>1, <2>5, ReplyHides, Zenon
  <2>6. Hidden'
    BY <1>1, <2>2, <2>3, <2>4, <2>5, Zenon DEF Cases
  <2> QED
    BY <1>2, <1>3, <1>5, <2>6, Zenon DEF HidInv
<1> QED
  BY <1>4, <1>5, Zenon

\* What a connection has queued between BEGIN and COMMIT is in no one's view of
\* the store (kv_txn_serve keeps the writes in the connection's buf and submits
\* them as one operation at COMMIT), whatever the other connections, the
\* executor's failures and restarts of the server do meanwhile.
THEOREM TransactionsStayHidden == Spec => []TransactionsHidden
<1> DEFINE I == OnceInv /\ HidInv
<1>1. Init => I
  BY InitOnce, InitHid, Zenon
<1>2. I /\ [Next]_vars => I'
  BY NextOnce, HidStep, Zenon
<1>3. I => TransactionsHidden
  <2> SUFFICES ASSUME HidInv, NEW c \in Conns, NEW i \in DOMAIN conn[c].buf,
                      conn[c].pc = "read", conn[c].buf[i].key \in DOMAIN store
               PROVE  store[conn[c].buf[i].key] # conn[c].buf[i].val
    BY Zenon DEF TransactionsHidden
  <2>1. CASE proto # "txn"
    BY <2>1, NoElements, Zenon DEF HidInv
  <2>2. CASE proto = "txn"
    <3>1. Hiding(c) /\ ~Committing(c)
      BY <2>2, Zenon DEF HidInv, Hidden, Committing, Busy
    <3>2. Buffered(c) \cap Stored = {}
      BY <3>1, Zenon DEF Hiding
    <3> QED
      BY <3>2, Zenon DEF Buffered, Stored
  <2> QED
    BY <2>1, <2>2, Zenon
<1> HIDE DEF I
<1> QED
  BY <1>1, <1>2, <1>3, PTL DEF Spec
=============================================================================
