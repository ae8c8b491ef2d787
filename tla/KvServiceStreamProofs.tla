------------------------- MODULE KvServiceStreamProofs -------------------------
(***************************************************************************)
(* The stream log of the server: a published message keeps its offset, and *)
(* a subscriber misses none.                                               *)
(***************************************************************************)
EXTENDS KvServiceReplyProofs

-----------------------------------------------------------------------------
(* The invariant *)

\* The length of a topic.
Length(t) == IF Offset(t, 0) \in DOMAIN store THEN Parse(store[Offset(t, 0)]) ELSE 0

\* A PUB that knows its offset.
Placed(c, t) == Busy(c) /\ conn[c].cmd = Command("PUB", t) /\ Len(Outs(c)) > 0

\* The topics' lengths are numbers, below the number of operations in effect.
Lengths ==
  \A t \in Keys : /\ Length(t) \in 0..Len(hist)
                  /\ Offset(t, 0) \in DOMAIN store => store[Offset(t, 0)] = Num(Length(t))

\* A PUB's offset is within the topic; its message is there once the SET is answered.
Placing(c) ==
  \A t \in Keys : Placed(c, t) =>
    /\ \E n \in 1..Length(t) : Outs(c)[1] = Value(n)
    /\ Len(Outs(c)) > 1 => /\ Offset(t, Outs(c)[1].n) \in DOMAIN store
                           /\ store[Offset(t, Outs(c)[1].n)] = conn[c].val

Acked(d, t) == d.cmd = Command("PUB", t) /\ d.ok

\* An acknowledged message is in its place.
Kept(d) ==
  \A t \in Keys : Acked(d, t) =>
    /\ d.reply.n \in 1..Length(t)
    /\ Offset(t, d.reply.n) \in DOMAIN store
    /\ store[Offset(t, d.reply.n)] = d.val

\* No two PUBs have one offset, in flight or acknowledged.
Apart ==
  \A t \in Keys, c \in Conns : Placed(c, t) =>
    /\ \A d \in Conns : c # d /\ Placed(d, t) => Outs(c)[1].n # Outs(d)[1].n
    /\ \A d \in done : Acked(d, t) => Outs(c)[1].n # d.reply.n

Seeking(c, t) == Busy(c) /\ conn[c].cmd = Command("SUB", t)

\* A SUB finds the messages it has to, as far as it has read.
Finding(c) ==
  \A t \in Keys : Seeking(c, t) =>
    /\ Len(Outs(c)) > 0 => IntOf(Outs(c)[1]) \in Nat
    /\ \A off \in conn[c].due :
         /\ off \in 1..Length(t) /\ Offset(t, off) \in DOMAIN store
         /\ Len(Outs(c)) > 0 => off <= IntOf(Outs(c)[1])
         /\ off + 1 \in DOMAIN Outs(c) => Outs(c)[off + 1].tag = "Bytes"

Complete(d) ==
  d.cmd.name = "SUB" =>
    \A off \in d.due : off + 1 \in DOMAIN d.outs /\ d.outs[off + 1].tag = "Bytes"

Streams ==
  /\ Lengths
  /\ \A c \in Conns : Placing(c) /\ Finding(c)
  /\ \A d \in done : Kept(d) /\ Complete(d)
  /\ Apart

StreamInv ==
  /\ \A d \in done : d.cmd \in Commands
  /\ proto = "stream" /\ fails = 0 /\ Len(hist) <= IntMax => Streams

-----------------------------------------------------------------------------
(* Topics and offsets in the store *)

LEMMA ParseNum == \A n : Parse(Num(n)) = n
BY Zenon DEF Parse, Num

\* Up to the largest i64 the addition does not wrap.
LEMMA WrapSmall ==
  ASSUME NEW n \in 0..IntMax
  PROVE  Wrap(n) = n
<1>1. IntMax \in Nat
  BY IntAssumption, Zenon
<1>2. \A a, b \in Nat : a < b => a % b = a
  OBVIOUS
<1>3. n + IntMax + 1 \in Nat /\ 2 * IntMax + 2 \in Nat /\ n + IntMax + 1 < 2 * IntMax + 2
  BY <1>1
<1> QED
  BY <1>1, <1>2, <1>3 DEF Wrap

LEMMA OffsetApart ==
  \A t, u, n, m : Offset(t, n) = Offset(u, m) => t = u /\ n = m
BY Zenon DEF Offset

\* One place of the store is written.
Writes(x, v) ==
  /\ DOMAIN store' = DOMAIN store \cup {x}
  /\ store'[x] = v
  /\ \A y \in DOMAIN store : y # x => store'[y] = store[y]

LEMMA InsertWrites ==
  ASSUME NEW x, NEW v, store' = Insert(store, x, v)
  PROVE  Writes(x, v)
BY Zenon DEF Insert, Writes

LEMMA LengthKept ==
  ASSUME NEW x, NEW v, Writes(x, v), NEW t, x # Offset(t, 0)
  PROVE  Length(t)' = Length(t)
BY Zenon DEF Writes, Length

LEMMA LengthWritten ==
  ASSUME NEW t, NEW n, Writes(Offset(t, 0), Num(n))
  PROVE  Length(t)' = n
BY ParseNum, Zenon DEF Writes, Length

\* What a step of the executor does to the store of a stream log, for PUB, SUB and LEN.
Counts(c, t, out) ==
  /\ conn[c].cmd = Command("PUB", t) /\ Len(Outs(c)) = 0
  /\ Writes(Offset(t, 0), Num(Length(t) + 1)) /\ out = Value(Length(t) + 1)
  /\ Len(hist') = Len(hist) + 1

Puts(c, t) ==
  /\ conn[c].cmd = Command("PUB", t) /\ Len(Outs(c)) = 1
  /\ Writes(Offset(t, Outs(c)[1].n), conn[c].val) /\ Len(hist') = Len(hist) + 1

Found(x, out) == IF x \in DOMAIN store THEN out = Bytes(store[x]) ELSE out = NoBytes

Finds(c, t, out) ==
  /\ conn[c].cmd = Command("SUB", t) /\ store' = store /\ Len(hist') = Len(hist) + 1
  /\ Found(Offset(t, Len(Outs(c))), out)

Measures(c, t) ==
  conn[c].cmd = Command("LEN", t) /\ store' = store /\ Len(hist') = Len(hist) + 1

LEMMA StreamNames ==
  ASSUME NEW cmd \in StreamCommands
  PROVE  \E t \in Keys : \/ cmd = Command("PUB", t) \/ cmd = Command("SUB", t)
                         \/ cmd = Command("LEN", t)
BY DEF StreamCommands

LEMMA StreamAsk ==
  ASSUME NEW cmd, NEW outs, NEW val, NEW t, NEW s, s = StreamStep(cmd, outs, val), s.ask,
         Len(outs) \in Nat
  PROVE  /\ cmd = Command("PUB", t) =>
              IF Len(outs) = 0 THEN s.kind = Incr(Offset(t, 0), 1)
              ELSE Len(outs) = 1 /\ s.kind = Set(Offset(t, outs[1].n), val)
         /\ cmd = Command("SUB", t) => s.kind = Get(Offset(t, Len(outs)))
         /\ cmd = Command("LEN", t) => s.kind = Get(Offset(t, 0))
<1>1. \A x : Ask(x).kind = x
  BY Zenon DEF Ask
<1>2. \A x, y : ~Reply(x, y).ask
  BY Zenon DEF Reply
<1>3. ASSUME cmd = Command("PUB", t)
      PROVE  IF Len(outs) = 0 THEN s.kind = Incr(Offset(t, 0), 1)
             ELSE Len(outs) = 1 /\ s.kind = Set(Offset(t, outs[1].n), val)
  <2>1. cmd.name = "PUB" /\ cmd.key = t
    BY <1>3, CommandFields
  <2>2. CASE Len(outs) = 0
    <3>1. s = Ask(Incr(Offset(t, 0), 1))
      BY <2>1, <2>2 DEF StreamStep
    <3> QED
      BY <1>1, <2>2, <3>1, Zenon
  <2>3. CASE Len(outs) = 1
    <3>1. CASE outs[1].tag = "Value"
      <4>1. s = Ask(Set(Offset(t, outs[1].n), val))
        BY <2>1, <2>3, <3>1 DEF StreamStep
      <4> QED
        BY <1>1, <2>3, <4>1
    <3>2. CASE outs[1].tag # "Value"
      <4>1. s = Reply(FALSE, None)
        BY <2>1, <2>3, <3>2 DEF StreamStep
      <4> QED
        BY <1>2, <4>1, Zenon
    <3> QED
      BY <3>1, <3>2, Zenon
  <2>4. CASE Len(outs) \notin {0, 1}
    <3>1. s = Reply(TRUE, outs[1])
      BY <2>1, <2>4, Zenon DEF StreamStep
    <3> QED
      BY <1>2, <3>1, Zenon
  <2> QED
    BY <2>2, <2>3, <2>4, Zenon
<1>4. ASSUME cmd = Command("SUB", t) PROVE s.kind = Get(Offset(t, Len(outs)))
  <2>1. cmd.name = "SUB" /\ cmd.key = t
    BY <1>4, CommandFields
  <2>2. s = Ask(Get(Offset(t, Len(outs)))) \/ s = Reply(TRUE, Ok)
    BY <2>1, Zenon DEF StreamStep
  <2> QED
    BY <1>1, <1>2, <2>2, Zenon
<1>5. ASSUME cmd = Command("LEN", t) PROVE s.kind = Get(Offset(t, 0))
  <2>1. cmd.name = "LEN" /\ cmd.key = t
    BY <1>5, CommandFields
  <2>2. s = Ask(Get(Offset(t, 0))) \/ s = Reply(TRUE, Value(IntOf(outs[1])))
    BY <2>1, Zenon DEF StreamStep
  <2> QED
    BY <1>1, <1>2, <2>2, Zenon
<1> QED
  BY <1>3, <1>4, <1>5, Zenon

LEMMA ApplyStream ==
  ASSUME NEW k, NEW v
  PROVE  /\ Apply(store, Set(k, v)).map = Insert(store, k, v)
         /\ Apply(store, Get(k)).map = store
         /\ Apply(store, Get(k)).out = IF k \in DOMAIN store THEN Bytes(store[k]) ELSE NoBytes
         /\ Apply(store, Incr(k, 1)) = Incremented(store, k, 1)
<1>1. ASSUME NEW x, x = Set(k, v) PROVE Apply(store, x).map = Insert(store, k, v)
  <2>1. x.tag = "Set" /\ x.key = k /\ x.val = v
    BY <1>1, Zenon DEF Set
  <2> QED
    BY <2>1, Zenon DEF Apply
<1>2. ASSUME NEW x, x = Get(k)
      PROVE  /\ Apply(store, x).map = store
             /\ Apply(store, x).out = IF k \in DOMAIN store THEN Bytes(store[k]) ELSE NoBytes
  <2>1. x.tag = "Get" /\ x.key = k
    BY <1>2, Zenon DEF Get
  <2> QED
    BY <2>1, Zenon DEF Apply
<1>3. ASSUME NEW x, x = Incr(k, 1) PROVE Apply(store, x) = Incremented(store, k, 1)
  <2>1. x.tag = "Incr" /\ x.key = k /\ x.by = 1
    BY <1>3, Zenon DEF Incr
  <2> QED
    BY <2>1, Zenon DEF Apply
<1> QED
  BY <1>1, <1>2, <1>3, Zenon

LEMMA IncrStream ==
  ASSUME NEW t, Length(t) \in 0..(IntMax - 1)
  PROVE  LET n == Length(t) + 1
         IN  /\ Incremented(store, Offset(t, 0), 1).map = Insert(store, Offset(t, 0), Num(n))
             /\ Incremented(store, Offset(t, 0), 1).out = Value(n)
<1>1. PICK n : n = Length(t) + 1
  BY Zenon
<1>2. n \in 0..IntMax
  BY <1>1, IntAssumption
<1>3. Wrap((IF Offset(t, 0) \in DOMAIN store THEN Parse(store[Offset(t, 0)]) ELSE 0) + 1) = n
  BY <1>1, <1>2, WrapSmall, Zenon DEF Length
<1> QED
  BY <1>1, <1>3, Zenon DEF Incremented

\* What the executor does for a stream log.
LEMMA StreamJob ==
  ASSUME proto = "stream", OnceInv, OnceInv', Lengths, Len(hist') <= IntMax,
         NEW c, NEW job, NEW out, Executed(c, job, out)
  PROVE  \E t \in Keys : \/ Counts(c, t, out) \/ Puts(c, t)
                         \/ Finds(c, t, out) \/ Measures(c, t)
<1>1. /\ c \in Conns /\ ConnOK(c) /\ Waiting(c) /\ Busy(c) /\ job = Ops(c)[Len(Ops(c))]
      /\ conn'[c] = AnsweredConn(c, out) /\ proto' = proto /\ Answered(c)'
  BY Zenon DEF Executed, OnceInv, ConnInv, Waiting, Busy
<1>2. /\ Len(Outs(c)) \in Nat /\ IsSeq(Outs(c)) /\ conn[c].cmd \in StreamCommands
      /\ IsSeq(hist) /\ Len(hist) \in Nat
  BY <1>1, SeqFacts, Zenon DEF ConnOK, Threaded, Commands, OnceInv, Marked
<1>3. PICK s : s = StreamStep(conn[c].cmd, conn[c].outs, conn[c].val)
  BY Zenon
<1>4. s.ask /\ job.kind = s.kind
  BY <1>1, <1>3, Zenon DEF ConnOK, Asked, NextStep, StepOf
<1>5. PICK t \in Keys : \/ conn[c].cmd = Command("PUB", t) \/ conn[c].cmd = Command("SUB", t)
                        \/ conn[c].cmd = Command("LEN", t)
  BY <1>2, StreamNames, Zenon
<1>6. /\ conn[c].cmd = Command("PUB", t) =>
           IF Len(Outs(c)) = 0 THEN job.kind = Incr(Offset(t, 0), 1)
           ELSE Len(Outs(c)) = 1 /\ job.kind = Set(Offset(t, Outs(c)[1].n), conn[c].val)
      /\ conn[c].cmd = Command("SUB", t) => job.kind = Get(Offset(t, Len(Outs(c))))
      /\ conn[c].cmd = Command("LEN", t) => job.kind = Get(Offset(t, 0))
  BY <1>2, <1>3, <1>4, StreamAsk DEF Outs
<1>7. out # Suppressed
  <2>1. Outs(c)' = Append(Outs(c), out)
    BY <1>1, ConnAnswered, Zenon
  <2>2. /\ DOMAIN Append(Outs(c), out) = 1..(Len(Outs(c)) + 1)
        /\ Append(Outs(c), out)[Len(Outs(c)) + 1] = out
    BY <1>2, Appended, Zenon
  <2>3. Len(Outs(c)) + 1 \in DOMAIN Outs(c)' /\ Outs(c)'[Len(Outs(c)) + 1] = out
    BY <1>2, <2>1, <2>2
  <2> QED
    BY <1>1, <2>3, Zenon DEF Answered, SeqPerCommand, Suppressed
<1>8. job.kind.tag # "Len"
  BY <1>5, <1>6 DEF Incr, Set, Get
<1>9. /\ out = Apply(store, job.kind).out /\ store' = Apply(store, job.kind).map
      /\ \E e : hist' = Append(hist, e)
  BY <1>7, <1>8, Zenon DEF Executed
<1>10. Len(hist') = Len(hist) + 1
  BY <1>2, <1>9, Appended, Zenon
<1>11. CASE conn[c].cmd = Command("PUB", t) /\ Len(Outs(c)) = 0
  <2>1. Length(t) \in 0..(IntMax - 1)
    BY <1>2, <1>10, IntAssumption DEF Lengths
  <2>2. store' = Insert(store, Offset(t, 0), Num(Length(t) + 1)) /\ out = Value(Length(t) + 1)
    BY <1>6, <1>9, <1>11, <2>1, ApplyStream, IncrStream, Zenon
  <2> QED
    BY <1>10, <1>11, <2>2, InsertWrites, Zenon DEF Counts
<1>12. CASE conn[c].cmd = Command("PUB", t) /\ Len(Outs(c)) # 0
  <2>1. store' = Insert(store, Offset(t, Outs(c)[1].n), conn[c].val) /\ Len(Outs(c)) = 1
    BY <1>6, <1>9, <1>12, ApplyStream, Zenon
  <2> QED
    BY <1>10, <1>12, <2>1, InsertWrites, Zenon DEF Puts
<1>13. CASE conn[c].cmd = Command("SUB", t)
  BY <1>6, <1>9, <1>10, <1>13, ApplyStream, Zenon DEF Finds, Found
<1>14. CASE conn[c].cmd = Command("LEN", t)
  BY <1>6, <1>9, <1>10, <1>14, ApplyStream, Zenon DEF Measures
<1> QED
  BY <1>5, <1>11, <1>12, <1>13, <1>14, Zenon

\* Topics only grow.
StoreGrows ==
  /\ DOMAIN store \subseteq DOMAIN store'
  /\ \A t \in Keys : /\ Length(t) \in Nat /\ Length(t)' \in Nat
                     /\ Length(t) <= Length(t)'

Untouched(t, n) == store'[Offset(t, n)] = store[Offset(t, n)]

\* A step of c overwrites the message of no other PUB.
Spares(c) ==
  /\ \A d \in Conns \ {c}, t \in Keys :
       Placed(d, t) /\ Len(Outs(d)) > 1 => Untouched(t, Outs(d)[1].n)
  /\ \A d \in done, t \in Keys : Acked(d, t) => Untouched(t, d.reply.n)

LEMMA Bystander ==
  ASSUME StoreGrows, NEW d, conn'[d] = conn[d] \/ ~Busy(d)', Placing(d), Finding(d),
         \A t \in Keys : Placed(d, t) /\ Len(Outs(d)) > 1 => Untouched(t, Outs(d)[1].n)
  PROVE  /\ Placing(d)' /\ Finding(d)'
         /\ \A t : Placed(d, t)' => Placed(d, t) /\ Outs(d)' = Outs(d)
<1>1. CASE ~Busy(d)'
  BY <1>1, Zenon DEF Placing, Finding, Placed, Seeking
<1>2. CASE conn'[d] = conn[d]
  <2>1. Outs(d)' = Outs(d) /\ (Busy(d)' <=> Busy(d))
    BY <1>2, Zenon DEF Outs, Busy
  <2>2. \A t : Placed(d, t)' <=> Placed(d, t)
    BY <1>2, <2>1, Zenon DEF Placed
  <2>3. \A t : Seeking(d, t)' <=> Seeking(d, t)
    BY <1>2, <2>1, Zenon DEF Seeking
  <2>4. ASSUME NEW t \in Keys, Placed(d, t)
        PROVE  /\ \E n \in 1..Length(t)' : Outs(d)[1] = Value(n)
               /\ Len(Outs(d)) > 1 => /\ Offset(t, Outs(d)[1].n) \in DOMAIN store'
                                      /\ store'[Offset(t, Outs(d)[1].n)] = conn[d].val
    <3>1. PICK n \in 1..Length(t) : Outs(d)[1] = Value(n)
      BY <2>4, Zenon DEF Placing
    <3>2. n \in 1..Length(t)'
      BY DEF StoreGrows
    <3> QED
      BY <2>4, <3>1, <3>2, Zenon DEF Placing, StoreGrows, Untouched
  <2>5. Placing(d)'
    BY <1>2, <2>1, <2>2, <2>4, Zenon DEF Placing
  <2>6. ASSUME NEW t \in Keys, Seeking(d, t), NEW off \in conn[d].due
        PROVE  off \in 1..Length(t)' /\ Offset(t, off) \in DOMAIN store'
    <3>1. off \in 1..Length(t) /\ Offset(t, off) \in DOMAIN store
      BY <2>6, Zenon DEF Finding
    <3> QED
      BY <3>1 DEF StoreGrows
  <2>7. Finding(d)'
    BY <1>2, <2>1, <2>3, <2>6, Zenon DEF Finding
  <2> QED
    BY <2>1, <2>2, <2>5, <2>7, Zenon
<1> QED
  BY <1>1, <1>2, Zenon

LEMMA StillKept ==
  ASSUME StoreGrows, NEW d, Kept(d), \A t \in Keys : Acked(d, t) => Untouched(t, d.reply.n)
  PROVE  Kept(d)'
<1> SUFFICES ASSUME NEW t \in Keys, Acked(d, t)
             PROVE  /\ d.reply.n \in 1..Length(t)'
                    /\ Offset(t, d.reply.n) \in DOMAIN store'
                    /\ store'[Offset(t, d.reply.n)] = d.val
  BY Zenon DEF Kept, Acked
<1>1. /\ d.reply.n \in 1..Length(t) /\ Offset(t, d.reply.n) \in DOMAIN store
      /\ store[Offset(t, d.reply.n)] = d.val
  BY Zenon DEF Kept
<1> QED
  BY <1>1 DEF StoreGrows, Untouched

LEMMA ValueN == \A n : Value(n).n = n /\ Value(n).tag = "Value"
BY Zenon DEF Value

\* The offset a PUB has is its own: it had it before the step, or it is behind all others.
OwnPlace(c) ==
  \A t \in Keys : Placed(c, t)' => \/ Placed(c, t) /\ Outs(c)'[1] = Outs(c)[1]
                                   \/ Outs(c)'[1].n = Length(t) + 1

LEMMA ApartStep ==
  ASSUME Streams, StoreGrows, NEW c, OwnPlace(c), done' = done,
         \A d \in Conns \ {c}, t \in Keys : Placed(d, t)' => Placed(d, t) /\ Outs(d)' = Outs(d)
  PROVE  Apart'
<1>1. ASSUME NEW t \in Keys, NEW d \in Conns, Placed(d, t)
      PROVE  Outs(d)[1].n \in 1..Length(t)
  BY <1>1, ValueN DEF Streams, Placing
<1>2. ASSUME NEW t \in Keys, NEW d \in done, Acked(d, t)
      PROVE  d.reply.n \in 1..Length(t)
  BY <1>2, Zenon DEF Streams, Kept
<1>3. ASSUME NEW t \in Keys, NEW d \in Conns, NEW e \in Conns, d # e,
             Placed(d, t)', Placed(e, t)'
      PROVE  Outs(d)'[1].n # Outs(e)'[1].n
  <2>1. CASE d # c /\ e # c
    BY <1>3, <2>1, Zenon DEF Streams, Apart
  <2>2. CASE d = c \/ e = c
    <3>1. PICK f \in Conns \ {c} : f \in {d, e}
      BY <1>3, <2>2, Zenon
    <3>2. Placed(f, t) /\ Outs(f)' = Outs(f) /\ Placed(c, t)'
      BY <1>3, <2>2, <3>1, Zenon
    <3>3. Outs(f)[1].n \in 1..Length(t) /\ Length(t) \in Nat
      BY <1>1, <3>1, <3>2, Zenon DEF StoreGrows
    <3>4. Outs(c)'[1].n # Outs(f)[1].n
      BY <1>3, <2>2, <3>1, <3>2, <3>3 DEF OwnPlace, Streams, Apart
    <3> QED
      BY <2>2, <3>1, <3>2, <3>4, Zenon
  <2> QED
    BY <2>1, <2>2, Zenon
<1>4. ASSUME NEW t \in Keys, NEW e \in Conns, Placed(e, t)', NEW d \in done, Acked(d, t)
      PROVE  Outs(e)'[1].n # d.reply.n
  <2>1. CASE e # c
    BY <1>4, <2>1, Zenon DEF Streams, Apart
  <2>2. CASE e = c
    <3>1. d.reply.n \in 1..Length(t) /\ Length(t) \in Nat
      BY <1>2, <1>4, Zenon DEF StoreGrows
    <3> QED
      BY <1>4, <2>2, <3>1 DEF OwnPlace, Streams, Apart
  <2> QED
    BY <2>1, <2>2, Zenon
<1> QED
  BY <1>3, <1>4, Zenon DEF Apart, Acked

\* A step of c on a stream log.
LEMMA StreamFrame ==
  ASSUME Streams, StoreGrows, Lengths', done' = done, NEW c \in Conns, OwnPlace(c), Spares(c),
         \A d \in Conns \ {c} : conn'[d] = conn[d] \/ ~Busy(d)', Placing(c)', Finding(c)'
  PROVE  Streams'
<1>1. ASSUME NEW d \in Conns \ {c}
      PROVE  /\ Placing(d)' /\ Finding(d)'
             /\ \A t : Placed(d, t)' => Placed(d, t) /\ Outs(d)' = Outs(d)
  BY Bystander, Zenon DEF Streams, Spares
<1>2. Apart'
  BY <1>1, ApartStep, Zenon
<1>3. ASSUME NEW d \in done PROVE Kept(d)' /\ Complete(d)'
  BY StillKept, Zenon DEF Streams, Spares, Complete
<1> QED
  BY <1>1, <1>2, <1>3, Zenon DEF Streams

LEMMA SameStream ==
  ASSUME Lengths, store' = store, Len(hist) \in Nat, Len(hist') \in Nat, Len(hist) <= Len(hist')
  PROVE  /\ StoreGrows /\ Lengths' /\ \A t : Length(t)' = Length(t)
         /\ \A t, n : Untouched(t, n)
<1>1. \A t : Length(t)' = Length(t)
  BY Zenon DEF Length
<1>2. \A t \in Keys : Length(t) \in Nat
  BY DEF Lengths
<1>3. \A t \in Keys : Length(t)' \in 0..Len(hist')
  BY <1>1 DEF Lengths
<1> QED
  BY <1>1, <1>2, <1>3 DEF StoreGrows, Lengths, Untouched

\* A step that leaves the store alone and gives no connection anything to do.
LEMMA IdleStream ==
  ASSUME Streams, Len(hist) \in Nat, UNCHANGED <<store, hist>>,
         \A d \in Conns : conn'[d] = conn[d] \/ ~Busy(d)',
         \A r \in done' \ done :
           /\ Kept(r) /\ Complete(r)
           /\ \A t \in Keys, d \in Conns :
                Acked(r, t) /\ Placed(d, t)' => Outs(d)'[1].n # r.reply.n
  PROVE  Streams'
<1>1. /\ StoreGrows /\ Lengths' /\ \A t : Length(t)' = Length(t)
      /\ \A t, n : Untouched(t, n)
  BY SameStream DEF Streams
<1>2. ASSUME NEW d \in Conns
      PROVE  /\ Placing(d)' /\ Finding(d)'
             /\ \A t : Placed(d, t)' => Placed(d, t) /\ Outs(d)' = Outs(d)
  BY <1>1, Bystander, Zenon DEF Streams
<1>3. ASSUME NEW r \in done' PROVE Kept(r)' /\ Complete(r)'
  <2>1. Kept(r) /\ Complete(r)
    BY Zenon DEF Streams
  <2> QED
    BY <1>1, <2>1, StillKept, Zenon DEF Complete
<1>4. ASSUME NEW t \in Keys, NEW c \in Conns, Placed(c, t)'
      PROVE  /\ \A d \in Conns : c # d /\ Placed(d, t)' => Outs(c)'[1].n # Outs(d)'[1].n
             /\ \A d \in done' : Acked(d, t) => Outs(c)'[1].n # d.reply.n
  BY <1>2, <1>4, Zenon DEF Streams, Apart
<1>5. Apart'
  BY <1>4, Zenon DEF Apart, Acked
<1> QED
  BY <1>1, <1>2, <1>3, <1>5, Zenon DEF Streams

LEMMA StreamReply ==
  ASSUME NEW cmd, NEW outs, NEW val, NEW t, NEW s, s = StreamStep(cmd, outs, val), ~s.ask,
         Len(outs) \in Nat
  PROVE  /\ cmd = Command("PUB", t) =>
              IF Len(outs) > 1 THEN s.val = outs[1] ELSE Len(outs) = 1 /\ outs[1].tag # "Value"
         /\ cmd = Command("SUB", t) => Len(outs) > 0 /\ ~(Len(outs) <= IntOf(outs[1]))
<1>1. \A x : Ask(x).ask
  BY Zenon DEF Ask
<1>2. ASSUME cmd = Command("PUB", t)
      PROVE  IF Len(outs) > 1 THEN s.val = outs[1] ELSE Len(outs) = 1 /\ outs[1].tag # "Value"
  <2>1. cmd.name = "PUB" /\ cmd.key = t
    BY <1>2, CommandFields
  <2>2. CASE Len(outs) = 0
    <3>1. s = Ask(Incr(Offset(t, 0), 1))
      BY <2>1, <2>2 DEF StreamStep
    <3> QED
      BY <1>1, <3>1, Zenon
  <2>3. CASE Len(outs) = 1
    <3>1. ASSUME outs[1].tag = "Value" PROVE FALSE
      <4>1. s = Ask(Set(Offset(t, outs[1].n), val))
        BY <2>1, <2>3, <3>1 DEF StreamStep
      <4> QED
        BY <1>1, <4>1, Zenon
    <3> QED
      BY <2>3, <3>1
  <2>4. CASE Len(outs) \notin {0, 1}
    <3>1. s = Reply(TRUE, outs[1])
      BY <2>1, <2>4, Zenon DEF StreamStep
    <3>2. s.val = outs[1]
      BY <3>1 DEF Reply
    <3> QED
      BY <2>4, <3>2
  <2> QED
    BY <2>2, <2>3, <2>4, Zenon
<1>3. ASSUME cmd = Command("SUB", t)
      PROVE  Len(outs) > 0 /\ ~(Len(outs) <= IntOf(outs[1]))
  <2>1. cmd.name = "SUB" /\ cmd.key = t
    BY <1>3, CommandFields
  <2>2. ASSUME Len(outs) = 0 \/ Len(outs) <= IntOf(outs[1]) PROVE FALSE
    <3>1. s = Ask(Get(Offset(t, Len(outs)))) \/ s = Ask(Get(Offset(t, 0)))
      BY <2>1, <2>2, Zenon DEF StreamStep
    <3> QED
      BY <1>1, <3>1, Zenon
  <2> QED
    BY <2>2
<1> QED
  BY <1>2, <1>3, Zenon

\* A connection thread replies: what it reports of its PUB or SUB is so.
LEMMA ReplyStream ==
  ASSUME proto = "stream", OnceInv, Streams, NEW c, NEW k, NEW first, NEW r,
         Replies(c, k, first, r)
  PROVE  Streams'
<1>1. /\ c \in Conns /\ Prepared(c, k, first) /\ OthersKept(c) /\ UNCHANGED <<store, hist>>
      /\ ~r.ask /\ r = StreamStep(k.cmd, k.outs, k.val) /\ ConnOK(c)
      /\ done' = done \cup {Reported(c, k, r)}
  BY Zenon DEF Replies, Thread, StepOf, OnceInv, ConnInv
<1>2. ~Busy(c)'
  BY DEF Replies, IdleConn, Busy
<1>3. /\ Len(Outs(c)) \in Nat /\ Len(Ops(c)) = Len(Outs(c)) /\ DOMAIN Outs(c) = 1..Len(Outs(c))
      /\ (first <=> Len(Outs(c)) = 0) /\ k.outs = Outs(c) /\ k.cmd \in StreamCommands
      /\ Len(hist) \in Nat
  BY <1>1, PreparedFacts, SeqFacts DEF Prepared, Commands, OnceInv, Marked
<1>4. PICK d : d = Reported(c, k, r)
  BY Zenon
<1>5. d.cmd = k.cmd /\ d.val = k.val /\ d.outs = k.outs /\ d.reply = r.val /\ d.due = k.due
  BY <1>4, ReportedFields
<1>6. Len(Outs(c)) > 0 => k = conn[c] /\ Busy(c)
  BY <1>1, <1>3 DEF Prepared
<1>7. ASSUME NEW t \in Keys, Acked(d, t)
      PROVE  Placed(c, t) /\ Len(Outs(c)) > 1 /\ d.reply = Outs(c)[1] /\ d.val = conn[c].val
  <2>1. k.cmd = Command("PUB", t)
    BY <1>5, <1>7, Zenon DEF Acked
  <2>2. IF Len(Outs(c)) > 1 THEN r.val = Outs(c)[1]
                            ELSE Len(Outs(c)) = 1 /\ Outs(c)[1].tag # "Value"
    BY <1>1, <1>3, <2>1, StreamReply
  <2>3. Placed(c, t)
    BY <1>3, <1>6, <2>1, <2>2 DEF Placed
  <2>4. Outs(c)[1].tag = "Value"
    BY <1>1, <2>3, ValueN, Zenon DEF Streams, Placing
  <2> QED
    BY <1>3, <1>5, <1>6, <2>2, <2>3, <2>4
<1>8. Kept(d)
  <2> SUFFICES ASSUME NEW t \in Keys, Acked(d, t)
               PROVE  /\ d.reply.n \in 1..Length(t)
                      /\ Offset(t, d.reply.n) \in DOMAIN store
                      /\ store[Offset(t, d.reply.n)] = d.val
    BY Zenon DEF Kept
  <2>1. Placed(c, t) /\ Len(Outs(c)) > 1 /\ d.reply = Outs(c)[1] /\ d.val = conn[c].val
    BY <1>7, Zenon
  <2>2. /\ \E n \in 1..Length(t) : Outs(c)[1] = Value(n)
        /\ Offset(t, Outs(c)[1].n) \in DOMAIN store
        /\ store[Offset(t, Outs(c)[1].n)] = conn[c].val
    BY <1>1, <2>1, Zenon DEF Streams, Placing
  <2> QED
    BY <2>1, <2>2, ValueN, Zenon
<1>9. Complete(d)
  <2> SUFFICES ASSUME d.cmd.name = "SUB", NEW off \in d.due
               PROVE  off + 1 \in DOMAIN d.outs /\ d.outs[off + 1].tag = "Bytes"
    BY Zenon DEF Complete
  <2>1. PICK t \in Keys : k.cmd = Command("SUB", t)
    BY <1>3, <1>5, StreamNames, CommandFields
  <2>2. Len(Outs(c)) > 0 /\ ~(Len(Outs(c)) <= IntOf(Outs(c)[1]))
    BY <1>1, <1>3, <2>1, StreamReply, Zenon
  <2>3. Seeking(c, t)
    BY <1>6, <2>1, <2>2, Zenon DEF Seeking
  <2>4. /\ IntOf(Outs(c)[1]) \in Nat /\ off \in 1..Length(t) /\ off <= IntOf(Outs(c)[1])
        /\ off + 1 \in DOMAIN Outs(c) => Outs(c)[off + 1].tag = "Bytes"
    BY <1>1, <1>5, <1>6, <2>2, <2>3, Zenon DEF Streams, Finding
  <2>5. Length(t) \in Nat
    BY DEF Streams, Lengths
  <2>6. off + 1 \in 1..Len(Outs(c))
    BY <1>3, <2>2, <2>4, <2>5
  <2> QED
    BY <1>3, <1>5, <2>4, <2>6, Zenon
<1>10. ASSUME NEW t \in Keys, NEW e \in Conns, Acked(d, t), Placed(e, t)'
       PROVE  Outs(e)'[1].n # d.reply.n
  <2>1. e # c
    BY <1>2, <1>10, Zenon DEF Placed
  <2>2. conn'[e] = conn[e]
    BY <1>1, <2>1, Zenon DEF OthersKept
  <2>3. Placed(e, t) /\ Outs(e)' = Outs(e)
    BY <1>10, <2>2, Zenon DEF Placed, Busy, Outs
  <2> QED
    BY <1>1, <1>7, <1>10, <2>1, <2>3, Zenon DEF Streams, Apart
<1>11. \A e \in Conns : conn'[e] = conn[e] \/ ~Busy(e)'
  BY <1>1, <1>2, Zenon DEF OthersKept
<1>12. \A x \in done' \ done : x = d
  BY <1>1, <1>4, Zenon
<1> QED
  BY <1>1, <1>3, <1>8, <1>9, <1>10, <1>11, <1>12, IdleStream, Zenon

\* A connection thread asks: a SUB just read has to find what is acknowledged.
LEMMA AskStream ==
  ASSUME proto = "stream", OnceInv, Manned, Streams,
         NEW c, NEW k, NEW first, NEW op, NEW o, Asks(c, k, first, op, o)
  PROVE  Streams'
<1>1. /\ c \in Conns /\ Prepared(c, k, first) /\ Reading(k, first) /\ OthersKept(c)
      /\ UNCHANGED <<store, hist, done>> /\ ConnOK(c) /\ conn'[c] = AskedConn(c, k, op, o)
  BY Zenon DEF Asks, Thread, OnceInv, ConnInv
<1>2. o = Outs(c)
  <2>1. Live(c)
    BY <1>1, PreparedFacts, Zenon
  <2>2. exec = "running"
    BY <1>1, <2>1, LiveIs, Zenon DEF Manned
  <2> QED
    BY <2>2, Zenon DEF Asks
<1>3. /\ conn'[c].cmd = k.cmd /\ conn'[c].val = k.val /\ conn'[c].due = k.due
      /\ Outs(c)' = Outs(c) /\ Busy(c)'
  BY <1>1, <1>2, AskedFields DEF Outs, Busy
<1>4. /\ Len(Outs(c)) \in Nat /\ DOMAIN Outs(c) = 1..Len(Outs(c)) /\ Len(hist) \in Nat
      /\ first <=> Len(Outs(c)) = 0
  BY <1>1, PreparedFacts, SeqFacts DEF OnceInv, Marked
<1>5. ~first => k = conn[c] /\ Busy(c)
  BY <1>1, Zenon DEF Prepared
<1>6. /\ StoreGrows /\ Lengths' /\ \A t : Length(t)' = Length(t)
      /\ \A t, n : Untouched(t, n)
  BY <1>1, <1>4, SameStream DEF Streams
<1>7. ASSUME NEW t \in Keys, Placed(c, t)' PROVE Placed(c, t) /\ k = conn[c]
  <2>1. Len(Outs(c)) > 0 /\ k.cmd = Command("PUB", t)
    BY <1>3, <1>7, Zenon DEF Placed
  <2>2. ~first
    BY <1>4, <2>1
  <2> QED
    BY <1>5, <2>1, <2>2, Zenon DEF Placed
<1>8. Placing(c)'
  BY <1>1, <1>3, <1>6, <1>7, Zenon DEF Streams, Placing
<1>9. Finding(c)'
  <2>1. CASE ~first
    <3>1. \A t \in Keys : Seeking(c, t)' => Seeking(c, t)
      BY <1>3, <1>5, <2>1, Zenon DEF Seeking
    <3> QED
      BY <1>1, <1>3, <1>5, <1>6, <2>1, <3>1, Zenon DEF Streams, Finding
  <2>2. CASE first
    <3> SUFFICES ASSUME NEW t \in Keys, k.cmd = Command("SUB", t), NEW off \in k.due
                 PROVE  off \in 1..Length(t) /\ Offset(t, off) \in DOMAIN store
      BY <1>1, <1>3, <1>4, <1>6, <2>2 DEF Finding, Seeking
    <3>1. k.cmd.name = "SUB" /\ k.cmd.key = t
      BY CommandFields
    <3>2. k.due = {d.reply.n : d \in Published(t)}
      BY <1>1, <2>2, <3>1, Zenon DEF Reading, DueOf
    <3>3. PICK d \in Published(t) : off = d.reply.n
      BY <3>2, Zenon
    <3>4. d \in done /\ Acked(d, t)
      BY <3>3, Zenon DEF Published, Acked
    <3> QED
      BY <3>3, <3>4, Zenon DEF Streams, Kept
  <2> QED
    BY <1>1, <2>1, <2>2, Zenon DEF Prepared
<1>10. OwnPlace(c) /\ Spares(c)
  BY <1>3, <1>6, <1>7, Zenon DEF OwnPlace, Spares
<1> QED
  BY <1>1, <1>6, <1>8, <1>9, <1>10, StreamFrame, Zenon DEF OthersKept

LEMMA LengthsCounted ==
  ASSUME Lengths, Len(hist) \in Nat, Len(hist') = Len(hist) + 1,
         NEW t \in Keys, Writes(Offset(t, 0), Num(Length(t) + 1))
  PROVE  /\ StoreGrows /\ Lengths' /\ Length(t)' = Length(t) + 1
         /\ \A u, n : n # 0 /\ Offset(u, n) \in DOMAIN store => Untouched(u, n)
<1>1. \A u \in Keys : Length(u) \in 0..Len(hist)
  BY Zenon DEF Lengths
<1>2. Length(t)' = Length(t) + 1
  BY LengthWritten, Zenon
<1>3. ASSUME NEW u \in Keys, u # t
      PROVE  /\ Length(u)' = Length(u)
             /\ Offset(u, 0) \in DOMAIN store' => store'[Offset(u, 0)] = Num(Length(u))
  <2>1. Offset(u, 0) # Offset(t, 0)
    BY <1>3, OffsetApart, Zenon
  <2>2. Length(u)' = Length(u)
    BY <2>1, LengthKept, Zenon
  <2> QED
    BY <2>1, <2>2, Zenon DEF Writes, Lengths
<1>4. \A u \in Keys : Length(u)' \in 0..Len(hist')
  BY <1>1, <1>2, <1>3
<1>5. ASSUME NEW u \in Keys, Offset(u, 0) \in DOMAIN store'
      PROVE  store'[Offset(u, 0)] = Num(Length(u)')
  BY <1>2, <1>3, <1>5, Zenon DEF Writes
<1>6. Lengths'
  BY <1>4, <1>5, Zenon DEF Lengths
<1>7. StoreGrows
  <2>1. \A u \in Keys : Length(u) \in Nat /\ Length(u)' \in Nat /\ Length(u) <= Length(u)'
    BY <1>1, <1>2, <1>3
  <2> QED
    BY <2>1, Zenon DEF StoreGrows, Writes
<1>8. ASSUME NEW u, NEW n, n # 0, Offset(u, n) \in DOMAIN store PROVE Untouched(u, n)
  BY <1>8, OffsetApart DEF Writes, Untouched
<1> QED
  BY <1>2, <1>6, <1>7, <1>8, Zenon

LEMMA LengthsPut ==
  ASSUME Lengths, Len(hist) \in Nat, Len(hist') = Len(hist) + 1,
         NEW t \in Keys, NEW m, m # 0, NEW v, Writes(Offset(t, m), v)
  PROVE  /\ StoreGrows /\ Lengths' /\ \A u \in Keys : Length(u)' = Length(u)
         /\ \A u, n : ~(u = t /\ n = m) /\ Offset(u, n) \in DOMAIN store => Untouched(u, n)
<1>1. \A u \in Keys : Length(u) \in 0..Len(hist)
  BY Zenon DEF Lengths
<1>2. ASSUME NEW u \in Keys
      PROVE  /\ Length(u)' = Length(u)
             /\ Offset(u, 0) \in DOMAIN store' => store'[Offset(u, 0)] = Num(Length(u))
  <2>1. Offset(u, 0) # Offset(t, m)
    BY OffsetApart, Zenon
  <2>2. Length(u)' = Length(u)
    BY <2>1, LengthKept, Zenon
  <2> QED
    BY <2>1, <2>2, Zenon DEF Writes, Lengths
<1>3. Lengths'
  BY <1>1, <1>2 DEF Lengths
<1>4. StoreGrows
  BY <1>1, <1>2 DEF StoreGrows, Writes
<1>5. ASSUME NEW u, NEW n, ~(u = t /\ n = m), Offset(u, n) \in DOMAIN store PROVE Untouched(u, n)
  BY <1>5, OffsetApart DEF Writes, Untouched
<1> QED
  BY <1>2, <1>3, <1>4, <1>5, Zenon

LEMMA OneMore ==
  ASSUME NEW n \in Nat, NEW i \in Nat, i + 1 \in 1..(n + 1)
  PROVE  i + 1 \in 1..n \/ i = n
OBVIOUS

\* The executor answers a connection of a stream log.
LEMMA ExecuteStream ==
  ASSUME proto = "stream", OnceInv, OnceInv', Streams, Len(hist') <= IntMax,
         NEW c, NEW job, NEW out, Executed(c, job, out)
  PROVE  Streams'
<1>1. /\ c \in Conns /\ ConnOK(c) /\ Waiting(c) /\ Busy(c) /\ OthersKept(c) /\ done' = done
      /\ conn'[c] = AnsweredConn(c, out) /\ proto' = proto /\ Placing(c) /\ Finding(c)
  BY Zenon DEF Executed, OnceInv, ConnInv, Waiting, Busy, Streams
<1>2. PICK t \in Keys : \/ Counts(c, t, out) \/ Puts(c, t)
                        \/ Finds(c, t, out) \/ Measures(c, t)
  BY StreamJob, Zenon DEF Streams
<1>3. /\ conn'[c].cmd = conn[c].cmd /\ conn'[c].val = conn[c].val /\ conn'[c].due = conn[c].due
      /\ Busy(c)' /\ Outs(c)' = Append(Outs(c), out)
  BY <1>1, AnsweredKeeps, ConnAnswered, Zenon DEF Keeps
<1>4. /\ Len(Outs(c)) \in Nat /\ IsSeq(Outs(c)) /\ DOMAIN Outs(c) = 1..Len(Outs(c))
      /\ Len(hist) \in Nat
  BY <1>1, SeqFacts, Zenon DEF ConnOK, Threaded, OnceInv, Marked
<1>5. /\ Len(Outs(c)') = Len(Outs(c)) + 1
      /\ DOMAIN (Outs(c)') = 1..(Len(Outs(c)) + 1)
      /\ \A i \in 1..Len(Outs(c)) : Outs(c)'[i] = Outs(c)[i]
      /\ Outs(c)'[Len(Outs(c)) + 1] = out
  <2>1. PICK w : w = Append(Outs(c), out)
    BY Zenon
  <2>2. /\ Len(w) = Len(Outs(c)) + 1 /\ DOMAIN w = 1..(Len(Outs(c)) + 1)
        /\ \A i \in 1..Len(Outs(c)) : w[i] = Outs(c)[i]
        /\ w[Len(Outs(c)) + 1] = out
    BY <1>4, <2>1, Appended
  <2> QED
    BY <1>3, <2>1, <2>2, Zenon
<1>6. ASSUME NEW u, conn[c].cmd = Command("PUB", t)
      PROVE  ~Seeking(c, u)' /\ (Placed(c, u)' => u = t)
  BY <1>3, <1>6, CommandFields DEF Seeking, Placed
<1>7. ASSUME NEW d \in Conns, NEW u \in Keys, Placed(d, u)
      PROVE  \E n \in 1..Length(u) : Outs(d)[1] = Value(n) /\ Outs(d)[1].n = n
  BY <1>7, ValueN DEF Streams, Placing
<1>8. ASSUME NEW d \in Conns, NEW u \in Keys, Placed(d, u), Len(Outs(d)) > 1
      PROVE  Offset(u, Outs(d)[1].n) \in DOMAIN store
  BY <1>8, Zenon DEF Streams, Placing
<1>9. ASSUME NEW d \in done, NEW u \in Keys, Acked(d, u)
       PROVE  d.reply.n \in 1..Length(u) /\ Offset(u, d.reply.n) \in DOMAIN store
  BY <1>9, Zenon DEF Streams, Kept
<1>10. \A u \in Keys : Length(u) \in Nat
  BY DEF Streams, Lengths
<1>11. CASE Counts(c, t, out)
  <2>1. /\ StoreGrows /\ Lengths' /\ Length(t)' = Length(t) + 1
        /\ \A u, n : n # 0 /\ Offset(u, n) \in DOMAIN store => Untouched(u, n)
    BY <1>4, <1>11, LengthsCounted, Zenon DEF Counts, Streams
  <2>2. Outs(c)'[1] = Value(Length(t) + 1) /\ Outs(c)'[1].n = Length(t) + 1 /\ Len(Outs(c)') = 1
    BY <1>4, <1>5, <1>11, ValueN DEF Counts
  <2>3. Placing(c)' /\ Finding(c)' /\ OwnPlace(c)
    <3>1. \A u \in Keys : ~Seeking(c, u)' /\ (Placed(c, u)' => u = t)
      BY <1>6, <1>11, Zenon DEF Counts
    <3>2. Length(t) + 1 \in 1..Length(t)'
      BY <1>10, <2>1
    <3>3. Placing(c)'
      BY <2>2, <3>1, <3>2 DEF Placing
    <3> QED
      BY <2>2, <3>1, <3>3, Zenon DEF Finding, OwnPlace
  <2>4. Spares(c)
    BY <1>7, <1>8, <1>9, <1>10, <2>1 DEF Spares
  <2> QED
    BY <1>1, <2>1, <2>3, <2>4, StreamFrame, Zenon DEF OthersKept
<1>12. CASE Puts(c, t)
  <2>1. Placed(c, t) /\ Len(Outs(c)) = 1
    BY <1>1, <1>12 DEF Puts, Placed
  <2>2. PICK m \in 1..Length(t) : Outs(c)[1] = Value(m) /\ Outs(c)[1].n = m
    BY <1>1, <1>7, <2>1, Zenon
  <2>3. m # 0 /\ Writes(Offset(t, m), conn[c].val) /\ Len(hist') = Len(hist) + 1
    BY <1>10, <1>12, <2>2 DEF Puts
  <2>4. /\ StoreGrows /\ Lengths' /\ \A u \in Keys : Length(u)' = Length(u)
        /\ \A u, n : ~(u = t /\ n = m) /\ Offset(u, n) \in DOMAIN store => Untouched(u, n)
    BY <1>4, <2>3, LengthsPut, Zenon DEF Streams
  <2>5. Outs(c)'[1] = Value(m) /\ Outs(c)'[1].n = m /\ Outs(c)'[1] = Outs(c)[1]
    BY <1>5, <2>1, <2>2
  <2>6. Placing(c)' /\ Finding(c)' /\ OwnPlace(c)
    <3>1. \A u \in Keys : ~Seeking(c, u)' /\ (Placed(c, u)' => u = t)
      BY <1>6, <1>12, Zenon DEF Puts
    <3>2. Placing(c)'
      BY <1>3, <2>2, <2>3, <2>4, <2>5, <3>1, Zenon DEF Placing, Writes
    <3> QED
      BY <2>1, <2>5, <3>1, <3>2, Zenon DEF Finding, OwnPlace
  <2>7. Spares(c)
    <3>1. ASSUME NEW d \in Conns \ {c}, NEW u \in Keys, Placed(d, u), Len(Outs(d)) > 1
          PROVE  Untouched(u, Outs(d)[1].n)
      <4>1. ~(u = t /\ Outs(d)[1].n = m)
        BY <1>1, <2>1, <2>2, <3>1, Zenon DEF Streams, Apart
      <4> QED
        BY <1>8, <2>4, <3>1, <4>1, Zenon
    <3>2. ASSUME NEW d \in done, NEW u \in Keys, Acked(d, u)
          PROVE  Untouched(u, d.reply.n)
      <4>1. ~(u = t /\ d.reply.n = m)
        BY <1>1, <2>1, <2>2, <3>2, Zenon DEF Streams, Apart
      <4> QED
        BY <1>9, <2>4, <3>2, <4>1, Zenon
    <3> QED
      BY <3>1, <3>2, Zenon DEF Spares
  <2> QED
    BY <1>1, <2>4, <2>6, <2>7, StreamFrame, Zenon DEF OthersKept
<1>13. ASSUME store' = store, Len(hist') = Len(hist) + 1, Finding(c)',
              \A u \in Keys : ~Placed(c, u)'
       PROVE  Streams'
  <2>1. /\ StoreGrows /\ Lengths' /\ \A u, n : Untouched(u, n)
    BY <1>4, <1>13, SameStream DEF Streams
  <2>2. Placing(c)' /\ OwnPlace(c) /\ Spares(c)
    BY <1>13, <2>1, Zenon DEF Placing, OwnPlace, Spares
  <2> QED
    BY <1>1, <1>13, <2>1, <2>2, StreamFrame, Zenon DEF OthersKept
<1>14. CASE Finds(c, t, out)
  <2>1. /\ conn[c].cmd = Command("SUB", t) /\ store' = store
        /\ Len(hist') = Len(hist) + 1 /\ Found(Offset(t, Len(Outs(c))), out)
    BY <1>14, Zenon DEF Finds
  <2>2. \A u \in Keys : ~Placed(c, u)' /\ (Seeking(c, u)' => u = t)
    BY <1>3, <2>1, CommandFields DEF Placed, Seeking
  <2>3. Seeking(c, t) /\ Length(t)' = Length(t) /\ Length(t) \in Nat
    BY <1>1, <1>10, <2>1, Zenon DEF Seeking, Length
  <2>4. ASSUME Len(Outs(c)) = 0
        PROVE  IntOf(Outs(c)'[1]) = Length(t)
    <3>1. Outs(c)'[1] = out
      BY <1>5, <2>4
    <3>2. CASE Offset(t, 0) \in DOMAIN store
      <4>1. out = Bytes(Num(Length(t)))
        BY <2>1, <2>4, <3>2, Zenon DEF Found, Streams, Lengths
      <4> QED
        BY <3>1, <4>1, ParseNum DEF IntOf, Bytes
    <3>3. CASE Offset(t, 0) \notin DOMAIN store
      <4>1. out = NoBytes /\ Length(t) = 0
        BY <2>1, <2>4, <3>3, Zenon DEF Found, Length
      <4> QED
        BY <3>1, <4>1 DEF IntOf, NoBytes
    <3> QED
      BY <3>2, <3>3, Zenon
  <2>5. ASSUME Len(Outs(c)) > 0
        PROVE  IntOf(Outs(c)'[1]) = IntOf(Outs(c)[1]) /\ IntOf(Outs(c)[1]) \in Nat
    <3>1. Outs(c)'[1] = Outs(c)[1]
      BY <1>4, <1>5, <2>5
    <3> QED
      BY <1>1, <2>3, <2>5, <3>1, Zenon DEF Finding
  <2>6. IntOf(Outs(c)'[1]) \in Nat
    BY <1>4, <2>3, <2>4, <2>5
  <2>7. ASSUME NEW off \in conn[c].due
        PROVE  /\ off \in 1..Length(t) /\ Offset(t, off) \in DOMAIN store
               /\ off <= IntOf(Outs(c)'[1])
               /\ off + 1 \in DOMAIN (Outs(c)') => Outs(c)'[off + 1].tag = "Bytes"
    <3>1. /\ off \in 1..Length(t) /\ Offset(t, off) \in DOMAIN store
          /\ Len(Outs(c)) > 0 => off <= IntOf(Outs(c)[1])
          /\ off + 1 \in DOMAIN Outs(c) => Outs(c)[off + 1].tag = "Bytes"
      BY <1>1, <2>3, <2>7, Zenon DEF Finding
    <3>2. off <= IntOf(Outs(c)'[1])
      BY <1>4, <2>3, <2>4, <2>5, <3>1
    <3>3. ASSUME off + 1 \in DOMAIN (Outs(c)') PROVE Outs(c)'[off + 1].tag = "Bytes"
      <4>1. CASE off + 1 \in 1..Len(Outs(c))
        BY <1>4, <1>5, <3>1, <4>1, Zenon
      <4>2. CASE off = Len(Outs(c))
        <5>1. out = Bytes(store[Offset(t, off)])
          BY <2>1, <3>1, <4>2, Zenon DEF Found
        <5> QED
          BY <1>5, <4>2, <5>1 DEF Bytes
      <4>3. off \in Nat /\ off + 1 \in 1..(Len(Outs(c)) + 1)
        BY <1>5, <2>3, <3>1, <3>3
      <4>4. off + 1 \in 1..Len(Outs(c)) \/ off = Len(Outs(c))
        BY <1>4, <4>3, OneMore, Zenon
      <4> QED
        BY <4>1, <4>2, <4>4, Zenon
    <3> QED
      BY <3>1, <3>2, <3>3, Zenon
  <2>8. Finding(c)'
    BY <1>3, <2>1, <2>2, <2>3, <2>6, <2>7, Zenon DEF Finding
  <2> QED
    BY <1>13, <2>1, <2>2, <2>8, Zenon
<1>15. CASE Measures(c, t)
  <2>1. \A u : ~Placed(c, u)' /\ ~Seeking(c, u)'
    BY <1>3, <1>15, CommandFields DEF Measures, Placed, Seeking
  <2> QED
    BY <1>13, <1>15, <2>1, Zenon DEF Measures, Finding
<1> QED
  BY <1>2, <1>11, <1>12, <1>14, <1>15, Zenon

LEMMA InitStream ==
  ASSUME Init
  PROVE  StreamInv
<1>1. ASSUME NEW c \in Conns PROVE ~Busy(c)
  <2>1. conn[c] = IdleConn("none", 0, << >>, FALSE)
    BY IdleForms, Zenon DEF Init
  <2> QED
    BY <2>1 DEF IdleConn, Busy
<1>2. DOMAIN store = {} /\ done = {} /\ hist = << >>
  BY DEF Init, EmptyMap
<1>3. Len(hist) = 0
  BY <1>2, NoElements, Zenon
<1>4. Lengths
  BY <1>2, <1>3 DEF Lengths, Length
<1> QED
  BY <1>1, <1>2, <1>4, Zenon DEF StreamInv, Streams, Placing, Finding, Apart, Placed, Seeking

LEMMA ServedCommands ==
  ASSUME Cases, \A d \in done : d.cmd \in Commands
  PROVE  proto' = proto /\ \A d \in done' : d.cmd \in Commands'
<1>1. proto' = proto
  BY Zenon DEF Cases, Quiet, Executed, Failed, Asks, Replies, Thread
<1>2. Commands' = Commands
  BY <1>1, Zenon DEF Commands
<1>3. ASSUME NEW c, NEW k, NEW first, NEW r, Replies(c, k, first, r)
      PROVE  \A d \in done' : d.cmd \in Commands
  <2>1. done' = done \cup {Reported(c, k, r)} /\ k.cmd \in Commands
    BY <1>3, Zenon DEF Replies, Thread, Prepared
  <2>2. Reported(c, k, r).cmd = k.cmd
    BY ReportedFields
  <2> QED
    BY <2>1, <2>2, Zenon
<1>4. done' = done \/ \E c, k, first, r : Replies(c, k, first, r)
  BY Zenon DEF Cases, Quiet, Executed, Failed, Asks
<1> QED
  BY <1>1, <1>2, <1>3, <1>4, Zenon

LEMMA StreamStepped ==
  ASSUME OnceInv, OnceInv', Outlives, StreamInv, [Next]_vars
  PROVE  StreamInv'
<1>1. Cases
  BY StepCases, Zenon
<1>2. proto' = proto /\ \A d \in done' : d.cmd \in Commands'
  BY <1>1, ServedCommands, Zenon DEF StreamInv
<1> SUFFICES ASSUME proto = "stream", fails' = 0, Len(hist') <= IntMax PROVE Streams'
  BY <1>2, Zenon DEF StreamInv
<1>3. fails' \in {fails, fails + 1} /\ fails \in Nat
  BY <1>1, Zenon DEF Cases, Quiet, Executed, Failed, Asks, Replies, Thread, Outlives
<1>4. fails = 0 /\ Manned
  BY <1>3 DEF Outlives
<1>5. Len(hist) \in Nat /\ IsSeq(hist)
  BY SeqFacts, Zenon DEF OnceInv, Marked
<1>6. Len(hist) <= Len(hist')
  <2>1. hist' = hist \/ \E e : hist' = Append(hist, e)
    BY <1>1, Zenon DEF Cases, Quiet, Executed, Failed, Asks, Replies, Thread
  <2>2. \A e : Len(Append(hist, e)) = Len(hist) + 1
    BY <1>5, Appended, Zenon
  <2> QED
    BY <1>5, <2>1, <2>2
<1>7. Len(hist') \in Nat
  BY SeqFacts, Zenon DEF OnceInv, Marked
<1>8. Streams
  BY <1>4, <1>5, <1>6, <1>7, IntAssumption DEF StreamInv
<1>9. CASE Quiet
  <2>1. \A d \in Conns : conn'[d] = conn[d] \/ ~Busy(d)'
    BY <1>9, ResetFields, Zenon DEF Quiet
  <2> QED
    BY <1>5, <1>8, <1>9, <2>1, IdleStream, Zenon DEF Quiet
<1>10. ASSUME NEW c, NEW job, NEW out, Executed(c, job, out) PROVE Streams'
  BY <1>8, <1>10, ExecuteStream, Zenon
<1>11. ASSUME NEW c, NEW job, Failed(c, job) PROVE FALSE
  BY <1>4, <1>11 DEF Failed
<1>12. ASSUME NEW c, NEW k, NEW first, NEW op, NEW o, Asks(c, k, first, op, o)
       PROVE  Streams'
  BY <1>4, <1>8, <1>12, AskStream, Zenon
<1>13. ASSUME NEW c, NEW k, NEW first, NEW r, Replies(c, k, first, r) PROVE Streams'
  BY <1>8, <1>13, ReplyStream, Zenon
<1> QED
  BY <1>1, <1>9, <1>10, <1>11, <1>12, <1>13, Zenon DEF Cases

\* PUB and SUB are commands of the stream log alone.
LEMMA StreamOnly ==
  ASSUME Started, NEW cmd \in Commands, cmd.name \in {"PUB", "SUB"}
  PROVE  proto = "stream" /\ \E t \in Keys : cmd = Command(cmd.name, t) /\ cmd.key = t
<1>1. proto \in Protos
  BY Zenon DEF Started
<1>2. CASE proto # "stream"
  BY <1>1, <1>2, CommandFields, Zenon DEF Commands, Protos
<1>3. CASE proto = "stream"
  <2>1. PICK t \in Keys : \/ cmd = Command("PUB", t) \/ cmd = Command("SUB", t)
                          \/ cmd = Command("LEN", t)
    BY <1>3, StreamNames, Zenon DEF Commands
  <2> QED
    BY <1>3, <2>1, CommandFields
<1> QED
  BY <1>2, <1>3, Zenon

LEMMA StreamLogKeeps ==
  Spec => [](Len(hist) <= IntMax => PublicationsKept /\ SubscribersComplete)
<1> DEFINE I == OnceInv /\ Outlives /\ StreamInv
<1>1. Init => I
  BY InitOnce, InitOutlives, InitStream, Zenon
<1>2. I /\ [Next]_vars => I'
  BY NextOnce, OutlivesStep, StreamStepped, Zenon
<1>3. I => (Len(hist) <= IntMax => PublicationsKept /\ SubscribersComplete)
  <2> SUFFICES ASSUME I, Len(hist) <= IntMax, fails = 0
               PROVE  PublicationsKept /\ SubscribersComplete
    BY Zenon DEF PublicationsKept, SubscribersComplete
  <2>1. ASSUME NEW d \in done, d.cmd.name \in {"PUB", "SUB"}
        PROVE  /\ Kept(d) /\ Complete(d)
               /\ \E t \in Keys : d.cmd = Command(d.cmd.name, t) /\ d.cmd.key = t
    <3>1. /\ proto = "stream"
          /\ \E t \in Keys : d.cmd = Command(d.cmd.name, t) /\ d.cmd.key = t
      BY <2>1, StreamOnly, Zenon DEF StreamInv, OnceInv
    <3> QED
      BY <3>1, Zenon DEF StreamInv, Streams
  <2>2. ASSUME NEW d \in done, d.cmd.name = "PUB", d.ok
        PROVE  /\ Offset(d.cmd.key, d.reply.n) \in DOMAIN store
               /\ store[Offset(d.cmd.key, d.reply.n)] = d.val
    BY <2>1, <2>2, Zenon DEF Kept, Acked
  <2> QED
    BY <2>1, <2>2, Zenon DEF PublicationsKept, SubscribersComplete, Complete
<1> HIDE DEF I
<1> QED
  BY <1>1, <1>2, <1>3, PTL DEF Spec

\* As long as no topic can have more messages than an i64 counts, a message whose
\* PUB was acknowledged stays at its offset: StreamLogProtocol takes the offset with
\* an INCR of the topic's length and stores the message there with a second
\* operation, and other publishers, crashes and restarts come between the two.
THEOREM MessagesStay == Spec => [](Len(hist) <= IntMax => PublicationsKept)
BY StreamLogKeeps, PTL

\* Under the same bound a SUB returns every message whose PUB was acknowledged
\* before it asked, although StreamLogProtocol reads the length and then the messages
\* one by one while others publish.
THEOREM SubscribersServed == Spec => [](Len(hist) <= IntMax => SubscribersComplete)
BY StreamLogKeeps, PTL
=============================================================================
