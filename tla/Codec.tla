--------------------------------- MODULE Codec ---------------------------------
(***************************************************************************)
(* The byte formats of crates/onebarrier/src: operations and key-value     *)
(* snapshots (state.rs), log records (durable.rs) and engine snapshots     *)
(* (lib.rs).  Fields have the code's widths in bytes; a byte has Base      *)
(* values instead of 256, so that a length field can be exhausted.         *)
(* Strings are sequences of bytes; that a key is valid UTF-8 is left out.  *)
(***************************************************************************)
EXTENDS Integers, Sequences, SequencesExt, FiniteSets

CONSTANT Base \* the values of a byte; tags need five

ASSUME BaseAssumption == Base \in Nat /\ Base >= 5

\* to_le_bytes of an integer of w bytes, two's complement
LE(n, w) == [i \in 1..w |-> ((n % Base^w) \div Base^(i - 1)) % Base]

Number(b) == FoldRight(LAMBDA x, acc : x + Base * acc, b, 0)

Signed(n, w) == IF 2 * n >= Base^w THEN n - Base^w ELSE n

\* u16::try_from(n).unwrap_or(u16::MAX), and the same for u32
Length(n, w) == LE(IF n < Base^w THEN n ELSE Base^w - 1, w)

Counted(s, w) == Length(Len(s), w) \o s

\* The struct Reader: what is left, and the value read last; not ok past the end.
Reader(b) == [ok |-> TRUE, v |-> << >>, rest |-> b]

bytes(r, n) ==
  IF r.ok /\ n <= Len(r.rest)
    THEN [ok |-> TRUE, v |-> SubSeq(r.rest, 1, n), rest |-> SubSeq(r.rest, n + 1, Len(r.rest))]
    ELSE [r EXCEPT !.ok = FALSE]

AsNumber(r) == IF r.ok THEN [r EXCEPT !.v = Number(@)] ELSE r

uint(r, w) == AsNumber(bytes(r, w))

\* As many bytes as the number read last.
Announced(r) == IF r.ok THEN bytes(r, r.v) ELSE r

string(r, w) == Announced(uint(r, w))

Repeat(n, f(_), r) == FoldLeft(LAMBDA acc, i : f(acc), r, [i \in 1..n |-> i])

-----------------------------------------------------------------------------
(* Op::encode and Op::decode.  A kind is a record with its tag, and the    *)
(* fields that go with it; a Txn entry is a key with an optional value.    *)

Key(kind) == IF kind.tag = 4 THEN << >> ELSE kind.key

Entry(w) == Counted(w.key, 2) \o (IF w.del THEN <<0>> ELSE <<1>> \o Counted(w.val, 4))

encode(op) ==
  <<op.kind.tag>> \o LE(op.client, 4) \o LE(op.seq, 8) \o Counted(Key(op.kind), 2) \o
    CASE op.kind.tag = 0 -> Counted(op.kind.val, 4)
      [] op.kind.tag = 1 -> LE(op.kind.by, 8)
      [] op.kind.tag \in {2, 3} -> << >>
      [] op.kind.tag = 4 -> Length(Len(op.kind.writes), 2) \o
                              FoldLeft(LAMBDA o, w : o \o Entry(w), << >>, op.kind.writes)

NoOp == [none |-> TRUE]

\* One entry of a transaction, added to those in acc.writes.
ReadEntry(acc) ==
  LET k == string(acc.r, 2)
      f == uint(k, 1)
      v == IF f.ok /\ f.v = 1 THEN string(f, 4) ELSE f
      w == IF f.ok /\ f.v = 1 THEN [key |-> k.v, del |-> FALSE, val |-> v.v]
                              ELSE [key |-> k.v, del |-> TRUE]
  IN  [r |-> v, writes |-> Append(acc.writes, w)]

\* The kind with this tag, from a reader that has just read the key.
DecodeKind(tag, k) ==
  LET v == string(k, 4)
      d == uint(k, 8)
      n == uint(k, 2)
      ws == Repeat(n.v, ReadEntry, [r |-> n, writes |-> << >>])
      Some(ok, kind) == IF ok THEN kind ELSE NoOp
  IN  CASE tag = 0 -> Some(v.ok, [tag |-> 0, key |-> k.v, val |-> v.v])
        [] tag = 1 -> Some(d.ok, [tag |-> 1, key |-> k.v, by |-> Signed(d.v, 8)])
        [] tag \in {2, 3} -> [tag |-> tag, key |-> k.v]
        [] tag = 4 -> Some(n.ok /\ ws.r.ok, [tag |-> 4, writes |-> ws.writes])
        [] OTHER -> NoOp

Operation(client, seq, kind) ==
  IF kind = NoOp THEN NoOp ELSE [client |-> client, seq |-> seq, kind |-> kind]

decode(b) ==
  LET t == uint(Reader(b), 1)
      c == uint(t, 4)
      s == uint(c, 8)
      k == string(s, 2)
  IN  IF k.ok THEN Operation(c.v, s.v, DecodeKind(t.v, k)) ELSE NoOp

-----------------------------------------------------------------------------
(* Durable::append and Durable::read_log *)

Record(ts, b) == LE(ts, 8) \o Length(Len(b), 4) \o b

\* The records wholly in the file; a cut one ends the reading.
ReadRecord(acc) ==
  LET ts == uint(acc.r, 8)
      b == string(ts, 4)
  IN  IF b.ok THEN [r |-> b, out |-> Append(acc.out, [ts |-> ts.v, bytes |-> b.v])]
              ELSE [acc EXCEPT !.r.ok = FALSE]

read_log(raw) == Repeat(Len(raw) \div 12, ReadRecord, [r |-> Reader(raw), out |-> << >>]).out

-----------------------------------------------------------------------------
(* KvStore::snapshot and restore; Engine::encode_snapshot, load_snapshot.  *)
(* A map is written in the order of its keys, of which any one will do.    *)

snapshot(map) ==
  FoldLeft(LAMBDA o, k : o \o Counted(k, 2) \o Counted(map[k], 4),
           Length(Cardinality(DOMAIN map), 4), SetToSeq(DOMAIN map))

With(f, x, y) == [z \in DOMAIN f \cup {x} |-> IF z = x THEN y ELSE f[z]]

ReadPair(acc) ==
  LET k == string(acc.r, 2)
      v == string(k, 4)
  IN  IF v.ok THEN [r |-> v, map |-> With(acc.map, k.v, v.v)] ELSE [acc EXCEPT !.r.ok = FALSE]

restore(b) ==
  LET n == uint(Reader(b), 4)
  IN  IF n.ok THEN Repeat(n.v, ReadPair, [r |-> n, map |-> << >>]).map ELSE << >>

EmptyEngine == [state |-> << >>, applied |-> << >>, last_ts |-> 0]

encode_snapshot(e) ==
  FoldLeft(LAMBDA o, c : o \o LE(c, 4) \o LE(e.applied[c], 8),
           LE(e.last_ts, 8) \o Length(Cardinality(DOMAIN e.applied), 4),
           SetToSeq(DOMAIN e.applied))
    \o Counted(snapshot(e.state), 4)

\* The loop over the marks breaks on a short one, and reading goes on behind its
\* client id.
ReadMark(acc) ==
  LET c == uint(acc.r, 4)
      s == uint(c, 8)
  IN  CASE ~acc.going -> acc
        [] acc.going /\ s.ok -> [acc EXCEPT !.r = s, !.applied = With(@, c.v, s.v)]
        [] acc.going /\ ~s.ok -> [acc EXCEPT !.r = [Reader(s.rest) EXCEPT !.v = 0],
                                             !.going = FALSE]

\* Mutant: the marks are not adopted.
load_snapshotUnmarked(e, b) ==
  LET ts == uint(Reader(b), 8)
      n == uint(ts, 4)
      ms == Repeat(n.v, ReadMark, [r |-> n, applied |-> << >>, going |-> TRUE])
      sm == string(ms.r, 4)
  IN  IF n.ok /\ sm.ok
        THEN [state |-> restore(sm.v), applied |-> e.applied, last_ts |-> ts.v] ELSE e

load_snapshot(e, b) ==
  LET ts == uint(Reader(b), 8)
      n == uint(ts, 4)
      ms == Repeat(n.v, ReadMark, [r |-> n, applied |-> << >>, going |-> TRUE])
      sm == string(ms.r, 4)
  IN  IF n.ok /\ sm.ok
        THEN [state |-> restore(sm.v), applied |-> ms.applied, last_ts |-> ts.v] ELSE e
=============================================================================
