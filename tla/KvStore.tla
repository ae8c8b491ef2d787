-------------------------------- MODULE KvStore --------------------------------
(***************************************************************************)
(* The key-value state machine of crates/onebarrier/src/state.rs: a map    *)
(* from keys to byte strings, of which the model tells apart those that    *)
(* parse as an integer and those that do not.                              *)
(***************************************************************************)
EXTENDS Integers, Sequences

CONSTANT IntMax \* the largest i64; the release build's addition wraps

ASSUME IntAssumption == IntMax \in Nat

Num(n) == [num |-> TRUE, n |-> n]
Text(n) == [num |-> FALSE, n |-> n]

\* from_utf8(v).trim().parse().unwrap_or(0)
Parse(v) == IF v.num THEN v.n ELSE 0

Wrap(n) == ((n + IntMax + 1) % (2 * IntMax + 2)) - IntMax - 1

\* OpKind
Set(k, v) == [tag |-> "Set", key |-> k, val |-> v]
Incr(k, d) == [tag |-> "Incr", key |-> k, by |-> d]
Del(k) == [tag |-> "Del", key |-> k]
Get(k) == [tag |-> "Get", key |-> k]
Txn(w) == [tag |-> "Txn", writes |-> w]

IsWrite(kind) == kind.tag \in {"Set", "Incr", "Del", "Txn"}

\* Output, and the None of a call the executor did not answer
Ok == [tag |-> "Ok"]
Value(n) == [tag |-> "Value", n |-> n]
Bytes(v) == [tag |-> "Bytes", val |-> v]
NoBytes == [tag |-> "NoBytes"]
Suppressed == [tag |-> "Suppressed"]
None == [tag |-> "None"]

EmptyMap == << >>

Insert(m, k, v) == [x \in DOMAIN m \cup {k} |-> IF x = k THEN v ELSE m[x]]
Delete(m, k) == [x \in DOMAIN m \ {k} |-> m[x]]

\* The entries of a transaction that decide: the last one for each key.
Deciding(ws) == {i \in DOMAIN ws : \A j \in DOMAIN ws : ws[j].key = ws[i].key => j <= i}

\* A transaction's entries, one after the other: Some(value) sets, None deletes.
WriteAll(m, ws) ==
  LET named == {ws[i].key : i \in DOMAIN ws}
      sets == {i \in Deciding(ws) : ~ws[i].del}
  IN  [k \in (DOMAIN m \ named) \cup {ws[i].key : i \in sets} |->
         IF k \in named THEN ws[CHOOSE i \in sets : ws[i].key = k].val ELSE m[k]]

Incremented(m, k, d) ==
  LET next == Wrap((IF k \in DOMAIN m THEN Parse(m[k]) ELSE 0) + d)
  IN  [map |-> Insert(m, k, Num(next)), out |-> Value(next)]

\* KvStore::apply: the new map and the output.
Apply(m, kind) ==
  CASE kind.tag = "Set" -> [map |-> Insert(m, kind.key, kind.val), out |-> Ok]
    [] kind.tag = "Incr" -> Incremented(m, kind.key, kind.by)
    [] kind.tag = "Del" ->
         [map |-> Delete(m, kind.key), out |-> Value(IF kind.key \in DOMAIN m THEN 1 ELSE 0)]
    [] kind.tag = "Get" ->
         [map |-> m,
          out |-> IF kind.key \in DOMAIN m THEN Bytes(m[kind.key]) ELSE NoBytes]
    [] kind.tag = "Txn" ->
         [map |-> WriteAll(m, kind.writes), out |-> Value(Len(kind.writes))]
=============================================================================
