------------------------- MODULE ExactlyOnceService -------------------------
(***************************************************************************)
(* What the engine promises its callers: one order of records that only    *)
(* grows, in which no operation occurs twice and each client's operations  *)
(* come in sequence; answers only for operations of that order; and no     *)
(* answer from a state other than the result of the whole order.           *)
(***************************************************************************)
EXTENDS Integers, Sequences

VARIABLES order,  \* the records that took effect
          acked,  \* operations answered
          views   \* the states an answer may now be computed from

OnceEach(q) ==
  \A i, j \in DOMAIN q :
    i < j /\ q[i].op.client = q[j].op.client => q[i].op.seq < q[j].op.seq

Extends(q, p) == Len(p) <= Len(q) /\ \A i \in DOMAIN p : q[i] = p[i]

Init == order = << >> /\ acked = {} /\ views = {}

Next ==
  /\ Extends(order', order)
  /\ OnceEach(order')
  /\ acked \subseteq acked'
  /\ acked' \subseteq {order'[i].op : i \in DOMAIN order'}
  /\ views' \subseteq {order'}

vars == <<order, acked, views>>

Spec == Init /\ [][Next]_vars
=============================================================================
