---------------------------- MODULE Linearizability ----------------------------
(***************************************************************************)
(* The linearizability checker of crates/onebarrier/src/linearizability.rs *)
(* for one register, and the definition it decides.  A history is a        *)
(* sequence of operations [kind, v, inv, res]; kind is "write" or "read",  *)
(* inv and res are the instants of the call and of the return.             *)
(***************************************************************************)
EXTENDS Integers, Sequences, FiniteSets, SequencesExt, FiniteSetsExt

valid(op, value) == op.kind = "read" => op.v = value

apply(op, value) == IF op.kind = "write" THEN op.v ELSE value

\* Mutant: what failed is remembered without the register's value.
MemoKeyWithoutValue(remaining, value) == remaining

\* What the search remembers of a failed branch.
MemoKey(remaining, value) == <<remaining, value>>

\* The operations called before the first return among the remaining ones, in
\* the order of their calls; at equal instants calls come before returns.
Candidates(ops, remaining) ==
  LET first == Min({ops[i].res : i \in remaining})
      Before(i, j) == \/ ops[i].inv < ops[j].inv
                      \/ ops[i].inv = ops[j].inv /\ i < j
  IN  SetToSortSeq({i \in remaining : ops[i].inv <= first}, Before)

RECURSIVE recurse(_, _, _, _), TryInOrder(_, _, _, _, _)

\* The depth-first search: whether it succeeds, and the branches known to fail.
recurse(ops, remaining, value, memo) ==
  IF remaining = {} THEN [ok |-> TRUE, memo |-> memo]
  ELSE IF MemoKey(remaining, value) \in memo THEN [ok |-> FALSE, memo |-> memo]
  ELSE TryInOrder(Candidates(ops, remaining), ops, remaining, value, memo)

\* The loop over the candidates, with its insertion into the memo at the end.
TryInOrder(ids, ops, remaining, value, memo) ==
  IF ids = <<>>
  THEN [ok |-> FALSE, memo |-> memo \cup {MemoKey(remaining, value)}]
  ELSE LET id == Head(ids)
           branch == recurse(ops, remaining \ {id}, apply(ops[id], value), memo)
       IN  IF ~valid(ops[id], value)
           THEN TryInOrder(Tail(ids), ops, remaining, value, memo)
           ELSE IF branch.ok THEN branch
           ELSE TryInOrder(Tail(ids), ops, remaining, value, branch.memo)

is_linearizable(ops, init) == recurse(ops, DOMAIN ops, init, {}).ok

(***************************************************************************)
(* The definition: some total order of the operations respects the real-   *)
(* time order and makes every read return the register's value.            *)
(***************************************************************************)
RealTimeOrder(ops, order) ==
  \A i, j \in DOMAIN order : i < j => ~(ops[order[j]].res < ops[order[i]].inv)

ReadsWhatWasWritten(ops, order, init) ==
  \A i \in DOMAIN order :
    ops[order[i]].kind = "read" =>
      LET writes == {j \in 1..(i - 1) : ops[order[j]].kind = "write"}
      IN  ops[order[i]].v = IF writes = {} THEN init ELSE ops[order[Max(writes)]].v

Linearizable(ops, init) ==
  \E order \in SetToSeqs(DOMAIN ops) :
    RealTimeOrder(ops, order) /\ ReadsWhatWasWritten(ops, order, init)
================================================================================
