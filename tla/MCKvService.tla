----------------------------- MODULE MCKvService -----------------------------
(* Small instances of the server and its front ends. *)
EXTENDS KvService, SequencesExt

OneKey == {"k"}
TwoKeys == {"k", "j"}

\* DEL of one key, of a key named twice, and of two keys.
OneKeyDel == {<<"k">>, <<"k", "k">>}
DoubleDel == {<<"k", "j">>}

Scenario(p, c, f) == [proto |-> p, cmds |-> c, fails |-> f]

\* The front ends that look at the executor's result, and those that do not.
Checking == {"resp", "http"}
Blind == {"memcache", "txn", "stream"}

\* Three commands, or two and an engine error for the front ends that look at the
\* executor's result.
Serving ==
  {Scenario("memcache", 3, 0), Scenario("txn", 3, 0), Scenario("stream", 3, 0)}
    \cup {Scenario(p, 2, 1) : p \in Checking}

DeletingTwo == {Scenario("resp", 1, 0)}

\* KvStore::apply's loop over a transaction's entries, and the entries of a store of
\* at most two keys it is tried on: WriteAll is what the loop computes.
Write(m, w) == IF w.del THEN Delete(m, w.key) ELSE Insert(m, w.key, w.val)

SmallStores == UNION {[ks -> {Text(1)}] : ks \in SUBSET TwoKeys}

SmallEntries == [key : TwoKeys, del : BOOLEAN, val : {Text(2), Text(3)}]

ASSUME WriteAllIsLoop ==
  \A m \in SmallStores : \A n \in 0..3 : \A ws \in [1..n -> SmallEntries] :
    WriteAll(m, ws) = FoldLeft(Write, m, ws)

FailingBlind == {Scenario(p, 1, 1) : p \in Blind}
=============================================================================
