------------------------------- MODULE FrontEnds -------------------------------
(***************************************************************************)
(* The wire protocols of crates/onebarrier/src: what operations a command  *)
(* becomes and what its reply says.  A front end is given by the set of    *)
(* its commands, and by a step operator that, from the outputs received    *)
(* for the command's operations so far, yields the next operation or the   *)
(* reply.  Parsing and rendering are left out; a reply is whether it       *)
(* reports the command as done, and the number or value it carries.        *)
(*                                                                         *)
(* A key is a pair: a plain key k is <<k, 0>>, and the stream log's        *)
(* "t:topic:n" and "t:topic:offset" are <<topic, 0>> and <<topic, offset>>.*)
(***************************************************************************)
EXTENDS KvStore, FiniteSets

CONSTANTS Keys,     \* plain keys and topics
          DelKeys   \* the key lists a RESP DEL may name

ASSUME DelKeysAssumption == \A ks \in DelKeys : ks \in Seq(Keys)

Ask(kind) == [ask |-> TRUE, kind |-> kind]
Reply(ok, val) == [ask |-> FALSE, ok |-> ok, val |-> val]

Plain(k) == <<k, 0>>
Command(name, k) == [name |-> name, key |-> k]
DelCommand(ks) == [name |-> "DEL", keys |-> ks]
NoKey == "-"

\* The output of a Del that found its key, and how many of them a reply counts.
Removed(out) == out.tag = "Value" /\ out.n = 1
Count(outs) == Cardinality({i \in DOMAIN outs : Removed(outs[i])})

\* The integer an output carries, as parse().unwrap_or(0) on the text of a GET.
IntOf(out) == IF out.tag = "Bytes" THEN Parse(out.val) ELSE 0

GetReply(out) == Reply(out.tag = "Bytes", out)

-----------------------------------------------------------------------------
(* RESP: resp_dispatch.  PLAIN stands for the commands that reach no key.  *)

RespCommands ==
  {Command("PLAIN", NoKey)}
  \cup {Command(n, k) : n \in {"SET", "GET", "INCR", "DECR", "DBSIZE"}, k \in Keys}
  \cup {DelCommand(ks) : ks \in DelKeys}

\* Mutant: the reply to SET does not look at the result.
RespStepBlind(cmd, outs, val) ==
  IF outs = << >> /\ cmd.name = "SET" THEN Ask(Set(Plain(cmd.key), val)) ELSE Reply(TRUE, Ok)

RespStep(cmd, outs, val) ==
  LET n == Len(outs)
      last == outs[n]
  IN  CASE cmd.name = "PLAIN" -> Reply(TRUE, Ok)
        [] cmd.name = "SET" -> IF n = 0 THEN Ask(Set(Plain(cmd.key), val))
                               ELSE Reply(last # None, Ok)
        [] cmd.name = "GET" -> IF n = 0 THEN Ask(Get(Plain(cmd.key))) ELSE GetReply(last)
        [] cmd.name \in {"INCR", "DECR"} ->
             IF n = 0 THEN Ask(Incr(Plain(cmd.key), IF cmd.name = "INCR" THEN 1 ELSE -1))
             ELSE Reply(last.tag = "Value", last)
        [] cmd.name = "DEL" ->
             IF n < Len(cmd.keys) THEN Ask(Del(Plain(cmd.keys[n + 1])))
             ELSE Reply(\A i \in DOMAIN outs : Removed(outs[i]), Value(Count(outs)))
        [] cmd.name = "DBSIZE" -> IF n = 0 THEN Ask([tag |-> "Len"]) ELSE Reply(TRUE, last)

-----------------------------------------------------------------------------
(* HTTP: route *)

HttpCommands ==
  {Command("OTHER", NoKey)}
  \cup {Command(n, k) : n \in {"GET", "PUT", "POST", "DELETE"}, k \in Keys}

HttpStep(cmd, outs, val) ==
  LET last == outs[1]
  IN  CASE cmd.name = "OTHER" -> Reply(FALSE, None)
        [] cmd.name = "GET" ->
             IF outs = << >> THEN Ask(Get(Plain(cmd.key))) ELSE GetReply(last)
        [] cmd.name = "PUT" ->
             IF outs = << >> THEN Ask(Set(Plain(cmd.key), val)) ELSE Reply(last # None, Ok)
        [] cmd.name = "POST" ->
             IF outs = << >> THEN Ask(Incr(Plain(cmd.key), 1))
             ELSE Reply(last.tag = "Value", last)
        [] cmd.name = "DELETE" ->
             IF outs = << >> THEN Ask(Del(Plain(cmd.key)))
             ELSE Reply(Removed(last), Value(Count(outs)))

-----------------------------------------------------------------------------
(* Memcached text protocol: MemcacheProtocol::serve_conn *)

MemcacheCommands ==
  {Command("version", NoKey)}
  \cup {Command(n, k) : n \in {"set", "get", "incr", "decr", "delete"}, k \in Keys}

\* The reply to incr and decr shows n.max(0), whatever is stored.
NotNegative(n) == IF n < 0 THEN 0 ELSE n

MemcacheStep(cmd, outs, val) ==
  LET n == Len(outs)
      last == outs[n]
  IN  CASE cmd.name = "version" -> Reply(TRUE, Ok)
        [] cmd.name = "set" ->
             IF n = 0 THEN Ask(Set(Plain(cmd.key), val)) ELSE Reply(TRUE, Ok)
        [] cmd.name = "get" ->
             IF n = 0 THEN Ask(Get(Plain(cmd.key))) ELSE GetReply(last)
        [] cmd.name \in {"incr", "decr"} ->
             (CASE n = 0 -> Ask(Get(Plain(cmd.key)))
                [] n = 1 /\ last.tag = "Bytes" ->
                    Ask(Incr(Plain(cmd.key), IF cmd.name = "incr" THEN 1 ELSE -1))
                [] n = 1 /\ last.tag # "Bytes" -> Reply(FALSE, NoBytes)
                [] n = 2 /\ last.tag = "Value" -> Reply(TRUE, Value(NotNegative(last.n)))
                [] OTHER -> Reply(FALSE, None))
        [] cmd.name = "delete" ->
             IF n = 0 THEN Ask(Del(Plain(cmd.key))) ELSE Reply(Removed(last), last)

-----------------------------------------------------------------------------
(* Transactions: TxnProtocol::serve_conn.  buf is the connection's buffer  *)
(* of writes, and in_txn whether a transaction is open.                    *)

TxnCommands ==
  {Command(n, NoKey) : n \in {"BEGIN", "COMMIT", "ABORT"}}
  \cup {Command(n, k) : n \in {"SET", "DEL", "GET"}, k \in Keys}

Entry(cmd, val) == [key |-> Plain(cmd.key), del |-> cmd.name = "DEL", val |-> val]

\* Mutant: inside a transaction a write is applied at once.
TxnStepEager(cmd, outs, val, buf, in_txn) ==
  IF cmd.name \in {"SET", "DEL"} /\ outs = << >>
    THEN Ask(Txn(<<Entry(cmd, val)>>)) ELSE Reply(TRUE, Ok)

TxnStep(cmd, outs, val, buf, in_txn) ==
  CASE cmd.name \in {"BEGIN", "ABORT"} -> Reply(TRUE, Ok)
    [] cmd.name \in {"SET", "DEL"} ->
         IF in_txn \/ outs # << >> THEN Reply(TRUE, Ok) ELSE Ask(Txn(<<Entry(cmd, val)>>))
    [] cmd.name = "GET" ->
         IF outs = << >> THEN Ask(Get(Plain(cmd.key))) ELSE GetReply(outs[1])
    [] cmd.name = "COMMIT" ->
         IF ~in_txn THEN Reply(FALSE, None)
         ELSE IF outs = << >> THEN Ask(Txn(buf)) ELSE Reply(TRUE, Value(Len(buf)))

TxnBuffer(cmd, val, buf, in_txn) ==
  CASE cmd.name \in {"BEGIN", "ABORT", "COMMIT"} -> << >>
    [] cmd.name \in {"SET", "DEL"} -> IF in_txn THEN Append(buf, Entry(cmd, val)) ELSE buf
    [] OTHER -> buf

TxnOpen(cmd, in_txn) ==
  CASE cmd.name = "BEGIN" -> TRUE
    [] cmd.name \in {"ABORT", "COMMIT"} -> FALSE
    [] OTHER -> in_txn

-----------------------------------------------------------------------------
(* Stream log: StreamLogProtocol::serve_conn.  SUB asks from offset 1.     *)

StreamCommands == {Command(n, k) : n \in {"PUB", "SUB", "LEN"}, k \in Keys}

Offset(topic, off) == <<topic, off>>

\* Mutant: the message is stored first, at the offset behind the topic's length,
\* and the length is raised afterwards.
StreamStepRead(cmd, outs, val) ==
  LET n == Len(outs)
  IN  CASE cmd.name = "PUB" ->
             (CASE n = 0 -> Ask(Get(Offset(cmd.key, 0)))
                [] n = 1 -> Ask(Set(Offset(cmd.key, IntOf(outs[1]) + 1), val))
                [] n = 2 -> Ask(Incr(Offset(cmd.key, 0), 1))
                [] n = 3 -> Reply(TRUE, Value(IntOf(outs[1]) + 1)))
        [] cmd.name = "SUB" ->
             IF n = 0 THEN Ask(Get(Offset(cmd.key, 0)))
             ELSE IF n <= IntOf(outs[1]) THEN Ask(Get(Offset(cmd.key, n)))
             ELSE Reply(TRUE, Ok)
        [] cmd.name = "LEN" -> Reply(TRUE, Ok)

\* Mutant: a subscriber stops before the topic's length.
StreamStepShort(cmd, outs, val) ==
  LET n == Len(outs)
  IN  CASE cmd.name = "PUB" ->
             (CASE n = 0 -> Ask(Incr(Offset(cmd.key, 0), 1))
                [] n = 1 -> Ask(Set(Offset(cmd.key, outs[1].n), val))
                [] n = 2 -> Reply(TRUE, outs[1]))
        [] cmd.name = "SUB" ->
             IF n = 0 THEN Ask(Get(Offset(cmd.key, 0)))
             ELSE IF n < IntOf(outs[1]) THEN Ask(Get(Offset(cmd.key, n)))
             ELSE Reply(TRUE, Ok)
        [] cmd.name = "LEN" -> Reply(TRUE, Ok)

StreamStep(cmd, outs, val) ==
  LET n == Len(outs)
  IN  CASE cmd.name = "PUB" ->
             (CASE n = 0 -> Ask(Incr(Offset(cmd.key, 0), 1))
                [] n = 1 /\ outs[1].tag = "Value" -> Ask(Set(Offset(cmd.key, outs[1].n), val))
                [] n = 1 /\ outs[1].tag # "Value" -> Reply(FALSE, None)
                [] OTHER -> Reply(TRUE, outs[1]))
        [] cmd.name = "SUB" ->
             IF n = 0 THEN Ask(Get(Offset(cmd.key, 0)))
             ELSE IF n <= IntOf(outs[1]) THEN Ask(Get(Offset(cmd.key, n)))
             ELSE Reply(TRUE, Ok)
        [] cmd.name = "LEN" ->
             IF n = 0 THEN Ask(Get(Offset(cmd.key, 0)))
             ELSE Reply(TRUE, Value(IntOf(outs[1])))
=============================================================================
