-------------------------------- MODULE Drivers --------------------------------
(***************************************************************************)
(* The fault-injection drivers, and recovery from a captured request       *)
(* stream.  driver says which program a behaviour is of:                   *)
(*   "jepsen"    ob_jepsen: clients set unique keys of an ob-kv server that *)
(*               is killed and restarted under them;                       *)
(*   "app"       ob_app_jepsen: clients set unique keys and share a         *)
(*               register of a server run under the capture shim; it is     *)
(*               killed, and a fresh one is rebuilt by ob_replay;           *)
(*   "session"   onebarrier run and recover: the same with the arrival times *)
(*               of the requests recorded and replayed;                     *)
(*   "lincheck"  ob_lincheck: clients share a register of an ob-kv server;  *)
(*   "direct"    the checker alone, called with any history.                *)
(* The server executes one request at a time (ob-kv has one executor, redis *)
(* one thread); its durable record is the engine's log or the capture file. *)
(* A request is a pair <<client, k>>: the k-th operation of the client.     *)
(***************************************************************************)
EXTENDS Linearizability

CONSTANTS
  Setups,       \* records [driver, ops, REG_CAP, MaxGiveUps]: ops[c] is how many
                \* operations c makes, REG_CAP how many register operations the
                \* history keeps, MaxGiveUps how often ob_replay stops waiting
  Histories,    \* the histories the checker is called with directly
  attempts,     \* attempts to connect for one operation of ob_jepsen (200)
  MaxTimeouts,  \* read timeouts of clients in one behaviour
  MaxDelta      \* the longest time between two arrivals

VARIABLES
  driver, ops, REG_CAP, MaxGiveUps,
  phase,     \* "load", "down", "restarted", "replay", "verified", "exited"
  stop,      \* ob_app_jepsen's flag that ends the load
  up,        \* the server is running
  store,     \* its keys; 0 when absent
  inbox,     \* requests sent and not yet read by the server
  serving,   \* the request read and not yet executed, or None
  log,       \* the durable record: [req, time]
  torn,      \* the last record was cut by the crash
  deltas,    \* the file of arrival times, and how many were replayed
  cursor,
  ticks,     \* the virtual clock
  replies,   \* [req, v] written and not yet read
  conn,      \* of each client: "none", "open", "dead"
  k,         \* its operation; 0 when it has returned
  waiting,   \* it waits for a reply
  inv,       \* when it called its register operation
  tries,     \* failed attempts to connect for this operation, -1 before the first
             \* connect of a client of ob_jepsen, which is none of them
  timeouts,
  now, hist, \* the drivers' clock and the register history
  acked,     \* unique keys acknowledged
  unknown,   \* operations of ob_jepsen counted as ambiguous
  streams,   \* what ob_replay has still to get executed, by connection
  reads,     \* the server's reads during a replay with times: [req, n, time]
  gave_up    \* connections ob_replay stopped waiting for

setup   == <<driver, ops, REG_CAP, MaxGiveUps>>
file    == <<log, torn, deltas>>
clock   == <<cursor, ticks>>
client  == <<conn, k, waiting, inv, tries, timeouts>>
tally   == <<now, hist, acked, unknown>>
replayer == <<streams, reads, gave_up>>
vars == <<setup, phase, stop, up, store, inbox, serving, file, clock, replies,
          client, tally, replayer>>

None == <<0, 0>>
REG  == <<0, 0>>
Clients == DOMAIN ops
MaxOps == Max({0} \cup {ops[c] : c \in Clients})
Keys == {REG} \cup (Clients \X (1..MaxOps))
Empty == [key \in Keys |-> 0]

Val(c, i) == 10 * c + i

\* The k-th operation of a client, from the loops of the three drivers; what the
\* clients of a recorded session send is theirs to choose.
Operation(c, i) ==
  LET seq == (i + 1) \div 2
      Set(key, v) == [kind |-> "write", key |-> key, v |-> v]
      Get == [kind |-> "read", key |-> REG, v |-> 0]
  IN  CASE driver = "jepsen" -> Set(<<c, i>>, Val(c, i))
        [] driver = "app" /\ i % 2 = 1 -> Set(<<c, seq>>, Val(c, seq))
        [] driver = "app" /\ i % 2 = 0 /\ seq % 2 = 0 -> Set(REG, Val(c, seq))
        [] driver = "app" /\ i % 2 = 0 /\ seq % 2 = 1 -> Get
        [] driver = "lincheck" /\ i % 2 = 1 -> Set(REG, Val(c, i))
        [] driver = "lincheck" /\ i % 2 = 0 -> Get
        [] driver = "session" -> Set(REG, Val(c, i))

Op(req) == Operation(req[1], req[2])
Timed(c) == driver \in {"app", "lincheck"} /\ Op(<<c, k[c]>>).key = REG

Execute(s, req) ==
  IF Op(req).kind = "write" THEN [s EXCEPT ![Op(req).key] = Op(req).v] ELSE s

Init ==
  /\ \E s \in Setups : /\ driver = s.driver /\ ops = s.ops
                       /\ REG_CAP = s.REG_CAP /\ MaxGiveUps = s.MaxGiveUps
  /\ phase = "load" /\ stop = FALSE
  /\ up = TRUE /\ store = Empty /\ inbox = {} /\ serving = None /\ replies = {}
  /\ log = <<>> /\ torn = FALSE /\ deltas = <<>> /\ cursor = 0 /\ ticks = 0
  /\ conn = [c \in Clients |-> "none"] /\ k = [c \in Clients |-> 1]
  /\ waiting = [c \in Clients |-> FALSE] /\ inv = [c \in Clients |-> 0]
  /\ tries = [c \in Clients |-> IF driver = "jepsen" THEN -1 ELSE 0] /\ timeouts = 0
  /\ now = 0 /\ acked = {} /\ unknown = 0
  /\ hist \in IF driver = "direct" THEN Histories ELSE {<<>>}
  /\ streams = [c \in Clients |-> <<>>] /\ reads = <<>> /\ gave_up = {}

(***************************************************************************)
(* The server: it reads a request, which the shim captures before read     *)
(* returns (the engine logs it before it answers), and executes it.        *)
(***************************************************************************)
Elapsed == CASE driver = "session" -> 0..MaxDelta
             [] driver = "app" -> {1}
             [] OTHER -> {0}

\* Mutant: an arrival in the same instant leaves no entry.
RecordDeltaIfAny(d) == IF driver = "session" /\ d > 0 THEN Append(deltas, d) ELSE deltas

\* The file of arrival times is written only when one was asked for.
RecordDelta(d) == IF driver = "session" THEN Append(deltas, d) ELSE deltas

capture(req) ==
  \E d \in Elapsed :
    /\ ticks' = ticks + d
    /\ deltas' = RecordDelta(d)
    /\ log' = IF driver = "lincheck" THEN log
              ELSE Append(log, [req |-> req, time |-> ticks + d])

ServerReads ==
  /\ up /\ serving = None /\ phase # "replay"
  /\ \E req \in inbox :
       /\ serving' = req
       /\ inbox' = inbox \ {req}
       /\ capture(req)
  /\ UNCHANGED <<setup, phase, stop, up, store, torn, cursor, replies, client,
                 tally, replayer>>

ServerExecutes ==
  /\ serving # None
  /\ store' = Execute(store, serving)
  /\ replies' = IF waiting[serving[1]] /\ k[serving[1]] = serving[2]
                THEN replies \cup {[req |-> serving, v |-> store'[Op(serving).key]]}
                ELSE replies
  /\ serving' = None
  /\ UNCHANGED <<setup, phase, stop, up, inbox, file, clock, client, tally,
                 replayer>>

(***************************************************************************)
(* The clients.                                                            *)
(***************************************************************************)
Running(c) == phase \notin {"exited", "verified"} /\ driver # "direct" /\ k[c] # 0 /\ ~waiting[c]

Others(c) == UNCHANGED <<setup, phase, stop, up, store, serving, file, clock,
                         replayer>>

EndOperation(c) ==
  /\ k' = [k EXCEPT ![c] = @ + 1]
  /\ tries' = [tries EXCEPT ![c] = 0]
  /\ waiting' = [waiting EXCEPT ![c] = FALSE]
  /\ inv' = [inv EXCEPT ![c] = 0]

Return(c) ==
  /\ k' = [k EXCEPT ![c] = 0]
  /\ waiting' = [waiting EXCEPT ![c] = FALSE]
  /\ inv' = [inv EXCEPT ![c] = 0]
  /\ UNCHANGED tries

\* The head of ob_app_jepsen's loop is before the unique key of a round.
Leaves(c) ==
  /\ Running(c)
  /\ IF driver = "app" THEN stop /\ k[c] % 2 = 1 ELSE k[c] > ops[c]
  /\ Return(c)
  /\ UNCHANGED <<inbox, replies, conn, timeouts, tally>> /\ Others(c)

Connects(c) ==
  /\ Running(c) /\ conn[c] = "none" /\ k[c] <= ops[c] /\ up
  /\ conn' = [conn EXCEPT ![c] = "open"]
  /\ UNCHANGED <<inbox, replies, k, waiting, inv, tries, timeouts, tally>> /\ Others(c)

\* Mutant: ob_jepsen tries until it is connected.
ConnectFailsAgain(c) ==
  /\ Running(c) /\ conn[c] = "none" /\ k[c] <= ops[c] /\ ~up
  /\ IF driver # "jepsen" THEN Return(c) /\ UNCHANGED unknown
     ELSE UNCHANGED <<k, waiting, inv, tries, unknown>>
  /\ UNCHANGED <<inbox, replies, conn, timeouts, now, hist, acked>> /\ Others(c)

\* ob_jepsen tries again a bounded number of times, the others return.
ConnectFails(c) ==
  /\ Running(c) /\ conn[c] = "none" /\ k[c] <= ops[c] /\ ~up
  /\ \/ /\ driver # "jepsen"
        /\ Return(c)
        /\ UNCHANGED unknown
     \/ /\ driver = "jepsen" /\ tries[c] + 1 < attempts
        /\ tries' = [tries EXCEPT ![c] = @ + 1]
        /\ UNCHANGED <<k, waiting, inv, unknown>>
     \/ /\ driver = "jepsen" /\ tries[c] + 1 = attempts
        /\ EndOperation(c)
        /\ unknown' = unknown + 1
  /\ UNCHANGED <<inbox, replies, conn, timeouts, now, hist, acked>> /\ Others(c)

\* A request written to a connection whose server is gone arrives nowhere.
Sends(c) ==
  /\ Running(c) /\ conn[c] # "none" /\ k[c] <= ops[c]
  /\ driver = "app" => IF k[c] % 2 = 1 THEN ~stop ELSE Len(hist) < REG_CAP
  /\ waiting' = [waiting EXCEPT ![c] = TRUE]
  /\ inbox' = IF conn[c] = "open" THEN inbox \cup {<<c, k[c]>>} ELSE inbox
  /\ inv' = IF Timed(c) THEN [inv EXCEPT ![c] = now] ELSE inv
  /\ now' = IF Timed(c) THEN now + 1 ELSE now
  /\ UNCHANGED <<replies, conn, k, tries, timeouts, hist, acked, unknown>> /\ Others(c)

\* The register's history is full: the round ends with its unique key.
SkipsRegister(c) ==
  /\ Running(c) /\ driver = "app" /\ k[c] % 2 = 0 /\ k[c] <= ops[c]
  /\ Len(hist) >= REG_CAP
  /\ EndOperation(c)
  /\ UNCHANGED <<inbox, replies, conn, timeouts, tally>> /\ Others(c)

\* Mutant: the call is timed when it returns.
LinOpAtReturn(c, v) ==
  [kind |-> Op(<<c, k[c]>>).kind, v |-> v, inv |-> now, res |-> now]

LinOp(c, v) ==
  [kind |-> Op(<<c, k[c]>>).kind, v |-> v, inv |-> inv[c], res |-> now]

\* The reply of a SET is +OK and that of a GET the value.  A register operation
\* enters the history while there is room.
Receives(c) ==
  /\ waiting[c]
  /\ \E r \in replies :
       /\ r.req = <<c, k[c]>>
       /\ replies' = replies \ {r}
       /\ IF Timed(c)
          THEN /\ now' = now + 1
               /\ hist' = IF driver = "app" /\ Len(hist) >= REG_CAP THEN hist
                          ELSE Append(hist, LinOp(c, r.v))
               /\ UNCHANGED acked
          ELSE /\ acked' = acked \cup {Op(r.req).key}
               /\ UNCHANGED <<now, hist>>
  /\ EndOperation(c)
  /\ UNCHANGED <<inbox, conn, timeouts, unknown>> /\ Others(c)

\* The connection of a killed server fails the read, or ends it with no bytes.
\* resp takes both for an error and the client leaves; do_set takes no bytes for
\* a reply other than +OK, and keeps the connection.
LosesServer(c) ==
  /\ waiting[c] /\ conn[c] = "dead"
  /\ \/ driver # "jepsen" /\ Return(c) /\ UNCHANGED <<conn, unknown>>
     \/ /\ driver = "jepsen"
        /\ EndOperation(c)
        /\ \/ conn' = [conn EXCEPT ![c] = "none"] /\ unknown' = unknown + 1
           \/ UNCHANGED <<conn, unknown>>
  /\ replies' = {r \in replies : r.req[1] # c}
  /\ UNCHANGED <<inbox, timeouts, now, hist, acked>> /\ Others(c)

\* Mutant: the ambiguous operation is counted and sent again.
TimesOutRetries(c) ==
  /\ driver = "jepsen" /\ waiting[c] /\ conn[c] = "open" /\ timeouts < MaxTimeouts
  /\ timeouts' = timeouts + 1
  /\ waiting' = [waiting EXCEPT ![c] = FALSE]
  /\ conn' = [conn EXCEPT ![c] = "none"]
  /\ unknown' = unknown + 1
  /\ replies' = {r \in replies : r.req[1] # c}
  /\ UNCHANGED <<inbox, k, inv, tries, now, hist, acked>> /\ Others(c)

\* ob_jepsen reads with a timeout; the server may still execute the request.
TimesOut(c) ==
  /\ driver = "jepsen" /\ waiting[c] /\ conn[c] = "open" /\ timeouts < MaxTimeouts
  /\ timeouts' = timeouts + 1
  /\ EndOperation(c)
  /\ conn' = [conn EXCEPT ![c] = "none"]
  /\ unknown' = unknown + 1
  /\ replies' = {r \in replies : r.req[1] # c}
  /\ UNCHANGED <<inbox, now, hist, acked>> /\ Others(c)

(***************************************************************************)
(* The driver's main thread: kill -9, restart, recovery, verification.     *)
(***************************************************************************)
StopsLoad ==
  /\ driver = "app" /\ phase = "load" /\ ~stop
  /\ stop' = TRUE
  /\ UNCHANGED <<setup, phase, up, store, inbox, serving, file, clock, replies,
                 client, tally, replayer>>

Killed ==
  /\ phase = "load" /\ driver \in {"jepsen", "app", "session"}
  /\ driver = "app" => stop
  /\ phase' = "down" /\ up' = FALSE
  /\ store' = Empty /\ inbox' = {} /\ serving' = None
  /\ conn' = [c \in Clients |-> IF conn[c] = "open" THEN "dead" ELSE conn[c]]
  /\ UNCHANGED <<setup, stop, clock, replies, k, waiting, inv, tries, timeouts,
                 tally, replayer>>

\* Mutant: the last record is still in the buffer of the C library.
KillUnflushed ==
  /\ Killed
  /\ torn' \in {torn, log # <<>>}
  /\ UNCHANGED <<log, deltas>>

\* kill -9 at any instant; what was written to a file stays.  The request being
\* read may have its arrival time on disk and its record missing or cut.
Kill ==
  /\ Killed
  /\ torn' \in {FALSE, serving # None}
  /\ UNCHANGED <<log, deltas>>

\* The records recovery and ob_replay find: a cut one at the end is dropped.
Whole == IF torn THEN SubSeq(log, 1, Len(log) - 1) ELSE log

Requests == [i \in DOMAIN Whole |-> Whole[i].req]

\* A new ob-kv server recovers from its log; the clients go on meanwhile.
Restart ==
  /\ driver = "jepsen" /\ phase = "down"
  /\ phase' = "restarted"
  /\ \/ up' = TRUE /\ store' = FoldLeft(Execute, Empty, Requests)
     \/ UNCHANGED <<up, store>>
  /\ UNCHANGED <<setup, stop, inbox, serving, file, clock, replies, client, tally,
                 replayer>>

\* An empty server is started once the clients have left; ob_replay groups the
\* records by connection.  If the server does not come up the driver exits.
StartReplay ==
  /\ driver \in {"app", "session"} /\ phase = "down"
  /\ \A c \in Clients : k[c] = 0
  /\ \/ /\ phase' = "replay" /\ up' = TRUE
        /\ cursor' = 0 /\ ticks' = 0
        /\ streams' = [c \in Clients |->
                         SelectSeq(Requests, LAMBDA req : req[1] = c)]
     \/ phase' = "exited" /\ UNCHANGED <<up, clock, streams>>
  /\ UNCHANGED <<setup, stop, store, inbox, serving, file, replies, client, tally,
                 reads, gave_up>>

\* Mutant: one thread per record instead of one per connection.
ReplayAnyRecord(c) ==
  /\ phase = "replay"
  /\ \E i \in DOMAIN streams[c] :
       /\ store' = Execute(store, streams[c][i])
       /\ streams' = [streams EXCEPT ![c] = RemoveAt(@, i)]
  /\ UNCHANGED <<setup, phase, stop, up, inbox, serving, file, clock, replies,
                 client, tally, reads, gave_up>>

\* Each connection has a thread that writes its whole stream at once; the server
\* reads any number of its requests together and executes them.  With recorded
\* arrival times the read advances the clock by the next one, by nothing when
\* they are used up.
ReplayRead(c) ==
  /\ phase = "replay"
  /\ \E n \in 1..Len(streams[c]) :
       LET d == IF driver = "session" /\ cursor < Len(deltas) THEN deltas[cursor + 1]
                ELSE 0
       IN  /\ store' = FoldLeft(Execute, store, SubSeq(streams[c], 1, n))
           /\ streams' = [streams EXCEPT ![c] = SubSeq(@, n + 1, Len(@))]
           /\ ticks' = ticks + d
           /\ cursor' = IF cursor < Len(deltas) THEN cursor + 1 ELSE cursor
           /\ reads' = IF driver # "session" THEN reads
                       ELSE Append(reads, [req |-> Head(streams[c]), n |-> n,
                                           time |-> ticks + d])
  /\ UNCHANGED <<setup, phase, stop, up, inbox, serving, file, replies, client,
                 tally, gave_up>>

\* No reply for 25 ms: the thread takes its stream for answered.
ReplayGivesUp(c) ==
  /\ phase = "replay" /\ streams[c] # <<>> /\ c \notin gave_up
  /\ Cardinality(gave_up) < MaxGiveUps
  /\ gave_up' = gave_up \cup {c}
  /\ UNCHANGED <<setup, phase, stop, up, store, inbox, serving, file, clock,
                 replies, client, tally, streams, reads>>

\* The place of a connection in the order in which ob_replay joins its threads.
FirstSeen(c) == Min({i \in DOMAIN Requests : Requests[i][1] = c})

\* A thread could not connect or write; when main comes to join it, it returns the
\* error, and the process ends with the threads that are left.
ReplayFails(c) ==
  /\ phase = "replay" /\ streams[c] # <<>> /\ c \notin gave_up /\ MaxGiveUps > 0
  /\ \A d \in Clients :
       streams[d] # <<>> /\ d \notin gave_up => FirstSeen(c) <= FirstSeen(d)
  /\ gave_up' = gave_up \cup {d \in Clients : streams[d] # <<>>}
  /\ UNCHANGED <<setup, phase, stop, up, store, inbox, serving, file, clock,
                 replies, client, tally, streams, reads>>

Replayed == phase = "replay" /\ \A c \in Clients : streams[c] = <<>> \/ c \in gave_up

\* The driver checks what it has, or exits without a verdict when no server is up.
Verify ==
  /\ \/ driver = "app" /\ Replayed
     \/ driver = "lincheck" /\ phase = "load" /\ \A c \in Clients : k[c] = 0
     \/ driver = "jepsen" /\ phase = "restarted" /\ \A c \in Clients : k[c] = 0
     \/ driver = "direct" /\ phase = "load"
  /\ phase' = IF up THEN "verified" ELSE "exited"
  /\ up' = FALSE
  /\ UNCHANGED <<setup, stop, store, inbox, serving, file, clock, replies, client,
                 tally, replayer>>

\* onebarrier recover has nothing to check: it leaves the server running.
Recovered ==
  /\ driver = "session" /\ Replayed
  /\ phase' = "exited"
  /\ UNCHANGED <<setup, stop, up, store, inbox, serving, file, clock, replies, client,
                 tally, replayer>>

\* The checks: the acknowledged keys, and the register's history, to which
\* ob_app_jepsen adds a read after the recovery.
lost == {key \in acked : store[key] = 0}
torn_values == {key \in acked : store[key] \notin {0, Val(key[1], key[2])}}
FullHistory ==
  IF driver = "app"
  THEN Append(hist, [kind |-> "read", v |-> store[REG], inv |-> now, res |-> now + 1])
  ELSE hist
lin == is_linearizable(FullHistory, 0)

Finished == phase \in {"exited", "verified"} /\ UNCHANGED vars

Client(c) ==
  \/ Leaves(c) \/ Connects(c) \/ ConnectFails(c) \/ Sends(c) \/ SkipsRegister(c)
  \/ Receives(c) \/ LosesServer(c) \/ TimesOut(c)

Next ==
  \/ ServerReads \/ ServerExecutes
  \/ \E c \in Clients : Client(c) \/ ReplayRead(c) \/ ReplayGivesUp(c) \/ ReplayFails(c)
  \/ StopsLoad \/ Kill \/ Restart \/ StartReplay \/ Verify \/ Recovered \/ Finished

\* The processes and threads of a run, the server among them, are never stopped for
\* ever all at once; each step brings the run nearer to its end.
Spec == Init /\ [][Next]_vars /\ WF_vars(Next)
--------------------------------------------------------------------------------
\* The types of the drivers' variables; a reply is kept only while its client
\* waits for it, and ob_jepsen counts no operation both as acknowledged and as
\* ambiguous (acked and unknown).
TypeOK ==
  /\ phase \in {"load", "down", "restarted", "replay", "verified", "exited"}
  /\ stop \in BOOLEAN /\ up \in BOOLEAN /\ torn \in BOOLEAN
  /\ store \in [Keys -> Nat]
  /\ inbox \subseteq (Clients \X (1..MaxOps))
  /\ serving \in {None} \cup (Clients \X (1..MaxOps))
  /\ \A i \in DOMAIN log : log[i].req \in Clients \X (1..MaxOps) /\ log[i].time \in Nat
  /\ \A r \in replies : waiting[r.req[1]] /\ k[r.req[1]] = r.req[2]
  /\ conn \in [Clients -> {"none", "open", "dead"}]
  /\ k \in [Clients -> 0..(MaxOps + 1)]
  /\ tries \in [Clients -> -1..(attempts - 1)]
  /\ Cardinality(acked) + unknown <= Cardinality(Clients) * MaxOps
  /\ Len(hist) <= now \/ driver = "direct"

\* The checker of linearizability.rs, whatever history it is given and whatever
\* its memo cuts off, decides the definition: some order of the operations that
\* respects real time gives every read its value (is_linearizable, recurse).
VerdictSound ==
  phase = "verified" => (lin <=> Linearizable(FullHistory, 0))

\* ob_jepsen and ob_app_jepsen find no acknowledged write lost or torn, wherever
\* the kill, a read timeout or the restart falls between the steps of the clients
\* and of the server; but ob_app_jepsen may lose writes of a connection that
\* ob_replay stopped waiting for, or could not replay, and of that one only.
AckedSurvive ==
  phase = "verified" => torn_values = {} /\ \A key \in lost : key[1] \in gave_up

RegisterWrites == SelectSeq(Requests, LAMBDA req : Op(req).kind = "write" /\ Op(req).key = REG)

\* The captured register writes that are not in the history: in flight at the kill,
\* or past REG_CAP.
Unrecorded ==
  SelectSeq(RegisterWrites, LAMBDA req :
    \A j \in DOMAIN hist : hist[j].kind = "write" => hist[j].v # Op(req).v)

\* The history with those writes, at an unknown time before the recovery.
Completed ==
  FullHistory \o [i \in DOMAIN Unrecorded |->
                    [kind |-> "write", v |-> Op(Unrecorded[i]).v, inv |-> 0, res |-> now]]

\* A register history recorded against a server that executes one request at a
\* time is found linearizable once the writes that the driver did not record are
\* added.  So ob_lincheck, which records all, always passes, and ob_app_jepsen
\* reports a violation only when a write is missing from its history or the replay
\* left another write last than the capture has.
LinearizableReported ==
  (phase = "verified" /\ driver \in {"app", "lincheck"}) =>
    \/ is_linearizable(Completed, 0)
    \/ driver = "app" /\ RegisterWrites # <<>> /\ store[REG] # Op(Last(RegisterWrites)).v

\* The writes of a key that a connection made, in the order of the capture.
WritesOf(c, key) ==
  SelectSeq(Requests, LAMBDA req : req[1] = c /\ Op(req).kind = "write" /\ Op(req).key = key)

\* After a replay that was executed to its end, each key has the value of the last
\* captured write of it by one of the connections: the threads may interleave
\* connections in any way, but never reorder, drop or invent requests of one.
ReplayKeepsStreams ==
  (phase = "replay" /\ \A c \in Clients : streams[c] = <<>>) =>
    \A key \in Keys :
      LET writers == {c \in Clients : WritesOf(c, key) # <<>>}
      IN  store[key] \in IF writers = {} THEN {0}
                         ELSE {Op(Last(WritesOf(c, key))).v : c \in writers}

\* With recorded arrival times, as long as the server under replay has read the
\* requests one by one in the captured order, each is read at the virtual time it
\* was captured at, also when the kill left an arrival time without its request.
TimesReplayed ==
  \A i \in DOMAIN reads :
    (\A j \in 1..i : reads[j].n = 1 /\ reads[j].req = Whole[j].req) =>
      reads[i].time = Whole[i].time

\* Every run of a driver comes to an end, and so does the replay of a session, also
\* when the server does not come back: the clients' attempts, ob_jepsen's reads and
\* ob_replay's are bounded.  The writes, and the reads of ob_app_jepsen and
\* ob_lincheck, have no timeout: they rely on a server that is up to read and to
\* answer, and on the death of one to end them (resp, resp_cmd, write_all).
EventuallyDone == <>(phase \in {"exited", "verified"})
================================================================================
