# A verification of OneBarrier

OneBarrier makes servers recoverable by replaying a totally ordered, logged
stream of requests. This directory holds TLA+ models of its parts, the TLC
configurations that check them, and TLAPS proofs.

## The system

The parts, their state, and what makes them hard:

| part | source | state | operations | hard behaviour |
|---|---|---|---|---|
| replication engine | `crates/onebarrier/src/lib.rs` | replicated state, per-client high-water marks (`applied`), `last_ts`, `ops_since_snap` | `create`, `recover`, `deliver`, `snapshot`, `export_state`, `import_state` | a crash at any point, duplicates after a restart |
| durable store | `durable.rs` | log file, snapshot file | `append`, `write_snapshot`, `read_log`, `read_snapshot` | torn writes, rename and removal not atomic together |
| key-value state machine | `state.rs` | key to bytes map | `Set`, `Incr`, `Del`, `Get`, `Txn`, encode and decode | saturating length fields, `i64` addition |
| service | `server.rs` | executor thread, job queue, connection ids, clock | `KvService::start`, `apply`, `len`, accept loop, `stop` | executor death, id reuse after a restart, shutdown order |
| front ends | `server.rs`, `resp.rs`, `memcache.rs`, `http.rs`, `txn.rs`, `streamlog.rs` | per-connection sequence number, buffered transaction | one per command | commands made of several operations, read timeouts inside a command |
| cluster | `cluster.rs` | replicas over the ordering fabric | deliver, crash, recover and import | replicas at different points of the order |
| linearizability checker | `linearizability.rs` | none | `is_linearizable` | recursive search with a memo |
| fault-injection drivers, replayer | `src/bin/ob_jepsen.rs`, `ob_app_jepsen.rs`, `ob_lincheck.rs`, `ob_replay.rs` | clients, acknowledged keys, register history | load, kill, restart or replay, verify | what is in flight at the kill, replay by several threads |
| thread scheduler shim | `interpose/detsched.c` | logical clock and active flag per slot, lock depth per thread | wrapped lock, trylock, unlock, condition wait, create, join | turn taking among running threads, threads that leave and return |
| capture and clock shim | `interpose/obpreload.c` | capture files, virtual clock | wrapped reads, clock reads, randomness, accept, close | replay order across connections |
| randomness shim | `interpose/rngdet.c` | seeded generator | supervisor loop | fallback to the kernel's answer |
| launcher, benchmarks | `bin/onebarrier`, `src/bin/`, `bench.rs`, `sim.rs`, `recovery.rs` | none of their own | | |

A client's command enters a front end on a connection thread, becomes one or
more operations `(client, seq, kind)`, goes through the service's queue to the
single executor thread, and there through `Engine::deliver` into the durable
store. The cluster drives one engine per replica from an ordering fabric. The
shims are independent of that path: they make an unmodified program deterministic
so that a captured request stream can be replayed into it. The drivers kill a
server of either kind and check what comes back.

## Modules

| module | models | composed with |
|---|---|---|
| `ExactlyOnceService` | what the engine promises its callers: one order of operations that only grows, in which no `(client, seq)` occurs twice, with answers only for operations of that order | |
| `Engine` | `Engine<S>` over the durable store, split at every point where a crash leaves a different disk | implements `ExactlyOnceService` |
| `EngineInv` | the inductive invariant `RecoveryInv` | extends `Engine` |
| `EngineProofs` | types, exactly-once application, the durable order, the bound on replay, durability of answers, the refinement | extends `EngineInv` |
| `KvStore` | `KvStore::apply` | |
| `FrontEnds` | the five wire protocols, as step operators over operations and outputs | extends `KvStore` |
| `KvService` | executor, queue, accept loop, connections, stop, crash, restart | extends `FrontEnds`; uses the engine's promise and implements `ExactlyOnceService` |
| `KvServiceProofs` | the executor's clock, the invariant `OnceInv` with the executor's steps, and the lemmas on sequences the other proofs use | extends `KvService` |
| `KvServiceOnceProofs` | types, duplicates, the refinement; the steps of the server by what they do to connections | extends `KvServiceProofs` |
| `KvServiceReplyProofs` | acknowledged writes, open transactions | extends `KvServiceOnceProofs` |
| `KvServiceStreamProofs` | the stream log | extends `KvServiceReplyProofs` |
| `Codec` | the byte formats of operations, stores, log records and snapshots, with a byte of `Base` values | |
| `RespReader` | `read_command` of `resp.rs`, one byte at a time | |
| `Wire` | one RESP connection from its bytes to the files and back | extends `Codec`, `RespReader` |
| `Cluster` | `run_cluster` and `run_cluster_with_crash` | extends `KvStore` |
| `ClusterProofs` | agreement, completeness and success of timely runs, the recovered victim, types | extends `Cluster` |
| `DetSched` | the pthread wrappers of `detsched.c` | |
| `DetSchedProofs` | types, and that turns exclude each other | extends `DetSched` |
| `DetSchedOrderProofs` | that two runs have the same order | extends `DetSchedProofs` |
| `Linearizability` | `is_linearizable`, and the definition it decides | |
| `Drivers` | `ob_jepsen`, `ob_app_jepsen`, `ob_lincheck`, a recorded session, capture and `ob_replay` | extends `Linearizability` |
| `MCEngine`, `MCKvService`, `MCWire`, `MCCluster`, `MCDetSched`, `MCDrivers` | the instances TLC checks | |

A definition called a mutant in its comment is a wrong version of the one that
follows it. None is used by a specification; each shows that a property notices
the corresponding mistake in the code.

### Engine

The engine is generic in a deterministic state machine. Its state is therefore
the sequence of records applied to it: two engines agree for every state machine
exactly when those sequences agree. `eng` holds what a snapshot holds (`state`,
`applied`, `last_ts`); `log` and `snap` are the two files.

| code | actions |
|---|---|
| `recover`, and `create` on an empty directory | `Recover`, `ReplayRecord`, `ReplayTornTail`, `ReplayTornInside`, `FinishRecover` |
| `deliver` | `DeliverDuplicate`, or `DeliverFresh`, `AppendRecord`, (`RenameSnapshot`, `RemoveLog`), `Reply` |
| `import_state` | `ImportState`, `RenameSnapshot`, `RemoveLog`, `Reply` |
| crash or I/O error | `Stop`, `StopTearingAppend` |

Callers are part of the model. A client moves on to a higher sequence number
only after an answer, and may repeat an old operation at any time. Timestamps
are never before `last_ts`: the service's clock starts there (`TimestampsStrict`
of `KvService` shows the clock does its part). A peer whose state is imported has
delivered the same operations or one more. `create` on a directory that already
holds a store is left out: the service calls it only when neither file exists.

A crash is the death of the process. What was handed to the operating system
stays; the loss of unsynced bytes at a power failure is in `Wire`. `CanTear`
chooses whether a write to the log can be cut short. Bytes behind a torn record
are read as the code reads them: the length field swallows a run of them, and
what the mixture decodes to is a free choice. `misread` records that a recovery
has come upon such bytes; what the engine promises is claimed up to there, and
finding 1 is what happens next. `CallsOnMisread` is a bound: with `FALSE`, no new
operation is delivered to an engine that misread its log.

### KvService and the front ends

`KvService` uses the engine by its promise: a delivery takes effect durably and
at once, or is suppressed as a duplicate, or fails with or without a durable
effect, after which the executor thread is gone. Each protocol is an operator
that maps the outputs received so far in a command to the next operation or the
reply (`RespStep`, `HttpStep`, `MemcacheStep`, `TxnStep`, `StreamStep`), so
that operations of several connections interleave inside commands. A reply is
reduced to whether it reports the command as done, and the number it carries.
Values are numbers or texts, which is what `INCR` tells apart.

| code | actions |
|---|---|
| `start`, `KvService::start` | `Start`, `StartWithoutExecutor` |
| executor thread | `ExecuteLen`, `ExecuteFresh`, `ExecuteDuplicate`, `ExecuteFails`, `ExecutorEnds` |
| accept thread | `Accept`, `AcceptBreaks`, `AcceptFails`, `AcceptEnds` |
| `serve_conn` | `ReadCommand`, `Continue`, `Disconnect`, `ReadTimeout` |
| `ServerHandle::stop`, a crash | `Stop`, `StopReturns`, `Crash` |

### Wire

Fields have the code's widths in bytes and a byte has five values, so a key can
outgrow its two-byte length (25 bytes) within reach of TLC. The connection reads
its input one token at a time (a number and CR LF are one token each), and a read
timeout or the end of input may come between any two. A `SET` becomes a log record
or part of a snapshot, another caller contributes the other kinds of operation,
and recovery decodes a log or a snapshot that was cut at any byte.

| code | definitions |
|---|---|
| `Op::encode`, `decode`, `KvStore::snapshot`, `restore`, `Reader` | `encode`, `decode`, the snapshot operators and `bytes`, `uint`, `string` of `Codec` |
| `append`, `read_log`, `encode_snapshot`, `load_snapshot` | `Record`, `read_log`, `encode_snapshot`, `load_snapshot` |
| `read_command`, `serve_conn` | `Feed`, `AtEnd`, `Serve`, `Read`, `EndOfInput`, `ReadTimeout` |
| `deliver`, `recover` | `Deliver`, `Recover`; `Kill`, `LoseLog`, `LoseSnapshot` come between |

### Cluster

The fabric (`ReliableHost`, another crate) is external and is modelled from its
use: it puts all messages in one order, each client's in the order of sending,
releases a position once every node that it has not excised polls, and hands
what is released to every polling replica, perhaps more than once. A message
that reached one replica reaches all: losses are the fabric's business. An
engine is the sequence of operations in effect on it (`state`), which is what
module `Engine` shows recovery to rebuild, and the map they made (`store`, with
`KvStore::apply`). The `victim` stops after `crash_after` operations, recovers,
and imports a survivor's state (`ReportCrash`). A victim is never the only replica:
`run_cluster_with_crash` expects "at least one survivor" and panics without one. A
replica's thread may end with an error before its first message (`Engine::create`)
or at any message. The reports compare the numeric
entries of the stores with `expected_state`, as the code does.

### Drivers

One module holds the programs because they share clients, server and kill. The
server executes one request at a time; what it read is in the durable record (the
engine's log, or the capture file) before it is answered. `Kill` may find a
request being read, with its record missing or cut and its arrival time already
on disk. `ob_replay` has one thread per connection, which writes the whole stream
at once; the server takes any number of its requests per read. `ReplayGivesUp` is
the 25 ms after which a thread stops waiting, and `ReplayFails` the end of the whole
program when a thread could not connect or write. `ob_app_jepsen` then goes on to its
checks, `onebarrier recover` (`Recovered`) leaves the server running and waits for it;
that wait is not part of a behaviour. A write to a socket never blocks. What the drivers print is given by
the state functions `lost`, `torn_values` and `lin`. Readiness probes are left out.

### DetSched

A program gives each thread its sequence of pthread calls. Every access of a
wrapper to the shared slots and every real pthread call is a step of its own, so
a scan of `await_turn` runs while others advance, leave and come back. A
behaviour is two runs of one program, one after the other, which makes
"identical on every run" an invariant: the acquisitions of the second run are
always a prefix of those of the first. A condition wait may return without a signal,
as often as `MaxClock` allows. Which creations fail is part of the program; the
slot of a thread that was not created stays active at clock 0. What a load beyond the slot table returns
is a free choice.

## Runs

| run | instance | shows |
|---|---|---|
| `engine` | two clients with two operations each, two timestamps, two crashes or errors, torn writes, a snapshot every two operations, no new operation once a log was misread | `RecoveryInv`, `ServesDurableOrder`, `AckedRecoverable`, `ExactlyOnce`, `TimestampsIncrease`, `ReplayBounded`, `EventuallyReady`, `ImplementsService` |
| `engine_torn_loss` | one client, one operation | violates `AckedServed` (finding 1) |
| `detsched` | main and three threads, 27 combinations of bodies and a condition handshake, no spin bound; three programs that strict turns would block, with spin bound 2: a join while holding a lock, the same with more threads than slots, and a thread that could not be created | `Deterministic`, `OneTurn`, `Finishes` |
| `detsched_return` | three threads; a lock after a join or a wait, or a thread created late | violates `Deterministic` (finding 2) |
| `detsched_holding` | three threads, no spin bound | violates `Finishes` (finding 3) |
| `server` | two connections and one crash, stop or accept error; Memcached, transactions and stream log with three commands, RESP and HTTP with two commands and an engine error | `SuppressesOnlyRepeats`, `TimestampsStrict`, `PublicationsKept`, `SubscribersComplete`, `TransactionsHidden`, `AckedWritesDurable`, `ImplementsService`, `EventuallyAnswered`, `EventuallyStopped` |
| `server_del` | RESP, a `DEL` of two keys | violates `SuppressesOnlyRepeats` (finding 4) |
| `server_blind` | Memcached, transactions, stream log with an engine error | violates `AckedWritesDurable` (finding 5) |
| `wire` | two commands of six forms, one read timeout, one operation of seven other forms by another caller, a snapshot every two operations, a cut at any byte | `ExecutesWhatWasSent`, `RecoversWholeRecords` |
| `wire_long_key` | the same | violates `KilledRecovers` (finding 6) |
| `cluster` | two replicas, two clients with two operations on two keys; no victim or either replica; one redelivery, engine error or missed time limit | `Agreement`, `ReportsSuccess`, `VictimNeverOvercounts`, `TakesNothingBack`, `EventuallyReported` |
| `drivers` | two clients with up to four operations, one kill, one read timeout, up to two threads of `ob_replay` that give up or fail; the checker on all 13,824 histories of three operations | `VerdictSound`, `AckedSurvive`, `LinearizableReported`, `ReplayKeepsStreams`, `TimesReplayed`, `EventuallyDone` |

The runs `engine`, `detsched`, `server`, `cluster` and `drivers` also check the
type invariant of their module.

What the properties of `wire`, `cluster` and `drivers` say. `ExecutesWhatWasSent`: what a connection executes
is an initial part of what was sent, argument by argument, unless a timeout or the
end of input falls inside a command. `RecoversWholeRecords`: recovery restores the
engine as it was after the last record that is wholly on disk, for keys that fit
their length field. `KilledRecovers` says the same of a server that was killed, for
all keys. `Agreement`: every replica holds an initial part of one order.
`ReportsSuccess`: a run within its time limit and without an engine error reports
convergence and the right sums. `VerdictSound`: the checker, memo included,
decides the definition of linearizability. `AckedSurvive`: no acknowledged write
is torn, and none is lost by the kill but those of a connection that `ob_replay`
gave up or could not replay.
`LinearizableReported`: against a sequential server the register's history,
completed by the writes the driver did not record, is found linearizable, unless
the replay left another write last.
`ReplayKeepsStreams`: a replay never reorders, drops or invents a connection's
requests. `TimesReplayed`: requests read one by one in the captured order are read
at their captured times.

Why the bounds suffice. Snapshots every two operations with two stops reach
every combination of a covered log, an uncovered suffix and a second crash during
the recovery from a first; the proofs remove the bounds for the engine. Two
connections and one restart are the least in which an identity can be reused or
a publication interrupted; three commands let a publication, another one and a
subscription meet. `server` deletes one key per `DEL`, perhaps named twice:
finding 4 is what happens with two. Three worker threads are the least in which
one waits while two others contend. In `wire` the key lengths are those at which
the field is just full and just exceeded, and two operations are on either side of
a snapshot. In `cluster` one fault can meet any state, and the proofs remove the
bounds for all its safety properties. In `drivers` two clients write and read one register on both
sides of each other's calls, and `REG_CAP` is reached in one setup.
Three operations on two values are the least in which a read can contradict two
writes, and the memo is hit. In `server` deadlock is not checked: a server whose
clients have used up the bounded commands rightly waits.

Fairness. The engine's thread, the scheduler's threads and the server's threads
are scheduled by the operating system: weak fairness of their steps. Crashes,
errors, callers and clients owe nothing. For `KvService` it is further assumed
that a read with nothing to read times out (`setup_stream` sets 500 ms) and
that a client takes the reply it is owed, since streams have no write timeout.
`EventuallyStopped` is about clients that fall silent: a behaviour has finitely
many commands, and a client that keeps sending within every 500 ms keeps
`stop` waiting. In `Cluster` the fabric, every client, every replica and the
driver make progress; redeliveries and errors owe nothing. In `Drivers` some
process always runs (`WF_vars(Next)`), which is enough because every step brings
a run nearer to its end: attempts, operations and the reads of `ob_jepsen` and
`ob_replay` are bounded. The reads of `ob_app_jepsen` and `ob_lincheck`, and the
`write_all` of `ob_replay`, have no timeout: `EventuallyDone` rests on a server
that, as long as it is up, goes on reading and answering.

## What is proved

All theorems are for every value of the constants: any number of clients,
connections, threads, replicas, operations, stops and engine errors. The named
assumptions of the modules say little more than that numeric constants are
naturals; TLC evaluates them in the runs. Where a theorem needs more, the table
says so.

| theorem | states | needs |
|---|---|---|
| `EngineProofs` `TypeCorrect` | `[]TypeOK` | |
| `AppliedExactlyOnce` | `[]ExactlyOnce`, also behind misread logs | |
| `RecoveryInvariant` | `[]RecoveryInv` | |
| `StateIsDurableOrder` | `[]ServesDurableOrder` | |
| `OrderIsTimestamped` | `[]TimestampsIncrease` | |
| `ReplaysBounded` | `[]ReplayBounded` | |
| `AckedIsDurable` | `[]AckedRecoverable` | |
| `EngineImplementsService` | `ImplementsService`: every step is one of `ExactlyOnceService`, up to the first misread log | |
| `WholeWritesImplementService` | the specification of `ExactlyOnceService` | `CanTear = FALSE` |
| `KvServiceProofs` `TimestampsGrow` | `[]TimestampsStrict` | |
| `KvServiceOnceProofs` `ServesOnce` | `[]OnceInv` | |
| `ServerTypes` | `[]TypeOK` | |
| `SuppressesRepeats` | `[]SuppressesOnlyRepeats` | `LoneKeys` |
| `ServerImplementsService` | `ImplementsService` | `LoneKeys` |
| `KvServiceReplyProofs` `AcknowledgedDurable` | `[]AckedWritesDurable` wherever `SeqPerCommand \/ fails = 0` | |
| `TransactionsStayHidden` | `[]TransactionsHidden` | |
| `KvServiceStreamProofs` `MessagesStay` | `[]PublicationsKept` wherever `Len(hist) <= IntMax` | |
| `SubscribersServed` | `[]SubscribersComplete` wherever `Len(hist) <= IntMax` | |
| `ClusterProofs` `ReplicasAgree` | `[]Agreement` | |
| `RunsComplete` | `[]Completed`: a timely run, once compared, has all operations on every replica | |
| `NothingTakenBack` | `TakesNothingBack` | |
| `VictimWithin` | `[]VictimNeverOvercounts` | `total_ops <= IntMax` |
| `TimelyRunsSucceed` | `[]ReportsSuccess` | the same, `clients > 0`, `keys <= ops_per_client` |
| `ClusterTypes` | `[]TypeOK` | |
| `DetSchedProofs` `TypeCorrect` | `[]TypeOK` | |
| `ExclusiveTurns` | `[]OneTurn` for programs of `CreatedFirst` | |
| `DetSchedOrderProofs` `SameOrder` | `[]Deterministic` for programs of `Sectioned` | |

What the conditions mean. `CanTear = FALSE`: log writes are whole; finding 1 is
what happens otherwise. `LoneKeys`: no `DEL` names two different keys; finding 4.
`SeqPerCommand` holds of RESP and HTTP, which look at the executor's results; for
the others `AcknowledgedDurable` claims nothing after an engine error; finding 5.
`Len(hist) <= IntMax` and `total_ops <= IntMax`: the sums and offsets fit an
`i64`. `clients > 0` and `keys <= ops_per_client`: every key gets an operation.
`expected_state` lists all keys, so a run of the code with more keys than
operations per client reports `correct = false` although nothing is wrong.
`CreatedFirst`: only main creates threads, each once, without failing and before its
first lock, and no thread takes a lock after a wait or a join; `Sectioned` adds that the nesting
depth and the number of critical sections before each call can be computed from
the program (`Measures`). Finding 2 is what happens outside. The assumption `OrderedAreSectioned` of `MCDetSched` has TLC confirm that
the ordered programs of run `detsched` are of this kind.

None of these properties is inductive.

**Engine.** `ServesDurableOrder` speaks of a serving engine, while the danger lies
in the recovery before it. `IInv` describes disk and memory at every point where
the engine can stop: the snapshot is a prefix of the durable order; the log is
some `stale` records the snapshot already covers, followed by the rest of the
order, perhaps with a torn tail (`DiskInv`); during recovery the engine has
rebuilt exactly what the snapshot and the log records before `pos` hold
(`ReplayInv`); in service it is at most one record ahead of the disk
(`ServeInv`); the high-water marks cover the state and are attained by it
(`Marked`, `Attained`), which is why a stale record is always suppressed and a
fresh one never is. Everything but types and marks is claimed only until a
recovery reads past a torn record (`misread`). `RecoveryInv` adds `LagInv`: the
durable order exceeds the snapshot by at most `ops_since_snap` and one interval
for every stop, because a stop forgets a count that is below the interval. A
recovery rebuilds a prefix of the order, so it replays no more than that. Answered
operations are in the order, and the order is what the snapshot and the complete
records of a readable log hold: that is `AckedRecoverable`. With whole writes no log
is ever misread (`WInv`). TLC checks `RecoveryInv` in `engine`.

**Server.** `TimestampsStrict` follows from two facts: `last_ts` is at least every
timestamp in effect, and the next timestamp of a running executor is above
`last_ts`, which `Start` establishes and every job maintains. This is the
assumption `Engine` makes of its caller. `OnceInv` says who may be mistaken for
whom: the queue holds the connections that wait, each once (`Queued`); the
engine's marks cover the operations in effect, each once (`Marked`); ids not yet
given out are unknown to the engine, and it has seen a connection's current number
only with an earlier operation of the same command (`Recognises`); a write with an
output is in effect (`Answered`). Over it, `Outlives` (without an engine error the executor
outlives its callers) and `AckInv` give `AckedWritesDurable`; `HidInv` gives
`TransactionsHidden` (every command writes a value of its own, and the values
queued in a transaction are in no store and no other connection); `StreamInv`
gives the two properties of the stream log (a `PUB`'s offset is within its topic
and no one else's, from the `INCR` on, and a `SUB` finds what was acknowledged
before it asked as far as it has read). `Cases` reduces the server's actions to
five kinds of step, so each of these invariants is proved once per kind.

A transaction's writes are one operator, `WriteAll`, where the code loops over
them. A fold would put the proofs out of reach; the assumption `WriteAllIsLoop` of
`MCKvService` has TLC confirm that the two agree on stores of two keys and up to
three writes.

**Cluster.** `Agreement` needs to know why a redelivered operation is always
suppressed and a new one never: each client's operations are in the order with
numbers counting up (`Sequenced`), and a replica in service holds exactly the
first `pos` messages (`UpToDate`). A timely replica that left its loop has
everything, since `applied` never counts a suppressed delivery (`EInv`). The sums
need counting: `Tallied` says that a store maps each key to the number of
operations on it in `state`, and lemmas on injections bound that number by what
the clients send, with equality when all is there. For the types, `done` and the
replicas still in their loops are together no more than the replicas (`DoneOnce`).

**Scheduler.** A thread past its scan is ahead of every contender it compared
itself with, because clocks only grow and a contender cannot fall back
(`TurnInv`: `ScanTurn`, `HoldTurn`, `Counted`). For
`SameOrder`, the clock and depth a thread has at each of its calls are functions
of the program (`Measured`), so sections are entered in the order of (clock, slot)
pairs (`Earlier`). A finished first run lists all sections in that order, and the
second can only list the same ones in the same order (`Follows`).

Only model-checked:

- all liveness, since fairness and `ENABLED` are out of the prover's reach;
- `Wire`: its two properties are about what recursive formats and a byte-wise
  reader compute for every input, which takes induction over data;
- `Drivers` with the linearizability search: the search is a recursive operator,
  and the prover takes no module that reaches one.

## Findings

1. A torn log record is skipped by recovery but never cut off, and the next
   record is appended behind it. The recovery after that reads the torn record's
   length, swallows the acknowledged record and loses it. `durable.rs` promises
   recovery "regardless of where the crash lands".
2. A thread that comes back from a join or a condition wait, or that is created
   late, takes part with a clock behind the others, at a moment the operating
   system chooses. Its place in the order is then a matter of timing, against
   `detsched.c`'s "identical on every run".
3. A thread with its turn can block on a lock whose holder waits, in a join, for
   a thread that needs a turn. With the strict setting nothing moves again; the
   default spin bound resolves it (the spin-bounded programs of `detsched`).
4. All deletions of one RESP `DEL` share a sequence number, so the engine
   suppresses all but the first.
5. The Memcached, transaction and stream-log front ends ignore the result of
   `apply` and report success when the executor is gone.
6. A key of more than 65535 bytes is logged whole behind a length of 65535, so its
   record decodes to another operation or to none. The write is acknowledged, and
   a killed server does not recover it; the same happens to a snapshot with such a
   key. `server.rs` says that writes are durable and the service "recovers on
   restart".

Smaller disagreements, and limits the models show, that have no run of their own:

- `http.rs` documents `?by=N` for `POST /incr/`; `route` drops the query and always
  adds 1.
- `cluster.rs` says nodes stay alive "until everyone is done", while the first
  replica to finish sets the flag on which clients leave. The runs
  succeed all the same, with a drain of any length, because the fabric excises
  nodes that left.
- A read timeout inside a command, a "benign timeout" in `server.rs`, loses the
  part that was read: the rest is then read as a command of its own (`broken` in
  `Wire`).
- A snapshot cut within the last bytes of a high-water mark may pass for a complete
  one with an empty state (`WithinMark`). The rename after a write
  makes this a matter of power loss only.
- `ob_replay` replays connections in parallel. When two of them wrote the same key,
  the write that is last under replay may be another than in the captured run: the
  recovery then does not rebuild the state that was lost, and a client can read a
  value older than one it has read before. `ob_app_jepsen` reports such a run as a
  violation, rightly.
- A register write in flight at the kill, or past `REG_CAP`, is not in the history of
  `ob_app_jepsen`: a server that recovered correctly can then be reported as a
  violation.
- `ob_jepsen` takes the end of a connection for a reply, so an operation in flight
  at the kill may be counted neither as acknowledged nor as unknown.
- `ob_replay` may stop waiting while the server is still working, and what it did
  not wait for may be missing at the check. If one of its threads fails it stops the
  others too, and `ob_app_jepsen` checks what is there all the same.
- A thread whose creation fails leaves its slot active at clock 0 (`CreateThread`):
  every thread that has taken a lock waits for it, until its spin bound.
- Several requests of a stream may be read at once under replay. They then
  share one recorded arrival time, later ones get times other than recorded, and
  once the recorded times are used up virtual time stands still.

## Not modelled

- `rngdet.c`: it answers one system call at a time from a seeded generator whose
  state is a counter; the rest is the kernel's notification interface.
- `sim.rs`, `recovery.rs`, `bench.rs` and the benchmark programs: closed formulas,
  timers and tables, with no protocol state of their own.
- In `obpreload.c`, the recording of time and random results (`rr_*`) and the file
  of tick checkpoints: they copy values of the operating system to a file and
  back. Capture, arrival times and their replay are in `Drivers`.
- The line-based readers of the Memcached, HTTP, transaction and stream-log front
  ends. `FrontEnds` has their commands from the parsed form on; a Memcached `get`
  names one key and `SUB` starts at offset 1.
- Argument parsing, printing and rendering of replies.
- `i64` overflow in a build with overflow checks, where the addition panics;
  `KvStore` wraps, as the release build does, and no run reaches the limit.
