-------------------------------- MODULE Cluster --------------------------------
(***************************************************************************)
(* run_cluster and run_cluster_with_crash of crates/onebarrier/src/        *)
(* cluster.rs: clients scatter INCR operations over the ordering fabric,   *)
(* every replica applies what it is handed through an engine of its own,   *)
(* and the driver compares the states.  With a victim, one replica stops   *)
(* on the way, recovers from its directory and takes over a peer's state.  *)
(*                                                                         *)
(* The fabric (ReliableHost) is external.  It puts all messages in one     *)
(* order, each client's in the order of sending, and hands that order to   *)
(* every replica that polls, a message perhaps more than once.  A position *)
(* is released when every node beacons; one that no longer polls holds the *)
(* others up until the fabric excises it.                                  *)
(*                                                                         *)
(* An engine is the sequence of operations that took effect on it (module  *)
(* Engine shows that recovery rebuilds exactly that).                      *)
(***************************************************************************)
EXTENDS KvStore, SequencesExt, FiniteSets

CONSTANTS replicas, clients, \* how many of each
          ops_per_client, keys,
          crash_after,
          MaxFaults          \* bound: messages handed out again, engine errors, a late run

ASSUME ClusterAssumption ==
  /\ replicas \in Nat \ {0} /\ clients \in Nat /\ keys \in Nat \ {0}
  /\ ops_per_client \in Nat /\ crash_after \in Nat
  /\ MaxFaults \in Nat \ {0}

Replicas == 0..(replicas - 1)
Clients == replicas..(replicas + clients - 1)
Nodes == Replicas \cup Clients
NoVictim == -1

total_ops == ops_per_client * clients

\* Operation i of client c adds 1 to one of the keys in turn.
client_op(c, i) == [client |-> c, seq |-> i, kind |-> Incr((i - 1) % keys, 1)]

VARIABLES
  victim,   \* the replica that is to crash, or NoVictim
  timely,   \* whether the run stays within cfg.timeout
  order,    \* the fabric's order of messages
  barrier,  \* how much of it is released
  excised,  \* the nodes the fabric no longer waits for
  pos,      \* per replica: how much of the order has been handed over
  state,    \* per replica: the operations in effect, in memory and on disk
  store,    \* per replica: the map they made
  applied,  \* per replica: the operations counted towards the total
  sent,     \* per client: operations sent
  pc,       \* per node: "run", "drain", or how its thread ended: "gone", "failed"
  done,     \* replicas that reported all operations applied
  crashed,  \* whether the victim stopped where it was told to
  report, faults

fabric == <<order, barrier, excised>>
engines == <<pos, state, store, applied>>
threads == <<sent, pc, done, crashed>>
vars == <<victim, timely, fabric, engines, threads, report, faults>>

\* run_cluster_with_crash expects at least one survivor.
Victims == IF replicas > 1 THEN Replicas ELSE {}

Init ==
  /\ victim \in Victims \cup {NoVictim}
  /\ timely \in BOOLEAN
  /\ order = << >> /\ barrier = 0 /\ excised = {}
  /\ pos = [r \in Replicas |-> 0]
  /\ state = [r \in Replicas |-> << >>]
  /\ store = [r \in Replicas |-> EmptyMap]
  /\ applied = [r \in Replicas |-> 0]
  /\ sent = [c \in Clients |-> 0]
  /\ pc = [n \in Nodes |-> "run"]
  /\ done = 0 /\ crashed = FALSE
  /\ report = [tag |-> "none"] /\ faults = IF timely THEN 0 ELSE 1

Polls(n) == pc[n] \in {"run", "drain"}

-----------------------------------------------------------------------------
(* The fabric *)

Release ==
  /\ barrier < Len(order)
  /\ \A n \in Nodes : Polls(n) \/ n \in excised
  /\ barrier' = Len(order)
  /\ UNCHANGED <<victim, timely, order, excised, engines, threads, report, faults>>

\* failure_timeout after a node stopped polling; it matters only to what waits.
Excise(n) ==
  /\ barrier < Len(order) /\ ~Polls(n) /\ n \notin excised
  /\ excised' = excised \cup {n}
  /\ UNCHANGED <<victim, timely, order, barrier, engines, threads, report, faults>>

-----------------------------------------------------------------------------
(* A client: send everything, then keep beaconing *)

Send(c) ==
  /\ pc[c] = "run" /\ sent[c] < ops_per_client
  /\ order' = Append(order, client_op(c, sent[c] + 1))
  /\ sent' = [sent EXCEPT ![c] = @ + 1]
  /\ UNCHANGED <<victim, timely, barrier, excised, engines, pc, done, crashed, report,
                 faults>>

\* The flag of run_cluster, n_survivors of run_cluster_with_crash.
\* Mutant: the victim is waited for as well.
AwaitedAll == IF victim = NoVictim THEN 1 ELSE replicas

Awaited == IF victim = NoVictim THEN 1 ELSE replicas - 1

ClientLeaves(c) ==
  /\ pc[c] = "run" /\ sent[c] = ops_per_client
  /\ done >= Awaited \/ ~timely
  /\ pc' = [pc EXCEPT ![c] = "gone"]
  /\ UNCHANGED <<victim, timely, fabric, engines, sent, done, crashed, report, faults>>

-----------------------------------------------------------------------------
(* A replica: poll, deliver what it returned, then test how far it got.    *)

\* Engine::deliver: operations up to the client's high-water mark are suppressed.
Duplicate(r, op) ==
  \E i \in DOMAIN state[r] : state[r][i].client = op.client /\ state[r][i].seq >= op.seq

\* deliver of an operation that is no duplicate.
Applied(r, op) ==
  /\ state' = [state EXCEPT ![r] = Append(@, op)]
  /\ store' = [store EXCEPT ![r] = Apply(@, op.kind).map]

\* Mutant: suppressed deliveries are counted too.
TakeCounting(r, op) ==
  /\ IF Duplicate(r, op) THEN UNCHANGED <<state, store>> ELSE Applied(r, op)
  /\ applied' = [applied EXCEPT ![r] = @ + 1]

\* Mutant: the engine applies what it is handed.
TakeBlindly(r, op) ==
  /\ Applied(r, op)
  /\ applied' = IF pc[r] = "drain" THEN applied ELSE [applied EXCEPT ![r] = @ + 1]

Take(r, op) ==
  IF Duplicate(r, op)
    THEN UNCHANGED <<state, store, applied>>
    ELSE /\ Applied(r, op)
         /\ applied' = IF pc[r] = "drain" THEN applied ELSE [applied EXCEPT ![r] = @ + 1]

Deliver(r) ==
  /\ Polls(r) /\ pos[r] < barrier
  /\ Take(r, order[pos[r] + 1])
  /\ pos' = [pos EXCEPT ![r] = @ + 1]
  /\ UNCHANGED <<victim, timely, fabric, threads, report, faults>>

DeliverAgain(r) ==
  /\ Polls(r)
  /\ \E i \in 1..pos[r] : Take(r, order[i])
  /\ faults < MaxFaults /\ faults' = faults + 1
  /\ UNCHANGED <<victim, timely, fabric, pos, threads, report>>

\* deliver(..)? returns an error, or create(..)? did before anything was delivered,
\* and with it the replica's thread.
DeliverFails(r) ==
  /\ \/ Polls(r) /\ pos[r] < barrier
     \/ pc[r] = "run" /\ pos[r] = 0
  /\ faults < MaxFaults /\ faults' = faults + 1
  /\ pc' = [pc EXCEPT ![r] = "failed"]
  /\ UNCHANGED <<victim, timely, fabric, engines, sent, done, crashed, report>>

Finished(r) == r # victim /\ applied[r] >= total_ops

Crashing(r) == r = victim /\ applied[r] >= crash_after

Finish(r) ==
  /\ pc[r] = "run" /\ Finished(r)
  /\ done' = done + 1
  /\ pc' = [pc EXCEPT ![r] = "drain"]
  /\ UNCHANGED <<victim, timely, fabric, engines, sent, crashed, report, faults>>

Crash(r) ==
  /\ pc[r] = "run" /\ Crashing(r)
  /\ crashed' = TRUE
  /\ pc' = [pc EXCEPT ![r] = "gone"]
  /\ UNCHANGED <<victim, timely, fabric, engines, sent, done, report, faults>>

\* The time limit; only run_cluster drains on it.
Timeout(r) ==
  /\ ~timely /\ pc[r] = "run" /\ ~Finished(r) /\ ~Crashing(r)
  /\ pc' = [pc EXCEPT ![r] = IF victim = NoVictim THEN "drain" ELSE "gone"]
  /\ UNCHANGED <<victim, timely, fabric, engines, sent, done, crashed, report, faults>>

DrainOver(r) ==
  /\ pc[r] = "drain"
  /\ pc' = [pc EXCEPT ![r] = "gone"]
  /\ UNCHANGED <<victim, timely, fabric, engines, sent, done, crashed, report, faults>>

-----------------------------------------------------------------------------
(* The driver joins all threads and compares *)

\* The integer view of a store.
Entries(m) == [k \in {x \in DOMAIN m : m[x].num} |-> m[k].n]

expected_state ==
  [k \in 0..(keys - 1) |->
     clients * Cardinality({i \in 1..ops_per_client : (i - 1) % keys = k})]

Joined == report.tag = "none" /\ \A n \in Nodes : ~Polls(n)

Report ==
  /\ Joined /\ victim = NoVictim /\ \A r \in Replicas : pc[r] = "gone"
  /\ report' = [tag |-> "cluster",
                converged |-> \A r \in Replicas \ {0} : Entries(store[r - 1]) = Entries(store[r]),
                correct |-> \A r \in Replicas : Entries(store[r]) = expected_state]
  /\ UNCHANGED <<victim, timely, fabric, engines, threads, faults>>

\* Mutant: the state is taken from the replica with the highest number.
SurvivorLast == CHOOSE r \in Replicas : \A q \in Replicas : q <= r

\* The first replica that did not crash; that may be a victim out of time.
Survivor == CHOOSE r \in Replicas : /\ ~(r = victim /\ crashed)
                                    /\ \A q \in Replicas : ~(q = victim /\ crashed) => r <= q

\* Each key of the victim's state is expected, with no more than it has.
Within(m, e) == \A k \in DOMAIN m : k \in DOMAIN e /\ m[k] <= e[k]

\* Engine::recover of the victim's directory, then import_state.
ReportCrash ==
  /\ Joined /\ victim # NoVictim /\ \A r \in Replicas : pc[r] = "gone"
  /\ state' = [state EXCEPT ![victim] = state[Survivor]]
  /\ store' = [store EXCEPT ![victim] = store[Survivor]]
  /\ LET survivor_correct == Entries(store[Survivor]) = expected_state
         prefix == IF crashed THEN Entries(store[victim]) ELSE EmptyMap
     IN  report' = [tag |-> "crash",
                    survivor_correct |-> survivor_correct,
                    victim_prefix_consistent |-> Within(prefix, expected_state),
                    recovered_ok |-> /\ Entries(store'[victim]) = Entries(store[Survivor])
                                     /\ survivor_correct]
  /\ UNCHANGED <<victim, timely, fabric, pos, applied, threads, faults>>

\* join()? of a failed thread, threads joined by number; or recover()?, import_state()?
ReportError ==
  /\ report.tag = "none"
  /\ \/ \E r \in Replicas : pc[r] = "failed" /\ \A q \in 0..(r - 1) : ~Polls(q)
     \/ Joined /\ victim # NoVictim /\ faults < MaxFaults
  /\ report' = [tag |-> "error"]
  /\ UNCHANGED <<victim, timely, fabric, engines, threads, faults>>
-----------------------------------------------------------------------------
Fabric == Release \/ \E n \in Nodes : Excise(n)

Client(c) == Send(c) \/ ClientLeaves(c)

Replica(r) == Finish(r) \/ Crash(r) \/ Timeout(r) \/ DrainOver(r)

Driver == Report \/ ReportCrash \/ ReportError

\* A poll that brings nothing, and the end.
Idle == (report.tag # "none" \/ \E n \in Nodes : Polls(n)) /\ UNCHANGED vars

Step ==
  \/ Fabric
  \/ \E c \in Clients : Client(c)
  \/ \E r \in Replicas : Deliver(r) \/ DeliverAgain(r) \/ DeliverFails(r) \/ Replica(r)
  \/ Driver

\* The process ends with the report, an error's included.
Next ==
  \/ Idle
  \/ report.tag = "none" /\ Step

Spec == Init /\ [][Next]_vars

\* Threads are scheduled, a clock reaches the end of a drain and of a time
\* limit, and the fabric releases, excises and hands out messages.
FairSpec ==
  /\ Spec
  /\ WF_vars(Fabric) /\ WF_vars(Driver)
  /\ \A c \in Clients : WF_vars(Client(c))
  /\ \A r \in Replicas : WF_vars(Deliver(r)) /\ WF_vars(Replica(r))
-----------------------------------------------------------------------------
Ops == {client_op(c, i) : c \in Clients, i \in 1..ops_per_client}

Reports ==
  [tag : {"none", "error"}]
    \cup [tag : {"cluster"}, converged : BOOLEAN, correct : BOOLEAN]
    \cup [tag : {"crash"}, survivor_correct : BOOLEAN, victim_prefix_consistent : BOOLEAN,
          recovered_ok : BOOLEAN]

TypeOK ==
  /\ victim \in Victims \cup {NoVictim} /\ timely \in BOOLEAN
  /\ order \in Seq(Ops) /\ barrier \in 0..Len(order) /\ excised \subseteq Nodes
  /\ pos \in [Replicas -> 0..barrier]
  /\ state \in [Replicas -> Seq(Ops)]
  /\ DOMAIN store = Replicas /\ \A r \in Replicas : DOMAIN store[r] \subseteq 0..(keys - 1)
  /\ applied \in [Replicas -> 0..total_ops]
  /\ sent \in [Clients -> 0..ops_per_client]
  /\ pc \in [Nodes -> {"run", "drain", "gone", "failed"}]
  /\ done \in 0..replicas /\ crashed \in BOOLEAN
  /\ report \in Reports
  /\ faults \in 0..MaxFaults

\* Every replica, a recovered one included, holds the effects of an initial part
\* of one order, each operation once and none left out, whatever the fabric hands
\* out again, whoever crashes, fails or runs out of time (eng.deliver in the two
\* replica loops, import_state after a crash).
Agreement ==
  \A r \in Replicas : \A i \in DOMAIN state[r] :
    i \in DOMAIN order /\ state[r][i] = order[i]

\* A run in which no engine failed and no time limit struck reports success: all
\* replicas hold the expected sums, and a crashed one has caught up with a
\* survivor that does (converged, correct and recovered_ok).
ReportsSuccess ==
  timely =>
    /\ report.tag = "cluster" => report.converged /\ report.correct
    /\ report.tag = "crash" => report.recovered_ok

\* The state the crashed replica had when it stopped, which its directory holds too,
\* never exceeds the expected sums, even in a run that is cut short (entries at the
\* crash, victim_prefix, victim_prefix_consistent).
VictimNeverOvercounts == report.tag = "crash" => report.victim_prefix_consistent

\* The state transfer replaces the victim's state by one that contains it: nothing
\* that took effect on a replica is taken back (import_state after recover).
TakesNothingBack ==
  [][timely => \A r \in Replicas : IsPrefix(state[r], state'[r])]_vars

\* Every run ends with a report, and none needs its time limit to do so: no node
\* waits for one that has left (the done flag, survivors_done, the exit tests).
EventuallyReported == <>(report.tag # "none")
=============================================================================
