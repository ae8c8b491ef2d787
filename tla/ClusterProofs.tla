----------------------------- MODULE ClusterProofs -----------------------------
(***************************************************************************)
(* Agreement and catch-up of the replicas of module Cluster for any number *)
(* of replicas, clients, operations and redeliveries.                      *)
(*                                                                         *)
(* Agreement alone is not inductive: that a message handed out for the     *)
(* first time is applied and one handed out again is not depends on the    *)
(* fabric's order having each client's sequence numbers ascending, and on  *)
(* a polling replica holding exactly what it was handed.  That a survivor  *)
(* holds whatever the victim recovers is counting: a replica that leaves   *)
(* in time holds as many operations as the fabric can ever order.          *)
(***************************************************************************)
EXTENDS Cluster, FiniteSetTheorems, TLAPS

Typed ==
  /\ victim \in Victims \cup {NoVictim}
  /\ order \in Seq(Ops) /\ barrier \in 0..Len(order)
  /\ pos \in [Replicas -> 0..barrier]
  /\ state \in [Replicas -> Seq(Ops)]
  /\ sent \in [Clients -> 0..ops_per_client]
  /\ DOMAIN pc = Nodes

\* A client's operations are in the order in which it sent them.
Sequenced ==
  /\ \A i \in DOMAIN order : order[i].seq <= sent[order[i].client]
  /\ \A i, j \in DOMAIN order :
       i < j /\ order[i].client = order[j].client => order[i].seq < order[j].seq

\* A replica that polls holds what it was handed.
UpToDate == \A r \in Replicas : Polls(r) => Len(state[r]) = pos[r]

IInv == Typed /\ Sequenced /\ UpToDate /\ Agreement

\* What the clients send: an operation has its client and its number.
LEMMA OpsTyped ==
  \A op \in Ops : op.client \in Clients /\ op.seq \in Nat /\ op.seq \in 1..ops_per_client
BY ClusterAssumption DEF Ops, client_op, Clients

LEMMA NodesTyped ==
  /\ Replicas \subseteq Nodes /\ Clients \subseteq Nodes
  /\ Replicas \cap Clients = {}
  /\ NoVictim \notin Replicas
BY ClusterAssumption DEF Nodes, Replicas, Clients, NoVictim

\* With a victim there are at least two replicas: the survivor of its crash is
\* another one.
LEMMA SurvivorTyped ==
  victim \in Victims =>
    victim \in Replicas /\ Survivor \in Replicas /\ (crashed => Survivor # victim)
<1> SUFFICES ASSUME victim \in Victims
             PROVE  victim \in Replicas /\ Survivor \in Replicas
                    /\ (crashed => Survivor # victim)
  BY Zenon
<1>0. replicas \in Nat /\ replicas > 1 /\ victim \in Replicas
  BY ClusterAssumption DEF Victims
<1> DEFINE Alive(r) == ~(r = victim /\ crashed)
           w == IF Alive(0) THEN 0 ELSE 1
<1>1. w \in Replicas /\ Alive(w)
  BY <1>0 DEF Replicas
<1>2. \A q \in Replicas : Alive(q) => w <= q
  BY <1>0 DEF Replicas
<1>3. \E r \in Replicas : Alive(r) /\ \A q \in Replicas : Alive(q) => r <= q
  BY <1>1, <1>2, Zenon
<1> QED BY <1>0, <1>3, Zenon DEF Survivor

\* A message handed out in its turn has not been applied.
LEMMA FreshInTurn ==
  ASSUME IInv, NEW r \in Replicas, Polls(r), pos[r] < barrier
  PROVE  ~Duplicate(r, order[pos[r] + 1])
<1> DEFINE p == pos[r] + 1
<1>1. p \in DOMAIN order /\ Len(state[r]) = pos[r]
  BY DEF IInv, Typed, UpToDate
<1>2. SUFFICES ASSUME NEW i \in DOMAIN state[r], state[r][i].client = order[p].client,
                      state[r][i].seq >= order[p].seq
               PROVE  FALSE
  BY Zenon DEF Duplicate
<1>3. i \in DOMAIN order /\ state[r][i] = order[i] /\ i < p
  BY <1>1 DEF IInv, Agreement, Typed
<1>4. order[i].seq < order[p].seq
  BY <1>1, <1>2, <1>3, Zenon DEF IInv, Sequenced
<1>5. order[i].seq \in Nat /\ order[p].seq \in Nat
  BY <1>1, <1>3, OpsTyped DEF IInv, Typed
<1> QED BY <1>2, <1>3, <1>4, <1>5

\* A message handed out again has been applied.
LEMMA DuplicateAgain ==
  ASSUME IInv, NEW r \in Replicas, Polls(r), NEW i \in 1..pos[r]
  PROVE  Duplicate(r, order[i])
<1>1. i \in DOMAIN state[r] /\ i \in DOMAIN order
  BY DEF IInv, Typed, UpToDate
<1>2. state[r][i] = order[i] /\ order[i].seq \in Nat
  BY <1>1, OpsTyped DEF IInv, Agreement, Typed
<1> QED BY <1>1, <1>2 DEF Duplicate

-----------------------------------------------------------------------------
LEMMA InitIInv == Init => IInv
<1> SUFFICES ASSUME Init PROVE IInv
  BY Zenon
<1>1. Typed
  BY ClusterAssumption DEF Init, Typed
<1>2. Sequenced /\ UpToDate /\ Agreement
  BY DEF Init, Sequenced, UpToDate, Agreement
<1> QED BY <1>1, <1>2, Zenon DEF IInv

\* Steps of threads that touch neither the order nor an engine: a replica that
\* polls afterwards polled before.
LEMMA ThreadsOnly ==
  ASSUME IInv, UNCHANGED <<victim, order, barrier, pos, state, sent>>,
         DOMAIN pc' = Nodes, \A r \in Replicas : Polls(r)' => Polls(r)
  PROVE  IInv'
<1>1. Typed'
  BY Zenon DEF IInv, Typed
<1>2. Sequenced'
  BY Zenon DEF IInv, Sequenced
<1>3. UpToDate'
  BY Zenon DEF IInv, UpToDate
<1>4. Agreement'
  BY Zenon DEF IInv, Agreement
<1> QED BY <1>1, <1>2, <1>3, <1>4, Zenon DEF IInv

LEMMA SendIInv ==
  ASSUME IInv, NEW c \in Clients, Send(c)
  PROVE  IInv'
<1> DEFINE op == client_op(c, sent[c] + 1)
           n == Len(order) + 1
<1>1. /\ op \in Ops /\ op.client = c /\ op.seq = sent[c] + 1
      /\ order' = Append(order, op) /\ order \in Seq(Ops)
      /\ sent' = [sent EXCEPT ![c] = @ + 1] /\ sent \in [Clients -> 0..ops_per_client]
      /\ sent[c] + 1 \in 1..ops_per_client
      /\ UNCHANGED <<victim, barrier, pos, state, pc>>
  <2>1. /\ sent[c] + 1 \in 1..ops_per_client /\ sent \in [Clients -> 0..ops_per_client]
        /\ order \in Seq(Ops)
    BY ClusterAssumption DEF Send, IInv, Typed
  <2>2. op \in Ops /\ op.client = c /\ op.seq = sent[c] + 1
    BY <2>1 DEF Ops, client_op
  <2> QED BY <2>1, <2>2, Zenon DEF Send, engines
<1>2. /\ DOMAIN order' = DOMAIN order \cup {n} /\ order'[n] = op /\ n = Len(order')
      /\ \A i \in DOMAIN order : order'[i] = order[i] /\ i < n
      /\ order' \in Seq(Ops)
  BY <1>1
<1>3. Typed'
  BY <1>1, <1>2 DEF IInv, Typed
<1>4. \A i \in DOMAIN order : order[i].client \in Clients /\ order[i].seq \in Nat
  BY <1>1, OpsTyped
<1>5. \A i \in DOMAIN order : order[i].seq <= sent[order[i].client]
  BY Zenon DEF IInv, Sequenced
<1>6. \A i \in DOMAIN order' : order'[i].seq <= sent'[order'[i].client]
  BY <1>1, <1>2, <1>4, <1>5
<1>7. \A i, j \in DOMAIN order' :
        i < j /\ order'[i].client = order'[j].client => order'[i].seq < order'[j].seq
  <2> SUFFICES ASSUME NEW i \in DOMAIN order', NEW j \in DOMAIN order', i < j,
                      order'[i].client = order'[j].client
               PROVE  order'[i].seq < order'[j].seq
    BY Zenon
  <2>1. CASE j \in DOMAIN order
    BY <1>2, <2>1 DEF IInv, Sequenced
  <2>2. CASE j = n
    <3>1. i \in DOMAIN order
      BY <1>2, <2>2
    <3> QED BY <1>1, <1>2, <1>4, <1>5, <2>2, <3>1
  <2> QED BY <1>2, <2>1, <2>2, Zenon
<1>8. UpToDate'
  BY <1>1, Zenon DEF IInv, UpToDate, Polls
<1>9. Agreement'
  BY <1>1, <1>2, Zenon DEF IInv, Agreement
<1> QED BY <1>3, <1>6, <1>7, <1>8, <1>9, Zenon DEF IInv, Sequenced

LEMMA DeliverIInv ==
  ASSUME IInv, NEW r \in Replicas, Deliver(r)
  PROVE  IInv'
<1> DEFINE p == pos[r] + 1
<1>1. /\ Polls(r) /\ pos[r] < barrier
      /\ pos' = [pos EXCEPT ![r] = @ + 1]
      /\ UNCHANGED <<victim, order, barrier, sent, pc>>
  BY Zenon DEF Deliver, fabric, threads
<1>2. state' = [state EXCEPT ![r] = Append(@, order[p])]
  BY <1>1, FreshInTurn, Zenon DEF Deliver, Take, Applied
<1>3. p \in DOMAIN order /\ order[p] \in Ops /\ Len(state[r]) = pos[r] /\ state[r] \in Seq(Ops)
  BY <1>1 DEF IInv, Typed, UpToDate
<1>4. /\ Len(state'[r]) = p /\ state'[r] \in Seq(Ops) /\ state'[r][p] = order[p]
      /\ \A i \in DOMAIN state[r] : state'[r][i] = state[r][i]
      /\ DOMAIN state'[r] = DOMAIN state[r] \cup {p}
  BY <1>2, <1>3 DEF IInv, Typed
<1>5. Typed'
  BY <1>1, <1>2, <1>3, <1>4 DEF IInv, Typed
<1>6. Sequenced'
  BY <1>1, Zenon DEF IInv, Sequenced
<1>7. UpToDate'
  BY <1>1, <1>2, <1>4, Zenon DEF IInv, UpToDate, Polls, Typed
<1>8. Agreement'
  BY <1>1, <1>2, <1>3, <1>4, Zenon DEF IInv, Agreement, Typed
<1> QED BY <1>5, <1>6, <1>7, <1>8, Zenon DEF IInv

LEMMA DeliverAgainIInv ==
  ASSUME IInv, NEW r \in Replicas, DeliverAgain(r)
  PROVE  IInv'
<1>1. UNCHANGED <<victim, order, barrier, pos, state, sent, pc>>
  BY DuplicateAgain, Zenon DEF DeliverAgain, Take, fabric, threads
<1> QED BY <1>1, ThreadsOnly, Zenon DEF IInv, Typed, Polls

LEMMA ReportCrashIInv ==
  ASSUME IInv, ReportCrash
  PROVE  IInv'
<1>1. /\ \A n \in Nodes : ~Polls(n)
      /\ victim \in Replicas /\ Survivor \in Replicas
      /\ state' = [state EXCEPT ![victim] = state[Survivor]]
      /\ UNCHANGED <<victim, order, barrier, pos, sent, pc>>
  BY SurvivorTyped, Zenon DEF ReportCrash, Joined, IInv, Typed, fabric, threads
<1>2. Typed'
  BY <1>1, Zenon DEF IInv, Typed
<1>3. Sequenced'
  BY <1>1, Zenon DEF IInv, Sequenced
<1>4. UpToDate'
  BY <1>1, NodesTyped, Zenon DEF UpToDate, Polls
<1>5. Agreement'
  BY <1>1, Zenon DEF IInv, Agreement, Typed
<1> QED BY <1>2, <1>3, <1>4, <1>5, Zenon DEF IInv

LEMMA ReleaseIInv ==
  ASSUME IInv, Release
  PROVE  IInv'
<1>1. barrier' = Len(order) /\ UNCHANGED <<victim, order, pos, state, sent, pc>>
  BY Zenon DEF Release, engines, threads
<1>2. Typed'
  BY <1>1 DEF IInv, Typed
<1>3. Sequenced' /\ UpToDate' /\ Agreement'
  BY <1>1, Zenon DEF IInv, Sequenced, UpToDate, Agreement, Polls
<1> QED BY <1>2, <1>3, Zenon DEF IInv

\* Every step keeps the invariant: two kinds of step touch an engine, one the
\* order, the others only end threads.
LEMMA NextIInv == IInv /\ [Next]_vars => IInv'
<1> SUFFICES ASSUME IInv, [Next]_vars PROVE IInv'
  BY Zenon
<1> USE NodesTyped
<1>1. CASE UNCHANGED vars
  BY <1>1, ThreadsOnly, Zenon DEF vars, fabric, engines, threads, IInv, Typed, Polls
<1>2. CASE Release
  BY <1>2, ReleaseIInv, Zenon
<1>3. ASSUME NEW n \in Nodes, Excise(n) PROVE IInv'
  BY <1>3, ThreadsOnly, Zenon DEF Excise, engines, threads, IInv, Typed, Polls
<1>4. ASSUME NEW c \in Clients, Send(c) PROVE IInv'
  BY <1>4, SendIInv, Zenon
<1>5. ASSUME NEW c \in Clients, ClientLeaves(c) PROVE IInv'
  BY <1>5, ThreadsOnly, Zenon DEF ClientLeaves, fabric, engines, IInv, Typed, Polls
<1>6. ASSUME NEW r \in Replicas, Deliver(r) PROVE IInv'
  BY <1>6, DeliverIInv, Zenon
<1>7. ASSUME NEW r \in Replicas, DeliverAgain(r) PROVE IInv'
  BY <1>7, DeliverAgainIInv, Zenon
<1>8. ASSUME NEW r \in Replicas, DeliverFails(r) PROVE IInv'
  BY <1>8, ThreadsOnly, Zenon DEF DeliverFails, fabric, engines, IInv, Typed, Polls
<1>9. ASSUME NEW r \in Replicas, Replica(r) PROVE IInv'
  <2>1. CASE Finish(r)
    BY <2>1, ThreadsOnly, Zenon DEF Finish, fabric, engines, IInv, Typed, Polls
  <2>2. CASE Crash(r)
    BY <2>2, ThreadsOnly, Zenon DEF Crash, fabric, engines, IInv, Typed, Polls
  <2>3. CASE Timeout(r)
    BY <2>3, ThreadsOnly, Zenon DEF Timeout, fabric, engines, IInv, Typed, Polls
  <2>4. CASE DrainOver(r)
    BY <2>4, ThreadsOnly, Zenon DEF DrainOver, fabric, engines, IInv, Typed, Polls
  <2> QED BY <1>9, <2>1, <2>2, <2>3, <2>4, Zenon DEF Replica
<1>10. CASE Report \/ ReportError
  BY <1>10, ThreadsOnly, Zenon DEF Report, ReportError, fabric, engines, threads, IInv, Typed, Polls
<1>11. CASE ReportCrash
  BY <1>11, ReportCrashIInv, Zenon
<1> QED
  BY <1>1, <1>2, <1>3, <1>4, <1>5, <1>6, <1>7, <1>8, <1>9, <1>10, <1>11, Zenon
     DEF Next, Step, Fabric, Client, Driver, Idle

\* For every number of replicas, clients, operations and faults: what a replica
\* holds, recovered from its directory and taken over from a peer included, is an
\* initial part of the fabric's one order (the replica loops and the state
\* transfer of cluster.rs).
THEOREM ReplicasAgree == Spec => []Agreement
<1>1. IInv => Agreement
  BY Zenon DEF IInv
<1> QED BY InitIInv, NextIInv, <1>1, PTL DEF Spec

-----------------------------------------------------------------------------
(* The catch-up of the victim.  A survivor of a run within its time holds  *)
(* as many operations as there are, and so the whole order.                *)

\* A replica counts no more than it holds.
Counted ==
  /\ applied \in [Replicas -> Nat]
  /\ \A r \in Replicas : Polls(r) => applied[r] <= Len(state[r])

\* Within the time limit a replica leaves its loop with all operations, or crashed.
Left(r) == pc[r] \in {"drain", "gone"}

Ended ==
  timely => \A r \in Replicas : Left(r) => IF r = victim THEN crashed
                                           ELSE Len(state[r]) >= total_ops

\* A run within its time, once compared, has all operations in every replica.
Completed ==
  timely /\ report.tag \in {"cluster", "crash"} =>
    \A r \in Replicas : state[r] = order /\ Len(state[r]) = total_ops

EInv == Counted /\ Ended /\ Completed

\* A client's operations occur in ascending order.
Ascending(s) ==
  \A i, j \in DOMAIN s : i < j /\ s[i].client = s[j].client => s[i].seq < s[j].seq

\* Where the operations are whose numbers are in K, and which ones those are.
At(s, K) == {i \in DOMAIN s : s[i].seq \in K}
Which(s, K) == [i \in At(s, K) |-> <<s[i].client, s[i].seq>>]

\* No two places have the same operation.
LEMMA WhichInjective ==
  ASSUME NEW s \in Seq(Ops), Ascending(s), NEW K \in SUBSET (1..ops_per_client)
  PROVE  /\ Which(s, K) \in Injection(At(s, K), Clients \X K)
         /\ \A i \in At(s, K) : Which(s, K)[i] = <<s[i].client, s[i].seq>>
<1> DEFINE f == Which(s, K)
<1>1. /\ f \in [At(s, K) -> Clients \X K] /\ DOMAIN f = At(s, K)
      /\ \A i \in At(s, K) : f[i] = <<s[i].client, s[i].seq>>
  <2>1. \A i \in At(s, K) : <<s[i].client, s[i].seq>> \in Clients \X K
    BY OpsTyped DEF At
  <2> QED BY <2>1, Zenon DEF Which
<1> HIDE DEF f
<1>2. ASSUME NEW i \in At(s, K), NEW j \in At(s, K), f[i] = f[j] PROVE i = j
  <2>1. s[i].client = s[j].client /\ s[i].seq = s[j].seq
    BY <1>1, <1>2
  <2>2. i \in Nat /\ j \in Nat /\ i \in DOMAIN s /\ j \in DOMAIN s /\ s[i].seq \in Nat
    BY OpsTyped DEF At
  <2>3. ~(i < j) /\ ~(j < i)
    BY <2>1, <2>2 DEF Ascending
  <2> QED BY <2>2, <2>3
<1>3. IsInjective(f)
  BY <1>1, <1>2, Zenon DEF IsInjective
<1> QED BY <1>1, <1>3, Zenon DEF f, Injection

LEMMA HowMany ==
  ASSUME NEW K \in SUBSET (1..ops_per_client)
  PROVE  /\ IsFiniteSet(K) /\ Cardinality(K) \in Nat
         /\ IsFiniteSet(Clients \X K) /\ Cardinality(Clients \X K) = clients * Cardinality(K)
<1>1. 1 \in Int /\ ops_per_client \in Int /\ clients \in Nat /\ replicas \in Nat
  BY ClusterAssumption
<1>2. IsFiniteSet(K)
  <2>1. IsFiniteSet(1..ops_per_client)
    BY <1>1, FS_Interval, Zenon
  <2> QED BY <2>1, FS_Subset, Zenon
<1>3. IsFiniteSet(Clients) /\ Cardinality(Clients) = clients
  <2> DEFINE b == replicas + clients - 1
  <2>1. replicas \in Int /\ b \in Int
    BY <1>1
  <2>2. /\ IsFiniteSet(replicas..b)
        /\ Cardinality(replicas..b) = IF replicas > b THEN 0 ELSE b - replicas + 1
    BY <2>1, FS_Interval, Zenon
  <2>3. (IF replicas > b THEN 0 ELSE b - replicas + 1) = clients
    BY <1>1
  <2> QED BY <2>2, <2>3 DEF Clients
<1>4. IsFiniteSet(Clients \X K) /\ Cardinality(Clients \X K) = Cardinality(Clients) * Cardinality(K)
  BY <1>2, <1>3, FS_Product, Zenon
<1>5. Cardinality(K) \in Nat
  BY <1>2, FS_CardinalityType, Zenon
<1> QED BY <1>2, <1>3, <1>4, <1>5, Zenon

\* The clients together have no more operations with numbers in K.
LEMMA AtMost ==
  ASSUME NEW s \in Seq(Ops), Ascending(s), NEW K \in SUBSET (1..ops_per_client)
  PROVE  IsFiniteSet(At(s, K)) /\ Cardinality(At(s, K)) <= clients * Cardinality(K)
<1>1. IsFiniteSet(Clients \X K) /\ Cardinality(Clients \X K) = clients * Cardinality(K)
  BY HowMany, Zenon
<1>2. PICK f : f \in Injection(At(s, K), Clients \X K)
  BY WhichInjective, Zenon
<1>3. IsFiniteSet(At(s, K)) /\ Cardinality(At(s, K)) <= Cardinality(Clients \X K)
  BY <1>1, <1>2, FS_Injection, Zenon
<1> QED BY <1>1, <1>3, Zenon

LEMMA Everywhere ==
  ASSUME NEW s \in Seq(Ops)
  PROVE  At(s, 1..ops_per_client) = 1..Len(s) /\ Cardinality(At(s, 1..ops_per_client)) = Len(s)
<1>1. At(s, 1..ops_per_client) = 1..Len(s)
  BY OpsTyped DEF At
<1>2. Len(s) \in Nat /\ 1 \in Int /\ Len(s) \in Int
  OBVIOUS
<1>3. Cardinality(1..Len(s)) = IF 1 > Len(s) THEN 0 ELSE Len(s) - 1 + 1
  BY <1>2, FS_Interval, Zenon
<1> QED BY <1>1, <1>2, <1>3

LEMMA HowManyInAll ==
  /\ Cardinality(1..ops_per_client) = ops_per_client
  /\ total_ops = clients * Cardinality(1..ops_per_client) /\ total_ops \in Nat
<1>1. 1 \in Int /\ ops_per_client \in Int /\ ops_per_client >= 0 /\ clients \in Nat
  BY ClusterAssumption
<1>2. Cardinality(1..ops_per_client) = IF 1 > ops_per_client THEN 0 ELSE ops_per_client - 1 + 1
  BY <1>1, FS_Interval, Zenon
<1>3. Cardinality(1..ops_per_client) = ops_per_client
  BY <1>1, <1>2
<1> QED BY <1>1, <1>3 DEF total_ops

\* A sequence with as many operations as there are has all of them.
LEMMA AtAll ==
  ASSUME NEW s \in Seq(Ops), Ascending(s), Len(s) = total_ops,
         NEW K \in SUBSET (1..ops_per_client)
  PROVE  Cardinality(At(s, K)) = clients * Cardinality(K)
<1> DEFINE A == 1..ops_per_client
<1>1. /\ Which(s, A) \in Injection(At(s, A), Clients \X A)
      /\ \A i \in At(s, A) : Which(s, A)[i] = <<s[i].client, s[i].seq>>
  BY WhichInjective, Zenon
<1>2. IsFiniteSet(Clients \X A) /\ Cardinality(At(s, A)) = Cardinality(Clients \X A)
  BY HowMany, HowManyInAll, Everywhere, Zenon
<1>3. Which(s, A) \in Surjection(At(s, A), Clients \X A)
  BY <1>1, <1>2, FS_Injection, Zenon
<1>4. \A c \in Clients, n \in K : \E i \in At(s, K) : s[i].client = c /\ s[i].seq = n
  <2> TAKE c \in Clients, n \in K
  <2>1. <<c, n>> \in Clients \X A
    BY Zenon
  <2>2. PICK i \in At(s, A) : Which(s, A)[i] = <<c, n>>
    BY <1>3, <2>1, Zenon DEF Surjection
  <2> QED BY <1>1, <2>2 DEF At
<1>5. /\ Which(s, K) \in Injection(At(s, K), Clients \X K)
      /\ \A i \in At(s, K) : Which(s, K)[i] = <<s[i].client, s[i].seq>>
  BY WhichInjective, Zenon
<1>6. Which(s, K) \in Surjection(At(s, K), Clients \X K)
  <2>1. Which(s, K) \in [At(s, K) -> Clients \X K]
    BY <1>5, Zenon DEF Injection
  <2>2. \A p \in Clients \X K : \E i \in At(s, K) : Which(s, K)[i] = p
    <3> TAKE p \in Clients \X K
    <3>1. p[1] \in Clients /\ p[2] \in K /\ p = <<p[1], p[2]>>
      OBVIOUS
    <3>2. PICK i \in At(s, K) : s[i].client = p[1] /\ s[i].seq = p[2]
      BY <1>4, <3>1, Zenon
    <3>3. Which(s, K)[i] = <<p[1], p[2]>>
      BY <1>5, <3>2, Zenon
    <3> QED BY <3>1, <3>3, Zenon
  <2> QED BY <2>1, <2>2, Zenon DEF Surjection
<1>7. IsFiniteSet(Clients \X K) /\ Cardinality(Clients \X K) = clients * Cardinality(K)
  BY HowMany, Zenon
<1>8. Cardinality(At(s, K)) = Cardinality(Clients \X K)
  BY <1>5, <1>6, <1>7, FS_Injection, Zenon
<1> QED BY <1>7, <1>8, Zenon

\* The fabric orders no more messages than the clients send.
LEMMA OrderBounded ==
  ASSUME IInv
  PROVE  Len(order) <= total_ops /\ Len(order) \in Nat /\ total_ops \in Nat
<1>1. order \in Seq(Ops) /\ Ascending(order)
  BY Zenon DEF IInv, Typed, Sequenced, Ascending
<1>2. Cardinality(At(order, 1..ops_per_client)) <= clients * Cardinality(1..ops_per_client)
  BY <1>1, AtMost, Zenon
<1>3. Len(order) <= total_ops
  BY <1>1, <1>2, Everywhere, HowManyInAll, Zenon
<1> QED BY <1>1, <1>3, HowManyInAll

\* A sequence that agrees with a longer one is a prefix of it, or all of it.
LEMMA Agreeing ==
  ASSUME NEW S, NEW s \in Seq(S), NEW t \in Seq(S), Len(s) <= Len(t),
         \A i \in DOMAIN s : s[i] = t[i]
  PROVE  /\ IsPrefix(s, t)
         /\ Len(s) = Len(t) => s = t
<1>1. Len(s) \in Nat /\ Len(t) \in Nat
  OBVIOUS
<1>2. SubSeq(s, 1, Len(s)) = SubSeq(t, 1, Len(s))
  BY <1>1
<1>3. Len(s) = Len(t) => s = t
  BY <1>1
<1> QED BY <1>2, <1>3, Zenon DEF IsPrefix

\* A replica that left with all operations, or more, has the order and nothing else.
LEMMA HoldsAll ==
  ASSUME IInv, NEW r \in Replicas, Len(state[r]) >= total_ops
  PROVE  state[r] = order /\ Len(state[r]) = total_ops
<1>1. /\ state[r] \in Seq(Ops) /\ order \in Seq(Ops) /\ Len(state[r]) \in Nat
      /\ \A i \in DOMAIN state[r] : i \in DOMAIN order /\ state[r][i] = order[i]
  BY DEF IInv, Typed, Agreement
<1>2. Len(order) <= total_ops /\ Len(order) \in Nat /\ total_ops \in Nat
  BY OrderBounded, Zenon
<1> HIDE DEF total_ops
<1>3. Len(state[r]) <= Len(order)
  BY <1>1, <1>2
<1>4. Len(state[r]) = Len(order) /\ Len(state[r]) = total_ops
  BY <1>1, <1>2, <1>3
<1> QED BY <1>1, <1>4, Agreeing, Zenon

LEMMA InitEInv == Init => EInv
BY NodesTyped DEF Init, EInv, Counted, Ended, Completed, Left

\* Steps before the comparison that neither touch an engine nor end a replica.
LEMMA QuietEInv ==
  ASSUME EInv, report.tag = "none", UNCHANGED <<victim, timely, state, applied, crashed, report>>,
         \A r \in Replicas : pc'[r] = pc[r]
  PROVE  EInv'
<1>1. Counted'
  BY Zenon DEF EInv, Counted, Polls
<1>2. Ended'
  BY Zenon DEF EInv, Ended, Left
<1> QED BY <1>1, <1>2, Zenon DEF EInv, Completed

\* A replica's thread ends, or goes on to drain.
LEMMA LeavingEInv ==
  ASSUME IInv, EInv, report.tag = "none", NEW r \in Replicas,
         DeliverFails(r) \/ Replica(r)
  PROVE  EInv'
<1>1. /\ UNCHANGED <<victim, timely, state, applied, report>>
      /\ crashed => crashed'
      /\ \A q \in Replicas : q # r => pc'[q] = pc[q]
      /\ r \in DOMAIN pc
  BY NodesTyped DEF DeliverFails, Replica, Finish, Crash, Timeout, DrainOver, engines, IInv, Typed
<1>2. Polls(r)
  BY Zenon DEF DeliverFails, Replica, Finish, Crash, Timeout, DrainOver, Polls
<1>3. Counted'
  <2>1. \A q \in Replicas : Polls(q)' => Polls(q)
    BY <1>1, <1>2, Zenon DEF Polls
  <2> QED BY <1>1, <2>1, Zenon DEF EInv, Counted
<1>4. ASSUME timely, Left(r)'
      PROVE  IF r = victim THEN crashed' ELSE Len(state[r]) >= total_ops
  <2>1. CASE DeliverFails(r)
    BY <1>1, <1>4, <2>1, Zenon DEF DeliverFails, Left
  <2>2. CASE Finish(r)
    <3>1. r # victim /\ applied[r] >= total_ops /\ applied[r] <= Len(state[r])
      BY <1>2, <2>2, Zenon DEF Finish, Finished, EInv, Counted
    <3>2. applied[r] \in Nat /\ Len(state[r]) \in Nat /\ total_ops \in Nat
      BY OrderBounded DEF EInv, Counted, IInv, Typed
    <3> QED BY <3>1, <3>2
  <2>3. CASE Crash(r)
    BY <2>3, Zenon DEF Crash, Crashing
  <2>4. CASE Timeout(r)
    BY <1>4, <2>4, Zenon DEF Timeout
  <2>5. CASE DrainOver(r)
    BY <1>1, <1>4, <2>5, Zenon DEF DrainOver, EInv, Ended, Left
  <2> QED BY <2>1, <2>2, <2>3, <2>4, <2>5, Zenon DEF Replica
<1>5. Ended'
  BY <1>1, <1>4, Zenon DEF EInv, Ended, Left
<1> QED BY <1>1, <1>3, <1>5, Zenon DEF EInv, Completed

\* A replica applies what it is handed for the first time, and nothing else.
LEMMA DeliverEInv ==
  ASSUME IInv, EInv, report.tag = "none", NEW r \in Replicas,
         Deliver(r) \/ DeliverAgain(r)
  PROVE  EInv' /\ \A q \in Replicas : IsPrefix(state[q], state'[q])
<1>1. /\ UNCHANGED <<victim, timely, pc, crashed, report>>
      /\ \E op \in Ops : Take(r, op)
  <2>1. \A i \in DOMAIN order : order[i] \in Ops
    BY DEF IInv, Typed
  <2>2. CASE Deliver(r)
    <3>1. pos[r] + 1 \in DOMAIN order
      BY <2>2 DEF Deliver, IInv, Typed
    <3> QED BY <2>1, <2>2, <3>1, Zenon DEF Deliver, threads
  <2>3. CASE DeliverAgain(r)
    <3>1. PICK i \in 1..pos[r] : Take(r, order[i])
      BY <2>3, Zenon DEF DeliverAgain
    <3>2. i \in DOMAIN order
      BY DEF IInv, Typed
    <3> QED BY <2>1, <2>3, <3>1, <3>2, Zenon DEF DeliverAgain, threads
  <2> QED BY <2>2, <2>3, Zenon
<1>2. PICK op \in Ops : Take(r, op)
  BY <1>1, Zenon
<1>3. state \in [Replicas -> Seq(Ops)] /\ applied \in [Replicas -> Nat]
  BY Zenon DEF IInv, Typed, EInv, Counted
<1>4. CASE UNCHANGED <<state, applied>>
  <2>1. EInv'
    BY <1>1, <1>4, QuietEInv, Zenon
  <2>2. ASSUME NEW q \in Replicas PROVE IsPrefix(state[q], state'[q])
    BY <1>3, <1>4, Agreeing
  <2> QED BY <2>1, <2>2, Zenon
<1>5. CASE /\ state' = [state EXCEPT ![r] = Append(@, op)]
           /\ applied' = IF pc[r] = "drain" THEN applied ELSE [applied EXCEPT ![r] = @ + 1]
  <2>1. /\ state'[r] = Append(state[r], op) /\ applied'[r] \in {applied[r], applied[r] + 1}
        /\ \A q \in Replicas : q # r => state'[q] = state[q] /\ applied'[q] = applied[q]
        /\ applied' \in [Replicas -> Nat] /\ state' \in [Replicas -> Seq(Ops)]
    BY <1>3, <1>5
  <2>2. /\ Len(state'[r]) = Len(state[r]) + 1
        /\ \A i \in DOMAIN state[r] : state[r][i] = state'[r][i]
    BY <1>3, <2>1
  <2>3. Counted'
    <3>1. ASSUME NEW q \in Replicas, Polls(q)' PROVE applied'[q] <= Len(state'[q])
      <4>1. Polls(q) /\ applied[q] <= Len(state[q]) /\ applied[q] \in Nat /\ Len(state[q]) \in Nat
        BY <1>1, <1>3, <3>1 DEF EInv, Counted, Polls
      <4>2. CASE q = r
        BY <2>1, <2>2, <4>1, <4>2
      <4>3. CASE q # r
        BY <2>1, <4>1, <4>3, Zenon
      <4> QED BY <4>2, <4>3, Zenon
    <3> QED BY <2>1, <3>1, Zenon DEF Counted
  <2>4. Ended'
    <3>2. \A q \in Replicas : Len(state'[q]) \in Nat /\ Len(state[q]) \in Nat
      BY <1>3, <2>1
    <3>1. ASSUME NEW q \in Replicas PROVE Len(state'[q]) >= Len(state[q])
      <4>1. CASE q = r
        BY <2>2, <3>2, <4>1
      <4>2. CASE q # r
        BY <2>1, <3>2, <4>2
      <4> QED BY <4>1, <4>2, Zenon
    <3>3. total_ops \in Nat
      BY OrderBounded, Zenon
    <3> HIDE DEF total_ops
    <3> QED BY <1>1, <3>1, <3>2, <3>3 DEF EInv, Ended, Left
  <2>5. ASSUME NEW q \in Replicas PROVE IsPrefix(state[q], state'[q])
    <3>1. \A i \in DOMAIN state[q] : state[q][i] = state'[q][i]
      BY <2>1, <2>2, Zenon
    <3>2. Len(state[q]) <= Len(state'[q]) /\ state[q] \in Seq(Ops) /\ state'[q] \in Seq(Ops)
      BY <1>3, <2>1, <2>2
    <3> QED BY <3>1, <3>2, Agreeing, Zenon
  <2> QED BY <1>1, <2>3, <2>4, <2>5, Zenon DEF EInv, Completed
<1> QED BY <1>2, <1>4, <1>5, Zenon DEF Take, Applied

\* The victim takes over the state of a survivor that has everything.
LEMMA ReportCrashEInv ==
  ASSUME IInv, EInv, ReportCrash
  PROVE  EInv' /\ (timely => \A q \in Replicas : IsPrefix(state[q], state'[q]))
<1>1. /\ victim \in Victims /\ victim \in Replicas /\ Survivor \in Replicas
      /\ state' = [state EXCEPT ![victim] = state[Survivor]]
      /\ \A r \in Replicas : pc[r] = "gone" /\ ~Polls(r)
      /\ UNCHANGED <<victim, timely, order, pc, applied, crashed>>
  BY SurvivorTyped, NodesTyped, Zenon DEF ReportCrash, Joined, IInv, Typed, fabric, threads
<1>2. state \in [Replicas -> Seq(Ops)] /\ order \in Seq(Ops)
  BY Zenon DEF IInv, Typed
<1>3. Counted'
  BY <1>1, Zenon DEF EInv, Counted, Polls
<1>4. ASSUME timely PROVE \A r \in Replicas : r # victim => state[r] = order /\ Len(state[r]) = total_ops
  BY <1>1, <1>4, HoldsAll, Zenon DEF EInv, Ended, Left
<1>5. timely => Survivor # victim
  <2>1. timely => crashed
    BY <1>1, Zenon DEF EInv, Ended, Left
  <2> QED BY <1>1, <2>1, SurvivorTyped, Zenon
<1>6. timely => \A r \in Replicas : state'[r] = order /\ Len(state'[r]) = total_ops
  BY <1>1, <1>2, <1>4, <1>5, Zenon
<1>7. Ended' /\ Completed'
  <2>1. total_ops \in Nat
    BY OrderBounded, Zenon
  <2> HIDE DEF total_ops
  <2> QED BY <1>1, <1>6, <2>1 DEF EInv, Ended, Completed, Left
<1>8. ASSUME timely, NEW q \in Replicas PROVE IsPrefix(state[q], state'[q])
  <2>1. state'[q] = order
    BY <1>6, <1>8, Zenon
  <2>2. Len(state[q]) <= Len(order) /\ \A i \in DOMAIN state[q] : state[q][i] = order[i]
    BY <1>2 DEF IInv, Agreement
  <2> QED BY <1>2, <2>1, <2>2, Agreeing, Zenon
<1> QED BY <1>3, <1>7, <1>8, Zenon DEF EInv

\* Every step, a stutter included, keeps the invariant and takes nothing back.
LEMMA NextEInv ==
  ASSUME IInv, EInv, [Next]_vars
  PROVE  EInv' /\ (timely => \A q \in Replicas : IsPrefix(state[q], state'[q]))
<1> USE NodesTyped
<1> DEFINE Held == timely => \A q \in Replicas : IsPrefix(state[q], state'[q])
<1>0. state' = state => Held
  <2>1. \A q \in Replicas : state[q] \in Seq(Ops)
    BY Zenon DEF IInv, Typed
  <2> QED BY <2>1, Agreeing
<1> SUFFICES EInv' /\ Held
  BY Zenon
<1> HIDE DEF Held
<1>1. CASE UNCHANGED vars
  <2>1. UNCHANGED <<victim, timely, order, state, applied, pc, crashed, report>>
    BY <1>1, Zenon DEF vars, fabric, engines, threads
  <2>2. EInv'
    BY <2>1, Zenon DEF EInv, Counted, Ended, Completed, Left, Polls
  <2> QED BY <1>0, <2>1, <2>2, Zenon
<1>2. CASE report.tag = "none" /\ Step
  <2>1. CASE Fabric
    BY <1>0, <1>2, <2>1, QuietEInv, Zenon DEF Fabric, Release, Excise, engines, threads
  <2>2. ASSUME NEW c \in Clients, Client(c) PROVE EInv' /\ Held
    BY <1>0, <1>2, <2>2, QuietEInv, Zenon DEF Client, Send, ClientLeaves, fabric, engines, IInv, Typed
  <2>3. ASSUME NEW r \in Replicas, Deliver(r) \/ DeliverAgain(r) PROVE EInv' /\ Held
    BY <1>2, <2>3, DeliverEInv, Zenon DEF Held
  <2>4. ASSUME NEW r \in Replicas, DeliverFails(r) \/ Replica(r) PROVE EInv' /\ Held
    <3>1. state' = state
      BY <2>4, Zenon DEF DeliverFails, Replica, Finish, Crash, Timeout, DrainOver, engines
    <3> QED BY <1>0, <1>2, <2>4, <3>1, LeavingEInv, Zenon
  <2>5. CASE Report
    <3>1. /\ UNCHANGED <<victim, timely, order, state, applied, pc, crashed>>
          /\ victim = NoVictim /\ \A r \in Replicas : pc[r] = "gone"
      BY <2>5, Zenon DEF Report, fabric, engines, threads
    <3>2. Counted' /\ Ended'
      BY <3>1, Zenon DEF EInv, Counted, Ended, Left, Polls
    <3>3. timely => \A r \in Replicas : Len(state[r]) >= total_ops
      BY <3>1, Zenon DEF EInv, Ended, Left
    <3>4. timely => \A r \in Replicas : state[r] = order /\ Len(state[r]) = total_ops
      BY <3>3, HoldsAll, Zenon
    <3> QED BY <1>0, <3>1, <3>2, <3>4, Zenon DEF EInv, Completed
  <2>6. CASE ReportCrash
    BY <2>6, ReportCrashEInv, Zenon DEF Held
  <2>7. CASE ReportError
    <3>1. /\ UNCHANGED <<victim, timely, order, state, applied, pc, crashed>>
          /\ report'.tag = "error"
      BY <2>7, Zenon DEF ReportError, fabric, engines, threads
    <3> QED BY <1>0, <3>1, Zenon DEF EInv, Counted, Ended, Completed, Left, Polls
  <2> QED BY <1>2, <2>1, <2>2, <2>3, <2>4, <2>5, <2>6, <2>7, Zenon DEF Step, Driver
<1> QED BY <1>1, <1>2, Zenon DEF Next, Idle, Held

\* A run that keeps its time limit and is compared ends with every operation of
\* every client in effect on every replica, in the fabric's order, the recovered
\* victim included (what converged and recovered_ok of cluster.rs test by states).
THEOREM RunsComplete == Spec => []Completed
<1>1. EInv => Completed
  BY Zenon DEF EInv
<1>2. IInv /\ EInv /\ [Next]_vars => EInv'
  BY NextEInv, Zenon
<1> QED BY InitIInv, NextIInv, InitEInv, <1>1, <1>2, PTL DEF Spec

\* For every number of replicas, clients and operations, whichever replica crashes
\* and wherever it stops: a step of a run that keeps its time limit only adds to
\* what is in effect on a replica; the state imported from the survivor contains
\* what the victim recovered (import_state after recover in cluster.rs).
THEOREM NothingTakenBack == Spec => TakesNothingBack
<1> DEFINE Held == timely => \A r \in Replicas : IsPrefix(state[r], state'[r])
<1>1. IInv /\ EInv /\ [Next]_vars => [Held]_vars
  BY NextEInv, Zenon
<1>2. IInv /\ EInv /\ [Next]_vars => EInv'
  BY NextEInv, Zenon
<1>3. Spec => [][Held]_vars
  BY InitIInv, NextIInv, InitEInv, <1>1, <1>2, PTL DEF Spec
<1> QED BY <1>3, Zenon DEF TakesNothingBack

-----------------------------------------------------------------------------
(* The sums.  A replica's map has, for every key, the number of operations *)
(* in effect on it, as long as that number is an i64.                      *)

\* The numbers of the operations on key k, and the map that a sequence makes.
On(k) == {i \in 1..ops_per_client : (i - 1) % keys = k}

KeyOf(op) == (op.seq - 1) % keys

Sums(s) == [k \in {KeyOf(s[i]) : i \in DOMAIN s} |-> Num(Cardinality(At(s, On(k))))]

Tallied == \A r \in Replicas : store[r] = Sums(state[r])

LEMMA OpsKeyed ==
  \A op \in Ops : /\ op.kind = Incr(KeyOf(op), 1) /\ KeyOf(op) \in 0..(keys - 1)
                  /\ \A k : op.seq \in On(k) <=> KeyOf(op) = k
<1> SUFFICES ASSUME NEW op \in Ops
             PROVE  /\ op.kind = Incr(KeyOf(op), 1) /\ KeyOf(op) \in 0..(keys - 1)
                    /\ \A k : op.seq \in On(k) <=> KeyOf(op) = k
  BY Zenon
<1>1. PICK c \in Clients, n \in 1..ops_per_client : op = client_op(c, n)
  BY DEF Ops
<1>2. op.seq = n /\ op.kind = Incr((n - 1) % keys, 1)
  BY <1>1, Zenon DEF client_op
<1>3. KeyOf(op) = (n - 1) % keys
  BY <1>2, Zenon DEF KeyOf
<1>4. keys \in Nat \ {0} /\ n - 1 \in Int
  BY ClusterAssumption
<1>5. (n - 1) % keys \in 0..(keys - 1)
  BY <1>4
<1>6. \A k : n \in On(k) <=> (n - 1) % keys = k
  BY Zenon DEF On
<1> QED BY <1>2, <1>3, <1>5, <1>6, Zenon

\* The places of a key are counted by a number up to the length.
LEMMA Countable ==
  ASSUME NEW s \in Seq(Ops), NEW K
  PROVE  IsFiniteSet(At(s, K)) /\ Cardinality(At(s, K)) \in 0..Len(s)
<1>1. Len(s) \in Nat /\ 1 \in Int /\ Len(s) \in Int
  OBVIOUS
<1>2. /\ IsFiniteSet(1..Len(s))
      /\ Cardinality(1..Len(s)) = IF 1 > Len(s) THEN 0 ELSE Len(s) - 1 + 1
  BY <1>1, FS_Interval, Zenon
<1>3. Cardinality(1..Len(s)) = Len(s)
  BY <1>1, <1>2
<1>4. At(s, K) \in SUBSET (1..Len(s))
  BY DEF At
<1>5. IsFiniteSet(At(s, K)) /\ Cardinality(At(s, K)) <= Cardinality(1..Len(s))
  BY <1>2, <1>4, FS_Subset, Zenon
<1>6. Cardinality(At(s, K)) \in Nat
  BY <1>5, FS_CardinalityType, Zenon
<1> QED BY <1>1, <1>3, <1>5, <1>6

\* One more operation is one more place of its key.
LEMMA OnePlaceMore ==
  ASSUME NEW s \in Seq(Ops), NEW op \in Ops, NEW K
  PROVE  Cardinality(At(Append(s, op), K)) =
           IF op.seq \in K THEN Cardinality(At(s, K)) + 1 ELSE Cardinality(At(s, K))
<1>1. IsFiniteSet(At(s, K))
  BY Countable, Zenon
<1>2. Len(s) + 1 \notin At(s, K)
  BY DEF At
<1>3. CASE op.seq \in K
  <2>1. At(Append(s, op), K) = At(s, K) \cup {Len(s) + 1}
    BY <1>3 DEF At
  <2> QED BY <1>1, <1>2, <1>3, <2>1, FS_AddElement, Zenon
<1>4. CASE op.seq \notin K
  <2>1. At(Append(s, op), K) = At(s, K)
    BY <1>4 DEF At
  <2> QED BY <1>4, <2>1, Zenon
<1> QED BY <1>3, <1>4, Zenon

LEMMA NoWrap ==
  ASSUME NEW n \in Nat, n <= IntMax
  PROVE  Wrap(n) = n
<1>1. IntMax \in Nat
  BY IntAssumption, Zenon
<1>2. n + IntMax + 1 \in 0..(2 * IntMax + 1)
  BY <1>1
<1>3. (n + IntMax + 1) % (2 * IntMax + 2) = n + IntMax + 1
  BY <1>1, <1>2
<1> QED BY <1>1, <1>3 DEF Wrap

LEMMA NumIs ==
  ASSUME NEW n
  PROVE  Num(n).num = TRUE /\ Num(n).n = n /\ Parse(Num(n)) = n
<1>1. Num(n).num /\ Num(n).n = n
  BY Zenon DEF Num
<1>2. Num(n).num = TRUE
  BY Zenon DEF Num
<1> QED BY <1>1, <1>2, Zenon DEF Parse

\* What apply does to the map of a sequence.
LEMMA SumsAppend ==
  ASSUME NEW s \in Seq(Ops), NEW op \in Ops, Len(s) < IntMax
  PROVE  Apply(Sums(s), op.kind).map = Sums(Append(s, op))
<1> DEFINE q == KeyOf(op)
           m == Sums(s)
           t == Append(s, op)
           c == Cardinality(At(s, On(q)))
<1>1. op.kind = Incr(q, 1) /\ \A k : op.seq \in On(k) <=> q = k
  BY OpsKeyed, Zenon
<1>2. c \in 0..Len(s)
  BY Countable, Zenon
<1>3. DOMAIN m = {KeyOf(s[i]) : i \in DOMAIN s} /\ \A k \in DOMAIN m : m[k] = Num(Cardinality(At(s, On(k))))
  BY Zenon DEF Sums
<1>4. q \notin DOMAIN m => c = 0
  <2> SUFFICES ASSUME q \notin DOMAIN m PROVE c = 0
    BY Zenon
  <2>1. At(s, On(q)) = {}
    BY <1>3, OpsKeyed DEF At
  <2> QED BY <2>1, FS_EmptySet, Zenon
<1>5. (IF q \in DOMAIN m THEN Parse(m[q]) ELSE 0) = c
  <2>1. CASE q \in DOMAIN m
    BY <1>3, <2>1, NumIs, Zenon
  <2>2. CASE q \notin DOMAIN m
    BY <1>4, <2>2, Zenon
  <2> QED BY <2>1, <2>2, Zenon
<1>6. Wrap(c + 1) = c + 1
  <2>1. c + 1 \in Nat /\ c + 1 <= IntMax
    BY <1>2, IntAssumption
  <2> QED BY <2>1, NoWrap, Zenon
<1>7. Apply(m, op.kind).map = Insert(m, q, Num(c + 1))
  <2>1. Apply(m, Incr(q, 1)).map = Incremented(m, q, 1).map
    BY Zenon DEF Apply, Incr
  <2>2. Incremented(m, q, 1).map = Insert(m, q, Num(Wrap((IF q \in DOMAIN m THEN Parse(m[q]) ELSE 0) + 1)))
    BY Zenon DEF Incremented
  <2> QED BY <1>1, <1>5, <1>6, <2>1, <2>2, Zenon
<1>8. DOMAIN Sums(t) = DOMAIN m \cup {q}
  <2>1. DOMAIN Sums(t) = {KeyOf(t[i]) : i \in DOMAIN t}
    BY Zenon DEF Sums
  <2>2. /\ DOMAIN t = DOMAIN s \cup {Len(s) + 1} /\ t[Len(s) + 1] = op
        /\ \A i \in DOMAIN s : t[i] = s[i]
    OBVIOUS
  <2> QED BY <1>3, <2>1, <2>2, Zenon
<1>9. ASSUME NEW k \in DOMAIN m \cup {q}
      PROVE  Sums(t)[k] = IF k = q THEN Num(c + 1) ELSE m[k]
  <2>1. Sums(t)[k] = Num(Cardinality(At(t, On(k))))
    BY <1>8, Zenon DEF Sums
  <2>2. Cardinality(At(t, On(k))) = IF op.seq \in On(k) THEN Cardinality(At(s, On(k))) + 1
                                    ELSE Cardinality(At(s, On(k)))
    BY OnePlaceMore, Zenon
  <2> QED BY <1>1, <1>3, <2>1, <2>2, Zenon
<1>10. Sums(t) = [k \in DOMAIN Sums(t) |-> Sums(t)[k]]
  BY Zenon DEF Sums
<1> HIDE DEF m, t, q, c
<1>11. Sums(t) = Insert(m, q, Num(c + 1))
  BY <1>8, <1>9, <1>10, Zenon DEF Insert
<1> QED BY <1>7, <1>11, Zenon DEF m, t

LEMMA OnTyped == \A k : On(k) \in SUBSET (1..ops_per_client)
BY Zenon DEF On

\* The integer view of the sums, key by key.
LEMMA SumsSeen ==
  ASSUME NEW s \in Seq(Ops)
  PROVE  /\ DOMAIN Entries(Sums(s)) = {KeyOf(s[i]) : i \in DOMAIN s}
         /\ Entries(Sums(s)) = [k \in DOMAIN Entries(Sums(s)) |-> Cardinality(At(s, On(k)))]
<1>1. /\ DOMAIN Sums(s) = {KeyOf(s[i]) : i \in DOMAIN s}
      /\ \A k \in DOMAIN Sums(s) : Sums(s)[k] = Num(Cardinality(At(s, On(k))))
  BY Zenon DEF Sums
<1>2. \A k \in DOMAIN Sums(s) : Sums(s)[k].num = TRUE /\ Sums(s)[k].n = Cardinality(At(s, On(k)))
  BY <1>1, NumIs, Zenon
<1>3. {x \in DOMAIN Sums(s) : Sums(s)[x].num} = DOMAIN Sums(s)
  BY <1>2, Zenon
<1>4. Entries(Sums(s)) = [k \in DOMAIN Sums(s) |-> Sums(s)[k].n]
  BY <1>3, Zenon DEF Entries
<1> HIDE DEF Sums, Entries
<1>5. DOMAIN Entries(Sums(s)) = DOMAIN Sums(s)
  BY <1>4, Zenon
<1> QED BY <1>1, <1>2, <1>4, <1>5, Zenon

LEMMA Expected ==
  /\ DOMAIN expected_state = 0..(keys - 1)
  /\ expected_state = [k \in 0..(keys - 1) |-> clients * Cardinality(On(k))]
BY Zenon DEF expected_state, On

\* Nothing exceeds its expected sum.
LEMMA SumsWithin ==
  ASSUME NEW s \in Seq(Ops), Ascending(s)
  PROVE  Within(Entries(Sums(s)), expected_state)
<1> SUFFICES ASSUME NEW k \in DOMAIN Entries(Sums(s))
             PROVE  k \in DOMAIN expected_state /\ Entries(Sums(s))[k] <= expected_state[k]
  BY Zenon DEF Within
<1>0. k \in {KeyOf(s[i]) : i \in DOMAIN s}
  BY SumsSeen, Zenon
<1>1. PICK i \in DOMAIN s : k = KeyOf(s[i])
  BY <1>0, Zenon
<1>2. k \in 0..(keys - 1)
  BY <1>1, OpsKeyed
<1>3. Entries(Sums(s))[k] = Cardinality(At(s, On(k)))
  BY SumsSeen, Zenon
<1>4. expected_state[k] = clients * Cardinality(On(k))
  BY <1>2, Expected, Zenon
<1>5. Cardinality(At(s, On(k))) <= clients * Cardinality(On(k))
  BY AtMost, OnTyped, Zenon
<1> QED BY <1>2, <1>3, <1>4, <1>5, Expected, Zenon

\* All operations make the expected sums, if every key gets one.
LEMMA SumsExpected ==
  ASSUME clients > 0, keys <= ops_per_client,
         NEW s \in Seq(Ops), Ascending(s), Len(s) = total_ops
  PROVE  Entries(Sums(s)) = expected_state
<1>1. \A k : Cardinality(At(s, On(k))) = clients * Cardinality(On(k))
  BY AtAll, OnTyped, Zenon
<1>2. ASSUME NEW k \in 0..(keys - 1) PROVE \E i \in DOMAIN s : KeyOf(s[i]) = k
  <2>1. k + 1 \in On(k)
    <3>1. keys \in Nat \ {0} /\ ops_per_client \in Nat
      BY ClusterAssumption, Zenon
    <3>2. k % keys = k /\ k + 1 - 1 = k /\ k + 1 \in 1..ops_per_client
      BY <3>1
    <3> QED BY <3>2 DEF On
  <2>2. IsFiniteSet(On(k)) /\ Cardinality(On(k)) \in Nat
    BY HowMany, OnTyped, Zenon
  <2>3. Cardinality(On(k)) # 0
    BY <2>1, <2>2, FS_EmptySet, Zenon
  <2>4. clients * Cardinality(On(k)) # 0
    BY <2>2, <2>3, ClusterAssumption
  <2>5. At(s, On(k)) # {}
    BY <1>1, <2>4, FS_EmptySet, Zenon
  <2> QED BY <2>5, OpsKeyed DEF At
<1>3. DOMAIN Entries(Sums(s)) = 0..(keys - 1)
  <2>1. \A i \in DOMAIN s : KeyOf(s[i]) \in 0..(keys - 1)
    BY OpsKeyed
  <2>2. DOMAIN Entries(Sums(s)) = {KeyOf(s[i]) : i \in DOMAIN s}
    BY SumsSeen, Zenon
  <2>3. {KeyOf(s[i]) : i \in DOMAIN s} = 0..(keys - 1)
    BY <1>2, <2>1, Zenon
  <2> QED BY <2>2, <2>3, Zenon
<1>4. Entries(Sums(s)) = [k \in 0..(keys - 1) |-> clients * Cardinality(On(k))]
  BY <1>1, <1>3, SumsSeen, Zenon
<1> QED BY <1>4, Expected, Zenon

LEMMA HeldAscending ==
  ASSUME IInv, NEW r \in Replicas
  PROVE  state[r] \in Seq(Ops) /\ Ascending(state[r])
BY Zenon DEF IInv, Typed, Agreement, Sequenced, Ascending

LEMMA InitTallied == Init => Tallied
<1>1. << >> \in Seq(Ops) /\ DOMAIN << >> = {}
  OBVIOUS
<1>2. Sums(<< >>) = << >>
  BY <1>1 DEF Sums
<1> QED BY <1>2, Zenon DEF Init, Tallied, EmptyMap

\* Every step keeps the maps and the sequences together.
LEMMA NextTallied ==
  ASSUME total_ops <= IntMax, IInv, DOMAIN store = Replicas, Tallied, [Next]_vars
  PROVE  Tallied' /\ DOMAIN store' = Replicas
<1>1. CASE UNCHANGED <<state, store>>
  BY <1>1, Zenon DEF Tallied
<1>2. ASSUME NEW r \in Replicas, Deliver(r) \/ DeliverAgain(r)
      PROVE  Tallied' /\ DOMAIN store' = Replicas
  <2>1. CASE DeliverAgain(r)
    <3>1. PICK i \in 1..pos[r] : Take(r, order[i])
      BY <2>1, Zenon DEF DeliverAgain
    <3>2. Duplicate(r, order[i])
      BY <2>1, DuplicateAgain, Zenon DEF DeliverAgain
    <3> QED BY <1>1, <3>1, <3>2, Zenon DEF Take
  <2>2. CASE Deliver(r)
    <3> DEFINE op == order[pos[r] + 1]
    <3>1. /\ state' = [state EXCEPT ![r] = Append(@, op)]
          /\ store' = [store EXCEPT ![r] = Apply(@, op.kind).map]
      BY <2>2, FreshInTurn, Zenon DEF Deliver, Take, Applied
    <3>2. /\ op \in Ops /\ Len(state[r]) < Len(order) /\ Len(state[r]) \in Nat
          /\ state \in [Replicas -> Seq(Ops)]
      BY <2>2 DEF Deliver, IInv, Typed, UpToDate
    <3>3. Len(state[r]) < IntMax
      BY <3>2, OrderBounded, IntAssumption
    <3> HIDE DEF op
    <3>4. Apply(Sums(state[r]), op.kind).map = Sums(Append(state[r], op))
      BY <3>2, <3>3, SumsAppend, Zenon
    <3>5. store'[r] = Apply(store[r], op.kind).map /\ state'[r] = Append(state[r], op)
      BY <3>1, <3>2, Zenon
    <3>6. \A q \in Replicas \ {r} : store'[q] = store[q] /\ state'[q] = state[q]
      BY <3>1, <3>2, Zenon
    <3>7. DOMAIN store' = Replicas
      BY <3>1, Zenon
    <3> QED BY <3>4, <3>5, <3>6, <3>7, Zenon DEF Tallied
  <2> QED BY <1>2, <2>1, <2>2, Zenon
<1>3. CASE ReportCrash
  <2>1. /\ victim \in Replicas /\ Survivor \in Replicas /\ state \in [Replicas -> Seq(Ops)]
        /\ state' = [state EXCEPT ![victim] = state[Survivor]]
        /\ store' = [store EXCEPT ![victim] = store[Survivor]]
    BY <1>3, SurvivorTyped, Zenon DEF ReportCrash, IInv, Typed
  <2> QED BY <2>1, Zenon DEF Tallied
<1>4. Next => \/ UNCHANGED <<state, store>>
              \/ \E r \in Replicas : Deliver(r) \/ DeliverAgain(r)
              \/ ReportCrash
  BY Zenon DEF Next, Idle, vars, Step, Fabric, Release, Excise, Client, Send, ClientLeaves, DeliverFails,
         Replica, Finish, Crash, Timeout, DrainOver, Driver, Report, ReportError, engines
<1>5. UNCHANGED vars => UNCHANGED <<state, store>>
  BY Zenon DEF vars, engines
<1> QED BY <1>1, <1>2, <1>3, <1>4, <1>5, Zenon

\* Only the driver writes the report.
LEMMA Reporting ==
  ASSUME [Next]_vars
  PROVE  timely' = timely /\ (report' = report \/ Report \/ ReportCrash \/ ReportError)
<1>1. CASE UNCHANGED vars
  BY <1>1, Zenon DEF vars
<1>2. CASE Next
  BY <1>2, Zenon DEF Next, Idle, vars, Step, Fabric, Release, Excise, Client, Send, ClientLeaves, Deliver,
              DeliverAgain, DeliverFails, Replica, Finish, Crash, Timeout, DrainOver, Driver,
              Report, ReportCrash, ReportError
<1> QED BY <1>1, <1>2, Zenon

\* The victim's share is within the expected sums whenever it is compared.
LEMMA NextWithin ==
  ASSUME IInv, Tallied, VictimNeverOvercounts, [Next]_vars
  PROVE  VictimNeverOvercounts'
<1>1. CASE report' = report
  BY <1>1, Zenon DEF VictimNeverOvercounts
<1>2. CASE Report \/ ReportError
  BY <1>2 DEF Report, ReportError, VictimNeverOvercounts
<1>3. CASE ReportCrash
  <2> DEFINE prefix == IF crashed THEN Entries(store[victim]) ELSE EmptyMap
             W == Within(prefix, expected_state)
  <2>1. victim \in Replicas
    BY <1>3, SurvivorTyped, Zenon DEF ReportCrash, IInv, Typed
  <2>2. Within(Entries(store[victim]), expected_state)
    BY <2>1, HeldAscending, SumsWithin, Zenon DEF Tallied
  <2>3. Within(EmptyMap, expected_state)
    BY DEF Within, EmptyMap
  <2>4. W
    BY <2>2, <2>3, Zenon
  <2>5. report'.victim_prefix_consistent = W
    BY <1>3, Zenon DEF ReportCrash
  <2> HIDE DEF W
  <2>6. report'.victim_prefix_consistent
    BY <2>4, <2>5, Zenon
  <2> QED BY <2>6, Zenon DEF VictimNeverOvercounts
<1> QED BY <1>1, <1>2, <1>3, Reporting, Zenon

\* A run within its time reports success.
LEMMA NextSuccess ==
  ASSUME clients > 0, keys <= ops_per_client,
         IInv, IInv', Completed', Tallied, Tallied', DOMAIN store = Replicas,
         ReportsSuccess, [Next]_vars
  PROVE  ReportsSuccess'
<1>1. CASE report' = report
  BY <1>1, Reporting, Zenon DEF ReportsSuccess
<1>2. CASE ReportError
  BY <1>2, Zenon DEF ReportError, ReportsSuccess
<1>3. ASSUME timely', report'.tag \in {"cluster", "crash"}, NEW r \in Replicas
      PROVE  Entries(store'[r]) = expected_state
  <2>1. state'[r] = order' /\ Len(state'[r]) = total_ops
    BY <1>3, Zenon DEF Completed
  <2>2. state'[r] \in Seq(Ops) /\ Ascending(state'[r])
    <3>1. order' \in Seq(Ops) /\ Ascending(order')
      BY Zenon DEF IInv, Typed, Sequenced, Ascending
    <3> QED BY <2>1, <3>1, Zenon
  <2>3. Entries(Sums(state'[r])) = expected_state
    BY <2>1, <2>2, SumsExpected, Zenon
  <2> QED BY <2>3, Zenon DEF Tallied
<1>4. CASE Report
  <2> DEFINE A == \A r \in Replicas \ {0} : Entries(store[r - 1]) = Entries(store[r])
             B == \A r \in Replicas : Entries(store[r]) = expected_state
  <2>1. store' = store /\ report'.tag = "cluster"
    BY <1>4, Zenon DEF Report, engines
  <2>2. timely' => B
    BY <1>3, <2>1, Zenon
  <2>3. B => A
    BY ClusterAssumption DEF Replicas
  <2>4. report' = [tag |-> "cluster", converged |-> A, correct |-> B]
    BY <1>4, Zenon DEF Report
  <2> HIDE DEF A, B
  <2>5. report'.converged = A /\ report'.correct = B
    BY <2>4, Zenon
  <2>6. timely' => report'.converged /\ report'.correct
    BY <2>2, <2>3, <2>5, Zenon
  <2> QED BY <2>1, <2>6, Zenon DEF ReportsSuccess
<1>5. CASE ReportCrash
  <2> DEFINE B == Entries(store[Survivor]) = expected_state
             A == Entries(store'[victim]) = Entries(store[Survivor]) /\ B
             C == Within(IF crashed THEN Entries(store[victim]) ELSE EmptyMap, expected_state)
  <2>1. /\ report'.tag = "crash" /\ victim \in Replicas /\ Survivor \in Replicas
        /\ store' = [store EXCEPT ![victim] = store[Survivor]]
    BY <1>5, SurvivorTyped, Zenon DEF ReportCrash, IInv, Typed
  <2>2. store'[victim] = store[Survivor]
    BY <2>1, Zenon
  <2>3. timely' => A
    BY <1>3, <2>1, <2>2, Zenon
  <2>4. report' = [tag |-> "crash", survivor_correct |-> B, victim_prefix_consistent |-> C,
                   recovered_ok |-> A]
    BY <1>5, Zenon DEF ReportCrash
  <2> HIDE DEF A, B, C
  <2>5. report'.recovered_ok = A
    BY <2>4, Zenon
  <2>6. timely' => report'.recovered_ok
    BY <2>3, <2>5, Zenon
  <2> QED BY <2>1, <2>6, Zenon DEF ReportsSuccess
<1> QED BY <1>1, <1>2, <1>4, <1>5, Reporting, Zenon

\* For every number of replicas, clients, operations and keys whose sums are i64s, a
\* crashed replica has recovered no key, and no more on a key, than the clients send,
\* at whatever operation it stopped and even if the run is cut short
\* (victim_prefix_consistent of run_cluster_with_crash).
THEOREM VictimWithin ==
  ASSUME total_ops <= IntMax
  PROVE  Spec => []VictimNeverOvercounts
<1> DEFINE I == IInv /\ DOMAIN store = Replicas /\ Tallied /\ VictimNeverOvercounts
<1>1. Init => I
  BY InitIInv, InitTallied DEF Init, VictimNeverOvercounts
<1>2. I /\ [Next]_vars => I'
  BY NextIInv, NextTallied, NextWithin, Zenon
<1> QED BY <1>1, <1>2, PTL DEF Spec

\* For every number of replicas and clients, if every key gets an operation and the
\* sums are i64s: a run that keeps its time limit and in which no engine fails reports
\* success, with the right sums on every replica, the recovered one included
\* (converged, correct and recovered_ok of cluster.rs).
THEOREM TimelyRunsSucceed ==
  ASSUME total_ops <= IntMax, clients > 0, keys <= ops_per_client
  PROVE  Spec => []ReportsSuccess
<1> DEFINE I == IInv /\ EInv /\ DOMAIN store = Replicas /\ Tallied /\ ReportsSuccess
<1>1. Init => I
  BY InitIInv, InitEInv, InitTallied DEF Init, ReportsSuccess
<1>2. I /\ [Next]_vars => I'
  <2> SUFFICES ASSUME I, [Next]_vars PROVE I'
    BY Zenon
  <2>1. IInv' /\ EInv' /\ Tallied' /\ DOMAIN store' = Replicas
    BY NextIInv, NextEInv, NextTallied, Zenon
  <2>2. ReportsSuccess'
    BY <2>1, NextSuccess, Zenon DEF EInv
  <2> QED BY <2>1, <2>2, Zenon
<1> QED BY <1>1, <1>2, PTL DEF Spec

-----------------------------------------------------------------------------
(* Types.  Two of them count: no replica counts more operations than there *)
(* are, and none reports itself done twice.                                *)

Running == {r \in Replicas : pc[r] = "run"}

\* A replica that reported itself done is no longer in its loop.
DoneOnce == done \in Nat /\ done + Cardinality(Running) <= replicas

Threads ==
  /\ timely \in BOOLEAN /\ crashed \in BOOLEAN /\ excised \subseteq Nodes
  /\ pc \in [Nodes -> {"run", "drain", "gone", "failed"}]
  /\ faults \in 0..MaxFaults

Stored ==
  /\ DOMAIN store = Replicas /\ \A r \in Replicas : DOMAIN store[r] \subseteq 0..(keys - 1)
  /\ applied \in [Replicas -> 0..total_ops]

LEMMA RunningCounted ==
  ASSUME NEW S \in SUBSET Replicas
  PROVE  IsFiniteSet(S) /\ Cardinality(S) \in Nat /\ Cardinality(S) <= replicas
<1>1. replicas \in Nat /\ replicas > 0 /\ 0 \in Int /\ replicas - 1 \in Int
  BY ClusterAssumption
<1>2. /\ IsFiniteSet(0..(replicas - 1))
      /\ Cardinality(0..(replicas - 1)) = IF 0 > replicas - 1 THEN 0 ELSE replicas - 1 - 0 + 1
  BY <1>1, FS_Interval, Zenon
<1>3. IsFiniteSet(Replicas) /\ Cardinality(Replicas) = replicas
  BY <1>1, <1>2 DEF Replicas
<1>4. IsFiniteSet(S) /\ Cardinality(S) <= Cardinality(Replicas)
  BY <1>3, FS_Subset, Zenon
<1> QED BY <1>3, <1>4, FS_CardinalityType, Zenon

LEMMA InitTypes == Init => DoneOnce /\ Threads /\ Stored /\ report \in Reports
<1> SUFFICES ASSUME Init PROVE DoneOnce /\ Threads /\ Stored /\ report \in Reports
  BY Zenon
<1>1. DoneOnce
  BY RunningCounted DEF Init, DoneOnce, Running
<1>2. Threads
  <2>1. faults \in 0..MaxFaults
    BY ClusterAssumption DEF Init
  <2>2. timely \in BOOLEAN /\ crashed \in BOOLEAN /\ excised \subseteq Nodes
    BY Zenon DEF Init
  <2>3. pc \in [Nodes -> {"run", "drain", "gone", "failed"}]
    BY Zenon DEF Init
  <2> QED BY <2>1, <2>2, <2>3, Zenon DEF Threads
<1>3. Stored
  <2>1. 0 \in 0..total_ops
    BY HowManyInAll
  <2>2. DOMAIN EmptyMap = {}
    BY DEF EmptyMap
  <2> QED BY <2>1, <2>2, Zenon DEF Init, Stored
<1>4. report \in [tag : {"none", "error"}]
  BY Zenon DEF Init
<1> QED BY <1>1, <1>2, <1>3, <1>4, Zenon DEF Reports

LEMMA NextThreads ==
  ASSUME Threads, [Next]_vars
  PROVE  Threads'
<1> USE NodesTyped, ClusterAssumption
<1>1. CASE UNCHANGED vars
  BY <1>1, Zenon DEF vars, fabric, threads, Threads
<1>2. CASE Fabric
  BY <1>2, Zenon DEF Fabric, Release, Excise, threads, Threads
<1>3. ASSUME NEW c \in Clients, Client(c) PROVE Threads'
  BY <1>3, Zenon DEF Client, Send, ClientLeaves, fabric, Threads
<1>4. ASSUME NEW r \in Replicas, Deliver(r) \/ DeliverAgain(r) \/ DeliverFails(r) PROVE Threads'
  BY <1>4 DEF Deliver, DeliverAgain, DeliverFails, fabric, threads, Threads
<1>5. ASSUME NEW r \in Replicas, Replica(r) PROVE Threads'
  BY <1>5, Zenon DEF Replica, Finish, Crash, Timeout, DrainOver, fabric, Threads
<1>6. CASE Driver
  BY <1>6, Zenon DEF Driver, Report, ReportCrash, ReportError, fabric, threads, Threads
<1> QED BY <1>1, <1>2, <1>3, <1>4, <1>5, <1>6, Zenon DEF Next, Idle, Step

\* Steps at which no replica becomes done.
LEMMA NotDone ==
  ASSUME DoneOnce, done' = done, Running' \subseteq Running
  PROVE  DoneOnce'
<1>1. Running \in SUBSET Replicas /\ Running' \in SUBSET Running
  BY Zenon DEF Running
<1>2. IsFiniteSet(Running) /\ Cardinality(Running) \in Nat
  BY <1>1, RunningCounted, Zenon
<1>3. IsFiniteSet(Running') /\ Cardinality(Running') <= Cardinality(Running)
  BY <1>1, <1>2, FS_Subset, Zenon
<1>4. Cardinality(Running') \in Nat /\ replicas \in Nat
  BY <1>3, FS_CardinalityType, ClusterAssumption, Zenon
<1> QED BY <1>2, <1>3, <1>4 DEF DoneOnce

LEMMA NextDone ==
  ASSUME Threads, DoneOnce, [Next]_vars
  PROVE  DoneOnce'
<1> USE NodesTyped
<1>1. CASE done' = done /\ pc' = pc
  BY <1>1, NotDone, Zenon DEF Running
<1>2. ASSUME NEW n \in Nodes, NEW x, pc' = [pc EXCEPT ![n] = x], x # "run", done' = done
      PROVE  DoneOnce'
  <2>1. Running' \subseteq Running
    BY <1>2, Zenon DEF Running, Threads
  <2> QED BY <1>2, <2>1, NotDone, Zenon
<1>3. ASSUME NEW r \in Replicas, Finish(r) PROVE DoneOnce'
  <2>1. Running' = Running \ {r} /\ r \in Running /\ done' = done + 1
    BY <1>3, Zenon DEF Finish, Running, Threads
  <2>2. IsFiniteSet(Running) /\ Cardinality(Running) \in Nat
    BY RunningCounted, Zenon DEF Running
  <2>3. Cardinality(Running \ {r}) = Cardinality(Running) - 1
    BY <2>1, <2>2, FS_RemoveElement, Zenon
  <2>4. Cardinality(Running') = Cardinality(Running) - 1
    BY <2>1, <2>3, Zenon
  <2> QED BY <2>1, <2>2, <2>4, ClusterAssumption DEF DoneOnce
<1>4. CASE UNCHANGED vars
  BY <1>1, <1>4, Zenon DEF vars, threads
<1>5. CASE Fabric
  BY <1>1, <1>5, Zenon DEF Fabric, Release, Excise, threads
<1>6. ASSUME NEW c \in Clients, Client(c) PROVE DoneOnce'
  BY <1>1, <1>2, <1>6, Zenon DEF Client, Send, ClientLeaves
<1>7. ASSUME NEW r \in Replicas, Deliver(r) \/ DeliverAgain(r) \/ DeliverFails(r) PROVE DoneOnce'
  BY <1>1, <1>2, <1>7, Zenon DEF Deliver, DeliverAgain, DeliverFails, threads
<1>8. ASSUME NEW r \in Replicas, Crash(r) \/ Timeout(r) \/ DrainOver(r) PROVE DoneOnce'
  BY <1>2, <1>8, Zenon DEF Crash, Timeout, DrainOver
<1>9. CASE Driver
  BY <1>1, <1>9, Zenon DEF Driver, Report, ReportCrash, ReportError, threads
<1> QED BY <1>3, <1>4, <1>5, <1>6, <1>7, <1>8, <1>9, Zenon DEF Next, Idle, Step, Replica

\* An operation brings at most its own key into the map.
LEMMA KeysOfApply ==
  ASSUME NEW m, NEW op \in Ops
  PROVE  DOMAIN Apply(m, op.kind).map = DOMAIN m \cup {KeyOf(op)}
<1> DEFINE q == KeyOf(op)
<1>1. op.kind = Incr(q, 1)
  BY OpsKeyed, Zenon
<1> HIDE DEF q
<1>2. Apply(m, Incr(q, 1)).map = Incremented(m, q, 1).map
  BY Zenon DEF Apply, Incr
<1>3. PICK v : Incremented(m, q, 1).map = Insert(m, q, v)
  BY Zenon DEF Incremented
<1>4. DOMAIN Insert(m, q, v) = DOMAIN m \cup {q}
  BY Zenon DEF Insert
<1> QED BY <1>1, <1>2, <1>3, <1>4, Zenon DEF q

\* What a delivery counts has a place in the order.
LEMMA DeliverStored ==
  ASSUME IInv, Counted, Stored, NEW r \in Replicas, Deliver(r)
  PROVE  Stored'
<1> DEFINE op == order[pos[r] + 1]
<1>1. /\ store' = [store EXCEPT ![r] = Apply(@, op.kind).map]
      /\ applied' = IF pc[r] = "drain" THEN applied ELSE [applied EXCEPT ![r] = @ + 1]
  BY FreshInTurn, Zenon DEF Deliver, Take, Applied
<1>2. /\ op \in Ops /\ Len(state[r]) < Len(order) /\ Len(state[r]) \in Nat
      /\ applied[r] <= Len(state[r])
  BY DEF Deliver, IInv, Typed, UpToDate, Counted
<1>3. Len(order) <= total_ops /\ Len(order) \in Nat /\ total_ops \in Nat
  BY OrderBounded, Zenon
<1> HIDE DEF op, total_ops
<1>4. applied[r] + 1 \in 0..total_ops /\ applied \in [Replicas -> 0..total_ops]
  BY <1>2, <1>3 DEF Stored
<1>5. applied' \in [Replicas -> 0..total_ops]
  BY <1>1, <1>4, Zenon
<1>6. KeyOf(op) \in 0..(keys - 1)
  BY <1>2, OpsKeyed, Zenon
<1>7. DOMAIN Apply(store[r], op.kind).map = DOMAIN store[r] \cup {KeyOf(op)}
  BY <1>2, KeysOfApply, Zenon
<1>8. /\ DOMAIN store' = Replicas /\ store'[r] = Apply(store[r], op.kind).map
      /\ \A q \in Replicas \ {r} : store'[q] = store[q]
  BY <1>1, Zenon DEF Stored
<1>9. \A q \in Replicas : DOMAIN store'[q] \subseteq 0..(keys - 1)
  BY <1>6, <1>7, <1>8, Zenon DEF Stored
<1> QED BY <1>5, <1>8, <1>9, Zenon DEF Stored

LEMMA NextStored ==
  ASSUME IInv, Counted, Stored, [Next]_vars
  PROVE  Stored'
<1>1. CASE UNCHANGED <<store, applied>>
  BY <1>1, Zenon DEF Stored
<1>2. ASSUME NEW r \in Replicas, DeliverAgain(r)
      PROVE  Stored'
  <2>1. PICK i \in 1..pos[r] : Take(r, order[i])
    BY <1>2, Zenon DEF DeliverAgain
  <2>2. Duplicate(r, order[i])
    BY <1>2, DuplicateAgain, Zenon DEF DeliverAgain
  <2> QED BY <1>1, <2>1, <2>2, Zenon DEF Take
<1>3. CASE ReportCrash
  <2>1. /\ victim \in Replicas /\ Survivor \in Replicas /\ applied' = applied
        /\ store' = [store EXCEPT ![victim] = store[Survivor]]
    BY <1>3, SurvivorTyped, Zenon DEF ReportCrash, IInv, Typed
  <2> QED BY <2>1, Zenon DEF Stored
<1>4. Next => \/ UNCHANGED <<store, applied>>
              \/ \E r \in Replicas : Deliver(r) \/ DeliverAgain(r)
              \/ ReportCrash
  BY Zenon DEF Next, Idle, vars, Step, Fabric, Release, Excise, Client, Send, ClientLeaves, DeliverFails,
         Replica, Finish, Crash, Timeout, DrainOver, Driver, Report, ReportError, engines
<1>5. UNCHANGED vars => UNCHANGED <<store, applied>>
  BY Zenon DEF vars, engines
<1> QED BY <1>1, <1>2, <1>3, <1>4, <1>5, DeliverStored, Zenon

LEMMA NextReports ==
  ASSUME report \in Reports, [Next]_vars
  PROVE  report' \in Reports
<1>1. CASE report' = report
  BY <1>1, Zenon
<1>2. CASE ReportError
  <2>1. report' \in [tag : {"none", "error"}]
    BY <1>2, Zenon DEF ReportError
  <2> QED BY <2>1, Zenon DEF Reports
<1>3. CASE Report
  <2> DEFINE A == \A r \in Replicas \ {0} : Entries(store[r - 1]) = Entries(store[r])
             B == \A r \in Replicas : Entries(store[r]) = expected_state
  <2>1. report' = [tag |-> "cluster", converged |-> A, correct |-> B]
    BY <1>3, Zenon DEF Report
  <2>2. A \in BOOLEAN /\ B \in BOOLEAN
    BY Zenon
  <2> HIDE DEF A, B
  <2>3. report' \in [tag : {"cluster"}, converged : BOOLEAN, correct : BOOLEAN]
    BY <2>1, <2>2, Zenon
  <2> QED BY <2>3, Zenon DEF Reports
<1>4. CASE ReportCrash
  <2> DEFINE B == Entries(store[Survivor]) = expected_state
             A == Entries(store'[victim]) = Entries(store[Survivor]) /\ B
             C == Within(IF crashed THEN Entries(store[victim]) ELSE EmptyMap, expected_state)
  <2>1. report' = [tag |-> "crash", survivor_correct |-> B, victim_prefix_consistent |-> C,
                   recovered_ok |-> A]
    BY <1>4, Zenon DEF ReportCrash
  <2>2. A \in BOOLEAN /\ B \in BOOLEAN /\ C \in BOOLEAN
    BY Zenon DEF Within
  <2> HIDE DEF A, B, C
  <2>3. report' \in [tag : {"crash"}, survivor_correct : BOOLEAN,
                     victim_prefix_consistent : BOOLEAN, recovered_ok : BOOLEAN]
    BY <2>1, <2>2, Zenon
  <2> QED BY <2>3, Zenon DEF Reports
<1> QED BY <1>1, <1>2, <1>3, <1>4, Reporting, Zenon

\* For every number of replicas, clients and operations, all state stays within its
\* bounds: no replica counts an operation that nobody sent, no replica reports itself
\* done twice, and no store has a key that no client writes (the two replica loops and
\* the driver of cluster.rs).
THEOREM ClusterTypes == Spec => []TypeOK
<1> DEFINE I == IInv /\ EInv /\ DoneOnce /\ Threads /\ Stored /\ report \in Reports
<1>1. Init => I
  BY InitIInv, InitEInv, InitTypes, Zenon
<1>2. I /\ [Next]_vars => I'
  <2> SUFFICES ASSUME I, [Next]_vars PROVE I'
    BY Zenon
  <2>1. IInv' /\ EInv'
    BY NextIInv, NextEInv, Zenon
  <2>2. DoneOnce' /\ Threads'
    BY NextDone, NextThreads, Zenon
  <2>3. Stored' /\ report' \in Reports
    BY NextStored, NextReports, Zenon DEF EInv
  <2> QED BY <2>1, <2>2, <2>3, Zenon
<1>3. I => TypeOK
  <2> SUFFICES ASSUME I PROVE TypeOK
    BY Zenon
  <2>1. Cardinality(Running) \in Nat
    BY RunningCounted, Zenon DEF Running
  <2>2. done \in 0..replicas
    BY <2>1, ClusterAssumption DEF DoneOnce
  <2> HIDE DEF Reports
  <2> QED BY <2>2, Zenon DEF IInv, Typed, Threads, Stored, TypeOK
<1> QED BY <1>1, <1>2, <1>3, PTL DEF Spec
=============================================================================
