------------------------------ MODULE MCDetSched ------------------------------
(* Small programs for the deterministic scheduler. *)
EXTENDS DetSched, FiniteSets

L(m) == [op |-> "lock", lock |-> m, mode |-> "w"]
R(m) == [op |-> "lock", lock |-> m, mode |-> "r"]
Try(m, busy) == [op |-> "trylock", lock |-> m, mode |-> "w", busy |-> busy]
U(m) == [op |-> "unlock", lock |-> m]
W(c, m) == [op |-> "wait", cond |-> c, lock |-> m]
S(c) == [op |-> "signal", cond |-> c]
C(t) == [op |-> "create", thread |-> t, fails |-> FALSE]
CF(t) == [op |-> "create", thread |-> t, fails |-> TRUE]
J(t) == [op |-> "join", thread |-> t]

MCThreads == 0..4
MCLocks == {"a", "b"}
MCConds == {"c"}

\* Main creates every thread before it takes part, then waits for them in turn.
Main(n) == [i \in 1..2*n |-> IF i <= n THEN C(i) ELSE J(i - n)]

\* Nested locks, readers, a nested trylock.
Bodies == {<<L("a"), L("b"), U("b"), U("a")>>,
           <<R("a"), U("a"), L("b"), U("b")>>,
           <<R("b"), Try("a", 4), U("a"), U("b")>>}

Sections ==
  {[t \in MCThreads |-> IF t = 0 THEN Main(3) ELSE IF t = 4 THEN << >> ELSE f[t]] : f \in [1..3 -> Bodies]}

\* A condition wait with its signal, and work after it.
Handshake ==
  [t \in MCThreads |-> CASE t = 0 -> Main(3)
                          [] t = 1 -> <<L("a"), W("c", "a"), U("a")>>
                          [] t = 2 -> <<L("a"), S("c"), U("a"), L("a"), U("a")>>
                          [] t = 3 -> <<L("b"), U("b")>>
                          [] OTHER -> << >>]

Ordered == Sections \cup {Handshake}

\* The measures of a program, call by call.
Measure(p) ==
  LET depth[t \in Threads] ==
        LET d[j \in 1..(Len(p[t]) + 1)] ==
              IF j = 1 THEN 0
              ELSE CASE p[t][j - 1].op \in {"lock", "trylock"} -> d[j - 1] + 1
                     [] p[t][j - 1].op = "unlock" /\ d[j - 1] > 0 -> d[j - 1] - 1
                     [] OTHER -> d[j - 1]
        IN d
      created(j) == Cardinality({k \in 1..(j - 1) : p[0][k].op = "create"})
  IN [depth |-> depth,
      turns |-> [t \in Threads |-> [j \in 1..(Len(p[t]) + 1) |->
                   Cardinality({k \in 1..(j - 1) : Section(p, depth, t, k)})]],
      made  |-> [j \in 1..(Len(p[0]) + 1) |-> created(j)],
      slot  |-> [t \in Threads |->
                   LET n == {0 : i \in {t} \cap {0}}
                              \cup {created(j) + 1 : j \in {i \in DOMAIN p[0] : p[0][i] = C(t)}}
                   IN  IF \E s \in n : s < MAXT THEN CHOOSE s \in n : s < MAXT ELSE -1]]

\* The programs whose order is proved to be the same on every run are among these.
ASSUME OrderedAreSectioned ==
  \A p \in Ordered : CreatedFirst(p) /\ Measures(Measure(p), p)

\* The main thread takes a lock after it has joined one of two threads.
JoinThenLock ==
  [t \in MCThreads |-> CASE t = 0 -> <<C(1), C(2), J(1), L("a"), U("a"), J(2)>>
                         [] t = 1 -> <<L("a"), U("a")>>
                         [] t = 2 -> <<L("a"), U("a"), L("a"), U("a")>>
                         [] OTHER -> << >>]

\* A thread takes a lock after it has waited on a condition.
WaitThenLock ==
  [t \in MCThreads |-> CASE t = 0 -> Main(2)
                         [] t = 1 -> <<L("a"), W("c", "a"), U("a"), L("a"), U("a")>>
                         [] t = 2 -> <<L("a"), S("c"), U("a"), L("a"), U("a"),
                                       L("a"), U("a")>>
                         [] OTHER -> << >>]

\* Main creates the second thread after it has taken locks.
CreateLate ==
  [t \in MCThreads |-> CASE t = 0 -> <<L("b"), U("b"), L("b"), U("b"), C(1), C(2),
                                       J(1), J(2)>>
                         [] t = 1 -> <<L("a"), U("a"), L("a"), U("a")>>
                         [] t = 2 -> <<L("a"), U("a")>>
                         [] OTHER -> << >>]

Returning == {JoinThenLock, WaitThenLock, CreateLate}

\* A thread joins another while it holds a lock that only a third one wants.
JoinHolding ==
  [t \in MCThreads |-> CASE t = 0 -> <<C(1), L("a"), C(2), J(2), U("a"), J(1)>>
                         [] t = 1 -> <<L("a"), U("a")>>
                         [] t = 2 -> <<L("b"), U("b")>>
                         [] OTHER -> << >>]

\* The same with more threads than slots; the last one created has none.
Crowded ==
  [t \in MCThreads |-> CASE t = 0 -> <<C(1), C(2), C(3), L("a"), C(4), J(4), U("a"), J(3)>>
                         [] t = 3 -> <<L("a"), U("a")>>
                         [] t = 4 -> <<L("b"), U("b")>>
                         [] OTHER -> << >>]

\* A thread could not be created, and the slot it was to have has the least clock
\* from the moment another thread has taken its first lock.
NotCreated ==
  [t \in MCThreads |-> CASE t = 0 -> <<C(1), CF(2), L("a"), U("a"), L("a"), U("a"), J(1)>>
                         [] t = 1 -> <<L("a"), U("a"), L("b"), U("b")>>
                         [] OTHER -> << >>]

\* Setups: strict turns, and a spin bound.
Strict(programs) == {[prog |-> p, spin_cap |-> 0] : p \in programs}
Bounded(programs) == {[prog |-> p, spin_cap |-> 2] : p \in programs}

StrictAndBounded == Strict(Ordered) \cup Bounded({JoinHolding, Crowded, NotCreated})
StrictReturning == Strict(Returning)
StrictHolding == Strict({JoinHolding})
=============================================================================
