-------------------------- MODULE DetSchedOrderProofs --------------------------
(***************************************************************************)
(* Proof that two runs of a program enter their top-level critical         *)
(* sections in the same order.                                             *)
(***************************************************************************)
EXTENDS DetSchedProofs

\* Thread t runs in the program at some time.
Born(t) ==
  t = 0 \/ \E j \in DOMAIN prog[0] : prog[0][j].op = "create" /\ prog[0][j].thread = t

\* Thread t has entered its critical section at call j.
Entered(m, t, j) ==
  /\ thr[t].pc # "none" /\ Section(prog, m.depth, t, j)
  /\ j < thr[t].ip \/ (j = thr[t].ip /\ thr[t].pc = "advance")

\* The order of critical sections: by the sections before it, then by slot.
Earlier(m, e, f) ==
  \/ m.turns[e[1]][e[2]] < m.turns[f[1]][f[2]]
  \/ m.turns[e[1]][e[2]] = m.turns[f[1]][f[2]] /\ m.slot[e[1]] < m.slot[f[1]]

\* A thread's lock depth and clock are those its program fixes.
Measured(m, t) ==
  /\ IF thr[t].pc = "advance" /\ Call(t).op # "wait"
       THEN thr[t].depth = 1 /\ m.depth[t][thr[t].ip] = 0
       ELSE thr[t].depth = m.depth[t][thr[t].ip]
  /\ Contends(t) /\ Slotted(t) => lc[thr[t].slot] = m.turns[t][thr[t].ip]
  /\ thr[t].pc = "none" => thr[t].ip = 1
  /\ thr[t].pc # "none" => thr[t].slot = m.slot[t]
  /\ thr[t].pc # "none" /\ ~Slotted(t) => next_slot > MAXT

\* The slots main has handed out, one more while it is inside pthread_create.
HandedOut(m) == m.made[thr[0].ip] + (IF thr[0].pc = "create" THEN 2 ELSE 1)

\* While main creates, the slots are handed out in the order of the program.
Handing(m) ==
  Creating =>
    /\ next_slot = HandedOut(m) \/ (next_slot > MAXT /\ HandedOut(m) > MAXT)
    /\ thr[0].pc = "create" =>
         LET v == Call(0).thread IN
           thr[v].slot = m.slot[v] /\ (~Slotted(v) => next_slot > MAXT)

\* Main has started the threads whose creation it has passed.
Launched ==
  \A j \in DOMAIN prog[0] :
    j < thr[0].ip /\ prog[0][j].op = "create" => thr[prog[0][j].thread].pc # "none"

\* The acquisitions so far are the sections entered, in their order, and come
\* before every section of a thread with a slot that is still to be entered.
History(m) ==
  /\ acq \in Seq(Threads \X Nat)
  /\ \A k \in 1..Len(acq) : Entered(m, acq[k][1], acq[k][2]) /\ m.slot[acq[k][1]] >= 0
  /\ \A t \in Threads : \A j \in DOMAIN prog[t] :
       Entered(m, t, j) => \E k \in 1..Len(acq) : acq[k] = <<t, j>>
  /\ \A k, l \in 1..Len(acq) : k < l => Earlier(m, acq[k], acq[l])
  /\ \A k \in 1..Len(acq) : \A t \in Threads : \A j \in DOMAIN prog[t] :
       Born(t) /\ Section(prog, m.depth, t, j) /\ m.slot[t] >= 0 /\ ~Entered(m, t, j)
         => Earlier(m, acq[k], <<t, j>>)

\* The first run entered every section of the program, in their order, and the
\* second one follows it.
Follows(m) ==
  run = 2 =>
    /\ first \in Seq(Threads \X Nat)
    /\ \A k \in 1..Len(first) : /\ Born(first[k][1]) /\ m.slot[first[k][1]] >= 0
                                  /\ Section(prog, m.depth, first[k][1], first[k][2])
    /\ \A t \in Threads : \A j \in DOMAIN prog[t] :
         Born(t) /\ Section(prog, m.depth, t, j) => \E k \in 1..Len(first) : first[k] = <<t, j>>
    /\ \A k, l \in 1..Len(first) : k < l => Earlier(m, first[k], first[l])
    /\ Len(acq) <= Len(first) /\ \A k \in 1..Len(acq) : acq[k] = first[k]

OrderInv(m) ==
  /\ \A t \in Threads : Measured(m, t)
  /\ Handing(m) /\ Launched
  /\ History(m)
  /\ Follows(m)

\* Everything that holds of an ordered program with measure m, up to a step that
\* goes ahead without its turn.
InOrder(m) ==
  /\ Base /\ Started /\ Turns
  /\ CreatedFirst(prog) /\ Measures(m, prog) /\ OrderInv(m)
-----------------------------------------------------------------------------
(* Steps that enter no critical section *)

\* A sequence of sections by its length and its elements.
LEMMA Pairs ==
  ASSUME NEW q \in Seq(Threads \X Nat)
  PROVE  Len(q) \in Nat /\ \A k \in 1..Len(q) : q[k][1] \in Threads
  OBVIOUS

\* The types of a measure at the calls of a thread.
LEMMA MeasureTypes ==
  ASSUME NEW m, Base, Measures(m, prog), NEW t \in Threads
  PROVE  /\ thr[t].ip \in Nat \ {0} /\ Len(prog[t]) \in Nat /\ DOMAIN prog[t] = 1..Len(prog[t])
         /\ thr[t].ip \in 1..(Len(prog[t]) + 1)
         /\ \A j \in 1..(Len(prog[t]) + 1) : m.depth[t][j] \in Nat /\ m.turns[t][j] \in Nat
         /\ m.slot[t] \in Int
         /\ \A j \in 1..(Len(prog[0]) + 1) : m.made[j] \in Nat
  <1>1. thr[t].ip \in Nat \ {0} /\ Len(prog[t]) \in Nat /\ DOMAIN prog[t] = 1..Len(prog[t])
    BY CallFacts, Zenon DEF Base, Typed, ThreadState
  <1>2. thr[t].ip <= Len(prog[t]) + 1
    BY Zenon DEF Base, Placed, Fits
  <1>3. /\ m.depth[t] \in [1..(Len(prog[t]) + 1) -> Nat]
        /\ m.turns[t] \in [1..(Len(prog[t]) + 1) -> Nat]
        /\ m.slot[t] \in Slots \cup {-1}
        /\ m.made \in [1..(Len(prog[0]) + 1) -> Nat]
    BY Zenon DEF Measures
  <1>4. m.slot[t] \in Int
    BY <1>3 DEF Slots
  <1>5. thr[t].ip \in 1..(Len(prog[t]) + 1)
    BY <1>1, <1>2
  <1>6. \A j \in 1..(Len(prog[t]) + 1) : m.depth[t][j] \in Nat /\ m.turns[t][j] \in Nat
    BY <1>3, Zenon
  <1>7. \A j \in 1..(Len(prog[0]) + 1) : m.made[j] \in Nat
    BY <1>3, Zenon
  <1> QED BY <1>1, <1>4, <1>5, <1>6, <1>7, Zenon

\* When no section is entered the history stands.
LEMMA SteadyHistory ==
  ASSUME NEW m, Base, History(m), Follows(m), prog' = prog, acq' = acq, first' = first, run' = run,
         \A t \in Threads : \A j \in Nat : Entered(m, t, j)' = Entered(m, t, j)
  PROVE  History(m)' /\ Follows(m)'
  <1>1. \A t \in Threads : \A j \in DOMAIN prog[t] : j \in Nat
    BY Programs DEF Base
  <1>2. \A k \in 1..Len(acq) : acq[k][1] \in Threads /\ acq[k][2] \in Nat
    BY DEF History
  <1>3. History(m)'
    <2>1. (\A k \in 1..Len(acq) : Entered(m, acq[k][1], acq[k][2]) /\ m.slot[acq[k][1]] >= 0)'
      BY <1>2, Zenon DEF History
    <2>2. (\A t \in Threads : \A j \in DOMAIN prog[t] :
             Entered(m, t, j) => \E k \in 1..Len(acq) : acq[k] = <<t, j>>)'
      BY <1>1, Zenon DEF History
    <2>3. (\A k \in 1..Len(acq) : \A t \in Threads : \A j \in DOMAIN prog[t] :
             Born(t) /\ Section(prog, m.depth, t, j) /\ m.slot[t] >= 0 /\ ~Entered(m, t, j)
               => Earlier(m, acq[k], <<t, j>>))'
      <3>1. \A t \in Threads : Born(t)' = Born(t)
        BY Zenon DEF Born
      <3> QED BY <1>1, <3>1, Zenon DEF History
    <2>4. (acq \in Seq(Threads \X Nat) /\ \A k, l \in 1..Len(acq) : k < l => Earlier(m, acq[k], acq[l]))'
      BY DEF History, Earlier
    <2> QED BY <2>1, <2>2, <2>3, <2>4, Zenon DEF History
  <1>4. Follows(m)'
    BY DEF Follows, Born, Earlier, Section
  <1> QED BY <1>3, <1>4, Zenon

\* A step forward leaves the measures of the other threads alone.
LEMMA ForwardMeasured ==
  ASSUME NEW m, Base, Started, NEW t \in Threads, Forward(t), thr'[t].ip \in Nat, prog' = prog,
         \A s \in Slots : s # thr[t].slot => lc'[s] = lc[s],
         next_slot' \in Nat, next_slot' >= next_slot,
         \A u \in Threads : Measured(m, u), Measured(m, t)'
  PROVE  \A u \in Threads : Measured(m, u)'
  <1>1. \A u \in Threads \ {t} : Contends(u)' = Contends(u) /\ thr'[u] = thr[u]
    BY ForwardContends, Zenon DEF Forward
  <1>2. /\ next_slot \in Nat /\ MAXT \in Nat
        /\ \A u \in Threads : Slotted(u) => thr[u].slot \in Slots
    BY TableAssumption DEF Base, Typed, ThreadState, Slotted, Slots
  <1>3. ASSUME NEW u \in Threads \ {t}
        PROVE  Measured(m, u)'
    <2>1. Measured(m, u) /\ thr'[u] = thr[u] /\ Contends(u)' = Contends(u) /\ Slotted(u)' = Slotted(u)
          /\ Call(u)' = Call(u)
      BY <1>1, Zenon DEF Slotted, Call
    <2>2. Slotted(u) => lc'[thr[u].slot] = lc[thr[u].slot]
      BY <1>2, Zenon DEF Started
    <2> QED BY <1>2, <2>1, <2>2 DEF Measured
  <1> QED BY <1>3, Zenon

\* What one step does to the counter of slots, to where main is and to the
\* acquisitions.
LEMMA SmallMoves ==
  ASSUME Base, NEW t \in Threads, Step(t), ~CreateSlot(t), ~CreateThread(t)
  PROVE  /\ next_slot' = next_slot \/ (thr[t].slot < 0 /\ next_slot' = next_slot + 1)
         /\ thr[t].pc # "create" /\ thr'[t].pc # "create"
         /\ \/ thr[t].pc \in {"acquire", "advance"}
            \/ thr'[t].ip = thr[t].ip
            \/ thr[t].ip \in DOMAIN prog[t] /\ Call(t).op # "create" /\ thr'[t].ip = thr[t].ip + 1
         /\ acq' = acq \/ (LockAcquire(t) /\ thr[t].depth = 0)
         /\ \A s \in Slots : s # thr[t].slot => lc'[s] = lc[s]
         /\ thr[t].pc # "advance" => lc' = lc
  <1>0. Typed /\ lc \in [Slots -> Nat]
    BY Zenon DEF Base, Typed
  <1>1. CASE AwaitTurn(t)
    <2>1. \/ Goes(t, "acquire", thr[t].ip, thr[t].depth)
          \/ Goes(t, "scan", thr[t].ip, thr[t].depth)
      BY <1>0, <1>1, Moves, Zenon
    <2>2. thr[t].pc = "await" /\ acq' = acq /\ lc' = lc
      BY <1>1, Zenon DEF AwaitTurn, shared
    <2>3. next_slot' = next_slot \/ (thr[t].slot < 0 /\ next_slot' = next_slot + 1)
      BY <1>1, Zenon DEF AwaitTurn, shared
    <2> QED BY <2>1, <2>2, <2>3, Zenon DEF Goes
  <1>2. CASE ScanSlot(t)
    <2>1. Goes(t, "scan", thr[t].ip, thr[t].depth)
      BY <1>0, <1>2, Moves, Zenon
    <2>2. thr[t].pc = "scan" /\ acq' = acq /\ lc' = lc
      BY <1>2, Zenon DEF ScanSlot, shared
    <2>3. next_slot' = next_slot \/ (thr[t].slot < 0 /\ next_slot' = next_slot + 1)
      BY <1>2, Zenon DEF ScanSlot, shared
    <2> QED BY <2>1, <2>2, <2>3, Zenon DEF Goes
  <1>3. CASE ScanAgain(t)
    <2>1. \/ Goes(t, "acquire", thr[t].ip, thr[t].depth)
          \/ Goes(t, "await", thr[t].ip, thr[t].depth)
      BY <1>0, <1>3, Moves, Zenon
    <2>2. thr[t].pc = "scan" /\ acq' = acq /\ lc' = lc
      BY <1>3, Zenon DEF ScanAgain, shared
    <2>3. next_slot' = next_slot \/ (thr[t].slot < 0 /\ next_slot' = next_slot + 1)
      BY <1>3, Zenon DEF ScanAgain, shared
    <2> QED BY <2>1, <2>2, <2>3, Zenon DEF Goes
  <1>4. CASE ScanDone(t)
    <2>1. Goes(t, "acquire", thr[t].ip, thr[t].depth)
      BY <1>0, <1>4, Moves, Zenon
    <2>2. thr[t].pc = "scan" /\ acq' = acq /\ lc' = lc
      BY <1>4, Zenon DEF ScanDone, shared
    <2>3. next_slot' = next_slot \/ (thr[t].slot < 0 /\ next_slot' = next_slot + 1)
      BY <1>4, Zenon DEF ScanDone, shared
    <2> QED BY <2>1, <2>2, <2>3, Zenon DEF Goes
  <1>5. CASE Advance(t)
    <2>1. Goes(t, "run", IF Call(t).op = "wait" THEN thr[t].ip ELSE thr[t].ip + 1, thr[t].depth)
      BY <1>0, <1>5, Moves, Zenon
    <2>2. thr[t].pc = "advance" /\ acq' = acq /\ next_slot' = next_slot
      BY <1>5, Zenon DEF Advance
    <2>3. \A s \in Slots : s # thr[t].slot => lc'[s] = lc[s]
      BY <1>0, <1>5, Zenon DEF Advance
    <2> QED BY <2>1, <2>2, <2>3, Zenon DEF Goes
  <1>6. CASE LockEnter(t)
    <2>1. \/ Goes(t, "await", thr[t].ip, thr[t].depth)
          \/ Goes(t, "acquire", thr[t].ip, thr[t].depth)
      BY <1>0, <1>6, Moves, Zenon
    <2>2. thr[t].pc = "run" /\ acq' = acq /\ lc' = lc
      BY <1>6, Zenon DEF LockEnter, At, shared
    <2>3. next_slot' = next_slot \/ (thr[t].slot < 0 /\ next_slot' = next_slot + 1)
      BY <1>6, Zenon DEF LockEnter, EnsureRegistered, shared
    <2> QED BY <2>1, <2>2, <2>3, Zenon DEF Goes
  <1>7. CASE LockAcquire(t)
    <2>1. \/ Goes(t, "advance", thr[t].ip, 1)
          \/ Goes(t, "run", thr[t].ip + 1, thr[t].depth + 1)
      BY <1>0, <1>7, Moves, Zenon
    <2>2. thr[t].pc = "acquire" /\ lc' = lc /\ next_slot' = next_slot
      BY <1>7, Zenon DEF LockAcquire, At, shared
    <2>3. acq' = acq \/ thr[t].depth = 0
      BY <1>7, Zenon DEF LockAcquire, Acquired
    <2> QED BY <1>7, <2>1, <2>2, <2>3, Zenon DEF Goes
  <1>8. CASE TryLockBusy(t)
    <2>1. Goes(t, "run", Call(t).busy, thr[t].depth)
      BY <1>0, <1>8, Moves, Zenon
    <2>2. thr[t].pc = "acquire" /\ acq' = acq /\ lc' = lc /\ next_slot' = next_slot
      BY <1>8, Zenon DEF TryLockBusy, At, shared
    <2> QED BY <2>1, <2>2, Zenon DEF Goes
  <1>9. CASE Unlock(t)
    <2>1. Goes(t, "run", thr[t].ip + 1, IF thr[t].depth > 0 THEN thr[t].depth - 1 ELSE thr[t].depth)
      BY <1>0, <1>9, Moves, Zenon
    <2>2. /\ thr[t].pc = "run" /\ acq' = acq /\ lc' = lc /\ next_slot' = next_slot
          /\ thr[t].ip \in DOMAIN prog[t] /\ Call(t).op # "create"
      BY <1>9, Zenon DEF Unlock, At, shared
    <2> QED BY <2>1, <2>2, Zenon DEF Goes
  <1>10. CASE WaitOver(t)
    <2>1. Goes(t, "run", thr[t].ip + 1, thr[t].depth)
      BY <1>0, <1>10, Moves, Zenon
    <2>2. /\ thr[t].pc = "run" /\ acq' = acq /\ lc' = lc /\ next_slot' = next_slot
          /\ thr[t].ip \in DOMAIN prog[t] /\ Call(t).op # "create"
      BY <1>10, Zenon DEF WaitOver, At, shared
    <2> QED BY <2>1, <2>2, Zenon DEF Goes
  <1>11. CASE WaitLeave(t)
    <2>1. Goes(t, "park", thr[t].ip, thr[t].depth)
      BY <1>0, <1>11, Moves, Zenon
    <2>2. thr[t].pc = "run" /\ acq' = acq /\ lc' = lc
      BY <1>11, Zenon DEF WaitLeave, At, shared
    <2>3. next_slot' = next_slot \/ (thr[t].slot < 0 /\ next_slot' = next_slot + 1)
      BY <1>11, Zenon DEF WaitLeave, EnsureRegistered, shared
    <2> QED BY <2>1, <2>2, <2>3, Zenon DEF Goes
  <1>12. CASE WaitPark(t)
    <2>1. Goes(t, "parked", thr[t].ip, thr[t].depth)
      BY <1>0, <1>12, Moves, Zenon
    <2>2. thr[t].pc = "park" /\ acq' = acq /\ lc' = lc
      BY <1>12, Zenon DEF WaitPark, At, shared
    <2>3. next_slot' = next_slot \/ (thr[t].slot < 0 /\ next_slot' = next_slot + 1)
      BY <1>12, Zenon DEF WaitPark, shared
    <2> QED BY <2>1, <2>2, <2>3, Zenon DEF Goes
  <1>13. CASE WaitWake(t)
    <2>1. Goes(t, "return", thr[t].ip, thr[t].depth)
      BY <1>0, <1>13, Moves, Zenon
    <2>2. thr[t].pc = "parked" /\ acq' = acq /\ lc' = lc
      BY <1>13, Zenon DEF WaitWake, At, shared
    <2>3. next_slot' = next_slot \/ (thr[t].slot < 0 /\ next_slot' = next_slot + 1)
      BY <1>13, Zenon DEF WaitWake, shared
    <2> QED BY <2>1, <2>2, <2>3, Zenon DEF Goes
  <1>14. CASE WaitReturn(t)
    <2>1. Goes(t, "advance", thr[t].ip, thr[t].depth)
      BY <1>0, <1>14, Moves, Zenon
    <2>2. thr[t].pc = "return" /\ acq' = acq /\ lc' = lc
      BY <1>14, Zenon DEF WaitReturn, At, shared
    <2>3. next_slot' = next_slot \/ (thr[t].slot < 0 /\ next_slot' = next_slot + 1)
      BY <1>14, Zenon DEF WaitReturn, shared
    <2> QED BY <2>1, <2>2, <2>3, Zenon DEF Goes
  <1>15. CASE Signal(t)
    <2>1. Goes(t, "run", thr[t].ip + 1, thr[t].depth)
      BY <1>0, <1>15, Moves, Zenon
    <2>2. /\ thr[t].pc = "run" /\ acq' = acq /\ lc' = lc /\ next_slot' = next_slot
          /\ thr[t].ip \in DOMAIN prog[t] /\ Call(t).op # "create"
      BY <1>15, Zenon DEF Signal, At, shared
    <2> QED BY <2>1, <2>2, Zenon DEF Goes
  <1>16. CASE CreateSlot(t)
    BY <1>16, Zenon
  <1>17. CASE CreateThread(t)
    BY <1>17, Zenon
  <1>18. CASE Exit(t)
    <2>1. Goes(t, "done", thr[t].ip, thr[t].depth)
      BY <1>0, <1>18, Moves, Zenon
    <2>2. thr[t].pc = "run" /\ acq' = acq /\ lc' = lc
      BY <1>18, Zenon DEF Exit, shared
    <2>3. next_slot' = next_slot \/ (thr[t].slot < 0 /\ next_slot' = next_slot + 1)
      BY <1>18, Zenon DEF Exit, shared
    <2> QED BY <2>1, <2>2, <2>3, Zenon DEF Goes
  <1>19. CASE JoinLeave(t)
    <2>1. Goes(t, "join", thr[t].ip, thr[t].depth)
      BY <1>0, <1>19, Moves, Zenon
    <2>2. thr[t].pc = "run" /\ acq' = acq /\ lc' = lc
      BY <1>19, Zenon DEF JoinLeave, At, shared
    <2>3. next_slot' = next_slot \/ (thr[t].slot < 0 /\ next_slot' = next_slot + 1)
      BY <1>19, Zenon DEF JoinLeave, shared
    <2> QED BY <2>1, <2>2, <2>3, Zenon DEF Goes
  <1>20. CASE JoinReturn(t)
    <2>1. Goes(t, "run", thr[t].ip + 1, thr[t].depth)
      BY <1>0, <1>20, Moves, Zenon
    <2>2. /\ thr[t].pc = "join" /\ acq' = acq /\ lc' = lc /\ next_slot' = next_slot
          /\ thr[t].ip \in DOMAIN prog[t] /\ Call(t).op # "create"
      BY <1>20, Zenon DEF JoinReturn, At, shared
    <2> QED BY <2>1, <2>2, Zenon DEF Goes
  <1> QED
    BY <1>1, <1>2, <1>3, <1>4, <1>5, <1>6, <1>7, <1>8, <1>9, <1>10,
       <1>11, <1>12, <1>13, <1>14, <1>15, <1>16, <1>17, <1>18, <1>19, <1>20, Zenon DEF Step

\* Thread t has entered the sections it had entered, and its measure holds again.
Keeps(m, t) ==
  /\ Measured(m, t)'
  /\ \A j \in Nat : Entered(m, t, j)' = Entered(m, t, j)

\* A thread that stays at its call.
LEMMA StayKeeps ==
  ASSUME NEW m, InOrder(m), NEW t \in Threads, NEW pc, Goes(t, pc, thr[t].ip, thr[t].depth),
         Forward(t), thr'[t].ip \in Nat, prog' = prog, next_slot' \in Nat, next_slot' >= next_slot,
         pc = "advance" => Call(t).op = "wait",
         thr[t].pc = "advance" => Call(t).op = "wait",
         Contends(t) /\ Slotted(t) => lc'[thr[t].slot] = lc[thr[t].slot]
  PROVE  Keeps(m, t)
  <1>1. /\ thr'[t].pc = pc /\ thr'[t].ip = thr[t].ip /\ thr'[t].depth = thr[t].depth
        /\ thr'[t].slot = thr[t].slot /\ pc # "none" /\ thr[t].pc # "none"
        /\ Call(t)' = Call(t) /\ Slotted(t)' = Slotted(t)
    BY Zenon DEF Goes, Forward, Call, Slotted
  <1>2. Contends(t)' => Contends(t)
    BY ForwardContends, Zenon DEF InOrder
  <1>3. Measured(m, t) /\ next_slot \in Nat /\ MAXT \in Nat
    BY TableAssumption, Zenon DEF InOrder, OrderInv, Base, Typed
  <1>4. Measured(m, t)'
    BY <1>1, <1>2, <1>3 DEF Measured
  <1>5. ASSUME NEW j \in Nat
        PROVE  Entered(m, t, j)' = Entered(m, t, j)
    <2>1. Section(prog, m.depth, t, thr[t].ip) => Call(t).op # "wait"
      BY Zenon DEF Section, Call
    <2> QED BY <1>1, <2>1, Zenon DEF Entered
  <1> QED BY <1>4, <1>5, Zenon DEF Keeps

\* A thread that goes on to its next call, past one that is no section.
LEMMA PassKeeps ==
  ASSUME NEW m, InOrder(m), NEW t \in Threads, NEW d, Goes(t, "run", thr[t].ip + 1, d),
         Forward(t), prog' = prog, next_slot' \in Nat, next_slot' >= next_slot,
         thr[t].ip \in DOMAIN prog[t], ~Section(prog, m.depth, t, thr[t].ip),
         d = m.depth[t][thr[t].ip + 1],
         Contends(t) /\ Slotted(t) => lc'[thr[t].slot] = lc[thr[t].slot]
  PROVE  Keeps(m, t)
  <1>0. thr[t].ip \in Nat
    BY Zenon DEF InOrder, Base, Typed, ThreadState
  <1>1. /\ thr'[t].pc = "run" /\ thr'[t].ip = thr[t].ip + 1 /\ thr'[t].depth = d
        /\ thr'[t].slot = thr[t].slot /\ thr[t].pc # "none" /\ Slotted(t)' = Slotted(t)
    BY Zenon DEF Goes, Forward, Slotted
  <1>2. Contends(t)' => Contends(t)
    BY <1>0, <1>1, ForwardContends DEF InOrder
  <1>3. Measured(m, t) /\ next_slot \in Nat /\ MAXT \in Nat
    BY TableAssumption, Zenon DEF InOrder, OrderInv, Base, Typed
  <1>4. m.turns[t][thr[t].ip + 1] = m.turns[t][thr[t].ip]
    BY Zenon DEF InOrder, Measures
  <1>5. Measured(m, t)'
    BY <1>1, <1>2, <1>3, <1>4 DEF Measured
  <1>6. ASSUME NEW j \in Nat
        PROVE  Entered(m, t, j)' = Entered(m, t, j)
    <2>1. j < thr[t].ip + 1 <=> j < thr[t].ip \/ j = thr[t].ip
      BY <1>0
    <2> QED BY <1>1, <2>1, Zenon DEF Entered
  <1> QED BY <1>5, <1>6, Zenon DEF Keeps

\* Advancing the clock at the end of a critical section's entry: the clock is the
\* number of sections entered again.
LEMMA AdvanceKeeps ==
  ASSUME NEW m, InOrder(m), NEW t \in Threads, Advance(t), Call(t).op # "wait",
         Forward(t), thr'[t].ip \in Nat, prog' = prog
  PROVE  Keeps(m, t)
  <1>0. /\ thr[t].ip \in Nat /\ lc \in [Slots -> Nat] /\ thr[t].pc = "advance"
        /\ Slotted(t) => thr[t].slot \in Slots /\ ~(thr[t].slot < 0)
        /\ next_slot' = next_slot /\ Typed
    <2>1. Typed /\ thr[t] \in ThreadState /\ lc \in [Slots -> Nat]
      BY Zenon DEF InOrder, Base, Typed
    <2>2. thr[t].ip \in Nat /\ thr[t].slot \in Int
      BY <2>1 DEF ThreadState, Slots
    <2>3. thr[t].pc = "advance" /\ next_slot' = next_slot
      BY Zenon DEF Advance
    <2>4. Slotted(t) => thr[t].slot \in Slots /\ ~(thr[t].slot < 0)
      BY <2>1, <2>2 DEF ThreadState, Slotted, Slots
    <2> QED BY <2>1, <2>2, <2>3, <2>4, Zenon
  <1>1. Goes(t, "run", thr[t].ip + 1, thr[t].depth)
    BY <1>0, Moves, Zenon
  <1>2. /\ thr'[t].pc = "run" /\ thr'[t].ip = thr[t].ip + 1 /\ thr'[t].depth = thr[t].depth
        /\ thr'[t].slot = thr[t].slot /\ Slotted(t)' = Slotted(t)
    BY <1>1, Zenon DEF Goes, Slotted
  <1>3. Measured(m, t) /\ thr[t].depth = 1 /\ m.depth[t][thr[t].ip] = 0
    BY <1>0, Zenon DEF InOrder, OrderInv, Measured
  <1>4. Section(prog, m.depth, t, thr[t].ip)
    <2>1. Fits(prog[t], "advance", thr[t].ip)
      BY <1>0, Zenon DEF InOrder, Base, Placed
    <2> QED BY <1>3, <2>1, Zenon DEF Fits, Section, Call
  <1>5. /\ m.turns[t][thr[t].ip + 1] = m.turns[t][thr[t].ip] + 1
        /\ m.depth[t][thr[t].ip + 1] = 1
    BY <1>3, <1>4 DEF InOrder, Measures, Section
  <1>6. Slotted(t) => lc'[thr[t].slot] = lc[thr[t].slot] + 1
    BY <1>0, Zenon DEF Advance, Slotted
  <1>7. Contends(t)' => Contends(t)
    BY ForwardContends, Zenon DEF InOrder
  <1>8. Measured(m, t)'
    BY <1>0, <1>2, <1>3, <1>5, <1>6, <1>7, Zenon DEF Measured
  <1>9. ASSUME NEW j \in Nat
        PROVE  Entered(m, t, j)' = Entered(m, t, j)
    <2>1. j < thr[t].ip + 1 <=> j < thr[t].ip \/ j = thr[t].ip
      BY <1>0
    <2> QED BY <1>0, <1>2, <2>1, Zenon DEF Entered
  <1> QED BY <1>8, <1>9, Zenon DEF Keeps

\* A trylock that fails passes no critical section.
LEMMA BusyKeeps ==
  ASSUME NEW m, InOrder(m), NEW t \in Threads, TryLockBusy(t),
         Forward(t), thr'[t].ip \in Nat, prog' = prog
  PROVE  Keeps(m, t)
  <1> DEFINE b == Call(t).busy
  <1>0. /\ thr[t].pc = "acquire" /\ thr[t].ip \in DOMAIN prog[t] /\ Call(t).op = "trylock"
        /\ next_slot' = next_slot /\ lc' = lc /\ Typed
    BY Zenon DEF TryLockBusy, At, shared, InOrder, Base
  <1>1. Goes(t, "run", b, thr[t].depth)
    BY <1>0, Moves, Zenon
  <1>2. /\ Len(prog[t]) \in Nat /\ DOMAIN prog[t] = 1..Len(prog[t])
        /\ b \in 1..(Len(prog[t]) + 1)
    BY <1>0, CallFacts, Zenon
  <1>3. b > thr[t].ip
    BY <1>0, Zenon DEF InOrder, CreatedFirst, Call
  <1>4. m.depth[t][b] = m.depth[t][thr[t].ip] /\ m.turns[t][b] = m.turns[t][thr[t].ip]
    BY <1>0, Zenon DEF InOrder, Measures, Call
  <1> HIDE DEF b
  <1>5. /\ thr'[t].pc = "run" /\ thr'[t].ip = b /\ thr'[t].depth = thr[t].depth
        /\ thr'[t].slot = thr[t].slot /\ Slotted(t)' = Slotted(t)
    BY <1>1, Zenon DEF Goes, Slotted
  <1>6. Contends(t)' => Contends(t)
    BY ForwardContends, Zenon DEF InOrder
  <1>7. Measured(m, t)
    BY Zenon DEF InOrder, OrderInv
  <1>8. Measured(m, t)'
    BY <1>0, <1>4, <1>5, <1>6, <1>7, Zenon DEF Measured
  <1>9. ASSUME NEW j \in Nat, Section(prog, m.depth, t, j), j >= thr[t].ip, j < b
        PROVE  FALSE
    <2>1. j \in 1..(Len(prog[t]) + 1) /\ thr[t].ip \in 1..(Len(prog[t]) + 1)
      BY <1>0, <1>2, <1>9 DEF Section
    <2>2. m.turns[t][j] < m.turns[t][b]
      BY <1>2, <1>9, <2>1, Zenon DEF InOrder, Measures
    <2>3. j > thr[t].ip => m.turns[t][thr[t].ip] <= m.turns[t][j]
      BY <2>1, Zenon DEF InOrder, Measures
    <2>4. j > thr[t].ip \/ j = thr[t].ip
      BY <1>9, <2>1
    <2>5. m.turns[t][j] \in Nat /\ m.turns[t][b] \in Nat
      BY <1>2, <2>1, MeasureTypes, Zenon DEF InOrder
    <2> QED BY <1>4, <2>2, <2>3, <2>4, <2>5
  <1>10. ASSUME NEW j \in Nat
         PROVE  Entered(m, t, j)' = Entered(m, t, j)
    <2>1. thr[t].ip \in Nat /\ b \in Nat /\ (j < thr[t].ip => j < b)
      BY <1>0, <1>2, <1>3
    <2> QED BY <1>0, <1>5, <1>9, <2>1 DEF Entered
  <1> QED BY <1>8, <1>10, Zenon DEF Keeps

\* Every step but a creation and a turn's acquisition keeps what its thread entered.
LEMMA OwnKeeps ==
  ASSUME NEW m, InOrder(m), NEW t \in Threads, Step(t), ~CreateSlot(t), ~CreateThread(t), ~relaxed',
         ~(LockAcquire(t) /\ thr[t].depth = 0)
  PROVE  Keeps(m, t)
  <1>0. /\ Typed /\ prog' = prog /\ Forward(t) /\ thr'[t].ip \in Nat
        /\ next_slot' \in Nat /\ next_slot' >= next_slot
    <2>1. Base /\ CreatedFirst(prog)
      BY Zenon DEF InOrder
    <2>2. thr'[t].ip \in Nat
      BY <2>1, ThreadsTyped, Zenon DEF Base, ThreadState
    <2> QED BY <2>1, <2>2, TableTyped, AppTyped, GoForward, Zenon DEF Base
  <1>m. /\ Measured(m, t) /\ thr[t].depth \in Nat /\ thr[t].ip \in Nat
        /\ thr[t].ip \in DOMAIN prog[t] =>
             /\ Call(t).op \in {"lock", "trylock"} =>
                  m.depth[t][thr[t].ip + 1] = m.depth[t][thr[t].ip] + 1
             /\ Call(t).op = "unlock" =>
                  m.depth[t][thr[t].ip + 1] =
                    IF m.depth[t][thr[t].ip] > 0 THEN m.depth[t][thr[t].ip] - 1 ELSE 0
             /\ Call(t).op \notin {"lock", "trylock", "unlock"} =>
                  m.depth[t][thr[t].ip + 1] = m.depth[t][thr[t].ip]
    <2>1. Measured(m, t) /\ thr[t].depth \in Nat /\ thr[t].ip \in Nat
      BY Zenon DEF InOrder, OrderInv, Base, Typed, ThreadState
    <2> QED BY <2>1, Zenon DEF InOrder, Measures, Call
  <1>s. ASSUME NEW pc, Goes(t, pc, thr[t].ip, thr[t].depth),
               pc # "advance", thr[t].pc # "advance", lc' = lc
        PROVE  Keeps(m, t)
    BY <1>0, <1>s, StayKeeps, Zenon
  <1>1. CASE AwaitTurn(t)
    <2>1. \/ Goes(t, "acquire", thr[t].ip, thr[t].depth)
          \/ Goes(t, "scan", thr[t].ip, thr[t].depth)
      BY <1>0, <1>1, Moves, Zenon
    <2>2. thr[t].pc = "await" /\ lc' = lc
      BY <1>1, Zenon DEF AwaitTurn, shared
    <2> QED BY <1>s, <2>1, <2>2, Zenon
  <1>2. CASE ScanSlot(t)
    <2>1. Goes(t, "scan", thr[t].ip, thr[t].depth)
      BY <1>0, <1>2, Moves, Zenon
    <2>2. thr[t].pc = "scan" /\ lc' = lc
      BY <1>2, Zenon DEF ScanSlot, shared
    <2> QED BY <1>s, <2>1, <2>2, Zenon
  <1>3. CASE ScanAgain(t)
    <2>1. \/ Goes(t, "acquire", thr[t].ip, thr[t].depth)
          \/ Goes(t, "await", thr[t].ip, thr[t].depth)
      BY <1>0, <1>3, Moves, Zenon
    <2>2. thr[t].pc = "scan" /\ lc' = lc
      BY <1>3, Zenon DEF ScanAgain, shared
    <2> QED BY <1>s, <2>1, <2>2, Zenon
  <1>4. CASE ScanDone(t)
    <2>1. Goes(t, "acquire", thr[t].ip, thr[t].depth)
      BY <1>0, <1>4, Moves, Zenon
    <2>2. thr[t].pc = "scan" /\ lc' = lc
      BY <1>4, Zenon DEF ScanDone, shared
    <2> QED BY <1>s, <2>1, <2>2, Zenon
  <1>5. CASE Advance(t)
    <2>1. CASE Call(t).op = "wait"
      <3>1. Goes(t, "run", thr[t].ip, thr[t].depth)
        BY <1>0, <1>5, <2>1, Moves, Zenon
      <3>2. ~Contends(t)
        BY <2>1, Retired, Zenon DEF InOrder
      <3> QED BY <1>0, <2>1, <3>1, <3>2, StayKeeps, Zenon
    <2>2. CASE Call(t).op # "wait"
      BY <1>0, <1>5, <2>2, AdvanceKeeps, Zenon
    <2> QED BY <2>1, <2>2, Zenon
  <1>6. CASE LockEnter(t)
    <2>1. \/ Goes(t, "await", thr[t].ip, thr[t].depth)
          \/ Goes(t, "acquire", thr[t].ip, thr[t].depth)
      BY <1>0, <1>6, Moves, Zenon
    <2>2. thr[t].pc = "run" /\ lc' = lc
      BY <1>6, Zenon DEF LockEnter, At, shared
    <2> QED BY <1>s, <2>1, <2>2, Zenon
  <1>7. CASE LockAcquire(t)
    <2>1. Goes(t, "run", thr[t].ip + 1, thr[t].depth + 1)
      BY <1>0, <1>7, Moves, Zenon
    <2>2. /\ thr[t].pc = "acquire" /\ lc' = lc /\ thr[t].ip \in DOMAIN prog[t]
          /\ Call(t).op \in {"lock", "trylock"} /\ thr[t].depth # 0
      BY <1>7, Zenon DEF LockAcquire, At, shared
    <2>3. thr[t].depth = m.depth[t][thr[t].ip]
      BY <1>m, <2>2, Zenon DEF Measured
    <2>4. ~Section(prog, m.depth, t, thr[t].ip)
      BY <2>2, <2>3, Zenon DEF Section
    <2>5. thr[t].depth + 1 = m.depth[t][thr[t].ip + 1]
      BY <1>m, <2>2, <2>3, Zenon
    <2> QED BY <1>0, <2>1, <2>2, <2>4, <2>5, PassKeeps, Zenon
  <1>8. CASE TryLockBusy(t)
    BY <1>0, <1>8, BusyKeeps, Zenon
  <1>9. CASE Unlock(t)
    <2> DEFINE d == IF thr[t].depth > 0 THEN thr[t].depth - 1 ELSE thr[t].depth
    <2>1. Goes(t, "run", thr[t].ip + 1, d)
      BY <1>0, <1>9, Moves, Zenon
    <2>2. /\ thr[t].pc = "run" /\ lc' = lc /\ thr[t].ip \in DOMAIN prog[t]
          /\ Call(t).op = "unlock"
      BY <1>9, Zenon DEF Unlock, At, shared
    <2>3. ~Section(prog, m.depth, t, thr[t].ip)
      BY <2>2, Zenon DEF Section, Call
    <2>4. d = m.depth[t][thr[t].ip + 1]
      BY <1>m, <2>2 DEF Measured
    <2> HIDE DEF d
    <2> QED BY <1>0, <2>1, <2>2, <2>3, <2>4, PassKeeps, Zenon
  <1>10. CASE WaitOver(t)
    <2>1. Goes(t, "run", thr[t].ip + 1, thr[t].depth)
      BY <1>0, <1>10, Moves, Zenon
    <2>2. /\ thr[t].pc = "run" /\ lc' = lc /\ thr[t].ip \in DOMAIN prog[t]
          /\ Call(t).op \notin {"lock", "trylock", "unlock"}
      BY <1>10, Zenon DEF WaitOver, At, shared
    <2>3. ~Section(prog, m.depth, t, thr[t].ip)
      BY <2>2, Zenon DEF Section, Call
    <2>4. thr[t].depth = m.depth[t][thr[t].ip + 1]
      BY <1>m, <2>2, Zenon DEF Measured
    <2> QED BY <1>0, <2>1, <2>2, <2>3, <2>4, PassKeeps, Zenon
  <1>11. CASE WaitLeave(t)
    <2>1. Goes(t, "park", thr[t].ip, thr[t].depth)
      BY <1>0, <1>11, Moves, Zenon
    <2>2. thr[t].pc = "run" /\ lc' = lc
      BY <1>11, Zenon DEF WaitLeave, At, shared
    <2> QED BY <1>s, <2>1, <2>2, Zenon
  <1>12. CASE WaitPark(t)
    <2>1. Goes(t, "parked", thr[t].ip, thr[t].depth)
      BY <1>0, <1>12, Moves, Zenon
    <2>2. thr[t].pc = "park" /\ lc' = lc
      BY <1>12, Zenon DEF WaitPark, At, shared
    <2> QED BY <1>s, <2>1, <2>2, Zenon
  <1>13. CASE WaitWake(t)
    <2>1. Goes(t, "return", thr[t].ip, thr[t].depth)
      BY <1>0, <1>13, Moves, Zenon
    <2>2. thr[t].pc = "parked" /\ lc' = lc
      BY <1>13, Zenon DEF WaitWake, At, shared
    <2> QED BY <1>s, <2>1, <2>2, Zenon
  <1>14. CASE WaitReturn(t)
    <2>1. Goes(t, "advance", thr[t].ip, thr[t].depth)
      BY <1>0, <1>14, Moves, Zenon
    <2>2. thr[t].pc = "return" /\ lc' = lc /\ Call(t).op = "wait"
      BY <1>14, Zenon DEF WaitReturn, At
    <2> QED BY <1>0, <2>1, <2>2, StayKeeps, Zenon
  <1>15. CASE Signal(t)
    <2>1. Goes(t, "run", thr[t].ip + 1, thr[t].depth)
      BY <1>0, <1>15, Moves, Zenon
    <2>2. /\ thr[t].pc = "run" /\ lc' = lc /\ thr[t].ip \in DOMAIN prog[t]
          /\ Call(t).op \notin {"lock", "trylock", "unlock"}
      BY <1>15, Zenon DEF Signal, At, shared
    <2>3. ~Section(prog, m.depth, t, thr[t].ip)
      BY <2>2, Zenon DEF Section, Call
    <2>4. thr[t].depth = m.depth[t][thr[t].ip + 1]
      BY <1>m, <2>2, Zenon DEF Measured
    <2> QED BY <1>0, <2>1, <2>2, <2>3, <2>4, PassKeeps, Zenon
  <1>16. CASE CreateSlot(t)
    BY <1>16, Zenon
  <1>17. CASE CreateThread(t)
    BY <1>17, Zenon
  <1>18. CASE Exit(t)
    <2>1. Goes(t, "done", thr[t].ip, thr[t].depth)
      BY <1>0, <1>18, Moves, Zenon
    <2>2. thr[t].pc = "run" /\ lc' = lc
      BY <1>18, Zenon DEF Exit, shared
    <2> QED BY <1>s, <2>1, <2>2, Zenon
  <1>19. CASE JoinLeave(t)
    <2>1. Goes(t, "join", thr[t].ip, thr[t].depth)
      BY <1>0, <1>19, Moves, Zenon
    <2>2. thr[t].pc = "run" /\ lc' = lc
      BY <1>19, Zenon DEF JoinLeave, At, shared
    <2> QED BY <1>s, <2>1, <2>2, Zenon
  <1>20. CASE JoinReturn(t)
    <2>1. Goes(t, "run", thr[t].ip + 1, thr[t].depth)
      BY <1>0, <1>20, Moves, Zenon
    <2>2. /\ thr[t].pc = "join" /\ lc' = lc /\ thr[t].ip \in DOMAIN prog[t]
          /\ Call(t).op \notin {"lock", "trylock", "unlock"}
      BY <1>20, Zenon DEF JoinReturn, At, shared
    <2>3. ~Section(prog, m.depth, t, thr[t].ip)
      BY <2>2, Zenon DEF Section, Call
    <2>4. thr[t].depth = m.depth[t][thr[t].ip + 1]
      BY <1>m, <2>2, Zenon DEF Measured
    <2> QED BY <1>0, <2>1, <2>2, <2>3, <2>4, PassKeeps, Zenon
  <1> QED
    BY <1>1, <1>2, <1>3, <1>4, <1>5, <1>6, <1>7, <1>8, <1>9, <1>10,
       <1>11, <1>12, <1>13, <1>14, <1>15, <1>16, <1>17, <1>18, <1>19, <1>20, Zenon DEF Step

\* While main creates, no step but its creations hands out a slot of the table.
LEMMA HandingStep ==
  ASSUME NEW m, InOrder(m), NEW t \in Threads, Step(t), ~CreateSlot(t), ~CreateThread(t)
  PROVE  Handing(m)' /\ Launched'
  <1>0. /\ Base /\ Started /\ CreatedFirst(prog) /\ Measures(m, prog)
        /\ Handing(m) /\ Launched /\ Measured(m, t)
    BY Zenon DEF InOrder, OrderInv
  <1>1. prog' = prog /\ Forward(t) /\ thr'[t].ip \in Nat
    <2>1. thr'[t].ip \in Nat
      BY <1>0, ThreadsTyped, Zenon DEF Base, ThreadState
    <2> QED BY <1>0, <2>1, AppTyped, GoForward, Zenon DEF Base
  <1>2. /\ next_slot' = next_slot \/ (thr[t].slot < 0 /\ next_slot' = next_slot + 1)
        /\ thr[t].pc # "create" /\ thr'[t].pc # "create"
        /\ \/ thr[t].pc \in {"acquire", "advance"}
           \/ thr'[t].ip = thr[t].ip
           \/ thr[t].ip \in DOMAIN prog[t] /\ Call(t).op # "create" /\ thr'[t].ip = thr[t].ip + 1
    BY <1>0, SmallMoves, Zenon
  <1>3. /\ 0 \in Threads /\ thr[0].ip \in Nat /\ Len(prog[0]) \in Nat
        /\ DOMAIN prog[0] = 1..Len(prog[0])
        /\ thr[0].ip \in 1..(Len(prog[0]) + 1)
        /\ m.made[thr[0].ip] \in Nat
    BY <1>0, MeasureTypes, ThreadsAssumption, Zenon
  <1>4. ASSUME Creating'
        PROVE  /\ thr'[0].ip = thr[0].ip
                  \/ (thr[0].ip \in DOMAIN prog[0] /\ prog[0][thr[0].ip].op # "create"
                        /\ thr'[0].ip = thr[0].ip + 1)
               /\ HandedOut(m)' = HandedOut(m) /\ Creating
    <2>1. Creating /\ thr[0].pc \notin {"acquire", "advance"}
      BY <1>0, <1>1, <1>4, ForwardContends, MainCreates, Zenon
    <2>2. CASE t # 0
      BY <1>1, <1>3, <2>1, <2>2, Zenon DEF Forward, HandedOut
    <2>3. CASE t = 0
      <3>1. thr'[0].ip = thr[0].ip
            \/ (thr[0].ip \in DOMAIN prog[0] /\ prog[0][thr[0].ip].op # "create"
                  /\ thr'[0].ip = thr[0].ip + 1)
        BY <1>2, <2>1, <2>3, Zenon DEF Call
      <3>2. m.made[thr'[0].ip] = m.made[thr[0].ip]
        <4>1. CASE thr'[0].ip = thr[0].ip
          BY <4>1, Zenon
        <4>2. CASE /\ thr[0].ip \in DOMAIN prog[0] /\ prog[0][thr[0].ip].op # "create"
                   /\ thr'[0].ip = thr[0].ip + 1
          BY <1>0, <4>2, Zenon DEF Measures
        <4> QED BY <3>1, <4>1, <4>2, Zenon
      <3> QED BY <1>2, <2>1, <2>3, <3>1, <3>2, Zenon DEF HandedOut
    <2> QED BY <2>2, <2>3, Zenon
  <1>5. Handing(m)'
    <2> SUFFICES ASSUME Creating' PROVE Handing(m)'
      BY Zenon DEF Handing
    <2>1. HandedOut(m)' = HandedOut(m) /\ Creating
      BY <1>4, Zenon
    <2>2. /\ next_slot \in Nat /\ MAXT \in Nat /\ HandedOut(m) \in Nat
          /\ thr[t].slot < 0 => ~Slotted(t)
      <3>1. next_slot \in Nat /\ MAXT \in Nat /\ thr[t].slot \in Int
        BY <1>0, TableAssumption DEF Base, Typed, ThreadState, Slots
      <3>2. HandedOut(m) \in Nat
        BY <1>3 DEF HandedOut
      <3> QED BY <3>1, <3>2 DEF Slotted
    <2>3. thr[t].slot < 0 => next_slot > MAXT
      BY <1>0, <1>1, <2>2, Zenon DEF Measured, Forward
    <2>4. next_slot = HandedOut(m) \/ (next_slot > MAXT /\ HandedOut(m) > MAXT)
      BY <1>0, <2>1, Zenon DEF Handing
    <2>5. (next_slot = HandedOut(m) \/ (next_slot > MAXT /\ HandedOut(m) > MAXT))'
      BY <1>2, <2>1, <2>2, <2>3, <2>4
    <2>6. ASSUME thr'[0].pc = "create"
          PROVE  (LET v == Call(0).thread IN
                    thr[v].slot = m.slot[v] /\ (~Slotted(v) => next_slot > MAXT))'
      <3> DEFINE v == Call(0).thread
      <3>1. t # 0 /\ thr'[0] = thr[0]
        BY <1>1, <1>2, <1>3, <2>6, Zenon DEF Forward
      <3>2. Call(0).op = "create" /\ thr[0].ip \in DOMAIN prog[0]
        BY <1>0, <1>3, <2>6, <3>1, Zenon DEF Base, Placed, Fits, Call
      <3>3. v \in Threads /\ thr[v].pc = "none"
        BY <1>0, <1>3, <3>2, Creator, Zenon
      <3>4. thr'[v] = thr[v]
        BY <1>1, <3>3, Zenon DEF Forward
      <3>5. Call(0)' = Call(0)
        BY <1>1, <3>1, Zenon DEF Call
      <3>6. thr[v].slot = m.slot[v] /\ (~Slotted(v) => next_slot > MAXT)
        BY <1>0, <2>1, <2>6, <3>1, Zenon DEF Handing
      <3>7. next_slot > MAXT => next_slot' > MAXT
        BY <1>2, <2>2
      <3> QED BY <3>4, <3>5, <3>6, <3>7, Zenon DEF Slotted
    <2> QED BY <2>5, <2>6, Zenon DEF Handing
  <1>6. ASSUME NEW j \in DOMAIN prog[0], j < thr'[0].ip, prog[0][j].op = "create"
        PROVE  thr'[prog[0][j].thread].pc # "none"
    <2>1. j \in Nat /\ prog[0][j].thread \in Threads
      BY <1>0, <1>3, <1>6, Programs, CallNames DEF Base
    <2>2. j < thr[0].ip
      <3> SUFFICES ASSUME j >= thr[0].ip PROVE FALSE
        BY <1>3, <2>1
      <3>1. t = 0
        BY <1>1, <1>3, <1>6, <2>1 DEF Forward
      <3>2. Creating
        BY <1>6, Zenon DEF Creating
      <3>3. thr[0].pc \notin {"acquire", "advance"}
        BY <1>0, <3>2, MainCreates, Zenon
      <3>4. thr[0].ip \in DOMAIN prog[0] /\ prog[0][thr[0].ip].op # "create" /\ thr'[0].ip = thr[0].ip + 1
        BY <1>2, <1>3, <1>6, <2>1, <3>1, <3>3 DEF Call
      <3>5. j = thr[0].ip
        BY <1>3, <1>6, <2>1, <3>4
      <3> QED BY <1>6, <3>4, <3>5, Zenon
    <2>3. thr[prog[0][j].thread].pc # "none"
      BY <1>0, <1>6, <2>2, Zenon DEF Launched
    <2> QED BY <1>1, <2>1, <2>3, Zenon DEF Forward
  <1>7. Launched'
    BY <1>1, <1>6, Zenon DEF Launched
  <1> QED BY <1>5, <1>7, Zenon

\* Every step but a creation and a turn's acquisition keeps the order.
LEMMA PlainOrder ==
  ASSUME NEW m, InOrder(m), NEW t \in Threads, Step(t), ~CreateSlot(t), ~CreateThread(t), ~relaxed',
         ~(LockAcquire(t) /\ thr[t].depth = 0)
  PROVE  OrderInv(m)'
  <1>0. /\ Base /\ Started /\ CreatedFirst(prog) /\ History(m) /\ Follows(m)
        /\ \A u \in Threads : Measured(m, u)
    BY Zenon DEF InOrder, OrderInv
  <1>1. /\ prog' = prog /\ run' = run /\ first' = first /\ Forward(t) /\ thr'[t].ip \in Nat
        /\ next_slot' \in Nat /\ next_slot' >= next_slot
    <2>1. thr'[t].ip \in Nat
      BY <1>0, ThreadsTyped, Zenon DEF Base, ThreadState
    <2> QED BY <1>0, <2>1, TableTyped, AppTyped, GoForward, Zenon DEF Base
  <1>2. Keeps(m, t) /\ Handing(m)' /\ Launched'
    BY OwnKeeps, HandingStep, Zenon
  <1>3. acq' = acq /\ \A s \in Slots : s # thr[t].slot => lc'[s] = lc[s]
    BY <1>0, SmallMoves, Zenon
  <1>4. \A u \in Threads : Measured(m, u)'
    BY <1>0, <1>1, <1>2, <1>3, ForwardMeasured, Zenon DEF Keeps
  <1>5. \A u \in Threads : \A j \in Nat : Entered(m, u, j)' = Entered(m, u, j)
    BY <1>1, <1>2, Zenon DEF Keeps, Forward, Entered
  <1>6. History(m)' /\ Follows(m)'
    BY <1>0, <1>1, <1>3, <1>5, SteadyHistory, Zenon
  <1> QED BY <1>2, <1>4, <1>6, Zenon DEF OrderInv

-----------------------------------------------------------------------------
(* Entering a critical section *)

\* A thread that runs was born.
LEMMA Running ==
  ASSUME Started, NEW t \in Threads, thr[t].pc # "none"
  PROVE  Born(t)
  BY Zenon DEF Started, Born

\* The section a thread enters with its turn comes before every section that is
\* still to be entered by a thread with a slot.
LEMMA TurnIsEarliest ==
  ASSUME NEW m, InOrder(m), NEW t \in Threads, LockAcquire(t), thr[t].depth = 0
  PROVE  /\ Section(prog, m.depth, t, thr[t].ip) /\ m.slot[t] >= 0
         /\ \A u \in Threads : \A j \in DOMAIN prog[u] :
              /\ Born(u) /\ Section(prog, m.depth, u, j) /\ m.slot[u] >= 0 /\ ~Entered(m, u, j)
              /\ u # t \/ j # thr[t].ip
              => Earlier(m, <<t, thr[t].ip>>, <<u, j>>)
  <1>0. /\ Base /\ Started /\ CreatedFirst(prog) /\ Measures(m, prog) /\ Turns /\ Launched
        /\ \A u \in Threads : Measured(m, u)
    BY Zenon DEF InOrder, OrderInv
  <1>1. /\ thr[t].pc = "acquire" /\ thr[t].ip \in DOMAIN prog[t] /\ Call(t).op \in {"lock", "trylock"}
        /\ InTurn(t)
    BY Zenon DEF LockAcquire, At, InTurn
  <1>2. /\ Slotted(t) /\ ~Creating
        /\ \A u \in Threads \ {t} : Contends(u) /\ Slotted(u) => Ahead(t, u)
    BY <1>0, <1>1, Zenon DEF Turns, HoldTurn
  <1>3. m.depth[t][thr[t].ip] = 0 /\ m.slot[t] = thr[t].slot
    BY <1>0, <1>1, Zenon DEF Measured
  <1>4. Section(prog, m.depth, t, thr[t].ip) /\ m.slot[t] >= 0
    BY <1>1, <1>2, <1>3, Zenon DEF Section, Call, Slotted
  <1>5. thr[t].ip \in Nat /\ lc[thr[t].slot] = m.turns[t][thr[t].ip]
    <2>1. thr[t].ip \in Nat
      BY <1>0, MeasureTypes, Zenon
    <2>2. Contends(t)
      BY <1>1, <2>1 DEF Contends, Call
    <2> QED BY <1>0, <1>2, <2>1, <2>2, Zenon DEF Measured
  <1>6. ASSUME NEW u \in Threads, NEW j \in DOMAIN prog[u],
               Born(u), Section(prog, m.depth, u, j), m.slot[u] >= 0, ~Entered(m, u, j),
               u # t \/ j # thr[t].ip
        PROVE  Earlier(m, <<t, thr[t].ip>>, <<u, j>>)
    <2>1. /\ thr[u].ip \in Nat \ {0} /\ DOMAIN prog[u] = 1..Len(prog[u]) /\ Len(prog[u]) \in Nat
          /\ thr[u].ip \in 1..(Len(prog[u]) + 1)
      BY <1>0, MeasureTypes, Zenon
    <2>2. j \in Nat /\ j \in 1..(Len(prog[u]) + 1)
      BY <2>1
    <2>3. thr[u].pc # "none"
      <3>1. CASE u = 0
        BY <1>0, <3>1, Zenon DEF Started
      <3>2. CASE u # 0
        <4>1. PICK k \in DOMAIN prog[0] : prog[0][k].op = "create" /\ prog[0][k].thread = u
          BY <1>6, <3>2, Zenon DEF Born
        <4>2. k \in Nat /\ thr[0].ip \in Nat
          BY <1>0, <4>1, MeasureTypes, ThreadsAssumption
        <4>3. k < thr[0].ip
          BY <1>2, <4>1, <4>2 DEF Creating
        <4> QED BY <1>0, <4>1, <4>3, Zenon DEF Launched
      <3> QED BY <3>1, <3>2, Zenon
    <2>4. j >= thr[u].ip
      BY <1>6, <2>1, <2>2, <2>3 DEF Entered
    <2>5. CASE u = t
      <3>1. thr[t].ip < j
        BY <1>6, <2>1, <2>2, <2>4, <2>5
      <3>2. m.turns[t][thr[t].ip] < m.turns[t][j]
        BY <1>0, <1>4, <2>1, <2>2, <2>5, <3>1, Zenon DEF Measures
      <3> QED BY <2>5, <3>2, Zenon DEF Earlier
    <2>6. CASE u # t
      <3>1. thr[u].pc # "done"
        <4>1. Fits(prog[u], thr[u].pc, thr[u].ip)
          BY <1>0, Zenon DEF Base, Placed
        <4> QED BY <2>1, <2>2, <2>4, <4>1 DEF Fits
      <3>2. Contends(u)
        BY <1>6, <2>3, <2>4, <3>1, Zenon DEF Contends, Section
      <3>3. Slotted(u) /\ thr[u].slot = m.slot[u]
        BY <1>0, <1>6, <2>3, Zenon DEF Measured, Slotted
      <3>4. Ahead(t, u) /\ lc[thr[u].slot] = m.turns[u][thr[u].ip]
        BY <1>0, <1>2, <2>6, <3>2, <3>3, Zenon DEF Measured
      <3>5. thr[u].ip < j => m.turns[u][thr[u].ip] <= m.turns[u][j]
        BY <1>0, <2>1, <2>2, Zenon DEF Measures
      <3>6. m.turns[u][thr[u].ip] <= m.turns[u][j]
            /\ m.turns[u][thr[u].ip] \in Nat /\ m.turns[u][j] \in Nat
        BY <1>0, <2>1, <2>2, <2>4, <3>5, MeasureTypes, SMTT(30)
      <3>7. m.turns[t][thr[t].ip] \in Nat
        BY <1>0, MeasureTypes, Zenon
      <3>8. \/ m.turns[t][thr[t].ip] < m.turns[u][thr[u].ip]
            \/ m.turns[t][thr[t].ip] = m.turns[u][thr[u].ip] /\ m.slot[t] < m.slot[u]
        BY <1>3, <1>5, <3>3, <3>4, Zenon DEF Ahead
      <3>9. \/ m.turns[t][thr[t].ip] < m.turns[u][j]
            \/ m.turns[t][thr[t].ip] = m.turns[u][j] /\ m.slot[t] < m.slot[u]
        BY <3>6, <3>7, <3>8
      <3> QED BY <3>9, Zenon DEF Earlier
    <2> QED BY <2>5, <2>6, Zenon
  <1> QED BY <1>4, <1>6, Zenon

\* No section comes before itself, and of two only one before the other.
LEMMA OneWay ==
  ASSUME NEW m, Base, Measures(m, prog), NEW t \in Threads, NEW j \in DOMAIN prog[t],
         NEW u \in Threads, NEW k \in DOMAIN prog[u]
  PROVE  ~(Earlier(m, <<t, j>>, <<u, k>>) /\ Earlier(m, <<u, k>>, <<t, j>>))
  <1>1. m.turns[t][j] \in Nat /\ m.slot[t] \in Int
    <2>1. j \in 1..(Len(prog[t]) + 1)
      BY MeasureTypes
    <2> QED BY <2>1, MeasureTypes, Zenon
  <1>2. m.turns[u][k] \in Nat /\ m.slot[u] \in Int
    <2>1. k \in 1..(Len(prog[u]) + 1)
      BY MeasureTypes
    <2> QED BY <2>1, MeasureTypes, Zenon
  <1> QED BY <1>1, <1>2 DEF Earlier

\* Appending the section entered keeps the history sorted and closed downwards.
LEMMA EnterHistory ==
  ASSUME NEW m, InOrder(m), NEW t \in Threads, LockAcquire(t), thr[t].depth = 0
  PROVE  /\ History(m)'
         /\ \A u \in Threads : \A j \in Nat :
              Entered(m, u, j)' <=> Entered(m, u, j) \/ (u = t /\ j = thr[t].ip)
         /\ ~Entered(m, t, thr[t].ip)
         /\ acq' = Append(acq, <<t, thr[t].ip>>) /\ prog' = prog
  <1> DEFINE p == <<t, thr[t].ip>>
             n == Len(acq) + 1
  <1>0. Base /\ Started /\ Measures(m, prog) /\ History(m) /\ Typed
    BY Zenon DEF InOrder, OrderInv, Base
  <1>1. /\ Section(prog, m.depth, t, thr[t].ip) /\ m.slot[t] >= 0
        /\ \A u \in Threads : \A j \in DOMAIN prog[u] :
             /\ Born(u) /\ Section(prog, m.depth, u, j) /\ m.slot[u] >= 0 /\ ~Entered(m, u, j)
             /\ u # t \/ j # thr[t].ip
             => Earlier(m, p, <<u, j>>)
    BY TurnIsEarliest, Zenon
  <1>2. acq' = Append(acq, p) /\ prog' = prog /\ thr[t].pc = "acquire"
    BY Zenon DEF LockAcquire, Acquired, history, At
  <1>3. Goes(t, "advance", thr[t].ip, 1)
    BY <1>0, Moves, Zenon
  <1>4. \A u \in Threads : Born(u)' = Born(u)
    BY <1>2, Zenon DEF Born
  <1>5. thr[t].ip \in Nat /\ \A u \in Threads : \A j \in DOMAIN prog[u] : j \in Nat
    BY <1>0, MeasureTypes, Programs
  <1>6. ~Entered(m, t, thr[t].ip)
    BY <1>2, <1>5 DEF Entered
  <1>7. ASSUME NEW u \in Threads, NEW j \in Nat
        PROVE  Entered(m, u, j)' <=> Entered(m, u, j) \/ (u = t /\ j = thr[t].ip)
    <2>1. CASE u # t
      BY <1>2, <1>3, <2>1, Zenon DEF Goes, Entered
    <2>2. CASE u = t
      <3>1. thr'[t].pc = "advance" /\ thr'[t].ip = thr[t].ip
        BY <1>3, Zenon DEF Goes
      <3> QED BY <1>1, <1>2, <2>2, <3>1, Zenon DEF Entered
    <2> QED BY <2>1, <2>2, Zenon
  <1>8. acq \in Seq(Threads \X Nat) /\ p \in Threads \X Nat
    BY <1>0, <1>5, Zenon DEF History
  <1>9. /\ n \in Nat \ {0} /\ acq' \in Seq(Threads \X Nat) /\ Len(acq') = n /\ acq'[n] = p
        /\ \A k \in 1..Len(acq) : acq'[k] = acq[k] /\ k \in 1..n /\ acq[k] \in Threads \X Nat
        /\ \A k \in 1..n : k = n \/ k \in 1..Len(acq)
    <2> HIDE DEF p
    <2> QED BY <1>2, <1>8
  <1>10. \A k \in 1..Len(acq) : acq[k][1] \in Threads /\ acq[k][2] \in Nat
    BY <1>9, Zenon
  <1>11. p[1] = t /\ p[2] = thr[t].ip
    BY Zenon
  <1>12. \A k \in 1..Len(acq) : Earlier(m, acq[k], p)
    <2>1. Born(t)
      BY <1>0, <1>2, Running, Zenon
    <2>2. thr[t].ip \in DOMAIN prog[t]
      BY <1>1, Zenon DEF Section
    <2> QED BY <1>0, <1>1, <1>6, <2>1, <2>2, Zenon DEF History
  <1> HIDE DEF p, n
  <1>13. (\A k \in 1..Len(acq) : Entered(m, acq[k][1], acq[k][2]) /\ m.slot[acq[k][1]] >= 0)'
    <2>1. ASSUME NEW k \in 1..n
          PROVE  Entered(m, acq[k][1], acq[k][2])' /\ m.slot[acq'[k][1]] >= 0
      <3>1. CASE k = n
        BY <1>1, <1>5, <1>7, <1>9, <1>11, <3>1, Zenon
      <3>2. CASE k \in 1..Len(acq)
        <4>1. Entered(m, acq[k][1], acq[k][2]) /\ m.slot[acq[k][1]] >= 0
          BY <1>0, <3>2, Zenon DEF History
        <4>2. acq'[k] = acq[k]
          BY <1>9, <3>2, Zenon
        <4>3. acq[k][1] \in Threads /\ acq[k][2] \in Nat
          BY <1>10, <3>2, Zenon
        <4>4. (Entered(m, acq[k][1], acq[k][2]))'
          <5> DEFINE a == acq[k][1]
                     b == acq[k][2]
          <5>1. ASSUME NEW x \in Threads, NEW y \in Nat, Entered(m, x, y)
                PROVE  Entered(m, x, y)'
            BY <1>7, <5>1, Zenon
          <5> QED BY <4>1, <4>2, <4>3, <5>1, Zenon DEF Entered
        <4> QED BY <4>1, <4>2, <4>4, Zenon
      <3> QED BY <1>9, <3>1, <3>2, Zenon
    <2> QED BY <1>9, <2>1, Zenon
  <1>14. (\A u \in Threads : \A j \in DOMAIN prog[u] :
            Entered(m, u, j) => \E k \in 1..Len(acq) : acq[k] = <<u, j>>)'
    <2> SUFFICES ASSUME NEW u \in Threads, NEW j \in DOMAIN prog[u], Entered(m, u, j)'
                 PROVE  \E k \in 1..n : acq'[k] = <<u, j>>
      BY <1>2, <1>9, Zenon
    <2>1. CASE Entered(m, u, j)
      <3>1. PICK k \in 1..Len(acq) : acq[k] = <<u, j>>
        BY <1>0, <2>1, Zenon DEF History
      <3> QED BY <1>9, <3>1, Zenon
    <2>2. CASE u = t /\ j = thr[t].ip
      <3>1. n \in 1..n
        BY <1>9
      <3> QED BY <1>9, <2>2, <3>1, Zenon DEF p
    <2> QED BY <1>5, <1>7, <2>1, <2>2, Zenon
  <1>15. \A k, l \in 1..n : k < l => Earlier(m, acq'[k], acq'[l])
    <2> TAKE k \in 1..n, l \in 1..n
    <2> HAVE k < l
    <2>1. k \in 1..Len(acq) /\ acq'[k] = acq[k]
      <3>1. k # n
        BY <1>9
      <3> QED BY <1>9, <3>1, Zenon
    <2>2. CASE l = n
      BY <1>9, <1>12, <2>1, <2>2, Zenon
    <2>3. CASE l \in 1..Len(acq)
      BY <1>0, <1>9, <2>1, <2>3, Zenon DEF History
    <2> QED BY <1>9, <2>2, <2>3, Zenon
  <1>16. (\A k \in 1..Len(acq) : \A u \in Threads : \A j \in DOMAIN prog[u] :
            Born(u) /\ Section(prog, m.depth, u, j) /\ m.slot[u] >= 0 /\ ~Entered(m, u, j)
              => Earlier(m, acq[k], <<u, j>>))'
    <2> SUFFICES ASSUME NEW k \in 1..n, NEW u \in Threads, NEW j \in DOMAIN prog[u],
                        Born(u), Section(prog, m.depth, u, j), m.slot[u] >= 0, ~Entered(m, u, j)'
                 PROVE  Earlier(m, acq'[k], <<u, j>>)
      BY <1>2, <1>4, <1>9, Zenon
    <2>1. ~Entered(m, u, j) /\ (u # t \/ j # thr[t].ip)
      BY <1>5, <1>7, Zenon
    <2>2. CASE k = n
      BY <1>1, <1>9, <2>1, <2>2, Zenon
    <2>3. CASE k \in 1..Len(acq)
      BY <1>0, <1>9, <2>1, <2>3, Zenon DEF History
    <2> QED BY <1>9, <2>2, <2>3, Zenon
  <1>17. History(m)'
    <2>1. (\A k, l \in 1..Len(acq) : k < l => Earlier(m, acq[k], acq[l]))'
      BY <1>9, <1>15, Zenon DEF Earlier
    <2> QED BY <1>9, <1>13, <1>14, <1>16, <2>1, Zenon DEF History
  <1> QED BY <1>2, <1>6, <1>7, <1>17, Zenon DEF p

\* The order of the first run stays as long as what it recorded.
LEMMA KeptOrder ==
  ASSUME NEW m, first' = first, \A l, i \in 1..Len(first) : l < i => Earlier(m, first[l], first[i])
  PROVE  (\A l, i \in 1..Len(first) : l < i => Earlier(m, first[l], first[i]))'
  BY Zenon DEF Earlier

\* The section entered is the next one of the first run.
LEMMA EnterFollows ==
  ASSUME NEW m, InOrder(m), NEW t \in Threads, LockAcquire(t), thr[t].depth = 0
  PROVE  Follows(m)'
  <1> DEFINE p == <<t, thr[t].ip>>
             n == Len(acq) + 1
  <1>0. Base /\ Started /\ Measures(m, prog) /\ History(m) /\ Follows(m)
    BY Zenon DEF InOrder, OrderInv
  <1>1. /\ run' = run /\ first' = first /\ prog' = prog /\ thr[t].pc = "acquire"
        /\ acq' = Append(acq, p)
    BY Zenon DEF LockAcquire, Acquired, history, At
  <1>2. /\ Section(prog, m.depth, t, thr[t].ip) /\ ~Entered(m, t, thr[t].ip) /\ Born(t)
        /\ \A u \in Threads : \A j \in DOMAIN prog[u] :
             /\ Born(u) /\ Section(prog, m.depth, u, j) /\ m.slot[u] >= 0 /\ ~Entered(m, u, j)
             /\ u # t \/ j # thr[t].ip
             => Earlier(m, p, <<u, j>>)
    BY <1>0, <1>1, TurnIsEarliest, EnterHistory, Running, Zenon
  <1>3. thr[t].ip \in DOMAIN prog[t]
    BY <1>2, Zenon DEF Section
  <1> SUFFICES ASSUME run = 2 PROVE Follows(m)'
    BY <1>1, Zenon DEF Follows
  <1>4. PICK k \in 1..Len(first) : first[k] = p
    BY <1>0, <1>2, <1>3, Zenon DEF Follows
  <1>5. /\ acq \in Seq(Threads \X Nat) /\ first \in Seq(Threads \X Nat)
        /\ Len(acq) <= Len(first) /\ \A l \in 1..Len(acq) : acq[l] = first[l]
    BY <1>0, Zenon DEF History, Follows
  <1>6. Len(acq) \in Nat /\ Len(first) \in Nat
    BY <1>5, Pairs, Zenon
  <1>7. k > Len(acq)
    <2> SUFFICES ASSUME k \in 1..Len(acq) PROVE FALSE
      BY <1>4, <1>6
    <2>1. acq[k] = p
      BY <1>4, <1>5, Zenon
    <2>2. acq[k][1] = t /\ acq[k][2] = thr[t].ip
      BY <2>1
    <2> QED BY <1>0, <1>2, <2>2, Zenon DEF History
  <1>8. n \in 1..Len(first)
    BY <1>4, <1>6, <1>7
  <1>9. first[n] = p
    <2> SUFFICES ASSUME k # n PROVE FALSE
      BY <1>4, Zenon
    <2>1. PICK u \in Threads, j \in Nat : first[n] = <<u, j>>
      <3>1. \A l \in 1..Len(first) : first[l] \in Threads \X Nat
        BY <1>5
      <3>2. first[n] \in Threads \X Nat
        BY <1>8, <3>1, Zenon
      <3> QED BY <3>2
    <2>2. first[n][1] = u /\ first[n][2] = j
      BY <2>1
    <2>3. Born(u) /\ m.slot[u] >= 0 /\ Section(prog, m.depth, u, j) /\ j \in DOMAIN prog[u]
      BY <1>0, <1>8, <2>2, Zenon DEF Follows, Section
    <2>4. Earlier(m, <<u, j>>, p)
      <3>1. n < k
        BY <1>4, <1>6, <1>7
      <3> QED BY <1>0, <1>4, <1>8, <2>1, <3>1, Zenon DEF Follows
    <2>5. u # t \/ j # thr[t].ip
      BY <1>0, <1>3, <2>4, OneWay, Zenon
    <2>6. ~Entered(m, u, j)
      <3> SUFFICES ASSUME Entered(m, u, j) PROVE FALSE
        BY Zenon
      <3>1. PICK l \in 1..Len(acq) : acq[l] = <<u, j>>
        BY <1>0, <2>3, Zenon DEF History
      <3>2. l \in 1..Len(first) /\ l < n /\ first[l] = <<u, j>>
        BY <1>5, <1>6, <3>1
      <3>3. Earlier(m, <<u, j>>, <<u, j>>)
        BY <1>0, <1>8, <2>1, <3>2, Zenon DEF Follows
      <3> QED BY <1>0, <2>3, <3>3, OneWay, Zenon
    <2>7. Earlier(m, p, <<u, j>>)
      BY <1>2, <2>3, <2>5, <2>6, Zenon
    <2> QED BY <1>0, <1>3, <2>3, <2>4, <2>7, OneWay, Zenon
  <1>10. p \in Threads \X Nat
    BY <1>0, MeasureTypes, Zenon
  <1>11. Len(acq') <= Len(first) /\ \A l \in 1..Len(acq') : acq'[l] = first[l]
    <2> HIDE DEF p
    <2> QED BY <1>1, <1>5, <1>6, <1>8, <1>9, <1>10
  <1>12. /\ first \in Seq(Threads \X Nat)
         /\ \A l \in 1..Len(first) : /\ Born(first[l][1]) /\ m.slot[first[l][1]] >= 0
                                       /\ Section(prog, m.depth, first[l][1], first[l][2])
         /\ \A u \in Threads : \A j \in DOMAIN prog[u] :
              Born(u) /\ Section(prog, m.depth, u, j) => \E l \in 1..Len(first) : first[l] = <<u, j>>
         /\ \A l, i \in 1..Len(first) : l < i => Earlier(m, first[l], first[i])
    BY <1>0, Zenon DEF Follows
  <1> HIDE DEF p
  <1>13. \A u : Born(u)' = Born(u)
    BY <1>1, Zenon DEF Born
  <1>14. (\A l \in 1..Len(first) : /\ Born(first[l][1]) /\ m.slot[first[l][1]] >= 0
                                   /\ Section(prog, m.depth, first[l][1], first[l][2]))'
    BY <1>1, <1>12, SMTT(30) DEF Born, Section
  <1>15. (\A u \in Threads : \A j \in DOMAIN prog[u] :
            Born(u) /\ Section(prog, m.depth, u, j) => \E l \in 1..Len(first) : first[l] = <<u, j>>)'
    BY <1>1, <1>12, <1>13, Zenon
  <1>16. (\A l, i \in 1..Len(first) : l < i => Earlier(m, first[l], first[i]))'
    BY <1>1, <1>12, KeptOrder, Zenon
  <1> QED BY <1>1, <1>11, <1>12, <1>14, <1>15, <1>16, Zenon DEF Follows

\* Taking a lock with the turn keeps the order.
LEMMA EnterOrder ==
  ASSUME NEW m, InOrder(m), NEW t \in Threads, LockAcquire(t), thr[t].depth = 0
  PROVE  OrderInv(m)'
  <1>0. /\ Base /\ Started /\ CreatedFirst(prog) /\ Typed /\ Step(t)
        /\ \A u \in Threads : Measured(m, u)
    BY Zenon DEF InOrder, OrderInv, Base, Step
  <1>1. /\ thr[t].pc = "acquire" /\ lc' = lc /\ next_slot' = next_slot /\ prog' = prog
        /\ Call(t).op \in {"lock", "trylock"}
    BY Zenon DEF LockAcquire, At, shared, history
  <1>2. Goes(t, "advance", thr[t].ip, 1)
    BY <1>0, Moves, Zenon
  <1>3. ~CreateSlot(t) /\ ~CreateThread(t)
    BY <1>1, Zenon DEF CreateSlot, CreateThread, At
  <1>4. Forward(t) /\ thr'[t].ip \in Nat /\ next_slot \in Nat /\ next_slot' >= next_slot
    <2>1. thr[t].ip \in Nat /\ next_slot \in Nat
      BY <1>0, Zenon DEF Typed, ThreadState
    <2>2. thr'[t].ip = thr[t].ip
      BY <1>2, Zenon DEF Goes
    <2> QED BY <1>0, <1>1, <1>3, <2>1, <2>2, GoForward, SMTT(30)
  <1>5. Measured(m, t)'
    <2>1. /\ thr'[t].pc = "advance" /\ thr'[t].ip = thr[t].ip /\ thr'[t].depth = 1
          /\ thr'[t].slot = thr[t].slot /\ Call(t)' = Call(t) /\ Slotted(t)' = Slotted(t)
      BY <1>1, <1>2, Zenon DEF Goes, Call, Slotted
    <2>2. Contends(t)' => Contends(t)
      BY <1>0, <1>1, <1>4, ForwardContends, Zenon
    <2>3. Measured(m, t) /\ m.depth[t][thr[t].ip] = 0
      BY <1>0, <1>1, Zenon DEF Measured
    <2> QED BY <1>1, <2>1, <2>2, <2>3, Zenon DEF Measured
  <1>6. \A u \in Threads : Measured(m, u)'
    BY <1>0, <1>1, <1>4, <1>5, ForwardMeasured, Zenon
  <1>7. Handing(m)' /\ Launched'
    BY <1>0, <1>3, HandingStep, Zenon
  <1>8. History(m)' /\ Follows(m)'
    BY EnterHistory, EnterFollows, Zenon
  <1> QED BY <1>6, <1>7, <1>8, Zenon DEF OrderInv

-----------------------------------------------------------------------------
(* Creating threads *)

\* alloc_slot gives the child the slot the program fixes.
LEMMA CreateSlotOrder ==
  ASSUME NEW m, InOrder(m), NEW t \in Threads, CreateSlot(t)
  PROVE  OrderInv(m)'
  <1> DEFINE v == Call(0).thread
  <1>0. /\ Base /\ Started /\ CreatedFirst(prog) /\ Measures(m, prog) /\ Typed
        /\ Handing(m) /\ Launched /\ History(m) /\ Follows(m)
        /\ \A u \in Threads : Measured(m, u)
    BY Zenon DEF InOrder, OrderInv, Base
  <1>1. thr[t].ip \in DOMAIN prog[t] /\ Call(t).op = "create" /\ thr[t].pc = "run"
    BY Zenon DEF CreateSlot, At
  <1>2. /\ t = 0 /\ Creating /\ v \in Threads \ {0} /\ thr[v].pc = "none"
        /\ thr[0].ip \in DOMAIN prog[0] /\ Call(0).op = "create" /\ thr[0].pc = "run"
    BY <1>0, <1>1, Creator, Zenon
  <1>3. /\ prog' = prog /\ lc' = lc /\ acq' = acq /\ first' = first /\ run' = run
        /\ next_slot' = next_slot + 1
    BY Zenon DEF CreateSlot, history
  <1>4. \A u \in Threads :
          /\ thr'[u].ip = thr[u].ip /\ thr'[u].depth = thr[u].depth
          /\ thr'[u].pc = IF u = 0 THEN "create" ELSE thr[u].pc
          /\ thr'[u].slot = IF u # v THEN thr[u].slot ELSE IF next_slot < MAXT THEN next_slot ELSE -1
    <2>1. CreateSlot(0) /\ 0 \in Threads
      BY <1>2, Zenon
    <2> TAKE u \in Threads
    <2>2. /\ thr'[u].ip = thr[u].ip /\ thr'[u].depth = thr[u].depth
          /\ thr'[u].pc = IF u = 0 THEN "create" ELSE thr[u].pc
          /\ thr'[u].slot = IF u # Call(0).thread THEN thr[u].slot
                            ELSE IF next_slot < MAXT THEN next_slot ELSE -1
      BY <1>0, <2>1, CreatesSlot
    <2> QED BY <2>2, Zenon
  <1>5. Call(0)' = Call(0)
    BY <1>3, <1>4, ThreadsAssumption, Zenon DEF Call
  <1>6. m.slot[v] = IF m.made[thr[0].ip] + 1 < MAXT THEN m.made[thr[0].ip] + 1 ELSE -1
    BY <1>0, <1>2, Zenon DEF Measures, Call
  <1>7. next_slot \in Nat /\ MAXT \in Nat /\ m.made[thr[0].ip] \in Nat
    <2>1. thr[0].ip \in 1..(Len(prog[0]) + 1) /\ \A j \in 1..(Len(prog[0]) + 1) : m.made[j] \in Nat
      BY <1>0, MeasureTypes, ThreadsAssumption, Zenon
    <2> QED BY <1>0, <2>1, TableAssumption, Zenon DEF Typed
  <1> HIDE DEF v
  <1>8. \A u \in Threads : Contends(u)' = Contends(u) /\ (Contends(u) => u # v)
    BY <1>2, <1>3, <1>4, Zenon DEF Contends
  <1>9. ASSUME NEW u \in Threads
        PROVE  Measured(m, u)'
    <2>1. /\ Measured(m, u) /\ Call(u)' = Call(u) /\ thr'[u].ip = thr[u].ip
          /\ thr'[u].depth = thr[u].depth /\ Contends(u)' = Contends(u)
          /\ thr'[u].pc = "advance" <=> thr[u].pc = "advance"
          /\ thr'[u].pc = "none" <=> thr[u].pc = "none"
      BY <1>0, <1>2, <1>3, <1>4, <1>8, Zenon DEF Call
    <2>2. CASE u = v
      BY <1>2, <1>8, <2>1, <2>2, Zenon DEF Measured
    <2>3. CASE u # v
      <3>1. thr'[u].slot = thr[u].slot /\ Slotted(u)' = Slotted(u)
        BY <1>4, <2>3, Zenon DEF Slotted
      <3>2. next_slot > MAXT => next_slot' > MAXT
        BY <1>3, <1>7, SMTT(30)
      <3> QED BY <1>3, <2>1, <3>1, <3>2, Zenon DEF Measured
    <2> QED BY <2>2, <2>3, Zenon
  <1>10. Handing(m)'
    <2>1. next_slot = HandedOut(m) \/ (next_slot > MAXT /\ HandedOut(m) > MAXT)
      BY <1>0, <1>2, Zenon DEF Handing
    <2>2. HandedOut(m) = m.made[thr[0].ip] + 1 /\ HandedOut(m)' = m.made[thr[0].ip] + 2
      BY <1>2, <1>4, ThreadsAssumption, Zenon DEF HandedOut
    <2>3. (next_slot = HandedOut(m) \/ (next_slot > MAXT /\ HandedOut(m) > MAXT))'
      BY <1>3, <1>7, <2>1, <2>2
    <2>4. thr'[v].slot = IF next_slot < MAXT THEN next_slot ELSE -1
      BY <1>2, <1>4, Zenon
    <2>5. thr'[v].slot = m.slot[v]
      BY <1>6, <1>7, <2>1, <2>2, <2>4
    <2>6. ~(thr'[v].slot >= 0) => next_slot' > MAXT
      BY <1>3, <1>7, <2>4
    <2>7. Call(0)'.thread = v
      BY <1>5, Zenon DEF v
    <2> QED BY <2>3, <2>5, <2>6, <2>7, Zenon DEF Handing, Slotted
  <1>11. Launched'
    <2>1. \A u \in Threads : thr[u].pc # "none" => thr'[u].pc # "none"
      BY <1>4, Zenon
    <2>2. \A j \in DOMAIN prog[0] : prog[0][j].op = "create" => prog[0][j].thread \in Threads
      BY <1>0, Programs, CallNames, ThreadsAssumption, Zenon
    <2>3. thr'[0].ip = thr[0].ip
      BY <1>4, ThreadsAssumption, Zenon
    <2> QED BY <1>0, <1>3, <2>1, <2>2, <2>3, Zenon DEF Launched
  <1>12. \A u \in Threads : \A j \in Nat : Entered(m, u, j)' = Entered(m, u, j)
    BY <1>2, <1>3, <1>4, Zenon DEF Entered
  <1>13. History(m)' /\ Follows(m)'
    BY <1>0, <1>3, <1>12, SteadyHistory, Zenon
  <1> QED BY <1>9, <1>10, <1>11, <1>13, Zenon DEF OrderInv

\* pthread_create starts the child before its first section, at clock 0.
LEMMA CreateThreadOrder ==
  ASSUME NEW m, InOrder(m), NEW t \in Threads, CreateThread(t)
  PROVE  OrderInv(m)'
  <1> DEFINE v == Call(0).thread
  <1>0. /\ Base /\ Started /\ CreatedFirst(prog) /\ Measures(m, prog) /\ Typed
        /\ Handing(m) /\ Launched /\ History(m) /\ Follows(m)
        /\ \A u \in Threads : Measured(m, u)
    BY Zenon DEF InOrder, OrderInv, Base
  <1>1. thr[t].ip \in DOMAIN prog[t] /\ Call(t).op = "create" /\ thr[t].pc = "create"
    BY Zenon DEF CreateThread, At
  <1>2. /\ t = 0 /\ Creating /\ v \in Threads \ {0} /\ thr[v].pc = "none" /\ thr[0].pc = "create"
        /\ thr[0].ip \in DOMAIN prog[0] /\ prog[0][thr[0].ip].op = "create"
        /\ prog[0][thr[0].ip].thread = v
    BY <1>0, <1>1, Creator, Zenon DEF Call
  <1>3. /\ prog' = prog /\ acq' = acq /\ first' = first /\ run' = run /\ next_slot' = next_slot
    BY Zenon DEF CreateThread, history
  <1>4. \A u \in Threads :
          /\ thr'[u].depth = thr[u].depth /\ thr'[u].slot = thr[u].slot
          /\ thr'[u].ip = IF u = 0 THEN thr[u].ip + 1 ELSE thr[u].ip
          /\ thr'[u].pc = IF u = 0 \/ u = v THEN "run" ELSE thr[u].pc
    BY <1>0, <1>2, CreatesThread
  <1>5. lc \in [Slots -> Nat] /\ \A u \in Threads : thr[u].slot \in Slots \cup {-1}
    BY <1>0, Zenon DEF Typed, ThreadState
  <1>6. /\ Slotted(v) => lc'[thr[v].slot] = 0
        /\ \A s \in Slots : s # thr[v].slot => lc'[s] = lc[s]
    <2>1. CASE thr[v].slot < 0
      BY <1>2, <1>5, <2>1 DEF CreateThread, Slotted, Slots
    <2>2. CASE ~(thr[v].slot < 0)
      <3>1. lc' = [lc EXCEPT ![thr[v].slot] = 0]
        BY <1>2, <2>2, Zenon DEF CreateThread
      <3>2. thr[v].slot \in Slots
        <4>1. v \in Threads
          BY <1>2, Zenon
        <4> HIDE DEF v
        <4> QED BY <1>5, <2>2, <4>1
      <3> QED BY <1>5, <3>1, <3>2, Zenon
    <2> QED BY <2>1, <2>2, Zenon
  <1>7. thr[v].slot = m.slot[v] /\ (~Slotted(v) => next_slot > MAXT)
    BY <1>0, <1>2, Zenon DEF Handing
  <1> HIDE DEF v
  <1>8. /\ thr[0].ip \in Nat /\ DOMAIN prog[0] = 1..Len(prog[0]) /\ Len(prog[0]) \in Nat
        /\ m.made[thr[0].ip + 1] = m.made[thr[0].ip] + 1 /\ m.made[thr[0].ip] \in Nat
        /\ ~Section(prog, m.depth, 0, thr[0].ip)
    <2>1. /\ thr[0].ip \in Nat /\ DOMAIN prog[0] = 1..Len(prog[0]) /\ Len(prog[0]) \in Nat
          /\ m.made[thr[0].ip] \in Nat
      BY <1>0, MeasureTypes, ThreadsAssumption, Zenon
    <2>2. m.made[thr[0].ip + 1] = m.made[thr[0].ip] + 1
      BY <1>0, <1>2, Zenon DEF Measures
    <2>3. ~Section(prog, m.depth, 0, thr[0].ip)
      BY <1>2, Zenon DEF Section
    <2> QED BY <2>1, <2>2, <2>3, Zenon
  <1>9. m.turns[0][thr[0].ip + 1] = m.turns[0][thr[0].ip] /\ m.depth[0][thr[0].ip + 1] = m.depth[0][thr[0].ip]
    BY <1>0, <1>2, <1>8, ThreadsAssumption, Zenon DEF Measures
  <1>10. \A u \in Threads : Slotted(u)' = Slotted(u)
    BY <1>4, Zenon DEF Slotted
  <1>11. Measured(m, 0)'
    <2>1. /\ thr'[0].pc = "run" /\ thr'[0].ip = thr[0].ip + 1 /\ thr'[0].depth = thr[0].depth
          /\ thr'[0].slot = thr[0].slot /\ Slotted(0)' = Slotted(0)
      BY <1>4, <1>10, ThreadsAssumption, Zenon
    <2>2. Measured(m, 0) /\ Contends(0)
      BY <1>0, <1>2, MainCreates, ThreadsAssumption, Zenon
    <2>3. Slotted(0) => lc'[thr[0].slot] = lc[thr[0].slot]
      <3>1. Slotted(0) => thr[0].slot # thr[v].slot
        BY <1>0, <1>2, ThreadsAssumption, Zenon DEF Started
      <3>2. Slotted(0) => thr[0].slot \in Slots
        BY <1>5, ThreadsAssumption DEF Slotted, Slots
      <3> QED BY <1>6, <3>1, <3>2, Zenon
    <2> QED BY <1>2, <1>3, <1>9, <2>1, <2>2, <2>3, Zenon DEF Measured
  <1>12. ASSUME NEW u \in Threads, u = v
         PROVE  Measured(m, u)'
    <2>1. /\ thr'[u].pc = "run" /\ thr'[u].ip = thr[u].ip /\ thr'[u].depth = thr[u].depth
          /\ thr'[u].slot = thr[u].slot /\ Slotted(u)' = Slotted(u)
      BY <1>2, <1>4, <1>10, <1>12, Zenon
    <2>2. /\ Measured(m, u) /\ thr[u].ip = 1 /\ m.turns[u][1] = 0 /\ thr[u].pc = "none"
          /\ Slotted(u) => lc'[thr[u].slot] = 0
          /\ thr[u].slot = m.slot[u] /\ (~Slotted(u) => next_slot > MAXT)
      BY <1>0, <1>2, <1>6, <1>7, <1>12, Zenon DEF Measured, Measures
    <2> QED BY <1>3, <2>1, <2>2, Zenon DEF Measured
  <1>13. ASSUME NEW u \in Threads \ {0, v}
         PROVE  Measured(m, u)'
    <2>1. /\ thr'[u].pc = thr[u].pc /\ thr'[u].ip = thr[u].ip /\ thr'[u].depth = thr[u].depth
          /\ thr'[u].slot = thr[u].slot /\ Slotted(u)' = Slotted(u)
      BY <1>4, <1>10, Zenon
    <2>2. Measured(m, u) /\ Contends(u)' = Contends(u) /\ Call(u)' = Call(u)
      BY <1>0, <1>3, <2>1, Zenon DEF Contends, Call
    <2>3. Slotted(u) => lc'[thr[u].slot] = lc[thr[u].slot]
      <3>1. Slotted(u) => thr[u].slot # thr[v].slot
        BY <1>0, <1>2, Zenon DEF Started
      <3>2. Slotted(u) => thr[u].slot \in Slots
        BY <1>5 DEF Slotted, Slots
      <3> QED BY <1>6, <3>1, <3>2, Zenon
    <2> QED BY <1>3, <2>1, <2>2, <2>3, Zenon DEF Measured
  <1>14. Handing(m)'
    <2>1. thr'[0].pc = "run" /\ thr'[0].ip = thr[0].ip + 1
      BY <1>4, ThreadsAssumption, Zenon
    <2>2. HandedOut(m)' = HandedOut(m)
      BY <1>2, <1>8, <2>1 DEF HandedOut
    <2> QED BY <1>0, <1>2, <1>3, <2>1, <2>2, Zenon DEF Handing
  <1>15. Launched'
    <2>1. \A u \in Threads : thr[u].pc # "none" \/ u = v => thr'[u].pc # "none"
      BY <1>4, Zenon
    <2>2. \A j \in DOMAIN prog[0] : prog[0][j].op = "create" => prog[0][j].thread \in Threads
      BY <1>0, Programs, CallNames, ThreadsAssumption, Zenon
    <2>3. thr'[0].ip = thr[0].ip + 1
      BY <1>4, ThreadsAssumption, Zenon
    <2>4. \A j \in DOMAIN prog[0] : j < thr[0].ip + 1 => j < thr[0].ip \/ j = thr[0].ip
      BY <1>8
    <2> QED BY <1>0, <1>2, <1>3, <2>1, <2>2, <2>3, <2>4, Zenon DEF Launched
  <1>16. ASSUME NEW u \in Threads, NEW j \in Nat
         PROVE  Entered(m, u, j)' = Entered(m, u, j)
    <2>1. CASE u = 0
      <3>1. j < thr[0].ip + 1 <=> j < thr[0].ip \/ j = thr[0].ip
        BY <1>8
      <3>2. thr'[0].pc = "run" /\ thr'[0].ip = thr[0].ip + 1
        BY <1>4, ThreadsAssumption, Zenon
      <3> QED BY <1>2, <1>3, <1>8, <2>1, <3>1, <3>2, Zenon DEF Entered
    <2>2. CASE u = v
      <3>1. thr'[v].pc = "run" /\ thr'[v].ip = 1
        BY <1>0, <1>2, <1>4, Zenon DEF Measured
      <3>2. Section(prog, m.depth, v, j) => ~(j < 1)
        BY <1>0, <1>2, Programs DEF Section
      <3> QED BY <1>2, <1>3, <2>2, <3>1, <3>2, Zenon DEF Entered
    <2>3. CASE u # 0 /\ u # v
      BY <1>3, <1>4, <2>3, Zenon DEF Entered
    <2> QED BY <2>1, <2>2, <2>3, Zenon
  <1>17. History(m)' /\ Follows(m)'
    BY <1>0, <1>3, <1>16, SteadyHistory, Zenon
  <1> QED BY <1>11, <1>12, <1>13, <1>14, <1>15, <1>17, Zenon DEF OrderInv

-----------------------------------------------------------------------------
(* The two runs *)

\* The state a run starts in.
AtRunStart == AtStart /\ next_slot = 1 /\ acq = << >>

\* At the start of a run nothing has been handed out but main's slot, and nothing
\* has been entered.
StartsInOrder ==
  \A m : Typed /\ AtRunStart /\ Measures(m, prog) =>
    (\A t \in Threads : Measured(m, t)) /\ Handing(m) /\ Launched /\ History(m)

LEMMA StartOrder == StartsInOrder
  <1> SUFFICES ASSUME NEW m, Typed, AtRunStart, Measures(m, prog)
               PROVE  (\A t \in Threads : Measured(m, t)) /\ Handing(m) /\ Launched /\ History(m)
    BY Zenon DEF StartsInOrder
  <1>1. \A t \in Threads : /\ thr[t].pc = (IF t = 0 THEN "run" ELSE "none")
                           /\ thr[t].slot = (IF t = 0 THEN 0 ELSE -1)
                           /\ thr[t].ip = 1 /\ thr[t].depth = 0
    BY StartingThreads, Zenon DEF AtRunStart, AtStart
  <1>2. lc[0] = 0
    <2>1. 0 \in Slots
      BY TableAssumption DEF Slots
    <2> QED BY <2>1, Zenon DEF AtRunStart, AtStart
  <1>3. \A t \in Threads : Measured(m, t)
    <2>1. \A t \in Threads : m.depth[t][1] = 0 /\ m.turns[t][1] = 0
      BY Zenon DEF Measures
    <2>2. m.slot[0] = 0
      BY Zenon DEF Measures
    <2>3. Measured(m, 0)
      <3>1. thr[0].pc = "run" /\ thr[0].slot = 0 /\ thr[0].ip = 1 /\ thr[0].depth = 0
        BY <1>1, ThreadsAssumption, Zenon
      <3> QED BY <1>2, <2>1, <2>2, <3>1, ThreadsAssumption, SMTT(30) DEF Measured, Slotted
    <2>4. ASSUME NEW t \in Threads \ {0}
          PROVE  Measured(m, t)
      <3>1. thr[t].pc = "none" /\ thr[t].ip = 1 /\ thr[t].depth = 0
        BY <1>1, Zenon
      <3> QED BY <2>1, <3>1, Zenon DEF Measured, Contends
    <2> QED BY <2>3, <2>4, Zenon
  <1>4. Handing(m)
    <2>1. HandedOut(m) = 1
      BY <1>1, ThreadsAssumption, SMTT(30) DEF HandedOut, Measures
    <2> QED BY <1>1, <2>1, ThreadsAssumption, Zenon DEF Handing, AtRunStart
  <1>5. \A t \in Threads : \A j \in DOMAIN prog[t] : ~(j < 1)
    BY Programs
  <1>6. Launched
    BY <1>1, <1>5, ThreadsAssumption, Zenon DEF Launched
  <1>7. History(m)
    <2>1. acq \in Seq(Threads \X Nat) /\ Len(acq) = 0 /\ 1..0 = {}
      BY DEF AtRunStart
    <2>2. \A t \in Threads : \A j \in DOMAIN prog[t] : ~Entered(m, t, j)
      BY <1>1, <1>5, Zenon DEF Entered
    <2> QED BY <2>1, <2>2, Zenon DEF History
  <1> QED BY <1>3, <1>4, <1>6, <1>7, Zenon

\* A run that is over has entered every section of the program.
LEMMA RunComplete ==
  ASSUME NEW m, InOrder(m), Finished, NEW t \in Threads, NEW j \in DOMAIN prog[t],
         Born(t), Section(prog, m.depth, t, j)
  PROVE  Entered(m, t, j)
  <1>0. Base /\ Started /\ Measures(m, prog) /\ Launched
    BY Zenon DEF InOrder, OrderInv
  <1>1. ASSUME NEW u \in Threads, thr[u].pc # "none"
        PROVE  \A k \in DOMAIN prog[u] : k < thr[u].ip
    <2>1. Fits(prog[u], "done", thr[u].ip)
      BY <1>0, <1>1, Zenon DEF Finished, Base, Placed
    <2>2. /\ thr[u].ip \in Nat \ {0} /\ Len(prog[u]) \in Nat
          /\ DOMAIN prog[u] = 1..Len(prog[u])
      BY <1>0, MeasureTypes, Zenon
    <2> QED BY <2>1, <2>2 DEF Fits
  <1>2. thr[t].pc # "none"
    <2>1. CASE t = 0
      BY <1>0, <2>1, Zenon DEF Started
    <2>2. CASE t # 0
      <3>1. PICK k \in DOMAIN prog[0] : prog[0][k].op = "create" /\ prog[0][k].thread = t
        BY <2>2, Zenon DEF Born
      <3>2. k < thr[0].ip
        BY <1>0, <1>1, <3>1, ThreadsAssumption, Zenon DEF Started
      <3> QED BY <1>0, <3>1, <3>2, Zenon DEF Launched
    <2> QED BY <2>1, <2>2, Zenon
  <1> QED BY <1>1, <1>2, Zenon DEF Entered

\* The second run starts with the whole order of the first.
LEMMA RerunOrder ==
  ASSUME NEW m, InOrder(m), Base', Rerun
  PROVE  OrderInv(m)'
  <1>0. Base /\ Started /\ Measures(m, prog) /\ History(m)
    BY Zenon DEF InOrder, OrderInv
  <1>1. /\ Finished /\ first' = acq /\ acq' = << >> /\ prog' = prog
        /\ AtRunStart'
    BY Zenon DEF Rerun, Start, AtRunStart, AtStart
  <1>2. ((\A t \in Threads : Measured(m, t)) /\ Handing(m) /\ Launched /\ History(m))'
    <2>1. StartsInOrder'
      BY StartOrder, PTL
    <2>2. Typed' /\ Measures(m, prog')
      BY <1>0, <1>1, Zenon DEF Base
    <2> QED BY <1>1, <2>1, <2>2, Zenon DEF StartsInOrder
  <1>3. Follows(m)'
    <2>1. \A u : Born(u)' = Born(u)
      BY <1>1, Zenon DEF Born
    <2>2. \A k \in 1..Len(acq) : acq[k][1] \in Threads
      BY <1>0, Pairs, Zenon DEF History
    <2>3. \A k \in 1..Len(acq) : /\ Born(acq[k][1]) /\ m.slot[acq[k][1]] >= 0
                                  /\ Section(prog, m.depth, acq[k][1], acq[k][2])
      BY <1>0, <2>2, Running, Zenon DEF History, Entered
    <2>4. \A t \in Threads : \A j \in DOMAIN prog[t] :
            Born(t) /\ Section(prog, m.depth, t, j) => \E k \in 1..Len(acq) : acq[k] = <<t, j>>
      BY <1>0, <1>1, RunComplete, Zenon DEF History
    <2>5. acq \in Seq(Threads \X Nat) /\ \A k, l \in 1..Len(acq) : k < l => Earlier(m, acq[k], acq[l])
      BY <1>0, Zenon DEF History
    <2>6. Len(acq) \in Nat
      BY <2>5
    <2>7. Len(acq') = 0 /\ \A k \in 1..Len(acq') : acq'[k] = first'[k]
      BY <1>1
    <2>8. (\A k \in 1..Len(first) : /\ Born(first[k][1]) /\ m.slot[first[k][1]] >= 0
                                     /\ Section(prog, m.depth, first[k][1], first[k][2]))'
      BY <1>1, <2>3, Zenon DEF Born, Section
    <2>9. (\A t \in Threads : \A j \in DOMAIN prog[t] :
            Born(t) /\ Section(prog, m.depth, t, j) => \E k \in 1..Len(first) : first[k] = <<t, j>>)'
      BY <1>1, <2>1, <2>4, Zenon
    <2>10. (\A k, l \in 1..Len(first) : k < l => Earlier(m, first[k], first[l]))'
      BY <1>1, <2>5, Zenon DEF Earlier
    <2>11. first' \in Seq(Threads \X Nat)
      BY <1>1, <2>5, Zenon
    <2>12. Len(acq') <= Len(first')
      BY <1>1, <2>6, <2>7
    <2> QED BY <2>7, <2>8, <2>9, <2>10, <2>11, <2>12, Zenon DEF Follows
  <1> QED BY <1>2, <1>3, Zenon DEF OrderInv

\* The inductive invariant of the order, whichever measure the program has.
OrderAll == CreatedFirst(prog) /\ ~relaxed => \A m : Measures(m, prog) => OrderInv(m)

\* Every step of the two runs keeps the order.
LEMMA OrderNext ==
  ASSUME Base, TurnInv, OrderAll, [Next]_vars
  PROVE  OrderAll'
  <1> SUFFICES ASSUME CreatedFirst(prog'), ~relaxed', NEW m, Measures(m, prog')
               PROVE  OrderInv(m)'
    BY Zenon DEF OrderAll, CreatedFirst, Measures
  <1>0. prog' = prog /\ ~relaxed
    <2>1. ASSUME NEW t \in Threads, Step(t)
          PROVE  prog' = prog /\ ~relaxed
      BY <2>1, AppTyped, Zenon DEF Base
    <2>2. CASE Rerun \/ UNCHANGED vars
      BY <2>2 DEF Rerun, vars
    <2> QED BY <2>1, <2>2, Zenon DEF Next, Over
  <1>1. InOrder(m)
    BY <1>0, Zenon DEF InOrder, TurnInv, OrderAll
  <1>2. ASSUME NEW t \in Threads, Step(t)
        PROVE  OrderInv(m)'
    <2>1. CASE CreateSlot(t)
      BY <1>1, <2>1, CreateSlotOrder, Zenon
    <2>2. CASE CreateThread(t)
      BY <1>1, <2>2, CreateThreadOrder, Zenon
    <2>3. CASE LockAcquire(t) /\ thr[t].depth = 0
      BY <1>1, <2>3, EnterOrder, Zenon
    <2>4. CASE ~CreateSlot(t) /\ ~CreateThread(t) /\ ~(LockAcquire(t) /\ thr[t].depth = 0)
      BY <1>1, <1>2, <2>4, PlainOrder, Zenon
    <2> QED BY <2>1, <2>2, <2>3, <2>4, Zenon
  <1>3. CASE Rerun
    <2>1. Base'
      BY BaseNext, Zenon
    <2> QED BY <1>1, <1>3, <2>1, RerunOrder, Zenon
  <1>4. CASE UNCHANGED vars
    <2>1. OrderInv(m)
      BY <1>1, Zenon DEF InOrder
    <2>2. /\ prog' = prog /\ thr' = thr /\ lc' = lc /\ next_slot' = next_slot
          /\ acq' = acq /\ first' = first /\ run' = run
      BY <1>4, Zenon DEF vars, shared
    <2>3. (\A t \in Threads : Measured(m, t))'
      BY <2>1, <2>2, Zenon DEF OrderInv, Measured, Contends, Slotted, Call
    <2>4. Handing(m)' /\ Launched'
      BY <2>1, <2>2, Zenon DEF OrderInv, Handing, HandedOut, Launched, Slotted, Creating, Call
    <2>5. History(m)' /\ Follows(m)'
      <3>1. \A t \in Threads : \A j \in Nat : Entered(m, t, j)' = Entered(m, t, j)
        BY <2>2, Zenon DEF Entered
      <3> QED BY <2>1, <2>2, <3>1, SteadyHistory, Zenon DEF OrderInv
    <2> QED BY <2>3, <2>4, <2>5, Zenon DEF OrderInv
  <1> QED BY <1>2, <1>3, <1>4, Zenon DEF Next, Over

\* For every program whose threads are created first and whose locks and sections
\* do not depend on the timing, any number of threads and any table size, the
\* second run enters its top-level critical sections in the order of the first,
\* however the two are interleaved, unless a thread went ahead without its turn:
\* detsched.c's "the interleaving of critical sections is identical on every run".
THEOREM SameOrder == Spec => [](Sectioned(prog) => Deterministic)
  <1>1. Init => Base /\ TurnInv /\ OrderAll
    <2> SUFFICES ASSUME Init PROVE Base /\ TurnInv /\ OrderAll
      BY Zenon
    <2>1. Base /\ TurnInv
      BY BaseInit, StartTurns, Zenon DEF Base, Init, TurnInv, AtStart
    <2>2. AtRunStart /\ run = 1
      BY Zenon DEF Init, AtRunStart, AtStart
    <2>3. ASSUME NEW m, Measures(m, prog)
          PROVE  OrderInv(m)
      <3>1. (\A t \in Threads : Measured(m, t)) /\ Handing(m) /\ Launched /\ History(m)
        BY <2>1, <2>2, <2>3, StartOrder, Zenon DEF StartsInOrder, Base
      <3>2. Follows(m)
        BY <2>2 DEF Follows
      <3> QED BY <3>1, <3>2, Zenon DEF OrderInv
    <2> QED BY <2>1, <2>3, Zenon DEF OrderAll
  <1>2. Base /\ TurnInv /\ OrderAll /\ [Next]_vars => (Base /\ TurnInv /\ OrderAll)'
    BY BaseNext, TurnNext, OrderNext, Zenon
  <1>3. OrderAll => (Sectioned(prog) => Deterministic)
    BY Zenon DEF OrderAll, Sectioned, OrderInv, Follows, Deterministic
  <1> QED BY <1>1, <1>2, <1>3, PTL DEF Spec

=============================================================================
