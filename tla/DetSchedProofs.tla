---------------------------- MODULE DetSchedProofs ----------------------------
(***************************************************************************)
(* Proofs about the deterministic scheduler: its types, what a step may do *)
(* to the threads and the slots of the table, and that at most one thread  *)
(* has the turn, in the programs of CreatedFirst.                          *)
(***************************************************************************)
EXTENDS DetSched, TLAPS

PCs == {"none", "run", "await", "scan", "acquire", "advance", "park",
        "parked", "return", "create", "join", "done"}

ThreadState ==
  [slot : Slots \cup {-1}, depth : Nat, ip : Nat \ {0}, pc : PCs, i : Nat, n : Nat, spins : Nat]

LockState == [writer : Threads \cup {NoThread}, readers : SUBSET Threads]

\* The type invariant in the form the provers use: every variable is a function
\* of the right set, and a thread inside a call is at a call of that kind.
Typed ==
  /\ [prog |-> prog, spin_cap |-> spin_cap] \in Setups
  /\ next_slot \in Nat \ {0}
  /\ lc \in [Slots -> Nat]
  /\ active \in [Slots -> BOOLEAN]
  /\ thr \in [Threads -> ThreadState]
  /\ lock \in [Locks -> LockState]
  /\ flag \in [Conds -> BOOLEAN]
  /\ parked \in [Conds -> SUBSET Threads]
  /\ relaxed \in BOOLEAN
  /\ run \in {1, 2}

\* A thread with program p can be at call ip with program counter pc.
Fits(p, pc, ip) ==
  /\ ip <= Len(p) + 1
  /\ pc = "done" => ip \notin DOMAIN p
  /\ pc \in {"await", "scan", "acquire"} => ip \in DOMAIN p /\ p[ip].op \in {"lock", "trylock"}
  /\ pc = "advance" => ip \in DOMAIN p /\ p[ip].op \in {"lock", "trylock", "wait"}
  /\ pc \in {"park", "parked", "return"} => ip \in DOMAIN p /\ p[ip].op = "wait"
  /\ pc \in {"create", "join"} => ip \in DOMAIN p /\ p[ip].op = pc

Placed == \A t \in Threads : Fits(prog[t], thr[t].pc, thr[t].ip)

\* A scan does not pass its end.
ScansEnd == \A t \in Threads : thr[t].i <= thr[t].n

\* A slot that takes part was handed out, and to one thread only.
Handed ==
  /\ \A s \in Slots : active[s] => s < next_slot
  /\ \A t \in Threads : thr[t].slot < next_slot
-----------------------------------------------------------------------------
(* Types *)

\* A program is a sequence of calls for every thread.
LEMMA Programs ==
  ASSUME Typed
  PROVE  /\ prog \in [Threads -> Seq(Calls)] /\ spin_cap \in Nat
         /\ \A t \in Threads : /\ Len(prog[t]) \in Nat
                               /\ DOMAIN prog[t] = 1..Len(prog[t])
                               /\ \A k \in DOMAIN prog[t] : prog[t][k] \in Calls
         /\ \A t \in Threads : \A k \in DOMAIN prog[t] :
              prog[t][k].op = "trylock" => prog[t][k].busy \in 1..(Len(prog[t]) + 1)
  <1> DEFINE s == [prog |-> prog, spin_cap |-> spin_cap]
  <1>1. s \in Setups /\ s.prog = prog /\ s.spin_cap = spin_cap
    BY Zenon DEF Typed
  <1>2. prog \in [Threads -> Seq(Calls)] /\ spin_cap \in Nat
    BY <1>1, SetupsAssumption, Zenon
  <1>3. \A t \in Threads : prog[t] \in Seq(Calls)
    BY <1>2, Zenon
  <1>4. \A t \in Threads : /\ Len(prog[t]) \in Nat
                           /\ DOMAIN prog[t] = 1..Len(prog[t])
                           /\ \A k \in DOMAIN prog[t] : prog[t][k] \in Calls
    <2> TAKE t \in Threads
    <2> HIDE DEF s
    <2> QED BY <1>3
  <1>5. \A t \in Threads : \A k \in DOMAIN prog[t] :
              prog[t][k].op = "trylock" => prog[t][k].busy \in 1..(Len(prog[t]) + 1)
    BY <1>1, SetupsAssumption, Zenon
  <1> QED BY <1>2, <1>4, <1>5, Zenon

\* The fields of the threads' states.
LEMMA ThreadFields ==
  ASSUME NEW f \in [Threads -> ThreadState], NEW t \in Threads
  PROVE  /\ f[t].slot \in Slots \cup {-1} /\ f[t].slot \in Int
         /\ f[t].slot >= 0 => f[t].slot \in Slots
         /\ ~(f[t].slot >= 0) => f[t].slot < 0
         /\ f[t].depth \in Nat /\ f[t].ip \in Nat \ {0} /\ f[t].ip \in Nat /\ f[t].pc \in PCs
         /\ f[t].i \in Nat /\ f[t].n \in Nat /\ f[t].spins \in Nat
  BY DEF ThreadState, Slots

\* A slot handed out is neither below 0 nor above the ones handed out.
LEMMA Between ==
  ASSUME NEW a \in Int, NEW n \in Int, a >= 0, a < n
  PROVE  ~(a < 0) /\ ~(a >= n)
  OBVIOUS

\* What a call names: its lock, its condition, the thread it creates or joins.
LEMMA CallNames ==
  ASSUME NEW c \in Calls
  PROVE  /\ c.op \in {"lock", "trylock", "unlock", "wait", "signal", "create", "join"}
         /\ c.op \in {"lock", "trylock", "unlock", "wait"} => c.lock \in Locks
         /\ c.op \in {"lock", "trylock"} => c.mode \in {"r", "w"}
         /\ c.op \in {"wait", "signal"} => c.cond \in Conds
         /\ c.op \in {"create", "join"} => c.thread \in Threads
  BY Zenon DEF Calls

\* The facts about the call a thread is at.
LEMMA CallFacts ==
  ASSUME Typed, NEW t \in Threads
  PROVE  /\ Len(prog[t]) \in Nat /\ DOMAIN prog[t] = 1..Len(prog[t]) /\ spin_cap \in Nat
         /\ thr[t].ip \in DOMAIN prog[t] =>
              /\ Call(t).op \in {"lock", "trylock", "unlock", "wait", "signal", "create", "join"}
              /\ Call(t).op \in {"lock", "trylock", "unlock", "wait"} => Call(t).lock \in Locks
              /\ Call(t).op \in {"lock", "trylock"} => Call(t).mode \in {"r", "w"}
              /\ Call(t).op \in {"wait", "signal"} => Call(t).cond \in Conds
              /\ Call(t).op \in {"create", "join"} => Call(t).thread \in Threads
              /\ Call(t).op = "trylock" => Call(t).busy \in 1..(Len(prog[t]) + 1)
  BY Programs, CallNames, Zenon DEF Call

\* A step changes a thread's state to another one.
LEMMA ThreadsTyped ==
  ASSUME Typed, NEW t \in Threads, Step(t)
  PROVE  thr' \in [Threads -> ThreadState]
  <1>t. thr \in [Threads -> ThreadState]
    BY Zenon DEF Typed
  <1>0. /\ thr \in [Threads -> ThreadState] /\ next_slot \in Nat /\ spin_cap \in Nat /\ MAXT \in Nat
        /\ thr[t].ip \in DOMAIN prog[t] /\ Call(t).op = "create" => Call(t).thread \in Threads
        /\ thr[t].ip \in DOMAIN prog[t] /\ Call(t).op = "trylock" => Call(t).busy \in Nat \ {0}
        /\ {"run", "await", "scan", "acquire", "advance", "park", "parked", "return", "create",
             "join", "done"} \subseteq PCs
    BY CallFacts, TableAssumption DEF Typed, PCs
  <1>1. CASE AwaitTurn(t)
    <2>1. CASE thr[t].slot < 0
      BY <1>0, <1>1, <2>1, Zenon DEF AwaitTurn, ThreadState
    <2>2. CASE ~(thr[t].slot < 0)
      <3>1. thr' = [thr EXCEPT ![t].pc = "scan", ![t].i = 0, ![t].n = next_slot]
        BY <1>1, <2>2, Zenon DEF AwaitTurn
      <3>2. "scan" \in PCs /\ next_slot \in Nat
        BY <1>0, Zenon
      <3> QED BY <1>t, <3>1, <3>2, Zenon DEF ThreadState
    <2> QED BY <2>1, <2>2, Zenon
  <1>2. CASE ScanSlot(t)
    BY <1>0, <1>2 DEF ScanSlot, At, ThreadState
  <1>3. CASE ScanAgain(t)
    BY <1>0, <1>3 DEF ScanAgain, At, ThreadState
  <1>4. CASE ScanDone(t)
    BY <1>0, <1>4, Zenon DEF ScanDone, At, ThreadState
  <1>5. CASE Advance(t)
    <2>1. CASE Call(t).op = "wait"
      <3>1. thr' = [thr EXCEPT ![t].pc = "run", ![t].ip = @]
        BY <1>5, <2>1, Zenon DEF Advance
      <3>2. "run" \in PCs
        BY <1>0, Zenon
      <3> QED BY <1>t, <3>1, <3>2, Zenon DEF ThreadState
    <2>2. CASE Call(t).op # "wait"
      BY <1>0, <1>5, <2>2 DEF Advance, ThreadState
    <2> QED BY <2>1, <2>2, Zenon
  <1>6. CASE LockEnter(t)
    BY <1>0, <1>6 DEF LockEnter, At, ThreadState
  <1>7. CASE LockAcquire(t)
    <2>1. CASE thr[t].depth = 0
      <3>1. thr' = [thr EXCEPT ![t].depth = 1, ![t].pc = "advance"]
        BY <1>7, <2>1, Zenon DEF LockAcquire, Acquired
      <3>2. "advance" \in PCs
        BY <1>0, Zenon
      <3> QED BY <1>t, <3>1, <3>2, Zenon DEF ThreadState
    <2>2. CASE thr[t].depth # 0
      <3>1. thr' = [thr EXCEPT ![t].depth = @ + 1, ![t].pc = "run", ![t].ip = @ + 1]
        BY <1>7, <2>2, Zenon DEF LockAcquire, Acquired
      <3> QED BY <1>0, <3>1 DEF ThreadState
    <2> QED BY <2>1, <2>2, Zenon
  <1>8. CASE TryLockBusy(t)
    <2>1. thr' = [thr EXCEPT ![t].pc = "run", ![t].ip = Call(t).busy]
      BY <1>8, Zenon DEF TryLockBusy
    <2>2. "run" \in PCs /\ Call(t).busy \in Nat \ {0}
      BY <1>0, <1>8, Zenon DEF TryLockBusy, At
    <2> QED BY <1>t, <2>1, <2>2, Zenon DEF ThreadState
  <1>9. CASE Unlock(t)
    BY <1>0, <1>9 DEF Unlock, At, ThreadState
  <1>10. CASE WaitOver(t)
    BY <1>0, <1>10 DEF WaitOver, At, ThreadState
  <1>11. CASE WaitLeave(t)
    BY <1>0, <1>11, Zenon DEF WaitLeave, At, ThreadState
  <1>12. CASE WaitPark(t)
    BY <1>0, <1>12, Zenon DEF WaitPark, At, ThreadState
  <1>13. CASE WaitWake(t)
    BY <1>0, <1>13, Zenon DEF WaitWake, At, ThreadState
  <1>14. CASE WaitReturn(t)
    BY <1>0, <1>14, Zenon DEF WaitReturn, At, ThreadState
  <1>15. CASE Signal(t)
    BY <1>0, <1>15 DEF Signal, At, ThreadState
  <1>16. CASE CreateSlot(t)
    BY <1>0, <1>16 DEF CreateSlot, At, ThreadState, Slots
  <1>17. CASE CreateThread(t)
    BY <1>0, <1>17 DEF CreateThread, At, ThreadState
  <1>18. CASE Exit(t)
    BY <1>0, <1>18, Zenon DEF Exit, At, ThreadState
  <1>19. CASE JoinLeave(t)
    BY <1>0, <1>19, Zenon DEF JoinLeave, At, ThreadState
  <1>20. CASE JoinReturn(t)
    BY <1>0, <1>20 DEF JoinReturn, At, ThreadState
  <1> QED
    BY <1>1, <1>2, <1>3, <1>4, <1>5, <1>6, <1>7, <1>8, <1>9, <1>10,
       <1>11, <1>12, <1>13, <1>14, <1>15, <1>16, <1>17, <1>18, <1>19, <1>20, Zenon DEF Step

\* A step keeps the types of the slot table.
LEMMA TableTyped ==
  ASSUME Typed, Handed, NEW t \in Threads, Step(t)
  PROVE  /\ next_slot' \in Nat \ {0} /\ next_slot' >= next_slot
         /\ lc' \in [Slots -> Nat] /\ active' \in [Slots -> BOOLEAN]
         /\ \A s \in Slots : active'[s] => s < next_slot'
  <1>0. /\ next_slot \in Nat \ {0} /\ lc \in [Slots -> Nat] /\ active \in [Slots -> BOOLEAN]
        /\ \A u \in Threads : thr[u].slot \in Slots \cup {-1} /\ thr[u].slot < next_slot
        /\ \A s \in Slots : s \in Nat /\ (active[s] => s < next_slot)
        /\ thr[t].ip \in DOMAIN prog[t] /\ Call(t).op = "create" => Call(t).thread \in Threads
    BY CallFacts, SMTT(20) DEF Typed, Handed, ThreadState, Slots
  <1>1. CASE AwaitTurn(t)
    BY <1>0, <1>1 DEF AwaitTurn, shared
  <1>2. CASE ScanSlot(t)
    BY <1>0, <1>2 DEF ScanSlot, shared
  <1>3. CASE ScanAgain(t)
    BY <1>0, <1>3 DEF ScanAgain, shared
  <1>4. CASE ScanDone(t)
    BY <1>0, <1>4 DEF ScanDone, shared
  <1>5. CASE Advance(t)
    BY <1>0, <1>5 DEF Advance, shared
  <1>6. CASE LockEnter(t)
    BY <1>0, <1>6 DEF LockEnter, At, EnsureRegistered, shared
  <1>7. CASE LockAcquire(t)
    BY <1>0, <1>7 DEF LockAcquire, At, Acquired, Take, shared
  <1>8. CASE TryLockBusy(t)
    BY <1>0, <1>8 DEF TryLockBusy, At, shared
  <1>9. CASE Unlock(t)
    BY <1>0, <1>9 DEF Unlock, At, Release, shared
  <1>10. CASE WaitOver(t)
    BY <1>0, <1>10 DEF WaitOver, At, shared
  <1>11. CASE WaitLeave(t)
    BY <1>0, <1>11 DEF WaitLeave, At, EnsureRegistered, SetActive, shared
  <1>12. CASE WaitPark(t)
    BY <1>0, <1>12 DEF WaitPark, At, Release, shared
  <1>13. CASE WaitWake(t)
    BY <1>0, <1>13 DEF WaitWake, At, Take, shared
  <1>14. CASE WaitReturn(t)
    BY <1>0, <1>14 DEF WaitReturn, At, SetActive, shared
  <1>15. CASE Signal(t)
    BY <1>0, <1>15 DEF Signal, At, shared
  <1>16. CASE CreateSlot(t)
    BY <1>0, <1>16 DEF CreateSlot, At, shared
  <1>17. CASE CreateThread(t)
    <2> DEFINE v == Call(t).thread
    <2>1. v \in Threads /\ next_slot' = next_slot
      BY <1>0, <1>17, Zenon DEF CreateThread, At
    <2>2. CASE thr[v].slot < 0
      BY <1>0, <1>17, <2>1, <2>2 DEF CreateThread
    <2>3. CASE ~(thr[v].slot < 0)
      <3>1. /\ lc' = [lc EXCEPT ![thr[v].slot] = 0]
            /\ active' = [active EXCEPT ![thr[v].slot] = TRUE]
        BY <1>17, <2>3, Zenon DEF CreateThread
      <3> QED BY <1>0, <2>1, <2>3, <3>1
    <2> QED BY <2>2, <2>3, Zenon
  <1>18. CASE Exit(t)
    <2>1. CASE t = 0 \/ thr[t].slot < 0
      BY <1>0, <1>18, <2>1 DEF Exit, SetActive
    <2>2. CASE t # 0 /\ ~(thr[t].slot < 0)
      <3>1. /\ active' = [active EXCEPT ![thr[t].slot] = FALSE]
            /\ next_slot' = next_slot /\ lc' = lc
        BY <1>18, <2>2, Zenon DEF Exit, SetActive
      <3>2. thr[t].slot \in Slots
        BY <1>0, <2>2
      <3> QED BY <1>0, <3>1, <3>2
    <2> QED BY <2>1, <2>2, Zenon
  <1>19. CASE JoinLeave(t)
    BY <1>0, <1>19 DEF JoinLeave, At, SetActive, shared
  <1>20. CASE JoinReturn(t)
    BY <1>0, <1>20 DEF JoinReturn, At, SetActive, shared
  <1> QED
    BY <1>1, <1>2, <1>3, <1>4, <1>5, <1>6, <1>7, <1>8, <1>9, <1>10,
       <1>11, <1>12, <1>13, <1>14, <1>15, <1>16, <1>17, <1>18, <1>19, <1>20, Zenon DEF Step

\* A step keeps the types of the locks, the conditions and the histories.
LEMMA AppTyped ==
  ASSUME Typed, NEW t \in Threads, Step(t)
  PROVE  /\ lock' \in [Locks -> LockState]
         /\ flag' \in [Conds -> BOOLEAN] /\ parked' \in [Conds -> SUBSET Threads]
         /\ relaxed' \in BOOLEAN /\ run' = run /\ prog' = prog /\ spin_cap' = spin_cap
         /\ (~relaxed' => ~relaxed) /\ first' = first
  <1>0. /\ lock \in [Locks -> LockState]
        /\ flag \in [Conds -> BOOLEAN] /\ parked \in [Conds -> SUBSET Threads]
        /\ relaxed \in BOOLEAN
        /\ thr[t].ip \in DOMAIN prog[t] =>
             /\ Call(t).op \in {"lock", "trylock", "unlock", "wait"} => Call(t).lock \in Locks
             /\ Call(t).op \in {"wait", "signal"} => Call(t).cond \in Conds
    BY CallFacts, Zenon DEF Typed
  <1>1. CASE AwaitTurn(t)
    BY <1>0, <1>1, Zenon DEF AwaitTurn, app, history, LockState
  <1>2. CASE ScanSlot(t)
    BY <1>0, <1>2, Zenon DEF ScanSlot, app, history, LockState
  <1>3. CASE ScanAgain(t)
    <2>1. /\ prog' = prog /\ spin_cap' = spin_cap /\ UNCHANGED app /\ first' = first /\ run' = run
          /\ relaxed' = TRUE \/ UNCHANGED relaxed
      BY <1>3, Zenon DEF ScanAgain
    <2> QED BY <1>0, <2>1, Zenon DEF app
  <1>4. CASE ScanDone(t)
    BY <1>0, <1>4, Zenon DEF ScanDone, app, history, LockState
  <1>5. CASE Advance(t)
    BY <1>0, <1>5, Zenon DEF Advance, app, history, LockState
  <1>6. CASE LockEnter(t)
    BY <1>0, <1>6, Zenon DEF LockEnter, At, EnsureRegistered, app, history, LockState
  <1>7. CASE LockAcquire(t)
    BY <1>0, <1>7, Zenon DEF LockAcquire, At, Acquired, Take, app, history, LockState
  <1>8. CASE TryLockBusy(t)
    BY <1>0, <1>8, Zenon DEF TryLockBusy, At, app, history, LockState
  <1>9. CASE Unlock(t)
    BY <1>0, <1>9 DEF Unlock, At, Release, app, history, LockState
  <1>10. CASE WaitOver(t)
    BY <1>0, <1>10, Zenon DEF WaitOver, At, app, history, LockState
  <1>11. CASE WaitLeave(t)
    BY <1>0, <1>11, Zenon DEF WaitLeave, At, EnsureRegistered, SetActive, app, history, LockState
  <1>12. CASE WaitPark(t)
    BY <1>0, <1>12 DEF WaitPark, At, Release, app, history, LockState
  <1>13. CASE WaitWake(t)
    BY <1>0, <1>13, Zenon DEF WaitWake, At, Take, app, history, LockState
  <1>14. CASE WaitReturn(t)
    BY <1>0, <1>14, Zenon DEF WaitReturn, At, SetActive, app, history, LockState
  <1>15. CASE Signal(t)
    BY <1>0, <1>15, Zenon DEF Signal, At, app, history, LockState
  <1>16. CASE CreateSlot(t)
    BY <1>0, <1>16, Zenon DEF CreateSlot, At, app, history, LockState
  <1>17. CASE CreateThread(t)
    BY <1>0, <1>17, Zenon DEF CreateThread, At, app, history, LockState
  <1>18. CASE Exit(t)
    BY <1>0, <1>18, Zenon DEF Exit, SetActive, app, history, LockState
  <1>19. CASE JoinLeave(t)
    BY <1>0, <1>19, Zenon DEF JoinLeave, At, SetActive, app, history, LockState
  <1>20. CASE JoinReturn(t)
    BY <1>0, <1>20, Zenon DEF JoinReturn, At, SetActive, app, history, LockState
  <1> QED
    BY <1>1, <1>2, <1>3, <1>4, <1>5, <1>6, <1>7, <1>8, <1>9, <1>10,
       <1>11, <1>12, <1>13, <1>14, <1>15, <1>16, <1>17, <1>18, <1>19, <1>20, Zenon DEF Step

-----------------------------------------------------------------------------
(* What a step does to the threads *)

\* Thread t moves to a program counter, a call and a lock depth; it keeps its
\* slot, and no other thread moves.
Goes(t, pc, ip, depth) ==
  /\ thr'[t].pc = pc /\ thr'[t].ip = ip /\ thr'[t].depth = depth
  /\ thr'[t].slot = thr[t].slot
  /\ \A u \in Threads \ {t} : thr'[u] = thr[u]

\* Where each wrapper's step leaves its thread (the two steps of a creation,
\* which also touch the child, are separate).
LEMMA Moves ==
  ASSUME Typed, NEW t \in Threads
  PROVE
    /\ AwaitTurn(t) =>
         IF thr[t].slot < 0
           THEN Goes(t, "acquire", thr[t].ip, thr[t].depth) /\ relaxed'
           ELSE /\ Goes(t, "scan", thr[t].ip, thr[t].depth)
                /\ thr'[t].i = 0 /\ thr'[t].n = next_slot
    /\ ScanSlot(t) =>
         /\ Goes(t, "scan", thr[t].ip, thr[t].depth)
         /\ thr'[t].i = thr[t].i + 1 /\ thr'[t].n = thr[t].n
    /\ ScanAgain(t) =>
         \/ Goes(t, "acquire", thr[t].ip, thr[t].depth) /\ relaxed'
         \/ Goes(t, "await", thr[t].ip, thr[t].depth)
    /\ ScanDone(t) => Goes(t, "acquire", thr[t].ip, thr[t].depth)
    /\ Advance(t) =>
         Goes(t, "run", IF Call(t).op = "wait" THEN thr[t].ip ELSE thr[t].ip + 1, thr[t].depth)
    /\ LockEnter(t) =>
         Goes(t, IF thr[t].depth = 0 THEN "await" ELSE "acquire", thr[t].ip, thr[t].depth)
    /\ LockAcquire(t) =>
         IF thr[t].depth = 0
           THEN Goes(t, "advance", thr[t].ip, 1)
           ELSE Goes(t, "run", thr[t].ip + 1, thr[t].depth + 1)
    /\ TryLockBusy(t) => Goes(t, "run", Call(t).busy, thr[t].depth)
    /\ Unlock(t) =>
         Goes(t, "run", thr[t].ip + 1, IF thr[t].depth > 0 THEN thr[t].depth - 1 ELSE thr[t].depth)
    /\ WaitOver(t) => Goes(t, "run", thr[t].ip + 1, thr[t].depth)
    /\ WaitLeave(t) => Goes(t, "park", thr[t].ip, thr[t].depth)
    /\ WaitPark(t) => Goes(t, "parked", thr[t].ip, thr[t].depth)
    /\ WaitWake(t) => Goes(t, "return", thr[t].ip, thr[t].depth)
    /\ WaitReturn(t) => Goes(t, "advance", thr[t].ip, thr[t].depth)
    /\ Signal(t) => Goes(t, "run", thr[t].ip + 1, thr[t].depth)
    /\ Exit(t) => Goes(t, "done", thr[t].ip, thr[t].depth)
    /\ JoinLeave(t) => Goes(t, "join", thr[t].ip, thr[t].depth)
    /\ JoinReturn(t) => Goes(t, "run", thr[t].ip + 1, thr[t].depth)
  <1>0. thr \in [Threads -> ThreadState]
    BY Zenon DEF Typed
  <1>1. AwaitTurn(t) =>
         IF thr[t].slot < 0
           THEN Goes(t, "acquire", thr[t].ip, thr[t].depth) /\ relaxed'
           ELSE /\ Goes(t, "scan", thr[t].ip, thr[t].depth)
                /\ thr'[t].i = 0 /\ thr'[t].n = next_slot
    <2>1. AwaitTurn(t) /\ thr[t].slot < 0 =>
            Goes(t, "acquire", thr[t].ip, thr[t].depth) /\ relaxed'
      BY <1>0, Zenon DEF AwaitTurn, Goes, ThreadState
    <2>2. AwaitTurn(t) /\ ~(thr[t].slot < 0) =>
            /\ Goes(t, "scan", thr[t].ip, thr[t].depth)
            /\ thr'[t].i = 0 /\ thr'[t].n = next_slot
      BY <1>0 DEF AwaitTurn, Goes, ThreadState
    <2> QED BY <2>1, <2>2, Zenon
  <1>2. ScanSlot(t) =>
         /\ Goes(t, "scan", thr[t].ip, thr[t].depth)
         /\ thr'[t].i = thr[t].i + 1 /\ thr'[t].n = thr[t].n
    BY <1>0, Zenon DEF ScanSlot, Goes, ThreadState
  <1>3. ScanAgain(t) =>
         \/ Goes(t, "acquire", thr[t].ip, thr[t].depth) /\ relaxed'
         \/ Goes(t, "await", thr[t].ip, thr[t].depth)
    BY <1>0 DEF ScanAgain, Goes, ThreadState
  <1>4. ScanDone(t) =>
         Goes(t, "acquire", thr[t].ip, thr[t].depth)
    BY <1>0, Zenon DEF ScanDone, Goes, ThreadState
  <1>5. Advance(t) =>
         Goes(t, "run", IF Call(t).op = "wait" THEN thr[t].ip ELSE thr[t].ip + 1, thr[t].depth)
    BY <1>0 DEF Advance, Goes, ThreadState
  <1>6. LockEnter(t) =>
         Goes(t, IF thr[t].depth = 0 THEN "await" ELSE "acquire", thr[t].ip, thr[t].depth)
    BY <1>0, Zenon DEF LockEnter, Goes, ThreadState
  <1>7. LockAcquire(t) =>
         IF thr[t].depth = 0
           THEN Goes(t, "advance", thr[t].ip, 1)
           ELSE Goes(t, "run", thr[t].ip + 1, thr[t].depth + 1)
    BY <1>0 DEF LockAcquire, Goes, ThreadState, Acquired
  <1>8. TryLockBusy(t) =>
         Goes(t, "run", Call(t).busy, thr[t].depth)
    BY <1>0, Zenon DEF TryLockBusy, Goes, ThreadState
  <1>9. Unlock(t) =>
         Goes(t, "run", thr[t].ip + 1, IF thr[t].depth > 0 THEN thr[t].depth - 1 ELSE thr[t].depth)
    BY <1>0, Zenon DEF Unlock, Goes, ThreadState, At
  <1>10. WaitOver(t) =>
         Goes(t, "run", thr[t].ip + 1, thr[t].depth)
    BY <1>0 DEF WaitOver, Goes, ThreadState, At
  <1>11. WaitLeave(t) =>
         Goes(t, "park", thr[t].ip, thr[t].depth)
    BY <1>0, Zenon DEF WaitLeave, Goes, ThreadState
  <1>12. WaitPark(t) =>
         Goes(t, "parked", thr[t].ip, thr[t].depth)
    BY <1>0, Zenon DEF WaitPark, Goes, ThreadState
  <1>13. WaitWake(t) =>
         Goes(t, "return", thr[t].ip, thr[t].depth)
    BY <1>0, Zenon DEF WaitWake, Goes, ThreadState
  <1>14. WaitReturn(t) =>
         Goes(t, "advance", thr[t].ip, thr[t].depth)
    BY <1>0, Zenon DEF WaitReturn, Goes, ThreadState
  <1>15. Signal(t) =>
         Goes(t, "run", thr[t].ip + 1, thr[t].depth)
    BY <1>0, Zenon DEF Signal, Goes, ThreadState, At
  <1>16. Exit(t) =>
         Goes(t, "done", thr[t].ip, thr[t].depth)
    BY <1>0, Zenon DEF Exit, Goes, ThreadState
  <1>17. JoinLeave(t) =>
         Goes(t, "join", thr[t].ip, thr[t].depth)
    BY <1>0, Zenon DEF JoinLeave, Goes, ThreadState
  <1>18. JoinReturn(t) =>
         Goes(t, "run", thr[t].ip + 1, thr[t].depth)
    BY <1>0, Zenon DEF JoinReturn, Goes, ThreadState
  <1> QED
    BY <1>1, <1>2, <1>3, <1>4, <1>5, <1>6, <1>7, <1>8, <1>9, <1>10, <1>11, <1>12, <1>13, <1>14, <1>15, <1>16, <1>17, <1>18, Zenon

\* alloc_slot gives the child its slot.
LEMMA CreatesSlot ==
  ASSUME Typed, NEW t \in Threads, NEW u \in Threads, CreateSlot(t)
  PROVE  /\ Call(t).thread \in Threads
         /\ thr'[u].ip = thr[u].ip /\ thr'[u].depth = thr[u].depth
         /\ thr'[u].i = thr[u].i /\ thr'[u].n = thr[u].n
         /\ thr'[u].pc = IF u = t THEN "create" ELSE thr[u].pc
         /\ thr'[u].slot = IF u # Call(t).thread THEN thr[u].slot
                           ELSE IF next_slot < MAXT THEN next_slot ELSE -1
  <1>1. thr \in [Threads -> ThreadState]
    BY Zenon DEF Typed
  <1>2. Call(t).thread \in Threads
    BY CallFacts, Zenon DEF CreateSlot, At
  <1> QED BY <1>1, <1>2, Zenon DEF CreateSlot, ThreadState

\* pthread_create starts the child.
LEMMA CreatesThread ==
  ASSUME Typed, NEW t \in Threads, NEW u \in Threads, CreateThread(t)
  PROVE  /\ Call(t).thread \in Threads
         /\ thr'[u].depth = thr[u].depth /\ thr'[u].slot = thr[u].slot
         /\ thr'[u].i = thr[u].i /\ thr'[u].n = thr[u].n
         /\ thr'[u].ip = IF u = t THEN thr[u].ip + 1 ELSE thr[u].ip
         /\ thr'[u].pc = IF u = t \/ u = Call(t).thread THEN "run" ELSE thr[u].pc
  <1>1. thr \in [Threads -> ThreadState]
    BY Zenon DEF Typed
  <1>2. Call(t).thread \in Threads
    BY CallFacts, Zenon DEF CreateThread, At
  <1> QED BY <1>1, <1>2 DEF CreateThread, ThreadState

\* Every thread stays at a call of the kind its program counter says.
LEMMA GoesPlaced ==
  ASSUME Placed, prog' = prog, NEW t \in Threads, NEW pc, NEW ip, NEW depth,
         Goes(t, pc, ip, depth), Fits(prog[t], pc, ip)
  PROVE  Placed'
  BY Zenon DEF Goes, Placed

LEMMA PlacedStep ==
  ASSUME Typed, Placed, NEW t \in Threads, Step(t)
  PROVE  Placed'
  <1>0. /\ prog' = prog
        /\ Len(prog[t]) \in Nat /\ DOMAIN prog[t] = 1..Len(prog[t])
        /\ thr[t].ip \in Nat \ {0}
        /\ thr[t].ip \in DOMAIN prog[t] /\ Call(t).op = "trylock" => Call(t).busy \in 1..(Len(prog[t]) + 1)
        /\ Fits(prog[t], thr[t].pc, thr[t].ip)
    BY AppTyped, CallFacts, Zenon DEF Typed, ThreadState, Placed
  <1>1. CASE AwaitTurn(t)
    <2>1. PICK pc \in {"acquire", "scan"} : Goes(t, pc, thr[t].ip, thr[t].depth)
      BY <1>1, Moves, Zenon
    <2>2. Fits(prog[t], pc, thr[t].ip)
      BY <1>0, <1>1, Zenon DEF AwaitTurn, Fits
    <2> QED BY <1>0, <2>1, <2>2, GoesPlaced, Zenon
  <1>2. CASE ScanSlot(t)
    <2>1. Goes(t, "scan", thr[t].ip, thr[t].depth)
      BY <1>2, Moves, Zenon
    <2> QED BY <1>0, <1>2, <2>1, GoesPlaced, Zenon DEF ScanSlot
  <1>3. CASE ScanAgain(t)
    <2>1. PICK pc \in {"acquire", "await"} : Goes(t, pc, thr[t].ip, thr[t].depth)
      BY <1>3, Moves, Zenon
    <2>2. Fits(prog[t], pc, thr[t].ip)
      BY <1>0, <1>3, Zenon DEF ScanAgain, Fits
    <2> QED BY <1>0, <2>1, <2>2, GoesPlaced, Zenon
  <1>4. CASE ScanDone(t)
    <2>1. Goes(t, "acquire", thr[t].ip, thr[t].depth)
      BY <1>4, Moves, Zenon
    <2>2. Fits(prog[t], "acquire", thr[t].ip)
      BY <1>0, <1>4, Zenon DEF ScanDone, Fits, Call
    <2> QED BY <1>0, <2>1, <2>2, GoesPlaced, Zenon
  <1>5. CASE Advance(t)
    <2>1. PICK ip \in {thr[t].ip, thr[t].ip + 1} : Goes(t, "run", ip, thr[t].depth)
      BY <1>5, Moves, Zenon
    <2>2. Fits(prog[t], "run", ip)
      BY <1>0, <1>5 DEF Advance, Fits
    <2> QED BY <1>0, <2>1, <2>2, GoesPlaced, Zenon
  <1>6. CASE LockEnter(t)
    <2>1. PICK pc \in {"await", "acquire"} : Goes(t, pc, thr[t].ip, thr[t].depth)
      BY <1>6, Moves, Zenon
    <2>2. Fits(prog[t], pc, thr[t].ip)
      BY <1>0, <1>6, Zenon DEF LockEnter, At, Fits, Call
    <2> QED BY <1>0, <2>1, <2>2, GoesPlaced, Zenon
  <1>7. CASE LockAcquire(t)
    <2>1. \/ Goes(t, "advance", thr[t].ip, 1)
          \/ Goes(t, "run", thr[t].ip + 1, thr[t].depth + 1)
      BY <1>7, Moves, Zenon
    <2>2. Fits(prog[t], "advance", thr[t].ip) /\ Fits(prog[t], "run", thr[t].ip + 1)
      BY <1>0, <1>7, SMTT(20) DEF LockAcquire, At, Fits, Call
    <2> QED BY <1>0, <2>1, <2>2, GoesPlaced, Zenon
  <1>8. CASE TryLockBusy(t)
    <2>1. Goes(t, "run", Call(t).busy, thr[t].depth)
      BY <1>8, Moves, Zenon
    <2>2. Fits(prog[t], "run", Call(t).busy)
      BY <1>0, <1>8, SMTT(20) DEF TryLockBusy, Fits, Call, At
    <2> QED BY <1>0, <2>1, <2>2, GoesPlaced, Zenon
  <1>9. CASE Unlock(t)
    <2>1. Goes(t, "run", thr[t].ip + 1, IF thr[t].depth > 0 THEN thr[t].depth - 1 ELSE thr[t].depth)
      BY <1>9, Moves, Zenon
    <2>2. Fits(prog[t], "run", thr[t].ip + 1)
      BY <1>0, <1>9 DEF Unlock, Fits, Call, At
    <2> QED BY <1>0, <2>1, <2>2, GoesPlaced, Zenon
  <1>10. CASE WaitOver(t)
    <2>1. Goes(t, "run", thr[t].ip + 1, thr[t].depth)
      BY <1>10, Moves, Zenon
    <2>2. Fits(prog[t], "run", thr[t].ip + 1)
      BY <1>0, <1>10, SMTT(20) DEF WaitOver, Fits, Call, At
    <2> QED BY <1>0, <2>1, <2>2, GoesPlaced, Zenon
  <1>11. CASE WaitLeave(t)
    <2>1. Goes(t, "park", thr[t].ip, thr[t].depth)
      BY <1>11, Moves, Zenon
    <2>2. Fits(prog[t], "park", thr[t].ip)
      BY <1>0, <1>11, Zenon DEF WaitLeave, Fits, Call, At
    <2> QED BY <1>0, <2>1, <2>2, GoesPlaced, Zenon
  <1>12. CASE WaitPark(t)
    <2>1. Goes(t, "parked", thr[t].ip, thr[t].depth)
      BY <1>12, Moves, Zenon
    <2>2. Fits(prog[t], "parked", thr[t].ip)
      BY <1>0, <1>12, Zenon DEF WaitPark, Fits, Call, At
    <2> QED BY <1>0, <2>1, <2>2, GoesPlaced, Zenon
  <1>13. CASE WaitWake(t)
    <2>1. Goes(t, "return", thr[t].ip, thr[t].depth)
      BY <1>13, Moves, Zenon
    <2>2. Fits(prog[t], "return", thr[t].ip)
      BY <1>0, <1>13, Zenon DEF WaitWake, Fits, Call, At
    <2> QED BY <1>0, <2>1, <2>2, GoesPlaced, Zenon
  <1>14. CASE WaitReturn(t)
    <2>1. Goes(t, "advance", thr[t].ip, thr[t].depth)
      BY <1>14, Moves, Zenon
    <2>2. Fits(prog[t], "advance", thr[t].ip)
      BY <1>0, <1>14, Zenon DEF WaitReturn, Fits, Call, At
    <2> QED BY <1>0, <2>1, <2>2, GoesPlaced, Zenon
  <1>15. CASE Signal(t)
    <2>1. Goes(t, "run", thr[t].ip + 1, thr[t].depth)
      BY <1>15, Moves, Zenon
    <2>2. Fits(prog[t], "run", thr[t].ip + 1)
      <3>1. thr[t].ip \in DOMAIN prog[t]
        BY <1>15, Zenon DEF Signal, At
      <3> QED BY <1>0, <3>1 DEF Fits
    <2> QED BY <1>0, <2>1, <2>2, GoesPlaced, Zenon
  <1>16. CASE CreateSlot(t)
    <2>1. Fits(prog[t], "create", thr[t].ip)
      BY <1>0, <1>16, Zenon DEF CreateSlot, At, Fits, Call
    <2> QED BY <1>0, <1>16, <2>1, CreatesSlot, SMTT(20) DEF Placed
  <1>17. CASE CreateThread(t)
    <2>1. Fits(prog[t], "run", thr[t].ip + 1)
      <3>1. thr[t].ip \in DOMAIN prog[t]
        BY <1>17, Zenon DEF CreateThread, At
      <3> QED BY <1>0, <3>1 DEF Fits
    <2>2. \A u \in Threads : Fits(prog[u], "run", thr[u].ip)
      BY Zenon DEF Placed, Fits
    <2> QED BY <1>0, <1>17, <2>1, <2>2, CreatesThread DEF Placed
  <1>18. CASE Exit(t)
    <2>1. Goes(t, "done", thr[t].ip, thr[t].depth)
      BY <1>18, Moves, Zenon
    <2>2. Fits(prog[t], "done", thr[t].ip)
      BY <1>0, <1>18, Zenon DEF Exit, Fits, Call
    <2> QED BY <1>0, <2>1, <2>2, GoesPlaced, Zenon
  <1>19. CASE JoinLeave(t)
    <2>1. Goes(t, "join", thr[t].ip, thr[t].depth)
      BY <1>19, Moves, Zenon
    <2>2. Fits(prog[t], "join", thr[t].ip)
      BY <1>0, <1>19, Zenon DEF JoinLeave, Fits, Call, At
    <2> QED BY <1>0, <2>1, <2>2, GoesPlaced, Zenon
  <1>20. CASE JoinReturn(t)
    <2>1. Goes(t, "run", thr[t].ip + 1, thr[t].depth)
      BY <1>20, Moves, Zenon
    <2>2. Fits(prog[t], "run", thr[t].ip + 1)
      BY <1>0, <1>20, SMTT(20) DEF JoinReturn, Fits, Call, At
    <2> QED BY <1>0, <2>1, <2>2, GoesPlaced, Zenon
  <1> QED
    BY <1>1, <1>2, <1>3, <1>4, <1>5, <1>6, <1>7, <1>8, <1>9, <1>10,
       <1>11, <1>12, <1>13, <1>14, <1>15, <1>16, <1>17, <1>18, <1>19, <1>20, Zenon DEF Step

\* A scan stays below its end.
LEMMA ScansEndStep ==
  ASSUME Typed, ScansEnd, NEW t \in Threads, Step(t)
  PROVE  ScansEnd'
  <1>0. /\ thr \in [Threads -> ThreadState] /\ next_slot \in Nat
        /\ \A u \in Threads : thr[u].i \in Nat /\ thr[u].n \in Nat
    BY Zenon DEF Typed, ThreadState
  <1>1. CASE AwaitTurn(t)
    <2>1. /\ \A u \in Threads \ {t} : thr'[u] = thr[u]
          /\ \/ thr'[t].i = 0 /\ thr'[t].n = next_slot
             \/ thr'[t].i = thr[t].i /\ thr'[t].n = thr[t].n
      BY <1>0, <1>1, Zenon DEF AwaitTurn, ThreadState
    <2> QED BY <1>0, <2>1 DEF ScansEnd
  <1>2. CASE ScanSlot(t)
    <2>1. /\ \A u \in Threads \ {t} : thr'[u] = thr[u]
          /\ thr'[t].i = thr[t].i + 1 /\ thr'[t].n = thr[t].n /\ thr[t].i < thr[t].n
      BY <1>0, <1>2, Zenon DEF ScanSlot, ThreadState
    <2> QED BY <1>0, <2>1 DEF ScansEnd
  <1>3. CASE ScanAgain(t)
    BY <1>0, <1>3 DEF ScanAgain, ScansEnd, ThreadState
  <1>4. CASE ScanDone(t)
    BY <1>0, <1>4, Zenon DEF ScanDone, ScansEnd, ThreadState
  <1>5. CASE Advance(t)
    BY <1>0, <1>5, Zenon DEF Advance, ScansEnd, ThreadState
  <1>6. CASE LockEnter(t)
    BY <1>0, <1>6, Zenon DEF LockEnter, ScansEnd, ThreadState
  <1>7. CASE LockAcquire(t)
    <2>1. \A u \in Threads : thr'[u].i = thr[u].i /\ thr'[u].n = thr[u].n
      <3>1. \/ thr' = [thr EXCEPT ![t].depth = 1, ![t].pc = "advance"]
            \/ thr' = [thr EXCEPT ![t].depth = @ + 1, ![t].pc = "run", ![t].ip = @ + 1]
        BY <1>7, Zenon DEF LockAcquire, Acquired
      <3> QED BY <1>0, <3>1 DEF ThreadState
    <2> QED BY <2>1, Zenon DEF ScansEnd
  <1>8. CASE TryLockBusy(t)
    BY <1>0, <1>8, Zenon DEF TryLockBusy, ScansEnd, ThreadState
  <1>9. CASE Unlock(t)
    BY <1>0, <1>9, Zenon DEF Unlock, ScansEnd, ThreadState
  <1>10. CASE WaitOver(t)
    BY <1>0, <1>10, Zenon DEF WaitOver, ScansEnd, ThreadState
  <1>11. CASE WaitLeave(t)
    BY <1>0, <1>11, Zenon DEF WaitLeave, ScansEnd, ThreadState
  <1>12. CASE WaitPark(t)
    BY <1>0, <1>12, Zenon DEF WaitPark, ScansEnd, ThreadState
  <1>13. CASE WaitWake(t)
    BY <1>0, <1>13, Zenon DEF WaitWake, ScansEnd, ThreadState
  <1>14. CASE WaitReturn(t)
    BY <1>0, <1>14, Zenon DEF WaitReturn, ScansEnd, ThreadState
  <1>15. CASE Signal(t)
    BY <1>0, <1>15, Zenon DEF Signal, ScansEnd, ThreadState
  <1>16. CASE CreateSlot(t)
    BY <1>16, CreatesSlot, Zenon DEF ScansEnd
  <1>17. CASE CreateThread(t)
    BY <1>17, CreatesThread, Zenon DEF ScansEnd
  <1>18. CASE Exit(t)
    BY <1>0, <1>18, Zenon DEF Exit, ScansEnd, ThreadState
  <1>19. CASE JoinLeave(t)
    BY <1>0, <1>19, Zenon DEF JoinLeave, ScansEnd, ThreadState
  <1>20. CASE JoinReturn(t)
    BY <1>0, <1>20, Zenon DEF JoinReturn, ScansEnd, ThreadState
  <1> QED
    BY <1>1, <1>2, <1>3, <1>4, <1>5, <1>6, <1>7, <1>8, <1>9, <1>10,
       <1>11, <1>12, <1>13, <1>14, <1>15, <1>16, <1>17, <1>18, <1>19, <1>20, Zenon DEF Step

\* Only a creation gives out a slot.
LEMMA SlotsStay ==
  ASSUME Typed, NEW t \in Threads, Step(t), ~CreateSlot(t), NEW u \in Threads
  PROVE  thr'[u].slot = thr[u].slot
  <1>1. CASE AwaitTurn(t)
    BY <1>1, Moves, Zenon DEF Goes
  <1>2. CASE ScanSlot(t)
    BY <1>2, Moves, Zenon DEF Goes
  <1>3. CASE ScanAgain(t)
    BY <1>3, Moves, Zenon DEF Goes
  <1>4. CASE ScanDone(t)
    BY <1>4, Moves, Zenon DEF Goes
  <1>5. CASE Advance(t)
    BY <1>5, Moves, Zenon DEF Goes
  <1>6. CASE LockEnter(t)
    BY <1>6, Moves, Zenon DEF Goes
  <1>7. CASE LockAcquire(t)
    BY <1>7, Moves, Zenon DEF Goes
  <1>8. CASE TryLockBusy(t)
    BY <1>8, Moves, Zenon DEF Goes
  <1>9. CASE Unlock(t)
    BY <1>9, Moves, Zenon DEF Goes
  <1>10. CASE WaitOver(t)
    BY <1>10, Moves, Zenon DEF Goes
  <1>11. CASE WaitLeave(t)
    BY <1>11, Moves, Zenon DEF Goes
  <1>12. CASE WaitPark(t)
    BY <1>12, Moves, Zenon DEF Goes
  <1>13. CASE WaitWake(t)
    BY <1>13, Moves, Zenon DEF Goes
  <1>14. CASE WaitReturn(t)
    BY <1>14, Moves, Zenon DEF Goes
  <1>15. CASE Signal(t)
    BY <1>15, Moves, Zenon DEF Goes
  <1>16. CASE CreateSlot(t)
    BY <1>16, Zenon
  <1>17. CASE CreateThread(t)
    BY <1>17, CreatesThread, SMTT(20)
  <1>18. CASE Exit(t)
    BY <1>18, Moves, Zenon DEF Goes
  <1>19. CASE JoinLeave(t)
    BY <1>19, Moves, Zenon DEF Goes
  <1>20. CASE JoinReturn(t)
    BY <1>20, Moves, Zenon DEF Goes
  <1> QED
    BY <1>1, <1>2, <1>3, <1>4, <1>5, <1>6, <1>7, <1>8, <1>9, <1>10,
       <1>11, <1>12, <1>13, <1>14, <1>15, <1>16, <1>17, <1>18, <1>19, <1>20, Zenon DEF Step

\* A thread's slot was handed out.
LEMMA HandedStep ==
  ASSUME Typed, Handed, NEW t \in Threads, Step(t)
  PROVE  Handed'
  <1>0. /\ next_slot \in Nat /\ next_slot' \in Nat /\ next_slot' >= next_slot
        /\ \A s \in Slots : active'[s] => s < next_slot'
        /\ \A u \in Threads : thr[u].slot \in Int /\ thr[u].slot < next_slot
    BY TableTyped, ThreadFields, Zenon DEF Typed, Handed
  <1>1. CASE CreateSlot(t)
    <2>1. next_slot' = next_slot + 1
      BY <1>1, Zenon DEF CreateSlot
    <2>2. \A u \in Threads : \/ thr'[u].slot = thr[u].slot
                             \/ thr'[u].slot = next_slot
                             \/ thr'[u].slot = -1
      BY <1>1, CreatesSlot, Zenon
    <2> QED BY <1>0, <2>1, <2>2 DEF Handed
  <1>2. CASE ~CreateSlot(t)
    <2>1. \A u \in Threads : thr'[u].slot = thr[u].slot
      BY <1>2, SlotsStay, Zenon
    <2> QED BY <1>0, <2>1 DEF Handed
  <1> QED BY <1>1, <1>2, Zenon


\* The threads detsched_init starts with.
LEMMA StartingThreads ==
  /\ Threads0 \in [Threads -> ThreadState]
  /\ \A t \in Threads : /\ Threads0[t].ip = 1 /\ Threads0[t].depth = 0
                         /\ Threads0[t].i = 0 /\ Threads0[t].n = 0
                         /\ Threads0[t].pc = (IF t = 0 THEN "run" ELSE "none")
                         /\ Threads0[t].slot = (IF t = 0 THEN 0 ELSE -1)
  <1>1. {"none", "run"} \subseteq PCs /\ {0, -1} \subseteq Slots \cup {-1}
    BY TableAssumption DEF PCs, Slots
  <1>2. NewThread \in ThreadState /\ [NewThread EXCEPT !.slot = 0, !.pc = "run"] \in ThreadState
    <2>1. NewThread \in ThreadState
      BY <1>1 DEF NewThread, ThreadState
    <2> QED BY <1>1, <2>1, Zenon DEF ThreadState
  <1>3. Threads0 \in [Threads -> ThreadState]
    BY <1>2, Zenon DEF Threads0
  <1> QED BY <1>3, Zenon DEF Threads0, NewThread

\* The types in the first state of a run.
LEMMA BaseInit ==
  ASSUME Init
  PROVE  Typed /\ Placed /\ ScansEnd /\ Handed
  <1>1. thr \in [Threads -> ThreadState]
    BY StartingThreads, Zenon DEF Init
  <1>2. Typed
    <2>1. [prog |-> prog, spin_cap |-> spin_cap] \in Setups
      <3>1. PICK s \in Setups : prog = s.prog /\ spin_cap = s.spin_cap
        BY Zenon DEF Init
      <3>2. s = [prog |-> s.prog, spin_cap |-> s.spin_cap]
        BY SetupsAssumption, Zenon
      <3> QED BY <3>1, <3>2, Zenon
    <2>2. lock \in [Locks -> LockState]
      BY Zenon DEF Init, Locks0, LockState
    <2>3. active \in [Slots -> BOOLEAN] /\ flag \in [Conds -> BOOLEAN] /\ parked \in [Conds -> SUBSET Threads]
      BY Zenon DEF Init
    <2>4. next_slot \in Nat \ {0} /\ lc \in [Slots -> Nat] /\ run \in {1, 2}
      BY DEF Init
    <2>5. relaxed \in BOOLEAN
      BY Zenon DEF Init
    <2> QED BY <1>1, <2>1, <2>2, <2>3, <2>4, <2>5, Zenon DEF Typed
  <1>3. \A t \in Threads : /\ thr[t].ip = 1 /\ thr[t].pc \in {"none", "run"} /\ thr[t].i = 0 /\ thr[t].n = 0
                           /\ thr[t].slot \in {-1, 0}
    BY StartingThreads, Zenon DEF Init
  <1>4. Placed /\ ScansEnd
    BY <1>2, <1>3, Programs DEF Placed, ScansEnd, Fits
  <1>5. Handed
    <2>1. next_slot = 1 /\ \A s \in Slots : active[s] => s = 0
      BY Zenon DEF Init
    <2> QED BY <1>3, <2>1 DEF Handed
  <1> QED BY <1>2, <1>4, <1>5, Zenon

LEMMA BaseRerun ==
  ASSUME Typed, Rerun
  PROVE  (Typed /\ Placed /\ ScansEnd /\ Handed)'
  <1>1. thr' \in [Threads -> ThreadState]
    BY StartingThreads, Zenon DEF Rerun, Start
  <1>2. Typed'
    BY <1>1, ThreadsAssumption, TableAssumption
    DEF Rerun, Start, Typed, Locks0, LockState, NoThread
  <1>3. \A t \in Threads : /\ thr'[t].ip = 1 /\ thr'[t].pc \in {"none", "run"} /\ thr'[t].i = 0 /\ thr'[t].n = 0
                           /\ thr'[t].slot \in {-1, 0}
    BY StartingThreads, Zenon DEF Rerun, Start
  <1>4. Placed' /\ ScansEnd'
    BY <1>3, Programs DEF Placed, ScansEnd, Fits, Rerun
  <1>5. Handed'
    <2>1. next_slot' = 1 /\ \A s \in Slots : active'[s] => s = 0
      BY Zenon DEF Rerun, Start
    <2> QED BY <1>3, <2>1 DEF Handed
  <1> QED BY <1>2, <1>4, <1>5, Zenon

Base == Typed /\ Placed /\ ScansEnd /\ Handed

\* The types are kept by every step of the two runs.
LEMMA BaseNext ==
  ASSUME Base, [Next]_vars
  PROVE  Base'
  <1>1. ASSUME NEW t \in Threads, Step(t)
        PROVE  Base'
    <2>1. Typed'
      BY <1>1, ThreadsTyped, TableTyped, AppTyped, Zenon DEF Base, Typed
    <2> QED BY <1>1, <2>1, PlacedStep, ScansEndStep, HandedStep, Zenon DEF Base
  <1>2. CASE Rerun
    BY <1>2, BaseRerun, Zenon DEF Base
  <1>3. CASE UNCHANGED vars
    BY <1>3, Zenon DEF vars, shared, app, Base, Typed, Placed, ScansEnd, Handed, Fits
  <1> QED BY <1>1, <1>2, <1>3, Zenon DEF Next, Over

\* Every variable of the scheduler keeps its type: no thread leaves its program,
\* no scan leaves the slots handed out, for every program and table size.
THEOREM TypeCorrect == Spec => []TypeOK
  <1>1. Init => Base
    BY BaseInit, Zenon DEF Base
  <1>2. Base /\ [Next]_vars => Base'
    BY BaseNext, Zenon
  <1>3. Base => TypeOK
    <2> SUFFICES ASSUME Base PROVE TypeOK
      BY Zenon
    <2>1. ASSUME NEW t \in Threads
          PROVE  /\ thr[t].slot \in Slots \cup {-1}
                 /\ thr[t].depth \in Nat
                 /\ thr[t].ip \in 1..(Len(prog[t]) + 1)
                 /\ thr[t].pc \in PCs
                 /\ thr[t].i \in 0..thr[t].n
                 /\ thr[t].spins \in Nat
      <3>1. /\ thr[t].slot \in Slots \cup {-1} /\ thr[t].depth \in Nat /\ thr[t].ip \in Nat \ {0}
            /\ thr[t].pc \in PCs /\ thr[t].i \in Nat /\ thr[t].n \in Nat /\ thr[t].spins \in Nat
        BY ThreadFields, Zenon DEF Base, Typed
      <3>2. thr[t].ip <= Len(prog[t]) + 1 /\ thr[t].i <= thr[t].n /\ Len(prog[t]) \in Nat
        BY Programs, Zenon DEF Base, Placed, ScansEnd, Fits
      <3> QED BY <3>1, <3>2
    <2>2. \A m \in Locks : /\ lock[m].writer \in Threads \cup {NoThread}
                           /\ lock[m].readers \subseteq Threads
      BY Zenon DEF Base, Typed, LockState
    <2> QED BY <2>1, <2>2, Zenon DEF Base, Typed, Handed, TypeOK, PCs
  <1> QED BY <1>1, <1>2, <1>3, PTL DEF Spec

-----------------------------------------------------------------------------
(* Turns *)

\* Main has threads still to create.
Creating == \E j \in DOMAIN prog[0] : j >= thr[0].ip /\ prog[0][j].op = "create"

\* A running thread that has a lock still to take, or a thread to create.
Contends(u) ==
  /\ thr[u].pc \notin {"none", "done"}
  /\ \E j \in DOMAIN prog[u] : j >= thr[u].ip /\ prog[u][j].op \in {"lock", "trylock", "create"}

Slotted(u) == thr[u].slot >= 0

\* Thread t comes before thread u in the order of turns.
Ahead(t, u) ==
  \/ lc[thr[t].slot] < lc[thr[u].slot]
  \/ lc[thr[t].slot] = lc[thr[u].slot] /\ thr[t].slot < thr[u].slot

\* No two threads share a slot, and a thread runs once main has passed the call
\* that creates it.
Started ==
  /\ thr[0].slot = 0 /\ thr[0].pc # "none"
  /\ \A t, u \in Threads : t # u /\ Slotted(t) => thr[t].slot # thr[u].slot
  /\ \A u \in Threads \ {0} :
       thr[u].pc # "none" =>
         \E j \in DOMAIN prog[0] : /\ j < thr[0].ip
                                   /\ prog[0][j].op = "create" /\ prog[0][j].thread = u

\* A thread in the middle of a scan is ahead of every contender it has passed and
\* of every contender behind its end; nobody passes slot 0 while main creates.
ScanTurn(t) ==
  thr[t].pc = "scan" =>
    /\ Slotted(t) /\ thr[t].slot < thr[t].n
    /\ Creating => thr[t].i = 0
    /\ \A u \in Threads \ {t} :
         Contends(u) /\ Slotted(u) /\ (thr[u].slot < thr[t].i \/ thr[u].slot >= thr[t].n)
           => Ahead(t, u)

\* A thread that has the turn is ahead of every other contender.
HoldTurn(t) ==
  InTurn(t) =>
    /\ Slotted(t) /\ ~Creating
    /\ \A u \in Threads \ {t} : Contends(u) /\ Slotted(u) => Ahead(t, u)

\* A contender takes part in the minimum, with clock 0 while main creates.
Counted(u) ==
  Contends(u) /\ Slotted(u) =>
    /\ active[thr[u].slot]
    /\ Creating => lc[thr[u].slot] = 0

Turns == \A t \in Threads : ScanTurn(t) /\ HoldTurn(t) /\ Counted(t)

\* The inductive invariant of the turns.
TurnInv == CreatedFirst(prog) /\ ~relaxed => Started /\ Turns

\* Thread t goes on in its program and nobody else moves.
Forward(t) ==
  /\ thr[t].pc \notin {"none", "done"} /\ thr'[t].pc # "none"
  /\ thr'[t].ip >= thr[t].ip /\ thr'[t].slot = thr[t].slot
  /\ \A u \in Threads \ {t} : thr'[u] = thr[u]

\* Every step but a creation moves its thread forward.
LEMMA GoForward ==
  ASSUME Base, CreatedFirst(prog), NEW t \in Threads, Step(t), ~CreateSlot(t), ~CreateThread(t)
  PROVE  Forward(t)
  <1>0. /\ Typed /\ thr[t].ip \in Nat
        /\ thr[t].ip \in DOMAIN prog[t] /\ Call(t).op = "trylock" =>
             Call(t).busy \in Nat /\ Call(t).busy > thr[t].ip
    <2>1. Typed /\ thr[t].ip \in Nat
      BY ThreadFields, Zenon DEF Base, Typed
    <2> QED BY <2>1, CallFacts DEF CreatedFirst, Call
  <1>1. CASE AwaitTurn(t)
    <2>1. thr[t].pc = "await"
      BY <1>1, Zenon DEF AwaitTurn
    <2>2. \/ Goes(t, "acquire", thr[t].ip, thr[t].depth)
          \/ Goes(t, "scan", thr[t].ip, thr[t].depth)
      BY <1>0, <1>1, Moves, Zenon
    <2> QED BY <1>0, <2>1, <2>2 DEF Goes, Forward
  <1>2. CASE ScanSlot(t)
    <2>1. thr[t].pc = "scan"
      BY <1>2, Zenon DEF ScanSlot
    <2>2. Goes(t, "scan", thr[t].ip, thr[t].depth)
      BY <1>0, <1>2, Moves, Zenon
    <2> QED BY <1>0, <2>1, <2>2 DEF Goes, Forward
  <1>3. CASE ScanAgain(t)
    <2>1. thr[t].pc = "scan"
      BY <1>3, Zenon DEF ScanAgain
    <2>2. \/ Goes(t, "acquire", thr[t].ip, thr[t].depth)
          \/ Goes(t, "await", thr[t].ip, thr[t].depth)
      BY <1>0, <1>3, Moves, Zenon
    <2> QED BY <1>0, <2>1, <2>2 DEF Goes, Forward
  <1>4. CASE ScanDone(t)
    <2>1. thr[t].pc = "scan"
      BY <1>4, Zenon DEF ScanDone
    <2>2. Goes(t, "acquire", thr[t].ip, thr[t].depth)
      BY <1>0, <1>4, Moves, Zenon
    <2> QED BY <1>0, <2>1, <2>2 DEF Goes, Forward
  <1>5. CASE Advance(t)
    <2>1. thr[t].pc = "advance"
      BY <1>5, Zenon DEF Advance
    <2>2. Goes(t, "run", IF Call(t).op = "wait" THEN thr[t].ip ELSE thr[t].ip + 1, thr[t].depth)
      BY <1>0, <1>5, Moves, Zenon
    <2> QED BY <1>0, <2>1, <2>2 DEF Goes, Forward
  <1>6. CASE LockEnter(t)
    <2>1. thr[t].pc = "run"
      BY <1>6, Zenon DEF LockEnter, At
    <2>2. Goes(t, IF thr[t].depth = 0 THEN "await" ELSE "acquire", thr[t].ip, thr[t].depth)
      BY <1>0, <1>6, Moves, Zenon
    <2> QED BY <1>0, <2>1, <2>2 DEF Goes, Forward
  <1>7. CASE LockAcquire(t)
    <2>1. thr[t].pc = "acquire"
      BY <1>7, Zenon DEF LockAcquire, At
    <2>2. \/ Goes(t, "advance", thr[t].ip, 1)
          \/ Goes(t, "run", thr[t].ip + 1, thr[t].depth + 1)
      BY <1>0, <1>7, Moves, Zenon
    <2> QED BY <1>0, <2>1, <2>2 DEF Goes, Forward
  <1>8. CASE TryLockBusy(t)
    <2>1. thr[t].pc = "acquire" /\ Call(t).busy >= thr[t].ip
      BY <1>0, <1>8 DEF TryLockBusy, At
    <2>2. Goes(t, "run", Call(t).busy, thr[t].depth)
      BY <1>0, <1>8, Moves, Zenon
    <2> QED BY <1>0, <2>1, <2>2, Zenon DEF Goes, Forward
  <1>9. CASE Unlock(t)
    <2>1. thr[t].pc = "run"
      BY <1>9, Zenon DEF Unlock, At
    <2>2. Goes(t, "run", thr[t].ip + 1, IF thr[t].depth > 0 THEN thr[t].depth - 1 ELSE thr[t].depth)
      BY <1>0, <1>9, Moves, Zenon
    <2> QED BY <1>0, <2>1, <2>2 DEF Goes, Forward
  <1>10. CASE WaitOver(t)
    <2>1. thr[t].pc = "run"
      BY <1>10, Zenon DEF WaitOver, At
    <2>2. Goes(t, "run", thr[t].ip + 1, thr[t].depth)
      BY <1>0, <1>10, Moves, Zenon
    <2> QED BY <1>0, <2>1, <2>2 DEF Goes, Forward
  <1>11. CASE WaitLeave(t)
    <2>1. thr[t].pc = "run"
      BY <1>11, Zenon DEF WaitLeave, At
    <2>2. Goes(t, "park", thr[t].ip, thr[t].depth)
      BY <1>0, <1>11, Moves, Zenon
    <2> QED BY <1>0, <2>1, <2>2 DEF Goes, Forward
  <1>12. CASE WaitPark(t)
    <2>1. thr[t].pc = "park"
      BY <1>12, Zenon DEF WaitPark, At
    <2>2. Goes(t, "parked", thr[t].ip, thr[t].depth)
      BY <1>0, <1>12, Moves, Zenon
    <2> QED BY <1>0, <2>1, <2>2 DEF Goes, Forward
  <1>13. CASE WaitWake(t)
    <2>1. thr[t].pc = "parked"
      BY <1>13, Zenon DEF WaitWake, At
    <2>2. Goes(t, "return", thr[t].ip, thr[t].depth)
      BY <1>0, <1>13, Moves, Zenon
    <2> QED BY <1>0, <2>1, <2>2 DEF Goes, Forward
  <1>14. CASE WaitReturn(t)
    <2>1. thr[t].pc = "return"
      BY <1>14, Zenon DEF WaitReturn, At
    <2>2. Goes(t, "advance", thr[t].ip, thr[t].depth)
      BY <1>0, <1>14, Moves, Zenon
    <2> QED BY <1>0, <2>1, <2>2 DEF Goes, Forward
  <1>15. CASE Signal(t)
    <2>1. thr[t].pc = "run"
      BY <1>15, Zenon DEF Signal, At
    <2>2. Goes(t, "run", thr[t].ip + 1, thr[t].depth)
      BY <1>0, <1>15, Moves, Zenon
    <2> QED BY <1>0, <2>1, <2>2 DEF Goes, Forward
  <1>16. CASE CreateSlot(t)
    BY <1>16, Zenon
  <1>17. CASE CreateThread(t)
    BY <1>17, Zenon
  <1>18. CASE Exit(t)
    <2>1. thr[t].pc = "run"
      BY <1>18, Zenon DEF Exit
    <2>2. Goes(t, "done", thr[t].ip, thr[t].depth)
      BY <1>0, <1>18, Moves, Zenon
    <2> QED BY <1>0, <2>1, <2>2 DEF Goes, Forward
  <1>19. CASE JoinLeave(t)
    <2>1. thr[t].pc = "run"
      BY <1>19, Zenon DEF JoinLeave, At
    <2>2. Goes(t, "join", thr[t].ip, thr[t].depth)
      BY <1>0, <1>19, Moves, Zenon
    <2> QED BY <1>0, <2>1, <2>2 DEF Goes, Forward
  <1>20. CASE JoinReturn(t)
    <2>1. thr[t].pc = "join"
      BY <1>20, Zenon DEF JoinReturn, At
    <2>2. Goes(t, "run", thr[t].ip + 1, thr[t].depth)
      BY <1>0, <1>20, Moves, Zenon
    <2> QED BY <1>0, <2>1, <2>2 DEF Goes, Forward
  <1> QED
    BY <1>1, <1>2, <1>3, <1>4, <1>5, <1>6, <1>7, <1>8, <1>9, <1>10,
       <1>11, <1>12, <1>13, <1>14, <1>15, <1>16, <1>17, <1>18, <1>19, <1>20, Zenon DEF Step

\* What moving forward does not change: the others contend as before, the thread
\* itself no more than before, and main has no more threads to create.
LEMMA ForwardContends ==
  ASSUME Base, NEW t \in Threads, Forward(t), thr'[t].ip \in Nat, prog' = prog
  PROVE  /\ \A u \in Threads \ {t} : Contends(u)' = Contends(u) /\ InTurn(u)' = InTurn(u)
         /\ Contends(t)' => Contends(t)
         /\ Creating' => Creating
         /\ \A u \in Threads : thr'[u].slot = thr[u].slot
  <1>1. /\ thr[t].ip \in Nat /\ thr'[t].ip \in Nat /\ thr'[t].ip >= thr[t].ip
        /\ Len(prog[t]) \in Nat /\ DOMAIN prog[t] = 1..Len(prog[t])
    BY CallFacts, Zenon DEF Base, Typed, ThreadState, Forward
  <1>2. \A u \in Threads \ {t} : Contends(u)' = Contends(u) /\ InTurn(u)' = InTurn(u)
    BY Zenon DEF Forward, Contends, InTurn, Call
  <1>3. Contends(t)' => Contends(t)
    <2> SUFFICES ASSUME Contends(t)' PROVE Contends(t)
      BY Zenon
    <2>1. PICK j \in DOMAIN prog[t] : j >= thr'[t].ip /\ prog[t][j].op \in {"lock", "trylock", "create"}
      BY Zenon DEF Contends
    <2>2. j >= thr[t].ip
      BY <1>1, <2>1
    <2> QED BY <2>1, <2>2, Zenon DEF Forward, Contends
  <1>4. Creating' => Creating
    <2> SUFFICES ASSUME Creating' PROVE Creating
      BY Zenon
    <2>1. PICK j \in DOMAIN prog[0] : j >= thr'[0].ip /\ prog[0][j].op = "create"
      BY Zenon DEF Creating
    <2>2. j \in Nat /\ thr'[0].ip \in Nat /\ thr[0].ip \in Nat /\ thr'[0].ip >= thr[0].ip
      <3>1. j \in Nat /\ thr[0].ip \in Nat
        <4>1. Len(prog[0]) \in Nat /\ DOMAIN prog[0] = 1..Len(prog[0])
          BY Programs, ThreadsAssumption, Zenon DEF Base
        <4> QED BY <2>1, <4>1, ThreadsAssumption DEF Base, Typed, ThreadState
      <3> QED BY <1>1, <3>1, ThreadsAssumption DEF Forward
    <2> QED BY <2>1, <2>2 DEF Creating
  <1> QED BY <1>2, <1>3, <1>4, Zenon DEF Forward

LEMMA ForwardStarted ==
  ASSUME Base, Started, NEW t \in Threads, Forward(t), thr'[t].ip \in Nat, prog' = prog
  PROVE  Started'
  <1>1. /\ thr[t].ip \in Nat /\ thr'[t].ip >= thr[t].ip
        /\ Len(prog[0]) \in Nat /\ DOMAIN prog[0] = 1..Len(prog[0])
    BY CallFacts, ThreadsAssumption, Zenon DEF Base, Typed, ThreadState, Forward
  <1>2. \A u \in Threads : thr'[u].slot = thr[u].slot /\ (thr'[u].pc # "none" => thr[u].pc # "none")
    BY Zenon DEF Forward
  <1>3. thr'[0].ip >= thr[0].ip /\ thr'[0].pc # "none" /\ thr[0].ip \in Nat /\ thr'[0].ip \in Nat
    <2>1. thr[0].ip \in Nat /\ thr[0].pc # "none"
      BY ThreadsAssumption, Zenon DEF Base, Typed, ThreadState, Started
    <2> QED BY <1>1, <2>1, ThreadsAssumption DEF Forward
  <1>4. (thr[0].slot = 0 /\ thr[0].pc # "none")'
    BY <1>2, <1>3, ThreadsAssumption, Zenon DEF Started
  <1>5. (\A v, u \in Threads : v # u /\ Slotted(v) => thr[v].slot # thr[u].slot)'
    BY <1>2 DEF Started, Slotted
  <1>6. ASSUME NEW u \in Threads \ {0}, thr'[u].pc # "none"
        PROVE  (\E j \in DOMAIN prog[0] : /\ j < thr[0].ip
                                          /\ prog[0][j].op = "create" /\ prog[0][j].thread = u)'
    <2>1. PICK j \in DOMAIN prog[0] : /\ j < thr[0].ip
                                     /\ prog[0][j].op = "create" /\ prog[0][j].thread = u
      BY <1>2, <1>6, Zenon DEF Started
    <2>2. j < thr'[0].ip
      BY <1>1, <1>3, <2>1
    <2> QED BY <2>1, <2>2, Zenon
  <1> QED BY <1>4, <1>5, <1>6, Zenon DEF Started

\* A step forward that leaves the other slots alone, and does not turn the thread's
\* own clock back, keeps the turns of the others; only its own are left to show.
LEMMA ForwardTurns ==
  ASSUME Base, Started, Turns, NEW t \in Threads, Forward(t), thr'[t].ip \in Nat, prog' = prog,
         lc' \in [Slots -> Nat],
         \A s \in Slots : s # thr[t].slot => lc'[s] = lc[s] /\ active'[s] = active[s],
         Slotted(t) => lc'[thr[t].slot] >= lc[thr[t].slot],
         ScanTurn(t)', HoldTurn(t)', Counted(t)'
  PROVE  Turns'
  <1>1. /\ \A u \in Threads \ {t} : Contends(u)' = Contends(u) /\ InTurn(u)' = InTurn(u)
        /\ Contends(t)' => Contends(t)
        /\ Creating' => Creating
        /\ \A u \in Threads : thr'[u].slot = thr[u].slot
    BY ForwardContends, Zenon
  <1>2. /\ lc \in [Slots -> Nat]
        /\ \A u \in Threads : Slotted(u) => thr[u].slot \in Slots
        /\ \A u \in Threads : thr[u].slot \in Int
    BY ThreadFields, Zenon DEF Base, Typed, Slotted
  <1>3. \A u \in Threads \ {t} : Slotted(u) => /\ thr[u].slot # thr[t].slot
                                             /\ lc'[thr[u].slot] = lc[thr[u].slot]
                                             /\ active'[thr[u].slot] = active[thr[u].slot]
    BY <1>2, Zenon DEF Started
  <1>4. ASSUME NEW u \in Threads \ {t}, NEW w \in Threads \ {u}, Slotted(u), Slotted(w), Ahead(u, w)
        PROVE  Ahead(u, w)'
    <2>1. lc'[thr[w].slot] >= lc[thr[w].slot]
      BY <1>2, <1>3, <1>4
    <2>2. /\ lc'[thr[u].slot] = lc[thr[u].slot]
          /\ lc[thr[u].slot] \in Nat /\ lc[thr[w].slot] \in Nat /\ lc'[thr[w].slot] \in Nat
      BY <1>2, <1>3, <1>4, Zenon
    <2> QED BY <1>1, <1>2, <1>4, <2>1, <2>2 DEF Ahead
  <1>5. ASSUME NEW u \in Threads \ {t}
        PROVE  (ScanTurn(u) /\ HoldTurn(u) /\ Counted(u))'
    <2>1. thr'[u] = thr[u] /\ ScanTurn(u) /\ HoldTurn(u) /\ Counted(u)
      BY Zenon DEF Forward, Turns
    <2>2. \A w \in Threads \ {u} : Contends(w)' /\ Slotted(w)' => Contends(w) /\ Slotted(w)
      BY <1>1, Zenon DEF Slotted
    <2>3. ScanTurn(u)'
      BY <1>1, <1>4, <2>1, <2>2, Zenon DEF ScanTurn, Slotted
    <2>4. HoldTurn(u)'
      BY <1>1, <1>4, <2>1, <2>2, Zenon DEF HoldTurn, Slotted
    <2>5. Counted(u)'
      BY <1>1, <1>3, <2>1, Zenon DEF Counted, Slotted
    <2> QED BY <2>3, <2>4, <2>5, Zenon
  <1> QED BY <1>5, Zenon DEF Turns

\* A step that leaves the clocks and the participants alone.
LEMMA PlainTurns ==
  ASSUME Base, Started, Turns, NEW t \in Threads, Forward(t), thr'[t].ip \in Nat, prog' = prog,
         lc' = lc, active' = active, ScanTurn(t)', HoldTurn(t)'
  PROVE  Turns'
  <1>1. /\ lc \in [Slots -> Nat]
        /\ Slotted(t) => thr[t].slot \in Slots
    BY DEF Base, Typed, ThreadState, Slotted, Slots
  <1>2. Counted(t)'
    BY ForwardContends, Zenon DEF Turns, Counted, Slotted
  <1> QED BY <1>1, <1>2, ForwardTurns

\* A step of a thread that has no lock to take and no thread to create any more.
LEMMA IdleTurns ==
  ASSUME Base, Started, Turns, NEW t \in Threads, Forward(t), thr'[t].ip \in Nat, prog' = prog,
         ~Contends(t), thr'[t].pc # "scan", ~InTurn(t)', lc' \in [Slots -> Nat],
         \A s \in Slots : s # thr[t].slot => lc'[s] = lc[s] /\ active'[s] = active[s],
         Slotted(t) => lc'[thr[t].slot] >= lc[thr[t].slot]
  PROVE  Turns'
  <1>1. ScanTurn(t)' /\ HoldTurn(t)' /\ Counted(t)'
    BY ForwardContends, Zenon DEF ScanTurn, HoldTurn, Counted
  <1> QED BY <1>1, ForwardTurns, Zenon

\* A thread at a wait or a join, or at the end of its program, contends no more.
LEMMA Retired ==
  ASSUME Base, CreatedFirst(prog), NEW t \in Threads,
         thr[t].ip \in DOMAIN prog[t] => Call(t).op \in {"wait", "join"}
  PROVE  ~Contends(t)
  <1> SUFFICES ASSUME Contends(t) PROVE FALSE
    BY Zenon
  <1>1. thr[t].ip \in Nat \ {0} /\ Len(prog[t]) \in Nat /\ DOMAIN prog[t] = 1..Len(prog[t])
    BY CallFacts, Zenon DEF Base, Typed, ThreadState
  <1>2. PICK j \in DOMAIN prog[t] : j >= thr[t].ip /\ prog[t][j].op \in {"lock", "trylock", "create"}
    BY Zenon DEF Contends
  <1>3. thr[t].ip \in DOMAIN prog[t] /\ j # thr[t].ip
    BY <1>1, <1>2 DEF Call
  <1>4. thr[t].ip < j
    BY <1>1, <1>2, <1>3
  <1> QED BY <1>2, <1>3, <1>4, Zenon DEF CreatedFirst, Call

\* While main creates threads it is at none of its locks, and it takes part.
LEMMA MainCreates ==
  ASSUME Base, Started, CreatedFirst(prog), Creating
  PROVE  /\ Contends(0)
         /\ thr[0].pc \notin {"await", "scan", "acquire", "advance"}
  <1>1. thr[0].ip \in Nat \ {0} /\ Len(prog[0]) \in Nat /\ DOMAIN prog[0] = 1..Len(prog[0])
    BY CallFacts, ThreadsAssumption, Zenon DEF Base, Typed, ThreadState
  <1>2. PICK j \in DOMAIN prog[0] : j >= thr[0].ip /\ prog[0][j].op = "create"
    BY Zenon DEF Creating
  <1>3. thr[0].ip \in DOMAIN prog[0]
    BY <1>1, <1>2
  <1>4. Fits(prog[0], thr[0].pc, thr[0].ip)
    BY ThreadsAssumption, Zenon DEF Base, Placed
  <1>5. Contends(0)
    BY <1>2, <1>3, <1>4, Zenon DEF Contends, Started, Fits
  <1>6. prog[0][thr[0].ip].op \notin {"lock", "trylock", "wait"}
    <2>1. CASE thr[0].ip = j
      BY <1>2, <2>1, Zenon
    <2>2. CASE thr[0].ip < j
      BY <1>2, <1>3, <2>2, ThreadsAssumption, Zenon DEF CreatedFirst
    <2> QED BY <1>1, <1>2, <2>1, <2>2
  <1> QED BY <1>4, <1>5, <1>6, Zenon DEF Fits

LEMMA SlotsTyped ==
  ASSUME Typed
  PROVE  /\ lc \in [Slots -> Nat]
         /\ \A u \in Threads : /\ thr[u].i \in Nat /\ thr[u].n \in Nat /\ thr[u].slot \in Int
                               /\ Slotted(u) => thr[u].slot \in Slots
  <1>1. lc \in [Slots -> Nat] /\ \A u \in Threads : thr[u] \in ThreadState
    BY Zenon DEF Typed
  <1>2. \A u \in Threads : /\ thr[u].i \in Nat /\ thr[u].n \in Nat
                           /\ thr[u].slot \in Slots \cup {-1}
    BY <1>1, Zenon DEF ThreadState
  <1>3. \A u \in Threads : thr[u].slot \in Int /\ (Slotted(u) => thr[u].slot \in Slots)
    <2>1. \A s \in Slots \cup {-1} : s \in Int /\ (s >= 0 => s \in Slots)
      BY DEF Slots
    <2> QED BY <1>2, <2>1, Zenon DEF Slotted
  <1> QED BY <1>1, <1>2, <1>3, Zenon

\* The gate: a scan that goes on, and one that ends, keep the order of turns.
LEMMA ScanSlotTurns ==
  ASSUME Base, Started, Turns, CreatedFirst(prog), NEW t \in Threads, ScanSlot(t)
  PROVE  ScanTurn(t)'
  <1>0. /\ Typed /\ prog' = prog /\ lc' = lc /\ active' = active
        /\ thr[t].pc = "scan" /\ ScanTurn(t)
        /\ Goes(t, "scan", thr[t].ip, thr[t].depth)
        /\ thr'[t].i = thr[t].i + 1 /\ thr'[t].n = thr[t].n
        /\ thr[t].i \in Nat /\ thr[t].n \in Nat /\ lc \in [Slots -> Nat]
        /\ \A u \in Threads : thr[u].slot \in Int /\ (Slotted(u) => thr[u].slot \in Slots)
    <2>1. Typed
      BY Zenon DEF Base
    <2>2. prog' = prog /\ lc' = lc /\ active' = active /\ thr[t].pc = "scan"
      BY Zenon DEF ScanSlot, shared, history
    <2>3. /\ Goes(t, "scan", thr[t].ip, thr[t].depth)
          /\ thr'[t].i = thr[t].i + 1 /\ thr'[t].n = thr[t].n
      BY <2>1, Moves, Zenon
    <2>4. ScanTurn(t)
      BY Zenon DEF Turns
    <2> QED BY <2>1, <2>2, <2>3, <2>4, SlotsTyped, Zenon
  <1>1. Step(t) /\ ~CreateSlot(t) /\ ~CreateThread(t)
    BY <1>0, Zenon DEF Step, CreateSlot, CreateThread, At
  <1>2. Forward(t) /\ thr'[t].ip \in Nat
    BY <1>0, <1>1, GoForward, Zenon DEF Goes, Typed, ThreadState
  <1>3. Slotted(t) /\ thr[t].slot < thr[t].n
    BY <1>0, Zenon DEF ScanTurn
  <1>4. ASSUME NEW u \in Threads \ {t}, Contends(u), Slotted(u), thr[u].slot = thr[t].i
        PROVE  Ahead(t, u)
    <2>1. thr[t].i \in Slots \ {thr[t].slot} /\ active[thr[t].i]
      BY <1>0, <1>3, <1>4 DEF Started, Turns, Counted
    <2>2. ~Before(thr[t].i, thr[t].slot)
      BY <2>1, Zenon DEF ScanSlot
    <2>3. lc[thr[t].slot] \in Nat /\ lc[thr[u].slot] \in Nat
      BY <1>0, <1>3, <1>4, Zenon
    <2> QED BY <1>0, <1>3, <1>4, <2>1, <2>2, <2>3 DEF Before, Ahead
  <1>5. ~Creating
    <2> SUFFICES ASSUME Creating PROVE FALSE
      BY Zenon
    <2>1. Contends(0) /\ thr[0].slot = 0 /\ t # 0 /\ Slotted(0)
      BY <1>0, MainCreates DEF Started, Slotted
    <2>2. thr[t].i = 0
      BY <1>0, Zenon DEF ScanTurn
    <2>3. Ahead(t, 0)
      BY <1>4, <2>1, <2>2, ThreadsAssumption, Zenon
    <2>4. Contends(t)
      <3>1. Fits(prog[t], "scan", thr[t].ip)
        BY <1>0, Zenon DEF Base, Placed
      <3>2. thr[t].ip >= thr[t].ip
        BY <1>0 DEF Typed, ThreadState
      <3> QED BY <1>0, <3>1, <3>2, Zenon DEF Contends, Fits
    <2>5. lc[thr[t].slot] = 0 /\ lc[0] = 0
      BY <1>3, <2>1, <2>4, ThreadsAssumption, Zenon DEF Turns, Counted
    <2> QED BY <1>0, <1>3, <2>1, <2>3, <2>5 DEF Ahead, Slotted
  <1>6. /\ \A u \in Threads \ {t} : Contends(u)' = Contends(u)
        /\ ~Creating'
        /\ \A u \in Threads : thr'[u].slot = thr[u].slot
    BY <1>0, <1>2, <1>5, ForwardContends, Zenon
  <1>7. ASSUME NEW u \in Threads \ {t}, Contends(u), Slotted(u),
               thr[u].slot < thr[t].i + 1 \/ thr[u].slot >= thr[t].n
        PROVE  Ahead(t, u)
    <2>1. CASE thr[u].slot = thr[t].i
      BY <1>4, <1>7, <2>1, Zenon
    <2>2. CASE thr[u].slot # thr[t].i
      <3>1. thr[u].slot < thr[t].i \/ thr[u].slot >= thr[t].n
        BY <1>0, <1>7, <2>2
      <3> QED BY <1>0, <1>7, <3>1, Zenon DEF ScanTurn
    <2> QED BY <2>1, <2>2, Zenon
  <1> QED BY <1>0, <1>3, <1>6, <1>7, Zenon DEF ScanTurn, Slotted, Ahead

\* Every step but a creation keeps the turns, unless it goes ahead without one.
LEMMA StepTurns ==
  ASSUME Base, Started, Turns, CreatedFirst(prog), NEW t \in Threads, Step(t),
         ~CreateSlot(t), ~CreateThread(t), ~relaxed'
  PROVE  Turns'
  <1>0. /\ Typed /\ prog' = prog /\ Forward(t) /\ thr'[t].ip \in Nat
        /\ lc \in [Slots -> Nat] /\ lc' \in [Slots -> Nat]
        /\ Slotted(t) => thr[t].slot \in Slots
        /\ ~Slotted(t) => thr[t].slot < 0
        /\ Slotted(t)' = Slotted(t)
        /\ Fits(prog[t], thr[t].pc, thr[t].ip)
    <2>1. Typed /\ thr' \in [Threads -> ThreadState] /\ lc' \in [Slots -> Nat]
      BY ThreadsTyped, TableTyped, Zenon DEF Base
    <2>2. prog' = prog /\ Forward(t)
      BY <2>1, AppTyped, GoForward, Zenon
    <2> QED BY <2>1, <2>2, ThreadFields, Zenon DEF Typed, Slotted, Forward, Base, Placed
  <1>p. ASSUME lc' = lc, active' = active, thr'[t].pc \notin {"scan", "acquire", "advance"}
        PROVE  Turns'
    BY <1>0, <1>p, PlainTurns, Zenon DEF ScanTurn, HoldTurn, InTurn
  <1>i. ASSUME ~Contends(t), thr'[t].pc # "scan", ~InTurn(t)',
               \A s \in Slots : s # thr[t].slot => lc'[s] = lc[s] /\ active'[s] = active[s],
               Slotted(t) => lc'[thr[t].slot] >= lc[thr[t].slot]
        PROVE  Turns'
    BY <1>0, <1>i, IdleTurns, Zenon
  <1>1. CASE AwaitTurn(t)
    <2>1. /\ Slotted(t) /\ thr'[t].pc = "scan" /\ thr'[t].i = 0 /\ thr'[t].n = next_slot
          /\ lc' = lc /\ active' = active
      BY <1>0, <1>1, Moves, Zenon DEF AwaitTurn, Goes, shared
    <2>2. \A u \in Threads : thr'[u].slot = thr[u].slot /\ thr[u].slot < next_slot /\ thr[u].slot \in Int
      <3>1. \A u \in Threads : thr'[u].slot = thr[u].slot
        BY <1>0, ForwardContends, Zenon
      <3> QED BY <3>1, ThreadFields, Zenon DEF Base, Handed, Typed
    <2>3. ScanTurn(t)'
      <3>1. next_slot \in Int
        BY <1>0 DEF Typed
      <3>2. \A u \in Threads : Slotted(u)' => ~(thr'[u].slot < thr'[t].i) /\ ~(thr'[u].slot >= thr'[t].n)
        BY <2>1, <2>2, <3>1, Between, Zenon DEF Slotted
      <3> QED BY <2>1, <2>2, <3>2, Zenon DEF ScanTurn, Slotted
    <2>4. HoldTurn(t)'
      BY <2>1, Zenon DEF HoldTurn, InTurn
    <2> QED BY <1>0, <2>1, <2>3, <2>4, PlainTurns, Zenon
  <1>2. CASE ScanSlot(t)
    <2>1. lc' = lc /\ active' = active /\ thr'[t].pc = "scan"
      BY <1>0, <1>2, Moves, Zenon DEF ScanSlot, Goes, shared
    <2>2. ScanTurn(t)' /\ HoldTurn(t)'
      BY <1>2, <2>1, ScanSlotTurns, Zenon DEF HoldTurn, InTurn
    <2> QED BY <1>0, <2>1, <2>2, PlainTurns, Zenon
  <1>3. CASE ScanAgain(t)
    <2>1. lc' = lc /\ active' = active
      BY <1>3, Zenon DEF ScanAgain, shared
    <2>2. thr'[t].pc = "await"
      BY <1>0, <1>3, Moves, Zenon DEF Goes
    <2> QED BY <1>p, <2>1, <2>2, Zenon
  <1>4. CASE ScanDone(t)
    <2>1. lc' = lc /\ active' = active /\ thr[t].pc = "scan" /\ thr[t].i = thr[t].n
      BY <1>4, Zenon DEF ScanDone, shared
    <2>2. thr'[t].pc = "acquire"
      BY <1>0, <1>4, Moves, Zenon DEF Goes
    <2>3. ScanTurn(t) /\ \A u \in Threads : thr[u].slot \in Int /\ thr[t].n \in Nat
      BY <1>0, ThreadFields, Zenon DEF Turns, Typed
    <2>4. Slotted(t) /\ ~Creating
      BY <2>1, <2>3 DEF ScanTurn, Slotted
    <2>5. \A u \in Threads \ {t} : Contends(u) /\ Slotted(u) => Ahead(t, u)
      BY <2>1, <2>3 DEF ScanTurn
    <2>6. /\ \A u \in Threads \ {t} : Contends(u)' = Contends(u)
          /\ ~Creating'
          /\ \A u \in Threads : thr'[u].slot = thr[u].slot
      BY <1>0, <2>4, ForwardContends, Zenon
    <2>7. HoldTurn(t)'
      BY <2>1, <2>4, <2>5, <2>6, Zenon DEF HoldTurn, Slotted, Ahead
    <2>8. ScanTurn(t)'
      BY <2>2, Zenon DEF ScanTurn
    <2> QED BY <1>0, <2>1, <2>7, <2>8, PlainTurns, Zenon
  <1>5. CASE Advance(t)
    <2>1. /\ thr[t].pc = "advance" /\ active' = active
          /\ \A s \in Slots : s # thr[t].slot => lc'[s] = lc[s]
          /\ Slotted(t) => lc'[thr[t].slot] >= lc[thr[t].slot]
      BY <1>0, <1>5 DEF Advance, Slotted
    <2>2. thr'[t].pc = "run"
      BY <1>0, <1>5, Moves, Zenon DEF Goes
    <2>3. ScanTurn(t)' /\ HoldTurn(t)'
      BY <2>2, Zenon DEF ScanTurn, HoldTurn, InTurn
    <2>4. CASE Call(t).op = "wait"
      <3>1. ~Contends(t)
        BY <2>4, Retired, Zenon
      <3> QED BY <1>0, <1>i, <2>1, <2>2, <3>1, Zenon DEF InTurn
    <2>5. CASE Call(t).op # "wait"
      <3>1. HoldTurn(t) /\ InTurn(t)
        BY <2>1, <2>5, Zenon DEF Turns, InTurn
      <3>2. Counted(t)'
        BY <1>0, <2>1, <3>1, ForwardContends, Zenon DEF HoldTurn, Turns, Counted, Slotted
      <3> QED BY <1>0, <2>1, <2>3, <3>2, ForwardTurns, Zenon
    <2> QED BY <2>4, <2>5, Zenon
  <1>6. CASE LockEnter(t)
    <2>1. lc' = lc /\ active' = active
      BY <1>6, Zenon DEF LockEnter
    <2>2. /\ thr'[t].pc = (IF thr[t].depth = 0 THEN "await" ELSE "acquire")
          /\ thr'[t].depth = thr[t].depth
      BY <1>0, <1>6, Moves, Zenon DEF Goes
    <2>3. ScanTurn(t)' /\ HoldTurn(t)'
      BY <2>2, Zenon DEF ScanTurn, HoldTurn, InTurn
    <2> QED BY <1>0, <2>1, <2>3, PlainTurns, Zenon
  <1>7. CASE LockAcquire(t)
    <2>1. lc' = lc /\ active' = active /\ thr[t].pc = "acquire"
      BY <1>7, Zenon DEF LockAcquire, At, shared
    <2>2. CASE thr[t].depth = 0
      <3>1. thr'[t].pc = "advance"
        BY <1>0, <1>7, <2>2, Moves, Zenon DEF Goes
      <3>2. HoldTurn(t) /\ InTurn(t)
        BY <2>1, <2>2, Zenon DEF Turns, InTurn
      <3>3. /\ \A u \in Threads \ {t} : Contends(u)' = Contends(u)
            /\ ~Creating'
            /\ \A u \in Threads : thr'[u].slot = thr[u].slot
        BY <1>0, <3>2, ForwardContends, Zenon DEF HoldTurn
      <3>4. HoldTurn(t)' /\ ScanTurn(t)'
        BY <2>1, <3>1, <3>2, <3>3, Zenon DEF HoldTurn, ScanTurn, Slotted, Ahead
      <3> QED BY <1>0, <2>1, <3>4, PlainTurns, Zenon
    <2>3. CASE thr[t].depth # 0
      <3>1. thr'[t].pc = "run"
        BY <1>0, <1>7, <2>3, Moves, Zenon DEF Goes
      <3> QED BY <1>p, <2>1, <3>1, Zenon
    <2> QED BY <2>2, <2>3, Zenon
  <1>8. CASE TryLockBusy(t)
    <2>1. lc' = lc /\ active' = active /\ thr'[t].pc = "run"
      BY <1>0, <1>8, Moves, Zenon DEF TryLockBusy, shared, Goes
    <2> QED BY <1>p, <2>1, Zenon
  <1>9. CASE Unlock(t)
    <2>1. lc' = lc /\ active' = active /\ thr'[t].pc = "run"
      BY <1>0, <1>9, Moves, Zenon DEF Unlock, shared, Goes
    <2> QED BY <1>p, <2>1, Zenon
  <1>10. CASE WaitOver(t)
    <2>1. lc' = lc /\ active' = active /\ thr'[t].pc = "run"
      BY <1>0, <1>10, Moves, Zenon DEF WaitOver, shared, Goes
    <2> QED BY <1>p, <2>1, Zenon
  <1>11. CASE WaitLeave(t)
    <2>1. ~Contends(t)
      BY <1>11, Retired, Zenon DEF WaitLeave, At
    <2>2. thr'[t].pc = "park"
      BY <1>0, <1>11, Moves, Zenon DEF Goes
    <2>3. /\ lc' = lc
          /\ \A s \in Slots : s # thr[t].slot => active'[s] = active[s]
      BY <1>0, <1>11, Zenon DEF WaitLeave, SetActive, Typed
    <2> QED BY <1>0, <1>i, <2>1, <2>2, <2>3, SMTT(20) DEF InTurn
  <1>12. CASE WaitPark(t)
    <2>1. lc' = lc /\ active' = active /\ thr'[t].pc = "parked"
      BY <1>0, <1>12, Moves, Zenon DEF WaitPark, shared, Goes
    <2> QED BY <1>p, <2>1, Zenon
  <1>13. CASE WaitWake(t)
    <2>1. lc' = lc /\ active' = active /\ thr'[t].pc = "return"
      BY <1>0, <1>13, Moves, Zenon DEF WaitWake, shared, Goes
    <2> QED BY <1>p, <2>1, Zenon
  <1>14. CASE WaitReturn(t)
    <2>1. ~Contends(t) /\ Call(t).op = "wait"
      BY <1>14, Retired, Zenon DEF WaitReturn, At
    <2>2. thr'[t].pc = "advance" /\ thr'[t].ip = thr[t].ip
      BY <1>0, <1>14, Moves, Zenon DEF Goes
    <2>3. /\ lc' = lc
          /\ \A s \in Slots : s # thr[t].slot => active'[s] = active[s]
      BY <1>0, <1>14, Zenon DEF WaitReturn, SetActive, Typed
    <2>4. ~InTurn(t)'
      BY <1>0, <2>1, <2>2, Zenon DEF InTurn, Call
    <2> QED BY <1>0, <1>i, <2>1, <2>2, <2>3, <2>4, SMTT(30)
  <1>15. CASE Signal(t)
    <2>1. lc' = lc /\ active' = active /\ thr'[t].pc = "run"
      BY <1>0, <1>15, Moves, Zenon DEF Signal, shared, Goes
    <2> QED BY <1>p, <2>1, Zenon
  <1>16. CASE CreateSlot(t)
    BY <1>16, Zenon
  <1>17. CASE CreateThread(t)
    BY <1>17, Zenon
  <1>18. CASE Exit(t)
    <2>1. ~Contends(t)
      BY <1>18, Retired, Zenon DEF Exit
    <2>2. thr'[t].pc = "done"
      BY <1>0, <1>18, Moves, Zenon DEF Goes
    <2>3. /\ lc' = lc
          /\ \A s \in Slots : s # thr[t].slot => active'[s] = active[s]
      BY <1>0, <1>18, Zenon DEF Exit, SetActive, Typed
    <2> QED BY <1>0, <1>i, <2>1, <2>2, <2>3 DEF InTurn
  <1>19. CASE JoinLeave(t)
    <2>1. ~Contends(t)
      BY <1>19, Retired, Zenon DEF JoinLeave, At
    <2>2. thr'[t].pc = "join"
      BY <1>0, <1>19, Moves, Zenon DEF Goes
    <2>3. /\ lc' = lc
          /\ \A s \in Slots : s # thr[t].slot => active'[s] = active[s]
      BY <1>0, <1>19, Zenon DEF JoinLeave, SetActive, Typed
    <2> QED BY <1>0, <1>i, <2>1, <2>2, <2>3, SMTT(20) DEF InTurn
  <1>20. CASE JoinReturn(t)
    <2>1. ~Contends(t)
      BY <1>20, Retired, Zenon DEF JoinReturn, At
    <2>2. thr'[t].pc = "run"
      BY <1>0, <1>20, Moves, Zenon DEF Goes
    <2>3. /\ lc' = lc
          /\ \A s \in Slots : s # thr[t].slot => active'[s] = active[s]
      BY <1>0, <1>20, Zenon DEF JoinReturn, SetActive, Typed
    <2> QED BY <1>0, <1>i, <2>1, <2>2, <2>3, SMTT(30) DEF InTurn
  <1> QED
    BY <1>1, <1>2, <1>3, <1>4, <1>5, <1>6, <1>7, <1>8, <1>9, <1>10,
       <1>11, <1>12, <1>13, <1>14, <1>15, <1>16, <1>17, <1>18, <1>19, <1>20, Zenon DEF Step

\* Only main creates, and the thread it creates has not run yet.
LEMMA Creator ==
  ASSUME Base, Started, CreatedFirst(prog), NEW t \in Threads,
         thr[t].ip \in DOMAIN prog[t], Call(t).op = "create"
  PROVE  /\ t = 0 /\ Creating
         /\ Call(0).thread \in Threads \ {0}
         /\ thr[Call(0).thread].pc = "none"
         /\ thr[0].ip \in DOMAIN prog[0] /\ Call(0).op = "create"
  <1>1. t = 0
    BY Zenon DEF CreatedFirst, Call
  <1>2. thr[0].ip \in Nat
    BY <1>1, Zenon DEF Base, Typed, ThreadState
  <1>3. Creating
    BY <1>1, <1>2 DEF Creating, Call
  <1>4. Call(0).thread \in Threads \ {0}
    BY <1>1, CallFacts, Zenon DEF Base, CreatedFirst, Call
  <1>5. ASSUME thr[Call(0).thread].pc # "none"
        PROVE  FALSE
    <2>1. PICK j \in DOMAIN prog[0] : /\ j < thr[0].ip
                                     /\ prog[0][j].op = "create" /\ prog[0][j].thread = Call(0).thread
      BY <1>4, <1>5, Zenon DEF Started
    <2>2. j = thr[0].ip
      BY <1>1, <2>1, Zenon DEF CreatedFirst, Call
    <2> QED BY <1>2, <2>1, <2>2
  <1> QED BY <1>1, <1>3, <1>4, <1>5, Zenon

\* alloc_slot in main hands out a slot nobody has.
LEMMA CreateSlotTurns ==
  ASSUME Base, Started, Turns, CreatedFirst(prog), NEW t \in Threads, CreateSlot(t)
  PROVE  Started' /\ Turns'
  <1> DEFINE v == Call(0).thread
  <1>1. thr[t].ip \in DOMAIN prog[t] /\ Call(t).op = "create" /\ thr[t].pc = "run"
    BY Zenon DEF CreateSlot, At
  <1>2. /\ t = 0 /\ Creating /\ v \in Threads \ {0} /\ thr[v].pc = "none"
    BY <1>1, Creator, Zenon
  <1>3. prog' = prog /\ lc' = lc /\ active' = active /\ Typed
    BY Zenon DEF CreateSlot, history, Base
  <1>4. \A u \in Threads :
          /\ thr'[u].ip = thr[u].ip /\ thr'[u].depth = thr[u].depth
          /\ thr'[u].i = thr[u].i /\ thr'[u].n = thr[u].n
          /\ thr'[u].pc = IF u = 0 THEN "create" ELSE thr[u].pc
          /\ u # v => thr'[u].slot = thr[u].slot
          /\ u = v => thr'[u].slot = next_slot \/ thr'[u].slot = -1
    BY <1>2, <1>3, CreatesSlot
  <1> HIDE DEF v
  <1>5. \A u \in Threads : thr[u].slot \in Int /\ thr[u].slot < next_slot
    BY DEF Base, Handed, Typed, ThreadState, Slots
  <1>6. next_slot \in Nat
    BY <1>3, Zenon DEF Typed
  <1>7. Started'
    <2>1. (thr[0].slot = 0 /\ thr[0].pc # "none")'
      BY <1>2, <1>4, ThreadsAssumption, Zenon DEF Started
    <2>2. (\A w, u \in Threads : w # u /\ Slotted(w) => thr[w].slot # thr[u].slot)'
      BY <1>2, <1>4, <1>5, <1>6 DEF Started, Slotted
    <2>3. (\A u \in Threads \ {0} :
            thr[u].pc # "none" =>
              \E j \in DOMAIN prog[0] : /\ j < thr[0].ip
                                        /\ prog[0][j].op = "create" /\ prog[0][j].thread = u)'
      BY <1>2, <1>3, <1>4, ThreadsAssumption DEF Started
    <2> QED BY <2>1, <2>2, <2>3, Zenon DEF Started
  <1>8. Creating' = Creating
    BY <1>3, <1>4, ThreadsAssumption, Zenon DEF Creating
  <1>9. \A u \in Threads : Contends(u)' = Contends(u) /\ (Contends(u) => u # v) /\ (InTurn(u)' => InTurn(u))
    BY <1>1, <1>2, <1>3, <1>4, Zenon DEF Contends, InTurn, Call
  <1>10. ASSUME NEW u \in Threads
         PROVE  (ScanTurn(u) /\ HoldTurn(u) /\ Counted(u))'
    <2>1. ScanTurn(u) /\ HoldTurn(u) /\ Counted(u)
      BY Zenon DEF Turns
    <2>2. ScanTurn(u)'
      <3> SUFFICES ASSUME thr'[u].pc = "scan" PROVE ScanTurn(u)'
        BY Zenon DEF ScanTurn
      <3>1. thr[u].pc = "scan" /\ u # v
        BY <1>2, <1>4, Zenon
      <3> QED BY <1>2, <1>3, <1>4, <1>8, <1>9, <2>1, <3>1 DEF ScanTurn, Slotted, Ahead
    <2>3. HoldTurn(u)'
      BY <1>2, <1>9, <2>1, Zenon DEF HoldTurn
    <2>4. Counted(u)'
      BY <1>3, <1>4, <1>8, <1>9, <2>1, Zenon DEF Counted, Slotted
    <2> QED BY <2>2, <2>3, <2>4, Zenon
  <1> QED BY <1>7, <1>10, Zenon DEF Turns

\* pthread_create starts a thread at clock 0, behind nobody who has a turn.
LEMMA CreateThreadTurns ==
  ASSUME Base, Started, Turns, CreatedFirst(prog), NEW t \in Threads, CreateThread(t)
  PROVE  Started' /\ Turns'
  <1> DEFINE v == Call(0).thread
  <1>1. thr[t].ip \in DOMAIN prog[t] /\ Call(t).op = "create"
    BY Zenon DEF CreateThread, At
  <1>2. /\ t = 0 /\ Creating /\ v \in Threads \ {0} /\ thr[v].pc = "none"
        /\ thr[0].ip \in DOMAIN prog[0] /\ prog[0][thr[0].ip].op = "create"
        /\ prog[0][thr[0].ip].thread = v
    BY <1>1, Creator, Zenon DEF Call
  <1>3. prog' = prog /\ Typed
    BY Zenon DEF CreateThread, history, Base
  <1>4. \A u \in Threads :
          /\ thr'[u].depth = thr[u].depth /\ thr'[u].slot = thr[u].slot
          /\ thr'[u].i = thr[u].i /\ thr'[u].n = thr[u].n
          /\ thr'[u].ip = IF u = 0 THEN thr[u].ip + 1 ELSE thr[u].ip
          /\ thr'[u].pc = IF u = 0 \/ u = v THEN "run" ELSE thr[u].pc
    BY <1>2, <1>3, CreatesThread
  <1>5. /\ lc \in [Slots -> Nat] /\ active \in [Slots -> BOOLEAN]
        /\ \A u \in Threads : thr[u].slot \in Int /\ (Slotted(u) => thr[u].slot \in Slots)
        /\ thr[0].ip \in Nat
        /\ Len(prog[0]) \in Nat /\ DOMAIN prog[0] = 1..Len(prog[0])
    <2>1. Len(prog[0]) \in Nat /\ DOMAIN prog[0] = 1..Len(prog[0])
      BY <1>3, Programs, ThreadsAssumption, Zenon
    <2>2. \A u \in Threads : thr[u].slot \in Int /\ (Slotted(u) => thr[u].slot \in Slots)
      BY <1>3 DEF Typed, ThreadState, Slots, Slotted
    <2>3. thr[0].ip \in Nat
      BY <1>3, ThreadsAssumption, Zenon DEF Typed, ThreadState
    <2> QED BY <1>3, <2>1, <2>2, <2>3, Zenon DEF Typed
  <1>6. /\ Slotted(v) => lc'[thr[v].slot] = 0 /\ active'[thr[v].slot]
        /\ \A s \in Slots : s # thr[v].slot => lc'[s] = lc[s] /\ active'[s] = active[s]
    <2>1. CASE thr[v].slot < 0
      BY <1>2, <1>5, <2>1 DEF CreateThread, Slotted
    <2>2. CASE ~(thr[v].slot < 0)
      <3>1. /\ lc' = [lc EXCEPT ![thr[v].slot] = 0]
            /\ active' = [active EXCEPT ![thr[v].slot] = TRUE]
        BY <1>2, <2>2, Zenon DEF CreateThread
      <3>2. thr[v].slot \in Slots
        <4>1. v \in Threads
          BY <1>2, Zenon
        <4> HIDE DEF v
        <4>2. thr[v].slot \in Int /\ (thr[v].slot >= 0 => thr[v].slot \in Slots)
          BY <1>5, <4>1, Zenon DEF Slotted
        <4> QED BY <2>2, <4>2
      <3>3. lc'[thr[v].slot] = 0 /\ \A s \in Slots : s # thr[v].slot => lc'[s] = lc[s]
        BY <1>5, <3>1, <3>2, Zenon
      <3>4. active'[thr[v].slot] /\ \A s \in Slots : s # thr[v].slot => active'[s] = active[s]
        BY <1>5, <3>1, <3>2, Zenon
      <3> QED BY <3>3, <3>4, Zenon
    <2> QED BY <2>1, <2>2, Zenon
  <1> HIDE DEF v
  <1>7. Started'
    <2>1. (thr[0].slot = 0 /\ thr[0].pc # "none")'
      BY <1>4, ThreadsAssumption, Zenon DEF Started
    <2>2. (\A w, u \in Threads : w # u /\ Slotted(w) => thr[w].slot # thr[u].slot)'
      BY <1>4 DEF Started, Slotted
    <2>3. ASSUME NEW u \in Threads \ {0}, thr'[u].pc # "none"
          PROVE  \E j \in DOMAIN prog[0] : /\ j < thr[0].ip + 1
                                           /\ prog[0][j].op = "create" /\ prog[0][j].thread = u
      <3>1. CASE u = v
        BY <1>2, <1>5, <3>1
      <3>2. CASE u # v
        <4>1. PICK j \in DOMAIN prog[0] : /\ j < thr[0].ip
                                         /\ prog[0][j].op = "create" /\ prog[0][j].thread = u
          BY <1>4, <2>3, <3>2, Zenon DEF Started
        <4>2. j < thr[0].ip + 1
          BY <1>5, <4>1
        <4> QED BY <4>1, <4>2, Zenon
      <3> QED BY <3>1, <3>2, Zenon
    <2>4. thr'[0].ip = thr[0].ip + 1
      BY <1>4, ThreadsAssumption, Zenon
    <2> QED BY <1>3, <2>1, <2>2, <2>3, <2>4, Zenon DEF Started
  <1>8. \A u \in Threads : ~InTurn(u)'
    <2>1. \A u \in Threads : ~InTurn(u)
      BY <1>2, Zenon DEF Turns, HoldTurn
    <2> QED BY <1>3, <1>4, <2>1, Zenon DEF InTurn, Call
  <1>9. \A u \in Threads \ {v} : Contends(u)' => Contends(u)
    <2> TAKE u \in Threads \ {v}
    <2>1. CASE u = 0
      BY <1>2, MainCreates, <2>1, Zenon
    <2>2. CASE u # 0
      BY <1>3, <1>4, <2>2, Zenon DEF Contends
    <2> QED BY <2>1, <2>2, Zenon
  <1>10. ASSUME NEW u \in Threads
         PROVE  (ScanTurn(u) /\ HoldTurn(u) /\ Counted(u))'
    <2>1. Counted(u)'
      <3>1. CASE u = v
        BY <1>4, <1>6, <3>1, Zenon DEF Counted, Slotted
      <3>2. CASE u # v
        <4> SUFFICES ASSUME Contends(u), Slotted(u) PROVE Counted(u)'
          BY <1>4, <1>9, <3>2, Zenon DEF Counted, Slotted
        <4>1. thr[u].slot # thr[v].slot /\ thr[u].slot \in Slots
          BY <1>2, <1>5, <3>2, Zenon DEF Started
        <4>2. active[thr[u].slot] /\ lc[thr[u].slot] = 0
          BY <1>2, Zenon DEF Counted, Turns
        <4>3. active'[thr[u].slot] /\ lc'[thr[u].slot] = 0
          BY <1>6, <4>1, <4>2, Zenon
        <4> QED BY <1>4, <4>3, Zenon DEF Counted
      <3> QED BY <3>1, <3>2, Zenon
    <2>2. ScanTurn(u)'
      <3> SUFFICES ASSUME thr'[u].pc = "scan" PROVE ScanTurn(u)'
        BY Zenon DEF ScanTurn
      <3>1. thr[u].pc = "scan" /\ u # v /\ u # 0
        BY <1>4, Zenon
      <3>2. ScanTurn(u) /\ Slotted(u) /\ thr[u].slot < thr[u].n /\ thr[u].i = 0 /\ thr[u].n \in Nat
        BY <1>2, <1>3, <3>1, Zenon DEF Turns, ScanTurn, Typed, ThreadState
      <3>3. Contends(u)
        <4>1. Fits(prog[u], "scan", thr[u].ip) /\ thr[u].ip \in Nat
          BY <3>1, Zenon DEF Base, Placed, Typed, ThreadState
        <4> QED BY <3>1, <4>1 DEF Contends, Fits
      <3>4. lc[thr[u].slot] = 0 /\ lc'[thr[u].slot] = 0
        <4>1. thr[u].slot # thr[v].slot /\ thr[u].slot \in Slots
          <5>1. v \in Threads /\ u \in Threads /\ u # v
            BY <1>2, <3>1, Zenon
          <5>2. thr[u].slot \in Slots
            BY <1>5, <3>2, Zenon
          <5> QED BY <3>2, <5>1, <5>2, Zenon DEF Started
        <4>2. lc[thr[u].slot] = 0
          BY <1>2, <3>2, <3>3, Zenon DEF Turns, Counted
        <4> QED BY <1>6, <4>1, <4>2, Zenon
      <3>5. ASSUME NEW w \in Threads \ {u}, Contends(w)', Slotted(w), thr[w].slot >= thr[u].n
            PROVE  Ahead(u, w)'
        <4>1. CASE w = v
          BY <1>4, <1>5, <1>6, <3>2, <3>4, <3>5, <4>1, SMTT(20) DEF Ahead
        <4>2. CASE w # v
          <5>1. Ahead(u, w)
            BY <1>9, <3>1, <3>2, <3>5, <4>2, Zenon DEF ScanTurn
          <5>2. lc'[thr[w].slot] = lc[thr[w].slot]
            BY <1>2, <1>5, <1>6, <3>5, <4>2, SMTT(20) DEF Started
          <5> QED BY <1>4, <3>4, <5>1, <5>2, Zenon DEF Ahead
        <4> QED BY <4>1, <4>2, Zenon
      <3>6. \A w \in Threads : Slotted(w) => ~(thr[w].slot < 0)
        BY <1>5 DEF Slotted
      <3> QED BY <1>4, <3>2, <3>5, <3>6, Zenon DEF ScanTurn, Slotted
    <2> QED BY <1>8, <2>1, <2>2, Zenon DEF HoldTurn
  <1> QED BY <1>7, <1>10, Zenon DEF Turns

\* The slot table and the threads when a run starts.
AtStart == thr = Threads0 /\ active = [s \in Slots |-> s = 0] /\ lc = [s \in Slots |-> 0]

\* The turns hold when a run starts.
LEMMA StartTurns == AtStart => Started /\ Turns
  <1> SUFFICES ASSUME AtStart PROVE Started /\ Turns
    BY Zenon
  <1>1. \A t \in Threads : /\ thr[t].pc = (IF t = 0 THEN "run" ELSE "none")
                           /\ thr[t].slot = (IF t = 0 THEN 0 ELSE -1)
    BY StartingThreads, Zenon DEF AtStart
  <1>2. Started
    BY <1>1, ThreadsAssumption DEF Started, Slotted
  <1>3. active[0] /\ lc[0] = 0
    <2>1. 0 \in Slots
      BY TableAssumption DEF Slots
    <2> QED BY <2>1, Zenon DEF AtStart
  <1>4. \A t \in Threads : ScanTurn(t) /\ HoldTurn(t) /\ Counted(t)
    BY <1>1, <1>3, Zenon DEF ScanTurn, HoldTurn, InTurn, Counted, Contends
  <1> QED BY <1>2, <1>4, Zenon DEF Turns

\* Every step keeps the turns.
LEMMA TurnNext ==
  ASSUME Base, TurnInv, [Next]_vars
  PROVE  TurnInv'
  <1> SUFFICES ASSUME CreatedFirst(prog'), ~relaxed'
               PROVE  Started' /\ Turns'
    BY Zenon DEF TurnInv, CreatedFirst
  <1>1. ASSUME NEW t \in Threads, Step(t)
        PROVE  Started' /\ Turns'
    <2>1. prog' = prog /\ ~relaxed
      BY <1>1, AppTyped, Zenon DEF Base
    <2>2. CreatedFirst(prog) /\ Started /\ Turns
      BY <2>1, Zenon DEF TurnInv
    <2>3. CASE CreateSlot(t)
      BY <2>2, <2>3, CreateSlotTurns, Zenon
    <2>4. CASE CreateThread(t)
      BY <2>2, <2>4, CreateThreadTurns, Zenon
    <2>5. CASE ~CreateSlot(t) /\ ~CreateThread(t)
      <3>1. Forward(t)
        BY <1>1, <2>2, <2>5, GoForward, Zenon
      <3>2. thr'[t].ip \in Nat
        BY <1>1, ThreadsTyped, Zenon DEF Base, ThreadState
      <3> QED BY <1>1, <2>1, <2>2, <2>5, <3>1, <3>2, ForwardStarted, StepTurns, Zenon
    <2> QED BY <2>3, <2>4, <2>5, Zenon
  <1>2. CASE Rerun
    <2>1. AtStart'
      BY <1>2, Zenon DEF Rerun, Start, AtStart
    <2> QED BY <2>1, StartTurns, PTL
  <1>3. CASE UNCHANGED vars
    <2>1. thr' = thr /\ prog' = prog /\ lc' = lc /\ active' = active /\ relaxed' = relaxed
      BY <1>3, Zenon DEF vars, shared
    <2>2. Started /\ Turns
      BY <2>1, Zenon DEF TurnInv
    <2>3. Started'
      BY <2>1, <2>2, Zenon DEF Started, Slotted
    <2>4. Turns'
      <3>1. Creating' = Creating
        BY <2>1, Zenon DEF Creating
      <3>2. \A u \in Threads : Contends(u)' = Contends(u) /\ Slotted(u)' = Slotted(u) /\ InTurn(u)' = InTurn(u)
        BY <2>1, Zenon DEF Contends, Slotted, InTurn, Call
      <3>3. \A t, u \in Threads : Ahead(t, u)' = Ahead(t, u)
        BY <2>1, Zenon DEF Ahead
      <3> QED BY <2>1, <2>2, <3>1, <3>2, <3>3, Zenon DEF Turns, ScanTurn, HoldTurn, Counted
    <2> QED BY <2>3, <2>4, Zenon
  <1> QED BY <1>1, <1>2, <1>3, Zenon DEF Next, Over

\* For every program whose threads are created first, any number of threads and any
\* table size, no two threads are past await_turn at once, however the scans of the
\* slot table interleave with advances, creations and threads that leave: what
\* detsched.c's gate is for.
THEOREM ExclusiveTurns == Spec => [](CreatedFirst(prog) => OneTurn)
  <1>1. Init => Base /\ TurnInv
    BY BaseInit, StartTurns, Zenon DEF Base, Init, TurnInv, AtStart
  <1>2. Base /\ TurnInv /\ [Next]_vars => Base' /\ TurnInv'
    BY BaseNext, TurnNext, Zenon
  <1>3. Base /\ TurnInv => (CreatedFirst(prog) => OneTurn)
    <2> SUFFICES ASSUME Base, Started, Turns, NEW t \in Threads, NEW u \in Threads,
                        InTurn(t), InTurn(u), t # u
                 PROVE  FALSE
      BY Zenon DEF TurnInv, OneTurn
    <2>1. ASSUME NEW w \in Threads, InTurn(w)
          PROVE  Contends(w) /\ Slotted(w)
      <3>1. Fits(prog[w], thr[w].pc, thr[w].ip) /\ thr[w].ip \in Nat
        BY Zenon DEF Base, Placed, Typed, ThreadState
      <3>2. thr[w].ip \in DOMAIN prog[w] /\ prog[w][thr[w].ip].op \in {"lock", "trylock"}
        BY <2>1, <3>1, Zenon DEF InTurn, Fits, Call
      <3>3. thr[w].pc \notin {"none", "done"}
        BY <2>1, Zenon DEF InTurn
      <3> QED BY <2>1, <3>1, <3>2, <3>3, SMTT(20) DEF Contends, Turns, HoldTurn
    <2>2. Ahead(t, u) /\ Ahead(u, t)
      BY <2>1, Zenon DEF Turns, HoldTurn
    <2>3. lc[thr[t].slot] \in Nat /\ lc[thr[u].slot] \in Nat /\ thr[t].slot \in Int /\ thr[u].slot \in Int
      BY <2>1, ThreadFields, Zenon DEF Base, Typed, Slotted
    <2> QED BY <2>2, <2>3, SMTT(20) DEF Ahead
  <1> QED BY <1>1, <1>2, <1>3, PTL DEF Spec

=============================================================================
