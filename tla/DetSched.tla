------------------------------- MODULE DetSched -------------------------------
(***************************************************************************)
(* The deterministic scheduler of interpose/detsched.c: the pthread        *)
(* wrappers that let a thread which holds no lock enter a critical section *)
(* only when its (logical clock, slot) is the least among active threads.  *)
(*                                                                         *)
(* A program gives every thread its sequence of pthread calls; what runs   *)
(* between two calls is left out.  Every atomic access of a wrapper to the *)
(* shared slots, and every real pthread call, is a step of its own (the    *)
(* two loads await_turn makes of one slot are one step).  Condition waits  *)
(* are the loop "while not flag: wait", and signal sets the flag.          *)
(*                                                                         *)
(* A behaviour is two runs of the same program one after the other, so     *)
(* that what one run does can be compared with what another does.          *)
(***************************************************************************)
EXTENDS Integers, Sequences

CONSTANTS Threads,   \* thread numbers 0..n, thread 0 is the main thread
          Locks,     \* mutexes and read-write locks
          Conds,     \* condition variables, each with its flag
          Setups,    \* programs, each [Threads -> Seq(call)], with a spin bound
          MAXT,      \* size of the slot table
          MaxClock   \* bound: the clock from which no spurious wakeup comes

Slots == 0..(MAXT - 1)

NoThread == -1

\* The pthread calls of a program; a trylock that fails goes on at "busy", and a
\* creation that "fails" makes no thread.
Calls ==
  [op : {"lock"}, lock : Locks, mode : {"r", "w"}]
    \cup [op : {"trylock"}, lock : Locks, mode : {"r", "w"}, busy : Nat]
    \cup [op : {"unlock"}, lock : Locks]
    \cup [op : {"wait"}, cond : Conds, lock : Locks]
    \cup [op : {"signal"}, cond : Conds]
    \cup [op : {"create"}, thread : Threads, fails : BOOLEAN]
    \cup [op : {"join"}, thread : Threads]

ASSUME ThreadsAssumption == Threads \subseteq Nat /\ 0 \in Threads
ASSUME TableAssumption == MAXT \in Nat \ {0} /\ MaxClock \in Nat
ASSUME SetupsAssumption ==
  /\ Setups \subseteq [prog : [Threads -> Seq(Calls)], spin_cap : Nat]
  /\ \A s \in Setups : \A t \in Threads : \A k \in DOMAIN s.prog[t] :
       s.prog[t][k].op = "trylock" => s.prog[t][k].busy \in 1..(Len(s.prog[t]) + 1)

VARIABLES
  prog,       \* the program
  spin_cap,   \* failed scans before a thread goes ahead, 0 = never
  next_slot,  \* slots handed out
  lc, active, \* the slot table
  thr,        \* per thread: my_slot, lock_depth, position and scan of await_turn
  lock,       \* per lock: its writer and its readers
  flag, parked, \* per condition: its flag, and the threads waiting
  acq,        \* history: top-level acquisitions, in order
  relaxed,    \* history: some thread went ahead without its turn
  first,      \* history: acq of the first run
  run

shared == <<next_slot, lc, active>>
app == <<lock, flag, parked>>
vars == <<prog, spin_cap, shared, thr, app, acq, relaxed, first, run>>

NewThread == [slot |-> -1, depth |-> 0, ip |-> 1, pc |-> "none", i |-> 0, n |-> 0,
              spins |-> 0]

\* detsched_init: the main thread takes slot 0.
Threads0 == [t \in Threads |->
               IF t = 0 THEN [NewThread EXCEPT !.slot = 0, !.pc = "run"] ELSE NewThread]

Locks0 == [m \in Locks |-> [writer |-> NoThread, readers |-> {}]]

Start ==
  /\ next_slot' = 1
  /\ lc' = [s \in Slots |-> 0]
  /\ active' = [s \in Slots |-> s = 0]
  /\ thr' = Threads0
  /\ lock' = Locks0
  /\ flag' = [c \in Conds |-> FALSE]
  /\ parked' = [c \in Conds |-> {}]
  /\ acq' = << >>

Init ==
  /\ \E s \in Setups : prog = s.prog /\ spin_cap = s.spin_cap
  /\ next_slot = 1
  /\ lc = [s \in Slots |-> 0]
  /\ active = [s \in Slots |-> s = 0]
  /\ thr = Threads0
  /\ lock = Locks0
  /\ flag = [c \in Conds |-> FALSE]
  /\ parked = [c \in Conds |-> {}]
  /\ acq = << >>
  /\ relaxed = FALSE
  /\ first = << >>
  /\ run = 1

Call(t) == prog[t][thr[t].ip]

At(t, pc, ops) ==
  /\ thr[t].pc = pc
  /\ thr[t].ip \in DOMAIN prog[t]
  /\ Call(t).op \in ops

history == <<prog, spin_cap, relaxed, first, run>>

-----------------------------------------------------------------------------
(* The turn: await_turn and advance *)

\* The loads of the thread's own clock and of next_slot that start a scan; a
\* thread without a slot is not made to wait.
AwaitTurn(t) ==
  /\ thr[t].pc = "await"
  /\ thr' = IF thr[t].slot < 0
              THEN [thr EXCEPT ![t].pc = "acquire"]
              ELSE [thr EXCEPT ![t].pc = "scan", ![t].i = 0, ![t].n = next_slot]
  /\ relaxed' = (relaxed \/ thr[t].slot < 0)
  /\ UNCHANGED <<prog, spin_cap, shared, app, acq, first, run>>

\* Mutant: ties between equal clocks are not broken by slot.
BeforeClockOnly(i, s) == active[i] /\ lc[i] < lc[s]

\* Slot i is active and comes before slot s.
Before(i, s) == active[i] /\ (lc[i] < lc[s] \/ (lc[i] = lc[s] /\ i < s))

\* next_slot can exceed the table; what a load behind it returns is arbitrary.
ScanSlot(t) ==
  /\ thr[t].pc = "scan"
  /\ thr[t].i < thr[t].n
  /\ thr[t].i \in Slots \ {thr[t].slot} => ~Before(thr[t].i, thr[t].slot)
  /\ thr' = [thr EXCEPT ![t].i = @ + 1]
  /\ UNCHANGED <<shared, app, acq, history>>

ScanAgain(t) ==
  /\ thr[t].pc = "scan"
  /\ thr[t].i < thr[t].n
  /\ thr[t].i # thr[t].slot
  /\ thr[t].i \in Slots => Before(thr[t].i, thr[t].slot)
  /\ \/ /\ spin_cap > 0 /\ thr[t].spins + 1 >= spin_cap
        /\ thr' = [thr EXCEPT ![t].pc = "acquire", ![t].spins = 0]
        /\ relaxed' = TRUE
     \/ /\ spin_cap = 0 \/ thr[t].spins + 1 < spin_cap
        /\ thr' = [thr EXCEPT ![t].pc = "await",
                              ![t].spins = IF spin_cap = 0 THEN 0 ELSE @ + 1]
        /\ UNCHANGED relaxed
  /\ UNCHANGED <<prog, spin_cap, shared, app, acq, first, run>>

ScanDone(t) ==
  /\ thr[t].pc = "scan"
  /\ thr[t].i = thr[t].n
  /\ thr' = [thr EXCEPT ![t].pc = "acquire", ![t].spins = 0]
  /\ UNCHANGED <<shared, app, acq, history>>

\* After a lock the call returns; after a condition wait the loop tests again.
Advance(t) ==
  /\ thr[t].pc = "advance"
  /\ lc' = IF thr[t].slot < 0 THEN lc ELSE [lc EXCEPT ![thr[t].slot] = @ + 1]
  /\ thr' = [thr EXCEPT ![t].pc = "run",
                        ![t].ip = IF Call(t).op = "wait" THEN @ ELSE @ + 1]
  /\ UNCHANGED <<next_slot, active, app, acq, history>>

-----------------------------------------------------------------------------
(* Locks.  A mutex and a read-write lock differ only in the mode.          *)

Free(m, mode) ==
  /\ lock[m].writer = NoThread
  /\ mode = "w" => lock[m].readers = {}

Take(m, mode, t) ==
  IF mode = "w" THEN [lock EXCEPT ![m].writer = t]
                ELSE [lock EXCEPT ![m].readers = @ \cup {t}]

Release(m, t) ==
  [lock EXCEPT ![m].writer = IF @ = t THEN NoThread ELSE @, ![m].readers = @ \ {t}]

\* ensure_registered: a thread that found the table full asks again every time.
EnsureRegistered(t) == next_slot' = IF thr[t].slot < 0 THEN next_slot + 1 ELSE next_slot

\* Mutant: no acquisition waits for its turn.
LockEnterUngated(t) ==
  /\ At(t, "run", {"lock", "trylock"})
  /\ thr' = [thr EXCEPT ![t].pc = "acquire"]
  /\ UNCHANGED <<shared, app, acq, history>>

\* Mutant: every acquisition is gated, also that of a thread which holds a lock.
LockEnterGated(t) ==
  /\ At(t, "run", {"lock", "trylock"})
  /\ thr' = [thr EXCEPT ![t].pc = "await"]
  /\ UNCHANGED <<shared, app, acq, history>>

\* pthread_mutex_lock, rdlock, wrlock and trylock wait for their turn only when
\* the thread holds no lock.
LockEnter(t) ==
  /\ At(t, "run", {"lock", "trylock"})
  /\ thr' = [thr EXCEPT ![t].pc = IF thr[t].depth = 0 THEN "await" ELSE "acquire"]
  /\ EnsureRegistered(t)
  /\ UNCHANGED <<lc, active, app, acq, history>>

Acquired(t) ==
  /\ lock' = Take(Call(t).lock, Call(t).mode, t)
  /\ IF thr[t].depth = 0
       THEN /\ acq' = Append(acq, <<t, thr[t].ip>>)
            /\ thr' = [thr EXCEPT ![t].depth = 1, ![t].pc = "advance"]
       ELSE /\ UNCHANGED acq
            /\ thr' = [thr EXCEPT ![t].depth = @ + 1, ![t].pc = "run", ![t].ip = @ + 1]

LockAcquire(t) ==
  /\ At(t, "acquire", {"lock", "trylock"})
  /\ Free(Call(t).lock, Call(t).mode)
  /\ Acquired(t)
  /\ UNCHANGED <<shared, flag, parked, history>>

\* A trylock that fails does not advance the clock; the program skips to its
\* "else" position.
TryLockBusy(t) ==
  /\ At(t, "acquire", {"trylock"})
  /\ ~Free(Call(t).lock, Call(t).mode)
  /\ thr' = [thr EXCEPT ![t].pc = "run", ![t].ip = Call(t).busy]
  /\ UNCHANGED <<shared, app, acq, history>>

Unlock(t) ==
  /\ At(t, "run", {"unlock"})
  /\ lock' = Release(Call(t).lock, t)
  /\ thr' = [thr EXCEPT ![t].depth = IF @ > 0 THEN @ - 1 ELSE @, ![t].ip = @ + 1]
  /\ UNCHANGED <<shared, flag, parked, acq, history>>

-----------------------------------------------------------------------------
(* pthread_cond_wait, and the signal it waits for (not wrapped)            *)

SetActive(t, on) ==
  active' = IF thr[t].slot < 0 THEN active ELSE [active EXCEPT ![thr[t].slot] = on]

WaitOver(t) ==
  /\ At(t, "run", {"wait"})
  /\ flag[Call(t).cond]
  /\ thr' = [thr EXCEPT ![t].ip = @ + 1]
  /\ UNCHANGED <<shared, app, acq, history>>

WaitLeave(t) ==
  /\ At(t, "run", {"wait"})
  /\ ~flag[Call(t).cond]
  /\ EnsureRegistered(t)
  /\ SetActive(t, FALSE)
  /\ thr' = [thr EXCEPT ![t].pc = "park"]
  /\ UNCHANGED <<lc, app, acq, history>>

WaitPark(t) ==
  /\ At(t, "park", {"wait"})
  /\ lock' = Release(Call(t).lock, t)
  /\ parked' = [parked EXCEPT ![Call(t).cond] = @ \cup {t}]
  /\ thr' = [thr EXCEPT ![t].pc = "parked"]
  /\ UNCHANGED <<shared, flag, acq, history>>

\* A wait may return although nothing was signalled.
Spurious(t) == thr[t].slot >= 0 /\ lc[thr[t].slot] < MaxClock

\* The real wait returns with its mutex held again, which no turn orders.
WaitWake(t) ==
  /\ At(t, "parked", {"wait"})
  /\ t \notin parked[Call(t).cond] \/ Spurious(t)
  /\ Free(Call(t).lock, "w")
  /\ lock' = Take(Call(t).lock, "w", t)
  /\ parked' = [parked EXCEPT ![Call(t).cond] = @ \ {t}]
  /\ thr' = [thr EXCEPT ![t].pc = "return"]
  /\ UNCHANGED <<shared, flag, acq, history>>

WaitReturn(t) ==
  /\ At(t, "return", {"wait"})
  /\ SetActive(t, TRUE)
  /\ thr' = [thr EXCEPT ![t].pc = "advance"]
  /\ UNCHANGED <<next_slot, lc, app, acq, history>>

Signal(t) ==
  /\ At(t, "run", {"signal"})
  /\ flag' = [flag EXCEPT ![Call(t).cond] = TRUE]
  /\ \/ parked[Call(t).cond] = {} /\ UNCHANGED parked
     \/ \E u \in parked[Call(t).cond] : parked' = [parked EXCEPT ![Call(t).cond] = @ \ {u}]
  /\ thr' = [thr EXCEPT ![t].ip = @ + 1]
  /\ UNCHANGED <<shared, lock, acq, history>>

-----------------------------------------------------------------------------
(* Threads: pthread_create, trampoline and pthread_join *)

\* Mutant: the child gets the counter's new value for its slot.
CreateSlotAfter(t) ==
  /\ At(t, "run", {"create"})
  /\ next_slot' = next_slot + 1
  /\ thr' = [thr EXCEPT ![t].pc = "create",
                        ![Call(t).thread].slot = IF next_slot < MAXT THEN next_slot + 1 ELSE -1]
  /\ UNCHANGED <<lc, active, app, acq, history>>

\* alloc_slot's fetch_add, in the creating thread.
CreateSlot(t) ==
  /\ At(t, "run", {"create"})
  /\ next_slot' = next_slot + 1
  /\ thr' = [thr EXCEPT ![t].pc = "create",
                        ![Call(t).thread].slot = IF next_slot < MAXT THEN next_slot ELSE -1]
  /\ UNCHANGED <<lc, active, app, acq, history>>

\* alloc_slot's stores, then real_create; when that fails the slot stays active.
CreateThread(t) ==
  /\ At(t, "create", {"create"})
  /\ LET u == Call(t).thread
     IN  /\ IF thr[u].slot < 0
              THEN UNCHANGED <<lc, active>>
              ELSE /\ lc' = [lc EXCEPT ![thr[u].slot] = 0]
                   /\ active' = [active EXCEPT ![thr[u].slot] = TRUE]
         /\ thr' = [thr EXCEPT ![t].pc = "run", ![t].ip = @ + 1,
                               ![u].pc = IF Call(t).fails THEN @ ELSE "run"]
  /\ UNCHANGED <<next_slot, app, acq, history>>

\* trampoline, once the thread's function returns; main just ends.
Exit(t) ==
  /\ thr[t].pc = "run"
  /\ thr[t].ip \notin DOMAIN prog[t]
  /\ IF t = 0 THEN UNCHANGED active ELSE SetActive(t, FALSE)
  /\ thr' = [thr EXCEPT ![t].pc = "done"]
  /\ UNCHANGED <<next_slot, lc, app, acq, history>>

JoinLeave(t) ==
  /\ At(t, "run", {"join"})
  /\ SetActive(t, FALSE)
  /\ thr' = [thr EXCEPT ![t].pc = "join"]
  /\ UNCHANGED <<next_slot, lc, app, acq, history>>

JoinReturn(t) ==
  /\ At(t, "join", {"join"})
  /\ thr[Call(t).thread].pc = "done"
  /\ SetActive(t, TRUE)
  /\ thr' = [thr EXCEPT ![t].pc = "run", ![t].ip = @ + 1]
  /\ UNCHANGED <<next_slot, lc, app, acq, history>>
-----------------------------------------------------------------------------
Step(t) ==
  \/ AwaitTurn(t) \/ ScanSlot(t) \/ ScanAgain(t) \/ ScanDone(t) \/ Advance(t)
  \/ LockEnter(t) \/ LockAcquire(t) \/ TryLockBusy(t) \/ Unlock(t)
  \/ WaitOver(t) \/ WaitLeave(t) \/ WaitPark(t) \/ WaitWake(t) \/ WaitReturn(t)
  \/ Signal(t) \/ CreateSlot(t) \/ CreateThread(t) \/ Exit(t)
  \/ JoinLeave(t) \/ JoinReturn(t)

\* Only the main thread creates others, so once it is done none is still to come.
Finished == \A t \in Threads : thr[t].pc \in {"done", "none"}

Rerun ==
  /\ run = 1
  /\ Finished
  /\ Start
  /\ run' = 2
  /\ first' = acq
  /\ UNCHANGED <<prog, spin_cap, relaxed>>

Over == run = 2 /\ Finished /\ UNCHANGED vars

Next == (\E t \in Threads : Step(t)) \/ Rerun \/ Over

Spec == Init /\ [][Next]_vars

\* The operating system runs every thread again and again, and a thread that
\* waits for a lock gets it when it keeps being free.
FairSpec == Spec /\ WF_vars(Rerun) /\ \A t \in Threads : WF_vars(Step(t))
-----------------------------------------------------------------------------
(* The programs the proofs are about *)

\* The programs the scheduler keeps in order: only main creates threads, each of
\* them once, without failing and before it takes a lock, no thread takes a lock after a join or a
\* condition wait, and a trylock that fails goes forward.
CreatedFirst(p) ==
  /\ \A t \in Threads \ {0} : \A j \in DOMAIN p[t] : p[t][j].op # "create"
  /\ \A j \in DOMAIN p[0] :
       p[0][j].op = "create" =>
         /\ p[0][j].thread # 0 /\ ~p[0][j].fails
         /\ \A k \in DOMAIN p[0] :
              p[0][k].op = "create" /\ p[0][k].thread = p[0][j].thread => k = j
  /\ \A t \in Threads : \A j, k \in DOMAIN p[t] :
       j < k =>
         /\ p[t][j].op \in {"lock", "trylock"} => p[t][k].op # "create"
         /\ p[t][j].op \in {"wait", "join"} => p[t][k].op \notin {"lock", "trylock", "create"}
  /\ \A t \in Threads : \A j \in DOMAIN p[t] : p[t][j].op = "trylock" => p[t][j].busy > j

\* The top-level critical sections of a program, given the lock depth before a call.
Section(p, d, t, j) == j \in DOMAIN p[t] /\ p[t][j].op \in {"lock", "trylock"} /\ d[t][j] = 0

\* What a program fixes whatever the timing: for every call the lock depth and the
\* number of critical sections before it, for main the threads created before a
\* call, for every thread its slot.  A trylock is nested, and where it goes on when
\* it fails the depth and the sections are those before it.  (The last conjunct
\* follows from the others; it spares an induction over the program.)
Measures(m, p) ==
  /\ \A t \in Threads : /\ m.depth[t] \in [1..(Len(p[t]) + 1) -> Nat] /\ m.depth[t][1] = 0
                         /\ m.turns[t] \in [1..(Len(p[t]) + 1) -> Nat] /\ m.turns[t][1] = 0
                         /\ m.slot[t] \in Slots \cup {-1}
  /\ m.made \in [1..(Len(p[0]) + 1) -> Nat] /\ m.made[1] = 0 /\ m.slot[0] = 0
  /\ \A j \in DOMAIN p[0] :
       IF p[0][j].op = "create"
         THEN /\ m.made[j + 1] = m.made[j] + 1
              /\ m.slot[p[0][j].thread] = IF m.made[j] + 1 < MAXT THEN m.made[j] + 1 ELSE -1
         ELSE m.made[j + 1] = m.made[j]
  /\ \A t \in Threads : \A j \in DOMAIN p[t] :
       /\ m.turns[t][j + 1] = IF Section(p, m.depth, t, j) THEN m.turns[t][j] + 1 ELSE m.turns[t][j]
       /\ p[t][j].op \in {"lock", "trylock"} => m.depth[t][j + 1] = m.depth[t][j] + 1
       /\ p[t][j].op = "unlock" =>
            m.depth[t][j + 1] = IF m.depth[t][j] > 0 THEN m.depth[t][j] - 1 ELSE 0
       /\ p[t][j].op \notin {"lock", "trylock", "unlock"} => m.depth[t][j + 1] = m.depth[t][j]
       /\ p[t][j].op = "trylock" => /\ m.depth[t][j] > 0
                                    /\ m.depth[t][p[t][j].busy] = m.depth[t][j]
                                    /\ m.turns[t][p[t][j].busy] = m.turns[t][j]
  /\ \A t \in Threads : \A j, k \in 1..(Len(p[t]) + 1) :
       j < k => /\ m.turns[t][j] <= m.turns[t][k]
                /\ Section(p, m.depth, t, j) => m.turns[t][j] < m.turns[t][k]

\* The order of a program's critical sections is fixed by the program.
Sectioned(p) == CreatedFirst(p) /\ \E m : Measures(m, p)
-----------------------------------------------------------------------------
(* Properties *)

\* Every variable keeps its type; slots in use are those handed out.
TypeOK ==
  /\ [prog |-> prog, spin_cap |-> spin_cap] \in Setups
  /\ next_slot \in Nat
  /\ lc \in [Slots -> Nat]
  /\ active \in [Slots -> BOOLEAN]
  /\ \A s \in Slots : active[s] => s < next_slot
  /\ \A t \in Threads :
       /\ thr[t].slot \in Slots \cup {-1}
       /\ thr[t].depth \in Nat
       /\ thr[t].ip \in 1..(Len(prog[t]) + 1)
       /\ thr[t].pc \in {"none", "run", "await", "scan", "acquire", "advance", "park",
                         "parked", "return", "create", "join", "done"}
       /\ thr[t].i \in 0..thr[t].n
       /\ thr[t].spins \in Nat
  /\ \A m \in Locks : /\ lock[m].writer \in Threads \cup {NoThread}
                      /\ lock[m].readers \subseteq Threads
  /\ flag \in [Conds -> BOOLEAN]
  /\ parked \in [Conds -> SUBSET Threads]
  /\ relaxed \in BOOLEAN
  /\ run \in {1, 2}

\* Two runs of a program enter their top-level critical sections in the same
\* order (detsched.c: "the interleaving of critical sections is identical on
\* every run"), unless one went ahead without its turn.
Deterministic ==
  run = 2 /\ ~relaxed =>
    Len(acq) <= Len(first) /\ \A k \in 1..Len(acq) : acq[k] = first[k]

InTurn(t) == \/ thr[t].pc = "acquire" /\ thr[t].depth = 0
             \/ thr[t].pc = "advance" /\ Call(t).op # "wait"

\* At most one thread is past the gate and has not yet advanced its clock, so a
\* turn that blocks on its lock is not overtaken, unless one went ahead.
OneTurn ==
  ~relaxed => \A t, u \in Threads : InTurn(t) /\ InTurn(u) => t = u

\* Every program ends: no thread waits for a turn or a lock for ever
\* (detsched.c: "deadlock-free for correctly-locked programs").
Finishes == <>(run = 2 /\ Finished)
=============================================================================
