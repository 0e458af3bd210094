------------------------------ MODULE Spinlock ------------------------------
(***************************************************************************)
(* The spin locks of kernel/spinlock.c instruction by instruction: acquire *)
(* and release, the owner field lk->cpu that holding() reads without a     *)
(* lock, and the nesting counter of push_off/pop_off with interrupts that  *)
(* arrive between any two instructions while they are enabled.             *)
(*                                                                         *)
(* Each hart runs a kernel thread and, on top of it, one interrupt         *)
(* handler (the hardware disables interrupts while it runs).  Both acquire *)
(* locks in increasing order, any lock being free to be used by both, and  *)
(* release them last first, as the kernel's code does.                     *)
(***************************************************************************)
EXTENDS Integers, Sequences, FiniteSets

CONSTANTS
  Cpus,    \* harts
  NLOCKS,  \* locks are 1..NLOCKS, in the order in which they are taken
  NoCpu    \* lk->cpu = 0

ASSUME SpinlockAssumption ==
  NLOCKS \in Nat /\ IsFiniteSet(Cpus) /\ NoCpu \notin Cpus

Locks  == 1..NLOCKS
Levels == {"thread", "handler"}

VARIABLES
  locked,  \* lk->locked
  owner,   \* lk->cpu
  intr,    \* sstatus.SIE of every hart
  noff,    \* cpu->noff
  intena,  \* cpu->intena
  level,   \* what the hart is running
  pc,      \* next instruction of every hart at each level
  lk,      \* the argument of the acquire or release in progress
  old,     \* push_off's local variable
  held,    \* the locks acquired at each level, in order
  panic    \* "none" or the message of panic()

cpu  == <<intr, noff, intena>>
vars == <<locked, owner, cpu, level, pc, lk, old, held, panic>>

PCs == {"run", "intr_off", "count", "check", "swap", "mark", "unmark", "unlock", "pop"}

Init ==
  /\ locked = [l \in Locks |-> 0]
  /\ owner = [l \in Locks |-> NoCpu]
  /\ intr = [c \in Cpus |-> 1]
  /\ noff = [c \in Cpus |-> 0]
  /\ intena = [c \in Cpus |-> 0]
  /\ level = [c \in Cpus |-> "thread"]
  /\ pc = [c \in Cpus |-> [v \in Levels |-> "run"]]
  /\ lk = [c \in Cpus |-> [v \in Levels |-> 0]]
  /\ old = [c \in Cpus |-> [v \in Levels |-> 0]]
  /\ held = [c \in Cpus |-> [v \in Levels |-> <<>>]]
  /\ panic = "none"

PC(c) == pc[c][level[c]]
Lk(c) == lk[c][level[c]]
Held(c) == held[c][level[c]]
Goto(c, l) == pc' = [pc EXCEPT ![c][level[c]] = l]
SetHeld(c, s) == held' = [held EXCEPT ![c][level[c]] = s]

\* holding(lk): reads two fields that other harts write.
holding(c, l) == locked[l] = 1 /\ owner[l] = c

----------------------------------------------------------------------------
\* acquire(l): push_off in three steps, the test, the swap, the owner field.

Above(s) == IF s = <<>> THEN 0 ELSE s[Len(s)]

call_acquire(c, l) ==
  /\ PC(c) = "run" /\ l > Above(Held(c))
  /\ lk' = [lk EXCEPT ![c][level[c]] = l]
  /\ old' = [old EXCEPT ![c][level[c]] = intr[c]]
  /\ Goto(c, "intr_off")
  /\ UNCHANGED <<locked, owner, cpu, level, held, panic>>

push_off_Late(c) ==
  /\ PC(c) = "intr_off"
  /\ Goto(c, "count")
  /\ UNCHANGED <<locked, owner, intr, noff, intena, level, lk, old, held, panic>>
push_off(c) ==
  /\ PC(c) = "intr_off"
  /\ intr' = [intr EXCEPT ![c] = 0]
  /\ Goto(c, "count")
  /\ UNCHANGED <<locked, owner, noff, intena, level, lk, old, held, panic>>

push_off_count(c) ==
  /\ PC(c) = "count"
  /\ intena' = IF noff[c] = 0 THEN [intena EXCEPT ![c] = old[c][level[c]]] ELSE intena
  /\ noff' = [noff EXCEPT ![c] = @ + 1]
  /\ Goto(c, "check")
  /\ UNCHANGED <<locked, owner, intr, level, lk, old, held, panic>>

check(c) ==
  /\ PC(c) = "check"
  /\ IF holding(c, Lk(c)) THEN panic' = "acquire" /\ UNCHANGED pc
     ELSE Goto(c, "swap") /\ UNCHANGED panic
  /\ UNCHANGED <<locked, owner, cpu, level, lk, old, held>>

\* __sync_lock_test_and_set; a hart that finds the lock taken tries again.
swap_Blind(c) ==
  /\ PC(c) = "swap"
  /\ locked' = [locked EXCEPT ![Lk(c)] = 1]
  /\ Goto(c, "mark")
  /\ UNCHANGED <<owner, cpu, level, lk, old, held, panic>>
swap(c) ==
  /\ PC(c) = "swap"
  /\ locked' = [locked EXCEPT ![Lk(c)] = 1]
  /\ IF locked[Lk(c)] = 0 THEN Goto(c, "mark") ELSE UNCHANGED pc
  /\ UNCHANGED <<owner, cpu, level, lk, old, held, panic>>

mark(c) ==
  /\ PC(c) = "mark"
  /\ owner' = [owner EXCEPT ![Lk(c)] = c]
  /\ SetHeld(c, Append(Held(c), Lk(c)))
  /\ Goto(c, "run")
  /\ UNCHANGED <<locked, cpu, level, lk, old, panic>>

acquire(c) == push_off(c) \/ push_off_count(c) \/ check(c) \/ swap(c) \/ mark(c)

----------------------------------------------------------------------------
\* release(l): the test and lk->cpu = 0, the store to lk->locked, pop_off.

call_release(c) ==
  LET l == Above(Held(c)) IN
  /\ PC(c) = "run" /\ Held(c) # <<>>
  /\ lk' = [lk EXCEPT ![c][level[c]] = l]
  /\ IF holding(c, l) THEN Goto(c, "unmark") /\ UNCHANGED panic
     ELSE panic' = "release" /\ UNCHANGED pc
  /\ UNCHANGED <<locked, owner, cpu, level, old, held>>

unmark_Not(c) ==
  /\ PC(c) = "unmark"
  /\ SetHeld(c, SubSeq(Held(c), 1, Len(Held(c)) - 1))
  /\ Goto(c, "unlock")
  /\ UNCHANGED <<locked, owner, cpu, level, lk, old, panic>>
unmark(c) ==
  /\ PC(c) = "unmark"
  /\ owner' = [owner EXCEPT ![Lk(c)] = NoCpu]
  /\ SetHeld(c, SubSeq(Held(c), 1, Len(Held(c)) - 1))
  /\ Goto(c, "unlock")
  /\ UNCHANGED <<locked, cpu, level, lk, old, panic>>

unlock_Lost(c) ==
  /\ PC(c) = "unlock"
  /\ Goto(c, "pop")
  /\ UNCHANGED <<locked, owner, cpu, level, lk, old, held, panic>>
unlock(c) ==
  /\ PC(c) = "unlock"
  /\ locked' = [locked EXCEPT ![Lk(c)] = 0]
  /\ Goto(c, "pop")
  /\ UNCHANGED <<owner, cpu, level, lk, old, held, panic>>

\* Interrupts come back when the outermost pop_off finds they were on.
intr_on(c) == noff[c] = 1 /\ intena[c] = 1

pop_off(c) ==
  /\ PC(c) = "pop"
  /\ IF intr[c] = 1 THEN panic' = "pop_off - interruptible" /\ UNCHANGED <<noff, intr, pc>>
     ELSE IF noff[c] < 1 THEN panic' = "pop_off" /\ UNCHANGED <<noff, intr, pc>>
     ELSE /\ noff' = [noff EXCEPT ![c] = @ - 1]
          /\ intr' = IF intr_on(c) THEN [intr EXCEPT ![c] = 1] ELSE intr
          /\ Goto(c, "run")
          /\ UNCHANGED panic
  /\ UNCHANGED <<locked, owner, intena, level, lk, old, held>>

release(c) == call_release(c) \/ unmark(c) \/ unlock(c) \/ pop_off(c)

----------------------------------------------------------------------------
\* Traps: the hart enters the handler with interrupts off, sret restores them.

interrupt(c) ==
  /\ intr[c] = 1 /\ level[c] = "thread"
  /\ level' = [level EXCEPT ![c] = "handler"]
  /\ intr' = [intr EXCEPT ![c] = 0]
  /\ UNCHANGED <<locked, owner, noff, intena, pc, lk, old, held, panic>>

sret(c) ==
  /\ level[c] = "handler" /\ PC(c) = "run" /\ Held(c) = <<>>
  /\ level' = [level EXCEPT ![c] = "thread"]
  /\ intr' = [intr EXCEPT ![c] = 1]
  /\ UNCHANGED <<locked, owner, noff, intena, pc, lk, old, held, panic>>

Next ==
  /\ panic = "none"
  /\ \E c \in Cpus :
       \/ \E l \in Locks : call_acquire(c, l)
       \/ acquire(c) \/ release(c) \/ interrupt(c) \/ sret(c)

Spec == Init /\ [][Next]_vars

\* Each hart keeps executing instructions; critical sections and handlers end.
Fairness ==
  \A c \in Cpus :
    /\ WF_vars(acquire(c)) /\ WF_vars(unmark(c) \/ unlock(c) \/ pop_off(c))
    /\ SF_vars(call_release(c)) /\ SF_vars(sret(c))

FairSpec == Spec /\ Fairness

----------------------------------------------------------------------------
\* Properties.

\* The type of every variable.
TypeOK ==
  /\ locked \in [Locks -> {0, 1}] /\ owner \in [Locks -> Cpus \cup {NoCpu}]
  /\ intr \in [Cpus -> {0, 1}] /\ noff \in [Cpus -> Nat] /\ intena \in [Cpus -> {0, 1}]
  /\ level \in [Cpus -> Levels] /\ pc \in [Cpus -> [Levels -> PCs]]
  /\ lk \in [Cpus -> [Levels -> 0..NLOCKS]] /\ old \in [Cpus -> [Levels -> {0, 1}]]
  /\ held \in [Cpus -> [Levels -> Seq(Locks)]]
  /\ panic \in {"none", "acquire", "release", "pop_off - interruptible", "pop_off"}

Holds(c, l) == \E v \in Levels : \E i \in 1..Len(held[c][v]) : held[c][v][i] = l

\* Mutual exclusion, and lk->cpu names the holder whenever there is one.
MutualExclusion ==
  \A l \in Locks, c \in Cpus :
    Holds(c, l) => holding(c, l) /\ \A d \in Cpus \ {c} : ~Holds(d, l)

\* No panic: holding() never takes a stale lk->cpu for its own although it
\* reads it without a lock, a handler never finds its own hart holding the
\* lock it wants, and push_off and pop_off stay matched.
NoPanic == panic = "none"

\* A hart that holds a lock takes no interrupt: "interrupts off" covers the
\* whole of every critical section and the handler never sees it half done.
HolderUninterrupted ==
  \A c \in Cpus : (\E l \in Locks : Holds(c, l)) =>
    intr[c] = 0 /\ (level[c] = "handler" => held[c]["thread"] = <<>>)


\* A lock that is taken is released again, unless its holder goes on to use a
\* lock later in the order (the swap loop is not fair to one hart): no two
\* harts wait for each other, and no hart waits for itself.
LocksReleased ==
  \A l \in Locks :
    (locked[l] = 1) ~> (locked[l] = 0 \/ \E m \in (l + 1)..NLOCKS : locked[m] = 1)
=============================================================================
