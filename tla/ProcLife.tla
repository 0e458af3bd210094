------------------------------ MODULE ProcLife ------------------------------
(***************************************************************************)
(* The life of a process in kernel/proc.c: allocproc, kfork, kexit,        *)
(* reparent, kwait, freeproc and kkill over the process table, with        *)
(* wait_lock and the window in which an exited process still runs on its   *)
(* kernel stack, holding p->lock until the scheduler releases it.          *)
(*                                                                         *)
(* A critical section of p->lock or pid_lock is one action.  RUNNING and   *)
(* RUNNABLE are one state here (Sched tells them apart), as are the steps  *)
(* inside sleep().  Slot 1 holds init, which forks and waits for ever      *)
(* (user/init.c).                                                          *)
(***************************************************************************)
EXTENDS Integers, FiniteSets, FiniteSetsExt

CONSTANTS
  NPROC,     \* size of the process table
  MAXPID,    \* bound: no process is forked after this pid
  KillPids   \* arguments that programs pass to kill()

ASSUME ProcLifeAssumption ==
  NPROC \in Nat \ {0} /\ MAXPID \in Nat \ {0} /\ KillPids \subseteq Int

Slots == 1..NPROC
initproc == 1

VARIABLES
  state,     \* p->state
  pid,       \* p->pid
  parent,    \* p->parent, 0 for none
  killed,    \* p->killed
  nextpid,   \* nextpid
  waitlock,  \* the process that holds wait_lock, 0 for none
  pc,        \* where each process is
  child,     \* np of the kfork in progress
  onstack    \* 1 from ZOMBIE until the scheduler releases p->lock

table == <<state, pid, parent, killed>>
vars == <<table, nextpid, waitlock, pc, child, onstack>>

\* After userinit.
Init ==
  /\ state = [s \in Slots |-> IF s = initproc THEN "RUNNABLE" ELSE "UNUSED"]
  /\ pid = [s \in Slots |-> IF s = initproc THEN 1 ELSE 0]
  /\ parent = [s \in Slots |-> 0]
  /\ killed = [s \in Slots |-> 0]
  /\ nextpid = 2 /\ waitlock = 0
  /\ pc = [s \in Slots |-> "user"]
  /\ child = [s \in Slots |-> 0]
  /\ onstack = [s \in Slots |-> 0]

Runs(p) == state[p] = "RUNNABLE"
Goto(p, l) == pc' = [pc EXCEPT ![p] = l]

----------------------------------------------------------------------------
\* kfork

\* allocproc, the copy of memory and files, release(&np->lock).  The scan takes
\* the slots' locks one by one, so that any slot may be the first it sees free.
kfork(p, n) ==
  /\ Runs(p) /\ pc[p] = "user" /\ state[n] = "UNUSED" /\ nextpid <= MAXPID
  /\ nextpid' = nextpid + 1
  /\ state' = [state EXCEPT ![n] = "USED"]
  /\ pid' = [pid EXCEPT ![n] = nextpid]
  /\ child' = [child EXCEPT ![p] = n]
  /\ Goto(p, "f_parent")
  /\ UNCHANGED <<parent, killed, waitlock, onstack>>

\* What freeproc leaves in the slot.
freeproc(n) ==
  /\ state' = [state EXCEPT ![n] = "UNUSED"]
  /\ pid' = [pid EXCEPT ![n] = 0]
  /\ parent' = [parent EXCEPT ![n] = 0]
  /\ killed' = [killed EXCEPT ![n] = 0]

\* Out of memory in allocproc or uvmcopy: the pid is gone, the slot is not.
kfork_fails(p, n) ==
  /\ Runs(p) /\ pc[p] = "user" /\ state[n] = "UNUSED" /\ nextpid <= MAXPID
  /\ nextpid' = nextpid + 1
  /\ freeproc(n)
  /\ UNCHANGED <<waitlock, pc, child, onstack>>

kfork_parent(p) ==
  /\ Runs(p) /\ pc[p] = "f_parent" /\ waitlock = 0
  /\ parent' = [parent EXCEPT ![child[p]] = p]
  /\ Goto(p, "f_run")
  /\ UNCHANGED <<state, pid, killed, nextpid, waitlock, child, onstack>>

kfork_run(p) ==
  /\ Runs(p) /\ pc[p] = "f_run"
  /\ state' = [state EXCEPT ![child[p]] = "RUNNABLE"]
  /\ pc' = [pc EXCEPT ![p] = "user", ![child[p]] = "user"]
  /\ child' = [child EXCEPT ![p] = 0]
  /\ UNCHANGED <<pid, parent, killed, nextpid, waitlock, onstack>>

----------------------------------------------------------------------------
\* kexit

Children(p) == {s \in Slots : parent[s] = p}

\* reparent(p).
Reparented_Live(p) ==
  [s \in Slots |-> IF s \in Children(p) /\ state[s] # "ZOMBIE" THEN initproc ELSE parent[s]]
Reparented(p) == [s \in Slots |-> IF s \in Children(p) THEN initproc ELSE parent[s]]

\* Processes asleep in kwait; the channel is the process itself.
Asleep(s) == state[s] = "SLEEPING"

\* Whom kexit wakes: init if it has adopted children, and the parent.
ExitWakes_Parent(p) == {parent[p]}
ExitWakes(p) == {parent[p]} \cup (IF Children(p) # {} THEN {initproc} ELSE {})

\* wait_lock, reparent and the calls of wakeup.
kexit(p) ==
  /\ Runs(p) /\ pc[p] = "user" /\ p # initproc /\ waitlock = 0
  /\ waitlock' = p
  /\ parent' = Reparented(p)
  /\ state' = [s \in Slots |-> IF s \in ExitWakes(p) /\ Asleep(s) THEN "RUNNABLE" ELSE state[s]]
  /\ Goto(p, "x_zombie")
  /\ UNCHANGED <<pid, killed, nextpid, child, onstack>>

\* p->lock is taken, wait_lock released, and sched() entered.
kexit_zombie(p) ==
  /\ pc[p] = "x_zombie" /\ waitlock = p
  /\ state' = [state EXCEPT ![p] = "ZOMBIE"]
  /\ onstack' = [onstack EXCEPT ![p] = 1]
  /\ waitlock' = 0
  /\ UNCHANGED <<pid, parent, killed, nextpid, pc, child>>

\* The scheduler, off the dead stack, releases p->lock.
kexit_swtch(p) ==
  /\ onstack[p] = 1
  /\ onstack' = [onstack EXCEPT ![p] = 0]
  /\ UNCHANGED <<table, nextpid, waitlock, pc, child>>

----------------------------------------------------------------------------
\* kwait

Zombies(p) == {s \in Children(p) : state[s] = "ZOMBIE"}

\* acquire(&pp->lock) waits for a child that is still in swtch.
Reapable_NoLock(p) == Zombies(p) # {}
Reapable(p) == Zombies(p) # {} /\ onstack[Min(Zombies(p))] = 0

kwait_begin(p) ==
  /\ Runs(p) /\ pc[p] \in {"user", "w_again"} /\ waitlock = 0
  /\ waitlock' = p
  /\ Goto(p, "w_scan")
  /\ UNCHANGED <<table, nextpid, child, onstack>>

\* A zombie child is freed, or its status cannot be copied out (init passes
\* no address).
kwait_reap(p) ==
  /\ pc[p] = "w_scan" /\ waitlock = p /\ Reapable(p)
  /\ waitlock' = 0
  /\ Goto(p, "user")
  /\ \/ freeproc(Min(Zombies(p)))
     \/ p # initproc /\ UNCHANGED table
  /\ UNCHANGED <<nextpid, child, onstack>>

\* No zombie: give up, or go on to sleep.
kwait_scan(p) ==
  /\ pc[p] = "w_scan" /\ waitlock = p /\ Zombies(p) = {}
  /\ IF Children(p) = {} \/ killed[p] = 1
     THEN waitlock' = 0 /\ Goto(p, "user")
     ELSE Goto(p, "w_sleep") /\ UNCHANGED waitlock
  /\ UNCHANGED <<table, nextpid, child, onstack>>

kwait_sleep_Stale(p) ==
  /\ pc[p] = "w_sleep"
  /\ waitlock' = IF waitlock = p THEN 0 ELSE waitlock
  /\ state' = [state EXCEPT ![p] = IF waitlock = p THEN @ ELSE "SLEEPING"]
  /\ Goto(p, IF waitlock = p THEN "w_sleep" ELSE "w_again")
  /\ UNCHANGED <<pid, parent, killed, nextpid, child, onstack>>
kwait_sleep(p) ==
  /\ pc[p] = "w_sleep" /\ waitlock = p
  /\ waitlock' = 0
  /\ state' = [state EXCEPT ![p] = "SLEEPING"]
  /\ Goto(p, "w_again")
  /\ UNCHANGED <<pid, parent, killed, nextpid, child, onstack>>

----------------------------------------------------------------------------
\* kkill: the first slot whose pid matches, unless its lock is held.
kkill(p, v) ==
  LET m == {s \in Slots : pid[s] = v} IN
  /\ Runs(p) /\ pc[p] = "user" /\ m # {} /\ onstack[Min(m)] = 0
  /\ killed' = [killed EXCEPT ![Min(m)] = 1]
  /\ state' = [state EXCEPT ![Min(m)] = IF @ = "SLEEPING" THEN "RUNNABLE" ELSE @]
  /\ UNCHANGED <<pid, parent, nextpid, waitlock, pc, child, onstack>>

Proceed(p) ==
  \/ kfork_parent(p) \/ kfork_run(p)
  \/ kexit_zombie(p) \/ kexit_swtch(p)
  \/ (pc[p] = "w_again" /\ kwait_begin(p))
  \/ kwait_reap(p) \/ kwait_scan(p) \/ kwait_sleep(p)

Next ==
  \E p \in Slots :
    \/ \E n \in Slots : kfork(p, n) \/ kfork_fails(p, n)
    \/ kexit(p)
    \/ (pc[p] = "user" /\ kwait_begin(p))
    \/ Proceed(p)
    \/ \E v \in KillPids : kkill(p, v)

Spec == Init /\ [][Next]_vars

\* A system call once begun is executed, by a scheduler that forgets nobody;
\* init goes back to wait.
Fairness ==
  /\ \A p \in Slots : SF_vars(Proceed(p))
  /\ SF_vars(pc[initproc] = "user" /\ kwait_begin(initproc))

FairSpec == Spec /\ Fairness

----------------------------------------------------------------------------
\* Properties.

\* The type of every variable.
TypeOK ==
  /\ state \in [Slots -> {"UNUSED", "USED", "SLEEPING", "RUNNABLE", "ZOMBIE"}]
  /\ pid \in [Slots -> 0..MAXPID] /\ parent \in [Slots -> 0..NPROC]
  /\ killed \in [Slots -> {0, 1}] /\ nextpid \in 1..(MAXPID + 1)
  /\ waitlock \in 0..NPROC
  /\ pc \in [Slots -> {"user", "f_parent", "f_run", "x_zombie", "w_scan", "w_sleep", "w_again"}]
  /\ child \in [Slots -> 0..NPROC] /\ onstack \in [Slots -> {0, 1}]

Live(s) == state[s] \in {"SLEEPING", "RUNNABLE"}

\* Nobody is an orphan: a process that has run has a parent that can still
\* wait for it, whatever the order of fork, exit and wait of the two.
ParentAlive ==
  \A s \in Slots \ {initproc} :
    state[s] \in {"SLEEPING", "RUNNABLE", "ZOMBIE"} => parent[s] \in Slots /\ Live(parent[s])

\* A slot is not given away while its old process still runs on its stack:
\* "make sure the child isn't still in exit() or swtch()" (proc.c:384).
StackInUse == \A s \in Slots : onstack[s] = 1 => state[s] = "ZOMBIE"

\* Nobody sleeps in wait() next to a dead child, or without children.
NoMissedExit ==
  \A p \in Slots : (Asleep(p) /\ waitlock = 0) => Zombies(p) = {} /\ Children(p) # {}

\* Dead processes do not pile up: what init has or adopts is reaped.
InitReaps ==
  \A s \in Slots : (state[s] = "ZOMBIE" /\ parent[s] = initproc) ~> (state[s] = "UNUSED")
=============================================================================
