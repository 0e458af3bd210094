-------------------------------- MODULE Sched --------------------------------
(***************************************************************************)
(* Context switching in kernel/proc.c: scheduler, sched, yield, sleep,     *)
(* wakeup, kkill and killed, with p->lock handed from thread to scheduler  *)
(* and back across swtch, on several harts.                                *)
(*                                                                         *)
(* The condition that processes sleep for is a flag `cond' guarded by one  *)
(* spin lock: a waiter loops `while(!cond) { if(killed) return -1;         *)
(* sleep(chan, lk); }' as piperead, consoleread and sys_pause do, and      *)
(* takes the flag; a signaller sets it and calls wakeup(chan), in a        *)
(* process, or in a device interrupt on a hart that runs no process.       *)
(***************************************************************************)
EXTENDS Integers, FiniteSets

CONSTANTS
  Cpus,    \* harts
  NPROC,   \* processes are proc[1..NPROC]
  NoCpu    \* holder of a free lock

ASSUME SchedAssumption ==
  NPROC \in Nat \ {0} /\ IsFiniteSet(Cpus) /\ NoCpu \notin Cpus /\ Cpus \cap (0..NPROC) = {}

Procs == 1..NPROC
Actors == Procs \cup Cpus   \* kernel threads, and the interrupt code of idle harts

VARIABLES
  state,   \* p->state
  chan,    \* p->chan: 1 for the channel of cond, 0 for none
  killed,  \* p->killed
  plock,   \* the hart that holds p->lock
  lk,      \* the hart that holds the condition lock
  cond,    \* the condition
  cur,     \* c->proc, 0 when the hart runs the scheduler
  sc,      \* where the scheduler of a hart is
  idx,     \* its loop index p
  found,   \* its local variable found
  pc,      \* where every kernel thread and interrupt handler is
  wi,      \* loop index of its call of wakeup
  panic    \* "none" or the message of panic()

cpuvars == <<sc, idx, found, cur>>
vars == <<state, chan, killed, plock, lk, cond, cpuvars, pc, wi, panic>>

Init ==
  /\ state = [p \in Procs |-> "RUNNABLE"]
  /\ chan = [p \in Procs |-> 0]
  /\ killed = [p \in Procs |-> 0]
  /\ plock = [p \in Procs |-> NoCpu]
  /\ lk = NoCpu /\ cond = 0
  /\ cur = [c \in Cpus |-> 0]
  /\ sc = [c \in Cpus |-> "scan"]
  /\ idx = [c \in Cpus |-> 1]
  /\ found = [c \in Cpus |-> 0]
  /\ pc = [a \in Actors |-> IF a \in Procs THEN "y_back" ELSE "idle"]
  /\ wi = [a \in Actors |-> 1]
  /\ panic = "none"

\* a executes on hart c: a thread that c has switched to, or c's own handler.
On(a, c) == \/ a \in Procs /\ cur[c] = a /\ sc[c] = "proc"
            \/ a = c

\* How many spin locks hart c holds: cpu->noff.
noff(c) == Cardinality({p \in Procs : plock[p] = c}) + IF lk = c THEN 1 ELSE 0

Goto(a, l) == pc' = [pc EXCEPT ![a] = l]

----------------------------------------------------------------------------
\* scheduler()

\* The loop over proc[], one process per step; the process switched to
\* inherits p->lock.
scheduler(c) ==
  LET p == idx[c] IN
  /\ sc[c] = "scan" /\ pc[c] = "idle" /\ p \in Procs
  /\ plock[p] = NoCpu
  /\ IF state[p] = "RUNNABLE"
     THEN /\ state' = [state EXCEPT ![p] = "RUNNING"]
          /\ cur' = [cur EXCEPT ![c] = p]
          /\ plock' = [plock EXCEPT ![p] = c]
          /\ sc' = [sc EXCEPT ![c] = "proc"]
          /\ UNCHANGED idx
     ELSE idx' = [idx EXCEPT ![c] = p + 1] /\ UNCHANGED <<state, cur, plock, sc>>
  /\ UNCHANGED <<chan, killed, lk, cond, found, pc, wi, panic>>

\* Back from swtch.
scheduler_back_Restarts(c) ==
  /\ sc[c] = "back"
  /\ plock' = [plock EXCEPT ![idx[c]] = NoCpu]
  /\ cur' = [cur EXCEPT ![c] = 0]
  /\ found' = [found EXCEPT ![c] = 1]
  /\ idx' = [idx EXCEPT ![c] = 1]
  /\ sc' = [sc EXCEPT ![c] = "scan"]
  /\ UNCHANGED <<state, chan, killed, lk, cond, pc, wi, panic>>
scheduler_back(c) ==
  /\ sc[c] = "back"
  /\ plock' = [plock EXCEPT ![idx[c]] = NoCpu]
  /\ cur' = [cur EXCEPT ![c] = 0]
  /\ found' = [found EXCEPT ![c] = 1]
  /\ idx' = [idx EXCEPT ![c] = @ + 1]
  /\ sc' = [sc EXCEPT ![c] = "scan"]
  /\ UNCHANGED <<state, chan, killed, lk, cond, pc, wi, panic>>

\* End of the pass: start over, or stop in wfi when nothing was found.
scheduler_wrap(c) ==
  /\ sc[c] = "scan" /\ pc[c] = "idle" /\ idx[c] = NPROC + 1
  /\ idx' = [idx EXCEPT ![c] = 1]
  /\ found' = [found EXCEPT ![c] = 0]
  /\ sc' = [sc EXCEPT ![c] = IF found[c] = 1 THEN "scan" ELSE "wfi"]
  /\ UNCHANGED <<state, chan, killed, plock, lk, cond, cur, pc, wi, panic>>

\* Some interrupt (the timer at the latest) ends wfi.
tick(c) ==
  /\ sc[c] = "wfi"
  /\ sc' = [sc EXCEPT ![c] = "scan"]
  /\ UNCHANGED <<state, chan, killed, plock, lk, cond, cur, idx, found, pc, wi, panic>>

\* A device interrupt between intr_on() and intr_off() at the top of the loop.
idle_interrupt(c) ==
  /\ sc[c] = "scan" /\ idx[c] = 1 /\ pc[c] = "idle"
  /\ Goto(c, "g_acq")
  /\ UNCHANGED <<state, chan, killed, plock, lk, cond, cpuvars, wi, panic>>

Scheduler(c) == scheduler(c) \/ scheduler_back(c) \/ scheduler_wrap(c) \/ tick(c)

----------------------------------------------------------------------------
\* sched(), called by thread p on hart c with its new state st; `locks' is
\* cpu->noff, with p->lock counted.
sched(p, c, st, locks, l) ==
  /\ panic' = IF locks # 1 THEN "sched locks" ELSE IF st = "RUNNING" THEN "sched RUNNING" ELSE "none"
  /\ state' = [state EXCEPT ![p] = st]
  /\ sc' = [sc EXCEPT ![c] = "back"]
  /\ Goto(p, l)

\* yield(), from a timer interrupt in user space or with interrupts on.
yield_Unlocked(p, c) ==
  /\ On(p, c) /\ pc[p] = "user" /\ plock[p] = NoCpu
  /\ state' = [state EXCEPT ![p] = "RUNNABLE"]
  /\ sc' = [sc EXCEPT ![c] = "back"]
  /\ Goto(p, "y_back")
  /\ UNCHANGED <<chan, killed, plock, lk, cond, cur, idx, found, wi, panic>>
yield(p, c) ==
  /\ On(p, c) /\ pc[p] = "user" /\ plock[p] = NoCpu
  /\ plock' = [plock EXCEPT ![p] = c]
  /\ sched(p, c, "RUNNABLE", noff(c) + 1, "y_back")
  /\ UNCHANGED <<chan, killed, lk, cond, cur, idx, found, wi>>

yield_back(p, c) ==
  /\ On(p, c) /\ pc[p] = "y_back"
  /\ plock' = [plock EXCEPT ![p] = NoCpu]
  /\ Goto(p, "user")
  /\ UNCHANGED <<state, chan, killed, lk, cond, cpuvars, wi, panic>>

----------------------------------------------------------------------------
\* A waiter, with sleep() in its steps.

wait_acquire(p, c) ==
  /\ On(p, c) /\ pc[p] \in {"user", "w_acq"} /\ lk = NoCpu
  /\ pc[p] = "user" => killed[p] = 0
  /\ lk' = c
  /\ Goto(p, "w_test")
  /\ UNCHANGED <<state, chan, killed, plock, cond, cpuvars, wi, panic>>

\* The loop condition, and killed(p).
wait_test_Unlocked(p, c) ==
  /\ On(p, c) /\ pc[p] = "w_test" /\ cond = 0 /\ killed[p] = 0
  /\ lk' = NoCpu /\ Goto(p, "s_acq")
  /\ UNCHANGED <<state, chan, killed, plock, cond, cpuvars, wi, panic>>
wait_test(p, c) ==
  /\ On(p, c) /\ pc[p] = "w_test"
  /\ \/ /\ cond = 1 /\ cond' = 0 /\ lk' = NoCpu /\ Goto(p, "user")
     \/ /\ cond = 0 /\ plock[p] = NoCpu /\ killed[p] = 1
        /\ lk' = NoCpu /\ Goto(p, "user") /\ UNCHANGED cond
     \/ /\ cond = 0 /\ plock[p] = NoCpu /\ killed[p] = 0
        /\ Goto(p, "s_acq") /\ UNCHANGED <<cond, lk>>
  /\ UNCHANGED <<state, chan, killed, plock, cpuvars, wi, panic>>

sleep_acquire(p, c) ==
  /\ On(p, c) /\ pc[p] = "s_acq" /\ plock[p] = NoCpu
  /\ plock' = [plock EXCEPT ![p] = c]
  /\ Goto(p, "s_rel")
  /\ UNCHANGED <<state, chan, killed, lk, cond, cpuvars, wi, panic>>

sleep_release(p, c) ==
  /\ On(p, c) /\ pc[p] = "s_rel"
  /\ lk' = NoCpu
  /\ Goto(p, "s_go")
  /\ UNCHANGED <<state, chan, killed, plock, cond, cpuvars, wi, panic>>

sleep_sched(p, c) ==
  /\ On(p, c) /\ pc[p] = "s_go"
  /\ chan' = [chan EXCEPT ![p] = 1]
  /\ sched(p, c, "SLEEPING", noff(c), "s_back")
  /\ UNCHANGED <<killed, plock, lk, cond, cur, idx, found, wi>>

sleep_back(p, c) ==
  /\ On(p, c) /\ pc[p] = "s_back"
  /\ chan' = [chan EXCEPT ![p] = 0]
  /\ plock' = [plock EXCEPT ![p] = NoCpu]
  /\ Goto(p, "w_acq")
  /\ UNCHANGED <<state, killed, lk, cond, cpuvars, wi, panic>>

sleep(p, c) == sleep_acquire(p, c) \/ sleep_release(p, c) \/ sleep_sched(p, c) \/ sleep_back(p, c)

----------------------------------------------------------------------------
\* A signaller, with wakeup() in its steps, and kkill().

signal(a, c) ==
  /\ On(a, c) /\ pc[a] \in {"user", "g_acq"} /\ lk = NoCpu
  /\ lk' = c /\ cond' = 1
  /\ wi' = [wi EXCEPT ![a] = 1]
  /\ Goto(a, "g_wake")
  /\ UNCHANGED <<state, chan, killed, plock, cpuvars, panic>>

\* Whom wakeup(chan) makes runnable.
Sleeps(p) == state[p] = "SLEEPING" /\ chan[p] = 1

wakeup(a, c) ==
  LET p == wi[a] IN
  /\ On(a, c) /\ pc[a] = "g_wake" /\ p \in Procs
  /\ \/ p = cur[c] /\ UNCHANGED state
     \/ /\ p # cur[c] /\ plock[p] = NoCpu
        /\ state' = IF Sleeps(p) THEN [state EXCEPT ![p] = "RUNNABLE"] ELSE state
  /\ wi' = [wi EXCEPT ![a] = p + 1]
  /\ UNCHANGED <<chan, killed, plock, lk, cond, cpuvars, pc, panic>>

signal_release(a, c) ==
  /\ On(a, c) /\ pc[a] = "g_wake" /\ wi[a] = NPROC + 1
  /\ lk' = NoCpu
  /\ wi' = [wi EXCEPT ![a] = 1]
  /\ Goto(a, IF a \in Procs THEN "user" ELSE "idle")
  /\ UNCHANGED <<state, chan, killed, plock, cond, cpuvars, panic>>

kkill(p, c, v) ==
  /\ On(p, c) /\ pc[p] = "user" /\ plock[v] = NoCpu
  /\ killed' = [killed EXCEPT ![v] = 1]
  /\ state' = IF state[v] = "SLEEPING" THEN [state EXCEPT ![v] = "RUNNABLE"] ELSE state
  /\ UNCHANGED <<chan, plock, lk, cond, cpuvars, pc, wi, panic>>

Thread(p, c) ==
  \/ yield_back(p, c) \/ wait_test(p, c) \/ sleep(p, c)
  \/ pc[p] = "w_acq" /\ wait_acquire(p, c)

Signaller(a, c) == wakeup(a, c) \/ signal_release(a, c) \/ (pc[a] = "g_acq" /\ signal(a, c))

Next ==
  /\ panic = "none"
  /\ \E c \in Cpus :
       \/ Scheduler(c) \/ idle_interrupt(c)
       \/ \E p \in Procs : \/ Thread(p, c) \/ yield(p, c)
                           \/ pc[p] = "user" /\ wait_acquire(p, c)
                           \/ \E v \in Procs : kkill(p, c, v)
       \/ \E a \in Actors : (pc[a] = "user" /\ signal(a, c)) \/ Signaller(a, c)

Spec == Init /\ [][Next]_vars

\* What hart c does next when it has a choice of one.
Proceed(c) ==
  \/ Scheduler(c)
  \/ \E p \in Procs : Thread(p, c)
  \/ \E a \in Actors : Signaller(a, c)

\* A hart keeps executing instructions and its timer goes off; a spin lock that
\* is free again and again is obtained; interrupts leave time for the scheduler.
Fairness ==
  \A c \in Cpus : /\ SF_vars(Proceed(c)) /\ SF_vars(Scheduler(c))
                  /\ SF_vars(\E p \in Procs : yield(p, c))

FairSpec == Spec /\ Fairness

----------------------------------------------------------------------------
\* Properties.

\* The type of every variable.
TypeOK ==
  /\ state \in [Procs -> {"RUNNABLE", "RUNNING", "SLEEPING"}]
  /\ chan \in [Procs -> {0, 1}] /\ killed \in [Procs -> {0, 1}]
  /\ plock \in [Procs -> Cpus \cup {NoCpu}] /\ lk \in Cpus \cup {NoCpu}
  /\ cond \in {0, 1} /\ cur \in [Cpus -> 0..NPROC]
  /\ sc \in [Cpus -> {"scan", "proc", "back", "wfi"}]
  /\ idx \in [Cpus -> 1..(NPROC + 1)] /\ found \in [Cpus -> {0, 1}]
  /\ pc \in [Actors -> {"idle", "user", "y_back", "w_acq", "w_test", "s_acq", "s_rel",
                        "s_go", "s_back", "g_acq", "g_wake"}]
  /\ wi \in [Actors -> 1..(NPROC + 1)]
  /\ panic \in {"none", "sched locks", "sched RUNNING"}

\* No panic of sched(): a thread that switches holds its p->lock and nothing
\* else, in particular sleep has given up the condition lock.
NoPanic == panic = "none"

\* One kernel stack, one hart: no two harts ever run or save the same thread,
\* and with p->lock free, RUNNING means that exactly one hart runs p.
OneHart ==
  \A p \in Procs :
    /\ \A c, d \in Cpus : cur[c] = p /\ cur[d] = p => c = d
    /\ plock[p] = NoCpu => (state[p] = "RUNNING" <=> \E c \in Cpus : cur[c] = p)

\* "we won't miss any wakeup" (proc.c:547-551): with the condition true and its
\* lock free, nobody sleeps on it or has given up the lock to sleep on it.
NoMissedWakeup ==
  (cond = 1 /\ lk = NoCpu) =>
    \A p \in Procs : ~Sleeps(p) /\ pc[p] \notin {"s_acq", "s_rel", "s_go"}

\* A runnable process gets a hart: no scheduler passes it over for ever, none
\* stays in wfi, and none of them waits for a lock that is never released.
RunnableRuns == \A p \in Procs : (state[p] = "RUNNABLE") ~> (state[p] = "RUNNING")
=============================================================================
