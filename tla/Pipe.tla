-------------------------------- MODULE Pipe --------------------------------
(***************************************************************************)
(* kernel/pipe.c: pipewrite and piperead byte by byte under pi->lock, the  *)
(* free-running unsigned counters nread and nwrite, sleeping when full or  *)
(* empty, killed processes, failing copies from and to user memory, and    *)
(* pipeclose by the last process that has an end open.                     *)
(***************************************************************************)
EXTENDS Integers, Sequences, FiniteSets

CONSTANTS
  Writers, Readers,  \* processes that have the write end, the read end open
  Vals,              \* byte values
  PIPESIZE,          \* size of the buffer
  UINTMOD,           \* 2^32: the counters wrap there
  MAXN,              \* bound: longest read or write
  NoProc             \* pi->lock is free

ASSUME PipeAssumption ==
  /\ PIPESIZE \in Nat \ {0} /\ UINTMOD \in Nat /\ MAXN \in Nat
  /\ UINTMOD > PIPESIZE /\ UINTMOD % PIPESIZE = 0
  /\ Writers \cap Readers = {} /\ NoProc \notin Writers \cup Readers

Procs == Writers \cup Readers

VARIABLES
  data, nread, nwrite, readopen, writeopen,  \* struct pipe
  freed,    \* 1 after kfree(pi)
  lock,     \* the process that holds pi->lock
  open,     \* processes that still have their end open
  pc, left, \* where each process is; how many bytes it has left, n - i
  killed,   \* p->killed
  quiet     \* writers that have written bytes since their last wakeup

pipe == <<data, nread, nwrite, readopen, writeopen, freed>>
locals == <<pc, left>>
vars == <<pipe, lock, open, locals, killed, quiet>>

Add(a, b) == (a + b) % UINTMOD

Init ==
  /\ data \in [0..(PIPESIZE - 1) -> {CHOOSE v \in Vals : TRUE}]
  /\ nread = 0 /\ nwrite = 0 /\ readopen = 1 /\ writeopen = 1 /\ freed = 0
  /\ lock = NoProc /\ open = Procs
  /\ pc = [p \in Procs |-> "user"]
  /\ left = [p \in Procs |-> 0]
  /\ killed = [p \in Procs |-> 0]
  /\ quiet = {}

Empty == nread = nwrite
Full_Off == nwrite = Add(nread, PIPESIZE + 1)
Full == nwrite = Add(nread, PIPESIZE)

WokenReaders(p, l) ==
  [q \in Procs |-> IF q = p THEN l ELSE IF pc[q] = "r_asleep" THEN "r_lock" ELSE pc[q]]
WokenWriters_None(p, l) == [pc EXCEPT ![p] = l]
WokenWriters(p, l) ==
  [q \in Procs |-> IF q = p THEN l ELSE IF pc[q] = "w_asleep" THEN "w_lock" ELSE pc[q]]

\* A process starts read(fd, ..., m) or write(fd, ..., m).
call(p, m) ==
  /\ pc[p] = "user" /\ p \in open /\ killed[p] = 0
  /\ left' = [left EXCEPT ![p] = m]
  /\ pc' = [pc EXCEPT ![p] = IF p \in Writers THEN "w_lock" ELSE "r_lock"]
  /\ UNCHANGED <<pipe, lock, open, killed, quiet>>

acquire(p) ==
  /\ pc[p] \in {"w_lock", "r_lock"} /\ lock = NoProc
  /\ lock' = p
  /\ pc' = [pc EXCEPT ![p] = IF p \in Writers THEN "w_loop" ELSE "r_test"]
  /\ UNCHANGED <<pipe, open, left, killed, quiet>>

----------------------------------------------------------------------------
\* pipewrite, one turn of the loop per action.

write_abort(p) ==
  /\ pc[p] = "w_loop" /\ left[p] > 0 /\ (readopen = 0 \/ killed[p] = 1)
  /\ left' = [left EXCEPT ![p] = 0]
  /\ lock' = NoProc
  /\ pc' = [pc EXCEPT ![p] = "user"]
  /\ UNCHANGED <<pipe, open, killed, quiet>>

write_full(p) ==
  /\ pc[p] = "w_loop" /\ left[p] > 0 /\ readopen = 1 /\ killed[p] = 0 /\ Full
  /\ pc' = WokenReaders(p, "w_sleep")
  /\ quiet' = quiet \ {p}
  /\ UNCHANGED <<pipe, lock, open, left, killed>>

\* sleep(): p may have been killed since it looked.
sleep(p) ==
  /\ pc[p] \in {"w_sleep", "r_sleep"}
  /\ pc' = [pc EXCEPT ![p] = IF p \in Writers THEN "w_asleep" ELSE "r_asleep"]
  /\ lock' = NoProc
  /\ UNCHANGED <<pipe, open, left, killed, quiet>>

write_byte(p, v) ==
  /\ pc[p] = "w_loop" /\ left[p] > 0 /\ readopen = 1 /\ killed[p] = 0 /\ ~Full
  /\ data' = [data EXCEPT ![nwrite % PIPESIZE] = v]
  /\ nwrite' = Add(nwrite, 1)
  /\ left' = [left EXCEPT ![p] = @ - 1]
  /\ quiet' = quiet \cup {p}
  /\ UNCHANGED <<nread, readopen, writeopen, freed, lock, open, pc, killed>>

\* The loop is done, or copyin has failed.
write_return(p) ==
  /\ pc[p] = "w_loop"
  /\ left[p] = 0 \/ (readopen = 1 /\ killed[p] = 0 /\ ~Full)
  /\ pc' = WokenReaders(p, "user")
  /\ left' = [left EXCEPT ![p] = 0]
  /\ lock' = NoProc /\ quiet' = quiet \ {p}
  /\ UNCHANGED <<pipe, open, killed>>

pipewrite(p) ==
  write_abort(p) \/ write_full(p) \/ write_return(p) \/ \E v \in Vals : write_byte(p, v)

----------------------------------------------------------------------------
\* piperead

MustWait == Empty /\ writeopen = 1

read_test(p) ==
  /\ pc[p] = "r_test"
  /\ IF ~MustWait THEN pc' = [pc EXCEPT ![p] = "r_copy"] /\ UNCHANGED lock
     ELSE IF killed[p] = 1
     THEN pc' = [pc EXCEPT ![p] = "user"] /\ lock' = NoProc
     ELSE pc' = [pc EXCEPT ![p] = "r_sleep"] /\ UNCHANGED lock
  /\ left' = IF MustWait /\ killed[p] = 1 THEN [left EXCEPT ![p] = 0] ELSE left
  /\ UNCHANGED <<pipe, open, killed, quiet>>

read_byte(p) ==
  /\ pc[p] = "r_copy" /\ left[p] > 0 /\ ~Empty
  /\ nread' = Add(nread, 1)
  /\ left' = [left EXCEPT ![p] = @ - 1]
  /\ UNCHANGED <<data, nwrite, readopen, writeopen, freed, lock, open, pc, killed, quiet>>

\* Enough, empty, or copyout has failed.
read_return(p) ==
  /\ pc[p] = "r_copy"
  /\ pc' = WokenWriters(p, "user")
  /\ left' = [left EXCEPT ![p] = 0]
  /\ lock' = NoProc
  /\ UNCHANGED <<pipe, open, killed, quiet>>

piperead(p) == read_test(p) \/ read_byte(p) \/ read_return(p)

----------------------------------------------------------------------------
\* pipeclose, when the last process closes one end.

close_end(p) ==
  /\ IF p \in Writers
     THEN writeopen' = 0 /\ pc' = WokenReaders(p, "user") /\ UNCHANGED readopen
     ELSE readopen' = 0 /\ pc' = WokenWriters(p, "user") /\ UNCHANGED writeopen

Side(p) == IF p \in Writers THEN Writers ELSE Readers
LastOpen_Not(p) == TRUE
LastOpen(p) == open \cap Side(p) = {p}

pipeclose(p) ==
  /\ pc[p] = "user" /\ p \in open /\ lock = NoProc
  /\ open' = open \ {p}
  /\ IF LastOpen(p)
     THEN close_end(p) /\ freed' = IF readopen' = 0 /\ writeopen' = 0 THEN 1 ELSE 0
     ELSE UNCHANGED <<readopen, writeopen, pc, freed>>
  /\ UNCHANGED <<data, nread, nwrite, lock, left, killed, quiet>>

\* kkill: sets killed at any moment, and ends a sleep.
kill(p) ==
  /\ killed[p] = 0 /\ p \in open
  /\ killed' = [killed EXCEPT ![p] = 1]
  /\ pc' = [pc EXCEPT ![p] = CASE @ = "w_asleep" -> "w_lock" [] @ = "r_asleep" -> "r_lock"
                               [] OTHER -> @]
  /\ UNCHANGED <<pipe, lock, open, left, quiet>>

Step(p) == acquire(p) \/ sleep(p) \/ (p \in Writers /\ pipewrite(p)) \/ (p \in Readers /\ piperead(p))

Next ==
  \E p \in Procs :
    \/ \E m \in 0..MAXN : call(p, m)
    \/ Step(p) \/ pipeclose(p) \/ kill(p)

Spec == Init /\ [][Next]_vars

----------------------------------------------------------------------------
\* Properties.

\* The type of every variable.
TypeOK ==
  /\ data \in [0..(PIPESIZE - 1) -> Vals]
  /\ nread \in 0..(UINTMOD - 1) /\ nwrite \in 0..(UINTMOD - 1)
  /\ readopen \in {0, 1} /\ writeopen \in {0, 1} /\ freed \in {0, 1}
  /\ lock \in Procs \cup {NoProc} /\ open \subseteq Procs
  /\ pc \in [Procs -> {"user", "w_lock", "w_loop", "w_sleep", "w_asleep",
                       "r_lock", "r_test", "r_copy", "r_sleep", "r_asleep"}]
  /\ left \in [Procs -> 0..MAXN]
  /\ killed \in [Procs -> {0, 1}] /\ quiet \subseteq Writers

\* The unread bytes, oldest first.
Length == (nwrite - nread) % UINTMOD
Contents == [k \in 1..Length |-> data[(nread + k - 1) % PIPESIZE]]

F == INSTANCE Fifo WITH q <- Contents, CAPACITY <- PIPESIZE

\* Bytes come out once, in the order in which they went in, and the buffer
\* never overflows, also when the counters have wrapped.
PipeIsFifo == F!FSpec

\* Nobody uses the pipe, or sleeps in it, once it has been freed.
FreedUnused == freed = 1 => open = {} /\ \A p \in Procs : pc[p] = "user"

\* Nobody sleeps for what has already happened: no writer although there is
\* room or the readers are gone, no reader at end of file.
NoStuckSleeper ==
  lock = NoProc => /\ \A p \in Writers : pc[p] = "w_asleep" => Full /\ readopen = 1
                   /\ \A p \in Readers : pc[p] = "r_asleep" => writeopen = 1

=============================================================================
