-------------------------------- MODULE Log --------------------------------
(***************************************************************************)
(* The write-ahead redo log of kernel/log.c, down to single block writes:  *)
(* FS system calls bracketed by begin_op/end_op, log_write with absorption *)
(* and pinning, group commit, and recovery at boot, with a crash possible  *)
(* between any two block writes and in the middle of one.                  *)
(*                                                                         *)
(* A critical section of log.lock is one action.  The buffer cache is seen *)
(* as the log sees it: a block is cached or not, a pinned or locked buffer *)
(* is not recycled (kernel/bio.c, modelled in Bcache).  Blocks of the log  *)
(* area are written through under their buffer lock, so only their disk    *)
(* contents are kept.  A write of a data block that a crash interrupts may *)
(* leave it Torn; the header fits one sector and is written atomically.    *)
(***************************************************************************)
EXTENDS Integers, Sequences, FiniteSets

CONSTANTS
  Procs,        \* processes that make FS system calls
  Blocks,       \* numbers of the blocks outside the log area
  Vals,         \* contents a block can be given
  InitVal,      \* contents mkfs leaves in every block
  NoVal,        \* "not in the buffer cache"
  Torn,         \* contents of a block whose write was cut by a crash
  MAXOPBLOCKS,  \* blocks begin_op reserves for an operation
  OPBLOCKS,     \* most distinct blocks one operation really writes
  LOGBLOCKS     \* capacity of the log

ASSUME LogAssumption ==
  /\ IsFiniteSet(Procs)
  /\ MAXOPBLOCKS \in Nat /\ OPBLOCKS \in Nat /\ LOGBLOCKS \in Nat
  /\ OPBLOCKS < MAXOPBLOCKS
  /\ InitVal \in Vals /\ NoVal \notin Vals /\ Torn \notin Vals /\ Torn # NoVal
  /\ NoVal \notin Blocks

VARIABLES
  home,         \* disk: contents of every block at its home location
  logblk,       \* disk: contents of the log's data blocks
  head,         \* disk: the header block, as the sequence of its n entries
  lh,           \* log.lh, the header in memory
  outstanding,  \* log.outstanding
  committing,   \* log.committing
  cache,        \* buffer contents of a cached block, NoVal otherwise
  pins,         \* how many references log_write holds on a block's buffer
  pc,           \* where each process is in begin_op ... end_op
  held,         \* the buffer a process has locked and modified
  wrote,        \* blocks the current operation of a process has logged
  tail,         \* loop index of write_log and install_trans
  phase,        \* progress of initlog at boot, "up" afterwards
  panic         \* "none", or the message of the call to panic()

disk == <<home, logblk, head>>
mem  == <<lh, outstanding, committing>>
bufs == <<cache, pins>>
op   == <<pc, held, wrote>>
vars == <<disk, mem, bufs, op, tail, phase, panic>>

OpStates     == {"op", "dirty"}
CommitStates == {"write_log", "write_head", "install", "erase", "done"}
PCStates     == {"out", "woken", "asleep"} \cup OpStates \cup CommitStates

Logged(h) == {h[i] : i \in 1..Len(h)}

Init ==
  /\ home = [b \in Blocks |-> InitVal]
  /\ logblk = [i \in 1..LOGBLOCKS |-> InitVal]
  /\ head = <<>>
  /\ lh = <<>> /\ outstanding = 0 /\ committing = 0
  /\ cache = [b \in Blocks |-> NoVal]
  /\ pins = [b \in Blocks |-> 0]
  /\ pc = [p \in Procs |-> "out"]
  /\ held = [p \in Procs |-> NoVal]
  /\ wrote = [p \in Procs |-> {}]
  /\ tail = 0 /\ phase = "read_head" /\ panic = "none"

----------------------------------------------------------------------------
\* Buffer cache, as far as the log depends on it.

Bread(b) == IF cache[b] # NoVal THEN cache[b] ELSE home[b]

InUse(b) == \E p \in Procs : held[p] = b

\* Some reader brings an uncached block into the cache.
Load(b) ==
  /\ phase = "up" /\ cache[b] = NoVal
  /\ cache' = [cache EXCEPT ![b] = home[b]]
  /\ UNCHANGED <<disk, mem, pins, op, tail, phase, panic>>

\* bget recycles the buffer of a block nobody references.
Recycle(b) ==
  /\ cache[b] # NoVal /\ pins[b] = 0 /\ ~InUse(b)
  /\ cache' = [cache EXCEPT ![b] = NoVal]
  /\ UNCHANGED <<disk, mem, pins, op, tail, phase, panic>>

----------------------------------------------------------------------------
\* begin_op, log_write, end_op.

Woken == [p \in Procs |-> IF pc[p] = "asleep" THEN "woken" ELSE pc[p]]

HasSpace_ForgetsItself == Len(lh) + outstanding * MAXOPBLOCKS <= LOGBLOCKS
HasSpace == Len(lh) + (outstanding + 1) * MAXOPBLOCKS <= LOGBLOCKS

MayBegin == committing = 0 /\ HasSpace

begin_op(p) ==
  /\ phase = "up" /\ pc[p] \in {"out", "woken"}
  /\ \/ /\ MayBegin
        /\ outstanding' = outstanding + 1
        /\ pc' = [pc EXCEPT ![p] = "op"]
        /\ wrote' = [wrote EXCEPT ![p] = {}]
     \/ /\ ~MayBegin
        /\ pc' = [pc EXCEPT ![p] = "asleep"]
        /\ UNCHANGED <<outstanding, wrote>>
  /\ UNCHANGED <<disk, lh, committing, bufs, held, tail, phase, panic>>

\* The caller breads a block, which locks its buffer, and modifies the data.
Modify(p, b, v) ==
  /\ pc[p] = "op" /\ ~InUse(b)
  /\ Cardinality(wrote[p] \cup {b}) <= OPBLOCKS
  /\ cache' = [cache EXCEPT ![b] = v]
  /\ pc' = [pc EXCEPT ![p] = "dirty"]
  /\ held' = [held EXCEPT ![p] = b]
  /\ UNCHANGED <<disk, mem, pins, wrote, tail, phase, panic>>

\* The header gains b, and the buffer a pin, unless b is logged already.
Record_NoPin(b) ==
  IF b \in Logged(lh) THEN UNCHANGED <<lh, pins>>
  ELSE lh' = Append(lh, b) /\ UNCHANGED pins
Record_NoAbsorption(b) ==
  lh' = Append(lh, b) /\ pins' = [pins EXCEPT ![b] = @ + 1]
Record(b) ==
  IF b \in Logged(lh) THEN UNCHANGED <<lh, pins>>
  ELSE lh' = Append(lh, b) /\ pins' = [pins EXCEPT ![b] = @ + 1]

\* log_write, and the brelse its callers do next.
log_write(p) ==
  /\ pc[p] = "dirty"
  /\ IF Len(lh) >= LOGBLOCKS \/ outstanding < 1
     THEN panic' = "log_write" /\ UNCHANGED <<lh, pins>>
     ELSE Record(held[p]) /\ UNCHANGED panic
  /\ pc' = [pc EXCEPT ![p] = "op"]
  /\ held' = [held EXCEPT ![p] = NoVal]
  /\ wrote' = [wrote EXCEPT ![p] = @ \cup {held[p]}]
  /\ UNCHANGED <<disk, outstanding, committing, cache, tail, phase>>

LastOp_Any == TRUE
LastOp == outstanding = 1

\* Up to the release of log.lock; the last operation goes on to commit().
end_op(p) ==
  /\ pc[p] = "op"
  /\ outstanding' = outstanding - 1
  /\ panic' = IF committing = 1 THEN "log.committing" ELSE panic
  /\ \/ /\ LastOp
        /\ committing' = 1
        /\ pc' = [pc EXCEPT ![p] = IF lh # <<>> THEN "write_log" ELSE "done"]
        /\ tail' = 0
     \/ /\ ~LastOp
        /\ pc' = [Woken EXCEPT ![p] = "out"]
        /\ UNCHANGED <<committing, tail>>
  /\ UNCHANGED <<disk, lh, bufs, held, wrote, phase>>

----------------------------------------------------------------------------
\* commit(), one block write per action.

\* The loop index of a pass over the log, and where the pass goes at its end.
Advance(p, from, to) ==
  /\ tail' = IF tail + 1 = Len(lh) THEN 0 ELSE tail + 1
  /\ pc' = [pc EXCEPT ![p] = IF tail + 1 = Len(lh) THEN to ELSE from]

write_log(p) ==
  /\ pc[p] = "write_log"
  /\ logblk' = [logblk EXCEPT ![tail + 1] = Bread(lh[tail + 1])]
  /\ Advance(p, "write_log", "write_head")
  /\ UNCHANGED <<home, head, mem, bufs, held, wrote, phase, panic>>

write_head(p) ==
  /\ pc[p] = "write_head"
  /\ head' = lh
  /\ pc' = [pc EXCEPT ![p] = "install"]
  /\ UNCHANGED <<home, logblk, mem, bufs, held, wrote, tail, phase, panic>>

\* One round of install_trans: log block to home location, through the cache.
Install(recovering) ==
  LET b == lh[tail + 1] IN
  /\ home' = [home EXCEPT ![b] = logblk[tail + 1]]
  /\ cache' = [cache EXCEPT ![b] = logblk[tail + 1]]
  /\ pins' = IF recovering THEN pins ELSE [pins EXCEPT ![b] = @ - 1]
  /\ UNCHANGED <<logblk, head, mem, held, wrote, panic>>

install_trans(p) ==
  /\ pc[p] = "install"
  /\ Install(FALSE)
  /\ Advance(p, "install", "erase")
  /\ UNCHANGED phase

\* log.lh.n = 0 and the second write_head.
erase(p) ==
  /\ pc[p] = "erase"
  /\ lh' = <<>> /\ head' = <<>>
  /\ pc' = [pc EXCEPT ![p] = "done"]
  /\ UNCHANGED <<home, logblk, outstanding, committing, bufs, held, wrote,
                 tail, phase, panic>>

\* The second critical section of end_op.
commit_done_CountsTwice(p) ==
  /\ pc[p] = "done"
  /\ committing' = 0 /\ outstanding' = outstanding - 1
  /\ pc' = [Woken EXCEPT ![p] = "out"]
  /\ UNCHANGED <<disk, lh, bufs, held, wrote, tail, phase, panic>>
commit_done(p) ==
  /\ pc[p] = "done"
  /\ committing' = 0
  /\ pc' = [Woken EXCEPT ![p] = "out"]
  /\ UNCHANGED <<disk, lh, outstanding, bufs, held, wrote, tail, phase, panic>>

----------------------------------------------------------------------------
\* Boot: initlog calls recover_from_log.

read_head ==
  /\ phase = "read_head"
  /\ lh' = head /\ tail' = 0
  /\ phase' = IF head = <<>> THEN "erase" ELSE "install"
  /\ UNCHANGED <<disk, outstanding, committing, bufs, op, panic>>

recover_install ==
  /\ phase = "install"
  /\ Install(TRUE)
  /\ tail' = IF tail + 1 = Len(lh) THEN 0 ELSE tail + 1
  /\ phase' = IF tail + 1 = Len(lh) THEN "erase" ELSE "install"
  /\ UNCHANGED pc

recover_erase ==
  /\ phase = "erase"
  /\ lh' = <<>> /\ head' = <<>> /\ phase' = "up"
  /\ UNCHANGED <<home, logblk, outstanding, committing, bufs, op, tail, panic>>

\* The data block being written when the power fails: in the log area, or at
\* its home location.
WritingLog  == \E p \in Procs : pc[p] = "write_log"
WritingHome == phase = "install" \/ \E p \in Procs : pc[p] = "install"

\* Memory is lost; the disk stays, but for a block write that was cut short.
Crash ==
  /\ \/ UNCHANGED <<home, logblk>>
     \/ /\ WritingLog
        /\ logblk' = [logblk EXCEPT ![tail + 1] = Torn] /\ UNCHANGED home
     \/ /\ WritingHome
        /\ home' = [home EXCEPT ![lh[tail + 1]] = Torn] /\ UNCHANGED logblk
  /\ lh' = <<>> /\ outstanding' = 0 /\ committing' = 0
  /\ cache' = [b \in Blocks |-> NoVal]
  /\ pins' = [b \in Blocks |-> 0]
  /\ pc' = [p \in Procs |-> "out"]
  /\ held' = [p \in Procs |-> NoVal]
  /\ wrote' = [p \in Procs |-> {}]
  /\ tail' = 0 /\ phase' = "read_head" /\ panic' = "none"
  /\ UNCHANGED head

Recovery == read_head \/ recover_install \/ recover_erase

commit(p) == \/ write_log(p) \/ write_head(p) \/ install_trans(p)
             \/ erase(p) \/ commit_done(p)

Next ==
  \/ /\ panic = "none"
     /\ \/ \E p \in Procs : begin_op(p) \/ log_write(p) \/ end_op(p) \/ commit(p)
        \/ \E p \in Procs, b \in Blocks, v \in Vals : Modify(p, b, v)
        \/ \E b \in Blocks : Load(b) \/ Recycle(b)
        \/ Recovery
  \/ Crash

Spec == Init /\ [][Next]_vars

\* Every FS system call makes finitely many writes and ends; the disk
\* completes every write; the scheduler runs whoever is runnable.
Fairness ==
  /\ \A p \in Procs : /\ WF_vars(log_write(p)) /\ SF_vars(end_op(p))
                      /\ WF_vars(commit(p))
                      /\ WF_vars(pc[p] = "woken" /\ begin_op(p))
  /\ WF_vars(Recovery)

FairSpec == Spec /\ Fairness

----------------------------------------------------------------------------
\* Properties.

\* The type of every variable.
TypeOK ==
  /\ home \in [Blocks -> Vals \cup {Torn}]
  /\ logblk \in [1..LOGBLOCKS -> Vals \cup {Torn}]
  /\ head \in Seq(Blocks) /\ lh \in Seq(Blocks)
  /\ Len(head) <= LOGBLOCKS /\ Len(lh) <= LOGBLOCKS
  /\ outstanding \in Nat /\ committing \in {0, 1}
  /\ cache \in [Blocks -> Vals \cup {NoVal, Torn}]
  /\ pins \in [Blocks -> Int]
  /\ pc \in [Procs -> PCStates]
  /\ held \in [Procs -> Blocks \cup {NoVal}]
  /\ wrote \in [Procs -> SUBSET Blocks]
  /\ tail \in 0..LOGBLOCKS
  /\ phase \in {"read_head", "install", "erase", "up"}
  /\ panic \in {"none", "log_write", "log.committing"}

\* What the disk holds once recovery has replayed the header's entries.
Durable ==
  [b \in Blocks |->
    IF b \in Logged(head)
    THEN logblk[CHOOSE i \in 1..Len(head) : head[i] = b] ELSE home[b]]

\* What bread returns; during recovery nobody reads yet.
Volatile == [b \in Blocks |-> IF phase = "up" THEN Bread(b) ELSE Durable[b]]

Active == {p \in Procs : pc[p] \in OpStates}

T == INSTANCE Transactions
       WITH durable <- Durable, volatile <- Volatile, active <- Active

\* Crash atomicity: whatever the interleaving of system calls, evictions,
\* commit, crashes and recovery (with crashes inside it), the disk after
\* recovery is the state of one moment at which no FS system call was active.
CrashAtomic == T!TSpec

\* No panic of log.c is reached: the space begin_op reserves is enough for
\* every log_write ("too big a transaction"), log_write is only called inside
\* a transaction, and end_op never finds a commit in progress.
NoPanic == panic = "none"

\* The comment at log.c:12: the log "only commits when there are no FS system
\* calls active"; and there is one committer, who holds log.committing.
CommitsAlone ==
  \A p \in Procs : pc[p] \in CommitStates =>
    /\ committing = 1 /\ outstanding = 0
    /\ \A q \in Procs \ {p} : pc[q] \in {"out", "woken", "asleep"}

\* The entries of lh whose buffers install_trans has yet to unpin.
Uninstalled ==
  LET done == IF \E p \in Procs : pc[p] = "install" THEN tail
              ELSE IF \E p \in Procs : pc[p] = "erase" THEN Len(lh) ELSE 0
  IN {lh[i] : i \in (done + 1)..Len(lh)}

\* Every logged block is pinned exactly once until it is installed, and no pin
\* outlives its transaction: bpin and bunpin are paired however writes were
\* absorbed, so that no buffer is lost to the cache.
PinsMatchLog ==
  phase = "up" => \A b \in Blocks : pins[b] = IF b \in Uninstalled THEN 1 ELSE 0

\* Log slots set aside by begin_op and not yet used: one element for every slot.
Reserved ==
  {r \in Procs \X (1..MAXOPBLOCKS) :
     r[1] \in Active /\ r[2] > Cardinality(wrote[r[1]])}

\* log.outstanding counts the active operations; nothing runs before recovery.
OpsCounted ==
  /\ outstanding = Cardinality(Active)
  /\ committing = 1 => \E p \in Procs : pc[p] \in CommitStates
  /\ phase # "up" => \A p \in Procs : pc[p] = "out"

\* A buffer is locked exactly between the modification and log_write.
HeldInv ==
  \A p \in Procs :
    /\ pc[p] = "dirty" => /\ held[p] \in Blocks
                         /\ Cardinality(wrote[p] \cup {held[p]}) <= OPBLOCKS
    /\ pc[p] # "dirty" => held[p] = NoVal

\* The loops of commit and recovery stay inside the log.
LoopInv ==
  (phase = "install" \/ \E p \in Procs : pc[p] \in {"write_log", "write_head", "install"})
    => tail < Len(lh)

\* What an active operation has logged is in lh.
WroteInv ==
  \A p \in Active : /\ IsFiniteSet(wrote[p]) /\ Cardinality(wrote[p]) <= OPBLOCKS
                    /\ wrote[p] \subseteq Logged(lh)

\* The blocks logged and the slots still reserved fit the log.
SpaceLeft == Len(lh) + Cardinality(Reserved) <= LOGBLOCKS

\* The inductive strengthening of NoPanic and CommitsAlone.
SpaceInv ==
  TypeOK /\ NoPanic /\ CommitsAlone /\ OpsCounted /\ HeldInv /\ LoopInv /\ WroteInv /\ SpaceLeft

=============================================================================
