------------------------------- MODULE Bcache -------------------------------
(***************************************************************************)
(* The buffer cache of kernel/bio.c with the sleep-locks of                *)
(* kernel/sleeplock.c: NBUF buffers on a list ordered by last use, a       *)
(* reference count guarded by bcache.lock and contents guarded by the      *)
(* buffer's sleep-lock.  A critical section of a spin lock is one action;  *)
(* everything between two of them interleaves with the other processes.    *)
(*                                                                         *)
(* Callers keep to what the file system does: a process uses one block at  *)
(* a time and, having modified it, writes it or pins it in the log         *)
(* (log_write) before brelse; the log writes a pinned block before bunpin. *)
(***************************************************************************)
EXTENDS Integers, FiniteSets, SequencesExt

CONSTANTS
  Procs,    \* processes
  Blocks,   \* block numbers
  Vals,     \* block contents
  InitVal,  \* initial contents of the disk
  None,     \* no process, no block
  NBUF,     \* number of buffers
  MAXPINS   \* how many buffers the log keeps pinned at most

ASSUME BcacheAssumption ==
  /\ NBUF \in Nat /\ MAXPINS \in Nat /\ IsFiniteSet(Procs)
  /\ InitVal \in Vals /\ None \notin Procs \cup Blocks \cup Vals

Bufs == 1..NBUF

VARIABLES
  disk,     \* block contents on the disk
  blockno,  \* b->blockno, None for a buffer never used
  valid,    \* b->valid
  refcnt,   \* b->refcnt
  data,     \* b->data
  holder,   \* the process that holds b->lock, or None
  list,     \* the buffers from bcache.head.next to bcache.head.prev
  pc,       \* where each process is
  buf,      \* the buffer a process uses (0: none)
  dirty,    \* buffers modified and neither written nor pinned since
  pinned,   \* buffers the log has pinned
  panic     \* "none" or the message of panic()

contents == <<disk, data, dirty, valid>>
ids == <<blockno, pinned>>
vars == <<contents, ids, refcnt, holder, list, pc, buf, panic>>

\* binit.  Buffer i+1 is put in front of buffer i.
Init ==
  /\ disk = [b \in Blocks |-> InitVal]
  /\ blockno = [i \in Bufs |-> None]
  /\ valid = [i \in Bufs |-> 0]
  /\ refcnt = [i \in Bufs |-> 0]
  /\ data = [i \in Bufs |-> InitVal]
  /\ holder = [i \in Bufs |-> None]
  /\ list = [i \in Bufs |-> NBUF + 1 - i]
  /\ pc = [p \in Procs |-> "out"]
  /\ buf = [p \in Procs |-> 0]
  /\ dirty = {} /\ pinned = {} /\ panic = "none"

----------------------------------------------------------------------------
\* Finding a buffer, under bcache.lock.

\* bget finds the block in buffer i.
hit(p, i) ==
  /\ refcnt' = [refcnt EXCEPT ![i] = @ + 1]
  /\ buf' = [buf EXCEPT ![p] = i]
  /\ pc' = [pc EXCEPT ![p] = "want"]
  /\ UNCHANGED <<ids, valid, panic>>

\* The unreferenced buffers, and the one the backward scan meets first.
Free == {i \in Bufs : refcnt[i] = 0}
Victim == list[CHOOSE k \in 1..NBUF :
                 list[k] \in Free /\ \A l \in (k + 1)..NBUF : list[l] \notin Free]

\* bget reuses buffer i for block b.
recycle_KeepsValid(p, b, i) ==
  /\ blockno' = [blockno EXCEPT ![i] = b]
  /\ refcnt' = [refcnt EXCEPT ![i] = 1]
  /\ buf' = [buf EXCEPT ![p] = i]
  /\ pc' = [pc EXCEPT ![p] = "want"]
  /\ UNCHANGED <<valid, pinned, panic>>
recycle(p, b, i) ==
  /\ blockno' = [blockno EXCEPT ![i] = b]
  /\ valid' = [valid EXCEPT ![i] = 0]
  /\ refcnt' = [refcnt EXCEPT ![i] = 1]
  /\ buf' = [buf EXCEPT ![p] = i]
  /\ pc' = [pc EXCEPT ![p] = "want"]
  /\ UNCHANGED <<pinned, panic>>

bget_Rescan(p, b) ==
  /\ pc[p] = "out" /\ Free # {} /\ recycle(p, b, Victim)
  /\ UNCHANGED <<disk, data, dirty, holder, list>>
bget(p, b) ==
  /\ pc[p] = "out"
  /\ \/ \E i \in Bufs : blockno[i] = b /\ hit(p, i)
     \/ /\ \A i \in Bufs : blockno[i] # b
        /\ IF Free # {} THEN recycle(p, b, Victim)
           ELSE panic' = "bget: no buffers" /\ UNCHANGED <<ids, valid, refcnt, buf, pc>>
  /\ UNCHANGED <<disk, data, dirty, holder, list>>

----------------------------------------------------------------------------
\* The sleep-lock of the buffer, and bread's use of it.

\* acquiresleep by a process that is running: it takes the lock, or sleeps.
\* bread then returns a valid buffer and reads the others from the disk.
acquiresleep(p) ==
  LET i == buf[p] IN
  /\ pc[p] = "want"
  /\ \/ /\ holder[i] = None
        /\ holder' = [holder EXCEPT ![i] = p]
        /\ pc' = [pc EXCEPT ![p] = IF valid[i] = 1 THEN "have" ELSE "reading"]
     \/ /\ holder[i] # None
        /\ pc' = [pc EXCEPT ![p] = "asleep"]
        /\ UNCHANGED holder
  /\ UNCHANGED <<contents, ids, refcnt, list, buf, panic>>

\* The disk completes the read of bread.
read_done(p) ==
  LET i == buf[p] IN
  /\ pc[p] = "reading"
  /\ data' = [data EXCEPT ![i] = disk[blockno[i]]]
  /\ valid' = [valid EXCEPT ![i] = 1]
  /\ pc' = [pc EXCEPT ![p] = "have"]
  /\ UNCHANGED <<disk, dirty, ids, refcnt, holder, list, buf, panic>>

\* The caller changes b->data.
modify(p, v) ==
  /\ pc[p] = "have"
  /\ data' = [data EXCEPT ![buf[p]] = v]
  /\ dirty' = dirty \cup {buf[p]}
  /\ UNCHANGED <<disk, valid, ids, refcnt, holder, list, pc, buf, panic>>

\* bwrite up to the wait for the disk.
bwrite(p) ==
  /\ pc[p] = "have"
  /\ IF holder[buf[p]] = p
     THEN pc' = [pc EXCEPT ![p] = "writing"] /\ UNCHANGED panic
     ELSE panic' = "bwrite" /\ UNCHANGED pc
  /\ UNCHANGED <<contents, ids, refcnt, holder, list, buf>>

write_done(p) ==
  LET i == buf[p] IN
  /\ pc[p] = "writing"
  /\ disk' = [disk EXCEPT ![blockno[i]] = data[i]]
  /\ dirty' = dirty \ {i}
  /\ pc' = [pc EXCEPT ![p] = "have"]
  /\ UNCHANGED <<data, valid, ids, refcnt, holder, list, buf, panic>>

Woken(i) == [p \in Procs |-> IF pc[p] = "asleep" /\ buf[p] = i THEN "want" ELSE pc[p]]

\* brelse: releasesleep first ...
releasesleep(p) ==
  LET i == buf[p] IN
  /\ pc[p] = "have"
  /\ i \in dirty => i \in pinned
  /\ IF holder[i] = p
     THEN /\ holder' = [holder EXCEPT ![i] = None]
          /\ pc' = [Woken(i) EXCEPT ![p] = "rel"]
          /\ UNCHANGED panic
     ELSE panic' = "brelse" /\ UNCHANGED <<holder, pc>>
  /\ UNCHANGED <<contents, ids, refcnt, list, buf>>

\* ... then, under bcache.lock, the reference; an unused buffer becomes the
\* most recently used one.
ToFront(i) == <<i>> \o SelectSeq(list, LAMBDA j : j # i)

brelse_ForgetsRef(p) ==
  /\ pc[p] = "rel"
  /\ list' = ToFront(buf[p])
  /\ pc' = [pc EXCEPT ![p] = "out"]
  /\ buf' = [buf EXCEPT ![p] = 0]
  /\ UNCHANGED <<contents, ids, refcnt, holder, panic>>
brelse(p) ==
  LET i == buf[p] IN
  /\ pc[p] = "rel"
  /\ refcnt' = [refcnt EXCEPT ![i] = @ - 1]
  /\ list' = IF refcnt[i] = 1 THEN ToFront(i) ELSE list
  /\ pc' = [pc EXCEPT ![p] = "out"]
  /\ buf' = [buf EXCEPT ![p] = 0]
  /\ UNCHANGED <<contents, ids, holder, panic>>

----------------------------------------------------------------------------
\* References kept by the log.

\* log_write pins the buffer it is handed, once per transaction.
bpin(p) ==
  LET i == buf[p] IN
  /\ pc[p] = "have" /\ i \in dirty \ pinned
  /\ Cardinality(pinned) < MAXPINS
  /\ pinned' = pinned \cup {i}
  /\ refcnt' = [refcnt EXCEPT ![i] = @ + 1]
  /\ UNCHANGED <<contents, blockno, holder, list, pc, buf, panic>>

\* install_trans writes the block and unpins it before brelse.
bunpin(p) ==
  LET i == buf[p] IN
  /\ pc[p] = "have" /\ i \in pinned \ dirty
  /\ pinned' = pinned \ {i}
  /\ refcnt' = [refcnt EXCEPT ![i] = @ - 1]
  /\ UNCHANGED <<contents, blockno, holder, list, pc, buf, panic>>

Step(p) ==
  \/ acquiresleep(p) \/ read_done(p) \/ bwrite(p) \/ write_done(p)
  \/ releasesleep(p) \/ brelse(p) \/ bpin(p) \/ bunpin(p)

Next ==
  /\ panic = "none"
  /\ \E p \in Procs :
       \/ \E b \in Blocks : bget(p, b)
       \/ \E v \in Vals : modify(p, v)
       \/ Step(p)

Spec == Init /\ [][Next]_vars

----------------------------------------------------------------------------
\* Properties.

\* The type of every variable; the list of bio.c always links every buffer once.
TypeOK ==
  /\ disk \in [Blocks -> Vals] /\ data \in [Bufs -> Vals]
  /\ blockno \in [Bufs -> Blocks \cup {None}]
  /\ valid \in [Bufs -> {0, 1}] /\ refcnt \in [Bufs -> Nat]
  /\ holder \in [Bufs -> Procs \cup {None}]
  /\ list \in [Bufs -> Bufs] /\ ToSet(list) = Bufs
  /\ pc \in [Procs -> {"out", "want", "asleep", "reading", "have", "writing", "rel"}]
  /\ buf \in [Procs -> 0..NBUF]
  /\ dirty \subseteq Bufs /\ pinned \subseteq Bufs
  /\ panic \in {"none", "bget: no buffers", "bwrite", "brelse"}

\* At most one buffer holds a given block, even when two processes miss on it
\* at once (bget scans and recycles under one hold of bcache.lock).
OneBufferPerBlock ==
  \A i, j \in Bufs : blockno[i] = blockno[j] /\ blockno[i] # None => i = j

\* bget never runs out of buffers, and bwrite and brelse are called by the
\* holder of the lock, as long as there are more buffers than pins and users.
NoPanic == panic = "none"

\* What processes see through the buffers: the contents of each block, who
\* uses it, and what each user sees.
Current == [b \in Blocks |->
  IF \E i \in Bufs : blockno[i] = b /\ valid[i] = 1
  THEN data[CHOOSE i \in Bufs : blockno[i] = b] ELSE disk[b]]
Using == {p \in Procs : pc[p] \in {"have", "writing"}}
Owner == [b \in Blocks |->
  IF \E p \in Using : blockno[buf[p]] = b
  THEN CHOOSE p \in Using : blockno[buf[p]] = b ELSE None]
Seen == [p \in Procs |-> IF p \in Using THEN data[buf[p]] ELSE None]

BS == INSTANCE BlockStore WITH store <- Current, owner <- Owner, seen <- Seen

\* The cache implements the block store: exclusive use of a block and no write
\* ever lost, whatever is evicted, re-read, pinned or waited for.
CacheIsStore == BS!BSpec

=============================================================================
