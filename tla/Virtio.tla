------------------------------- MODULE Virtio -------------------------------
(***************************************************************************)
(* The virtio disk driver, kernel/virtio_disk.c: three-descriptor chains   *)
(* taken from a free list, the avail ring the driver fills, the used ring  *)
(* the device fills, and the interrupt handler that races with both.  The  *)
(* device serves requests in any order; the 16-bit ring indices wrap.      *)
(*                                                                         *)
(* A critical section of vdisk_lock is one action, except the handler's    *)
(* loop: the device goes on while the handler holds the lock.              *)
(***************************************************************************)
EXTENDS Integers, FiniteSets, FiniteSetsExt

CONSTANTS
  Procs,    \* processes, each with one buffer (struct buf)
  NUM,      \* descriptors
  RING,     \* entries of each ring; the driver has RING = NUM
  IDXMOD,   \* 2^16: avail->idx, used->idx and used_idx wrap there
  NoProc    \* no buffer

ASSUME VirtioAssumption ==
  /\ NUM \in Nat /\ IDXMOD \in Nat /\ NUM >= 3
  /\ RING \in Nat /\ RING * 3 + 2 >= NUM /\ IDXMOD % RING = 0 /\ IDXMOD > RING /\ NoProc \notin Procs

Desc == 0..(NUM - 1)

VARIABLES
  free,      \* disk.free: the free descriptors
  next,      \* desc[i].next, NUM when VRING_DESC_F_NEXT is not set
  info,      \* info[i].b
  status,    \* info[i].status: 255 until the device writes 0
  bdisk,     \* b->disk of every process's buffer
  avail, availidx,    \* the avail ring and avail->idx
  used, usedidx,      \* the used ring and used->idx
  used_idx,  \* disk.used_idx: how far the handler has looked
  devidx,    \* how far the device has looked in the avail ring
  inflight,  \* chains (their heads) the device is working on
  irq,       \* 1 while the device asks for an interrupt
  handler,   \* 1 while virtio_disk_intr holds vdisk_lock
  pc,        \* where each process is in virtio_disk_rw
  head,      \* its idx[0]
  served,    \* processes whose transfer the device has done
  panic      \* "none" or the message of panic()

ring == <<avail, availidx, used, usedidx, devidx, inflight, irq>>
drv  == <<free, next, info, status>>
vars == <<ring, drv, bdisk, used_idx, handler, pc, head, served, panic>>

Inc(x) == (x + 1) % IDXMOD

Init ==
  /\ free = Desc
  /\ next = [d \in Desc |-> NUM]
  /\ info = [d \in Desc |-> NoProc]
  /\ status = [d \in Desc |-> 0]
  /\ bdisk = [p \in Procs |-> 0]
  /\ avail = [k \in 0..(RING - 1) |-> 0] /\ availidx = 0
  /\ used = [k \in 0..(RING - 1) |-> 0] /\ usedidx = 0 /\ used_idx = 0
  /\ devidx = 0 /\ inflight = {} /\ irq = 0 /\ handler = 0
  /\ pc = [p \in Procs |-> "idle"]
  /\ head = [p \in Procs |-> NUM]
  /\ served = {} /\ panic = "none"

----------------------------------------------------------------------------
\* virtio_disk_rw

rw(p) ==
  /\ pc[p] = "idle"
  /\ pc' = [pc EXCEPT ![p] = "alloc"]
  /\ served' = served \ {p}
  /\ UNCHANGED <<ring, drv, bdisk, used_idx, handler, head, panic>>

\* pc after the wakeup(&disk.free[0]) of free_desc, p itself going on to l.
WokenForDesc(p, l) ==
  [q \in Procs |-> IF q = p THEN l ELSE IF pc[q] = "nodesc" THEN "alloc" ELSE pc[q]]

\* alloc3_desc has to give back what it got, waking the others, and p sleeps.
alloc_fails(p) ==
  /\ pc[p] = "alloc" /\ handler = 0 /\ Cardinality(free) < 3
  /\ pc' = IF free # {} THEN WokenForDesc(p, "nodesc") ELSE [pc EXCEPT ![p] = "nodesc"]
  /\ UNCHANGED <<ring, drv, bdisk, used_idx, handler, head, served, panic>>

alloc_desc(f) == Min(f)

Allocated(f, d0, d1, d2) == f \ {d0, d1, d2}

\* The lowest three free descriptors become the chain of p's request, whose
\* head is put in the avail ring.
submit(p) ==
  LET d0 == alloc_desc(free)
      d1 == alloc_desc(free \ {d0})
      d2 == alloc_desc(free \ {d0, d1})
  IN
  /\ pc[p] = "alloc" /\ handler = 0 /\ Cardinality(free) >= 3
  /\ free' = Allocated(free, d0, d1, d2)
  /\ next' = [next EXCEPT ![d0] = d1, ![d1] = d2, ![d2] = NUM]
  /\ status' = [status EXCEPT ![d0] = 255]
  /\ bdisk' = [bdisk EXCEPT ![p] = 1]
  /\ info' = [info EXCEPT ![d0] = p]
  /\ avail' = [avail EXCEPT ![availidx % RING] = d0]
  /\ availidx' = Inc(availidx)
  /\ head' = [head EXCEPT ![p] = d0]
  /\ pc' = [pc EXCEPT ![p] = "wait"]
  /\ UNCHANGED <<used, usedidx, devidx, inflight, irq, used_idx, handler, served, panic>>

\* The chain that starts at d, as free_chain and the device follow it.
Chain_HeadOnly(d) == {d}
Chain(d) == {d} \cup ({next[d], IF next[d] = NUM THEN NUM ELSE next[next[d]]} \ {NUM})

\* Awake again: sleep on, or free the chain and return.
finish_NoTest(p) ==
  LET c == Chain(head[p]) IN
  /\ pc[p] = "woken" /\ handler = 0
  /\ info' = [info EXCEPT ![head[p]] = NoProc]
  /\ free' = free \cup c
  /\ next' = [d \in Desc |-> IF d \in c THEN NUM ELSE next[d]]
  /\ panic' = IF c \cap free # {} THEN "free_desc 2" ELSE panic
  /\ pc' = WokenForDesc(p, "idle")
  /\ head' = [head EXCEPT ![p] = NUM]
  /\ UNCHANGED <<ring, status, bdisk, used_idx, handler, served>>
finish(p) ==
  LET c == Chain(head[p]) IN
  /\ pc[p] = "woken" /\ handler = 0
  /\ IF bdisk[p] = 1
     THEN pc' = [pc EXCEPT ![p] = "wait"] /\ UNCHANGED <<free, next, info, head, panic>>
     ELSE /\ info' = [info EXCEPT ![head[p]] = NoProc]
          /\ free' = free \cup c
          /\ next' = [d \in Desc |-> IF d \in c THEN NUM ELSE next[d]]
          /\ panic' = IF c \cap free # {} THEN "free_desc 2" ELSE panic
          /\ pc' = WokenForDesc(p, "idle")
          /\ head' = [head EXCEPT ![p] = NUM]
  /\ UNCHANGED <<ring, status, bdisk, used_idx, handler, served>>

\* kkill makes a sleeper runnable although nothing has happened.
kick(p) ==
  /\ pc[p] \in {"wait", "nodesc"}
  /\ pc' = [pc EXCEPT ![p] = IF @ = "wait" THEN "woken" ELSE "alloc"]
  /\ UNCHANGED <<ring, drv, bdisk, used_idx, handler, head, served, panic>>

----------------------------------------------------------------------------
\* The device.

dev_take ==
  /\ devidx # availidx
  /\ inflight' = inflight \cup {avail[devidx % RING]}
  /\ devidx' = Inc(devidx)
  /\ UNCHANGED <<avail, availidx, used, usedidx, irq, drv, bdisk, used_idx, handler,
                 pc, head, served, panic>>

dev_complete(d) ==
  /\ d \in inflight
  /\ inflight' = inflight \ {d}
  /\ status' = [status EXCEPT ![d] = 0]
  /\ served' = served \cup {info[d]}
  /\ used' = [used EXCEPT ![usedidx % RING] = d]
  /\ usedidx' = Inc(usedidx)
  /\ irq' = 1
  /\ UNCHANGED <<avail, availidx, devidx, free, next, info, bdisk, used_idx, handler,
                 pc, head, panic>>

----------------------------------------------------------------------------
\* virtio_disk_intr: acknowledge, then loop over the used ring.

intr_ack ==
  /\ irq = 1 /\ handler = 0
  /\ handler' = 1 /\ irq' = 0
  /\ UNCHANGED <<avail, availidx, used, usedidx, devidx, inflight, drv, bdisk, used_idx,
                 pc, head, served, panic>>

intr_entry ==
  LET d == used[used_idx % RING] IN
  /\ handler = 1 /\ used_idx # usedidx
  /\ IF status[d] # 0
     THEN panic' = "virtio_disk_intr status" /\ UNCHANGED <<bdisk, pc, used_idx>>
     ELSE /\ bdisk' = [bdisk EXCEPT ![info[d]] = 0]
          /\ pc' = [pc EXCEPT ![info[d]] = IF @ = "wait" THEN "woken" ELSE @]
          /\ used_idx' = Inc(used_idx)
          /\ UNCHANGED panic
  /\ UNCHANGED <<ring, drv, handler, head, served>>

intr_end_OneEntry ==
  /\ handler = 1
  /\ handler' = 0
  /\ UNCHANGED <<ring, drv, bdisk, used_idx, pc, head, served, panic>>
intr_end ==
  /\ handler = 1 /\ used_idx = usedidx
  /\ handler' = 0
  /\ UNCHANGED <<ring, drv, bdisk, used_idx, pc, head, served, panic>>

virtio_disk_intr == intr_ack \/ intr_entry \/ intr_end

virtio_disk_rw(p) == alloc_fails(p) \/ submit(p) \/ finish(p)

Next ==
  /\ panic = "none"
  /\ \/ \E p \in Procs : rw(p) \/ virtio_disk_rw(p) \/ kick(p)
     \/ dev_take \/ \E d \in Desc : dev_complete(d)
     \/ virtio_disk_intr

Spec == Init /\ [][Next]_vars

\* The device serves every request, the interrupt is taken, processes run and
\* get the lock.
Fairness ==
  /\ WF_vars(dev_take) /\ \A d \in Desc : WF_vars(dev_complete(d))
  /\ SF_vars(virtio_disk_intr)
  /\ \A p \in Procs : SF_vars(virtio_disk_rw(p))

FairSpec == Spec /\ Fairness

----------------------------------------------------------------------------
\* Properties.

Busy(p) == pc[p] \in {"wait", "woken"}

\* The type of every variable.
TypeOK ==
  /\ free \subseteq Desc /\ next \in [Desc -> 0..NUM]
  /\ info \in [Desc -> Procs \cup {NoProc}] /\ status \in [Desc -> {0, 255}]
  /\ bdisk \in [Procs -> {0, 1}]
  /\ avail \in [0..(RING - 1) -> Desc] /\ used \in [0..(RING - 1) -> Desc]
  /\ {availidx, usedidx, used_idx, devidx} \subseteq 0..(IDXMOD - 1)
  /\ inflight \subseteq Desc /\ irq \in {0, 1} /\ handler \in {0, 1}
  /\ pc \in [Procs -> {"idle", "alloc", "nodesc", "wait", "woken"}]
  /\ head \in [Procs -> 0..NUM] /\ served \subseteq Procs
  /\ panic \in {"none", "free_desc 2", "virtio_disk_intr status"}

\* Descriptors are neither leaked nor shared: the free ones and the chains of
\* the requests in progress partition the table.
DescriptorsPartitioned ==
  /\ \A p, q \in Procs : Busy(p) /\ Busy(q) /\ p # q => Chain(head[p]) \cap Chain(head[q]) = {}
  /\ free = Desc \ UNION {Chain(head[p]) : p \in {q \in Procs : Busy(q)}}
  /\ \A p \in Procs : Busy(p) => Cardinality(Chain(head[p])) = 3

\* The device never works on a chain the driver has freed or given to another
\* request, and no ring entry is overwritten before it has been read.
DeviceSeesOwnRequest ==
  LET posted == {avail[((devidx + k) % IDXMOD) % RING] : k \in 0..(((availidx - devidx) % IDXMOD) - 1)}
      done == {used[((used_idx + k) % IDXMOD) % RING] : k \in 0..(((usedidx - used_idx) % IDXMOD) - 1)}
  IN /\ posted \cup inflight \cup done = {head[p] : p \in {q \in Procs : bdisk[q] = 1}}
     /\ \A d \in posted \cup inflight \cup done : info[d] \in Procs /\ head[info[d]] = d

\* virtio_disk_rw returns only after the device has done the transfer, also when
\* the process was woken early and chains complete out of order.
ReturnMeansServed ==
  [][\A p \in Procs : (pc[p] = "woken" /\ pc'[p] = "idle") => p \in served]_vars

\* Every submitted request returns.
RequestReturns == \A p \in Procs : (pc[p] = "wait") ~> (pc[p] = "idle")
=============================================================================
