------------------------------- MODULE UserMem -------------------------------
(***************************************************************************)
(* Physical pages and user address spaces: kalloc.c, the three-level page  *)
(* tables of vm.c, and their users sbrk, fork, exec and wait.  Memory runs *)
(* out at every point; each failure path has to give back exactly what was *)
(* taken.                                                                  *)
(*                                                                         *)
(* A page table page has 2 entries instead of 512, so that an address      *)
(* space has 8 pages and three levels; a page has 2 bytes, so that sizes   *)
(* need not be page-aligned.  A loop that allocates takes one step per     *)
(* page, and other processes allocate and free in between.                 *)
(***************************************************************************)
EXTENDS Integers, FiniteSets, FiniteSetsExt

CONSTANTS
  NPROC,      \* slots of the process table; slot 1 is init
  NPAGES,     \* physical pages managed by kalloc
  Growth,     \* positive arguments of sbrk, in bytes
  Shrink,     \* negative ones, without their sign
  Images,     \* sizes of executables, in bytes
  USERSTACK,  \* pages of a user stack
  KINFOS      \* bound: calls of kinfo

ASSUME UserMemAssumption ==
  /\ NPROC \in Nat /\ NPROC >= 1 /\ NPAGES \in Nat /\ NPAGES >= 7
  /\ Growth \subseteq Nat /\ Shrink \subseteq Nat /\ Images \subseteq 1..6 /\ USERSTACK \in 1..2 /\ KINFOS \in Nat

PGSIZE     == 2
VA         == 0..7            \* page numbers below MAXVA
TRAMPOLINE == 7
TRAPFRAME  == 6
Procs      == 1..NPROC
Nodes      == {<<1, 0>>, <<1, 1>>} \cup ({0} \X (0..3))   \* inner tables: level, index

\* A page table: its root page, inner pages and leaf PTEs, each 1 if it is there.
\* Physical pages are interchangeable: a pointer that is not null owns one.
NoTable == [root |-> 0, node |-> [n \in Nodes |-> 0], leaf |-> [v \in VA |-> 0]]

VARIABLES
  free,       \* the length of kmem.freelist
  pt,         \* p->pagetable
  new,        \* the page table kexec is building
  sz,         \* p->sz
  trapframe,  \* p->trapframe
  pc,         \* where the process is
  child,      \* the slot kfork is filling
  a, from, to,  \* uvmalloc's and uvmcopy's loop: position, start, end
  leaked,     \* how many pages had their only pointer dropped
  panic       \* "none" or the message of panic()

loop == <<child, a, from, to>>
vars == <<free, pt, new, sz, trapframe, pc, loop, leaked, panic>>

PGROUNDUP(n) == ((n + PGSIZE - 1) \div PGSIZE) * PGSIZE

----------------------------------------------------------------------------
\* Operations on a memory m = [free, t]: the free pages and one page table.
\* "ok" tells success, "panic" a panic.

\* The inner tables on the way to page v, top down.
Path(v) == <<<<1, v \div 4>>, <<0, v \div 2>>>>

kalloc(m) == IF m.free = 0 THEN [m EXCEPT !.ok = FALSE] ELSE [m EXCEPT !.free = @ - 1]
kfree(m, n) == [m EXCEPT !.free = @ + n]

\* One level of walk(pagetable, v, 1).
walk_level(m, n) ==
  IF ~m.ok \/ m.t.node[n] = 1 \/ m.free = 0
  THEN [m EXCEPT !.ok = @ /\ m.t.node[n] = 1]
  ELSE [kalloc(m) EXCEPT !.t.node[n] = 1]

walk(m, v) == walk_level(walk_level(m, Path(v)[1]), Path(v)[2])

\* mappages of one page; inner tables that walk has added stay on failure.
mappages(m, v) ==
  LET w == walk(m, v) IN
  IF ~w.ok THEN w
  ELSE IF w.t.leaf[v] = 1 THEN [w EXCEPT !.panic = "mappages: remap"]
  ELSE [w EXCEPT !.t.leaf[v] = 1]

\* uvmunmap of pages first..last with do_free.
uvmunmap(m, first, last) ==
  [m EXCEPT !.free = @ + Cardinality({v \in first..last : m.t.leaf[v] = 1}),
            !.t.leaf = [v \in VA |-> IF v \in first..last THEN 0 ELSE @[v]]]

uvmdealloc(m, oldsz, newsz) ==
  IF newsz >= oldsz THEN m
  ELSE uvmunmap(m, PGROUNDUP(newsz) \div PGSIZE, PGROUNDUP(oldsz) \div PGSIZE - 1)

\* freewalk: every leaf must be gone; the table pages go back.
freewalk(m) ==
  IF \E v \in VA : m.t.leaf[v] = 1 THEN [m EXCEPT !.panic = "freewalk: leaf"]
  ELSE [m EXCEPT !.free = @ + m.t.root + Cardinality({n \in Nodes : m.t.node[n] = 1}),
                 !.t = NoTable]

uvmfree(m, size) == freewalk(uvmunmap(m, 0, PGROUNDUP(size) \div PGSIZE - 1))

\* proc_freepagetable: trampoline and trapframe are unmapped, not freed.
proc_freepagetable(m, size) ==
  uvmfree([m EXCEPT !.t.leaf[TRAMPOLINE] = 0, !.t.leaf[TRAPFRAME] = 0], size)

\* proc_pagetable: a root, then the two high pages.  The trapframe's tables
\* exist once the trampoline is mapped.
proc_pagetable(m) ==
  IF ~m.ok \/ m.free = 0 THEN [m EXCEPT !.ok = FALSE]
  ELSE LET r == [kalloc(m) EXCEPT !.t = [NoTable EXCEPT !.root = 1]]
           x == mappages(r, TRAMPOLINE)
           y == mappages(x, TRAPFRAME)
       IN IF ~x.ok THEN uvmfree(x, 0)
          ELSE IF ~y.ok THEN uvmfree([y EXCEPT !.t.leaf[TRAMPOLINE] = 0], 0) ELSE y

\* One turn of the loops of uvmalloc and uvmcopy: a page for v.
NewPage_Leak(m, v) ==
  IF m.free = 0 THEN kalloc(m) ELSE mappages(kalloc(m), v)
NewPage(m, v) ==
  IF m.free = 0 THEN kalloc(m)
  ELSE LET x == mappages(kalloc(m), v) IN IF x.ok THEN x ELSE kfree(x, 1)

Mem(table) == [free |-> free, t |-> table, ok |-> TRUE, panic |-> "none"]

----------------------------------------------------------------------------
\* After boot only init is there, with its code, its guard page and its stack.
Init ==
  LET m == [free |-> NPAGES - 1, t |-> NoTable, ok |-> TRUE, panic |-> "none"]
      i == NewPage(NewPage(NewPage(proc_pagetable(m), 0), 1), 2)
  IN
  /\ free = i.free
  /\ pt = [p \in Procs |-> IF p = 1 THEN i.t ELSE NoTable]
  /\ new = [p \in Procs |-> NoTable]
  /\ sz = [p \in Procs |-> IF p = 1 THEN 3 * PGSIZE ELSE 0]
  /\ trapframe = [p \in Procs |-> IF p = 1 THEN 1 ELSE 0]
  /\ pc = [p \in Procs |-> IF p = 1 THEN "user" ELSE "unused"]
  /\ child = [p \in Procs |-> 0]
  /\ a = [p \in Procs |-> 0] /\ from = [p \in Procs |-> 0] /\ to = [p \in Procs |-> 0]
  /\ leaked = 0 /\ panic = "none"

\* The loop of p runs from byte "first" to byte "last", or is over.
Loop(p, first, last) ==
  /\ a' = [a EXCEPT ![p] = first] /\ from' = [from EXCEPT ![p] = first]
  /\ to' = [to EXCEPT ![p] = last]
NoLoop(p) == Loop(p, 0, 0)
Advance(p) == a' = [a EXCEPT ![p] = @ + PGSIZE] /\ UNCHANGED <<from, to>>

GoTo(p, l) == pc' = [pc EXCEPT ![p] = l]
Returns(m) == free' = m.free /\ panic' = m.panic

\* sbrk: growproc up to uvmalloc's loop, or all of a shrink.  A size that
\* would wrap below zero is no shrink.
growproc(p, n) ==
  /\ pc[p] = "user"
  /\ \/ /\ n > 0 /\ sz[p] + n <= TRAPFRAME * PGSIZE
        /\ GoTo(p, "grow") /\ Loop(p, PGROUNDUP(sz[p]), sz[p] + n)
        /\ UNCHANGED <<free, pt, sz, panic>>
     \/ /\ n < 0 /\ sz[p] + n >= 0
        /\ LET m == uvmdealloc(Mem(pt[p]), sz[p], sz[p] + n)
           IN Returns(m) /\ pt' = [pt EXCEPT ![p] = m.t]
        /\ sz' = [sz EXCEPT ![p] = @ + n]
        /\ UNCHANGED <<pc, a, from, to>>
  /\ UNCHANGED <<new, trapframe, child, leaked>>

\* One turn of uvmalloc for growproc; on failure what it added is freed.
uvmalloc_grow(p) ==
  LET m == NewPage(Mem(pt[p]), a[p] \div PGSIZE)
      x == IF m.ok THEN m ELSE uvmdealloc(m, a[p], from[p])
  IN
  /\ pc[p] = "grow"
  /\ \/ /\ a[p] >= to[p]
        /\ sz' = [sz EXCEPT ![p] = to[p]]
        /\ GoTo(p, "user") /\ NoLoop(p)
        /\ UNCHANGED <<free, pt, panic>>
     \/ /\ a[p] < to[p]
        /\ Returns(x) /\ pt' = [pt EXCEPT ![p] = x.t]
        /\ IF m.ok THEN Advance(p) /\ UNCHANGED pc ELSE GoTo(p, "user") /\ NoLoop(p)
        /\ UNCHANGED sz
  /\ UNCHANGED <<new, trapframe, child, leaked>>

----------------------------------------------------------------------------
\* fork

\* allocproc: the first unused slot gets a trapframe and a page table.
kfork(p) ==
  LET unused == {c \in Procs : pc[c] = "unused"}
      c == Min(unused)
      m == proc_pagetable(kalloc(Mem(NoTable)))
  IN
  /\ pc[p] = "user" /\ unused # {} /\ m.ok
  /\ Returns(m)
  /\ pt' = [pt EXCEPT ![c] = m.t]
  /\ trapframe' = [trapframe EXCEPT ![c] = 1]
  /\ pc' = [pc EXCEPT ![p] = "copy", ![c] = "used"]
  /\ child' = [child EXCEPT ![p] = c]
  /\ Loop(p, 0, sz[p])
  /\ UNCHANGED <<new, sz, leaked>>

\* allocproc without a page for the trapframe or for the page table gives
\* back what it took.
kfork_fails(p) ==
  LET m == proc_pagetable(kalloc(Mem(NoTable))) IN
  /\ pc[p] = "user" /\ \E c \in Procs : pc[c] = "unused"
  /\ free > 0 /\ ~m.ok
  /\ Returns(kfree(m, 1))
  /\ UNCHANGED <<pt, new, sz, trapframe, pc, loop, leaked>>

\* uvmcopy's cleanup after it failed for page v.
uvmcopy_err_OneShort(m, v) == uvmunmap(m, 0, v - 2)
uvmcopy_err(m, v) == uvmunmap(m, 0, v - 1)

\* One turn of uvmcopy, and what kfork does when it is over.
uvmcopy(p) ==
  LET c == child[p]
      v == a[p] \div PGSIZE
      m == IF pt[p].leaf[v] = 0 THEN Mem(pt[c]) ELSE NewPage(Mem(pt[c]), v)
      x == proc_freepagetable(uvmcopy_err(m, v), 0)
  IN
  /\ pc[p] = "copy"
  /\ \/ /\ a[p] >= to[p]
        /\ sz' = [sz EXCEPT ![c] = sz[p]]
        /\ pc' = [pc EXCEPT ![p] = "user", ![c] = "user"]
        /\ child' = [child EXCEPT ![p] = 0] /\ NoLoop(p)
        /\ UNCHANGED <<free, pt, trapframe, panic>>
     \/ /\ a[p] < to[p] /\ m.ok
        /\ Returns(m) /\ pt' = [pt EXCEPT ![c] = m.t] /\ Advance(p)
        /\ UNCHANGED <<sz, trapframe, pc, child>>
     \/ /\ a[p] < to[p] /\ ~m.ok
        /\ Returns(kfree(x, trapframe[c]))
        /\ pt' = [pt EXCEPT ![c] = x.t]
        /\ trapframe' = [trapframe EXCEPT ![c] = 0]
        /\ pc' = [pc EXCEPT ![p] = "user", ![c] = "unused"]
        /\ child' = [child EXCEPT ![p] = 0] /\ NoLoop(p)
        /\ UNCHANGED sz
  /\ UNCHANGED <<new, leaked>>

----------------------------------------------------------------------------
\* exec

\* The label bad: the new image of "size" bytes is dropped.
bad(p, m, size) ==
  LET x == proc_freepagetable(m, size)
  IN Returns(x) /\ new' = [new EXCEPT ![p] = x.t] /\ GoTo(p, "user") /\ NoLoop(p)

\* kexec up to uvmalloc for its segment of n bytes.
kexec(p, n) ==
  LET m == proc_pagetable(Mem(NoTable)) IN
  /\ pc[p] = "user"
  /\ Returns(m)
  /\ new' = [new EXCEPT ![p] = m.t]
  /\ IF m.ok THEN GoTo(p, "segment") /\ Loop(p, 0, n) ELSE UNCHANGED <<pc, a, from, to>>
  /\ UNCHANGED <<pt, sz, trapframe, child, leaked>>

\* One turn of uvmalloc for the segment or for the guard page and the stack.
\* When uvmalloc fails, kexec's sz is where the loop began.
uvmalloc_exec(p) ==
  LET m == NewPage(Mem(new[p]), a[p] \div PGSIZE) IN
  /\ pc[p] \in {"segment", "stack"}
  /\ \/ /\ a[p] >= to[p]
        /\ GoTo(p, IF pc[p] = "segment" THEN "load" ELSE "args")
        /\ UNCHANGED <<free, new, panic, a, from, to>>
     \/ /\ a[p] < to[p] /\ m.ok
        /\ Returns(m) /\ new' = [new EXCEPT ![p] = m.t] /\ Advance(p)
        /\ UNCHANGED pc
     \/ /\ a[p] < to[p] /\ ~m.ok
        /\ bad(p, uvmdealloc(m, a[p], from[p]), from[p])
  /\ UNCHANGED <<pt, sz, trapframe, child, leaked>>

\* loadseg reads the file or fails; the stack begins at the next page.
loadseg(p) ==
  LET end == PGROUNDUP(to[p]) IN
  /\ pc[p] = "load"
  /\ \/ /\ GoTo(p, "stack") /\ Loop(p, end, end + (USERSTACK + 1) * PGSIZE)
        /\ UNCHANGED <<free, new, panic>>
     \/ bad(p, Mem(new[p]), to[p])
  /\ UNCHANGED <<pt, sz, trapframe, child, leaked>>

\* The arguments do not fit, or kexec commits to the new image.
kexec_commit(p) ==
  LET x == proc_freepagetable(Mem(pt[p]), sz[p]) IN
  /\ pc[p] = "args"
  /\ \/ bad(p, Mem(new[p]), to[p]) /\ UNCHANGED <<pt, sz>>
     \/ /\ Returns(x)
        /\ pt' = [pt EXCEPT ![p] = new[p]] /\ new' = [new EXCEPT ![p] = x.t]
        /\ sz' = [sz EXCEPT ![p] = to[p]]
        /\ GoTo(p, "user") /\ NoLoop(p)
  /\ UNCHANGED <<trapframe, child, leaked>>

----------------------------------------------------------------------------
\* exit, wait and kinfo

kexit(p) ==
  /\ pc[p] = "user" /\ p # 1
  /\ GoTo(p, "zombie")
  /\ UNCHANGED <<free, pt, new, sz, trapframe, loop, leaked, panic>>

\* The parent's wait frees the process.
freeproc(p) ==
  LET m == proc_freepagetable(Mem(pt[p]), sz[p]) IN
  /\ pc[p] = "zombie"
  /\ Returns(kfree(m, trapframe[p]))
  /\ pt' = [pt EXCEPT ![p] = m.t] /\ sz' = [sz EXCEPT ![p] = 0]
  /\ trapframe' = [trapframe EXCEPT ![p] = 0]
  /\ GoTo(p, "unused")
  /\ UNCHANGED <<new, loop, leaked>>

\* kinfo allocates a page and forgets it.
sys_kinfo(p) ==
  /\ pc[p] = "user" /\ free > 0 /\ leaked < KINFOS
  /\ leaked' = leaked + 1 /\ free' = free - 1
  /\ UNCHANGED <<pt, new, sz, trapframe, pc, loop, panic>>

Next ==
  /\ panic = "none"
  /\ \E p \in Procs :
       \/ \E n \in Growth \cup {-m : m \in Shrink} : growproc(p, n)
       \/ \E n \in Images : kexec(p, n)
       \/ uvmalloc_grow(p) \/ kfork(p) \/ kfork_fails(p) \/ uvmcopy(p)
       \/ uvmalloc_exec(p) \/ loadseg(p) \/ kexec_commit(p)
       \/ kexit(p) \/ freeproc(p) \/ sys_kinfo(p)

Spec == Init /\ [][Next]_vars

----------------------------------------------------------------------------
\* Properties.

\* The type of every variable.
TypeOK ==
  LET tables == [root : {0, 1}, node : [Nodes -> {0, 1}], leaf : [VA -> {0, 1}]] IN
  /\ free \in 0..NPAGES /\ leaked \in 0..KINFOS
  /\ pt \in [Procs -> tables] /\ new \in [Procs -> tables]
  /\ sz \in [Procs -> 0..TRAPFRAME * PGSIZE]
  /\ trapframe \in [Procs -> {0, 1}] /\ child \in [Procs -> 0..NPROC]
  /\ pc \in [Procs -> {"unused", "used", "user", "grow", "copy", "segment", "load",
                       "stack", "args", "zombie"}]
  /\ panic \in {"none", "mappages: remap", "freewalk: leaf"}

\* The pages a page table owns; the two high pages belong to others.
Owned(t) ==
  t.root + Cardinality({n \in Nodes : t.node[n] = 1})
         + Cardinality({v \in VA \ {TRAMPOLINE, TRAPFRAME} : t.leaf[v] = 1})

\* Every page is free, or has an owner, or was dropped by kinfo: nothing leaks
\* and nothing is freed twice, wherever memory runs out in sbrk, fork or exec.
PagesAccounted ==
  free + leaked + MapThenSumSet(LAMBDA p : trapframe[p] + Owned(pt[p]) + Owned(new[p]), Procs) = NPAGES

\* No panic of vm.c: mappages never maps a mapped page, and freewalk never
\* meets a leaf that the size of the process does not cover.
NoPanic == panic = "none"

=============================================================================
