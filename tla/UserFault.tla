------------------------------ MODULE UserFault ------------------------------
(***************************************************************************)
(* Loads and stores of user code on top of UserMem: an access to a page    *)
(* that is not mapped traps into usertrap (kernel/trap.c), which asks      *)
(* vmfault for a page; the instruction is then executed again, or the      *)
(* process exits.                                                          *)
(***************************************************************************)
EXTENDS UserMem

VARIABLE
  insn       \* the page the current instruction of the process accesses

fvars == <<vars, insn>>

FInit == Init /\ insn = [p \in Procs |-> 0]

\* User code executes a load or a store to page v ...
access(p, v) ==
  /\ pc[p] = "user"
  /\ GoTo(p, "access") /\ insn' = [insn EXCEPT ![p] = v]
  /\ UNCHANGED <<free, pt, new, sz, trapframe, loop, leaked, panic>>

\* ... that succeeds.
retire(p) ==
  /\ pc[p] = "access" /\ pt[p].leaf[insn[p]] = 1
  /\ GoTo(p, "user") /\ insn' = [insn EXCEPT ![p] = 0]
  /\ UNCHANGED <<free, pt, new, sz, trapframe, loop, leaked, panic>>

\* vmfault: "ok" stands for a result other than 0.
vmfault(m, p, v) ==
  IF v * PGSIZE >= sz[p] \/ m.t.leaf[v] = 1 THEN [m EXCEPT !.ok = FALSE] ELSE NewPage(m, v)

\* usertrap for scause 13 and 15: it returns to the instruction if vmfault's
\* result is 0, and otherwise marks the process killed, which ends it.
usertrap(p) ==
  LET m == vmfault(Mem(pt[p]), p, insn[p]) IN
  /\ pc[p] = "access" /\ pt[p].leaf[insn[p]] = 0
  /\ Returns(m) /\ pt' = [pt EXCEPT ![p] = m.t]
  /\ IF ~m.ok THEN UNCHANGED <<pc, insn>>
     ELSE GoTo(p, "zombie") /\ insn' = [insn EXCEPT ![p] = 0]
  /\ UNCHANGED <<new, sz, trapframe, loop, leaked>>

FNext ==
  \/ Next /\ UNCHANGED insn
  \/ \E p \in Procs :
       \/ \E v \in 0..(TRAPFRAME - 1) : access(p, v)
       \/ retire(p) \/ usertrap(p)

\* A process in user mode goes on executing.
FSpec == FInit /\ [][FNext]_fvars /\ \A p \in Procs : WF_fvars(retire(p) \/ usertrap(p))

AboveBreak(p) == pc[p] = "access" /\ insn[p] * PGSIZE >= PGROUNDUP(sz[p])

\* A load or store above the break ends the process (usertrap's last branch,
\* and what user/usertests.c expects of the kernel).
BadAccessKills ==
  \A p \in Procs : AboveBreak(p) ~> (pc[p] = "zombie")
=============================================================================
