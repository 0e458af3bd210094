---------------------------- MODULE Transactions ----------------------------
(***************************************************************************)
(* What the log promises to the file system (comment at kernel/log.c:10):  *)
(* FS system calls write blocks, and the writes of several calls become    *)
(* durable together, at a moment when no call is in progress; a crash      *)
(* takes the file system back to the last such moment, never to a state in *)
(* between.                                                                *)
(***************************************************************************)
CONSTANTS Procs, Blocks, Vals, InitVal

VARIABLES
  durable,   \* what the file system is after a crash and the recovery
  volatile,  \* what running processes read
  active     \* processes inside an FS system call

tvars == <<durable, volatile, active>>

TInit ==
  /\ durable = [b \in Blocks |-> InitVal]
  /\ volatile = [b \in Blocks |-> InitVal]
  /\ active = {}

Begin(p) == p \notin active /\ active' = active \cup {p} /\ UNCHANGED <<durable, volatile>>

Write(p, b, v) ==
  p \in active /\ volatile' = [volatile EXCEPT ![b] = v] /\ UNCHANGED <<durable, active>>

End(p) == p \in active /\ active' = active \ {p} /\ UNCHANGED <<durable, volatile>>

Commit == active = {} /\ durable' = volatile /\ UNCHANGED <<volatile, active>>

Fail == volatile' = durable /\ active' = {} /\ UNCHANGED durable

TNext ==
  \/ \E p \in Procs : Begin(p) \/ End(p)
  \/ \E p \in Procs, b \in Blocks, v \in Vals : Write(p, b, v)
  \/ Commit
  \/ Fail

TSpec == TInit /\ [][TNext]_tvars
=============================================================================
