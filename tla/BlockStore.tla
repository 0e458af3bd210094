----------------------------- MODULE BlockStore -----------------------------
(***************************************************************************)
(* What the buffer cache promises (the interface comment of kernel/bio.c): *)
(* one process at a time uses a block, and finds in it what was last       *)
(* written to the block, whether or not the block stayed in the cache.     *)
(***************************************************************************)
CONSTANTS Procs, Blocks, Vals, InitVal, None

VARIABLES
  store,   \* the current contents of every block
  owner,   \* the process that uses a block, or None
  seen     \* the contents a process sees in the block it uses, or None

bsvars == <<store, owner, seen>>

BInit ==
  /\ store = [b \in Blocks |-> InitVal]
  /\ owner = [b \in Blocks |-> None]
  /\ seen = [p \in Procs |-> None]

Get(p, b) ==
  /\ owner[b] = None /\ seen[p] = None
  /\ owner' = [owner EXCEPT ![b] = p]
  /\ seen' = [seen EXCEPT ![p] = store[b]]
  /\ UNCHANGED store

Put(p, b, v) ==
  /\ owner[b] = p
  /\ store' = [store EXCEPT ![b] = v]
  /\ seen' = [seen EXCEPT ![p] = v]
  /\ UNCHANGED owner

Release(p, b) ==
  /\ owner[b] = p
  /\ owner' = [owner EXCEPT ![b] = None]
  /\ seen' = [seen EXCEPT ![p] = None]
  /\ UNCHANGED store

BNext ==
  \E p \in Procs, b \in Blocks :
    Get(p, b) \/ Release(p, b) \/ \E v \in Vals : Put(p, b, v)

BSpec == BInit /\ [][BNext]_bsvars
=============================================================================
