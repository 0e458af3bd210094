-------------------------------- MODULE Fifo --------------------------------
(***************************************************************************)
(* What a pipe promises: a bounded first-in first-out channel of bytes.    *)
(***************************************************************************)
EXTENDS Naturals, Sequences

CONSTANTS Vals, CAPACITY

VARIABLE q   \* bytes written and not yet read

FInit == q = <<>>

Put(v) == Len(q) < CAPACITY /\ q' = Append(q, v)

Take == q # <<>> /\ q' = Tail(q)

FNext == Take \/ \E v \in Vals : Put(v)

FSpec == FInit /\ [][FNext]_q
=============================================================================
