----------------------------- MODULE LogProofs -----------------------------
(***************************************************************************)
(* Proofs about Log for any number of processes, blocks and log slots.     *)
(***************************************************************************)
EXTENDS Log, FiniteSetTheorems, TLAPS

\* A set of slots of the operations in A is finite and holds at most
\* MAXOPBLOCKS slots for each.
LEMMA SlotCount ==
  ASSUME NEW A, A \subseteq Procs, NEW R, R \subseteq A \X (1..MAXOPBLOCKS)
  PROVE  /\ IsFiniteSet(A) /\ Cardinality(A) \in Nat
         /\ IsFiniteSet(R) /\ Cardinality(R) \in Nat
         /\ Cardinality(R) <= Cardinality(A) * MAXOPBLOCKS
  <1>1. IsFiniteSet(A) /\ Cardinality(A) \in Nat
    BY LogAssumption, FS_Subset, FS_CardinalityType
  <1>2. IsFiniteSet(1..MAXOPBLOCKS) /\ Cardinality(1..MAXOPBLOCKS) = MAXOPBLOCKS
    BY LogAssumption, FS_Interval
  <1>3. /\ IsFiniteSet(A \X (1..MAXOPBLOCKS))
        /\ Cardinality(A \X (1..MAXOPBLOCKS)) = Cardinality(A) * MAXOPBLOCKS
    BY <1>1, <1>2, FS_Product
  <1>4. IsFiniteSet(R) /\ Cardinality(R) <= Cardinality(A) * MAXOPBLOCKS
    BY <1>3, FS_Subset
  <1> QED
    BY <1>1, <1>4, FS_CardinalityType

\* The two sets the invariant counts are such sets, in any state.
LEMMA ActiveSlots ==
  /\ Active \subseteq Procs /\ Reserved \subseteq Active \X (1..MAXOPBLOCKS)
  /\ Active' \subseteq Procs /\ Reserved' \subseteq Active' \X (1..MAXOPBLOCKS)
  BY DEF Active, Reserved

THEOREM InitSpace == Init => SpaceInv
  <1> SUFFICES ASSUME Init PROVE SpaceInv
    OBVIOUS
  <1>1. TypeOK
    <2>1. /\ home \in [Blocks -> Vals \cup {Torn}]
          /\ logblk \in [1..LOGBLOCKS -> Vals \cup {Torn}]
          /\ cache \in [Blocks -> Vals \cup {NoVal, Torn}]
          /\ pins \in [Blocks -> Int]
          /\ held \in [Procs -> Blocks \cup {NoVal}]
          /\ wrote \in [Procs -> SUBSET Blocks]
      BY LogAssumption DEF Init
    <2>2. pc \in [Procs -> PCStates]
      BY DEF Init, PCStates
    <2>3. /\ head \in Seq(Blocks) /\ lh \in Seq(Blocks)
          /\ Len(head) <= LOGBLOCKS /\ Len(lh) <= LOGBLOCKS
      BY LogAssumption DEF Init
    <2>4. committing \in {0, 1} /\ panic \in {"none", "log_write", "log.committing"}
      BY DEF Init
    <2>5. outstanding \in Nat /\ tail \in 0..LOGBLOCKS
      BY LogAssumption DEF Init
    <2>6. phase \in {"read_head", "install", "erase", "up"}
      BY DEF Init
    <2> QED
      BY <2>1, <2>2, <2>3, <2>4, <2>5, <2>6 DEF TypeOK
  <1>2. Active = {}
    BY DEF Init, Active, OpStates
  <1>3. Cardinality(Active) = 0
    BY <1>2, FS_EmptySet
  <1>4. Reserved = {}
    BY <1>2 DEF Reserved
  <1>5. Cardinality(Reserved) = 0
    BY <1>4, FS_EmptySet
  <1> QED
    BY <1>1, <1>2, <1>3, <1>5, LogAssumption
    DEF Init, SpaceInv, NoPanic, CommitsAlone, CommitStates, OpsCounted, HeldInv,
        LoopInv, WroteInv, SpaceLeft

\* A step that leaves lh, wrote and the set of active operations alone leaves
\* the reservations alone.
LEMMA SameReserved ==
  ASSUME Active' = Active, wrote' = wrote
  PROVE  Reserved' = Reserved
  BY DEF Reserved

\* begin_op gives the new operation MAXOPBLOCKS slots, which were free.
LEMMA BeginSpace ==
  ASSUME SpaceInv, NEW p \in Procs, begin_op(p)
  PROVE  SpaceInv'
  <1> USE DEF SpaceInv, bufs, disk
  <1>a. /\ UNCHANGED <<lh, committing, held, tail, phase, panic>>
        /\ phase = "up" /\ pc[p] \in {"out", "woken"}
    BY DEF begin_op
  <1>b. NoPanic' /\ LoopInv'
    BY <1>a DEF begin_op, NoPanic, LoopInv, TypeOK
  <1>1. CASE MayBegin
    <2>0. /\ outstanding' = outstanding + 1 /\ pc' = [pc EXCEPT ![p] = "op"]
          /\ wrote' = [wrote EXCEPT ![p] = {}] /\ committing = 0
          /\ Len(lh) + (outstanding + 1) * MAXOPBLOCKS <= LOGBLOCKS
      BY <1>1 DEF begin_op, MayBegin, HasSpace
    <2>1. TypeOK'
      BY <2>0 DEF begin_op, TypeOK, PCStates, OpStates
    <2>2. Active' = Active \cup {p} /\ p \notin Active
      BY <2>0, <1>a DEF TypeOK, Active, OpStates
    <2>3. Cardinality(Active') = outstanding + 1
      BY <2>2, ActiveSlots, SlotCount, FS_AddElement DEF OpsCounted
    <2>4. OpsCounted'
      BY <2>0, <2>3, <1>a DEF OpsCounted, TypeOK
    <2>5. CommitsAlone'
      BY <2>0, <1>a DEF CommitsAlone, CommitStates, TypeOK
    <2>6. HeldInv'
      BY <2>0, <1>a DEF HeldInv, TypeOK
    <2>7. WroteInv'
      BY <2>0, <2>2, <1>a, FS_EmptySet, LogAssumption, ActiveSlots DEF WroteInv, TypeOK, Logged
    <2>8. SpaceLeft'
      <3>1. /\ Cardinality(Reserved') <= (outstanding + 1) * MAXOPBLOCKS
            /\ Cardinality(Reserved') \in Nat
        BY <2>3, ActiveSlots, SlotCount
      <3> QED
        BY <2>0, <3>1, <1>a, LogAssumption DEF TypeOK, SpaceLeft
    <2> QED
      BY <1>b, <2>1, <2>4, <2>5, <2>6, <2>7, <2>8
  <1>2. CASE ~MayBegin
    <2>0. pc' = [pc EXCEPT ![p] = "asleep"] /\ UNCHANGED <<outstanding, wrote>>
      BY <1>2 DEF begin_op
    <2>1. TypeOK'
      BY <2>0 DEF begin_op, TypeOK, PCStates
    <2>2. Active' = Active /\ Reserved' = Reserved
      BY <2>0, <1>a, SameReserved DEF TypeOK, Active, OpStates
    <2>3. CommitsAlone' /\ OpsCounted' /\ HeldInv'
      <3>1. CommitsAlone'
        BY <2>0, <1>a, <2>2 DEF CommitsAlone, CommitStates, TypeOK
      <3>2. OpsCounted'
        BY <2>0, <1>a, <2>2 DEF OpsCounted, CommitStates, TypeOK
      <3>3. HeldInv'
        BY <2>0, <1>a, <2>2 DEF HeldInv, CommitStates, TypeOK
      <3> QED
        BY <3>1, <3>2, <3>3
    <2>4. WroteInv' /\ SpaceLeft'
      BY <2>0, <2>2, <1>a DEF WroteInv, SpaceLeft, Logged
    <2> QED
      BY <1>b, <2>1, <2>3, <2>4
  <1> QED
    BY <1>1, <1>2

\* Modifying a buffer reserves nothing and logs nothing.
LEMMA ModifySpace ==
  ASSUME SpaceInv, NEW p \in Procs, NEW b \in Blocks, NEW v \in Vals, Modify(p, b, v)
  PROVE  SpaceInv'
  <1> USE DEF SpaceInv, disk, mem
  <1>0. /\ pc[p] = "op" /\ pc' = [pc EXCEPT ![p] = "dirty"]
        /\ held' = [held EXCEPT ![p] = b]
        /\ Cardinality(wrote[p] \cup {b}) <= OPBLOCKS
        /\ UNCHANGED <<lh, outstanding, committing, wrote, tail, phase, panic>>
    BY DEF Modify
  <1>1. TypeOK'
    BY <1>0 DEF Modify, TypeOK, PCStates, OpStates
  <1>2. Active' = Active /\ Reserved' = Reserved
    BY <1>0, SameReserved DEF TypeOK, Active, OpStates
  <1>3. CommitsAlone' /\ OpsCounted' /\ HeldInv' /\ LoopInv' /\ NoPanic'
    <2>1. CommitsAlone'
      BY <1>0, <1>2 DEF CommitsAlone, CommitStates, TypeOK
    <2>2. OpsCounted'
      BY <1>0, <1>2 DEF OpsCounted, CommitStates, TypeOK
    <2>3. HeldInv'
      BY <1>0, <1>2 DEF HeldInv, CommitStates, TypeOK
    <2>4. LoopInv'
      BY <1>0, <1>2 DEF LoopInv, CommitStates, TypeOK
    <2>5. NoPanic'
      BY <1>0, <1>2 DEF NoPanic, CommitStates, TypeOK
    <2> QED
      BY <2>1, <2>2, <2>3, <2>4, <2>5
  <1>4. WroteInv' /\ SpaceLeft'
    BY <1>0, <1>2 DEF WroteInv, SpaceLeft, Logged
  <1> QED
    BY <1>1, <1>3, <1>4

\* log_write finds a free slot, because the operation has not used up its
\* reservation; a new block takes one slot out of it.
LEMMA LogWriteSpace ==
  ASSUME SpaceInv, NEW p \in Procs, log_write(p)
  PROVE  SpaceInv'
  <1> USE DEF SpaceInv, disk
  <1> DEFINE b == held[p]
             w == wrote[p]
  <1>0. /\ pc[p] = "dirty" /\ pc' = [pc EXCEPT ![p] = "op"]
        /\ held' = [held EXCEPT ![p] = NoVal]
        /\ wrote' = [wrote EXCEPT ![p] = w \cup {b}]
        /\ UNCHANGED <<home, logblk, head, outstanding, committing, cache, tail, phase>>
    BY DEF log_write
  <1>1. p \in Active /\ b \in Blocks /\ Cardinality(w \cup {b}) <= OPBLOCKS
    BY <1>0 DEF Active, OpStates, HeldInv
  <1>2. /\ IsFiniteSet(w) /\ Cardinality(w) \in Nat /\ Cardinality(w) <= OPBLOCKS
        /\ w \subseteq Logged(lh)
    BY <1>1, FS_CardinalityType DEF WroteInv
  <1>3. <<p, MAXOPBLOCKS>> \in Reserved
    BY <1>1, <1>2, LogAssumption DEF Reserved
  <1>4. IsFiniteSet(Reserved) /\ Cardinality(Reserved) \in Nat /\ Cardinality(Reserved) # 0
    BY <1>3, ActiveSlots, SlotCount, FS_EmptySet
  <1>5. IsFiniteSet(Active) /\ Cardinality(Active) \in Nat /\ Cardinality(Active) # 0
    BY <1>1, ActiveSlots, SlotCount, FS_EmptySet
  <1>6. Len(lh) < LOGBLOCKS /\ outstanding >= 1
    BY <1>4, <1>5, LogAssumption DEF SpaceLeft, OpsCounted, TypeOK
  <1>7. Record(b) /\ panic' = panic
    BY <1>6, LogAssumption DEF log_write, TypeOK
  <1>8. /\ lh' \in Seq(Blocks) /\ pins' \in [Blocks -> Int]
        /\ lh' = lh \/ lh' = Append(lh, b)
        /\ Len(lh') <= LOGBLOCKS /\ Len(lh') >= Len(lh)
    <2>1. CASE b \in Logged(lh)
      BY <2>1, <1>7 DEF Record, TypeOK
    <2>2. CASE b \notin Logged(lh)
      <3>1. lh' = Append(lh, b) /\ pins' = [pins EXCEPT ![b] = @ + 1]
        BY <2>2, <1>7 DEF Record
      <3>2. lh' \in Seq(Blocks) /\ Len(lh') = Len(lh) + 1 /\ Len(lh) \in Nat
        BY <3>1, <1>1 DEF TypeOK
      <3>3. pins' \in [Blocks -> Int]
        BY <3>1, <1>1 DEF TypeOK
      <3> QED
        BY <3>1, <3>2, <3>3, <1>6, LogAssumption
    <2> QED
      BY <2>1, <2>2
  <1>9. TypeOK'
    <2>1. pc' \in [Procs -> PCStates] /\ wrote' \in [Procs -> SUBSET Blocks]
          /\ held' \in [Procs -> Blocks \cup {NoVal}]
      BY <1>0, <1>1 DEF TypeOK, PCStates, OpStates
    <2> QED
      BY <1>0, <1>7, <1>8, <2>1 DEF TypeOK
  <1>10. Logged(lh') = Logged(lh) \cup {b}
    <2>1. CASE b \in Logged(lh)
      BY <2>1, <1>7 DEF Record
    <2>2. CASE b \notin Logged(lh)
      <3>1. lh' = Append(lh, b) /\ lh \in Seq(Blocks)
        BY <2>2, <1>7 DEF Record, TypeOK
      <3>2. /\ Len(lh') = Len(lh) + 1 /\ Len(lh) \in Nat /\ lh'[Len(lh) + 1] = b
            /\ \A i \in 1..Len(lh) : lh'[i] = lh[i]
        BY <3>1, <1>1
      <3> QED
        BY <3>2 DEF Logged
    <2> QED
      BY <2>1, <2>2
  <1>11. Active' = Active
    BY <1>0 DEF TypeOK, Active, OpStates
  <1>12. CommitsAlone' /\ OpsCounted' /\ HeldInv' /\ NoPanic'
    <2>1. CommitsAlone'
      BY <1>0, <1>7, <1>11 DEF CommitsAlone, CommitStates, TypeOK
    <2>2. OpsCounted'
      BY <1>0, <1>7, <1>11 DEF OpsCounted, CommitStates, TypeOK
    <2>3. HeldInv'
      BY <1>0, <1>7, <1>11 DEF HeldInv, CommitStates, TypeOK
    <2>4. NoPanic'
      BY <1>0, <1>7, <1>11 DEF NoPanic, CommitStates, TypeOK
    <2> QED
      BY <2>1, <2>2, <2>3, <2>4
  <1>13. LoopInv'
    BY <1>0, <1>8 DEF LoopInv, TypeOK
  <1>14. WroteInv'
    BY <1>0, <1>1, <1>2, <1>10, <1>11, FS_AddElement, ActiveSlots DEF WroteInv, TypeOK
  <1>15. SpaceLeft'
    <2>0. /\ \A q \in Procs : wrote'[q] = IF q = p THEN w \cup {b} ELSE wrote[q]
          /\ Len(lh) \in Nat /\ Len(lh') \in Nat
      BY <1>0, <1>8 DEF TypeOK
    <2>1. CASE b \in Logged(lh)
      <3>1. Cardinality(w \cup {b}) >= Cardinality(w) /\ Cardinality(w \cup {b}) \in Nat
        <4>1. Cardinality(w \cup {b}) =
                IF b \in w THEN Cardinality(w) ELSE Cardinality(w) + 1
          BY <1>2, FS_AddElement
        <4> QED
          BY <4>1, <1>2
      <3>2. Reserved' \subseteq Reserved
        <4>1. ASSUME NEW r \in Procs \X (1..MAXOPBLOCKS), r[2] > Cardinality(wrote'[r[1]])
              PROVE  r[2] > Cardinality(wrote[r[1]])
          <5>1. CASE r[1] = p
            BY <5>1, <4>1, <2>0, <3>1, <1>2
          <5>2. CASE r[1] # p
            BY <5>2, <4>1, <2>0
          <5> QED
            BY <5>1, <5>2
        <4> QED
          BY <4>1, <1>11 DEF Reserved
      <3>3. Cardinality(Reserved') <= Cardinality(Reserved) /\ Cardinality(Reserved') \in Nat
        BY <3>2, <1>4, FS_Subset, FS_CardinalityType
      <3>4. lh' = lh
        BY <2>1, <1>7 DEF Record
      <3> QED
        BY <3>3, <3>4, <2>0, <1>4, LogAssumption DEF SpaceLeft
    <2>2. CASE b \notin Logged(lh)
      <3> DEFINE slot == <<p, Cardinality(w) + 1>>
      <3>1. Cardinality(w \cup {b}) = Cardinality(w) + 1
        BY <2>2, <1>2, FS_AddElement
      <3>2. slot \in Reserved
        BY <3>1, <1>1, <1>2, LogAssumption DEF Reserved
      <3>3. Reserved' = Reserved \ {slot}
        <4>1. \A q \in Procs, i \in 1..MAXOPBLOCKS :
                <<q, i>> \in Reserved' <=> q \in Active /\ i > Cardinality(wrote'[q])
          BY <1>11 DEF Reserved
        <4>2. \A q \in Procs, i \in 1..MAXOPBLOCKS :
                <<q, i>> \in Reserved <=> q \in Active /\ i > Cardinality(wrote[q])
          BY DEF Reserved
        <4>3. \A q \in Procs, i \in 1..MAXOPBLOCKS :
                <<q, i>> \in Reserved' <=> <<q, i>> \in Reserved /\ <<q, i>> # slot
          <5> TAKE q \in Procs, i \in 1..MAXOPBLOCKS
          <5>1. CASE q = p
            BY <5>1, <4>1, <4>2, <2>0, <3>1, <1>2, <1>1, LogAssumption
          <5>2. CASE q # p
            BY <5>2, <4>1, <4>2, <2>0
          <5> QED
            BY <5>1, <5>2
        <4> QED
          BY <4>3, <3>2 DEF Reserved
      <3>4. Cardinality(Reserved') = Cardinality(Reserved) - 1
        BY <3>2, <3>3, <1>4, FS_RemoveElement
      <3>5. Len(lh') = Len(lh) + 1
        BY <2>2, <1>7, <1>1 DEF Record, TypeOK
      <3> QED
        BY <3>4, <3>5, <2>0, <1>4, LogAssumption DEF SpaceLeft
    <2> QED
      BY <2>1, <2>2
  <1> QED
    BY <1>9, <1>12, <1>13, <1>14, <1>15

\* end_op gives back what the operation did not use.
LEMMA EndSpace ==
  ASSUME SpaceInv, NEW p \in Procs, end_op(p)
  PROVE  SpaceInv'
  <1> USE DEF SpaceInv, disk, bufs
  <1>0. /\ pc[p] = "op" /\ outstanding' = outstanding - 1
        /\ UNCHANGED <<home, logblk, head, lh, cache, pins, held, wrote, phase>>
        /\ \A q \in Procs \ {p} : pc[q] \in OpStates <=> pc'[q] \in OpStates
        /\ pc'[p] \notin OpStates
    BY DEF end_op, TypeOK, Woken, OpStates
  <1>1. p \in Active /\ Active' = Active \ {p}
    BY <1>0 DEF Active, OpStates
  <1>2. /\ IsFiniteSet(Active) /\ Cardinality(Active) \in Nat
        /\ Cardinality(Active') = Cardinality(Active) - 1 /\ Cardinality(Active') \in Nat
    BY <1>1, ActiveSlots, SlotCount, FS_RemoveElement
  <1>3. committing = 0 /\ phase = "up"
    BY <1>0 DEF CommitsAlone, OpsCounted, CommitStates, TypeOK
  <1>4. panic' = panic
    BY <1>3 DEF end_op
  <1>5. Reserved' \subseteq Reserved
    BY <1>0, <1>1 DEF Reserved
  <1>6. SpaceLeft'
    <2>1. /\ Cardinality(Reserved') <= Cardinality(Reserved)
          /\ Cardinality(Reserved') \in Nat /\ Cardinality(Reserved) \in Nat
      BY <1>5, ActiveSlots, SlotCount, FS_Subset
    <2> QED
      BY <2>1, <1>0, LogAssumption DEF SpaceLeft, TypeOK
  <1>7. WroteInv'
    BY <1>0, <1>1 DEF WroteInv, Logged
  <1>8. CASE LastOp
    <2>0. /\ committing' = 1 /\ tail' = 0
          /\ pc' = [pc EXCEPT ![p] = IF lh # <<>> THEN "write_log" ELSE "done"]
      BY <1>8 DEF end_op
    <2>1. TypeOK'
      BY <1>0, <1>2, <1>4, <2>0, LogAssumption DEF TypeOK, PCStates, CommitStates, OpsCounted
    <2>2. Active = {p}
      <3>1. Cardinality(Active \ {p}) = 0 /\ IsFiniteSet(Active \ {p})
        BY <1>8, <1>1, <1>2, FS_RemoveElement DEF LastOp, OpsCounted
      <3> QED
        BY <3>1, <1>1, FS_EmptySet
    <2>3. \A q \in Procs \ {p} : pc[q] \in {"out", "woken", "asleep"}
      BY <2>2, <1>3 DEF Active, TypeOK, PCStates, CommitsAlone
    <2>4. CommitsAlone' /\ OpsCounted' /\ HeldInv' /\ NoPanic'
      <3>1. outstanding' = 0 /\ pc'[p] \in CommitStates
        BY <1>0, <1>8, <2>0 DEF LastOp, TypeOK, CommitStates
      <3>2. \A q \in Procs \ {p} : pc'[q] = pc[q]
        BY <2>0 DEF TypeOK
      <3>3. CommitsAlone'
        BY <2>0, <2>3, <3>1, <3>2 DEF CommitsAlone, CommitStates
      <3>4. OpsCounted'
        BY <1>0, <1>2, <1>3, <3>1 DEF OpsCounted
      <3>5. HeldInv' /\ NoPanic'
        BY <1>0, <1>4, <3>1, <3>2 DEF HeldInv, NoPanic, CommitStates
      <3> QED
        BY <3>3, <3>4, <3>5
    <2>5. LoopInv'
      <3>1. lh # <<>> => Len(lh) > 0
        BY DEF TypeOK
      <3> QED
        BY <1>0, <1>3, <2>0, <2>3, <3>1 DEF LoopInv, TypeOK
    <2> QED
      BY <1>6, <1>7, <2>1, <2>4, <2>5
  <1>9. CASE ~LastOp
    <2>0. UNCHANGED <<committing, tail>> /\ pc' = [Woken EXCEPT ![p] = "out"]
      BY <1>9 DEF end_op
    <2>1. TypeOK'
      BY <1>0, <1>2, <1>4, <2>0 DEF TypeOK, PCStates, OpsCounted, Woken
    <2>2. CommitsAlone' /\ OpsCounted' /\ HeldInv' /\ NoPanic'
      <3>1. CommitsAlone'
        BY <1>0, <1>2, <1>3, <1>4, <2>0 DEF CommitsAlone, CommitStates, TypeOK, Woken
      <3>2. OpsCounted'
        BY <1>0, <1>2, <1>3, <1>4, <2>0 DEF OpsCounted, CommitStates, TypeOK, Woken
      <3>3. HeldInv'
        BY <1>0, <1>2, <1>3, <1>4, <2>0 DEF HeldInv, CommitStates, TypeOK, Woken
      <3>4. NoPanic'
        BY <1>0, <1>2, <1>3, <1>4, <2>0 DEF NoPanic, CommitStates, TypeOK, Woken
      <3> QED
        BY <3>1, <3>2, <3>3, <3>4
    <2>3. LoopInv'
      BY <1>0, <1>3, <2>0 DEF LoopInv, TypeOK, CommitsAlone, CommitStates, Woken
    <2> QED
      BY <1>6, <1>7, <2>1, <2>2, <2>3
  <1> QED
    BY <1>8, <1>9

\* One round of a loop of commit, and the other steps of the committer: no
\* operation is active, so only the type and the loop bound are at stake.
LEMMA CommitSpace ==
  ASSUME SpaceInv, NEW p \in Procs, commit(p)
  PROVE  SpaceInv'
  <1> USE DEF SpaceInv, disk, mem, bufs
  <1>0. pc[p] \in CommitStates
    BY DEF commit, write_log, write_head, install_trans, erase, commit_done, CommitStates
  <1>1. /\ committing = 1 /\ outstanding = 0 /\ phase = "up"
        /\ \A q \in Procs \ {p} : pc[q] \in {"out", "woken", "asleep"}
    BY <1>0 DEF CommitsAlone, OpsCounted, CommitStates
  <1>2. Active = {}
    BY <1>0, <1>1 DEF Active, OpStates, CommitStates
  <1>3. /\ outstanding' = outstanding /\ UNCHANGED <<held, wrote, phase, panic>>
        /\ \A q \in Procs \ {p} : pc'[q] \in {"out", "woken", "asleep"}
        /\ pc'[p] \in CommitStates \cup {"out"} /\ pc' \in [Procs -> PCStates]
        /\ pc'[p] \in CommitStates <=> committing' = 1
        /\ committing' \in {0, 1}
    <2>1. CASE write_log(p)
      BY <2>1, <1>1 DEF write_log, Advance, TypeOK, CommitStates, PCStates
    <2>2. CASE write_head(p)
      BY <2>2, <1>1 DEF write_head, TypeOK, CommitStates, PCStates
    <2>3. CASE install_trans(p)
      BY <2>3, <1>1 DEF install_trans, Install, Advance, TypeOK, CommitStates, PCStates
    <2>4. CASE erase(p)
      BY <2>4, <1>1 DEF erase, TypeOK, CommitStates, PCStates
    <2>5. CASE commit_done(p)
      BY <2>5, <1>1 DEF commit_done, Woken, TypeOK, CommitStates, PCStates
    <2> QED
      BY <2>1, <2>2, <2>3, <2>4, <2>5 DEF commit
  <1>4. Active' = {}
    BY <1>3 DEF Active, OpStates, CommitStates
  <1>5. OpsCounted' /\ CommitsAlone' /\ HeldInv' /\ NoPanic'
    BY <1>0, <1>1, <1>2, <1>3, <1>4
    DEF OpsCounted, CommitsAlone, HeldInv, NoPanic, CommitStates
  <1>6. WroteInv'
    BY <1>4 DEF WroteInv
  <1>7. Cardinality(Reserved') = 0
    BY <1>4, FS_EmptySet DEF Reserved
  <1>8. /\ lh' \in Seq(Blocks) /\ head' \in Seq(Blocks)
        /\ Len(lh') <= LOGBLOCKS /\ Len(head') <= LOGBLOCKS
        /\ tail' \in 0..LOGBLOCKS
        /\ pc'[p] \in {"write_log", "write_head", "install"} => tail' < Len(lh')
    <2>0. pc[p] \in {"write_log", "write_head", "install"} => tail < Len(lh)
      BY DEF LoopInv
    <2>a. ASSUME NEW from, NEW to, tail < Len(lh), Advance(p, from, to)
          PROVE  tail' \in 0..LOGBLOCKS /\ tail' < Len(lh)
      <3>1. tail \in Nat /\ Len(lh) \in Nat /\ LOGBLOCKS \in Nat /\ Len(lh) <= LOGBLOCKS
        BY LogAssumption DEF TypeOK
      <3> QED
        BY <3>1, <2>a DEF Advance
    <2>1. CASE write_log(p)
      BY <2>0, <2>1, <2>a DEF write_log, TypeOK
    <2>2. CASE write_head(p)
      BY <2>0, <2>2 DEF write_head, TypeOK
    <2>3. CASE install_trans(p)
      BY <2>0, <2>3, <2>a DEF install_trans, Install, TypeOK
    <2>4. CASE erase(p)
      BY <2>4, LogAssumption DEF erase, TypeOK
    <2>5. CASE commit_done(p)
      BY <2>5 DEF commit_done, TypeOK, Woken
    <2> QED
      BY <2>1, <2>2, <2>3, <2>4, <2>5 DEF commit
  <1>9. LoopInv'
    BY <1>1, <1>3, <1>8 DEF LoopInv
  <1>10. SpaceLeft'
    BY <1>7, <1>8, LogAssumption DEF SpaceLeft
  <1>11. /\ home' \in [Blocks -> Vals \cup {Torn}]
         /\ logblk' \in [1..LOGBLOCKS -> Vals \cup {Torn}]
         /\ cache' \in [Blocks -> Vals \cup {NoVal, Torn}]
         /\ pins' \in [Blocks -> Int]
    <2>0. pc[p] \in {"write_log", "write_head", "install"} =>
            /\ tail + 1 \in 1..Len(lh) /\ tail + 1 \in 1..LOGBLOCKS
            /\ lh[tail + 1] \in Blocks
      BY LogAssumption DEF LoopInv, TypeOK
    <2>1. CASE write_log(p)
      <3>1. Bread(lh[tail + 1]) \in Vals \cup {Torn}
        BY <2>0, <2>1 DEF write_log, Bread, TypeOK
      <3> QED
        BY <3>1, <2>1 DEF write_log, TypeOK
    <2>2. CASE write_head(p)
      BY <2>2 DEF write_head, TypeOK
    <2>3. CASE install_trans(p)
      <3>1. logblk[tail + 1] \in Vals \cup {Torn}
        BY <2>0, <2>3 DEF install_trans, TypeOK
      <3>2. /\ home' = [home EXCEPT ![lh[tail + 1]] = logblk[tail + 1]]
            /\ cache' = [cache EXCEPT ![lh[tail + 1]] = logblk[tail + 1]]
            /\ pins' = [pins EXCEPT ![lh[tail + 1]] = @ - 1] /\ logblk' = logblk
        BY <2>3 DEF install_trans, Install
      <3>3. home' \in [Blocks -> Vals \cup {Torn}]
            /\ cache' \in [Blocks -> Vals \cup {NoVal, Torn}]
        BY <3>1, <3>2 DEF TypeOK
      <3>4. pins' \in [Blocks -> Int]
        BY <3>2, <2>0, <2>3 DEF TypeOK, install_trans
      <3> QED
        BY <3>2, <3>3, <3>4 DEF TypeOK
    <2>4. CASE erase(p)
      BY <2>4 DEF erase, TypeOK
    <2>5. CASE commit_done(p)
      BY <2>5 DEF commit_done, TypeOK
    <2> QED
      BY <2>1, <2>2, <2>3, <2>4, <2>5 DEF commit
  <1>12. TypeOK'
    BY <1>1, <1>3, <1>8, <1>11 DEF TypeOK
  <1> QED
    BY <1>5, <1>6, <1>9, <1>10, <1>12

\* Recovery runs while every process is outside the file system.
LEMMA RecoverySpace ==
  ASSUME SpaceInv, Recovery
  PROVE  SpaceInv'
  <1> USE DEF SpaceInv, disk, mem, bufs, op
  <1>0. /\ phase # "up" /\ UNCHANGED <<outstanding, committing, pc, held, wrote, panic>>
        /\ pins' = pins /\ logblk' = logblk
    BY DEF Recovery, read_head, recover_install, recover_erase, Install
  <1>1. \A q \in Procs : pc[q] = "out"
    BY <1>0 DEF OpsCounted
  <1>2. Active = {} /\ Active' = {}
    BY <1>0, <1>1 DEF Active, OpStates
  <1>3. Cardinality(Reserved') = 0
    BY <1>2, FS_EmptySet DEF Reserved
  <1>4. CommitsAlone' /\ OpsCounted' /\ HeldInv' /\ WroteInv' /\ NoPanic'
    <2>1. CommitsAlone'
      BY <1>0, <1>1, <1>2 DEF CommitsAlone, CommitStates
    <2>2. OpsCounted'
      BY <1>0, <1>1, <1>2 DEF OpsCounted, CommitStates
    <2>3. HeldInv'
      BY <1>0, <1>1, <1>2 DEF HeldInv, CommitStates
    <2>4. WroteInv'
      BY <1>0, <1>1, <1>2 DEF WroteInv, CommitStates
    <2>5. NoPanic'
      BY <1>0, <1>1, <1>2 DEF NoPanic, CommitStates
    <2> QED
      BY <2>1, <2>2, <2>3, <2>4, <2>5
  <1>5. /\ lh' \in Seq(Blocks) /\ head' \in Seq(Blocks)
        /\ Len(lh') <= LOGBLOCKS /\ Len(head') <= LOGBLOCKS
        /\ tail' \in 0..LOGBLOCKS
        /\ phase' \in {"read_head", "install", "erase", "up"}
        /\ phase' = "install" => tail' < Len(lh')
        /\ home' \in [Blocks -> Vals \cup {Torn}]
        /\ cache' \in [Blocks -> Vals \cup {NoVal, Torn}]
    <2>1. CASE read_head
      <3>1. head # <<>> => Len(head) > 0
        BY DEF TypeOK
      <3> QED
        BY <2>1, <3>1, LogAssumption DEF read_head, TypeOK
    <2>2. CASE recover_install
      <3>1. /\ tail \in Nat /\ Len(lh) \in Nat /\ tail < Len(lh)
            /\ LOGBLOCKS \in Nat /\ Len(lh) <= LOGBLOCKS
        BY <2>2, LogAssumption DEF TypeOK, LoopInv, recover_install
      <3>2. tail + 1 \in 1..Len(lh) /\ tail + 1 \in 1..LOGBLOCKS
        BY <3>1
      <3>3. logblk[tail + 1] \in Vals \cup {Torn}
        BY <3>2 DEF TypeOK
      <3>4. /\ home' = [home EXCEPT ![lh[tail + 1]] = logblk[tail + 1]]
            /\ cache' = [cache EXCEPT ![lh[tail + 1]] = logblk[tail + 1]]
            /\ lh' = lh /\ head' = head
        BY <2>2 DEF recover_install, Install
      <3>5. home' \in [Blocks -> Vals \cup {Torn}]
            /\ cache' \in [Blocks -> Vals \cup {NoVal, Torn}]
        BY <3>3, <3>4 DEF TypeOK
      <3>6. tail' \in 0..LOGBLOCKS /\ tail' < Len(lh)
        BY <2>2, <3>1 DEF recover_install
      <3>7. phase' \in {"erase", "install"}
        BY <2>2 DEF recover_install
      <3> QED
        BY <3>4, <3>5, <3>6, <3>7 DEF TypeOK
    <2>3. CASE recover_erase
      BY <2>3, LogAssumption DEF recover_erase, TypeOK
    <2> QED
      BY <2>1, <2>2, <2>3 DEF Recovery
  <1>6. TypeOK'
    BY <1>0, <1>5 DEF TypeOK
  <1>7. LoopInv' /\ SpaceLeft'
    BY <1>0, <1>1, <1>3, <1>5, LogAssumption DEF LoopInv, SpaceLeft
  <1> QED
    BY <1>4, <1>6, <1>7

\* A crash starts over with an empty memory.
LEMMA CrashSpace ==
  ASSUME SpaceInv, Crash
  PROVE  SpaceInv'
  <1> USE DEF SpaceInv
  <1>0. /\ lh' = <<>> /\ outstanding' = 0 /\ committing' = 0
        /\ cache' = [b \in Blocks |-> NoVal] /\ pins' = [b \in Blocks |-> 0]
        /\ pc' = [p \in Procs |-> "out"] /\ held' = [p \in Procs |-> NoVal]
        /\ wrote' = [p \in Procs |-> {}]
        /\ tail' = 0 /\ phase' = "read_head" /\ panic' = "none" /\ head' = head
    BY DEF Crash
  <1>1. home' \in [Blocks -> Vals \cup {Torn}] /\ logblk' \in [1..LOGBLOCKS -> Vals \cup {Torn}]
    BY DEF Crash, TypeOK
  <1>2. /\ cache' \in [Blocks -> Vals \cup {NoVal, Torn}] /\ pins' \in [Blocks -> Int]
        /\ held' \in [Procs -> Blocks \cup {NoVal}] /\ wrote' \in [Procs -> SUBSET Blocks]
        /\ pc' \in [Procs -> PCStates]
    BY <1>0 DEF PCStates
  <1>3. TypeOK'
    BY <1>0, <1>1, <1>2, LogAssumption DEF TypeOK
  <1>4. Active' = {}
    BY <1>0 DEF Active, OpStates
  <1>5. Cardinality(Active') = 0 /\ Cardinality(Reserved') = 0
    BY <1>4, FS_EmptySet DEF Reserved
  <1>6. CommitsAlone' /\ OpsCounted' /\ HeldInv' /\ WroteInv' /\ NoPanic' /\ LoopInv'
    <2>1. CommitsAlone'
      BY <1>0, <1>4, <1>5 DEF CommitsAlone, CommitStates
    <2>2. OpsCounted'
      BY <1>0, <1>4, <1>5 DEF OpsCounted, CommitStates
    <2>3. HeldInv'
      BY <1>0, <1>4, <1>5 DEF HeldInv, CommitStates
    <2>4. WroteInv'
      BY <1>0, <1>4, <1>5 DEF WroteInv, CommitStates
    <2>5. NoPanic'
      BY <1>0, <1>4, <1>5 DEF NoPanic, CommitStates
    <2>6. LoopInv'
      BY <1>0, <1>4, <1>5 DEF LoopInv, CommitStates
    <2> QED
      BY <2>1, <2>2, <2>3, <2>4, <2>5, <2>6
  <1>7. SpaceLeft'
    BY <1>0, <1>5, LogAssumption DEF SpaceLeft
  <1> QED
    BY <1>3, <1>6, <1>7

\* The other steps change the buffer cache only, or nothing.
LEMMA CacheSpace ==
  ASSUME SpaceInv,
         (\E b \in Blocks : Load(b) \/ Recycle(b)) \/ UNCHANGED vars
  PROVE  SpaceInv'
  <1> USE DEF SpaceInv, disk, mem, bufs, op, vars
  <1>0. /\ UNCHANGED <<home, logblk, head, lh, outstanding, committing, pins, pc, held>>
        /\ UNCHANGED <<wrote, tail, phase, panic>>
    BY DEF Load, Recycle
  <1>1. cache' \in [Blocks -> Vals \cup {NoVal, Torn}]
    BY DEF Load, Recycle, TypeOK
  <1>2. TypeOK'
    BY <1>0, <1>1 DEF TypeOK
  <1>3. Active' = Active /\ Reserved' = Reserved
    BY <1>0 DEF Active, Reserved
  <1>4. CommitsAlone' /\ OpsCounted' /\ HeldInv' /\ WroteInv' /\ NoPanic' /\ LoopInv' /\ SpaceLeft'
    <2>1. CommitsAlone'
      BY <1>0, <1>3 DEF CommitsAlone, Logged
    <2>2. OpsCounted'
      BY <1>0, <1>3 DEF OpsCounted, Logged
    <2>3. HeldInv'
      BY <1>0, <1>3 DEF HeldInv, Logged
    <2>4. WroteInv'
      BY <1>0, <1>3 DEF WroteInv, Logged
    <2>5. NoPanic'
      BY <1>0, <1>3 DEF NoPanic, Logged
    <2>6. LoopInv'
      BY <1>0, <1>3 DEF LoopInv, Logged
    <2>7. SpaceLeft'
      BY <1>0, <1>3 DEF SpaceLeft, Logged
    <2> QED
      BY <2>1, <2>2, <2>3, <2>4, <2>5, <2>6, <2>7
  <1> QED
    BY <1>2, <1>4

\* Every step preserves the invariant.
LEMMA NextSpace == SpaceInv /\ [Next]_vars => SpaceInv'
  BY BeginSpace, ModifySpace, LogWriteSpace, EndSpace, CommitSpace, RecoverySpace,
     CrashSpace, CacheSpace
  DEF Next

\* For any number of processes and blocks and any sizes of the log and of the
\* reservation: begin_op's test (log.c:134) keeps enough room for every
\* log_write, so that none of the panics of log.c is reached.
THEOREM NoPanicEver == Spec => []NoPanic
  <1>1. Spec => []SpaceInv
    BY InitSpace, NextSpace, PTL DEF Spec
  <1>2. SpaceInv => NoPanic
    BY DEF SpaceInv
  <1> QED
    BY <1>1, <1>2, PTL

\* A commit runs alone: while one process is in commit() no FS system call is
\* active and nobody else commits (log.c:12).
THEOREM CommitRunsAlone == Spec => []CommitsAlone
  <1>1. Spec => []SpaceInv
    BY InitSpace, NextSpace, PTL DEF Spec
  <1>2. SpaceInv => CommitsAlone
    BY DEF SpaceInv
  <1> QED
    BY <1>1, <1>2, PTL

\* Every variable keeps its type; in particular the header in memory and on disk
\* never has more entries than the log has blocks.
THEOREM TypeCorrect == Spec => []TypeOK
  <1>1. Spec => []SpaceInv
    BY InitSpace, NextSpace, PTL DEF Spec
  <1>2. SpaceInv => TypeOK
    BY DEF SpaceInv
  <1> QED
    BY <1>1, <1>2, PTL
=============================================================================
