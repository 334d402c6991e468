----------------------------- MODULE GateProofs -----------------------------
(***************************************************************************)
(* Proofs about Gate: the inductive invariant GateInv, the properties it   *)
(* implies, and that the gate implements AbstractGate.                     *)
(***************************************************************************)
EXTENDS Gate, FiniteSetTheorems, TLAPS

\* The number of users inside is a number below GateClosed, zero only if the
\* set is empty.
LEMMA InsideFinite ==
    ASSUME NEW S \in SUBSET Users
    PROVE  /\ IsFiniteSet(S)
           /\ Cardinality(S) \in Nat
           /\ Cardinality(S) < GateClosed
           /\ Cardinality(S) = 0 <=> S = {}
  BY GateAssumption, FS_Subset, FS_CardinalityType, FS_EmptySet

\* The bit is not zero.
LEMMA BitPositive == GateClosed \in Nat /\ GateClosed > 0
  BY GateAssumption, FS_CardinalityType

\* Entering adds one user to the count.
LEMMA InsideAdd ==
    ASSUME NEW S \in SUBSET Users, NEW u \in Users \ S
    PROVE  Cardinality(S \cup {u}) = Cardinality(S) + 1
  BY FS_AddElement, InsideFinite

\* Leaving takes one user from the count.
LEMMA InsideRemove ==
    ASSUME NEW S \in SUBSET Users, NEW u \in S
    PROVE  Cardinality(S \ {u}) = Cardinality(S) - 1
  BY FS_RemoveElement, InsideFinite

\* GateInv holds initially and every step of Enter, Leave and Close keeps it.
THEOREM GateInvariant == GateSpec => []GateInv
<1>1. GateInit => GateInv
  <2> SUFFICES ASSUME GateInit PROVE GateInv
    OBVIOUS
  <2>1. Inside = {}
    BY DEF GateInit, Inside
  <2>2. Cardinality(Inside) = 0
    BY <2>1, FS_EmptySet
  <2> QED
    BY <2>1, <2>2, BitPositive DEF GateInit, GateInv, GateTypeOK, Word, ClosedBit
<1>2. GateInv /\ [GateNext]_gateVars => GateInv'
  <2> SUFFICES ASSUME GateInv, [GateNext]_gateVars PROVE GateInv'
    OBVIOUS
  <2> USE BitPositive DEF HasBit, Count, ClosedBit, Word
  <2>0. Inside \in SUBSET Users /\ Inside' \in SUBSET Users
    BY DEF Inside
  <2>f. /\ Cardinality(Inside) \in Nat /\ Cardinality(Inside) < GateClosed
        /\ Cardinality(Inside') \in Nat /\ Cardinality(Inside') < GateClosed
        /\ Cardinality(Inside) = 0 <=> Inside = {}
        /\ Cardinality(Inside') = 0 <=> Inside' = {}
    BY <2>0, InsideFinite
  <2>1. ASSUME NEW u \in Users, CallEnter(u) PROVE GateInv'
    <3>1. Inside' = Inside
      BY <2>1 DEF CallEnter, Inside, GateInv, GateTypeOK
    <3> QED BY <2>1, <3>1 DEF CallEnter, GateInv, GateTypeOK
  <2>2. ASSUME NEW u \in Users, EnterLoad(u) PROVE GateInv'
    <3>1. Inside' = Inside
      BY <2>2 DEF EnterLoad, Inside, GateInv, GateTypeOK
    <3> QED BY <2>2, <3>1 DEF EnterLoad, GateInv, GateTypeOK
  <2>3. ASSUME NEW u \in Users, EnterCAS(u) PROVE GateInv'
    <3>1. CASE userCount = seen[u]
      <4>1. Inside' = Inside \cup {u} /\ u \notin Inside
        BY <2>3, <3>1 DEF EnterCAS, Inside, GateInv, GateTypeOK
      <4>2. Cardinality(Inside') = Cardinality(Inside) + 1
        BY <4>1, <2>0, InsideAdd
      <4>3. ~ClosedBit
        BY <2>3, <3>1, <2>f DEF EnterCAS, GateInv, GateTypeOK
      <4> QED BY <2>3, <3>1, <4>2, <4>3, <2>f DEF EnterCAS, GateInv, GateTypeOK
    <3>2. CASE userCount # seen[u]
      <4>1. Inside' = Inside
        BY <2>3, <3>2 DEF EnterCAS, Inside, GateInv, GateTypeOK
      <4> QED BY <2>3, <3>2, <4>1 DEF EnterCAS, GateInv, GateTypeOK
    <3> QED BY <3>1, <3>2
  <2>4. ASSUME NEW u \in Users, CallLeave(u) PROVE GateInv'
    <3>1. Inside' = Inside
      BY <2>4 DEF CallLeave, Inside, GateInv, GateTypeOK
    <3> QED BY <2>4, <3>1 DEF CallLeave, GateInv, GateTypeOK
  <2>5. ASSUME NEW u \in Users, LeaveLoad(u) PROVE GateInv'
    <3>1. Inside' = Inside
      BY <2>5 DEF LeaveLoad, Inside, GateInv, GateTypeOK
    <3> QED BY <2>5, <3>1 DEF LeaveLoad, GateInv, GateTypeOK
  <2>6. ASSUME NEW u \in Users, LeaveCAS(u) PROVE GateInv'
    <3>1. CASE Leaves(u)
      <4>1. Inside' = Inside \ {u} /\ u \in Inside
        BY <2>6, <3>1 DEF LeaveCAS, Leaves, Inside, GateInv, GateTypeOK
      <4>2. Cardinality(Inside') = Cardinality(Inside) - 1
        BY <4>1, <2>0, InsideRemove
      <4>3. userCount' = userCount - 1 /\ closer' = closer
        BY <2>6, <3>1 DEF LeaveCAS, Leaves
      <4>4. closer # "returned"
        BY <4>1 DEF GateInv
      <4>5. GateTypeOK'
        <5>1. Cardinality(Inside) > 0
          BY <4>1, <2>f
        <5>2. userCount - 1 \in Word
          BY <5>1, <2>f DEF GateInv, GateTypeOK
        <5>3. done' \in {"nil", "made", "closed"}
          BY <2>6, <3>1 DEF LeaveCAS, GateInv, GateTypeOK
        <5> QED
          BY <2>6, <3>1, <4>3, <5>2, <5>3 DEF LeaveCAS, GateInv, GateTypeOK
      <4>6. closer = "wait" => done' = (IF Inside' = {} THEN "closed" ELSE "made")
        <5> SUFFICES ASSUME closer = "wait"
                     PROVE  done' = (IF Inside' = {} THEN "closed" ELSE "made")
          OBVIOUS
        <5>1. seen[u] = Cardinality(Inside) + GateClosed
          BY <3>1 DEF Leaves, GateInv
        <5>2. seen[u] = GateClosed + 1 <=> Inside' = {}
          BY <5>1, <4>2, <2>f
        <5>3. done = "made"
          BY <4>1 DEF GateInv
        <5> QED BY <2>6, <3>1, <5>2, <5>3 DEF LeaveCAS
      <4>7. ~ClosedBit => done' = done
        <5> SUFFICES ASSUME ~ClosedBit PROVE done' = done
          OBVIOUS
        <5>1. seen[u] = Cardinality(Inside)
          BY <3>1, <2>f DEF Leaves, GateInv
        <5> QED BY <2>6, <3>1, <5>1, <2>f DEF LeaveCAS
      <4>8. userCount' = Cardinality(Inside') + (IF ClosedBit' THEN GateClosed ELSE 0)
        BY <4>2, <4>3, <2>f DEF GateInv, GateTypeOK
      <4>9. (\A w \in Users : pc[w] = "entering" => ~HasBit(seen[w]))'
        BY <2>6, <3>1 DEF LeaveCAS, GateInv, GateTypeOK
      <4>10. (\A w \in Users : pc[w] = "leaving" => Count(seen[w]) # 0)'
        BY <2>6, <3>1 DEF LeaveCAS, GateInv, GateTypeOK
      <4>11. (closer = "cas" => ~HasBit(cseen) /\ (cseen # 0 => done = "made"))'
        BY <2>6, <4>3, <4>7 DEF LeaveCAS, GateInv
      <4>12. (~ClosedBit => done # "closed")'
        BY <4>3, <4>7 DEF GateInv
      <4>13. (closer = "wait" => done = (IF Inside = {} THEN "closed" ELSE "made"))'
        BY <4>3, <4>6
      <4>14. (closer = "returned" => Inside = {})'
        BY <4>3, <4>4
      <4> HIDE DEF HasBit, Count, ClosedBit, Word
      <4> QED
        BY <4>5, <4>8, <4>9, <4>10, <4>11, <4>12, <4>13, <4>14 DEF GateInv
    <3>2. CASE ~Leaves(u)
      <4>1. Inside' = Inside
        BY <2>6, <3>2 DEF LeaveCAS, Inside, GateInv, GateTypeOK
      <4> QED BY <2>6, <3>2, <4>1 DEF LeaveCAS, GateInv, GateTypeOK
    <3> QED BY <3>1, <3>2
  <2>7. CASE CallClose
    <3>1. Inside' = Inside
      BY <2>7 DEF CallClose, Inside
    <3> QED BY <2>7, <3>1 DEF CallClose, GateInv, GateTypeOK
  <2>8. CASE CloseLoad
    <3>1. Inside' = Inside
      BY <2>8 DEF CloseLoad, Inside
    <3> QED BY <2>8, <3>1, <2>f DEF CloseLoad, GateInv, GateTypeOK
  <2>9. CASE CloseCAS
    <3>1. Inside' = Inside
      BY <2>9 DEF CloseCAS, Inside
    <3> QED BY <2>9, <3>1, <2>f DEF CloseCAS, SetBit, GateInv, GateTypeOK
  <2>10. CASE CloseWait
    <3>1. Inside' = Inside
      BY <2>10 DEF CloseWait, Inside
    <3> QED BY <2>10, <3>1 DEF CloseWait, GateInv, GateTypeOK
  <2>11. CASE UNCHANGED gateVars
    <3>1. Inside' = Inside
      BY <2>11 DEF gateVars, Inside
    <3> QED BY <2>11, <3>1 DEF gateVars, GateInv, GateTypeOK
  <2> QED
    BY <2>1, <2>2, <2>3, <2>4, <2>5, <2>6, <2>7, <2>8, <2>9, <2>10, <2>11
    DEF GateNext, EnterStep, LeaveStep, CloseStep
<1> QED BY <1>1, <1>2, PTL DEF GateSpec

\* Leave never panics: it finds itself counted, and closes done only when the
\* channel has been made and is still open.
THEOREM GateNoPanic == GateSpec => []NoPanic
<1>1. GateInv => NoPanic
  <2> SUFFICES ASSUME GateInv, NEW u \in Users
               PROVE  /\ pc[u] = "leave" => Count(userCount) # 0
                      /\ Leaves(u) /\ seen[u] = GateClosed + 1 => done = "made"
    BY DEF NoPanic
  <2>0. Inside \in SUBSET Users
    BY DEF Inside
  <2>1. /\ Cardinality(Inside) \in Nat
        /\ Cardinality(Inside) < GateClosed
        /\ Cardinality(Inside) = 0 <=> Inside = {}
    BY <2>0, InsideFinite
  <2>2. pc[u] = "leave" => Count(userCount) # 0
    <3> SUFFICES ASSUME pc[u] = "leave" PROVE Count(userCount) # 0
      OBVIOUS
    <3>1. Inside # {}
      BY DEF Inside
    <3> QED BY <2>1, <3>1, BitPositive DEF GateInv, GateTypeOK, Count, HasBit
  <2>3. Leaves(u) /\ seen[u] = GateClosed + 1 => done = "made"
    <3> SUFFICES ASSUME Leaves(u), seen[u] = GateClosed + 1 PROVE done = "made"
      OBVIOUS
    <3>1. Inside # {}
      BY DEF Inside, Leaves
    <3>2. ClosedBit
      BY <2>1, BitPositive DEF Leaves, GateInv
    <3> QED BY <3>1, <3>2 DEF ClosedBit, GateInv
  <2> QED BY <2>2, <2>3
<1> QED BY <1>1, GateInvariant, PTL

\* When Close has returned, nobody is inside the gate.
THEOREM GateClosedMeansEmpty == GateSpec => []ClosedMeansEmpty
<1>1. GateInv => ClosedMeansEmpty
  BY DEF GateInv, ClosedMeansEmpty
<1> QED BY <1>1, GateInvariant, PTL

\* The compare-and-swap gate implements the abstract gate: the successful swaps
\* of Enter, Leave and Close are its steps, and all other steps are invisible.
THEOREM GateImplementsAbstract == GateSpec => ImplementsAbstractGate
<1>1. GateInit => Abstract!AbsInit
  BY DEF GateInit, Abstract!AbsInit, Inside, Status
<1>2. GateInv /\ [GateNext]_gateVars => [Abstract!AbsNext]_(Abstract!absVars)
  <2> SUFFICES ASSUME GateInv, [GateNext]_gateVars
               PROVE  \/ Abstract!AbsNext
                      \/ Inside' = Inside /\ Status' = Status
    BY DEF Abstract!absVars
  <2> USE DEF GateInv, GateTypeOK
  <2>0. Inside \in SUBSET Users
    BY DEF Inside
  <2>f. /\ Cardinality(Inside) \in Nat /\ Cardinality(Inside) < GateClosed
        /\ Cardinality(Inside) = 0 <=> Inside = {}
    BY <2>0, InsideFinite
  <2>1. ASSUME NEW u \in Users, CallEnter(u) \/ EnterLoad(u) \/ CallLeave(u) \/ LeaveLoad(u)
        PROVE  Inside' = Inside /\ Status' = Status
    BY <2>1 DEF CallEnter, EnterLoad, CallLeave, LeaveLoad, Inside, Status
  <2>2. ASSUME NEW u \in Users, EnterCAS(u)
        PROVE  Abstract!AbsEnter(u) \/ (Inside' = Inside /\ Status' = Status)
    <3>1. CASE userCount = seen[u]
      <4>1. Inside' = Inside \cup {u} /\ u \notin Inside
        BY <2>2, <3>1 DEF EnterCAS, Inside
      <4>2. Status = "open" /\ Status' = Status
        BY <2>2, <3>1, <2>f, BitPositive DEF EnterCAS, Status, ClosedBit, HasBit
      <4> QED BY <4>1, <4>2 DEF Abstract!AbsEnter
    <3>2. CASE userCount # seen[u]
      BY <2>2, <3>2 DEF EnterCAS, Inside, Status
    <3> QED BY <3>1, <3>2
  <2>3. ASSUME NEW u \in Users, LeaveCAS(u)
        PROVE  Abstract!AbsLeave(u) \/ (Inside' = Inside /\ Status' = Status)
    <3>0. Status' = Status
      BY <2>3 DEF LeaveCAS, Status
    <3>1. CASE Leaves(u)
      <4>1. Inside' = Inside \ {u} /\ u \in Inside
        BY <2>3, <3>1 DEF LeaveCAS, Leaves, Inside
      <4> QED BY <3>0, <4>1 DEF Abstract!AbsLeave
    <3>2. CASE ~Leaves(u)
      BY <2>3, <3>0, <3>2 DEF LeaveCAS, Inside
    <3> QED BY <3>1, <3>2
  <2>4. CASE CallClose \/ CloseLoad
    BY <2>4 DEF CallClose, CloseLoad, Inside, Status
  <2>5. CASE CloseCAS
    <3>0. Inside' = Inside
      BY <2>5 DEF CloseCAS, Inside
    <3>1. CASE userCount = cseen
      <4>1. Status = "open"
        BY <2>5 DEF CloseCAS, Status
      <4>2. Count(cseen) = 0 <=> Inside = {}
        BY <2>5, <3>1, <2>f, BitPositive DEF CloseCAS, ClosedBit, Count, HasBit
      <4>3. Status' = IF Inside = {} THEN "closed" ELSE "closing"
        BY <2>5, <3>1, <4>2 DEF CloseCAS, Status
      <4>4. Abstract!AbsClose
        BY <3>0, <4>1, <4>3 DEF Abstract!AbsClose
      <4> QED BY <4>4 DEF Abstract!AbsNext
    <3>2. CASE userCount # cseen
      BY <2>5, <3>0, <3>2 DEF CloseCAS, Status
    <3> QED BY <3>1, <3>2
  <2>6. CASE CloseWait
    <3>0. Inside' = Inside
      BY <2>6 DEF CloseWait, Inside
    <3>1. Inside = {}
      BY <2>6 DEF CloseWait
    <3>2. Status = "closing" /\ Status' = "closed"
      BY <2>6 DEF CloseWait, Status
    <3>3. Abstract!AbsCloseReturns
      BY <3>0, <3>1, <3>2 DEF Abstract!AbsCloseReturns
    <3> QED BY <3>3 DEF Abstract!AbsNext
  <2>7. CASE UNCHANGED gateVars
    BY <2>7 DEF gateVars, Inside, Status
  <2> QED
    BY <2>1, <2>2, <2>3, <2>4, <2>5, <2>6, <2>7
    DEF GateNext, EnterStep, LeaveStep, CloseStep, Abstract!AbsNext
<1> QED BY <1>1, <1>2, GateInvariant, PTL
  DEF GateSpec, ImplementsAbstractGate, Abstract!AbsSpec
=============================================================================
