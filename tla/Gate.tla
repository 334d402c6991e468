-------------------------------- MODULE Gate --------------------------------
(***************************************************************************)
(* gate.Gate, src/vendor/github.com/google/netstack/gate/gate.go: the      *)
(* lock-free gate that guards the descriptor of a unet.Socket.  userCount  *)
(* is one atomic word: the number of users inside, and the bit gateClosed. *)
(* Enter, Leave and Close each load the word, decide, and try to install   *)
(* the new value with a compare-and-swap, starting over when it fails; the *)
(* load and the swap are separate steps here.                              *)
(*                                                                         *)
(* GateClosed stands for the bit 1<<31, the top bit of the word, so that a *)
(* value v has it iff v >= GateClosed.  As many users as the count can     *)
(* hold would set the bit by carrying into it, hence the assumption.       *)
(***************************************************************************)
EXTENDS Naturals, FiniteSets

CONSTANTS
    Users,      \* the goroutines that enter and leave
    GateClosed  \* the bit gateClosed, 1<<31 in the code

ASSUME GateAssumption ==
    /\ IsFiniteSet(Users)
    /\ GateClosed \in Nat
    /\ Cardinality(Users) < GateClosed

VARIABLES
    userCount,  \* g.userCount
    done,       \* g.done: nil, an open channel, or a closed one
    pc,         \* where each user is
    seen,       \* v, as the user's Enter or Leave loaded it
    closer,     \* where the goroutine that calls Close is
    cseen       \* v, as Close loaded it

gateVars == <<userCount, done, pc, seen, closer, cseen>>

HasBit(v) == v >= GateClosed                                    \* v & gateClosed != 0
Count(v) == IF HasBit(v) THEN v - GateClosed ELSE v             \* v &^ gateClosed
SetBit(v) == IF HasBit(v) THEN v ELSE v + GateClosed            \* v | gateClosed
Word == 0 .. (2 * GateClosed - 1)

GateTypeOK ==
    /\ userCount \in Word
    /\ done \in {"nil", "made", "closed"}
    /\ pc \in [Users -> {"out", "enter", "entering", "in", "leave", "leaving"}]
    /\ seen \in [Users -> Word]
    /\ closer \in {"idle", "load", "cas", "wait", "returned"}
    /\ cseen \in Word

GateInit ==
    /\ userCount = 0
    /\ done = "nil"
    /\ pc = [u \in Users |-> "out"]
    /\ seen = [u \in Users |-> 0]
    /\ closer = "idle"
    /\ cseen = 0

----------------------------------------------------------------------------
(* Enter *)

CallEnter(u) ==
    /\ pc[u] = "out"
    /\ pc' = [pc EXCEPT ![u] = "enter"]
    /\ UNCHANGED <<userCount, done, seen, closer, cseen>>

\* v := atomic.LoadUint32(&g.userCount); a closed gate is not entered
EnterLoad(u) ==
    /\ pc[u] = "enter"
    /\ IF HasBit(userCount)
       THEN pc' = [pc EXCEPT ![u] = "out"] /\ UNCHANGED seen
       ELSE pc' = [pc EXCEPT ![u] = "entering"] /\ seen' = [seen EXCEPT ![u] = userCount]
    /\ UNCHANGED <<userCount, done, closer, cseen>>

\* Mutant of EnterCAS: an increment that does not compare, so that a Close
\* since the load goes unnoticed
EnterAdds(u) ==
    /\ pc[u] = "entering"
    /\ userCount' = userCount + 1
    /\ pc' = [pc EXCEPT ![u] = "in"]
    /\ seen' = [seen EXCEPT ![u] = 0]
    /\ UNCHANGED <<done, closer, cseen>>

\* atomic.CompareAndSwapUint32(&g.userCount, v, v+1)
EnterCAS(u) ==
    /\ pc[u] = "entering"
    /\ IF userCount = seen[u]
       THEN userCount' = seen[u] + 1 /\ pc' = [pc EXCEPT ![u] = "in"]
       ELSE UNCHANGED userCount /\ pc' = [pc EXCEPT ![u] = "enter"]
    /\ seen' = [seen EXCEPT ![u] = 0]
    /\ UNCHANGED <<done, closer, cseen>>

----------------------------------------------------------------------------
(* Leave *)

CallLeave(u) ==
    /\ pc[u] = "in"
    /\ pc' = [pc EXCEPT ![u] = "leave"]
    /\ UNCHANGED <<userCount, done, seen, closer, cseen>>

\* v := atomic.LoadUint32(&g.userCount); Leave panics if nobody is inside
LeaveLoad(u) ==
    /\ pc[u] = "leave"
    /\ Count(userCount) # 0
    /\ pc' = [pc EXCEPT ![u] = "leaving"]
    /\ seen' = [seen EXCEPT ![u] = userCount]
    /\ UNCHANGED <<userCount, done, closer, cseen>>

\* The swap succeeds in Leave of u
Leaves(u) == pc[u] = "leaving" /\ userCount = seen[u]

\* Mutant of LeaveCAS: whoever leaves a closed gate closes done
LeaveAlwaysNotifies(u) ==
    /\ pc[u] = "leaving"
    /\ IF Leaves(u)
       THEN /\ userCount' = seen[u] - 1
            /\ pc' = [pc EXCEPT ![u] = "out"]
            /\ done' = IF HasBit(seen[u]) THEN "closed" ELSE done
       ELSE UNCHANGED <<userCount, done>> /\ pc' = [pc EXCEPT ![u] = "leave"]
    /\ seen' = [seen EXCEPT ![u] = 0]
    /\ UNCHANGED <<closer, cseen>>

\* Mutant of LeaveCAS: the last one to leave does not notify the closer
LeaveNeverNotifies(u) ==
    /\ pc[u] = "leaving"
    /\ IF Leaves(u)
       THEN userCount' = seen[u] - 1 /\ pc' = [pc EXCEPT ![u] = "out"]
       ELSE UNCHANGED userCount /\ pc' = [pc EXCEPT ![u] = "leave"]
    /\ seen' = [seen EXCEPT ![u] = 0]
    /\ UNCHANGED <<done, closer, cseen>>

\* atomic.CompareAndSwapUint32(&g.userCount, v, v-1), and the last one to leave
\* a closed gate closes g.done
LeaveCAS(u) ==
    /\ pc[u] = "leaving"
    /\ IF Leaves(u)
       THEN /\ userCount' = seen[u] - 1
            /\ pc' = [pc EXCEPT ![u] = "out"]
            /\ done' = IF seen[u] = GateClosed + 1 THEN "closed" ELSE done
       ELSE UNCHANGED <<userCount, done>> /\ pc' = [pc EXCEPT ![u] = "leave"]
    /\ seen' = [seen EXCEPT ![u] = 0]
    /\ UNCHANGED <<closer, cseen>>

----------------------------------------------------------------------------
(* Close, called by one goroutine only *)

CallClose ==
    /\ closer = "idle"
    /\ closer' = "load"
    /\ UNCHANGED <<userCount, done, pc, seen, cseen>>

\* Mutant of CloseLoad: the channel is never made
CloseLoadNoChannel ==
    /\ closer = "load"
    /\ closer' = "cas"
    /\ cseen' = userCount
    /\ UNCHANGED <<userCount, done, pc, seen>>

\* v := atomic.LoadUint32(&g.userCount); g.done is made if somebody is inside
CloseLoad ==
    /\ closer = "load"
    /\ closer' = "cas"
    /\ cseen' = userCount
    /\ done' = IF Count(userCount) # 0 /\ done = "nil" THEN "made" ELSE done
    /\ UNCHANGED <<userCount, pc, seen>>

\* atomic.CompareAndSwapUint32(&g.userCount, v, v|gateClosed); wait if somebody
\* was inside
CloseCAS ==
    /\ closer = "cas"
    /\ IF userCount = cseen
       THEN /\ userCount' = SetBit(cseen)
            /\ closer' = IF Count(cseen) # 0 THEN "wait" ELSE "returned"
       ELSE UNCHANGED userCount /\ closer' = "load"
    /\ cseen' = 0
    /\ UNCHANGED <<done, pc, seen>>

\* <-g.done
CloseWait ==
    /\ closer = "wait"
    /\ done = "closed"
    /\ closer' = "returned"
    /\ UNCHANGED <<userCount, done, pc, seen, cseen>>

----------------------------------------------------------------------------

EnterStep(u) == CallEnter(u) \/ EnterLoad(u) \/ EnterCAS(u)
LeaveStep(u) == CallLeave(u) \/ LeaveLoad(u) \/ LeaveCAS(u)
CloseStep == CloseLoad \/ CloseCAS \/ CloseWait

GateNext ==
    \/ \E u \in Users : EnterStep(u) \/ LeaveStep(u)
    \/ CallClose
    \/ CloseStep

GateSpec == GateInit /\ [][GateNext]_gateVars

(***************************************************************************)
(* Fairness: goroutines are scheduled, and a user inside the gate leaves.  *)
(* Nobody is obliged to enter or to close.  A compare-and-swap loop is     *)
(* lock-free, not wait-free: users that keep entering and leaving may      *)
(* make every swap of Close fail, and no fairness rules that out here.     *)
(***************************************************************************)
GateFairness ==
    /\ WF_gateVars(CloseStep)
    /\ \A u \in Users : WF_gateVars(LeaveStep(u))

GateFairSpec == GateSpec /\ GateFairness

----------------------------------------------------------------------------
(* Properties *)

\* The users inside: Enter's swap has succeeded and Leave's has not
Inside == {u \in Users : pc[u] \in {"in", "leave", "leaving"}}

\* Neither panic of Leave can happen: the count is not zero while a user is
\* inside, and the channel that the last user of a closed gate closes exists
\* and is open.
NoPanic ==
    \A u \in Users :
        /\ pc[u] = "leave" => Count(userCount) # 0
        /\ Leaves(u) /\ seen[u] = GateClosed + 1 => done = "made"

\* When Close has returned nobody is inside, whatever swaps were under way.
ClosedMeansEmpty == closer = "returned" => Inside = {}

\* The inductive invariant behind both: the word is the number of users inside,
\* plus the bit once Close's swap has succeeded; a swap that is still to come
\* compares with a word that passed the check made when it was loaded; and the
\* channel is there before it is needed, closed exactly when a waiting closer
\* has nobody left to wait for.
ClosedBit == closer \in {"wait", "returned"}

GateInv ==
    /\ GateTypeOK
    /\ userCount = Cardinality(Inside) + (IF ClosedBit THEN GateClosed ELSE 0)
    /\ \A u \in Users : pc[u] = "entering" => ~HasBit(seen[u])
    /\ \A u \in Users : pc[u] = "leaving" => Count(seen[u]) # 0
    /\ ~ClosedBit => done # "closed"
    /\ closer = "cas" => ~HasBit(cseen) /\ (cseen # 0 => done = "made")
    /\ closer = "wait" => done = (IF Inside = {} THEN "closed" ELSE "made")
    /\ closer = "returned" => Inside = {}

\* The gate implements its abstract specification.
Status == CASE closer = "wait" -> "closing"
            [] closer = "returned" -> "closed"
            [] OTHER -> "open"

Abstract == INSTANCE AbstractGate WITH inside <- Inside, status <- Status

\* Every step of the gate is a step of the abstract gate or changes nothing
\* that its users can see.
ImplementsAbstractGate == Abstract!AbsSpec

\* Once its swap has closed the gate, Close returns: the loops of those who
\* still have to leave cannot keep each other from ending, and the last one
\* wakes the closer.
CloseReturns == closer = "wait" ~> closer = "returned"
=============================================================================
