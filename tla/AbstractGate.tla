---------------------------- MODULE AbstractGate ----------------------------
(***************************************************************************)
(* What a gate promises, from the comments on gate.Gate (the vendored      *)
(* package github.com/google/netstack/gate): users enter and leave; one    *)
(* closer closes it, after which nobody enters, and its Close returns once *)
(* everybody inside has left.                                              *)
(***************************************************************************)
CONSTANT Users

VARIABLES
    inside,     \* the users that have entered and not left
    status      \* "open", "closing" (Close waits) or "closed" (Close returned)

absVars == <<inside, status>>

AbsInit == inside = {} /\ status = "open"

\* A successful Enter
AbsEnter(u) ==
    /\ status = "open"
    /\ u \notin inside
    /\ inside' = inside \cup {u}
    /\ UNCHANGED status

AbsLeave(u) ==
    /\ u \in inside
    /\ inside' = inside \ {u}
    /\ UNCHANGED status

\* Close takes effect; it waits if somebody is inside
AbsClose ==
    /\ status = "open"
    /\ status' = IF inside = {} THEN "closed" ELSE "closing"
    /\ UNCHANGED inside

AbsCloseReturns ==
    /\ status = "closing"
    /\ inside = {}
    /\ status' = "closed"
    /\ UNCHANGED inside

AbsNext ==
    \/ \E u \in Users : AbsEnter(u) \/ AbsLeave(u)
    \/ AbsClose
    \/ AbsCloseReturns

AbsSpec == AbsInit /\ [][AbsNext]_absVars
=============================================================================
