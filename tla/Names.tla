------------------------------- MODULE Names -------------------------------
(***************************************************************************)
(* The names of sandboxes: nextSuffix of src/server/gvisor/gvisor_linux.go *)
(* and the generator rand2 behind it, which the handlers that create       *)
(* sandboxes share under the mutex randmu.  A name is a number here; the   *)
(* code writes it in hexadecimal, which keeps different numbers apart.     *)
(*                                                                         *)
(* The actions describe these variables only; Server conjoins them with    *)
(* the life of the process.                                                *)
(***************************************************************************)
EXTENDS Integers, FiniteSets

CONSTANTS
    Handlers,   \* the calls of Create
    Mod,        \* the generator works modulo 2^32
    Mult, Inc,  \* 1664525 and 1013904223
    Base        \* 1e9

\* Nothing overflows in Base + r % Base
ASSUME NamesAssumption ==
    /\ Mod \in Nat \ {0}
    /\ Mult \in Nat
    /\ Inc \in Nat
    /\ Base \in Nat \ {0}
    /\ 2 * Base <= Mod
    /\ "free" \notin Handlers

VARIABLES
    rand2,      \* the generator's state, 0 before the first draw
    randmu,     \* who holds the mutex
    draw,       \* where a handler is in nextSuffix
    r,          \* its local variable r
    name,       \* the name it was given
    drawn,      \* history: the states since the generator was seeded last ...
    count       \* ... and how many draws that were

nameVars == <<rand2, randmu, draw, r, name, drawn, count>>

Word == 0 .. Mod - 1
NextState(x) == (x * Mult + Inc) % Mod

NamesTypeOK ==
    /\ rand2 \in Word
    /\ randmu \in Handlers \cup {"free"}
    /\ draw \in [Handlers -> {"idle", "lock", "load", "store", "unlock"}]
    /\ r \in [Handlers -> Word]
    /\ name \in [Handlers -> 0 .. 2 * Base - 1]
    /\ drawn \subseteq Word
    /\ count \in Nat

\* A process that starts: the package variables are zero
Unseeded ==
    /\ rand2' = 0
    /\ randmu' = "free"
    /\ draw' = [h \in Handlers |-> "idle"]
    /\ r' = [h \in Handlers |-> 0]
    /\ drawn' = {}
    /\ count' = 0

NamesInit ==
    /\ rand2 = 0
    /\ randmu = "free"
    /\ draw = [h \in Handlers |-> "idle"]
    /\ r = [h \in Handlers |-> 0]
    /\ name = [h \in Handlers |-> 0]
    /\ drawn = {}
    /\ count = 0

At(h, from, to) == draw[h] = from /\ draw' = [draw EXCEPT ![h] = to]

CallNext(h) ==
    /\ At(h, "idle", "lock")
    /\ UNCHANGED <<rand2, randmu, r, name, drawn, count>>

\* Mutant of Lock: the mutex is not there
LockNot(h) ==
    /\ At(h, "lock", "load")
    /\ randmu' = h
    /\ UNCHANGED <<rand2, r, name, drawn, count>>

\* randmu.Lock()
Lock(h) ==
    /\ randmu = "free"
    /\ At(h, "lock", "load")
    /\ randmu' = h
    /\ UNCHANGED <<rand2, r, name, drawn, count>>

\* r := rand2, or a seed from the clock and the process id if that is 0
Load(h) ==
    /\ At(h, "load", "store")
    /\ IF rand2 = 0
       THEN /\ \E seed \in Word : r' = [r EXCEPT ![h] = seed]
            /\ drawn' = {}
            /\ count' = 0
       ELSE /\ r' = [r EXCEPT ![h] = rand2]
            /\ UNCHANGED <<drawn, count>>
    /\ UNCHANGED <<rand2, randmu, name>>

\* r = r*1664525 + 1013904223; rand2 = r
Store(h) ==
    /\ At(h, "store", "unlock")
    /\ r' = [r EXCEPT ![h] = NextState(@)]
    /\ rand2' = NextState(r[h])
    /\ drawn' = drawn \cup {NextState(r[h])}
    /\ count' = count + 1
    /\ UNCHANGED <<randmu, name>>

\* Mutant of Unlock: it returns without unlocking
UnlockNot(h) ==
    /\ At(h, "unlock", "idle")
    /\ name' = [name EXCEPT ![h] = Base + (r[h] % Base)]
    /\ UNCHANGED <<rand2, randmu, r, drawn, count>>

\* randmu.Unlock(); 1e9 + r%1e9
Unlock(h) ==
    /\ At(h, "unlock", "idle")
    /\ randmu' = "free"
    /\ name' = [name EXCEPT ![h] = Base + (r[h] % Base)]
    /\ UNCHANGED <<rand2, r, drawn, count>>

DrawStep(h) == Lock(h) \/ Load(h) \/ Store(h)

----------------------------------------------------------------------------
(* Properties *)

\* Whoever is between reading the generator and writing it back has its present
\* state in hand (or a seed, if there is none yet): no draw overwrites another,
\* however the handlers interleave.
DrawAtomic ==
    \A h \in Handlers :
        /\ draw[h] \in {"load", "store", "unlock"} => randmu = h
        /\ draw[h] = "store" => rand2 \in {0, r[h]}
        /\ draw[h] = "unlock" => rand2 = r[h]

\* The draws between two seeds are all different: the generator runs through all
\* its states before it comes back, and when it passes 0 it is seeded again.
UniqueDraws == Cardinality(drawn) = count

\* What that takes of the constants: from every state the generator comes to 0 in
\* the end.  rank counts the steps since the last 0; the constants of nextSuffix
\* have such a count, since an odd increment and a multiplier of 1 modulo 4 let a
\* generator modulo a power of two run through all its states.
PassesZero(rank) ==
    /\ rank \in [Word -> Nat]
    /\ \A x \in Word \ {0} : rank[NextState(x)] = rank[x] + 1

\* Why: since the last seed the states drawn have grown in rank, and whoever is to
\* store the first one after a 0 has forgotten the others.
RankInv(rank) ==
    /\ UniqueDraws
    /\ rand2 # 0 => \A x \in drawn : rank[x] <= rank[rand2]
    /\ rand2 = 0 /\ (\E h \in Handlers : draw[h] = "store") => drawn = {}
=============================================================================
