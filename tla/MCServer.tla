------------------------------ MODULE MCServer ------------------------------
(* Server for TLC: a generator of three bits with a full period, two handlers. *)
EXTENDS Server, TLC

\* The constants of nextSuffix are of the kind for which a linear congruential
\* generator modulo a power of two runs through all its states; so are these
ASSUME FullPeriod == Mult % 4 = 1 /\ Inc % 2 = 1 /\ 1664525 % 4 = 1 /\ 1013904223 % 2 = 1

\* The states in their order
Period == <<3, 2, 5, 4, 7, 6, 1, 0>>
Rank == [x \in Word |-> CHOOSE i \in 1 .. Mod : Period[i] = x]

ASSUME RankAssumption == PassesZero(Rank)
=============================================================================
