----------------------------- MODULE Parameters -----------------------------
(***************************************************************************)
(* The parameters shared by the modules of a web session: the sizes the    *)
(* code fixes, made small for model checking, and the bounds that keep the *)
(* model finite.                                                           *)
(***************************************************************************)
EXTENDS Naturals

CONSTANTS
    Conns,      \* the connections: one per call of ServeWS, one sandbox each
    Streams,    \* the output streams of a shell, "stdout" and "stderr"
    SendCap,    \* capacity of c.send (100 in the code)
    BuffLen,    \* cells of an output reader's buffer (1024 bytes in the code)
    StdinCap,   \* writes the stdin socket buffers before Write blocks
    MaxChunks,  \* bound: chunks of output read per stream
    MaxLines    \* bound: boot log lines that mention exec

\* The types of the messages that are not output
Notices == {"info", "event", "error"}

ASSUME ParameterAssumption ==
    /\ Streams \cap (Notices \cup {"none"}) = {}
    /\ SendCap \in Nat \ {0}
    /\ BuffLen \in Nat \ {0}
    /\ StdinCap \in Nat \ {0}
    /\ MaxChunks \in Nat
    /\ MaxLines \in Nat
=============================================================================
