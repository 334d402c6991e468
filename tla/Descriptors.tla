---------------------------- MODULE Descriptors ----------------------------
(***************************************************************************)
(* The descriptor table of the server process and the goroutines that open *)
(* sockets in it: SocketPair, Connect, Bind, BindAndListen, Accept and     *)
(* NewSocket of src/server/gvisor/unet/unet.go, the descriptors received   *)
(* in a control message, and what newSandbox and Run of                    *)
(* src/server/gvisor/gvisor_linux.go do with them.                         *)
(*                                                                         *)
(* A descriptor is a number that the kernel gives again once it is closed, *)
(* the lowest one first: closing a number twice closes whatever somebody   *)
(* else has opened meanwhile.  The table is bounded (RLIMIT_NOFILE), so    *)
(* every call that opens a descriptor may fail.  What goes on while a      *)
(* Socket is used is the subject of Socket.                                *)
(***************************************************************************)
EXTENDS Integers

CONSTANTS
    Threads,    \* the goroutines
    MaxFds      \* the descriptors the process may have

Tags == {"free", "other", "file", "lost"}

ASSUME DescriptorsAssumption ==
    /\ MaxFds \in Nat
    /\ Threads \cap Tags = {}

\* SocketPair, Connect, BindAndListen and Accept
Constructors == {"pair", "connect", "listen", "accept"}

Fds == 1 .. MaxFds

\* The local variables of a call that hold descriptors, 0 if there is none: its
\* sockets a and b and their event descriptors, in the order of their closing.
\* An accepted socket is a, and b is what came over it in a control message.
EA == 1
A == 2
EB == 3
B == 4
Slots == 1 .. 4

VARIABLES
    owner,      \* the table: for whom a descriptor was opened, "free" if it is not
    local,      \* the numbers a call holds
    files,      \* the numbers held by os.Files
    pc,         \* where a call is
    call        \* which call it is

descVars == <<owner, local, files, pc, call>>

DescTypeOK ==
    /\ owner \in [Fds -> Threads \cup Tags]
    /\ local \in [Threads -> [Slots -> {0} \cup Fds]]
    /\ files \subseteq Fds
    /\ pc \in [Threads -> {"idle", "open", "link", "wrap", "wrapb", "listen",
                           "have", "undo", "close", "failed"}]
    /\ call \in [Threads -> Constructors]

Nothing == [s \in Slots |-> 0]

DescInit ==
    /\ owner \in [Fds -> {"free", "other"}]
    /\ local = [p \in Threads |-> Nothing]
    /\ files = {}
    /\ pc = [p \in Threads |-> "idle"]
    /\ call = [p \in Threads |-> "pair"]

----------------------------------------------------------------------------
(* The kernel (external) *)

Lowest(n) == owner[n] = "free" /\ \A m \in Fds : m < n => owner[m] # "free"
Second(n, m) == Lowest(n) /\ n < m /\ owner[m] = "free"
                /\ \A k \in Fds : n < k /\ k < m => owner[k] # "free"

\* A system call gives p a descriptor, which p keeps in slot s
Opens(p, s) ==
    \E n \in Fds :
        /\ Lowest(n)
        /\ owner' = [owner EXCEPT ![n] = p]
        /\ local' = [local EXCEPT ![p][s] = n]

\* What p has opened becomes the business of t
PassOn(p, t) == [n \in Fds |-> IF owner[n] = p THEN t ELSE owner[n]]

Goto(p, from, to) == pc[p] = from /\ pc' = [pc EXCEPT ![p] = to]

----------------------------------------------------------------------------
(* The constructors *)

Call(p) ==
    /\ Goto(p, "idle", "open")
    /\ \E k \in Constructors : call' = [call EXCEPT ![p] = k]
    /\ UNCHANGED <<owner, local, files>>

\* syscall.Socketpair
OpenPair(p) ==
    /\ call[p] = "pair"
    /\ Goto(p, "open", "wrap")
    /\ \E n, m \in Fds :
          /\ Second(n, m)
          /\ owner' = [owner EXCEPT ![n] = p, ![m] = p]
          /\ local' = [local EXCEPT ![p] = [@ EXCEPT ![A] = n, ![B] = m]]
    /\ UNCHANGED <<files, call>>

\* socket in Connect and Bind, syscall.Accept in Accept
OpenSocket(p) ==
    /\ call[p] # "pair"
    /\ Goto(p, "open", IF call[p] = "accept" THEN "wrap" ELSE "link")
    /\ Opens(p, A)
    /\ UNCHANGED <<files, call>>

\* ... or the error is returned
OpenFails(p) ==
    /\ Goto(p, "open", "failed")
    /\ UNCHANGED <<owner, local, files, call>>

\* syscall.Connect or syscall.Bind; after an error the descriptor is closed
Link(p) ==
    /\ Goto(p, "link", "wrap") \/ Goto(p, "link", "undo")
    /\ UNCHANGED <<owner, local, files, call>>

AfterWrap(p) ==
    IF call[p] = "pair" THEN "wrapb" ELSE IF call[p] = "listen" THEN "listen" ELSE "have"

\* NewSocket: SetNonblock and eventFD
NewSocket(p) ==
    /\ Goto(p, "wrap", AfterWrap(p))
    /\ Opens(p, EA)
    /\ UNCHANGED <<files, call>>

\* Mutant of NewSocketFails: SocketPair relies on NewSocket, too
NewSocketFailsOpen(p) ==
    /\ Goto(p, "wrap", "failed")
    /\ local' = [local EXCEPT ![p] = Nothing]
    /\ UNCHANGED <<owner, files, call>>

\* One of these fails, and NewSocket returns the error only.  SocketPair closes
\* both ends; Connect, Bind and Accept return, and nobody knows the number.
NewSocketFails(p) ==
    /\ Goto(p, "wrap", IF call[p] = "pair" THEN "undo" ELSE "failed")
    /\ IF call[p] = "pair" THEN UNCHANGED local
       ELSE local' = [local EXCEPT ![p] = Nothing]
    /\ UNCHANGED <<owner, files, call>>

\* SocketPair: NewSocket of the other end, or a.Close() and syscall.Close(fds[1])
NewSocketB(p) ==
    /\ \/ Goto(p, "wrapb", "have") /\ Opens(p, EB)
       \/ Goto(p, "wrapb", "undo") /\ UNCHANGED <<owner, local>>
    /\ UNCHANGED <<files, call>>

\* s.Listen() in BindAndListen, and s.Close() if it fails
Listen(p) ==
    /\ Goto(p, "listen", "have") \/ Goto(p, "listen", "undo")
    /\ UNCHANGED <<owner, local, files, call>>

----------------------------------------------------------------------------
(* Closing *)

\* Mutant of CloseOne: the number is kept, and so closed again later
CloseOneKeeps(p) ==
    \E s \in Slots :
        /\ pc[p] \in {"undo", "close"}
        /\ local[p][s] # 0
        /\ \A t \in Slots : t < s => local[p][t] = 0
        /\ owner' = [owner EXCEPT ![local[p][s]] = "free"]
        /\ UNCHANGED <<local, files, pc, call>>

\* syscall.Close, and Socket.Close, which closes first efd and then fd.  The
\* number is closed whoever has it now.  That Socket.Close keeps fd open when
\* finish fails (unet.go:138-140) is left out: the write to an event descriptor
\* nobody else has used does not fail.  Socket.FinishFails has that case.
CloseOne(p) ==
    \E s \in Slots :
        /\ pc[p] \in {"undo", "close"}
        /\ local[p][s] # 0
        /\ \A t \in Slots : t < s => local[p][t] = 0
        /\ owner' = [owner EXCEPT ![local[p][s]] = "free"]
        /\ local' = [local EXCEPT ![p][s] = 0]
        /\ UNCHANGED <<files, pc, call>>

ClosedAll(p) ==
    /\ local[p] = Nothing
    /\ Goto(p, "undo", "failed") \/ Goto(p, "close", "idle")
    /\ UNCHANGED <<owner, local, files, call>>

----------------------------------------------------------------------------
(* What the callers do with the sockets they get *)

\* They close them, as the tests of unet do
Close(p) ==
    /\ call[p] = "pair" \/ local[p][B] = 0
    /\ Goto(p, "have", "close")
    /\ UNCHANGED <<owner, local, files, call>>

\* Mutant of HandOver: the sockets are closed although the File has one of them
HandOverAndClose(p) ==
    /\ call[p] = "pair"
    /\ Goto(p, "have", "close")
    /\ files' = files \cup {local[p][B]}
    /\ owner' = [owner EXCEPT ![local[p][B]] = "file"]
    /\ UNCHANGED <<local, call>>

\* Run: os.NewFile(uintptr(...FD()), "") of the end for the shell, b here (it is a
\* for stdin).  Nothing ever closes our end, or the event descriptors.
HandOver(p) ==
    /\ call[p] = "pair"
    /\ Goto(p, "have", "idle")
    /\ files' = files \cup {local[p][B]}
    /\ owner' = [PassOn(p, "lost") EXCEPT ![local[p][B]] = "file"]
    /\ local' = [local EXCEPT ![p] = Nothing]
    /\ UNCHANGED call

\* newSandbox never closes the listener of the console, nor what it accepted, nor
\* the descriptor it received; Run leaves its pairs when a later SocketPair makes
\* it panic
Abandon(p) ==
    /\ Goto(p, "have", "idle")
    /\ owner' = PassOn(p, "lost")
    /\ local' = [local EXCEPT ![p] = Nothing]
    /\ UNCHANGED <<files, call>>

\* EnableFDs, ReadVec and ExtractFDs: a descriptor comes in a control message
Receive(p) ==
    /\ call[p] = "accept"
    /\ local[p][B] = 0
    /\ Goto(p, "have", "have")
    /\ Opens(p, B)
    /\ UNCHANGED <<files, call>>

\* CloseFDs, instead
CloseFDs(p) ==
    /\ call[p] = "accept"
    /\ local[p][B] # 0
    /\ Goto(p, "have", "have")
    /\ owner' = [owner EXCEPT ![local[p][B]] = "free"]
    /\ local' = [local EXCEPT ![p][B] = 0]
    /\ UNCHANGED <<files, call>>

\* The error is seen: newSandbox returns it, Run panics in its handler
Return(p) ==
    /\ Goto(p, "failed", "idle")
    /\ owner' = PassOn(p, "lost")
    /\ UNCHANGED <<local, files, call>>

\* log.Fatalf: Accept failed, or the message was not one descriptor (two may
\* come, EnableFDs rounds up).  The process ends and is started again.
Fatal(p) ==
    /\ call[p] = "accept"
    /\ pc[p] \in {"failed", "have"}
    /\ owner' = [n \in Fds |-> "free"]
    /\ local' = [q \in Threads |-> Nothing]
    /\ files' = {}
    /\ pc' = [q \in Threads |-> "idle"]
    /\ UNCHANGED call

\* The garbage collector finalises an os.File (external)
Finalize(n) ==
    /\ n \in files
    /\ files' = files \ {n}
    /\ owner' = [owner EXCEPT ![n] = "free"]
    /\ UNCHANGED <<local, pc, call>>

\* The rest of the process opens and closes descriptors of its own
Others ==
    /\ \E n \in Fds :
          \/ Lowest(n) /\ owner' = [owner EXCEPT ![n] = "other"]
          \/ owner[n] = "other" /\ owner' = [owner EXCEPT ![n] = "free"]
    /\ UNCHANGED <<local, files, pc, call>>

----------------------------------------------------------------------------

ConstructStep(p) ==
    \/ Call(p) \/ OpenPair(p) \/ OpenSocket(p) \/ OpenFails(p) \/ Link(p)
    \/ NewSocket(p) \/ NewSocketFails(p) \/ NewSocketB(p) \/ Listen(p)
    \/ CloseOne(p) \/ ClosedAll(p)

CallerStep(p) ==
    \/ Close(p) \/ HandOver(p) \/ Abandon(p) \/ Receive(p) \/ CloseFDs(p)
    \/ Return(p) \/ Fatal(p)

DescNext ==
    \/ \E p \in Threads : ConstructStep(p) \/ CallerStep(p)
    \/ \E n \in Fds : Finalize(n)
    \/ Others

DescSpec == DescInit /\ [][DescNext]_descVars

----------------------------------------------------------------------------
(* Properties *)

\* Every number that somebody will use or close is still the descriptor that was
\* opened for it, and not one the kernel gave to somebody else since: what
\* SocketPair rolls back, what Close closes (unet.go:219-227, 122, 142), and the
\* number of which Run makes an os.File (gvisor_linux.go:631).
StillMine ==
    /\ \A p \in Threads, s \in Slots : local[p][s] # 0 => owner[local[p][s]] = p
    /\ \A n \in files : owner[n] = "file"

\* A SocketPair that fails, at whichever of the steps by which it opens
\* descriptors and however full the table is, gives back all it has opened,
\* provided that Close succeeds on the socket it has just made; and while a call
\* goes on, each descriptor opened for it is in one of its variables.
PairRollsBack ==
    \A p \in Threads, n \in Fds :
        owner[n] = p =>
            \/ \E s \in Slots : local[p][s] = n
            \/ pc[p] = "failed" /\ call[p] # "pair"

\* The inductive invariant behind these: which variables are set at each step,
\* each to a number of its own
Stage(p) ==
    /\ \A s, t \in Slots : local[p][s] = local[p][t] /\ local[p][s] # 0 => s = t
    /\ pc[p] \in {"idle", "open", "failed"} => local[p] = Nothing
    /\ pc[p] \in {"wrap", "wrapb", "have"} /\ call[p] = "pair" => local[p][B] # 0
    /\ pc[p] \in {"link", "listen"} => call[p] # "pair"
    /\ pc[p] \in {"link", "wrap"} => local[p][EA] = 0
    /\ pc[p] \in {"link", "wrap", "wrapb"} => local[p][EB] = 0

DescInv ==
    /\ DescTypeOK
    /\ StillMine
    /\ PairRollsBack
    /\ \A p \in Threads : Stage(p)

\* log.Fatalf ended the process
Restarts == owner' = [n \in Fds |-> "free"] /\ pc' = [q \in Threads |-> "idle"]

\* A step of p, and of no other goroutine
StepOf(p) ==
    /\ local'[p] # local[p] \/ pc'[p] # pc[p]
    /\ \A q \in Threads \ {p} : local'[q] = local[q] /\ pc'[q] = pc[q]

\* Who takes this step may close or give away n
MayChange(n) ==
    \/ owner[n] = "free"
    \/ owner[n] = "other" /\ UNCHANGED <<local, files, pc, call>>
    \/ owner[n] = "file" /\ n \in files \ files' /\ UNCHANGED <<local, pc, call>>
    \/ owner[n] \in Threads /\ StepOf(owner[n])

\* A descriptor is closed or given away by the one it was opened for, and by
\* nobody else: a goroutine at a step of its own (unet.go:219-227, 122, 142), an
\* os.File when it is finalised, the rest of the process.  So what is lost, our
\* ends of the pairs of Run (gvisor_linux.go:606-621), stays open until the process
\* ends, and every connection takes its share of the table.
OnlyOwnerCloses ==
    [][Restarts \/ \A n \in Fds : owner'[n] # owner[n] => MayChange(n)]_descVars

\* unet.go:90 says that NewSocket takes ownership of the descriptor: whichever
\* constructor fails, nothing stays open that nobody can close.
NewSocketOwns ==
    \A p \in Threads, n \in Fds : pc[p] = "failed" => owner[n] # p
=============================================================================
