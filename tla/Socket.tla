------------------------------- MODULE Socket -------------------------------
(***************************************************************************)
(* One unet.Socket (or the socket of a ServerSocket), shared by goroutines *)
(* that read, write, accept or query it and by goroutines that close or    *)
(* release it: src/server/gvisor/unet/unet.go and unet_unsafe.go.          *)
(*                                                                         *)
(* The descriptor is protected by a gate, taken here by its specification  *)
(* AbstractGate, which Gate implements.  A goroutine that must wait for    *)
(* the peer polls the descriptor together with the event descriptor efd,   *)
(* which finish() signals.  The kernel's side (what is readable, room to   *)
(* write, the state of both descriptors) is external.                      *)
(***************************************************************************)
EXTENDS AbstractGate, Naturals

CONSTANTS
    Closers,    \* the goroutines that call Close or Release
    Kinds,      \* the calls of the users, a subset of the table below
    MaxReady    \* bound: messages readable, and writes there is room for

(***************************************************************************)
(* "read", "write"       Read and Write, Reader(true) and Writer(true)     *)
(* "tryread", "trywrite" Reader(false) and Writer(false)                   *)
(* "accept"              ServerSocket.Accept, always blocking              *)
(* "option"              GetSockOpt, SetSockOpt, GetSockName, GetPeerName, *)
(*                       GetPeerCred, Listen: one system call, no waiting  *)
(* "shutdown"            Shutdown                                          *)
(***************************************************************************)
AllKinds == {"read", "write", "tryread", "trywrite", "accept", "option", "shutdown"}

ASSUME SocketAssumption ==
    /\ Kinds \subseteq AllKinds
    /\ MaxReady \in Nat \ {0}

VARIABLES
    live,       \* TRUE iff s.fd is a descriptor, FALSE iff it is -1
    kfd,        \* the descriptor itself, in the kernel
    efd,        \* the event descriptor s.efd
    rx,         \* messages (or connections) ready to be taken
    tx,         \* writes the peer's buffer has room for
    pc,         \* where each user is in its call
    kind,       \* which call that is
    cpc,        \* where each closer is
    how         \* "close" or "release", the call it makes

socketVars == <<live, kfd, efd, rx, tx, pc, kind, cpc, how>>
vars == <<absVars, socketVars>>

InGate == {"load", "try", "wait", "poll", "leave"}
Finishing == {"shut", "signal", "gate", "gatewait", "efdclose", "fdclose"}
Usable == {"open", "shut"}

SocketTypeOK ==
    /\ inside \subseteq Users
    /\ status \in {"open", "closing", "closed"}
    /\ live \in BOOLEAN
    /\ kfd \in Usable \cup {"closed", "released"}
    /\ efd \in {"open", "signalled", "closed"}
    /\ rx \in 0..MaxReady
    /\ tx \in 0..MaxReady
    /\ pc \in [Users -> {"out", "enter"} \cup InGate]
    /\ kind \in [Users -> AllKinds]
    /\ cpc \in [Closers -> {"out", "swap", "failed"} \cup Finishing]
    /\ how \in [Closers -> {"close", "release"}]

SocketInit ==
    /\ AbsInit
    /\ live = TRUE
    /\ kfd = "open"
    /\ efd = "open"
    /\ rx = 0
    /\ tx \in {0, MaxReady}
    /\ pc = [u \in Users |-> "out"]
    /\ kind = [u \in Users |-> "option"]
    /\ cpc = [x \in Closers |-> "out"]
    /\ how = [x \in Closers |-> "close"]

Goto(u, l) == pc' = [pc EXCEPT ![u] = l]
Then(x, l) == cpc' = [cpc EXCEPT ![x] = l]

----------------------------------------------------------------------------
(* A user: enterFD, a loop of system calls and waits, gate.Leave. *)

Call(u) ==
    /\ pc[u] = "out"
    /\ \E k \in Kinds : kind' = [kind EXCEPT ![u] = k]
    /\ Goto(u, "enter")
    /\ UNCHANGED <<absVars, live, kfd, efd, rx, tx, cpc, how>>

\* Mutant of Enter: the descriptor is used without entering the gate
EnterNoGate(u) ==
    /\ pc[u] = "enter"
    /\ Goto(u, "load")
    /\ UNCHANGED <<absVars, live, kfd, efd, rx, tx, kind, cpc, how>>

\* s.gate.Enter() in enterFD; EBADF if the gate is closed
Enter(u) ==
    /\ pc[u] = "enter"
    /\ \/ AbsEnter(u) /\ Goto(u, "load")
       \/ status # "open" /\ Goto(u, "out") /\ UNCHANGED absVars
    /\ UNCHANGED <<live, kfd, efd, rx, tx, kind, cpc, how>>

\* atomic.LoadInt32(&s.fd) in enterFD; leave with EBADF if it is -1
LoadFD(u) ==
    /\ pc[u] = "load"
    /\ Goto(u, IF live THEN "try" ELSE "leave")
    /\ UNCHANGED <<absVars, live, kfd, efd, rx, tx, kind, cpc, how>>

Reads(u) == kind[u] \in {"read", "tryread", "accept"}
Writes(u) == kind[u] \in {"write", "trywrite"}
Blocking(u) == kind[u] \in {"read", "write", "accept"}

\* The system call would not block: there is something to take, or room, or the
\* socket is shut down and the call returns at once
Ready(u) ==
    \/ kfd = "shut"
    \/ Reads(u) /\ rx > 0
    \/ Writes(u) /\ tx > 0

\* recvmsg, sendmsg, accept: data moves, or EAGAIN, upon which a blocking call
\* waits and a non-blocking one returns.  (EINTR starts over.)
Transfer(u) ==
    /\ pc[u] = "try"
    /\ Reads(u) \/ Writes(u)
    /\ IF Ready(u)
       THEN /\ Goto(u, "leave")
            /\ rx' = IF Reads(u) /\ rx > 0 THEN rx - 1 ELSE rx
            /\ tx' = IF Writes(u) /\ kfd # "shut" THEN tx - 1 ELSE tx
       ELSE /\ Goto(u, IF Blocking(u) THEN "wait" ELSE "leave")
            /\ UNCHANGED <<rx, tx>>
    /\ UNCHANGED <<absVars, live, kfd, efd, kind, cpc, how>>

\* Any other error of the system call or of poll is returned
CallFails(u) ==
    /\ pc[u] \in {"try", "poll"}
    /\ Reads(u) \/ Writes(u)
    /\ Goto(u, "leave")
    /\ UNCHANGED <<absVars, live, kfd, efd, rx, tx, kind, cpc, how>>

\* The calls that only query the descriptor, and Shutdown
Control(u) ==
    /\ pc[u] = "try"
    /\ kind[u] \in {"option", "shutdown"}
    /\ kfd' = IF kind[u] = "shutdown" THEN "shut" ELSE kfd
    /\ Goto(u, "leave")
    /\ UNCHANGED <<absVars, live, efd, rx, tx, kind, cpc, how>>

\* wait(): s.fd is loaded again; errClosing, so EBADF, if it is -1
WaitLoad(u) ==
    /\ pc[u] = "wait"
    /\ Goto(u, IF live THEN "poll" ELSE "leave")
    /\ UNCHANGED <<absVars, live, kfd, efd, rx, tx, kind, cpc, how>>

\* Mutant of Poll: only the socket is polled
PollSocketOnly(u) ==
    /\ pc[u] = "poll"
    /\ Ready(u)
    /\ Goto(u, "try")
    /\ UNCHANGED <<absVars, live, kfd, efd, rx, tx, kind, cpc, how>>

\* poll returns: EBADF if efd is signalled, else try again.  It blocks while
\* the socket is not ready and efd is not signalled.
Poll(u) ==
    /\ pc[u] = "poll"
    /\ Ready(u) \/ efd = "signalled"
    /\ Goto(u, IF efd = "signalled" THEN "leave" ELSE "try")
    /\ UNCHANGED <<absVars, live, kfd, efd, rx, tx, kind, cpc, how>>

\* s.gate.Leave()
Leave(u) ==
    /\ pc[u] = "leave"
    /\ AbsLeave(u)
    /\ Goto(u, "out")
    /\ UNCHANGED <<live, kfd, efd, rx, tx, kind, cpc, how>>

----------------------------------------------------------------------------
(* A closer: Close or Release, and finish. *)

CallClose(x) ==
    /\ cpc[x] = "out"
    /\ Then(x, "swap")
    /\ \E h \in {"close", "release"} : how' = [how EXCEPT ![x] = h]
    /\ UNCHANGED <<absVars, live, kfd, efd, rx, tx, pc, kind>>

\* Mutant of SwapFD: a descriptor of -1 is not noticed
SwapUnchecked(x) ==
    /\ cpc[x] = "swap"
    /\ live' = FALSE
    /\ Then(x, IF how[x] = "close" THEN "shut" ELSE "signal")
    /\ UNCHANGED <<absVars, kfd, efd, rx, tx, pc, kind, how>>

\* atomic.SwapInt32(&s.fd, -1); EBADF if it was -1 already
SwapFD(x) ==
    /\ cpc[x] = "swap"
    /\ live' = FALSE
    /\ Then(x, IF ~live THEN "out" ELSE IF how[x] = "close" THEN "shut" ELSE "signal")
    /\ UNCHANGED <<absVars, kfd, efd, rx, tx, pc, kind, how>>

\* s.shutdown(fd), whose error is dropped
ShutFD(x) ==
    /\ cpc[x] = "shut"
    /\ \E k \in {"shut", kfd} : kfd' = k
    /\ Then(x, "signal")
    /\ UNCHANGED <<absVars, live, efd, rx, tx, pc, kind, how>>

\* Mutant of Signal: nothing is written to efd
SignalNot(x) ==
    /\ cpc[x] = "signal"
    /\ Then(x, "gate")
    /\ UNCHANGED <<absVars, live, kfd, efd, rx, tx, pc, kind, how>>

\* finish: the write to efd evicts whoever polls
Signal(x) ==
    /\ cpc[x] = "signal"
    /\ efd' = "signalled"
    /\ Then(x, "gate")
    /\ UNCHANGED <<absVars, live, kfd, rx, tx, pc, kind, how>>

\* finish: s.gate.Close() ...  The compare-and-swap loop that sets the closed bit
\* is one step, whose fairness assumes that the loop wins in the end.  Gate allows
\* it to lose every race against users that enter and leave.
CloseGate(x) ==
    /\ cpc[x] = "gate"
    /\ AbsClose
    /\ Then(x, "gatewait")
    /\ UNCHANGED <<live, kfd, efd, rx, tx, pc, kind, how>>

\* Mutant of GateReturns: the closer does not wait for the users inside
GateReturnsEarly(x) ==
    /\ cpc[x] = "gatewait"
    /\ Then(x, "efdclose")
    /\ UNCHANGED <<absVars, live, kfd, efd, rx, tx, pc, kind, how>>

\* ... which returns when the last user has left
GateReturns(x) ==
    /\ cpc[x] = "gatewait"
    /\ IF status = "closing" THEN AbsCloseReturns ELSE UNCHANGED absVars
    /\ Then(x, "efdclose")
    /\ UNCHANGED <<live, kfd, efd, rx, tx, pc, kind, how>>

\* finish: syscall.Close(s.efd)
CloseEFD(x) ==
    /\ cpc[x] = "efdclose"
    /\ efd' = "closed"
    /\ Then(x, "fdclose")
    /\ UNCHANGED <<absVars, live, kfd, rx, tx, pc, kind, how>>

\* The write to efd or its close fails: Close and Release return the error and
\* leave the rest undone
FinishFails(x) ==
    /\ \/ cpc[x] = "signal" /\ UNCHANGED efd
       \/ cpc[x] = "efdclose" /\ efd' = "closed"
    /\ Then(x, "failed")
    /\ UNCHANGED <<absVars, live, kfd, rx, tx, pc, kind, how>>

\* Close closes the descriptor, Release hands it to its caller
DisposeFD(x) ==
    /\ cpc[x] = "fdclose"
    /\ kfd' = IF how[x] = "close" THEN "closed" ELSE "released"
    /\ Then(x, "out")
    /\ UNCHANGED <<absVars, live, efd, rx, tx, pc, kind, how>>

----------------------------------------------------------------------------
(* The peer (external): it sends or connects, reads, and may shut down. *)

Peer ==
    /\ \/ rx < MaxReady /\ rx' = rx + 1 /\ UNCHANGED <<tx, kfd>>
       \/ tx < MaxReady /\ tx' = tx + 1 /\ UNCHANGED <<rx, kfd>>
       \/ kfd = "open" /\ kfd' = "shut" /\ UNCHANGED <<rx, tx>>
    /\ UNCHANGED <<absVars, live, efd, pc, kind, cpc, how>>

----------------------------------------------------------------------------

UserStep(u) ==
    \/ Enter(u) \/ LoadFD(u) \/ Transfer(u) \/ Control(u)
    \/ WaitLoad(u) \/ Poll(u) \/ Leave(u)

CloserStep(x) ==
    \/ SwapFD(x) \/ ShutFD(x) \/ Signal(x) \/ CloseGate(x)
    \/ GateReturns(x) \/ CloseEFD(x) \/ DisposeFD(x)

SocketNext ==
    \/ \E u \in Users : Call(u) \/ UserStep(u) \/ CallFails(u)
    \/ \E x \in Closers : CallClose(x) \/ CloserStep(x) \/ FinishFails(x)
    \/ Peer

SocketSpec == SocketInit /\ [][SocketNext]_vars

\* Goroutines inside a call are scheduled.  Nobody is obliged to make a call,
\* the peer owes nothing, and no system call is obliged to fail.
SocketFairSpec ==
    /\ SocketSpec
    /\ \A u \in Users : WF_vars(UserStep(u))
    /\ \A x \in Closers : WF_vars(CloserStep(x))

----------------------------------------------------------------------------
(* Properties *)

\* A descriptor obtained by enterFD stays valid until gate.Leave, and so does
\* the event descriptor while it is polled, however calls of Close and Release
\* interleave (unet.go:186 and 80).
DescriptorsValid ==
    \A u \in Users :
        /\ pc[u] \in {"try", "wait", "poll"} => kfd \in Usable
        /\ pc[u] = "poll" => efd # "closed"

\* The descriptor is closed or handed over only when nobody is inside the gate
\* or can find it in s.fd any more.
QuietHandover ==
    kfd \notin Usable => inside = {} /\ status = "closed" /\ ~live

\* The descriptor is disposed of once: what is closed is not handed over, nor the
\* other way round.  That it is not closed twice is SocketInv's: one closer at most
\* is past the swap.
DisposedOnce == [][kfd \notin Usable => UNCHANGED kfd]_vars

\* The inductive invariant behind these: one closer at most is past the swap,
\* and how far it has come says what is still open.
Finishers == {x \in Closers : cpc[x] \in Finishing \cup {"failed"}}

SocketInv ==
    /\ SocketTypeOK
    /\ inside = {u \in Users : pc[u] \in InGate}
    /\ status = "closed" => inside = {}
    /\ \A x, y \in Finishers : x = y
    /\ Finishers # {} => ~live
    /\ live => status = "open" /\ efd = "open" /\ kfd \in Usable
    /\ kfd \notin Usable => status = "closed" /\ Finishers = {}
    /\ efd = "closed" => status = "closed"
    /\ \A x \in Closers :
          /\ cpc[x] \in {"shut", "signal", "gate"} => status = "open"
          /\ cpc[x] = "gatewait" => status # "open"
          /\ cpc[x] \in {"efdclose", "fdclose"} => status = "closed"
          /\ cpc[x] \in {"gate", "gatewait"} => efd = "signalled"

\* Nobody inside waits for the peer while a closer waits for him: when finish waits
\* at the gate, the event descriptor has been signalled and evicts whoever polls, or
\* comes to poll, however the two interleave (unet.go:109-122).
NoStandoff ==
    \A x \in Closers, u \in Users :
        cpc[x] = "gatewait" /\ pc[u] \in InGate => efd = "signalled" /\ ~live

\* Whoever is inside when the socket is closed or released gets out, even if
\* the peer never sends a byte, unless finish fails.
Evicted ==
    \A u \in Users :
        ~live /\ pc[u] \in InGate
            ~> pc[u] \notin InGate \/ \E x \in Closers : cpc[x] = "failed"

\* Close and Release return, although users wait for a silent peer, unless finish
\* fails; provided that gate.Close does not lose every race for the gate's word
\* (CloseGate).
CloserReturns ==
    \A x \in Closers : cpc[x] \in Finishing ~> cpc[x] \in {"out", "failed"}
=============================================================================
