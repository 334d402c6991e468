------------------------------ MODULE Session ------------------------------
(***************************************************************************)
(* Web sessions: what happens between a browser's websocket, the handler   *)
(* ServeWS and the goroutines it starts, the hub and the sandbox.  Sources *)
(* src/web/web_other.go and src/web/connection.go, composed with Hub and   *)
(* Sandbox.                                                                *)
(*                                                                         *)
(* Goroutines of a connection c, each with its program counter:            *)
(*   serve[c]  the handler ServeWS, which ends in readPump                 *)
(*   fwd[c]    the forwarder of sandbox events                             *)
(*   rd[c][s]  the reader of output stream s                               *)
(*   wr[c]     writePump                                                   *)
(* A panic in one of the last three is not recovered and ends the process, *)
(* with every other session in it; net/http recovers a panic of ServeWS    *)
(* after its deferred calls have run.  log.Fatalf ends the process.        *)
(***************************************************************************)
EXTENDS Hub, Sandbox

VARIABLES
    serve, fwd, rd, wr,
    chunk,      \* length of the chunk an output reader has just read
    buff,       \* an output reader's buffer: per cell, the chunk it comes from
    cur,        \* the message writePump has received and not written yet
    lo,         \* the buffer behind cur when writePump received it
    ws,         \* the websocket
    first,      \* type of the first message the browser was shown
    shown,      \* per stream, the chunk of the last message the browser was shown
    screen,     \* the bytes it appended for that message: per byte, the chunk it
                \* comes from
    proc        \* the process: up, or what ended it

goVars == <<serve, fwd, rd, wr, chunk, buff, cur, lo>>
peerVars == <<ws, first, shown, screen>>
vars == <<hubVars, sandboxVars, goVars, peerVars, proc>>

Cells == [1..BuffLen -> 0..MaxChunks]
Blank == [i \in 1..BuffLen |-> 0]
NoMessage == [type |-> "none", seq |-> 0, len |-> 0]

GoTypeOK ==
    /\ serve \in [Conns -> {"idle", "register", "create", "fail", "start",
                            "info", "run", "read", "stdin", "unregister",
                            "wsclose", "stop", "done"}]
    /\ fwd \in [Conns -> {"off", "recv", "event", "error"}]
    /\ rd \in [Conns -> [Streams -> {"off", "read", "send", "done"}]]
    /\ wr \in [Conns -> {"off", "select", "write", "done"}]
    /\ chunk \in [Conns -> [Streams -> 0..BuffLen]]
    /\ buff \in [Conns -> [Streams -> Cells]]
    /\ cur \in [Conns -> Message \cup {NoMessage}]
    /\ lo \in [Conns -> Cells]
    /\ \A c \in Conns : wr[c] = "write" => cur[c] \in Message

PeerTypeOK ==
    /\ ws \in [Conns -> {"none", "open", "gone", "closed"}]
    /\ first \in [Conns -> Notices \cup Streams \cup {"none"}]
    /\ shown \in [Conns -> [Streams -> 0..MaxChunks]]
    /\ screen \in [Conns -> [Streams -> Cells]]

\* Every variable has its type, and writePump has a message in hand when it encodes
\* one, not the nil that a closed channel yields (connection.go:133-142).
TypeOK ==
    /\ HubTypeOK
    /\ SandboxTypeOK
    /\ GoTypeOK
    /\ PeerTypeOK
    /\ proc \in {"up", "fatal", "event", "output"}

Init ==
    /\ HubInit
    /\ SandboxInit
    /\ serve = [c \in Conns |-> "idle"]
    /\ fwd = [c \in Conns |-> "off"]
    /\ rd = [c \in Conns |-> [s \in Streams |-> "off"]]
    /\ wr = [c \in Conns |-> "off"]
    /\ chunk = [c \in Conns |-> [s \in Streams |-> 0]]
    /\ buff = [c \in Conns |-> [s \in Streams |-> Blank]]
    /\ cur = [c \in Conns |-> NoMessage]
    /\ lo = [c \in Conns |-> Blank]
    /\ ws = [c \in Conns |-> "none"]
    /\ first = [c \in Conns |-> "none"]
    /\ shown = [c \in Conns |-> [s \in Streams |-> 0]]
    /\ screen = [c \in Conns |-> [s \in Streams |-> Blank]]
    /\ proc = "up"

Goto(c, pc) == serve' = [serve EXCEPT ![c] = pc]
OnlyServe == UNCHANGED <<fwd, rd, wr, chunk, buff, cur, lo>>

----------------------------------------------------------------------------
(* The handler ServeWS. *)

\* upgrader.Upgrade succeeds (a request that cannot be upgraded changes nothing)
Upgrade(c) ==
    /\ serve[c] = "idle"
    /\ Goto(c, "register")
    /\ ws' = [ws EXCEPT ![c] = "open"]
    /\ OnlyServe
    /\ UNCHANGED <<hubVars, sandboxVars, first, shown, screen, proc>>

\* web.register <- c
ServeRegister(c) ==
    /\ serve[c] = "register"
    /\ Register(c)
    /\ Goto(c, "create")
    /\ OnlyServe
    /\ UNCHANGED <<sandboxVars, peerVars, proc>>

\* Mutant of ServeCreate: a Create that failed is tried again
ServeCreateRetries(c) ==
    /\ serve[c] = "create"
    /\ \/ Created(c) /\ Goto(c, "start")
       \/ CreateFails(c) /\ UNCHANGED serve
    /\ OnlyServe
    /\ UNCHANGED <<hubVars, peerVars, proc>>

\* mngr.Create()
ServeCreate(c) ==
    /\ serve[c] = "create"
    /\ \/ Created(c) /\ Goto(c, "start")
       \/ CreateFails(c) /\ Goto(c, "fail")
    /\ OnlyServe
    /\ UNCHANGED <<hubVars, peerVars, proc>>

\* getwdOrDie in Create
CreateFatal(c) ==
    /\ serve[c] = "create"
    /\ proc' = "fatal"
    /\ UNCHANGED <<hubVars, sandboxVars, goVars, peerVars>>

\* The goroutine that newSandbox leaves in Accept of the console's listener: it
\* lives as long as the process, and an error, then or later, ends the process.
\* A Create that failed with the namespace mounted may have got that far.
ConsoleFatal(c) ==
    /\ netns[c] # "none"
    /\ proc' = "fatal"
    /\ UNCHANGED <<hubVars, sandboxVars, goVars, peerVars>>

\* c.send <- Error(err.Error()); return.  The deferred calls that unregister
\* and close are not registered yet, and no writePump has been started.
SendError(c) ==
    /\ serve[c] = "fail"
    /\ Send(c, Notice("error"))
    /\ Goto(c, "done")
    /\ OnlyServe
    /\ UNCHANGED <<sandboxVars, peerVars, proc>>

\* Mutant of ServeStart: the forwarder runs before the info message is sent
ServeStartForwards(c) ==
    /\ serve[c] = "start"
    /\ Started(c) \/ StartFails(c)
    /\ Goto(c, "info")
    /\ fwd' = [fwd EXCEPT ![c] = "recv"]
    /\ UNCHANGED <<hubVars, rd, wr, chunk, buff, cur, lo, peerVars, proc>>

\* sndbox.Start(), whose error is dropped
ServeStart(c) ==
    /\ serve[c] = "start"
    /\ Started(c) \/ StartFails(c)
    /\ Goto(c, "info")
    /\ OnlyServe
    /\ UNCHANGED <<hubVars, peerVars, proc>>

\* c.send <- Message("info", ...), then the event forwarder is started
SendInfo(c) ==
    /\ serve[c] = "info"
    /\ Send(c, Notice("info"))
    /\ Goto(c, "run")
    /\ fwd' = [fwd EXCEPT ![c] = "recv"]
    /\ UNCHANGED <<sandboxVars, rd, wr, chunk, buff, cur, lo, peerVars, proc>>

\* sndbox.Run(), then both output readers and writePump are started and the
\* handler becomes readPump
ServeRun(c) ==
    /\ serve[c] = "run"
    /\ RunShell(c)
    /\ Goto(c, "read")
    /\ rd' = [rd EXCEPT ![c] = [s \in Streams |-> "read"]]
    /\ wr' = [wr EXCEPT ![c] = "select"]
    /\ UNCHANGED <<hubVars, fwd, chunk, buff, cur, lo, peerVars, proc>>

\* Mutant of RunPanics: the handler returns without its deferred calls
RunPanicsReturn(c) ==
    /\ serve[c] = "run"
    /\ Goto(c, "done")
    /\ OnlyServe
    /\ UNCHANGED <<hubVars, sandboxVars, peerVars, proc>>

\* Run() panics when a socket pair cannot be made; the deferred calls run
RunPanics(c) ==
    /\ serve[c] = "run"
    /\ Goto(c, "unregister")
    /\ OnlyServe
    /\ UNCHANGED <<hubVars, sandboxVars, peerVars, proc>>

\* Run() ends the process when the container cannot be loaded or has no bash
RunFatal(c) ==
    /\ serve[c] = "run"
    /\ proc' = "fatal"
    /\ UNCHANGED <<hubVars, sandboxVars, goVars, peerVars>>

\* c.ws.ReadJSON returns a message of type stdin.  Any other well-formed
\* message is skipped.
ReceiveStdin(c) ==
    /\ serve[c] = "read"
    /\ ws[c] = "open"
    /\ Goto(c, "stdin")
    /\ OnlyServe
    /\ UNCHANGED <<hubVars, sandboxVars, peerVars, proc>>

\* c.ctrl.StdIn.Write(...), whose result is dropped
ServeWriteStdin(c) ==
    /\ serve[c] = "stdin"
    /\ WriteStdin(c)
    /\ Goto(c, "read")
    /\ OnlyServe
    /\ UNCHANGED <<hubVars, peerVars, proc>>

\* c.ws.ReadJSON returns an error: the peer sent something that is not JSON
\* or too long, ...
ReceiveMalformed(c) ==
    /\ serve[c] = "read"
    /\ ws[c] = "open"
    /\ Goto(c, "unregister")
    /\ OnlyServe
    /\ UNCHANGED <<hubVars, sandboxVars, peerVars, proc>>

\* Mutant of ReadFails: the sandbox is stopped before the connection is
\* unregistered and closed
ReadFailsStopFirst(c) ==
    /\ serve[c] = "read"
    /\ ws[c] \in {"gone", "closed"}
    /\ Goto(c, "stop")
    /\ OnlyServe
    /\ UNCHANGED <<hubVars, sandboxVars, peerVars, proc>>

\* Mutant of ReadFails: no read deadline, a silent peer is not noticed
ReadFailsNoDeadline(c) ==
    /\ serve[c] = "read"
    /\ ws[c] = "closed"
    /\ Goto(c, "unregister")
    /\ OnlyServe
    /\ UNCHANGED <<hubVars, sandboxVars, peerVars, proc>>

\* ... or is gone, which is known at once or when pongWait is over, or
\* writePump has closed the socket
ReadFails(c) ==
    /\ serve[c] = "read"
    /\ ws[c] \in {"gone", "closed"}
    /\ Goto(c, "unregister")
    /\ OnlyServe
    /\ UNCHANGED <<hubVars, sandboxVars, peerVars, proc>>

\* The deferred calls, in their order: c.web.unregister <- c, ...
ServeUnregister(c) ==
    /\ serve[c] = "unregister"
    /\ Unregister(c)
    /\ Goto(c, "wsclose")
    /\ OnlyServe
    /\ UNCHANGED <<sandboxVars, peerVars, proc>>

\* ... c.ws.Close(), ...
ServeClose(c) ==
    /\ serve[c] = "wsclose"
    /\ ws' = [ws EXCEPT ![c] = "closed"]
    /\ Goto(c, "stop")
    /\ OnlyServe
    /\ UNCHANGED <<hubVars, sandboxVars, first, shown, screen, proc>>

\* ... sndbox.Stop()
ServeStop(c) ==
    /\ serve[c] = "stop"
    /\ Stop(c)
    /\ Goto(c, "done")
    /\ OnlyServe
    /\ UNCHANGED <<hubVars, peerVars, proc>>

----------------------------------------------------------------------------
(* The event forwarder: for event := range sndbox.Events() *)

ForwardReceive(c) ==
    /\ fwd[c] = "recv"
    /\ HandEvent(c)
    /\ fwd' = [fwd EXCEPT ![c] = "event"]
    /\ UNCHANGED <<hubVars, serve, rd, wr, chunk, buff, cur, lo, peerVars, proc>>

\* c.send <- Message("event", event)
ForwardEvent(c) ==
    /\ fwd[c] = "event"
    /\ Send(c, Notice("event"))
    /\ fwd' = [fwd EXCEPT ![c] = "error"]
    /\ UNCHANGED <<sandboxVars, serve, rd, wr, chunk, buff, cur, lo, peerVars, proc>>

\* c.send <- Error("BLA")
ForwardError(c) ==
    /\ fwd[c] = "error"
    /\ Send(c, Notice("error"))
    /\ fwd' = [fwd EXCEPT ![c] = "recv"]
    /\ UNCHANGED <<sandboxVars, serve, rd, wr, chunk, buff, cur, lo, peerVars, proc>>

ForwardPanics(c) ==
    /\ fwd[c] \in {"event", "error"}
    /\ SendPanics(c)
    /\ proc' = "event"
    /\ UNCHANGED <<hubVars, sandboxVars, goVars, peerVars>>

----------------------------------------------------------------------------
(* An output reader, one goroutine per stream with a buffer of its own. *)

\* n, err := c.ctrl.StdOut.Read(buff): the next chunk overwrites the first n
\* cells of the buffer
ReadOutput(c, s) ==
    /\ rd[c][s] = "read"
    /\ HasOutput(c)
    /\ buff[c][s][1] < MaxChunks
    /\ \E n \in 1..BuffLen :
          /\ chunk' = [chunk EXCEPT ![c][s] = n]
          /\ buff' = [buff EXCEPT ![c][s] =
                [i \in 1..BuffLen |-> IF i <= n THEN @[1] + 1 ELSE @[i]]]
    /\ rd' = [rd EXCEPT ![c][s] = "send"]
    /\ UNCHANGED <<hubVars, sandboxVars, serve, fwd, wr, cur, lo, peerVars, proc>>

\* Mutant of SendOutput: the whole buffer is sent, not buff[:n]
SendOutputWhole(c, s) ==
    /\ rd[c][s] = "send"
    /\ Send(c, Output(s, buff[c][s][1], BuffLen))
    /\ rd' = [rd EXCEPT ![c][s] = "read"]
    /\ chunk' = [chunk EXCEPT ![c][s] = 0]
    /\ UNCHANGED <<sandboxVars, serve, fwd, wr, buff, cur, lo, peerVars, proc>>

\* Mutant of SendOutput: what finds the channel full is dropped
SendOutputDrops(c, s) ==
    /\ rd[c][s] = "send"
    /\ \/ Send(c, Output(s, buff[c][s][1], chunk[c][s]))
       \/ Len(send[c]) = SendCap /\ ~sendClosed[c] /\ UNCHANGED hubVars
    /\ rd' = [rd EXCEPT ![c][s] = "read"]
    /\ chunk' = [chunk EXCEPT ![c][s] = 0]
    /\ UNCHANGED <<sandboxVars, serve, fwd, wr, buff, cur, lo, peerVars, proc>>

\* c.send <- Message("stdout", Data(buff[:n]))
SendOutput(c, s) ==
    /\ rd[c][s] = "send"
    /\ Send(c, Output(s, buff[c][s][1], chunk[c][s]))
    /\ rd' = [rd EXCEPT ![c][s] = "read"]
    /\ chunk' = [chunk EXCEPT ![c][s] = 0]
    /\ UNCHANGED <<sandboxVars, serve, fwd, wr, buff, cur, lo, peerVars, proc>>

OutputPanics(c, s) ==
    /\ rd[c][s] = "send"
    /\ SendPanics(c)
    /\ proc' = "output"
    /\ UNCHANGED <<hubVars, sandboxVars, goVars, peerVars>>

\* Read returns io.EOF: break
OutputEnds(c, s) ==
    /\ rd[c][s] = "read"
    /\ AtEOF(c)
    /\ rd' = [rd EXCEPT ![c][s] = "done"]
    /\ UNCHANGED <<hubVars, sandboxVars, serve, fwd, wr, chunk, buff, cur, lo,
                   peerVars, proc>>

----------------------------------------------------------------------------
(* writePump. A ping that is written changes nothing. *)

\* Mutant of PumpReceive: ok is not looked at
PumpReceiveAny(c) ==
    /\ wr[c] = "select"
    /\ IF Drained(c) THEN UNCHANGED <<hubVars, cur, lo>>
       ELSE /\ Receive(c)
            /\ cur' = [cur EXCEPT ![c] = Head(send[c])]
            /\ lo' = [lo EXCEPT ![c] = Blank]
    /\ wr' = [wr EXCEPT ![c] = "write"]
    /\ UNCHANGED <<sandboxVars, serve, fwd, rd, chunk, buff, peerVars, proc>>

\* case msg, ok := <-c.send
PumpReceive(c) ==
    /\ wr[c] = "select"
    /\ Receive(c)
    /\ LET m == Head(send[c]) IN
          /\ cur' = [cur EXCEPT ![c] = m]
          /\ lo' = [lo EXCEPT ![c] = IF m.type \in Streams THEN buff[c][m.type] ELSE Blank]
    /\ wr' = [wr EXCEPT ![c] = "write"]
    /\ UNCHANGED <<sandboxVars, serve, fwd, rd, chunk, buff, peerVars, proc>>

\* The browser appends a message to what it shows; the model keeps the last one of
\* each stream.  Its bytes are read from the reader's buffer while the reader may
\* be filling it again, a data race: each of them is what it was when the message
\* was received or anything written in its place since.
Show(c) ==
    /\ first' = [first EXCEPT ![c] = IF @ = "none" THEN cur[c].type ELSE @]
    /\ IF cur[c].type \in Streams
       THEN LET s == cur[c].type IN
            \E cells \in Cells :
               /\ \A i \in 1..BuffLen :
                     IF i <= cur[c].len
                     THEN lo[c][i] <= cells[i] /\ cells[i] <= buff[c][s][i]
                     ELSE cells[i] = 0
               /\ screen' = [screen EXCEPT ![c][s] = cells]
               /\ shown' = [shown EXCEPT ![c][s] = cur[c].seq]
       ELSE UNCHANGED <<shown, screen>>

\* Encode(msg) and c.write(websocket.TextMessage, ...).  What is written to a
\* peer that is gone may still be accepted by the kernel.
PumpWrite(c) ==
    /\ wr[c] = "write"
    /\ \/ ws[c] = "open" /\ Show(c)
       \/ ws[c] = "gone" /\ UNCHANGED <<first, shown, screen>>
    /\ wr' = [wr EXCEPT ![c] = "select"]
    /\ cur' = [cur EXCEPT ![c] = NoMessage]
    /\ lo' = [lo EXCEPT ![c] = Blank]
    /\ UNCHANGED <<hubVars, sandboxVars, serve, fwd, rd, chunk, buff, ws, proc>>

\* Mutant of PumpReturns: the loop goes on after an error or a closed channel
PumpReturnsNot(c) ==
    /\ wr' = [wr EXCEPT ![c] = "select"]
    /\ ws' = [ws EXCEPT ![c] = "closed"]
    /\ cur' = [cur EXCEPT ![c] = NoMessage]
    /\ lo' = [lo EXCEPT ![c] = Blank]
    /\ UNCHANGED <<hubVars, sandboxVars, serve, fwd, rd, chunk, buff,
                   first, shown, screen, proc>>

\* writePump returns and its deferred call closes the websocket
PumpReturns(c) ==
    /\ wr' = [wr EXCEPT ![c] = "done"]
    /\ ws' = [ws EXCEPT ![c] = "closed"]
    /\ cur' = [cur EXCEPT ![c] = NoMessage]
    /\ lo' = [lo EXCEPT ![c] = Blank]
    /\ UNCHANGED <<hubVars, sandboxVars, serve, fwd, rd, chunk, buff,
                   first, shown, screen, proc>>

\* A message or a ping cannot be written within writeWait
PumpFails(c) ==
    /\ wr[c] \in {"select", "write"}
    /\ PumpReturns(c)

\* !ok: the close message is written, or not; either way the pump returns
PumpClosed(c) ==
    /\ wr[c] = "select"
    /\ Drained(c)
    /\ PumpReturns(c)

----------------------------------------------------------------------------
(* The peer, the guest and the runtime. *)

\* The browser is closed or its network fails
PeerLeaves(c) ==
    /\ ws[c] = "open"
    /\ ws' = [ws EXCEPT ![c] = "gone"]
    /\ UNCHANGED <<hubVars, sandboxVars, goVars, first, shown, screen, proc>>

Environment(c) ==
    /\ \/ LogLine(c) \/ ShellStarts(c) \/ ExecuteFails(c)
       \/ ShellReads(c) \/ ShellExits(c) \/ HangUp(c)
    /\ UNCHANGED <<hubVars, goVars, peerVars, proc>>

----------------------------------------------------------------------------
(* Goroutines and the specification. *)

HubStep ==
    /\ \E c \in Conns : HubAdd(c) \/ HubRemove(c)
    /\ UNCHANGED <<sandboxVars, goVars, peerVars, proc>>

HandlerStep(c) ==
    \/ ServeRegister(c) \/ ServeCreate(c) \/ CreateFatal(c) \/ SendError(c)
    \/ ServeStart(c) \/ SendInfo(c)
    \/ ServeRun(c) \/ RunPanics(c) \/ RunFatal(c)
    \/ ServeWriteStdin(c) \/ ReadFails(c)
    \/ ServeUnregister(c) \/ ServeClose(c) \/ ServeStop(c)

ForwarderStep(c) ==
    ForwardReceive(c) \/ ForwardEvent(c) \/ ForwardError(c) \/ ForwardPanics(c)

ReaderStep(c, s) == SendOutput(c, s) \/ OutputPanics(c, s) \/ OutputEnds(c, s)

PumpStep(c) == PumpReceive(c) \/ PumpWrite(c) \/ PumpClosed(c)

CleanupStep(c) ==
    /\ Destroy(c) \/ Unmount(c)
    /\ UNCHANGED <<hubVars, goVars, peerVars, proc>>

PeerStep(c) ==
    Upgrade(c) \/ ReceiveStdin(c) \/ ReceiveMalformed(c) \/ PeerLeaves(c)

Next ==
    /\ proc = "up"
    /\ \/ HubStep
       \/ \E c \in Conns :
             \/ HandlerStep(c) \/ ForwarderStep(c) \/ PumpStep(c)
             \/ PumpFails(c) \/ CleanupStep(c) \/ PeerStep(c) \/ Environment(c)
             \/ ConsoleFatal(c)
             \/ \E s \in Streams : ReaderStep(c, s) \/ ReadOutput(c, s)

Up(A) == proc = "up" /\ A

(***************************************************************************)
(* Weak fairness of every goroutine of the program: the Go scheduler runs  *)
(* a goroutine that stays runnable, and the calls into the runtime (create,*)
(* start, destroy, unmount) return.  Nothing is assumed of the peer, of    *)
(* the guest, or of the choice between success and failure.  writePump is  *)
(* only obliged to fail on a socket that is closed.                        *)
(***************************************************************************)
Fairness ==
    /\ WF_vars(Up(HubStep))
    /\ \A c \in Conns :
          /\ WF_vars(Up(HandlerStep(c)))
          /\ WF_vars(Up(ForwarderStep(c)))
          /\ WF_vars(Up(PumpStep(c)))
          /\ WF_vars(Up(ws[c] = "closed" /\ PumpFails(c)))
          /\ WF_vars(Up(CleanupStep(c)))
          /\ \A s \in Streams : WF_vars(Up(ReaderStep(c, s)))

Spec == Init /\ [][Next]_vars
FairSpec == Spec /\ Fairness

----------------------------------------------------------------------------
(* Safety. *)

\* Where the cleanup goroutine is once Stop has met it
Cleaning == {"destroy", "unmount", "done"}

\* The hub is the only one to close a send channel and does so once: a
\* registered connection has an open channel, and the handler's own sends (the
\* error of Create, the info message) never find it closed.
ChannelDiscipline ==
    \A c \in Conns :
        /\ c \in connections => ~sendClosed[c]
        /\ serve[c] \in {"fail", "info"} => ~sendClosed[c]

\* The sandbox is torn down last: once its cleanup has begun, the handler has
\* returned, the websocket is closed, and the hub has removed the connection
\* or is about to.
TeardownOrder ==
    \A c \in Conns :
        cleanup[c] \in Cleaning =>
            /\ serve[c] = "done"
            /\ ws[c] = "closed"
            /\ c \notin connections \/ hub = [op |-> "remove", conn |-> c]

\* A handler does not return and leave a container behind that nobody cleans
\* up, whichever of its exits it takes.
NoAbandonedSandbox ==
    \A c \in Conns :
        serve[c] = "done" /\ container[c] # "none" => cleanup[c] \in Cleaning

\* The inductive invariant behind these three, for one connection: who may still
\* be waiting for which step of the hub, and what the handler has done before
\* each of its deferred calls.
Adding(c) == hub = [op |-> "add", conn |-> c]
Removing(c) == hub = [op |-> "remove", conn |-> c]

ConnInv(c) ==
    /\ c \in connections => ~sendClosed[c]
    /\ sendClosed[c] => serve[c] \in {"wsclose", "stop", "done"}
    /\ Adding(c) => ~sendClosed[c]
    /\ Removing(c) => serve[c] \in {"wsclose", "stop", "done"}
    /\ serve[c] \in {"wsclose", "stop"} \/ cleanup[c] \in Cleaning =>
            ~Adding(c) /\ (c \notin connections \/ Removing(c))
    /\ serve[c] = "stop" => ws[c] = "closed"
    /\ cleanup[c] \in Cleaning => serve[c] = "done" /\ ws[c] = "closed"
    /\ serve[c] \in {"idle", "register", "create", "fail"} => container[c] = "none"
    /\ serve[c] = "done" /\ container[c] # "none" => cleanup[c] \in Cleaning

SessionInv == \A c \in Conns : ConnInv(c)

\* The page learns the sandbox's name first: no event and no output overtakes
\* the info message, although several goroutines fill the channel.
InfoFirst == \A c \in Conns : first[c] \in {"none", "info"}

\* Why: the channel is empty until SendInfo, nobody takes from it before writePump
\* runs, and until the first write the info message is at its head or in hand.
Before == {"idle", "register", "create", "fail", "start", "info"}
HeadInfo(c) == send[c] # <<>> /\ Head(send[c]).type = "info"

InfoInv(c) ==
    /\ first[c] \in {"none", "info"}
    /\ serve[c] \in Before => send[c] = <<>> /\ fwd[c] = "off"
    /\ serve[c] \in Before \cup {"run"} =>
          wr[c] = "off" /\ first[c] = "none" /\ \A s \in Streams : rd[c][s] = "off"
    /\ serve[c] = "run" => HeadInfo(c)
    /\ wr[c] = "select" /\ first[c] = "none" /\ ws[c] = "open" => HeadInfo(c)
    /\ wr[c] = "write" /\ first[c] = "none" /\ ws[c] = "open" => cur[c].type = "info"

\* The browser is shown cur
Shows(c) == wr[c] = "write" /\ ws[c] = "open" /\ wr'[c] = "select"

\* The messages of a stream reach the page in the order of the reads, each of them
\* once and none left out, although the channel may be full and other goroutines
\* send on it (web_other.go:251, 266, connection.go:133-147).  What bytes they show
\* is another matter: OutputNotOlder and OutputIntact.
OutputInOrder ==
    [][\A c \in Conns, s \in Streams :
          Shows(c) /\ cur[c].type = s => cur[c].seq = shown[c][s] + 1]_vars

\* Why: while the browser is there, the channel holds, in their order, exactly the
\* chunks that were sent and are neither shown nor in writePump's hand.
Taken(c, s) == IF cur[c].type = s THEN cur[c].seq ELSE shown[c][s]
Sent(c, s) ==
    {k \in 1..MaxChunks :
        /\ Taken(c, s) < k
        /\ k < buff[c][s][1] \/ (k = buff[c][s][1] /\ rd[c][s] # "send")}

Chain(c, s) ==
    /\ cur[c].type = s => cur[c].seq = shown[c][s] + 1
    /\ Taken(c, s) <= buff[c][s][1]
    /\ rd[c][s] = "send" => Taken(c, s) < buff[c][s][1]
    /\ \A k \in 1..Len(send[c]) : send[c][k].type = s => send[c][k].seq \in Sent(c, s)
    /\ \A q \in Sent(c, s) :
          \E k \in 1..Len(send[c]) : send[c][k].type = s /\ send[c][k].seq = q
    /\ \A k, l \in 1..Len(send[c]) :
          send[c][k].type = s /\ send[c][l].type = s /\ k < l =>
              send[c][k].seq < send[c][l].seq

ChainInv(c) ==
    /\ wr[c] # "write" => cur[c] = NoMessage
    /\ serve[c] = "idle" => ws[c] = "none"
    /\ ws[c] \in {"none", "open"} => \A s \in Streams : Chain(c, s)

\* Why the bytes are what OutputNotOlder says: the first cell of a reader's buffer is
\* the newest, and cells only become newer.
OutputInv(c, s) ==
    \A i \in 1..BuffLen :
        /\ buff[c][s][i] <= buff[c][s][1]
        /\ cur[c].type = s => lo[c][i] <= buff[c][s][i]

OrderInv ==
    \A c \in Conns : InfoInv(c) /\ ChainInv(c) /\ \A s \in Streams : OutputInv(c, s)

\* The page never shows a chunk of output with older bytes: where a message shows
\* chunk seq, it shows that chunk or what was read into its place since, however
\* many chunks were queued before writePump came to it (web_other.go:242-253).
OutputNotOlder ==
    [][\A c \in Conns : Shows(c) =>
          \A s \in Streams, i \in 1..cur[c].len :
             cur[c].type = s => cur[c].seq <= screen'[c][s][i]]_vars

\* Why: the cells a message speaks of are never older than the message: after the
\* read, in the channel, and in writePump's hands.
Covers(cells, m) == \A i \in 1..m.len : m.seq <= cells[i]
Pending(c, s) ==
    rd[c][s] = "send" => \A i \in 1..chunk[c][s] : buff[c][s][i] = buff[c][s][1]
Queued(c, s) ==
    \A k \in 1..Len(send[c]) : send[c][k].type = s => Covers(buff[c][s], send[c][k])
Held(c, s) == cur[c].type = s => Covers(lo[c], cur[c])

ChunksKept ==
    \A c \in Conns, s \in Streams : Pending(c, s) /\ Queued(c, s) /\ Held(c, s)

\* Container, namespace and cleanup alone; what else a sandbox has is hidden
Life == INSTANCE Sandbox WITH
    tailing <- [c \in Conns |-> FALSE],
    logged <- [c \in Conns |-> 0],
    tailed <- [c \in Conns |-> 0],
    shell <- [c \in Conns |-> "off"],
    stdin <- [c \in Conns |-> 0]

\* A session uses its sandbox as Sandbox.LifeSpec has it, which Network fills in:
\* Create runs once, on nothing; Start on what Create has made; the cleanup begins
\* with a running container, destroys that, and unmounts a namespace that is mounted.
\* After a failed Start the handler calls Stop all the same (web_other.go:206-208):
\* it waits there for ever, which is no step, and what StopCleansUp is about.
ImplementsLife == Life!LifeSpec

\* Why: what is there before Create, before Start, and at each step of the cleanup
LifeInv(c) ==
    /\ serve[c] \in {"idle", "register", "create"} =>
          container[c] = "none" /\ netns[c] = "none"
    /\ serve[c] = "start" => container[c] = "created" /\ netns[c] = "mounted"
    /\ container[c] \in {"none", "created"} => cleanup[c] = "off"
    /\ cleanup[c] \in {"wait", "destroy"} =>
          container[c] = "running" /\ netns[c] = "mounted"
    /\ cleanup[c] = "unmount" =>
          container[c] \in {"destroyed", "left"} /\ netns[c] = "mounted"

----------------------------------------------------------------------------
(* Liveness, under FairSpec. *)

\* readPump is blocked in StdIn.Write because the shell does not read
StdinStuck(c) == serve[c] = "stdin" /\ ~StdinAccepts(c)

\* A started sandbox whose browser is gone is destroyed and its namespace
\* unmounted, or the cleanup has tried and logged an error, provided that the
\* handler does not hang in StdIn.Write for ever and the process survives.
Reaped ==
    \A c \in Conns :
        []<>~StdinStuck(c) =>
            (cleanup[c] = "wait" /\ ws[c] \in {"gone", "closed"}
                ~> cleanup[c] = "done" \/ proc # "up")

\* Once the hub has closed a connection's channel its writePump returns,
\* whatever was still queued.
PumpEnds ==
    \A c \in Conns :
        sendClosed[c] /\ wr[c] # "off" ~> wr[c] = "done" \/ proc # "up"

----------------------------------------------------------------------------
(* What the repository's text says of the program and the code does not do.*)

\* README.md:3 promises a shell in the browser: a session in use does not lose
\* its shell because the goroutines of another session, whose browser has left,
\* send on the channel the hub has closed (web_other.go:126, 226, 251, 266).
ShellKept ==
    \A c \in Conns :
        ws[c] = "open" /\ serve[c] \in {"read", "stdin"} =>
            proc \notin {"event", "output"}

\* README.md:3: the page shows the output of the shell: what is shown in place
\* of a chunk of output is that chunk (web_other.go:251).
OutputIntact ==
    [][\A c \in Conns : Shows(c) =>
          \A s \in Streams, i \in 1..cur[c].len :
             cur[c].type = s => screen'[c][s][i] = cur[c].seq]_vars

\* connection.go:122: messages are pumped to the websocket: a queued message is
\* taken from the channel, unless the connection or the process ends.
MessagesPumped ==
    \A c \in Conns :
        send[c] # <<>> ~> send[c] = <<>> \/ ws[c] # "open" \/ proc # "up"

\* gvisor_linux.go:587 and 592: a handler that stops its sandbox has container
\* and network cleaned up.
StopCleansUp ==
    \A c \in Conns : serve[c] = "stop" ~> cleanup[c] = "done" \/ proc # "up"
=============================================================================
