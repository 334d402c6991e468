--------------------------- MODULE SessionProofs ---------------------------
(***************************************************************************)
(* Proofs about Session: type correctness and the safety properties that   *)
(* follow from SessionInv, for any number of connections and any capacity. *)
(***************************************************************************)
EXTENDS Session, TLAPS

\* Updating one stream of one connection keeps the type of a table.
LEMMA TableType ==
    ASSUME NEW S, NEW f \in [Conns -> [Streams -> S]],
           NEW c \in Conns, NEW s \in Streams, NEW v \in S
    PROVE  [f EXCEPT ![c][s] = v] \in [Conns -> [Streams -> S]]
  OBVIOUS

\* A message built by a goroutine is a message.
LEMMA NoticeType == ASSUME NEW t \in Notices PROVE Notice(t) \in Message
  BY ParameterAssumption DEF Notice, Message

LEMMA OutputType ==
    ASSUME NEW s \in Streams, NEW k \in 0..MaxChunks, NEW n \in 0..BuffLen
    PROVE  Output(s, k, n) \in Message
  BY DEF Output, Message

\* Sending and receiving keep c.send a sequence of messages.
LEMMA SendType ==
    ASSUME HubTypeOK, NEW c \in Conns, NEW m \in Message, Send(c, m)
    PROVE  HubTypeOK'
  BY DEF HubTypeOK, Send

LEMMA ReceiveType ==
    ASSUME HubTypeOK, NEW c \in Conns, Receive(c)
    PROVE  HubTypeOK' /\ Head(send[c]) \in Message
  BY DEF HubTypeOK, Receive

LEMMA HubType ==
    ASSUME HubTypeOK, NEW c \in Conns,
           Register(c) \/ Unregister(c) \/ HubAdd(c) \/ HubRemove(c)
    PROVE  HubTypeOK'
<1> USE DEF HubTypeOK, HubState
<1>1. CASE Register(c) BY <1>1 DEF Register
<1>2. CASE Unregister(c) BY <1>2 DEF Unregister
<1>3. CASE HubAdd(c) BY <1>3 DEF HubAdd
<1>4. CASE HubRemove(c) BY <1>4 DEF HubRemove
<1> QED BY <1>1, <1>2, <1>3, <1>4

LEMMA SandboxType ==
    ASSUME SandboxTypeOK, NEW c \in Conns,
           \/ Created(c) \/ CreateFails(c) \/ Started(c) \/ StartFails(c)
           \/ RunShell(c) \/ Stop(c) \/ Destroy(c) \/ Unmount(c)
           \/ HandEvent(c) \/ WriteStdin(c)
           \/ LogLine(c) \/ ShellStarts(c) \/ ExecuteFails(c)
           \/ ShellReads(c) \/ ShellExits(c) \/ HangUp(c)
    PROVE  SandboxTypeOK'
<1> USE ParameterAssumption DEF SandboxTypeOK
<1>1. CASE Created(c) BY <1>1 DEF Created
<1>2. CASE CreateFails(c) BY <1>2 DEF CreateFails
<1>3. CASE Started(c) BY <1>3 DEF Started
<1>4. CASE StartFails(c) BY <1>4 DEF StartFails, sandboxVars
<1>5. CASE RunShell(c) BY <1>5 DEF RunShell
<1>6. CASE Stop(c) BY <1>6 DEF Stop
<1>7. CASE Destroy(c) BY <1>7 DEF Destroy
<1>8. CASE Unmount(c) BY <1>8 DEF Unmount
<1>9. CASE HandEvent(c) BY <1>9 DEF HandEvent
<1>10. CASE WriteStdin(c) BY <1>10 DEF WriteStdin, StdinAccepts
<1>11. CASE LogLine(c) BY <1>11 DEF LogLine
<1>12. CASE ShellStarts(c) BY <1>12 DEF ShellStarts
<1>13. CASE ExecuteFails(c) BY <1>13 DEF ExecuteFails
<1>14. CASE ShellReads(c) BY <1>14 DEF ShellReads
<1>15. CASE ShellExits(c) BY <1>15 DEF ShellExits
<1>16. CASE HangUp(c) BY <1>16 DEF HangUp
<1> QED BY <1>1, <1>2, <1>3, <1>4, <1>5, <1>6, <1>7, <1>8, <1>9, <1>10,
           <1>11, <1>12, <1>13, <1>14, <1>15, <1>16

LEMMA TypeInit == Init => TypeOK
<1> SUFFICES ASSUME Init PROVE TypeOK
  OBVIOUS
<1> USE ParameterAssumption DEF Init
<1>0. Blank \in Cells
  BY DEF Blank, Cells
<1>1. HubTypeOK
  BY DEF HubInit, HubTypeOK, HubState
<1>2. SandboxTypeOK
  BY DEF SandboxInit, SandboxTypeOK
<1>3. GoTypeOK
  BY <1>0 DEF GoTypeOK
<1>4. PeerTypeOK
  BY <1>0 DEF PeerTypeOK
<1> QED BY <1>1, <1>2, <1>3, <1>4 DEF TypeOK

\* A step that does not touch the variables of a part keeps its types.
LEMMA TypeStutter ==
    /\ HubTypeOK /\ UNCHANGED hubVars => HubTypeOK'
    /\ SandboxTypeOK /\ UNCHANGED sandboxVars => SandboxTypeOK'
    /\ GoTypeOK /\ UNCHANGED goVars => GoTypeOK'
    /\ PeerTypeOK /\ UNCHANGED peerVars => PeerTypeOK'
  BY DEF HubTypeOK, hubVars, SandboxTypeOK, sandboxVars, GoTypeOK, goVars,
         PeerTypeOK, peerVars

\* A step of the handler alone keeps the types of the goroutines' variables.
LEMMA GotoType ==
    ASSUME GoTypeOK, NEW c \in Conns, OnlyServe,
           NEW pc \in {"register", "create", "fail", "start", "info", "run", "read",
                       "stdin", "unregister", "wsclose", "stop", "done"},
           Goto(c, pc)
    PROVE  GoTypeOK'
  BY DEF GoTypeOK, OnlyServe, Goto

LEMMA HandlerType ==
    ASSUME TypeOK, NEW c \in Conns,
           HandlerStep(c) \/ Upgrade(c) \/ ReceiveStdin(c) \/ ReceiveMalformed(c)
    PROVE  TypeOK'
<1> USE TypeStutter DEF TypeOK
<1>1. CASE Upgrade(c)
  <2>1. PeerTypeOK' BY <1>1 DEF Upgrade, PeerTypeOK
  <2>2. GoTypeOK' BY <1>1, GotoType DEF Upgrade
  <2> QED BY <1>1, <2>1, <2>2 DEF Upgrade
<1>2. CASE ServeRegister(c)
  <2>1. HubTypeOK' BY <1>2, HubType DEF ServeRegister
  <2>2. GoTypeOK' BY <1>2, GotoType DEF ServeRegister
  <2> QED BY <1>2, <2>1, <2>2 DEF ServeRegister
<1>3. CASE ServeCreate(c)
  <2>1. SandboxTypeOK' BY <1>3, SandboxType DEF ServeCreate
  <2>2. GoTypeOK' BY <1>3, GotoType DEF ServeCreate
  <2> QED BY <1>3, <2>1, <2>2 DEF ServeCreate
<1>4. CASE CreateFatal(c) \/ RunFatal(c)
  BY <1>4 DEF CreateFatal, RunFatal
<1>5. CASE SendError(c)
  <2>1. Notice("error") \in Message BY NoticeType DEF Notices
  <2>2. HubTypeOK' BY <1>5, <2>1, SendType DEF SendError
  <2>3. GoTypeOK' BY <1>5, GotoType DEF SendError
  <2> QED BY <1>5, <2>2, <2>3 DEF SendError
<1>6. CASE ServeStart(c)
  <2>1. SandboxTypeOK' BY <1>6, SandboxType DEF ServeStart
  <2>2. GoTypeOK' BY <1>6, GotoType DEF ServeStart
  <2> QED BY <1>6, <2>1, <2>2 DEF ServeStart
<1>7. CASE SendInfo(c)
  <2>1. Notice("info") \in Message BY NoticeType DEF Notices
  <2>2. HubTypeOK' BY <1>7, <2>1, SendType DEF SendInfo
  <2>3. GoTypeOK' BY <1>7 DEF SendInfo, Goto, GoTypeOK
  <2> QED BY <1>7, <2>2, <2>3 DEF SendInfo
<1>8. CASE ServeRun(c)
  <2>1. SandboxTypeOK' BY <1>8, SandboxType DEF ServeRun
  <2>2. GoTypeOK' BY <1>8 DEF ServeRun, Goto, GoTypeOK
  <2> QED BY <1>8, <2>1, <2>2 DEF ServeRun
<1>9. CASE RunPanics(c) \/ ReceiveStdin(c) \/ ReceiveMalformed(c) \/ ReadFails(c)
  <2>1. GoTypeOK'
    BY <1>9, GotoType DEF RunPanics, ReceiveStdin, ReceiveMalformed, ReadFails
  <2> QED BY <1>9, <2>1 DEF RunPanics, ReceiveStdin, ReceiveMalformed, ReadFails
<1>10. CASE ServeWriteStdin(c)
  <2>1. SandboxTypeOK' BY <1>10, SandboxType DEF ServeWriteStdin
  <2>2. GoTypeOK' BY <1>10, GotoType DEF ServeWriteStdin
  <2> QED BY <1>10, <2>1, <2>2 DEF ServeWriteStdin
<1>11. CASE ServeUnregister(c)
  <2>1. HubTypeOK' BY <1>11, HubType DEF ServeUnregister
  <2>2. GoTypeOK' BY <1>11, GotoType DEF ServeUnregister
  <2> QED BY <1>11, <2>1, <2>2 DEF ServeUnregister
<1>12. CASE ServeClose(c)
  <2>1. PeerTypeOK' BY <1>12 DEF ServeClose, PeerTypeOK
  <2>2. GoTypeOK' BY <1>12, GotoType DEF ServeClose
  <2> QED BY <1>12, <2>1, <2>2 DEF ServeClose
<1>13. CASE ServeStop(c)
  <2>1. SandboxTypeOK' BY <1>13, SandboxType DEF ServeStop
  <2>2. GoTypeOK' BY <1>13, GotoType DEF ServeStop
  <2> QED BY <1>13, <2>1, <2>2 DEF ServeStop
<1> QED
  BY <1>1, <1>2, <1>3, <1>4, <1>5, <1>6, <1>7, <1>8, <1>9, <1>10, <1>11, <1>12, <1>13
  DEF HandlerStep

LEMMA ForwarderType ==
    ASSUME TypeOK, NEW c \in Conns, ForwarderStep(c)
    PROVE  TypeOK'
<1> USE TypeStutter DEF TypeOK
<1>0. Notice("event") \in Message /\ Notice("error") \in Message
  BY NoticeType DEF Notices
<1>1. CASE ForwardReceive(c)
  <2>1. SandboxTypeOK' BY <1>1, SandboxType DEF ForwardReceive
  <2>2. GoTypeOK' BY <1>1 DEF ForwardReceive, GoTypeOK
  <2> QED BY <1>1, <2>1, <2>2 DEF ForwardReceive
<1>2. CASE ForwardEvent(c)
  <2>1. HubTypeOK' BY <1>0, <1>2, SendType DEF ForwardEvent
  <2>2. GoTypeOK' BY <1>2 DEF ForwardEvent, GoTypeOK
  <2> QED BY <1>2, <2>1, <2>2 DEF ForwardEvent
<1>3. CASE ForwardError(c)
  <2>1. HubTypeOK' BY <1>0, <1>3, SendType DEF ForwardError
  <2>2. GoTypeOK' BY <1>3 DEF ForwardError, GoTypeOK
  <2> QED BY <1>3, <2>1, <2>2 DEF ForwardError
<1>4. CASE ForwardPanics(c)
  BY <1>4 DEF ForwardPanics
<1> QED BY <1>1, <1>2, <1>3, <1>4 DEF ForwarderStep

LEMMA ReaderType ==
    ASSUME TypeOK, NEW c \in Conns, NEW s \in Streams,
           ReaderStep(c, s) \/ ReadOutput(c, s)
    PROVE  TypeOK'
<1> USE TypeStutter DEF TypeOK
<1>0. 1 \in 1..BuffLen /\ BuffLen \in Nat /\ MaxChunks \in Nat
  BY ParameterAssumption
<1>b. buff[c][s] \in Cells
  BY DEF GoTypeOK
<1>c. \A i \in 1..BuffLen : buff[c][s][i] \in 0..MaxChunks
  BY <1>b DEF Cells
<1>1. CASE ReadOutput(c, s)
  <2>1. PICK n \in 1..BuffLen :
          /\ chunk' = [chunk EXCEPT ![c][s] = n]
          /\ buff' = [buff EXCEPT ![c][s] =
                [i \in 1..BuffLen |-> IF i <= n THEN @[1] + 1 ELSE @[i]]]
    BY <1>1 DEF ReadOutput
  <2>2. [i \in 1..BuffLen |-> IF i <= n THEN buff[c][s][1] + 1 ELSE buff[c][s][i]] \in Cells
    <3>1. buff[c][s][1] < MaxChunks
      BY <1>1 DEF ReadOutput
    <3>2. buff[c][s][1] + 1 \in 0..MaxChunks
      BY <1>0, <1>c, <3>1
    <3> QED BY <1>c, <3>2 DEF Cells
  <2>3. buff' \in [Conns -> [Streams -> Cells]]
    BY <2>1, <2>2, TableType DEF GoTypeOK
  <2>4. chunk' \in [Conns -> [Streams -> 0..BuffLen]]
    <3>1. n \in 0..BuffLen BY <1>0
    <3> QED BY <2>1, <3>1, TableType DEF GoTypeOK
  <2>5. rd' \in [Conns -> [Streams -> {"off", "read", "send", "done"}]]
    BY <1>1, TableType DEF ReadOutput, GoTypeOK
  <2>6. GoTypeOK'
    BY <1>1, <2>3, <2>4, <2>5 DEF ReadOutput, GoTypeOK
  <2> QED BY <1>1, <2>6 DEF ReadOutput
<1>2. CASE SendOutput(c, s)
  <2>1. Output(s, buff[c][s][1], chunk[c][s]) \in Message
    <3>1. buff[c][s][1] \in 0..MaxChunks
      BY <1>0, <1>c
    <3>2. chunk[c][s] \in 0..BuffLen
      BY DEF GoTypeOK
    <3> QED BY <3>1, <3>2, OutputType
  <2>2. HubTypeOK' BY <1>2, <2>1, SendType DEF SendOutput
  <2>3. chunk' \in [Conns -> [Streams -> 0..BuffLen]]
    <3>1. 0 \in 0..BuffLen BY <1>0
    <3> QED BY <1>2, <3>1, TableType DEF SendOutput, GoTypeOK
  <2>4. rd' \in [Conns -> [Streams -> {"off", "read", "send", "done"}]]
    BY <1>2, TableType DEF SendOutput, GoTypeOK
  <2>5. GoTypeOK' BY <1>2, <2>3, <2>4 DEF SendOutput, GoTypeOK
  <2> QED BY <1>2, <2>2, <2>5 DEF SendOutput
<1>3. CASE OutputPanics(c, s)
  BY <1>3 DEF OutputPanics
<1>4. CASE OutputEnds(c, s)
  <2>1. GoTypeOK' BY <1>4 DEF OutputEnds, GoTypeOK
  <2> QED BY <1>4, <2>1 DEF OutputEnds
<1> QED BY <1>1, <1>2, <1>3, <1>4 DEF ReaderStep

LEMMA PumpType ==
    ASSUME TypeOK, NEW c \in Conns, PumpStep(c) \/ PumpFails(c)
    PROVE  TypeOK'
<1> USE TypeStutter DEF TypeOK
<1>0. Blank \in Cells
  BY ParameterAssumption DEF Blank, Cells
<1>1. CASE PumpReceive(c)
  <2>1. HubTypeOK' /\ Head(send[c]) \in Message
    BY <1>1, ReceiveType DEF PumpReceive
  <2>2. (IF Head(send[c]).type \in Streams
         THEN buff[c][Head(send[c]).type] ELSE Blank) \in Cells
    BY <1>0 DEF GoTypeOK
  <2>3. GoTypeOK' BY <1>1, <2>1, <2>2 DEF PumpReceive, GoTypeOK
  <2> QED BY <1>1, <2>1, <2>3 DEF PumpReceive
<1>2. CASE PumpWrite(c)
  <2>1. GoTypeOK' BY <1>0, <1>2 DEF PumpWrite, GoTypeOK
  <2>2. cur[c].type \in Notices \cup Streams \cup {"none"}
    BY DEF GoTypeOK, Message, NoMessage
  <2>3. CASE UNCHANGED <<first, shown, screen>>
    BY <1>2, <2>1, <2>3 DEF PumpWrite, peerVars
  <2>4. CASE Show(c)
    <3>1. first' \in [Conns -> Notices \cup Streams \cup {"none"}]
      BY <2>2, <2>4 DEF Show, PeerTypeOK
    <3>2. screen' \in [Conns -> [Streams -> Cells]]
      <4>1. CASE cur[c].type \notin Streams
        BY <2>4, <4>1 DEF Show, PeerTypeOK
      <4>2. CASE cur[c].type \in Streams
        <5>1. PICK cells \in Cells :
                screen' = [screen EXCEPT ![c][cur[c].type] = cells]
          BY <2>4, <4>2 DEF Show
        <5> QED BY <4>2, <5>1, TableType DEF PeerTypeOK
      <4> QED BY <4>1, <4>2
    <3>3. shown' \in [Conns -> [Streams -> 0..MaxChunks]]
      <4>1. CASE cur[c].type \notin Streams
        BY <2>4, <4>1 DEF Show, PeerTypeOK
      <4>2. CASE cur[c].type \in Streams
        <5>1. shown' = [shown EXCEPT ![c][cur[c].type] = cur[c].seq]
          BY <2>4, <4>2 DEF Show
        <5>2. cur[c].seq \in 0..MaxChunks
          BY <1>2 DEF PumpWrite, GoTypeOK, Message
        <5> QED BY <4>2, <5>1, <5>2, TableType DEF PeerTypeOK
      <4> QED BY <4>1, <4>2
    <3> QED BY <1>2, <2>1, <3>1, <3>2, <3>3 DEF PumpWrite, PeerTypeOK
  <2> QED BY <1>2, <2>3, <2>4 DEF PumpWrite
<1>3. CASE PumpFails(c) \/ PumpClosed(c)
  <2>1. PumpReturns(c) BY <1>3 DEF PumpFails, PumpClosed
  <2>2. GoTypeOK' BY <1>0, <2>1 DEF PumpReturns, GoTypeOK
  <2>3. PeerTypeOK' BY <2>1 DEF PumpReturns, PeerTypeOK
  <2> QED BY <2>1, <2>2, <2>3 DEF PumpReturns
<1> QED BY <1>1, <1>2, <1>3 DEF PumpStep

\* Every variable keeps its type, at all capacities and bounds.
THEOREM SessionTypeOK == Spec => []TypeOK
<1>1. TypeOK /\ [Next]_vars => TypeOK'
  <2> SUFFICES ASSUME TypeOK, [Next]_vars PROVE TypeOK'
    OBVIOUS
  <2>1. CASE HubStep
    <3>1. HubTypeOK' BY <2>1, HubType DEF HubStep, TypeOK
    <3> QED BY <2>1, <3>1, TypeStutter DEF HubStep, TypeOK
  <2>2. ASSUME NEW c \in Conns, CleanupStep(c) \/ Environment(c)
        PROVE  TypeOK'
    <3>1. SandboxTypeOK'
      BY <2>2, SandboxType DEF CleanupStep, Environment, TypeOK
    <3> QED BY <2>2, <3>1, TypeStutter DEF CleanupStep, Environment, TypeOK
  <2>3. ASSUME NEW c \in Conns, PeerLeaves(c) PROVE TypeOK'
    <3>1. PeerTypeOK' BY <2>3 DEF PeerLeaves, PeerTypeOK, TypeOK
    <3> QED BY <2>3, <3>1, TypeStutter DEF PeerLeaves, TypeOK
  <2>4. CASE UNCHANGED vars
    BY <2>4, TypeStutter DEF vars, TypeOK
  <2>5. ASSUME NEW c \in Conns, ConsoleFatal(c) PROVE TypeOK'
    BY <2>5, TypeStutter DEF ConsoleFatal, TypeOK
  <2> QED
    BY <2>1, <2>2, <2>3, <2>4, <2>5, HandlerType, ForwarderType, ReaderType, PumpType
    DEF Next, PeerStep
<1> QED BY <1>1, TypeInit, PTL DEF Spec

----------------------------------------------------------------------------
(* The safety invariant. *)

\* What ConnInv says of a connection is the same after the step.
SameAt(d) ==
    /\ (d \in connections)' <=> d \in connections
    /\ Adding(d)' <=> Adding(d)
    /\ Removing(d)' <=> Removing(d)
    /\ sendClosed'[d] = sendClosed[d]
    /\ serve'[d] = serve[d]
    /\ cleanup'[d] = cleanup[d]
    /\ ws'[d] = ws[d]
    /\ container'[d] = container[d]

LEMMA SameKeepsInv ==
    ASSUME NEW d \in Conns, ConnInv(d), SameAt(d)
    PROVE  ConnInv(d)'
  BY DEF ConnInv, SameAt

\* A step keeps the invariant if it does so at one connection and leaves the
\* others alone.
LEMMA OneKeepsInv ==
    ASSUME SessionInv, NEW c \in Conns,
           \A d \in Conns \ {c} : SameAt(d),
           ConnInv(c)'
    PROVE  SessionInv'
<1> SUFFICES ASSUME NEW d \in Conns PROVE ConnInv(d)'
  BY DEF SessionInv
<1>1. CASE d = c
  BY <1>1
<1>2. CASE d # c
  BY <1>2, SameKeepsInv DEF SessionInv
<1> QED BY <1>1, <1>2

\* The variables SessionInv speaks of
invVars == <<connections, sendClosed, hub, serve, cleanup, ws, container>>

LEMMA InvStutter == SessionInv /\ UNCHANGED invVars => SessionInv'
<1> SUFFICES ASSUME SessionInv, UNCHANGED invVars, NEW d \in Conns PROVE ConnInv(d)'
  BY DEF SessionInv
<1>1. SameAt(d)
  BY DEF SameAt, invVars, Adding, Removing
<1> QED BY <1>1, SameKeepsInv DEF SessionInv

\* The hub speaks of one connection at a time.
LEMMA HubCases ==
    ASSUME NEW c \in Conns, NEW d \in Conns
    PROVE  /\ hub.op = "select" => ~Adding(d) /\ ~Removing(d)
           /\ Adding(c) => ~Removing(d) /\ (Adding(d) <=> d = c)
           /\ Removing(c) => ~Adding(d) /\ (Removing(d) <=> d = c)
<1>1. ASSUME NEW o, NEW e, hub = [op |-> o, conn |-> e]
      PROVE  hub.op = o /\ hub.conn = e
  BY <1>1
<1>2. /\ Adding(c) => hub.op = "add" /\ hub.conn = c
      /\ Removing(c) => hub.op = "remove" /\ hub.conn = c
      /\ Adding(d) => hub.op = "add" /\ hub.conn = d
      /\ Removing(d) => hub.op = "remove" /\ hub.conn = d
  BY <1>1 DEF Adding, Removing
<1>3. "select" # "add" /\ "select" # "remove" /\ "add" # "remove"
  OBVIOUS
<1> QED BY <1>2, <1>3

\* The same after a step, for the hub's new state.
LEMMA HubCasesNext ==
    ASSUME NEW c \in Conns, NEW d \in Conns
    PROVE  /\ hub' = [op |-> "select"] => ~Adding(d)' /\ ~Removing(d)'
           /\ hub' = [op |-> "add", conn |-> c] => ~Removing(d)' /\ (Adding(d)' <=> d = c)
           /\ hub' = [op |-> "remove", conn |-> c] => ~Adding(d)' /\ (Removing(d)' <=> d = c)
<1>1. ASSUME NEW o, NEW e, hub' = [op |-> o, conn |-> e]
      PROVE  hub'.op = o /\ hub'.conn = e
  BY <1>1
<1>2. /\ Adding(d)' => hub'.op = "add" /\ hub'.conn = d
      /\ Removing(d)' => hub'.op = "remove" /\ hub'.conn = d
  BY <1>1 DEF Adding, Removing
<1>3. "select" # "add" /\ "select" # "remove" /\ "add" # "remove"
  OBVIOUS
<1>4. CASE hub' = [op |-> "select"]
  <2>1. hub'.op = "select" BY <1>4
  <2> QED BY <1>2, <1>3, <2>1
<1>5. CASE hub' = [op |-> "add", conn |-> c]
  <2>1. hub'.op = "add" /\ hub'.conn = c BY <1>1, <1>5
  <2>2. d = c => Adding(d)' BY <1>5 DEF Adding
  <2> QED BY <1>2, <1>3, <1>5, <2>1, <2>2
<1>6. CASE hub' = [op |-> "remove", conn |-> c]
  <2>1. hub'.op = "remove" /\ hub'.conn = c BY <1>1, <1>6
  <2>2. d = c => Removing(d)' BY <1>6 DEF Removing
  <2> QED BY <1>2, <1>3, <1>6, <2>1, <2>2
<1> QED BY <1>4, <1>5, <1>6

\* The steps of the hub: what it adds has an open channel, what it removes has
\* a handler that is past its last use of the channel.
LEMMA HubKeepsInv ==
    ASSUME TypeOK, SessionInv, HubStep
    PROVE  SessionInv'
<1> PICK c \in Conns : HubAdd(c) \/ HubRemove(c)
  BY DEF HubStep
<1>0. UNCHANGED <<serve, cleanup, ws, container>>
  BY DEF HubStep, sandboxVars, goVars, peerVars
<1>i. ConnInv(c)
  BY DEF SessionInv
<1>t. sendClosed \in [Conns -> BOOLEAN]
  BY DEF TypeOK, HubTypeOK
<1>1. CASE HubAdd(c)
  <2>a. Adding(c) /\ hub' = [op |-> "select"]
    BY <1>1 DEF HubAdd, Adding
  <2>b. /\ connections' = connections \cup {c}
        /\ sendClosed' = sendClosed
    BY <1>1 DEF HubAdd
  <2>1. ASSUME NEW d \in Conns \ {c} PROVE SameAt(d)
    BY <1>0, <2>a, <2>b, HubCases, HubCasesNext DEF SameAt
  <2>2. ~Adding(c)' /\ ~Removing(c)' /\ ~Removing(c)
    BY <2>a, HubCases, HubCasesNext
  <2>3. ConnInv(c)'
    BY <1>0, <1>i, <2>a, <2>b, <2>2 DEF ConnInv
  <2> QED BY <2>1, <2>3, OneKeepsInv
<1>2. CASE HubRemove(c)
  <2>a. Removing(c) /\ hub' = [op |-> "select"]
    BY <1>2 DEF HubRemove, Removing
  <2>b. /\ connections' = connections \ {c}
        /\ \A d \in Conns \ {c} : sendClosed'[d] = sendClosed[d]
    BY <1>2, <1>t DEF HubRemove
  <2>1. ASSUME NEW d \in Conns \ {c} PROVE SameAt(d)
    BY <1>0, <2>a, <2>b, HubCases, HubCasesNext DEF SameAt
  <2>2. ~Adding(c)' /\ ~Removing(c)'
    BY <2>a, HubCases, HubCasesNext
  <2>3. ConnInv(c)'
    BY <1>0, <1>i, <2>a, <2>b, <2>2 DEF ConnInv
  <2> QED BY <2>1, <2>3, OneKeepsInv
<1> QED BY <1>1, <1>2

\* A step of the handler of c that only moves its program counter, from a place
\* and to a place where the invariant asks for the same.
LEMMA MoveKeepsInv ==
    ASSUME TypeOK, SessionInv, NEW c \in Conns, NEW pc,
           pc \notin {"wsclose", "stop", "done"},
           serve[c] \notin {"wsclose", "stop", "done"},
           pc \in {"idle", "register", "create", "fail"} => container[c] = "none",
           Goto(c, pc), UNCHANGED <<connections, sendClosed, hub, cleanup, container>>,
           \A d \in Conns \ {c} : ws'[d] = ws[d]
    PROVE  SessionInv'
<1>t. serve \in [Conns -> {"idle", "register", "create", "fail", "start", "info", "run",
                           "read", "stdin", "unregister", "wsclose", "stop", "done"}]
  BY DEF TypeOK, GoTypeOK
<1>1. serve'[c] = pc /\ \A d \in Conns \ {c} : serve'[d] = serve[d]
  BY <1>t DEF Goto
<1>2. \A d \in Conns : (Adding(d)' <=> Adding(d)) /\ (Removing(d)' <=> Removing(d))
  BY DEF Adding, Removing
<1>3. \A d \in Conns \ {c} : SameAt(d)
  BY <1>1, <1>2 DEF SameAt
<1>4. ConnInv(c)
  BY DEF SessionInv
<1>5. ConnInv(c)'
  BY <1>1, <1>2, <1>4 DEF ConnInv
<1> QED BY <1>3, <1>5, OneKeepsInv

\* The steps of the handler.
LEMMA HandlerKeepsInv ==
    ASSUME TypeOK, SessionInv, NEW c \in Conns,
           HandlerStep(c) \/ Upgrade(c) \/ ReceiveStdin(c) \/ ReceiveMalformed(c)
    PROVE  SessionInv'
<1>i. ConnInv(c)
  BY DEF SessionInv
<1>s. serve \in [Conns -> {"idle", "register", "create", "fail", "start", "info", "run",
                           "read", "stdin", "unregister", "wsclose", "stop", "done"}]
  BY DEF TypeOK, GoTypeOK
<1>c. /\ container \in [Conns -> {"none", "created", "running", "destroyed", "left"}]
      /\ cleanup \in [Conns -> {"off", "wait", "destroy", "unmount", "done"}]
  BY DEF TypeOK, SandboxTypeOK
<1>w. ws \in [Conns -> {"none", "open", "gone", "closed"}]
  BY DEF TypeOK, PeerTypeOK
<1>1. CASE Upgrade(c)
  <2>1. /\ serve[c] = "idle" /\ Goto(c, "register")
        /\ UNCHANGED <<connections, sendClosed, hub, cleanup, container>>
    BY <1>1 DEF Upgrade, hubVars, sandboxVars
  <2>2. \A d \in Conns \ {c} : ws'[d] = ws[d]
    BY <1>1, <1>w DEF Upgrade
  <2>3. container[c] = "none"
    BY <1>i, <2>1 DEF ConnInv
  <2> QED BY <2>1, <2>2, <2>3, MoveKeepsInv
<1>2. CASE ServeRegister(c)
  <2>a. /\ serve[c] = "register" /\ serve' = [serve EXCEPT ![c] = "create"]
        /\ hub.op = "select" /\ hub' = [op |-> "add", conn |-> c]
        /\ UNCHANGED <<connections, sendClosed, cleanup, ws, container>>
    BY <1>2 DEF ServeRegister, Register, Goto, sandboxVars, peerVars
  <2>b. serve'[c] = "create" /\ \A d \in Conns \ {c} : serve'[d] = serve[d]
    BY <1>s, <2>a
  <2>1. ASSUME NEW d \in Conns \ {c} PROVE SameAt(d)
    BY <2>a, <2>b, HubCases, HubCasesNext DEF SameAt
  <2>2. Adding(c)' /\ ~Removing(c)'
    BY <2>a, HubCasesNext
  <2>3. ConnInv(c)'
    BY <1>i, <2>a, <2>b, <2>2 DEF ConnInv
  <2> QED BY <2>1, <2>3, OneKeepsInv
<1>3. CASE ServeCreate(c)
  <2>a. /\ serve[c] = "create"
        /\ UNCHANGED <<connections, sendClosed, hub, cleanup, ws>>
    BY <1>3 DEF ServeCreate, Created, CreateFails, hubVars, peerVars
  <2>1. CASE Created(c) /\ Goto(c, "start")
    <3>1. /\ serve'[c] = "start"
          /\ \A d \in Conns \ {c} : serve'[d] = serve[d] /\ container'[d] = container[d]
      BY <1>s, <1>c, <2>1 DEF Created, Goto
    <3>2. \A d \in Conns : (Adding(d)' <=> Adding(d)) /\ (Removing(d)' <=> Removing(d))
      BY <2>a DEF Adding, Removing
    <3>3. \A d \in Conns \ {c} : SameAt(d)
      BY <2>a, <3>1, <3>2 DEF SameAt
    <3>4. ConnInv(c)'
      BY <1>i, <2>a, <3>1, <3>2 DEF ConnInv
    <3> QED BY <3>3, <3>4, OneKeepsInv
  <2>2. CASE CreateFails(c) /\ Goto(c, "fail")
    <3>1. container[c] = "none" /\ UNCHANGED container
      BY <1>i, <2>a, <2>2 DEF ConnInv, CreateFails
    <3> QED BY <2>a, <2>2, <3>1, MoveKeepsInv
  <2> QED BY <1>3, <2>1, <2>2 DEF ServeCreate
<1>4. CASE CreateFatal(c) \/ RunFatal(c)
  BY <1>4, InvStutter
  DEF CreateFatal, RunFatal, invVars, hubVars, sandboxVars, goVars, peerVars
<1>5. CASE SendError(c)
  <2>a. /\ serve[c] = "fail" /\ serve' = [serve EXCEPT ![c] = "done"]
        /\ UNCHANGED <<connections, sendClosed, hub, cleanup, ws, container>>
    BY <1>5 DEF SendError, Send, Goto, sandboxVars, peerVars
  <2>b. serve'[c] = "done" /\ \A d \in Conns \ {c} : serve'[d] = serve[d]
    BY <1>s, <2>a
  <2>2. \A d \in Conns : (Adding(d)' <=> Adding(d)) /\ (Removing(d)' <=> Removing(d))
    BY <2>a DEF Adding, Removing
  <2>3. \A d \in Conns \ {c} : SameAt(d)
    BY <2>a, <2>b, <2>2 DEF SameAt
  <2>4. ConnInv(c)'
    BY <1>i, <2>a, <2>b, <2>2 DEF ConnInv
  <2> QED BY <2>3, <2>4, OneKeepsInv
<1>6. CASE ServeStart(c)
  <2>a. /\ serve[c] = "start" /\ serve' = [serve EXCEPT ![c] = "info"]
        /\ UNCHANGED <<connections, sendClosed, hub, ws>>
        /\ UNCHANGED <<container, cleanup>> \/ Started(c)
    BY <1>6 DEF ServeStart, StartFails, Goto, hubVars, sandboxVars, peerVars
  <2>b. /\ serve'[c] = "info" /\ \A d \in Conns \ {c} : serve'[d] = serve[d]
        /\ \A d \in Conns \ {c} : container'[d] = container[d] /\ cleanup'[d] = cleanup[d]
        /\ cleanup'[c] = cleanup[c] \/ cleanup'[c] = "wait"
    BY <1>s, <1>c, <2>a DEF Started
  <2>2. \A d \in Conns : (Adding(d)' <=> Adding(d)) /\ (Removing(d)' <=> Removing(d))
    BY <2>a DEF Adding, Removing
  <2>3. \A d \in Conns \ {c} : SameAt(d)
    BY <2>a, <2>b, <2>2 DEF SameAt
  <2>4. ConnInv(c)'
    BY <1>i, <2>a, <2>b, <2>2 DEF ConnInv, Cleaning
  <2> QED BY <2>3, <2>4, OneKeepsInv
<1>7. CASE SendInfo(c) \/ ServeRun(c) \/ ServeWriteStdin(c)
  <2>1. /\ serve[c] \in {"info", "run", "stdin"}
        /\ UNCHANGED <<connections, sendClosed, hub, cleanup, container, ws>>
        /\ \E pc \in {"run", "read"} : Goto(c, pc)
    BY <1>7 DEF SendInfo, ServeRun, ServeWriteStdin, Send, RunShell, WriteStdin,
                hubVars, sandboxVars, peerVars
  <2> QED BY <2>1, MoveKeepsInv
<1>9. CASE RunPanics(c) \/ ReceiveStdin(c) \/ ReceiveMalformed(c) \/ ReadFails(c)
  <2>1. /\ serve[c] \in {"run", "read"}
        /\ \E pc \in {"unregister", "stdin"} : Goto(c, pc)
        /\ UNCHANGED <<connections, sendClosed, hub, cleanup, ws, container>>
    BY <1>9 DEF RunPanics, ReceiveStdin, ReceiveMalformed, ReadFails,
                hubVars, sandboxVars, peerVars
  <2> QED BY <2>1, MoveKeepsInv
<1>11. CASE ServeUnregister(c)
  <2>a. /\ serve[c] = "unregister" /\ serve' = [serve EXCEPT ![c] = "wsclose"]
        /\ hub.op = "select" /\ hub' = [op |-> "remove", conn |-> c]
        /\ UNCHANGED <<connections, sendClosed, cleanup, ws, container>>
    BY <1>11 DEF ServeUnregister, Unregister, Goto, sandboxVars, peerVars
  <2>b. serve'[c] = "wsclose" /\ \A d \in Conns \ {c} : serve'[d] = serve[d]
    BY <1>s, <2>a
  <2>1. ASSUME NEW d \in Conns \ {c} PROVE SameAt(d)
    BY <2>a, <2>b, HubCases, HubCasesNext DEF SameAt
  <2>2. ~Adding(c)' /\ Removing(c)'
    BY <2>a, HubCasesNext
  <2>3. ConnInv(c)'
    BY <1>i, <2>a, <2>b, <2>2 DEF ConnInv
  <2> QED BY <2>1, <2>3, OneKeepsInv
<1>12. CASE ServeClose(c)
  <2>a. /\ serve[c] = "wsclose" /\ serve' = [serve EXCEPT ![c] = "stop"]
        /\ ws' = [ws EXCEPT ![c] = "closed"]
        /\ UNCHANGED <<connections, sendClosed, hub, cleanup, container>>
    BY <1>12 DEF ServeClose, Goto, hubVars, sandboxVars
  <2>b. /\ serve'[c] = "stop" /\ ws'[c] = "closed"
        /\ \A d \in Conns \ {c} : serve'[d] = serve[d] /\ ws'[d] = ws[d]
    BY <1>s, <1>w, <2>a
  <2>2. \A d \in Conns : (Adding(d)' <=> Adding(d)) /\ (Removing(d)' <=> Removing(d))
    BY <2>a DEF Adding, Removing
  <2>3. \A d \in Conns \ {c} : SameAt(d)
    BY <2>a, <2>b, <2>2 DEF SameAt
  <2>4. ConnInv(c)'
    BY <1>i, <2>a, <2>b, <2>2 DEF ConnInv
  <2> QED BY <2>3, <2>4, OneKeepsInv
<1>13. CASE ServeStop(c)
  <2>a. /\ serve[c] = "stop" /\ serve' = [serve EXCEPT ![c] = "done"]
        /\ cleanup' = [cleanup EXCEPT ![c] = "destroy"]
        /\ UNCHANGED <<connections, sendClosed, hub, ws, container>>
    BY <1>13 DEF ServeStop, Stop, Goto, hubVars, peerVars
  <2>b. /\ serve'[c] = "done" /\ cleanup'[c] = "destroy"
        /\ \A d \in Conns \ {c} : serve'[d] = serve[d] /\ cleanup'[d] = cleanup[d]
    BY <1>s, <1>c, <2>a
  <2>2. \A d \in Conns : (Adding(d)' <=> Adding(d)) /\ (Removing(d)' <=> Removing(d))
    BY <2>a DEF Adding, Removing
  <2>3. \A d \in Conns \ {c} : SameAt(d)
    BY <2>a, <2>b, <2>2 DEF SameAt
  <2>4. ConnInv(c)'
    BY <1>i, <2>a, <2>b, <2>2 DEF ConnInv, Cleaning
  <2> QED BY <2>3, <2>4, OneKeepsInv
<1> QED
  BY <1>1, <1>2, <1>3, <1>4, <1>5, <1>6, <1>7, <1>9, <1>11, <1>12, <1>13
  DEF HandlerStep

\* The steps that change the websocket or the container from another goroutine.
LEMMA OthersKeepInv ==
    ASSUME TypeOK, SessionInv, NEW c \in Conns,
           PeerLeaves(c) \/ PumpFails(c) \/ PumpClosed(c) \/ CleanupStep(c)
    PROVE  SessionInv'
<1>i. ConnInv(c)
  BY DEF SessionInv
<1>c. /\ container \in [Conns -> {"none", "created", "running", "destroyed", "left"}]
      /\ cleanup \in [Conns -> {"off", "wait", "destroy", "unmount", "done"}]
  BY DEF TypeOK, SandboxTypeOK
<1>w. ws \in [Conns -> {"none", "open", "gone", "closed"}]
  BY DEF TypeOK, PeerTypeOK
<1>a. UNCHANGED <<connections, sendClosed, hub, serve>>
  BY DEF PeerLeaves, PumpFails, PumpClosed, PumpReturns, CleanupStep,
         hubVars, sandboxVars, goVars, peerVars
<1>b. \A d \in Conns : (Adding(d)' <=> Adding(d)) /\ (Removing(d)' <=> Removing(d))
  BY <1>a DEF Adding, Removing
<1>1. CASE PeerLeaves(c) \/ PumpFails(c) \/ PumpClosed(c)
  <2>1. /\ UNCHANGED <<cleanup, container>>
        /\ \/ ws[c] = "open" /\ ws' = [ws EXCEPT ![c] = "gone"]
           \/ ws' = [ws EXCEPT ![c] = "closed"]
    BY <1>1 DEF PeerLeaves, PumpFails, PumpClosed, PumpReturns, sandboxVars
  <2>2. /\ ws'[c] = "closed" \/ ws[c] = "open"
        /\ \A d \in Conns \ {c} : ws'[d] = ws[d]
    BY <1>w, <2>1
  <2>3. \A d \in Conns \ {c} : SameAt(d)
    BY <1>a, <1>b, <2>1, <2>2 DEF SameAt
  <2>4. ConnInv(c)'
    BY <1>i, <1>a, <1>b, <2>1, <2>2 DEF ConnInv
  <2> QED BY <2>3, <2>4, OneKeepsInv
<1>2. CASE CleanupStep(c)
  <2>1. UNCHANGED ws
    BY <1>2 DEF CleanupStep, peerVars
  <2>2. /\ cleanup[c] \in Cleaning /\ cleanup'[c] \in Cleaning
        /\ \A d \in Conns \ {c} : cleanup'[d] = cleanup[d] /\ container'[d] = container[d]
    <3>1. CASE Destroy(c) BY <1>c, <3>1 DEF Destroy, Cleaning
    <3>2. CASE Unmount(c) BY <1>c, <3>2 DEF Unmount, Cleaning
    <3> QED BY <1>2, <3>1, <3>2 DEF CleanupStep
  <2>3. \A d \in Conns \ {c} : SameAt(d)
    BY <1>a, <1>b, <2>1, <2>2 DEF SameAt
  <2>4. ConnInv(c)'
    BY <1>i, <1>a, <1>b, <2>1, <2>2 DEF ConnInv
  <2> QED BY <2>3, <2>4, OneKeepsInv
<1> QED BY <1>1, <1>2

\* SessionInv is an invariant of every number of sessions.
THEOREM SessionInvariant == Spec => []SessionInv
<1>1. Init => SessionInv
  <2> SUFFICES ASSUME Init, NEW c \in Conns
               PROVE  /\ c \notin connections
                      /\ ~sendClosed[c]
                      /\ ~Adding(c) /\ ~Removing(c)
                      /\ serve[c] = "idle"
                      /\ cleanup[c] \notin Cleaning
                      /\ container[c] = "none"
    BY DEF SessionInv, ConnInv
  <2>1. hub.op = "select"
    BY DEF Init, HubInit
  <2>2. ~Adding(c) /\ ~Removing(c)
    BY <2>1, HubCases
  <2> QED BY <2>2 DEF Init, HubInit, SandboxInit, Cleaning
<1>2. TypeOK /\ SessionInv /\ [Next]_vars => SessionInv'
  <2> SUFFICES ASSUME TypeOK, SessionInv, [Next]_vars PROVE SessionInv'
    OBVIOUS
  <2>1. CASE HubStep
    BY <2>1, HubKeepsInv
  <2>2. ASSUME NEW c \in Conns, ForwarderStep(c)
        PROVE  UNCHANGED invVars
    BY <2>2 DEF ForwarderStep, ForwardReceive, ForwardEvent, ForwardError, ForwardPanics,
                HandEvent, Send, invVars, hubVars, sandboxVars, goVars, peerVars
  <2>3. ASSUME NEW c \in Conns, NEW s \in Streams, ReaderStep(c, s) \/ ReadOutput(c, s)
        PROVE  UNCHANGED invVars
    BY <2>3 DEF ReaderStep, ReadOutput, SendOutput, OutputPanics, OutputEnds,
                Send, invVars, hubVars, sandboxVars, goVars, peerVars
  <2>4. ASSUME NEW c \in Conns, PumpReceive(c) \/ PumpWrite(c)
        PROVE  UNCHANGED invVars
    BY <2>4 DEF PumpReceive, PumpWrite, Receive, invVars, hubVars, sandboxVars, peerVars
  <2>5. ASSUME NEW c \in Conns, Environment(c)
        PROVE  UNCHANGED invVars
    BY <2>5 DEF Environment, LogLine, ShellStarts, ExecuteFails, ShellReads, ShellExits,
                HangUp, invVars, hubVars, goVars, peerVars
  <2>6. CASE UNCHANGED vars
    BY <2>6, InvStutter DEF vars, invVars, hubVars, sandboxVars, goVars, peerVars
  <2>7. ASSUME NEW c \in Conns, ConsoleFatal(c)
        PROVE  UNCHANGED invVars
    BY <2>7 DEF ConsoleFatal, invVars, hubVars, sandboxVars, goVars, peerVars
  <2> QED
    BY <2>1, <2>2, <2>3, <2>4, <2>5, <2>6, <2>7, InvStutter, HandlerKeepsInv, OthersKeepInv
    DEF Next, PeerStep, PumpStep
<1> QED BY <1>1, <1>2, SessionTypeOK, PTL DEF Spec

\* The hub closes a send channel once, and the handler never sends on it after.
THEOREM SessionChannels == Spec => []ChannelDiscipline
<1>1. SessionInv => ChannelDiscipline
  BY DEF SessionInv, ConnInv, ChannelDiscipline
<1> QED BY <1>1, SessionInvariant, PTL

\* The sandbox is torn down after the handler, the websocket and the registry.
THEOREM SessionTeardown == Spec => []TeardownOrder
<1>1. SessionInv => TeardownOrder
  BY DEF SessionInv, ConnInv, Removing, TeardownOrder
<1> QED BY <1>1, SessionInvariant, PTL

\* No handler returns and leaves a container nobody cleans up.
THEOREM SessionNoAbandoned == Spec => []NoAbandonedSandbox
<1>1. SessionInv => NoAbandonedSandbox
  BY DEF SessionInv, ConnInv, NoAbandonedSandbox
<1> QED BY <1>1, SessionInvariant, PTL
=============================================================================
