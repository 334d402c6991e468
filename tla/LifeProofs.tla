----------------------------- MODULE LifeProofs -----------------------------
(***************************************************************************)
(* Session implements the life cycle of Sandbox: for any number of         *)
(* connections Create runs once, on nothing, Start on what Create has made,*)
(* and the cleanup begins with a container that runs, destroys it, and     *)
(* unmounts a namespace that is mounted.  A handler whose Start has failed *)
(* hangs in Stop; that is no step, and these proofs say nothing of it.     *)
(***************************************************************************)
EXTENDS SessionProofs

LifeAll == \A c \in Conns : LifeInv(c)
lifeVars == <<serve, container, netns, cleanup>>

\* Nothing LifeInv speaks of changes at connection d.
LifeSame(d) ==
    /\ serve'[d] = serve[d] /\ container'[d] = container[d]
    /\ netns'[d] = netns[d] /\ cleanup'[d] = cleanup[d]

LEMMA LifeTypes ==
    ASSUME TypeOK
    PROVE  /\ serve \in [Conns -> {"idle", "register", "create", "fail", "start",
                                   "info", "run", "read", "stdin", "unregister",
                                   "wsclose", "stop", "done"}]
           /\ container \in [Conns -> {"none", "created", "running", "destroyed", "left"}]
           /\ netns \in [Conns -> {"none", "mounted", "unmounted"}]
           /\ cleanup \in [Conns -> {"off", "wait", "destroy", "unmount", "done"}]
  BY DEF TypeOK, GoTypeOK, SandboxTypeOK

\* A step at c leaves the other connections alone.
LEMMA LifeOne ==
    ASSUME LifeAll, NEW c \in Conns, LifeInv(c)',
           \A d \in Conns \ {c} : LifeSame(d)
    PROVE  LifeAll'
<1>1. ASSUME NEW d \in Conns, d # c PROVE LifeInv(d)'
  <2>1. LifeInv(d) /\ LifeSame(d)
    BY <1>1 DEF LifeAll
  <2> QED BY <2>1 DEF LifeInv, LifeSame
<1> QED BY <1>1 DEF LifeAll

\* The handler moves to a step of which LifeInv says nothing, or on before Create.
LEMMA MoveKeepsLife ==
    ASSUME TypeOK, LifeAll, NEW c \in Conns, NEW l, Goto(c, l),
           \/ l \notin {"idle", "register", "create", "start"}
           \/ l \in {"register", "create"} /\ serve[c] \in {"idle", "register"},
           UNCHANGED <<container, netns, cleanup>>
    PROVE  LifeAll'
<1>1. serve'[c] = l /\ \A d \in Conns \ {c} : serve'[d] = serve[d]
  BY LifeTypes DEF Goto
<1>2. LifeInv(c)'
  BY <1>1 DEF LifeAll, LifeInv
<1>3. \A d \in Conns \ {c} : LifeSame(d)
  BY <1>1 DEF LifeSame
<1> QED BY <1>2, <1>3, LifeOne

\* The handler.
LEMMA HandlerKeepsLife ==
    ASSUME TypeOK, LifeAll, NEW c \in Conns,
           HandlerStep(c) \/ Upgrade(c) \/ ReceiveStdin(c) \/ ReceiveMalformed(c)
    PROVE  LifeAll'
<1>i. LifeInv(c)
  BY DEF LifeAll
<1>1. CASE \/ Upgrade(c) \/ ServeRegister(c) \/ SendError(c) \/ SendInfo(c) \/ ServeRun(c)
           \/ RunPanics(c) \/ ReceiveStdin(c) \/ ServeWriteStdin(c) \/ ReceiveMalformed(c)
           \/ ReadFails(c) \/ ServeUnregister(c) \/ ServeClose(c)
  <2>1. PICK l : /\ Goto(c, l)
                 /\ \/ l \notin {"idle", "register", "create", "start"}
                    \/ l \in {"register", "create"} /\ serve[c] \in {"idle", "register"}
    BY <1>1 DEF Upgrade, ServeRegister, SendError, SendInfo, ServeRun, RunPanics,
       ReceiveStdin, ServeWriteStdin, ReceiveMalformed, ReadFails, ServeUnregister, ServeClose
  <2>2. UNCHANGED <<container, netns, cleanup>>
    BY <1>1 DEF Upgrade, ServeRegister, SendError, SendInfo, ServeRun, RunPanics,
       ReceiveStdin, ServeWriteStdin, ReceiveMalformed, ReadFails, ServeUnregister,
       ServeClose, sandboxVars, RunShell, WriteStdin
  <2> QED BY <2>1, <2>2, MoveKeepsLife
<1>2. CASE ServeCreate(c)
  <2>1. \/ /\ serve'[c] = "start" /\ container'[c] = "created" /\ netns'[c] = "mounted"
        \/ serve'[c] = "fail" /\ container'[c] = container[c]
    BY <1>2, LifeTypes DEF ServeCreate, Goto, Created, CreateFails
  <2>2. /\ cleanup'[c] = cleanup[c]
        /\ \A d \in Conns \ {c} : LifeSame(d)
    BY <1>2, LifeTypes DEF ServeCreate, Goto, Created, CreateFails, LifeSame
  <2>3. container[c] = "none" /\ cleanup[c] = "off"
    BY <1>2, <1>i DEF ServeCreate, LifeInv
  <2>4. LifeInv(c)'
    BY <2>1, <2>2, <2>3 DEF LifeInv
  <2> QED BY <2>2, <2>4, LifeOne
<1>3. CASE ServeStart(c)
  <2>0. serve[c] = "start" /\ serve'[c] = "info"
    BY <1>3, LifeTypes DEF ServeStart, Goto
  <2>1. CASE Started(c)
    <3>1. /\ container'[c] = "running" /\ cleanup'[c] = "wait" /\ netns'[c] = netns[c]
          /\ \A d \in Conns \ {c} : LifeSame(d)
      BY <1>3, <2>1, LifeTypes DEF ServeStart, Goto, Started, LifeSame
    <3>2. LifeInv(c)'
      BY <2>0, <3>1, <1>i DEF LifeInv
    <3> QED BY <3>1, <3>2, LifeOne
  <2>2. CASE StartFails(c)
    <3>1. Goto(c, "info") /\ UNCHANGED <<container, netns, cleanup>>
      BY <1>3, <2>2 DEF ServeStart, StartFails, sandboxVars
    <3> QED BY <3>1, MoveKeepsLife
  <2> QED BY <1>3, <2>1, <2>2 DEF ServeStart
<1>5. CASE ServeStop(c)
  <2>1. /\ serve'[c] = "done" /\ cleanup[c] = "wait" /\ cleanup'[c] = "destroy"
        /\ UNCHANGED <<container, netns>>
        /\ \A d \in Conns \ {c} : LifeSame(d)
    BY <1>5, LifeTypes DEF ServeStop, Goto, Stop, LifeSame
  <2>2. LifeInv(c)'
    BY <2>1, <1>i DEF LifeInv
  <2> QED BY <2>1, <2>2, LifeOne
<1>4. CASE CreateFatal(c) \/ RunFatal(c)
  <2>1. UNCHANGED lifeVars
    BY <1>4 DEF CreateFatal, RunFatal, sandboxVars, goVars, lifeVars
  <2> QED BY <2>1 DEF LifeAll, LifeInv, lifeVars
<1> QED BY <1>1, <1>2, <1>3, <1>4, <1>5 DEF HandlerStep

\* The cleanup goroutine runs when the handler has returned.
LEMMA CleanupKeepsLife ==
    ASSUME TypeOK, SessionInv, LifeAll, NEW c \in Conns, CleanupStep(c)
    PROVE  LifeAll'
<1>i. LifeInv(c)
  BY DEF LifeAll
<1>1. serve' = serve /\ \A d \in Conns \ {c} : LifeSame(d)
  BY LifeTypes DEF CleanupStep, Destroy, Unmount, goVars, LifeSame
<1>2. cleanup[c] \in Cleaning
  BY DEF CleanupStep, Destroy, Unmount, Cleaning
<1>3. serve[c] = "done"
  BY <1>2 DEF SessionInv, ConnInv
<1>4. CASE Destroy(c)
  <2>1. /\ cleanup[c] = "destroy" /\ cleanup'[c] = "unmount" /\ netns' = netns
        /\ container'[c] \in {"destroyed", "left"}
    BY <1>4, LifeTypes DEF Destroy
  <2>2. LifeInv(c)'
    BY <2>1, <1>i, <1>1, <1>3 DEF LifeInv
  <2> QED BY <2>2, <1>1, LifeOne
<1>5. CASE Unmount(c)
  <2>1. cleanup[c] = "unmount" /\ cleanup'[c] = "done" /\ container' = container
    BY <1>5, LifeTypes DEF Unmount
  <2>2. LifeInv(c)'
    BY <2>1, <1>i, <1>1, <1>3 DEF LifeInv
  <2> QED BY <2>2, <1>1, LifeOne
<1> QED BY <1>4, <1>5 DEF CleanupStep

\* Nobody else touches container and namespace.
LEMMA OthersSame ==
    ASSUME \/ HubStep
           \/ \E c \in Conns : \/ ForwarderStep(c) \/ PumpStep(c) \/ PumpFails(c)
                               \/ PeerLeaves(c) \/ Environment(c) \/ ConsoleFatal(c)
           \/ \E c \in Conns, s \in Streams : ReaderStep(c, s) \/ ReadOutput(c, s)
           \/ UNCHANGED vars
    PROVE  UNCHANGED <<serve, container, netns, cleanup>>
<1>1. CASE HubStep \/ UNCHANGED vars
  BY <1>1 DEF HubStep, vars, sandboxVars, goVars
<1>2. ASSUME NEW c \in Conns, ForwarderStep(c)
      PROVE  UNCHANGED <<serve, container, netns, cleanup>>
  BY <1>2 DEF ForwarderStep, ForwardReceive, ForwardEvent, ForwardError, ForwardPanics,
     HandEvent, sandboxVars, goVars
<1>3. ASSUME NEW c \in Conns, PumpStep(c) \/ PumpFails(c)
      PROVE  UNCHANGED <<serve, container, netns, cleanup>>
  BY <1>3 DEF PumpStep, PumpFails, PumpReceive, PumpWrite, PumpClosed, PumpReturns,
     sandboxVars
<1>4. ASSUME NEW c \in Conns, PeerLeaves(c) \/ Environment(c) \/ ConsoleFatal(c)
      PROVE  UNCHANGED <<serve, container, netns, cleanup>>
  BY <1>4 DEF PeerLeaves, Environment, ConsoleFatal, LogLine, ShellStarts, ExecuteFails, ShellReads,
     ShellExits, HangUp, sandboxVars, goVars
<1>5. ASSUME NEW c \in Conns, NEW s \in Streams, ReaderStep(c, s) \/ ReadOutput(c, s)
      PROVE  UNCHANGED <<serve, container, netns, cleanup>>
  BY <1>5 DEF ReaderStep, SendOutput, OutputPanics, OutputEnds, ReadOutput, sandboxVars, goVars
<1> QED BY <1>1, <1>2, <1>3, <1>4, <1>5

\* Create finds nothing, Start what Create has made, and each step of the cleanup
\* what the one before it leaves (web_other.go:191-208, gvisor_linux.go:583-595).
THEOREM SessionLife == Spec => []LifeAll
<1>1. Init => LifeAll
  <2> SUFFICES ASSUME Init, NEW c \in Conns PROVE LifeInv(c)
    BY DEF LifeAll
  <2>1. /\ serve[c] = "idle" /\ container[c] = "none"
        /\ netns[c] = "none" /\ cleanup[c] = "off"
    BY DEF Init, SandboxInit
  <2> QED BY <2>1 DEF LifeInv
<1>2. TypeOK /\ SessionInv /\ LifeAll /\ [Next]_vars => LifeAll'
  <2> SUFFICES ASSUME TypeOK, SessionInv, LifeAll, [Next]_vars PROVE LifeAll'
    OBVIOUS
  <2>1. CASE \E c \in Conns : \/ HandlerStep(c) \/ Upgrade(c)
                              \/ ReceiveStdin(c) \/ ReceiveMalformed(c)
    BY <2>1, HandlerKeepsLife
  <2>2. CASE \E c \in Conns : CleanupStep(c)
    BY <2>2, CleanupKeepsLife
  <2>3. CASE \/ HubStep
             \/ \E c \in Conns : \/ ForwarderStep(c) \/ PumpStep(c) \/ PumpFails(c)
                                 \/ PeerLeaves(c) \/ Environment(c) \/ ConsoleFatal(c)
             \/ \E c \in Conns, s \in Streams : ReaderStep(c, s) \/ ReadOutput(c, s)
             \/ UNCHANGED vars
    <3>1. UNCHANGED <<serve, container, netns, cleanup>>
      BY <2>3, OthersSame
    <3> QED BY <3>1 DEF LifeAll, LifeInv
  <2> QED BY <2>1, <2>2, <2>3 DEF Next, PeerStep
<1> QED BY <1>1, <1>2, SessionTypeOK, SessionInvariant, PTL DEF Spec

----------------------------------------------------------------------------

LEMMA Invisible ==
    UNCHANGED <<container, netns, cleanup>> => UNCHANGED Life!sandboxVars
  BY DEF Life!sandboxVars

\* Every step of a session, of whichever goroutine, is for container, namespace
\* and cleanup a step of Sandbox's life cycle, taken in a state that step is meant
\* for, or none.
THEOREM SessionImplementsLife == Spec => ImplementsLife
<1>1. Init => Life!SandboxInit
  BY DEF Init, SandboxInit, Life!SandboxInit
<1>2. TypeOK /\ LifeAll /\ [Next]_vars =>
          [\E c \in Conns : Life!LifeStep(c)]_(Life!sandboxVars)
  <2> SUFFICES ASSUME TypeOK, LifeAll, [Next]_vars
               PROVE  \/ \E c \in Conns : Life!LifeStep(c)
                      \/ UNCHANGED Life!sandboxVars
    OBVIOUS
  <2>1. ASSUME NEW c \in Conns, ServeCreate(c) PROVE Life!LifeStep(c)
    <3>1. container[c] = "none" /\ netns[c] = "none"
      BY <2>1 DEF ServeCreate, LifeAll, LifeInv
    <3>2. Life!Created(c) \/ Life!CreateFails(c)
      BY <2>1 DEF ServeCreate, Created, CreateFails, Life!Created, Life!CreateFails
    <3> QED BY <3>1, <3>2 DEF Life!LifeStep
  <2>2. ASSUME NEW c \in Conns, ServeStart(c)
        PROVE  Life!LifeStep(c) \/ UNCHANGED Life!sandboxVars
    <3>1. container[c] = "created" /\ netns[c] = "mounted"
      BY <2>2 DEF ServeStart, LifeAll, LifeInv
    <3>2. CASE Started(c)
      <4>1. Life!Started(c)
        <5>1. [x \in Conns |-> FALSE] = [[x \in Conns |-> FALSE] EXCEPT ![c] = FALSE]
          OBVIOUS
        <5> QED BY <3>2, <5>1 DEF Started, Life!Started
      <4> QED BY <3>1, <4>1 DEF Life!LifeStep
    <3>3. CASE StartFails(c)
      BY <3>3, Invisible DEF StartFails, sandboxVars
    <3> QED BY <2>2, <3>2, <3>3 DEF ServeStart
  <2>3. ASSUME NEW c \in Conns, ServeStop(c) PROVE Life!LifeStep(c)
    <3>1. container[c] = "running" /\ netns[c] = "mounted"
      BY <2>3 DEF ServeStop, Stop, LifeAll, LifeInv
    <3> QED BY <2>3, <3>1 DEF ServeStop, Stop, Life!LifeStep, Life!Stop
  <2>4. ASSUME NEW c \in Conns, CleanupStep(c) PROVE Life!LifeStep(c)
    <3>1. CASE Destroy(c)
      <4>0. container[c] = "running" /\ netns[c] = "mounted"
        BY <3>1 DEF Destroy, LifeAll, LifeInv
      <4>1. Life!Destroy(c)
        <5>1. LET off == [x \in Conns |-> "off"] IN
                off = [off EXCEPT ![c] = IF @ = "running" THEN "ended" ELSE @]
          OBVIOUS
        <5> QED BY <3>1, <5>1 DEF Destroy, Life!Destroy
      <4> QED BY <4>0, <4>1 DEF Life!LifeStep
    <3>2. CASE Unmount(c)
      <4>0. container[c] \in {"destroyed", "left"} /\ netns[c] = "mounted"
        BY <3>2 DEF Unmount, LifeAll, LifeInv
      <4> QED BY <3>2, <4>0 DEF Unmount, Life!LifeStep, Life!Unmount
    <3> QED BY <2>4, <3>1, <3>2 DEF CleanupStep
  <2>5. ASSUME NEW c \in Conns,
               \/ Upgrade(c) \/ ServeRegister(c) \/ CreateFatal(c) \/ SendError(c)
               \/ SendInfo(c) \/ ServeRun(c) \/ RunPanics(c) \/ RunFatal(c)
               \/ ReceiveStdin(c) \/ ServeWriteStdin(c) \/ ReceiveMalformed(c)
               \/ ReadFails(c) \/ ServeUnregister(c) \/ ServeClose(c)
        PROVE  UNCHANGED Life!sandboxVars
    <3>1. UNCHANGED <<container, netns, cleanup>>
      BY <2>5 DEF Upgrade, ServeRegister, CreateFatal, SendError, SendInfo, ServeRun,
         RunPanics, RunFatal, ReceiveStdin, ServeWriteStdin, ReceiveMalformed, ReadFails,
         ServeUnregister, ServeClose, sandboxVars, RunShell, WriteStdin
    <3> QED BY <3>1, Invisible
  <2>6. CASE \/ HubStep
             \/ \E c \in Conns : \/ ForwarderStep(c) \/ PumpStep(c) \/ PumpFails(c)
                                 \/ PeerLeaves(c) \/ Environment(c) \/ ConsoleFatal(c)
             \/ \E c \in Conns, s \in Streams : ReaderStep(c, s) \/ ReadOutput(c, s)
             \/ UNCHANGED vars
    <3>1. UNCHANGED <<container, netns, cleanup>>
      BY <2>6, OthersSame
    <3> QED BY <3>1, Invisible
  <2> QED BY <2>1, <2>2, <2>3, <2>4, <2>5, <2>6 DEF Next, PeerStep, HandlerStep
<1> QED BY <1>1, <1>2, SessionTypeOK, SessionLife, PTL
  DEF Spec, ImplementsLife, Life!LifeSpec
=============================================================================
