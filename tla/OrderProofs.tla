---------------------------- MODULE OrderProofs ----------------------------
(***************************************************************************)
(* Proofs about the order in which a page of Session sees its messages:    *)
(* the info message first, the messages of an output stream in the order   *)
(* of the reads and without a gap, each with bytes that are not older than *)
(* it, for any number of connections, streams, buffer and channel sizes.   *)
(***************************************************************************)
EXTENDS SessionProofs

InfoAll == \A c \in Conns : InfoInv(c)

\* What TypeOK says of the variables InfoInv is about
LEMMA InfoTypes ==
    ASSUME TypeOK
    PROVE  /\ serve \in [Conns -> Before \cup {"run", "read", "stdin", "unregister",
                                               "wsclose", "stop", "done"}]
           /\ fwd \in [Conns -> {"off", "recv", "event", "error"}]
           /\ rd \in [Conns -> [Streams -> {"off", "read", "send", "done"}]]
           /\ wr \in [Conns -> {"off", "select", "write", "done"}]
           /\ ws \in [Conns -> {"none", "open", "gone", "closed"}]
           /\ first \in [Conns -> Notices \cup Streams \cup {"none"}]
           /\ send \in [Conns -> Seq(Message)]
           /\ cur \in [Conns -> Message \cup {NoMessage}]
  BY DEF TypeOK, GoTypeOK, PeerTypeOK, HubTypeOK, Before

\* Nothing InfoInv speaks of changes at connection d.
InfoSame(d) ==
    /\ serve'[d] = serve[d] /\ fwd'[d] = fwd[d] /\ rd'[d] = rd[d] /\ wr'[d] = wr[d]
    /\ ws'[d] = ws[d] /\ first'[d] = first[d] /\ send'[d] = send[d] /\ cur'[d] = cur[d]

LEMMA InfoOne ==
    ASSUME InfoAll, NEW c \in Conns, InfoInv(c)', \A d \in Conns \ {c} : InfoSame(d)
    PROVE  InfoAll'
<1>1. ASSUME NEW d \in Conns, d # c PROVE InfoInv(d)'
  <2>1. InfoInv(d) /\ InfoSame(d)
    BY <1>1 DEF InfoAll
  <2> QED BY <2>1 DEF InfoInv, InfoSame, HeadInfo
<1> QED BY <1>1 DEF InfoAll

infoVars == <<serve, fwd, rd, wr, ws, first, send, cur>>

LEMMA InfoStutter == InfoAll /\ UNCHANGED infoVars => InfoAll'
  BY DEF InfoAll, InfoInv, HeadInfo, infoVars

\* A send leaves the head of a channel alone, unless the channel was empty.
LEMMA SendHead ==
    ASSUME TypeOK, NEW c \in Conns, NEW m \in Message, Send(c, m)
    PROVE  /\ send'[c] # <<>>
           /\ send[c] # <<>> => Head(send'[c]) = Head(send[c])
           /\ send[c] = <<>> => Head(send'[c]) = m
           /\ \A d \in Conns \ {c} : send'[d] = send[d]
<1>1. send'[c] = Append(send[c], m) /\ \A d \in Conns \ {c} : send'[d] = send[d]
  BY InfoTypes DEF Send
<1>2. send[c] \in Seq(Message)
  BY InfoTypes
<1>3. Append(send[c], m) # <<>>
  BY <1>2
<1>4. send[c] # <<>> => Head(Append(send[c], m)) = Head(send[c])
  BY <1>2
<1>5. send[c] = <<>> => Head(Append(send[c], m)) = m
  BY <1>2
<1> QED BY <1>1, <1>3, <1>4, <1>5

\* Sends of the goroutines that run after SendInfo.
LEMMA LaterSendKeepsInfo ==
    ASSUME TypeOK, InfoAll, NEW c \in Conns, NEW m \in Message, Send(c, m),
           serve[c] \notin Before, serve[c] = "run" => UNCHANGED rd,
           UNCHANGED <<serve, wr, ws, first, cur>>,
           \A d \in Conns \ {c} : fwd'[d] = fwd[d] /\ rd'[d] = rd[d]
    PROVE  InfoAll'
<1>1. InfoInv(c)
  BY DEF InfoAll
<1>2. HeadInfo(c) => HeadInfo(c)'
  BY SendHead DEF HeadInfo
<1>3. InfoInv(c)'
  BY <1>1, <1>2 DEF InfoInv
<1>4. \A d \in Conns \ {c} : InfoSame(d)
  BY SendHead DEF InfoSame
<1> QED BY <1>3, <1>4, InfoOne

\* The handler goes on without a message.
LEMMA MoveKeepsInfo ==
    ASSUME TypeOK, InfoAll, NEW c \in Conns, NEW l, Goto(c, l),
           l # "run", l \in Before => serve[c] \in Before,
           UNCHANGED <<send, fwd, wr, rd, first, cur>>,
           ws'[c] = "open" => ws[c] = "open" \/ serve[c] = "idle",
           \A d \in Conns \ {c} : ws'[d] = ws[d]
    PROVE  InfoAll'
<1>1. serve'[c] = l /\ \A d \in Conns \ {c} : serve'[d] = serve[d]
  BY InfoTypes DEF Goto
<1>2. InfoInv(c) /\ "idle" \in Before
  BY DEF InfoAll, Before
<1>3. HeadInfo(c)' <=> HeadInfo(c)
  BY DEF HeadInfo
<1>4. InfoInv(c)'
  BY <1>1, <1>2, <1>3 DEF InfoInv
<1>5. \A d \in Conns \ {c} : InfoSame(d)
  BY <1>1 DEF InfoSame
<1> QED BY <1>4, <1>5, InfoOne

LEMMA HandlerKeepsInfo ==
    ASSUME TypeOK, InfoAll, NEW c \in Conns,
           HandlerStep(c) \/ Upgrade(c) \/ ReceiveStdin(c) \/ ReceiveMalformed(c)
    PROVE  InfoAll'
<1>i. InfoInv(c)
  BY DEF InfoAll
<1>n. Notice("error") \in Message /\ Notice("info") \in Message
  BY NoticeType DEF Notices
<1>1. CASE \/ ServeRegister(c) \/ ServeCreate(c) \/ ServeStart(c) \/ RunPanics(c)
           \/ ReceiveStdin(c) \/ ServeWriteStdin(c) \/ ReceiveMalformed(c) \/ ReadFails(c)
           \/ ServeUnregister(c) \/ ServeStop(c)
  <2>1. PICK l : /\ Goto(c, l) /\ l # "run"
                 /\ l \in Before => serve[c] \in Before
    BY <1>1 DEF ServeRegister, ServeCreate, ServeStart, RunPanics, ReceiveStdin,
       ServeWriteStdin, ReceiveMalformed, ReadFails, ServeUnregister, ServeStop, Before
  <2>2. UNCHANGED <<send, fwd, wr, rd, first, cur, ws>>
    BY <1>1 DEF ServeRegister, ServeCreate, ServeStart, RunPanics, ReceiveStdin,
       ServeWriteStdin, ReceiveMalformed, ReadFails, ServeUnregister, ServeStop,
       OnlyServe, hubVars, peerVars, Register, Unregister
  <2> QED BY <2>1, <2>2, MoveKeepsInfo
<1>2. CASE Upgrade(c) \/ ServeClose(c)
  <2>0. PICK w, l : /\ Goto(c, l) /\ l # "run"
                    /\ l \in Before => serve[c] \in Before
                    /\ ws' = [ws EXCEPT ![c] = w]
                    /\ w = "open" => serve[c] = "idle"
    BY <1>2 DEF Upgrade, ServeClose, Before
  <2>1. UNCHANGED <<send, fwd, wr, rd, first, cur>>
    BY <1>2 DEF Upgrade, ServeClose, OnlyServe, hubVars
  <2>2. ws'[c] = w /\ \A d \in Conns \ {c} : ws'[d] = ws[d]
    BY <2>0, InfoTypes
  <2> QED BY <2>0, <2>1, <2>2, MoveKeepsInfo
<1>3. CASE CreateFatal(c) \/ RunFatal(c)
  <2>1. UNCHANGED infoVars
    BY <1>3 DEF CreateFatal, RunFatal, hubVars, goVars, peerVars, infoVars
  <2> QED BY <2>1, InfoStutter
<1>4. CASE SendError(c)
  <2>1. /\ Send(c, Notice("error"))
        /\ UNCHANGED <<fwd, wr, rd, first, cur, ws>>
    BY <1>4 DEF SendError, OnlyServe, peerVars
  <2>2. serve'[c] = "done" /\ \A d \in Conns \ {c} : serve'[d] = serve[d]
    BY <1>4, InfoTypes DEF SendError, Goto
  <2>3. serve[c] \in Before
    BY <1>4 DEF SendError, Before
  <2>4. InfoInv(c)'
    BY <2>1, <2>2, <2>3, <1>i DEF InfoInv, Before
  <2>5. \A d \in Conns \ {c} : InfoSame(d)
    BY <2>1, <2>2, <1>n, SendHead DEF InfoSame
  <2> QED BY <2>4, <2>5, InfoOne
<1>5. CASE SendInfo(c)
  <2>1. /\ Send(c, Notice("info"))
        /\ UNCHANGED <<wr, rd, first, cur, ws>>
    BY <1>5 DEF SendInfo, peerVars
  <2>2. /\ serve'[c] = "run"
        /\ \A d \in Conns \ {c} : serve'[d] = serve[d] /\ fwd'[d] = fwd[d]
    BY <1>5, InfoTypes DEF SendInfo, Goto
  <2>3. serve[c] \in Before
    BY <1>5 DEF SendInfo, Before
  <2>4. HeadInfo(c)'
    <3>1. send[c] = <<>>
      BY <2>3, <1>i DEF InfoInv
    <3>2. send'[c] # <<>> /\ Head(send'[c]) = Notice("info")
      BY <2>1, <3>1, <1>n, SendHead
    <3> QED BY <3>2 DEF HeadInfo, Notice
  <2>5. InfoInv(c)'
    BY <2>1, <2>2, <2>3, <2>4, <1>i DEF InfoInv, Before
  <2>6. \A d \in Conns \ {c} : InfoSame(d)
    BY <2>1, <2>2, <1>n, SendHead DEF InfoSame
  <2> QED BY <2>5, <2>6, InfoOne
<1>6. CASE ServeRun(c)
  <2>1. UNCHANGED <<send, fwd, first, cur, ws>> /\ serve[c] = "run"
    BY <1>6 DEF ServeRun, hubVars, peerVars
  <2>2. serve'[c] = "read" /\ wr'[c] = "select"
    BY <1>6, InfoTypes DEF ServeRun, Goto
  <2>3. \A d \in Conns \ {c} : serve'[d] = serve[d] /\ wr'[d] = wr[d] /\ rd'[d] = rd[d]
    BY <1>6, InfoTypes DEF ServeRun, Goto
  <2>4. HeadInfo(c)'
    BY <2>1, <1>i DEF InfoInv, HeadInfo
  <2>5. InfoInv(c)'
    BY <2>1, <2>2, <2>4, <1>i DEF InfoInv, Before
  <2>6. \A d \in Conns \ {c} : InfoSame(d)
    BY <2>1, <2>3 DEF InfoSame
  <2> QED BY <2>5, <2>6, InfoOne
<1> QED BY <1>1, <1>2, <1>3, <1>4, <1>5, <1>6 DEF HandlerStep

\* The goroutines the handler starts.
LEMMA ForwarderKeepsInfo ==
    ASSUME TypeOK, InfoAll, NEW c \in Conns, ForwarderStep(c)
    PROVE  InfoAll'
<1>i. InfoInv(c)
  BY DEF InfoAll
<1>n. Notice("error") \in Message /\ Notice("event") \in Message
  BY NoticeType DEF Notices
<1>s. fwd[c] # "off" /\ serve[c] \notin Before
  BY <1>i DEF InfoInv, ForwarderStep, ForwardReceive, ForwardEvent, ForwardError, ForwardPanics
<1>1. CASE ForwardReceive(c)
  <2>1. UNCHANGED <<serve, rd, wr, ws, first, send, cur>>
    BY <1>1 DEF ForwardReceive, hubVars, peerVars
  <2>2. \A d \in Conns \ {c} : fwd'[d] = fwd[d]
    BY <1>1, InfoTypes DEF ForwardReceive
  <2>3. InfoInv(c)'
    BY <2>1, <1>i, <1>s DEF InfoInv, HeadInfo
  <2>4. \A d \in Conns \ {c} : InfoSame(d)
    BY <2>1, <2>2 DEF InfoSame
  <2> QED BY <2>3, <2>4, InfoOne
<1>2. CASE ForwardEvent(c) \/ ForwardError(c)
  <2>1. PICK m \in Message : Send(c, m)
    BY <1>2, <1>n DEF ForwardEvent, ForwardError
  <2>2. UNCHANGED <<serve, rd, wr, ws, first, cur>>
    BY <1>2 DEF ForwardEvent, ForwardError, peerVars
  <2>3. \A d \in Conns \ {c} : fwd'[d] = fwd[d]
    BY <1>2, InfoTypes DEF ForwardEvent, ForwardError
  <2> QED BY <2>1, <2>2, <2>3, <1>s, LaterSendKeepsInfo
<1>3. CASE ForwardPanics(c)
  <2>1. UNCHANGED infoVars
    BY <1>3 DEF ForwardPanics, hubVars, goVars, peerVars, infoVars
  <2> QED BY <2>1, InfoStutter
<1> QED BY <1>1, <1>2, <1>3 DEF ForwarderStep

LEMMA ReaderKeepsInfo ==
    ASSUME TypeOK, InfoAll, NEW c \in Conns, NEW s \in Streams,
           ReaderStep(c, s) \/ ReadOutput(c, s)
    PROVE  InfoAll'
<1>i. InfoInv(c)
  BY DEF InfoAll
<1>s. rd[c][s] # "off" /\ serve[c] \notin Before \cup {"run"}
  <2>1. rd[c][s] # "off"
    BY DEF ReaderStep, SendOutput, OutputPanics, OutputEnds, ReadOutput
  <2> QED BY <2>1, <1>i DEF InfoInv
<1>1. CASE SendOutput(c, s)
  <2>1. Output(s, buff[c][s][1], chunk[c][s]) \in Message
    <3>1. 1 \in 1..BuffLen
      BY ParameterAssumption
    <3>2. buff[c][s] \in Cells /\ chunk[c][s] \in 0..BuffLen
      BY DEF TypeOK, GoTypeOK
    <3>3. buff[c][s][1] \in 0..MaxChunks
      BY <3>1, <3>2 DEF Cells
    <3> QED BY <3>2, <3>3, OutputType
  <2>2. Send(c, Output(s, buff[c][s][1], chunk[c][s]))
        /\ UNCHANGED <<serve, fwd, wr, ws, first, cur>>
    BY <1>1 DEF SendOutput, peerVars
  <2>3. \A d \in Conns \ {c} : rd'[d] = rd[d]
    BY <1>1, InfoTypes DEF SendOutput
  <2> QED BY <2>1, <2>2, <2>3, <1>s, LaterSendKeepsInfo
<1>2. CASE OutputEnds(c, s) \/ ReadOutput(c, s)
  <2>1. UNCHANGED <<serve, fwd, wr, ws, first, send, cur>>
    BY <1>2 DEF OutputEnds, ReadOutput, hubVars, peerVars
  <2>2. \A d \in Conns \ {c} : rd'[d] = rd[d]
    BY <1>2, InfoTypes DEF OutputEnds, ReadOutput
  <2>3. InfoInv(c)'
    BY <2>1, <1>i, <1>s DEF InfoInv, HeadInfo
  <2>4. \A d \in Conns \ {c} : InfoSame(d)
    BY <2>1, <2>2 DEF InfoSame
  <2> QED BY <2>3, <2>4, InfoOne
<1>3. CASE OutputPanics(c, s)
  <2>1. UNCHANGED infoVars
    BY <1>3 DEF OutputPanics, hubVars, goVars, peerVars, infoVars
  <2> QED BY <2>1, InfoStutter
<1> QED BY <1>1, <1>2, <1>3 DEF ReaderStep

LEMMA PumpKeepsInfo ==
    ASSUME TypeOK, InfoAll, NEW c \in Conns, PumpStep(c) \/ PumpFails(c)
    PROVE  InfoAll'
<1>i. InfoInv(c)
  BY DEF InfoAll
<1>w. wr[c] \in {"select", "write"}
  BY DEF PumpStep, PumpReceive, PumpWrite, PumpClosed, PumpFails
<1>s. serve[c] \notin Before \cup {"run"}
  BY <1>i, <1>w DEF InfoInv
<1>1. CASE PumpReceive(c)
  <2>1. UNCHANGED <<serve, fwd, rd, ws, first>> /\ wr[c] = "select"
    BY <1>1 DEF PumpReceive, peerVars
  <2>2. wr'[c] = "write" /\ cur'[c] = Head(send[c])
    BY <1>1, InfoTypes DEF PumpReceive
  <2>3. \A d \in Conns \ {c} : wr'[d] = wr[d] /\ cur'[d] = cur[d] /\ send'[d] = send[d]
    BY <1>1, InfoTypes DEF PumpReceive, Receive
  <2>4. InfoInv(c)'
    BY <2>1, <2>2, <1>i, <1>s DEF InfoInv, HeadInfo
  <2>5. \A d \in Conns \ {c} : InfoSame(d)
    BY <2>1, <2>3 DEF InfoSame
  <2> QED BY <2>4, <2>5, InfoOne
<1>2. CASE PumpWrite(c)
  <2>1. UNCHANGED <<serve, fwd, rd, ws, send>> /\ wr[c] = "write"
    BY <1>2 DEF PumpWrite, hubVars
  <2>2. wr'[c] = "select" /\ \A d \in Conns \ {c} : wr'[d] = wr[d] /\ cur'[d] = cur[d]
    BY <1>2, InfoTypes DEF PumpWrite
  <2>3. /\ \A d \in Conns \ {c} : first'[d] = first[d]
        /\ ws[c] = "open" => first'[c] = (IF first[c] = "none" THEN cur[c].type ELSE first[c])
        /\ ws[c] # "open" => first'[c] = first[c]
    BY <1>2, InfoTypes DEF PumpWrite, Show
  <2>4. InfoInv(c)'
    <3>1. first'[c] \in {"none", "info"} /\ (ws[c] = "open" => first'[c] # "none")
      BY <2>1, <2>3, <1>i DEF InfoInv
    <3> QED BY <2>1, <2>2, <3>1, <1>s DEF InfoInv, HeadInfo
  <2>5. \A d \in Conns \ {c} : InfoSame(d)
    BY <2>1, <2>2, <2>3 DEF InfoSame
  <2> QED BY <2>4, <2>5, InfoOne
<1>3. CASE PumpReturns(c)
  <2>1. UNCHANGED <<serve, fwd, rd, first, send>>
    BY <1>3 DEF PumpReturns, hubVars
  <2>2. /\ wr'[c] = "done"
        /\ \A d \in Conns \ {c} : wr'[d] = wr[d] /\ cur'[d] = cur[d] /\ ws'[d] = ws[d]
    BY <1>3, InfoTypes DEF PumpReturns
  <2>3. InfoInv(c)'
    BY <2>1, <2>2, <1>i, <1>s DEF InfoInv
  <2>4. \A d \in Conns \ {c} : InfoSame(d)
    BY <2>1, <2>2 DEF InfoSame
  <2> QED BY <2>3, <2>4, InfoOne
<1> QED BY <1>1, <1>2, <1>3 DEF PumpStep, PumpClosed, PumpFails

\* Everybody else.
LEMMA OthersKeepInfo ==
    ASSUME TypeOK, InfoAll,
           \/ HubStep
           \/ \E c \in Conns : \/ CleanupStep(c) \/ Environment(c)
                               \/ PeerLeaves(c) \/ ConsoleFatal(c)
    PROVE  InfoAll'
<1>1. CASE HubStep \/ \E c \in Conns : CleanupStep(c) \/ Environment(c) \/ ConsoleFatal(c)
  <2>1. UNCHANGED infoVars
    BY <1>1 DEF HubStep, HubAdd, HubRemove, CleanupStep, Environment, ConsoleFatal, hubVars,
       goVars, peerVars, infoVars
  <2> QED BY <2>1, InfoStutter
<1>2. ASSUME NEW c \in Conns, PeerLeaves(c) PROVE InfoAll'
  <2>1. UNCHANGED <<serve, fwd, rd, wr, first, send, cur>>
    BY <1>2 DEF PeerLeaves, hubVars, goVars
  <2>2. ws'[c] = "gone" /\ \A d \in Conns \ {c} : ws'[d] = ws[d]
    BY <1>2, InfoTypes DEF PeerLeaves
  <2>3. InfoInv(c)'
    BY <2>1, <2>2 DEF InfoAll, InfoInv, HeadInfo
  <2>4. \A d \in Conns \ {c} : InfoSame(d)
    BY <2>1, <2>2 DEF InfoSame
  <2> QED BY <2>3, <2>4, InfoOne
<1> QED BY <1>1, <1>2

\* Until the page has seen the info message nothing else can reach it
\* (web_other.go:206-272, connection.go:124).
THEOREM SessionInfo == Spec => []InfoAll
<1>1. Init => InfoAll
  <2> SUFFICES ASSUME Init, NEW c \in Conns PROVE InfoInv(c)
    BY DEF InfoAll
  <2>1. /\ serve[c] = "idle" /\ fwd[c] = "off" /\ wr[c] = "off" /\ first[c] = "none"
        /\ \A s \in Streams : rd[c][s] = "off"
    BY DEF Init
  <2>2. send[c] = <<>>
    BY DEF Init, HubInit
  <2> QED BY <2>1, <2>2 DEF InfoInv
<1>2. TypeOK /\ InfoAll /\ [Next]_vars => InfoAll'
  <2> SUFFICES ASSUME TypeOK, InfoAll, [Next]_vars PROVE InfoAll'
    OBVIOUS
  <2>1. CASE HubStep \/ \E c \in Conns : \/ CleanupStep(c) \/ Environment(c)
                                         \/ PeerLeaves(c) \/ ConsoleFatal(c)
    BY <2>1, OthersKeepInfo
  <2>2. CASE \E c \in Conns : \/ HandlerStep(c) \/ Upgrade(c)
                              \/ ReceiveStdin(c) \/ ReceiveMalformed(c)
    BY <2>2, HandlerKeepsInfo
  <2>3. CASE \E c \in Conns : ForwarderStep(c)
    BY <2>3, ForwarderKeepsInfo
  <2>4. CASE \E c \in Conns : PumpStep(c) \/ PumpFails(c)
    BY <2>4, PumpKeepsInfo
  <2>5. CASE \E c \in Conns, s \in Streams : ReaderStep(c, s) \/ ReadOutput(c, s)
    BY <2>5, ReaderKeepsInfo
  <2>6. CASE UNCHANGED vars
    <3>1. UNCHANGED infoVars
      BY <2>6 DEF vars, hubVars, goVars, peerVars, infoVars
    <3> QED BY <3>1, InfoStutter
  <2> QED BY <2>1, <2>2, <2>3, <2>4, <2>5, <2>6 DEF Next, PeerStep
<1> QED BY <1>1, <1>2, SessionTypeOK, PTL DEF Spec

\* The page learns the name of its sandbox before anything else.
THEOREM SessionInfoFirst == Spec => []InfoFirst
<1>1. InfoAll => InfoFirst
  BY DEF InfoAll, InfoInv, InfoFirst
<1> QED BY <1>1, SessionInfo, PTL

----------------------------------------------------------------------------
(* Output *)

OutputAll == \A c \in Conns, s \in Streams : OutputInv(c, s)

outVars == <<buff, cur, lo>>

LEMMA OutputStutter == OutputAll /\ UNCHANGED outVars => OutputAll'
  BY DEF OutputAll, OutputInv, outVars

\* What TypeOK says of the variables OutputInv is about
LEMMA OutputTypes ==
    ASSUME TypeOK
    PROVE  /\ buff \in [Conns -> [Streams -> Cells]]
           /\ screen \in [Conns -> [Streams -> Cells]]
           /\ shown \in [Conns -> [Streams -> 0..MaxChunks]]
           /\ cur \in [Conns -> Message \cup {NoMessage}]
           /\ lo \in [Conns -> Cells]
           /\ \A c \in Conns, s \in Streams, i \in 1..BuffLen :
                 buff[c][s][i] \in Nat
           /\ \A c \in Conns, i \in 1..BuffLen : lo[c][i] \in Nat
<1>1. /\ buff \in [Conns -> [Streams -> Cells]]
      /\ screen \in [Conns -> [Streams -> Cells]]
      /\ shown \in [Conns -> [Streams -> 0..MaxChunks]]
      /\ cur \in [Conns -> Message \cup {NoMessage}]
      /\ lo \in [Conns -> Cells]
  BY DEF TypeOK, GoTypeOK, PeerTypeOK
<1>2. \A f \in Cells, i \in 1..BuffLen : f[i] \in Nat
  BY DEF Cells
<1> QED BY <1>1, <1>2

\* A reader fills its buffer: every cell keeps its age or becomes the newest.
LEMMA ReadKeepsOutput ==
    ASSUME TypeOK, OutputAll, NEW c \in Conns, NEW s \in Streams, ReadOutput(c, s)
    PROVE  OutputAll'
<1>t. buff \in [Conns -> [Streams -> Cells]] /\ 1 \in 1..BuffLen
  BY OutputTypes, ParameterAssumption
<1>0. UNCHANGED <<cur, lo>>
  BY DEF ReadOutput
<1>1. PICK n \in 1..BuffLen :
        buff' = [buff EXCEPT ![c][s] =
                    [i \in 1..BuffLen |-> IF i <= n THEN buff[c][s][1] + 1 ELSE buff[c][s][i]]]
  BY DEF ReadOutput
<1>2. \A i \in 1..BuffLen :
        buff'[c][s][i] = IF i <= n THEN buff[c][s][1] + 1 ELSE buff[c][s][i]
  BY <1>1, <1>t
<1>3. \A d \in Conns, t \in Streams : <<d, t>> # <<c, s>> => buff'[d][t] = buff[d][t]
  BY <1>1, <1>t
<1>4. \A i \in 1..BuffLen : buff[c][s][i] <= buff'[c][s][i] /\ buff'[c][s][i] <= buff'[c][s][1]
  <2> SUFFICES ASSUME NEW i \in 1..BuffLen
               PROVE  buff[c][s][i] <= buff'[c][s][i] /\ buff'[c][s][i] <= buff'[c][s][1]
    OBVIOUS
  <2>1. buff[c][s][i] <= buff[c][s][1] /\ buff[c][s][i] \in Nat /\ buff[c][s][1] \in Nat
    BY <1>t, OutputTypes DEF OutputAll, OutputInv
  <2>2. buff'[c][s][1] = buff[c][s][1] + 1
    BY <1>2, <1>t
  <2>3. buff'[c][s][i] = buff[c][s][1] + 1 \/ buff'[c][s][i] = buff[c][s][i]
    BY <1>2
  <2> QED BY <2>1, <2>2, <2>3
<1>5. OutputInv(c, s)'
  <2> SUFFICES ASSUME NEW i \in 1..BuffLen
               PROVE  /\ buff'[c][s][i] <= buff'[c][s][1]
                      /\ cur[c].type = s => lo[c][i] <= buff'[c][s][i]
    BY <1>0 DEF OutputInv
  <2>1. cur[c].type = s => lo[c][i] <= buff[c][s][i]
    BY DEF OutputAll, OutputInv
  <2>2. buff[c][s][i] \in Nat /\ buff[c][s][1] \in Nat
    BY <1>t, OutputTypes
  <2>3. lo[c][i] \in Nat
    BY OutputTypes
  <2>4. buff'[c][s][i] = buff[c][s][1] + 1 \/ buff'[c][s][i] = buff[c][s][i]
    BY <1>2
  <2>5. buff'[c][s][i] \in Nat /\ buff'[c][s][1] \in Nat
    <3>1. buff'[c][s][1] = buff[c][s][1] + 1
      BY <1>2, <1>t
    <3> QED BY <2>2, <2>4, <3>1
  <2> QED BY <1>4, <2>1, <2>2, <2>3, <2>5
<1>6. ASSUME NEW d \in Conns, NEW t \in Streams, <<d, t>> # <<c, s>> PROVE OutputInv(d, t)'
  BY <1>0, <1>3, <1>6 DEF OutputAll, OutputInv
<1> QED BY <1>5, <1>6 DEF OutputAll

\* writePump takes a message and looks at the buffer.
LEMMA ReceiveKeepsOutput ==
    ASSUME TypeOK, OutputAll, NEW c \in Conns, PumpReceive(c)
    PROVE  OutputAll'
<1> DEFINE m == Head(send[c])
<1>0. UNCHANGED buff
  BY DEF PumpReceive
<1>1. /\ cur'[c] = m
      /\ m.type \in Streams => lo'[c] = buff[c][m.type]
      /\ \A d \in Conns \ {c} : cur'[d] = cur[d] /\ lo'[d] = lo[d]
  BY OutputTypes DEF PumpReceive
<1>2. ASSUME NEW s \in Streams PROVE OutputInv(c, s)'
  <2>1. OutputInv(c, s)
    BY DEF OutputAll
  <2>2. m.type = s => lo'[c] = buff[c][s]
    BY <1>1
  <2>3. \A i \in 1..BuffLen : buff[c][s][i] <= buff[c][s][i]
    BY OutputTypes
  <2> QED BY <1>0, <1>1, <2>1, <2>2, <2>3 DEF OutputInv
<1>3. ASSUME NEW d \in Conns, d # c, NEW s \in Streams PROVE OutputInv(d, s)'
  BY <1>0, <1>1, <1>3 DEF OutputAll, OutputInv
<1> QED BY <1>2, <1>3 DEF OutputAll

\* writePump is done with a message, shown or not.
LEMMA DoneKeepsOutput ==
    ASSUME TypeOK, OutputAll, NEW c \in Conns,
           buff' = buff, cur' = [cur EXCEPT ![c] = NoMessage], lo' = [lo EXCEPT ![c] = Blank]
    PROVE  OutputAll'
<1>1. /\ cur'[c] = NoMessage
      /\ \A d \in Conns \ {c} : cur'[d] = cur[d] /\ lo'[d] = lo[d]
  BY OutputTypes
<1>2. ASSUME NEW s \in Streams PROVE OutputInv(c, s)'
  <2>1. cur'[c].type # s
    BY <1>1, ParameterAssumption DEF NoMessage
  <2> QED BY <2>1 DEF OutputAll, OutputInv
<1>3. ASSUME NEW d \in Conns, d # c, NEW s \in Streams PROVE OutputInv(d, s)'
  BY <1>1, <1>3 DEF OutputAll, OutputInv
<1> QED BY <1>2, <1>3 DEF OutputAll

LEMMA PumpKeepsOutput ==
    ASSUME TypeOK, OutputAll, NEW c \in Conns, PumpStep(c) \/ PumpFails(c)
    PROVE  OutputAll'
<1>1. CASE PumpReceive(c)
  BY <1>1, ReceiveKeepsOutput
<1>2. CASE PumpWrite(c) \/ PumpReturns(c)
  <2>1. /\ buff' = buff /\ cur' = [cur EXCEPT ![c] = NoMessage]
        /\ lo' = [lo EXCEPT ![c] = Blank]
    BY <1>2 DEF PumpWrite, PumpReturns
  <2> QED BY <2>1, DoneKeepsOutput
<1> QED BY <1>1, <1>2 DEF PumpStep, PumpClosed, PumpFails

\* Everybody else leaves buffers and messages in hand alone.
LEMMA OthersLeaveOutput ==
    ASSUME \/ HubStep
           \/ \E c \in Conns : \/ CleanupStep(c) \/ Environment(c) \/ PeerStep(c)
                               \/ HandlerStep(c) \/ ForwarderStep(c) \/ ConsoleFatal(c)
           \/ \E c \in Conns, s \in Streams : ReaderStep(c, s)
    PROVE  UNCHANGED outVars
<1> USE DEF outVars, goVars
<1>1. CASE HubStep
  BY <1>1 DEF HubStep
<1>2. CASE \E c \in Conns : CleanupStep(c) \/ Environment(c) \/ PeerStep(c) \/ ConsoleFatal(c)
  BY <1>2 DEF CleanupStep, Environment, ConsoleFatal, PeerStep, Upgrade, ReceiveStdin, ReceiveMalformed,
     PeerLeaves, OnlyServe
<1>3. ASSUME NEW c \in Conns, HandlerStep(c) PROVE UNCHANGED outVars
  <2>1. CASE \/ ServeRegister(c) \/ ServeCreate(c) \/ CreateFatal(c) \/ SendError(c)
             \/ ServeStart(c) \/ SendInfo(c) \/ ServeRun(c) \/ RunPanics(c)
    BY <2>1 DEF ServeRegister, ServeCreate, CreateFatal, SendError, ServeStart, SendInfo,
       ServeRun, RunPanics, OnlyServe
  <2>2. CASE \/ RunFatal(c) \/ ServeWriteStdin(c) \/ ReadFails(c) \/ ServeUnregister(c)
             \/ ServeClose(c) \/ ServeStop(c)
    BY <2>2 DEF RunFatal, ServeWriteStdin, ReadFails, ServeUnregister, ServeClose, ServeStop,
       OnlyServe
  <2> QED BY <1>3, <2>1, <2>2 DEF HandlerStep
<1>4. CASE \E c \in Conns : ForwarderStep(c)
  BY <1>4 DEF ForwarderStep, ForwardReceive, ForwardEvent, ForwardError, ForwardPanics
<1>5. CASE \E c \in Conns, s \in Streams : ReaderStep(c, s)
  BY <1>5 DEF ReaderStep, SendOutput, OutputPanics, OutputEnds
<1> QED BY <1>1, <1>2, <1>3, <1>4, <1>5

\* The first cell of a reader's buffer is the newest, and what writePump saw in the
\* buffer is not newer than what is there (web_other.go:236-272).
THEOREM SessionOutput == Spec => []OutputAll
<1>1. Init => OutputAll
  <2> SUFFICES ASSUME Init, NEW c \in Conns, NEW s \in Streams, NEW i \in 1..BuffLen
               PROVE  /\ buff[c][s][i] <= buff[c][s][1]
                      /\ cur[c].type # s
    BY DEF OutputAll, OutputInv
  <2>1. buff[c][s][i] = 0 /\ buff[c][s][1] = 0
    BY ParameterAssumption DEF Init, Blank
  <2>2. cur[c].type # s
    BY ParameterAssumption DEF Init, NoMessage
  <2> QED BY <2>1, <2>2
<1>2. TypeOK /\ OutputAll /\ [Next]_vars => OutputAll'
  <2> SUFFICES ASSUME TypeOK, OutputAll, [Next]_vars PROVE OutputAll'
    OBVIOUS
  <2>1. CASE \/ HubStep
             \/ \E c \in Conns : \/ CleanupStep(c) \/ Environment(c) \/ PeerStep(c)
                                 \/ HandlerStep(c) \/ ForwarderStep(c) \/ ConsoleFatal(c)
             \/ \E c \in Conns, s \in Streams : ReaderStep(c, s)
    BY <2>1, OthersLeaveOutput, OutputStutter
  <2>2. CASE \E c \in Conns : PumpStep(c) \/ PumpFails(c)
    BY <2>2, PumpKeepsOutput
  <2>3. CASE \E c \in Conns, s \in Streams : ReadOutput(c, s)
    BY <2>3, ReadKeepsOutput
  <2>4. CASE UNCHANGED vars
    <3>1. UNCHANGED outVars
      BY <2>4 DEF vars, goVars, outVars
    <3> QED BY <3>1, OutputStutter
  <2> QED BY <2>1, <2>2, <2>3, <2>4 DEF Next
<1> QED BY <1>1, <1>2, SessionTypeOK, PTL DEF Spec

----------------------------------------------------------------------------
(* What a message shows is not older than the message *)

\* What TypeOK says of the variables ChunksKept is about
LEMMA ChunkTypes ==
    ASSUME TypeOK
    PROVE  /\ rd \in [Conns -> [Streams -> {"off", "read", "send", "done"}]]
           /\ chunk \in [Conns -> [Streams -> 0..BuffLen]]
           /\ send \in [Conns -> Seq(Message)]
           /\ \A m \in Message : m.seq \in Nat /\ m.len \in 0..BuffLen
           /\ 1 \in 1..BuffLen
<1>1. /\ rd \in [Conns -> [Streams -> {"off", "read", "send", "done"}]]
      /\ chunk \in [Conns -> [Streams -> 0..BuffLen]]
      /\ send \in [Conns -> Seq(Message)]
  BY DEF TypeOK, GoTypeOK, HubTypeOK
<1>2. \A m \in Message : m.seq \in Nat /\ m.len \in 0..BuffLen
  BY DEF Message
<1> QED BY <1>1, <1>2, ParameterAssumption

chunkVars == <<rd, chunk, send, buff, cur, lo>>

LEMMA ChunkStutter == ChunksKept /\ UNCHANGED chunkVars => ChunksKept'
  BY DEF ChunksKept, Pending, Queued, Held, Covers, chunkVars

\* A message whose cells are not older than itself joins the channel.
LEMMA SendKeepsQueued ==
    ASSUME TypeOK, ChunksKept, NEW c \in Conns, NEW m \in Message, Send(c, m), buff' = buff,
           \A s \in Streams : m.type = s => Covers(buff[c][s], m)
    PROVE  \A d \in Conns, s \in Streams : Queued(d, s)'
<1>t. send[c] \in Seq(Message) /\ send \in [Conns -> Seq(Message)]
  BY ChunkTypes
<1>1. /\ send'[c] = Append(send[c], m)
      /\ \A d \in Conns \ {c} : send'[d] = send[d]
  BY <1>t DEF Send
<1>2. /\ Len(send'[c]) = Len(send[c]) + 1
      /\ \A k \in 1..Len(send[c]) : send'[c][k] = send[c][k]
      /\ send'[c][Len(send[c]) + 1] = m
  BY <1>t, <1>1
<1>3. ASSUME NEW s \in Streams PROVE Queued(c, s)'
  <2> SUFFICES ASSUME NEW k \in 1..Len(send'[c]), send'[c][k].type = s
               PROVE  Covers(buff[c][s], send'[c][k])
    BY DEF Queued
  <2>1. CASE k = Len(send[c]) + 1
    BY <2>1, <1>2
  <2>2. CASE k # Len(send[c]) + 1
    <3>1. k \in 1..Len(send[c])
      BY <2>2, <1>2, <1>t
    <3> QED BY <3>1, <1>2 DEF ChunksKept, Queued
  <2> QED BY <2>1, <2>2
<1>4. ASSUME NEW d \in Conns, d # c, NEW s \in Streams PROVE Queued(d, s)'
  BY <1>1, <1>4 DEF ChunksKept, Queued
<1> QED BY <1>3, <1>4

\* The notices speak of no cells.
LEMMA NoticeKeepsChunks ==
    ASSUME TypeOK, ChunksKept, NEW c \in Conns, NEW t \in Notices, Send(c, Notice(t)),
           UNCHANGED <<rd, chunk, buff, cur, lo>>
    PROVE  ChunksKept'
<1>1. Notice(t) \in Message /\ Notice(t).type \notin Streams
  BY NoticeType, ParameterAssumption DEF Notice
<1>2. \A d \in Conns, s \in Streams : Queued(d, s)'
  BY <1>1, SendKeepsQueued
<1> QED BY <1>2 DEF ChunksKept, Pending, Held

\* A reader sends what it has read.
LEMMA OutputKeepsChunks ==
    ASSUME TypeOK, ChunksKept, NEW c \in Conns, NEW s \in Streams, SendOutput(c, s)
    PROVE  ChunksKept'
<1> DEFINE m == Output(s, buff[c][s][1], chunk[c][s])
<1>t. /\ buff[c][s] \in Cells /\ buff[c][s][1] \in Nat /\ chunk[c][s] \in 0..BuffLen
      /\ rd \in [Conns -> [Streams -> {"off", "read", "send", "done"}]]
      /\ chunk \in [Conns -> [Streams -> 0..BuffLen]]
  BY OutputTypes, ChunkTypes
<1>0. Send(c, m) /\ rd[c][s] = "send" /\ UNCHANGED <<buff, cur, lo>>
  BY DEF SendOutput
<1>1. m \in Message
  <2>1. buff[c][s][1] \in 0..MaxChunks
    BY <1>t, ChunkTypes DEF Cells
  <2> QED BY <2>1, <1>t, OutputType
<1>2. m.type = s /\ m.seq = buff[c][s][1] /\ m.len = chunk[c][s]
  BY DEF Output
<1>3. Covers(buff[c][s], m)
  <2>1. \A i \in 1..chunk[c][s] : buff[c][s][i] = buff[c][s][1]
    BY <1>0 DEF ChunksKept, Pending
  <2> QED BY <2>1, <1>2, <1>t DEF Covers
<1>4. \A d \in Conns, t \in Streams : Queued(d, t)'
  <2> HIDE DEF m
  <2> QED BY <1>0, <1>1, <1>2, <1>3, SendKeepsQueued
<1>5. /\ rd'[c][s] = "read"
      /\ \A d \in Conns, t \in Streams : <<d, t>> # <<c, s>> =>
            rd'[d][t] = rd[d][t] /\ chunk'[d][t] = chunk[d][t]
  BY <1>t DEF SendOutput
<1>6. \A d \in Conns, t \in Streams : Pending(d, t)'
  BY <1>0, <1>5 DEF ChunksKept, Pending
<1> QED BY <1>0, <1>4, <1>6 DEF ChunksKept, Held

\* A reader overwrites what queued messages speak of, with newer bytes.
LEMMA ReadKeepsChunks ==
    ASSUME TypeOK, OutputAll, ChunksKept, NEW c \in Conns, NEW s \in Streams, ReadOutput(c, s)
    PROVE  ChunksKept'
<1>t. /\ buff \in [Conns -> [Streams -> Cells]] /\ 1 \in 1..BuffLen
      /\ rd \in [Conns -> [Streams -> {"off", "read", "send", "done"}]]
      /\ chunk \in [Conns -> [Streams -> 0..BuffLen]]
      /\ \A i \in 1..BuffLen : buff[c][s][i] \in Nat
  BY OutputTypes, ChunkTypes
<1>0. UNCHANGED <<send, cur, lo>>
  BY DEF ReadOutput, hubVars
<1>1. PICK n \in 1..BuffLen :
        /\ chunk' = [chunk EXCEPT ![c][s] = n]
        /\ buff' = [buff EXCEPT ![c][s] =
                      [i \in 1..BuffLen |-> IF i <= n THEN buff[c][s][1] + 1 ELSE buff[c][s][i]]]
  BY DEF ReadOutput
<1>2. /\ chunk'[c][s] = n
      /\ \A i \in 1..BuffLen :
            buff'[c][s][i] = IF i <= n THEN buff[c][s][1] + 1 ELSE buff[c][s][i]
  BY <1>1, <1>t
<1>3. \A d \in Conns, t \in Streams : <<d, t>> # <<c, s>> =>
        buff'[d][t] = buff[d][t] /\ chunk'[d][t] = chunk[d][t] /\ rd'[d][t] = rd[d][t]
  BY <1>1, <1>t DEF ReadOutput
<1>4. \A i \in 1..BuffLen : buff[c][s][i] <= buff'[c][s][i] /\ buff'[c][s][i] \in Nat
  <2>1. \A i \in 1..BuffLen : buff[c][s][i] <= buff[c][s][1]
    BY DEF OutputAll, OutputInv
  <2> QED BY <2>1, <1>2, <1>t
<1>5. Pending(c, s)'
  <2>1. \A i \in 1..n : i \in 1..BuffLen /\ i <= n
    BY ParameterAssumption
  <2>2. 1 <= n
    OBVIOUS
  <2> QED BY <2>1, <2>2, <1>2, <1>t DEF Pending
<1>6. ASSUME NEW m \in Message, Covers(buff[c][s], m) PROVE Covers(buff'[c][s], m)
  <2> SUFFICES ASSUME NEW i \in 1..m.len PROVE m.seq <= buff'[c][s][i]
    BY DEF Covers
  <2>1. m.seq \in Nat /\ m.len \in 0..BuffLen
    BY ChunkTypes
  <2>2. i \in 1..BuffLen
    BY <2>1, ParameterAssumption
  <2>3. m.seq <= buff[c][s][i]
    BY <1>6 DEF Covers
  <2> QED BY <2>1, <2>2, <2>3, <1>4, <1>t
<1>7. Queued(c, s)'
  <2>1. \A k \in 1..Len(send[c]) : send[c][k] \in Message
    BY ChunkTypes
  <2> QED BY <2>1, <1>0, <1>6 DEF ChunksKept, Queued
<1>8. ASSUME NEW d \in Conns, NEW t \in Streams, <<d, t>> # <<c, s>>
      PROVE  Pending(d, t)' /\ Queued(d, t)'
  BY <1>0, <1>3, <1>8 DEF ChunksKept, Pending, Queued
<1>9. \A d \in Conns, t \in Streams : Held(d, t)'
  BY <1>0 DEF ChunksKept, Held
<1> QED BY <1>5, <1>7, <1>8, <1>9 DEF ChunksKept

\* writePump takes the first message and looks at the buffer.
LEMMA ReceiveKeepsChunks ==
    ASSUME TypeOK, ChunksKept, NEW c \in Conns, PumpReceive(c)
    PROVE  ChunksKept'
<1> DEFINE m == Head(send[c])
<1>t. send[c] \in Seq(Message) /\ send \in [Conns -> Seq(Message)]
  BY ChunkTypes
<1>0. UNCHANGED <<rd, chunk, buff>> /\ send[c] # <<>>
  BY DEF PumpReceive, Receive
<1>1. /\ cur'[c] = m /\ (m.type \in Streams => lo'[c] = buff[c][m.type])
      /\ \A d \in Conns \ {c} : cur'[d] = cur[d] /\ lo'[d] = lo[d]
  BY OutputTypes DEF PumpReceive
<1>2. send'[c] = Tail(send[c]) /\ \A d \in Conns \ {c} : send'[d] = send[d]
  BY <1>t DEF PumpReceive, Receive
<1>3. m = send[c][1] /\ 1 \in 1..Len(send[c])
  BY <1>0, <1>t
<1>4. /\ Len(send'[c]) = Len(send[c]) - 1
      /\ \A k \in 1..Len(send'[c]) : k + 1 \in 1..Len(send[c]) /\ send'[c][k] = send[c][k + 1]
  BY <1>0, <1>2, <1>t
<1> HIDE DEF m
<1>5. ASSUME NEW s \in Streams PROVE Held(c, s)'
  BY <1>1, <1>3 DEF ChunksKept, Queued, Held
<1>6. ASSUME NEW s \in Streams PROVE Queued(c, s)'
  BY <1>0, <1>4 DEF ChunksKept, Queued
<1>7. ASSUME NEW d \in Conns, d # c, NEW s \in Streams PROVE Queued(d, s)' /\ Held(d, s)'
  BY <1>0, <1>1, <1>2, <1>7 DEF ChunksKept, Queued, Held
<1>8. \A d \in Conns, s \in Streams : Pending(d, s)'
  BY <1>0 DEF ChunksKept, Pending
<1> QED BY <1>5, <1>6, <1>7, <1>8 DEF ChunksKept

\* writePump is done with a message, shown or not.
LEMMA DoneKeepsChunks ==
    ASSUME TypeOK, ChunksKept, NEW c \in Conns,
           UNCHANGED <<rd, chunk, send, buff>>,
           cur' = [cur EXCEPT ![c] = NoMessage], lo' = [lo EXCEPT ![c] = Blank]
    PROVE  ChunksKept'
<1>1. /\ cur'[c] = NoMessage
      /\ \A d \in Conns \ {c} : cur'[d] = cur[d] /\ lo'[d] = lo[d]
  BY OutputTypes
<1>2. ASSUME NEW s \in Streams PROVE Held(c, s)'
  BY <1>1, ParameterAssumption DEF Held, NoMessage
<1>3. ASSUME NEW d \in Conns, d # c, NEW s \in Streams PROVE Held(d, s)'
  BY <1>1, <1>3 DEF ChunksKept, Held
<1> QED BY <1>2, <1>3 DEF ChunksKept, Pending, Queued

\* The handler and the forwarder send notices only, and Run finds no reader at work.
LEMMA HandlerKeepsChunks ==
    ASSUME TypeOK, ChunksKept, NEW c \in Conns,
           HandlerStep(c) \/ ForwarderStep(c) \/ PeerStep(c)
    PROVE  ChunksKept'
<1>n. {"error", "info", "event"} \subseteq Notices
  BY DEF Notices
<1>1. CASE SendError(c) \/ SendInfo(c) \/ ForwardEvent(c) \/ ForwardError(c)
  <2>1. PICK t \in Notices : Send(c, Notice(t))
    BY <1>1, <1>n DEF SendError, SendInfo, ForwardEvent, ForwardError
  <2>2. UNCHANGED <<rd, chunk, buff, cur, lo>>
    BY <1>1 DEF SendError, SendInfo, ForwardEvent, ForwardError, OnlyServe
  <2> QED BY <2>1, <2>2, NoticeKeepsChunks
<1>2. CASE ServeRun(c)
  <2>1. UNCHANGED <<send, chunk, buff, cur, lo>>
    BY <1>2 DEF ServeRun, hubVars
  <2>2. /\ \A s \in Streams : rd'[c][s] = "read"
        /\ \A d \in Conns \ {c} : rd'[d] = rd[d]
    BY <1>2, ChunkTypes DEF ServeRun
  <2>3. \A d \in Conns, s \in Streams : Pending(d, s)'
    BY <2>1, <2>2 DEF ChunksKept, Pending
  <2> QED BY <2>1, <2>3 DEF ChunksKept, Queued, Held
<1>3. CASE \/ ServeRegister(c) \/ ServeCreate(c) \/ CreateFatal(c) \/ ServeStart(c)
           \/ RunPanics(c) \/ RunFatal(c) \/ ServeWriteStdin(c) \/ ReadFails(c)
           \/ ServeUnregister(c) \/ ServeClose(c) \/ ServeStop(c)
  <2>1. UNCHANGED chunkVars
    BY <1>3 DEF ServeRegister, ServeCreate, CreateFatal, ServeStart, RunPanics, RunFatal,
       ServeWriteStdin, ReadFails, ServeUnregister, ServeClose, ServeStop, OnlyServe,
       Register, Unregister, hubVars, goVars, chunkVars
  <2> QED BY <2>1, ChunkStutter
<1>4. CASE ForwardReceive(c) \/ ForwardPanics(c) \/ PeerStep(c)
  <2>1. UNCHANGED chunkVars
    BY <1>4 DEF ForwardReceive, ForwardPanics, PeerStep, Upgrade, ReceiveStdin,
       ReceiveMalformed, PeerLeaves, OnlyServe, hubVars, goVars, chunkVars
  <2> QED BY <2>1, ChunkStutter
<1> QED BY <1>1, <1>2, <1>3, <1>4 DEF HandlerStep, ForwarderStep

\* Wherever an output message is, the cells it speaks of are at least as new as it,
\* although its payload is a slice of a buffer in use (web_other.go:242-253).
THEOREM SessionChunks == Spec => []ChunksKept
<1>1. Init => ChunksKept
  <2> SUFFICES ASSUME Init, NEW c \in Conns, NEW s \in Streams
               PROVE  Pending(c, s) /\ Queued(c, s) /\ Held(c, s)
    BY DEF ChunksKept
  <2>1. rd[c][s] = "off" /\ cur[c] = NoMessage
    BY DEF Init
  <2>2. send[c] = <<>>
    BY DEF Init, HubInit
  <2>3. cur[c].type # s
    BY <2>1, ParameterAssumption DEF NoMessage
  <2> QED BY <2>1, <2>2, <2>3 DEF Pending, Queued, Held
<1>2. TypeOK /\ OutputAll /\ ChunksKept /\ [Next]_vars => ChunksKept'
  <2> SUFFICES ASSUME TypeOK, OutputAll, ChunksKept, [Next]_vars PROVE ChunksKept'
    OBVIOUS
  <2>1. CASE HubStep \/ \E c \in Conns : CleanupStep(c) \/ Environment(c) \/ ConsoleFatal(c)
    <3>1. UNCHANGED chunkVars
      BY <2>1 DEF HubStep, HubAdd, HubRemove, CleanupStep, Environment, ConsoleFatal,
         hubVars, goVars, chunkVars
    <3> QED BY <3>1, ChunkStutter
  <2>2. CASE \E c \in Conns : HandlerStep(c) \/ ForwarderStep(c) \/ PeerStep(c)
    BY <2>2, HandlerKeepsChunks
  <2>3. ASSUME NEW c \in Conns, PumpWrite(c) \/ PumpClosed(c) \/ PumpFails(c)
        PROVE  ChunksKept'
    <3>1. /\ UNCHANGED <<rd, chunk, send, buff>>
          /\ cur' = [cur EXCEPT ![c] = NoMessage] /\ lo' = [lo EXCEPT ![c] = Blank]
      BY <2>3 DEF PumpWrite, PumpClosed, PumpFails, PumpReturns, hubVars
    <3> QED BY <3>1, DoneKeepsChunks
  <2>4. CASE \E c \in Conns : PumpStep(c) \/ PumpFails(c)
    BY <2>3, <2>4, ReceiveKeepsChunks DEF PumpStep
  <2>5. ASSUME NEW c \in Conns, NEW s \in Streams, OutputEnds(c, s) PROVE ChunksKept'
    <3>1. UNCHANGED <<chunk, send, buff, cur, lo>>
      BY <2>5 DEF OutputEnds, hubVars
    <3>2. \A d \in Conns, t \in Streams : rd'[d][t] \in {rd[d][t], "done"}
      BY <2>5, ChunkTypes DEF OutputEnds
    <3> QED BY <3>1, <3>2 DEF ChunksKept, Pending, Queued, Held
  <2>6. ASSUME NEW c \in Conns, NEW s \in Streams, OutputPanics(c, s) PROVE ChunksKept'
    BY <2>6, ChunkStutter DEF OutputPanics, hubVars, goVars, chunkVars
  <2>7. CASE \E c \in Conns, s \in Streams : ReaderStep(c, s) \/ ReadOutput(c, s)
    BY <2>5, <2>6, <2>7, OutputKeepsChunks, ReadKeepsChunks DEF ReaderStep
  <2>8. CASE UNCHANGED vars
    BY <2>8, ChunkStutter DEF vars, hubVars, goVars, chunkVars
  <2> QED BY <2>1, <2>2, <2>4, <2>7, <2>8 DEF Next
<1> QED BY <1>1, <1>2, SessionTypeOK, SessionOutput, PTL DEF Spec

\* Nothing but a write takes writePump from a message back to its channel.
LEMMA BackByWriting ==
    ASSUME TypeOK, InfoAll, Next, NEW c \in Conns, wr[c] = "write", wr'[c] = "select"
    PROVE  PumpWrite(c)
<1>t. wr \in [Conns -> {"off", "select", "write", "done"}]
  BY InfoTypes
<1>0. ASSUME wr' = wr PROVE FALSE
  BY <1>0
<1>1. CASE HubStep
  BY <1>0, <1>1 DEF HubStep, goVars
<1>2. CASE \E d \in Conns : \/ CleanupStep(d) \/ Environment(d) \/ ConsoleFatal(d)
                          \/ PeerStep(d) \/ ForwarderStep(d)
  BY <1>0, <1>2 DEF CleanupStep, Environment, ConsoleFatal, PeerStep, Upgrade, ReceiveStdin, PeerLeaves,
     ReceiveMalformed, ForwarderStep, ForwardReceive, ForwardEvent, ForwardError, ForwardPanics,
     OnlyServe, goVars
<1>3. ASSUME NEW d \in Conns, HandlerStep(d) PROVE FALSE
  <2>1. CASE ServeRun(d)
    <3>1. d = c /\ serve[c] = "run"
      BY <2>1, <1>t DEF ServeRun
    <3> QED BY <3>1 DEF InfoAll, InfoInv
  <2>2. CASE \/ ServeRegister(d) \/ ServeCreate(d) \/ CreateFatal(d) \/ SendError(d)
             \/ ServeStart(d) \/ SendInfo(d) \/ RunPanics(d)
    BY <1>0, <2>2 DEF ServeRegister, ServeCreate, CreateFatal, SendError, ServeStart, SendInfo,
       RunPanics, OnlyServe, goVars
  <2>3. CASE \/ RunFatal(d) \/ ServeWriteStdin(d) \/ ReadFails(d) \/ ServeUnregister(d)
             \/ ServeClose(d) \/ ServeStop(d)
    BY <1>0, <2>3 DEF RunFatal, ServeWriteStdin, ReadFails, ServeUnregister, ServeClose,
       ServeStop, OnlyServe, goVars
  <2> QED BY <1>3, <2>1, <2>2, <2>3 DEF HandlerStep
<1>4. CASE \E d \in Conns, s \in Streams : ReaderStep(d, s) \/ ReadOutput(d, s)
  BY <1>0, <1>4 DEF ReaderStep, SendOutput, OutputPanics, OutputEnds, ReadOutput, goVars
<1>5. ASSUME NEW d \in Conns, PumpReceive(d) \/ PumpClosed(d) \/ PumpFails(d) PROVE FALSE
  BY <1>5, <1>t DEF PumpReceive, PumpClosed, PumpFails, PumpReturns
<1>6. ASSUME NEW d \in Conns, d # c, PumpWrite(d) PROVE FALSE
  BY <1>6, <1>t DEF PumpWrite
<1> QED BY <1>1, <1>2, <1>3, <1>4, <1>5, <1>6 DEF Next, PumpStep

\* Of a chunk the page shows that chunk or newer bytes, never older ones.
THEOREM SessionOutputNotOlder == Spec => OutputNotOlder
<1> DEFINE NotOlder ==
      \A c \in Conns : Shows(c) =>
         \A s \in Streams, i \in 1..cur[c].len :
            cur[c].type = s => cur[c].seq <= screen'[c][s][i]
<1>1. TypeOK /\ InfoAll /\ ChunksKept /\ [Next]_vars => [NotOlder]_vars
  <2> SUFFICES ASSUME TypeOK, InfoAll, ChunksKept, Next, NEW c \in Conns,
                      wr[c] = "write", ws[c] = "open", wr'[c] = "select",
                      NEW s \in Streams, NEW i \in 1..cur[c].len, cur[c].type = s
               PROVE  cur[c].seq <= screen'[c][s][i]
    BY DEF Shows
  <2>1. Show(c)
    BY BackByWriting DEF PumpWrite
  <2>2. /\ screen \in [Conns -> [Streams -> Cells]]
        /\ cur[c] \in Message
    <3>1. cur[c] # NoMessage
      BY ParameterAssumption DEF NoMessage
    <3> QED BY <3>1, OutputTypes
  <2>3. cur[c].seq \in Nat /\ i \in 1..BuffLen /\ i <= cur[c].len
    BY <2>2, ChunkTypes, ParameterAssumption
  <2>4. PICK cells \in Cells :
          /\ \A j \in 1..BuffLen : j <= cur[c].len => lo[c][j] <= cells[j]
          /\ screen' = [screen EXCEPT ![c][s] = cells]
    BY <2>1 DEF Show
  <2>5. screen'[c][s] = cells
    BY <2>2, <2>4
  <2>6. cur[c].seq <= lo[c][i]
    BY DEF ChunksKept, Held, Covers
  <2>7. lo[c][i] \in Nat
    BY <2>3, OutputTypes
  <2>8. cells[i] \in Nat
    BY <2>3 DEF Cells
  <2> QED BY <2>3, <2>4, <2>5, <2>6, <2>7, <2>8
<1> QED BY <1>1, SessionTypeOK, SessionInfo, SessionChunks, PTL DEF Spec, OutputNotOlder
----------------------------------------------------------------------------
(* The messages of a stream arrive in order and without a gap *)

ChainAll == \A c \in Conns : ChainInv(c)

\* What TypeOK says of the variables Chain is about
LEMMA ChainTypes ==
    ASSUME TypeOK, NEW c \in Conns, NEW s \in Streams
    PROVE  /\ shown[c][s] \in 0..MaxChunks
           /\ buff[c][s][1] \in 0..MaxChunks
           /\ cur[c].type = s => cur[c].seq \in 0..MaxChunks
           /\ Taken(c, s) \in 0..MaxChunks
           /\ send[c] \in Seq(Message) /\ Len(send[c]) \in Nat
           /\ \A k \in 1..Len(send[c]) : send[c][k].seq \in Nat
           /\ NoMessage.type # s
<1>1. shown[c][s] \in 0..MaxChunks
  BY OutputTypes
<1>2. buff[c][s][1] \in 0..MaxChunks
  <2>1. buff[c][s] \in Cells /\ 1 \in 1..BuffLen
    BY OutputTypes, ChunkTypes
  <2> QED BY <2>1 DEF Cells
<1>3. NoMessage.type # s
  BY ParameterAssumption DEF NoMessage
<1>4. cur[c].type = s => cur[c].seq \in 0..MaxChunks
  <2>1. cur[c] \in Message \cup {NoMessage}
    BY OutputTypes
  <2> QED BY <1>3, <2>1 DEF Message
<1>5. Taken(c, s) \in 0..MaxChunks
  BY <1>1, <1>4 DEF Taken
<1>6. send[c] \in Seq(Message) /\ Len(send[c]) \in Nat
  BY ChunkTypes
<1>7. \A k \in 1..Len(send[c]) : send[c][k].seq \in Nat
  BY <1>6, ChunkTypes
<1> QED BY <1>1, <1>2, <1>3, <1>4, <1>5, <1>6, <1>7

\* What was sent, as an interval
LEMMA SentIs ==
    ASSUME TypeOK, NEW c \in Conns, NEW s \in Streams, NEW k \in Nat
    PROVE  k \in Sent(c, s) <=>
              /\ Taken(c, s) < k
              /\ k <= buff[c][s][1]
              /\ rd[c][s] = "send" => k # buff[c][s][1]
  BY ChainTypes, ParameterAssumption DEF Sent

\* Nothing Chain speaks of changes at stream s of connection c, but that the browser
\* may have been shown what writePump held.
ChainSame(c, s) ==
    /\ Taken(c, s)' = Taken(c, s)
    /\ cur'[c].type = s => cur'[c].seq = shown'[c][s] + 1
    /\ buff'[c][s] = buff[c][s]
    /\ rd'[c][s] = "send" <=> rd[c][s] = "send"

\* Such a step leaves the set of the chunks that were sent alone.
LEMMA SameSent ==
    ASSUME NEW c \in Conns, NEW s \in Streams, ChainSame(c, s)
    PROVE  Sent(c, s)' = Sent(c, s)
  BY DEF Sent, ChainSame

LEMMA SameKeepsChain ==
    ASSUME NEW c \in Conns, NEW s \in Streams, Chain(c, s), ChainSame(c, s),
           send'[c] = send[c]
    PROVE  Chain(c, s)'
<1>1. Sent(c, s)' = Sent(c, s)
  BY SameSent
<1> QED BY <1>1 DEF Chain, ChainSame

\* A message that is not of the stream joins the channel.
LEMMA OtherJoinsChain ==
    ASSUME TypeOK, NEW c \in Conns, NEW s \in Streams, Chain(c, s), ChainSame(c, s),
           NEW m \in Message, send'[c] = Append(send[c], m), m.type # s
    PROVE  Chain(c, s)'
<1>1. Sent(c, s)' = Sent(c, s)
  BY SameSent
<1>t. send[c] \in Seq(Message) /\ Len(send[c]) \in Nat
  BY ChainTypes
<1>2. /\ Len(send'[c]) = Len(send[c]) + 1
      /\ \A k \in 1..Len(send[c]) : send'[c][k] = send[c][k]
      /\ send'[c][Len(send[c]) + 1] = m
  BY <1>t
<1>3. \A k \in 1..Len(send'[c]) :
         send'[c][k].type = s => k \in 1..Len(send[c]) /\ send'[c][k] = send[c][k]
  BY <1>2, <1>t
<1>4. \A k \in 1..Len(send[c]) : k \in 1..Len(send'[c])
  BY <1>2, <1>t
<1> QED BY <1>1, <1>2, <1>3, <1>4 DEF Chain, ChainSame

\* The reader sends the chunk it has read: one more than the last one it sent.
LEMMA OwnJoinsChain ==
    ASSUME TypeOK, NEW c \in Conns, NEW s \in Streams, Chain(c, s), SendOutput(c, s)
    PROVE  Chain(c, s)'
<1> DEFINE b == buff[c][s][1]
<1> DEFINE m == Output(s, b, chunk[c][s])
<1> DEFINE n == Len(send[c])
<1>t. /\ b \in 0..MaxChunks /\ Taken(c, s) \in 0..MaxChunks
      /\ send[c] \in Seq(Message) /\ n \in Nat
      /\ \A k \in 1..n : send[c][k].seq \in Nat
  BY ChainTypes
<1>0. /\ rd[c][s] = "send" /\ rd'[c][s] # "send"
      /\ buff' = buff /\ cur' = cur /\ shown' = shown
  BY ChunkTypes DEF SendOutput, peerVars
<1>1. m.type = s /\ m.seq = b
  BY DEF Output
<1>m. m \in Message
  BY <1>t, ChunkTypes, OutputType
<1>2. send'[c] = Append(send[c], m)
  BY ChunkTypes DEF SendOutput, Send
<1>3. /\ Len(send'[c]) = n + 1
      /\ \A k \in 1..n : send'[c][k] = send[c][k]
      /\ send'[c][n + 1] = m
  <2> HIDE DEF m
  <2> QED BY <1>2, <1>t, <1>m
<1>4. Taken(c, s)' = Taken(c, s)
  BY <1>0 DEF Taken
<1>5. /\ \A k \in Nat : k \in Sent(c, s)' <=> k \in Sent(c, s) \/ k = b
      /\ Sent(c, s)' \subseteq Nat
  <2>1. Taken(c, s) < b
    BY <1>0 DEF Chain
  <2>2. \A k \in Nat : k \in Sent(c, s) <=> Taken(c, s) < k /\ k < b
    BY <1>0, <1>t, SentIs
  <2>3. \A k \in Nat : k \in Sent(c, s)' <=> k \in 1..MaxChunks /\ Taken(c, s) < k /\ k <= b
    BY <1>0, <1>4, <1>t DEF Sent
  <2>4. Sent(c, s)' \subseteq Nat
    BY DEF Sent
  <2> QED BY <2>1, <2>2, <2>3, <2>4, <1>t, ParameterAssumption
<1>6. \A k \in 1..n : send[c][k].type = s => send[c][k].seq \in Sent(c, s) /\ send[c][k].seq < b
  <2>1. \A q \in Nat : q \in Sent(c, s) => q < b
    BY <1>0, <1>t, SentIs
  <2> QED BY <2>1, <1>t DEF Chain
<1> HIDE DEF b, m, n
<1>7. \A k \in 1..Len(send'[c]) : k = n + 1 \/ k \in 1..n
  BY <1>3, <1>t
<1>8. \A k \in 1..Len(send'[c]) : send'[c][k].type = s => send'[c][k].seq \in Sent(c, s)'
  BY <1>1, <1>3, <1>5, <1>6, <1>7, <1>t
<1>9. ASSUME NEW q \in Sent(c, s)'
      PROVE  \E k \in 1..Len(send'[c]) : send'[c][k].type = s /\ send'[c][k].seq = q
  <2>1. CASE q = b
    <3>1. n + 1 \in 1..Len(send'[c])
      BY <1>3, <1>t
    <3> QED BY <2>1, <3>1, <1>1, <1>3
  <2>2. CASE q \in Sent(c, s)
    <3>1. PICK k \in 1..n : send[c][k].type = s /\ send[c][k].seq = q
      BY <2>2 DEF Chain, n
    <3>2. k \in 1..Len(send'[c])
      BY <1>3, <1>t
    <3> QED BY <3>1, <3>2, <1>3
  <2> QED BY <2>1, <2>2, <1>5
<1>10. ASSUME NEW k \in 1..Len(send'[c]), NEW l \in 1..Len(send'[c]),
              send'[c][k].type = s, send'[c][l].type = s, k < l
       PROVE  send'[c][k].seq < send'[c][l].seq
  <2>1. k \in 1..n
    BY <1>3, <1>7, <1>10, <1>t
  <2>2. CASE l = n + 1
    BY <2>1, <2>2, <1>1, <1>3, <1>6, <1>10
  <2>3. CASE l \in 1..n
    BY <2>1, <2>3, <1>3, <1>10 DEF Chain, n
  <2> QED BY <2>2, <2>3, <1>7
<1>11. Taken(c, s) <= b
  BY <1>0, <1>t DEF Chain, b
<1> QED BY <1>0, <1>4, <1>8, <1>9, <1>10, <1>11 DEF Chain, b

\* The reader reads a chunk, which is not sent yet.
LEMMA ReadKeepsChain ==
    ASSUME TypeOK, NEW c \in Conns, NEW s \in Streams, Chain(c, s), ReadOutput(c, s)
    PROVE  Chain(c, s)'
<1>t. /\ buff[c][s][1] \in 0..MaxChunks /\ Taken(c, s) \in 0..MaxChunks
      /\ buff \in [Conns -> [Streams -> Cells]] /\ 1 \in 1..BuffLen
  BY ChainTypes, OutputTypes, ChunkTypes
<1>0. /\ rd[c][s] # "send" /\ rd'[c][s] = "send"
      /\ cur' = cur /\ shown' = shown /\ send' = send
  BY ChunkTypes DEF ReadOutput, peerVars, hubVars
<1>1. buff'[c][s][1] = buff[c][s][1] + 1
  <2>1. PICK n \in 1..BuffLen :
          buff' = [buff EXCEPT ![c][s] =
                     [i \in 1..BuffLen |-> IF i <= n THEN buff[c][s][1] + 1 ELSE buff[c][s][i]]]
    BY DEF ReadOutput
  <2>2. \A i \in 1..BuffLen :
          buff'[c][s][i] = IF i <= n THEN buff[c][s][1] + 1 ELSE buff[c][s][i]
    BY <2>1, <1>t
  <2>3. 1 <= n
    OBVIOUS
  <2> QED BY <2>2, <2>3, <1>t
<1>2. Taken(c, s)' = Taken(c, s)
  BY <1>0 DEF Taken
<1>3. Sent(c, s)' = Sent(c, s)
  <2>1. Sent(c, s)' = {k \in 1..MaxChunks : Taken(c, s) < k /\ k < buff[c][s][1] + 1}
    BY <1>0, <1>1, <1>2, <1>t, ParameterAssumption DEF Sent
  <2>2. Sent(c, s) = {k \in 1..MaxChunks : Taken(c, s) < k /\ k <= buff[c][s][1]}
    BY <1>0, <1>t, ParameterAssumption DEF Sent
  <2> QED BY <2>1, <2>2, <1>t, ParameterAssumption
<1>4. Taken(c, s) < buff[c][s][1] + 1 /\ Taken(c, s) <= buff[c][s][1] + 1
  BY <1>t DEF Chain
<1> QED BY <1>0, <1>1, <1>2, <1>3, <1>4 DEF Chain

\* A message that is not of the stream leaves the channel.
LEMMA OtherLeavesChain ==
    ASSUME TypeOK, NEW c \in Conns, NEW s \in Streams, Chain(c, s), ChainSame(c, s),
           send[c] # <<>>, send'[c] = Tail(send[c]), Head(send[c]).type # s
    PROVE  Chain(c, s)'
<1>1. Sent(c, s)' = Sent(c, s)
  BY SameSent
<1>t. send[c] \in Seq(Message) /\ Len(send[c]) \in Nat
  BY ChainTypes
<1>2. /\ Len(send'[c]) = Len(send[c]) - 1
      /\ \A k \in 1..Len(send'[c]) : k + 1 \in 1..Len(send[c]) /\ send'[c][k] = send[c][k + 1]
      /\ send[c][1].type # s
  BY <1>t
<1>3. \A k \in 1..Len(send[c]) : send[c][k].type = s =>
         k - 1 \in 1..Len(send'[c]) /\ send'[c][k - 1] = send[c][k]
  BY <1>2, <1>t
<1>4. \A k \in 1..Len(send'[c]) : send'[c][k].type = s => send'[c][k].seq \in Sent(c, s)
  BY <1>2 DEF Chain
<1>5. \A q \in Sent(c, s) :
         \E k \in 1..Len(send'[c]) : send'[c][k].type = s /\ send'[c][k].seq = q
  <2> SUFFICES ASSUME NEW q \in Sent(c, s)
               PROVE \E k \in 1..Len(send'[c]) : send'[c][k].type = s /\ send'[c][k].seq = q
    OBVIOUS
  <2>1. PICK k \in 1..Len(send[c]) : send[c][k].type = s /\ send[c][k].seq = q
    BY DEF Chain
  <2> QED BY <2>1, <1>3
<1>6. ASSUME NEW k \in 1..Len(send'[c]), NEW l \in 1..Len(send'[c]),
             send'[c][k].type = s, send'[c][l].type = s, k < l
      PROVE  send'[c][k].seq < send'[c][l].seq
  <2>1. k + 1 < l + 1
    BY <1>6, <1>2, <1>t
  <2> QED BY <2>1, <1>2, <1>6 DEF Chain
<1> QED BY <1>1, <1>4, <1>5, <1>6 DEF Chain, ChainSame

\* The first message of the stream leaves the channel: it is the next to be shown.
LEMMA OwnLeavesChain ==
    ASSUME TypeOK, NEW c \in Conns, NEW s \in Streams, Chain(c, s),
           send[c] # <<>>, send'[c] = Tail(send[c]), Head(send[c]).type = s,
           cur[c].type # s, cur'[c] = Head(send[c]), UNCHANGED <<buff, rd, shown>>
    PROVE  Chain(c, s)'
<1> DEFINE b == buff[c][s][1]
<1> DEFINE q == Head(send[c]).seq
<1> DEFINE n == Len(send[c])
<1>t. /\ b \in 0..MaxChunks /\ shown[c][s] \in 0..MaxChunks
      /\ send[c] \in Seq(Message) /\ n \in Nat
      /\ \A k \in 1..n : send[c][k].seq \in Nat
  BY ChainTypes
<1>0. Taken(c, s) = shown[c][s] /\ Taken(c, s)' = q
  BY DEF Taken
<1>1. /\ Len(send'[c]) = n - 1
      /\ \A k \in 1..Len(send'[c]) : k + 1 \in 1..n /\ send'[c][k] = send[c][k + 1]
      /\ Head(send[c]) = send[c][1] /\ 1 \in 1..n
  BY <1>t
<1>2. q \in Nat /\ q \in Sent(c, s)
  BY <1>1, <1>t DEF Chain
<1>3. \A k \in Nat : k \in Sent(c, s) <=>
         shown[c][s] < k /\ k <= b /\ (rd[c][s] = "send" => k # b)
  BY <1>0, SentIs
<1>4. \A k \in 2..n : send[c][k].type = s => q < send[c][k].seq
  <2> SUFFICES ASSUME NEW k \in 2..n, send[c][k].type = s PROVE q < send[c][k].seq
    OBVIOUS
  <2>1. k \in 1..n /\ 1 < k
    BY <1>t
  <2> QED BY <2>1, <1>1 DEF Chain
<1> HIDE DEF b, q, n
<1>5. q = shown[c][s] + 1
  <2>1. shown[c][s] < q /\ q <= b /\ (rd[c][s] = "send" => q # b)
    BY <1>2, <1>3
  <2>2. ASSUME q # shown[c][s] + 1 PROVE FALSE
    <3>1. shown[c][s] + 1 \in Nat /\ shown[c][s] + 1 < q
      BY <2>1, <2>2, <1>2, <1>t
    <3>2. shown[c][s] + 1 \in Sent(c, s)
      BY <2>1, <3>1, <1>2, <1>3, <1>t
    <3>3. PICK k \in 1..n : send[c][k].type = s /\ send[c][k].seq = shown[c][s] + 1
      BY <3>2 DEF Chain, n
    <3>4. k # 1
      BY <3>1, <3>3, <1>1, <1>2 DEF q
    <3>5. k \in 2..n
      BY <3>4, <1>t
    <3> QED BY <3>1, <3>3, <3>5, <1>2, <1>4
  <2> QED BY <2>2
<1>6. \A k \in Nat : k \in Sent(c, s)' <=> k \in Sent(c, s) /\ q < k
  <2>1. \A k \in Nat : k \in Sent(c, s)' <=>
           q < k /\ k <= b /\ (rd[c][s] = "send" => k # b)
    <3>1. buff'[c][s][1] = b /\ rd'[c][s] = rd[c][s]
      BY DEF b
    <3>2. \A k : k \in Sent(c, s)' <=>
             k \in 1..MaxChunks /\ q < k /\ (k < b \/ (k = b /\ rd[c][s] # "send"))
      BY <3>1, <1>0 DEF Sent
    <3> QED BY <3>2, <1>2, <1>t, ParameterAssumption
  <2> QED BY <2>1, <1>2, <1>3, <1>5, <1>t
<1>7. ASSUME NEW k \in 1..Len(send'[c]), send'[c][k].type = s
      PROVE  send'[c][k].seq \in Sent(c, s)'
  <2>1. k + 1 \in 2..n /\ k + 1 \in 1..n
    BY <1>1, <1>t
  <2>2. send[c][k + 1].type = s /\ send'[c][k].seq = send[c][k + 1].seq
    BY <1>1, <1>7
  <2>3. send[c][k + 1].seq \in Sent(c, s) /\ send[c][k + 1].seq \in Nat
    BY <2>1, <2>2, <1>t DEF Chain, n
  <2> QED BY <2>1, <2>2, <2>3, <1>4, <1>6
<1>8. ASSUME NEW r \in Sent(c, s)'
      PROVE  \E k \in 1..Len(send'[c]) : send'[c][k].type = s /\ send'[c][k].seq = r
  <2>0. r \in Nat
    BY DEF Sent
  <2>1. r \in Sent(c, s) /\ q < r
    BY <2>0, <1>6
  <2>2. PICK k \in 1..n : send[c][k].type = s /\ send[c][k].seq = r
    BY <2>1 DEF Chain, n
  <2>3. k # 1
    BY <2>0, <2>1, <2>2, <1>1, <1>2 DEF q
  <2>4. k - 1 \in 1..Len(send'[c]) /\ (k - 1) + 1 = k
    BY <2>3, <1>1, <1>t
  <2>5. send'[c][k - 1] = send[c][k]
    BY <2>4, <1>1
  <2> QED BY <2>2, <2>4, <2>5
<1>9. ASSUME NEW k \in 1..Len(send'[c]), NEW l \in 1..Len(send'[c]),
             send'[c][k].type = s, send'[c][l].type = s, k < l
      PROVE  send'[c][k].seq < send'[c][l].seq
  <2>1. k + 1 < l + 1 /\ k + 1 \in 1..n /\ l + 1 \in 1..n
    BY <1>9, <1>1, <1>t
  <2> QED BY <2>1, <1>1, <1>9 DEF Chain, n
<1>10. /\ cur'[c].seq = shown'[c][s] + 1
       /\ Taken(c, s)' <= buff'[c][s][1]
       /\ rd'[c][s] = "send" => Taken(c, s)' < buff'[c][s][1]
  BY <1>0, <1>2, <1>3, <1>5, <1>t DEF b, q
<1> QED BY <1>7, <1>8, <1>9, <1>10 DEF Chain

\* Nothing ChainInv speaks of changes at connection d.
ChainLeft(d) ==
    /\ serve'[d] = serve[d] /\ wr'[d] = wr[d] /\ ws'[d] = ws[d] /\ cur'[d] = cur[d]
    /\ shown'[d] = shown[d] /\ buff'[d] = buff[d] /\ rd'[d] = rd[d] /\ send'[d] = send[d]

LEMMA ChainOne ==
    ASSUME ChainAll, NEW c \in Conns, ChainInv(c)', \A d \in Conns \ {c} : ChainLeft(d)
    PROVE  ChainAll'
<1>1. ASSUME NEW d \in Conns, d # c PROVE ChainInv(d)'
  <2>1. ChainInv(d) /\ ChainLeft(d)
    BY <1>1 DEF ChainAll
  <2>2. ASSUME NEW s \in Streams, Chain(d, s) PROVE Chain(d, s)'
    <3>1. ChainSame(d, s)
      BY <2>1, <2>2 DEF ChainLeft, ChainSame, Taken, Chain
    <3> QED BY <2>1, <2>2, <3>1, SameKeepsChain DEF ChainLeft
  <2> QED BY <2>1, <2>2 DEF ChainInv, ChainLeft
<1> QED BY <1>1 DEF ChainAll

chainVars == <<serve, wr, ws, cur, shown, buff, rd, send>>

LEMMA ChainStutter == ChainAll /\ UNCHANGED chainVars => ChainAll'
  BY DEF ChainAll, ChainInv, Chain, Taken, Sent, chainVars

\* The handler goes on without a message, and may upgrade or close the websocket.
LEMMA MoveKeepsChain ==
    ASSUME TypeOK, ChainAll, NEW c \in Conns, NEW l, Goto(c, l), l # "idle",
           UNCHANGED <<wr, cur, shown, buff, rd, send>>,
           ws'[c] = ws[c] \/ ws'[c] = "closed" \/ serve[c] = "idle",
           \A d \in Conns \ {c} : ws'[d] = ws[d]
    PROVE  ChainAll'
<1>1. serve'[c] = l /\ \A d \in Conns \ {c} : serve'[d] = serve[d]
  BY InfoTypes DEF Goto
<1>2. ChainInv(c)
  BY DEF ChainAll
<1>3. ASSUME NEW s \in Streams, Chain(c, s) PROVE Chain(c, s)'
  <2>1. ChainSame(c, s)
    BY <1>3 DEF ChainSame, Taken, Chain
  <2> QED BY <1>3, <2>1, SameKeepsChain
<1>4. ChainInv(c)'
  BY <1>1, <1>2, <1>3 DEF ChainInv
<1>5. \A d \in Conns \ {c} : ChainLeft(d)
  BY <1>1 DEF ChainLeft
<1> QED BY <1>4, <1>5, ChainOne

\* A notice joins the channel.
LEMMA NoticeKeepsChain ==
    ASSUME TypeOK, ChainAll, NEW c \in Conns, NEW t \in Notices, Send(c, Notice(t)),
           UNCHANGED <<wr, ws, cur, shown, buff, rd>>,
           serve'[c] = "idle" => serve[c] = "idle",
           \A d \in Conns \ {c} : serve'[d] = serve[d]
    PROVE  ChainAll'
<1>1. Notice(t) \in Message /\ Notice(t).type \notin Streams
  BY NoticeType, ParameterAssumption DEF Notice
<1>2. send'[c] = Append(send[c], Notice(t)) /\ \A d \in Conns \ {c} : send'[d] = send[d]
  BY ChunkTypes DEF Send
<1>3. ASSUME NEW s \in Streams, Chain(c, s) PROVE Chain(c, s)'
  <2>1. ChainSame(c, s)
    BY <1>3 DEF ChainSame, Taken, Chain
  <2> QED BY <1>1, <1>2, <1>3, <2>1, OtherJoinsChain
<1>4. ChainInv(c)'
  BY <1>3 DEF ChainAll, ChainInv
<1>5. \A d \in Conns \ {c} : ChainLeft(d)
  BY <1>2 DEF ChainLeft
<1> QED BY <1>4, <1>5, ChainOne

LEMMA HandlerKeepsChain ==
    ASSUME TypeOK, InfoAll, ChainAll, NEW c \in Conns,
           \/ HandlerStep(c) \/ ForwarderStep(c)
           \/ Upgrade(c) \/ ReceiveStdin(c) \/ ReceiveMalformed(c)
    PROVE  ChainAll'
<1>n. {"error", "info", "event"} \subseteq Notices
  BY DEF Notices
<1>1. CASE \/ ServeRegister(c) \/ ServeCreate(c) \/ ServeStart(c) \/ RunPanics(c)
           \/ ReceiveStdin(c) \/ ServeWriteStdin(c) \/ ReceiveMalformed(c) \/ ReadFails(c)
           \/ ServeUnregister(c) \/ ServeStop(c)
  <2>1. PICK l : Goto(c, l) /\ l # "idle"
    BY <1>1 DEF ServeRegister, ServeCreate, ServeStart, RunPanics, ReceiveStdin,
       ServeWriteStdin, ReceiveMalformed, ReadFails, ServeUnregister, ServeStop
  <2>2. UNCHANGED <<wr, ws, cur, shown, buff, rd, send>>
    BY <1>1 DEF ServeRegister, ServeCreate, ServeStart, RunPanics, ReceiveStdin,
       ServeWriteStdin, ReceiveMalformed, ReadFails, ServeUnregister, ServeStop,
       OnlyServe, hubVars, peerVars, Register, Unregister
  <2> QED BY <2>1, <2>2, MoveKeepsChain
<1>2. CASE Upgrade(c) \/ ServeClose(c)
  <2>0. PICK w, l : /\ Goto(c, l) /\ l # "idle"
                    /\ ws' = [ws EXCEPT ![c] = w]
                    /\ w = "closed" \/ serve[c] = "idle"
    BY <1>2 DEF Upgrade, ServeClose
  <2>1. UNCHANGED <<wr, cur, shown, buff, rd, send>>
    BY <1>2 DEF Upgrade, ServeClose, OnlyServe, hubVars
  <2>2. ws'[c] = w /\ \A d \in Conns \ {c} : ws'[d] = ws[d]
    BY <2>0, InfoTypes
  <2> QED BY <2>0, <2>1, <2>2, MoveKeepsChain
<1>3. CASE CreateFatal(c) \/ RunFatal(c) \/ ForwardReceive(c) \/ ForwardPanics(c)
  <2>1. UNCHANGED chainVars
    BY <1>3 DEF CreateFatal, RunFatal, ForwardReceive, ForwardPanics, hubVars, goVars,
       peerVars, chainVars
  <2> QED BY <2>1, ChainStutter
<1>4. CASE SendError(c) \/ SendInfo(c) \/ ForwardEvent(c) \/ ForwardError(c)
  <2>1. PICK t \in Notices : Send(c, Notice(t))
    BY <1>4, <1>n DEF SendError, SendInfo, ForwardEvent, ForwardError
  <2>2. UNCHANGED <<wr, ws, cur, shown, buff, rd>>
    BY <1>4 DEF SendError, SendInfo, ForwardEvent, ForwardError, OnlyServe, peerVars
  <2>3. /\ serve'[c] = "idle" => serve[c] = "idle"
        /\ \A d \in Conns \ {c} : serve'[d] = serve[d]
    BY <1>4, InfoTypes DEF SendError, SendInfo, ForwardEvent, ForwardError, Goto
  <2> QED BY <2>1, <2>2, <2>3, NoticeKeepsChain
<1>5. CASE ServeRun(c)
  <2>1. UNCHANGED <<ws, cur, shown, buff, send>> /\ serve[c] = "run"
    BY <1>5 DEF ServeRun, hubVars, peerVars
  <2>2. serve'[c] = "read" /\ wr'[c] = "select" /\ \A s \in Streams : rd'[c][s] = "read"
    BY <1>5, InfoTypes DEF ServeRun, Goto
  <2>3. wr[c] = "off" /\ \A s \in Streams : rd[c][s] = "off"
    BY <2>1 DEF InfoAll, InfoInv
  <2>4. ASSUME NEW s \in Streams, Chain(c, s) PROVE Chain(c, s)'
    <3>1. ChainSame(c, s)
      BY <2>1, <2>2, <2>3, <2>4 DEF ChainSame, Taken, Chain
    <3> QED BY <2>1, <2>4, <3>1, SameKeepsChain
  <2>5. ChainInv(c)'
    BY <2>1, <2>2, <2>3, <2>4 DEF ChainAll, ChainInv
  <2>6. \A d \in Conns \ {c} : ChainLeft(d)
    BY <1>5, <2>1, InfoTypes DEF ServeRun, Goto, ChainLeft
  <2> QED BY <2>5, <2>6, ChainOne
<1> QED BY <1>1, <1>2, <1>3, <1>4, <1>5 DEF HandlerStep, ForwarderStep

LEMMA ReaderKeepsChain ==
    ASSUME TypeOK, ChainAll, NEW c \in Conns, NEW s \in Streams,
           ReaderStep(c, s) \/ ReadOutput(c, s)
    PROVE  ChainAll'
<1>1. CASE OutputPanics(c, s)
  <2>1. UNCHANGED chainVars
    BY <1>1 DEF OutputPanics, hubVars, goVars, peerVars, chainVars
  <2> QED BY <2>1, ChainStutter
<1>2. CASE SendOutput(c, s) \/ OutputEnds(c, s) \/ ReadOutput(c, s)
  <2>0. UNCHANGED <<serve, wr, ws, cur, shown>>
    BY <1>2 DEF SendOutput, OutputEnds, ReadOutput, peerVars
  <2>1. \A d \in Conns, t \in Streams : <<d, t>> # <<c, s>> =>
           rd'[d][t] = rd[d][t] /\ buff'[d][t] = buff[d][t]
    BY <1>2, ChunkTypes, OutputTypes DEF SendOutput, OutputEnds, ReadOutput
  <2>2. \A d \in Conns \ {c} : rd'[d] = rd[d] /\ buff'[d] = buff[d] /\ send'[d] = send[d]
    BY <1>2, ChunkTypes, OutputTypes DEF SendOutput, OutputEnds, ReadOutput, Send, hubVars
  <2>3. \/ send'[c] = send[c]
        \/ \E m \in Message : send'[c] = Append(send[c], m) /\ m.type = s
    <3>1. CASE SendOutput(c, s)
      <4>1. Output(s, buff[c][s][1], chunk[c][s]) \in Message
        BY ChainTypes, ChunkTypes, OutputType
      <4>2. send'[c] = Append(send[c], Output(s, buff[c][s][1], chunk[c][s]))
        BY <3>1, ChunkTypes DEF SendOutput, Send
      <4> QED BY <4>1, <4>2 DEF Output
    <3> QED BY <1>2, <3>1 DEF OutputEnds, ReadOutput, hubVars
  <2>4. ASSUME NEW t \in Streams, t # s, Chain(c, t) PROVE Chain(c, t)'
    <3>1. ChainSame(c, t)
      BY <2>0, <2>1, <2>4 DEF ChainSame, Taken, Chain
    <3>2. CASE send'[c] = send[c]
      BY <2>4, <3>1, <3>2, SameKeepsChain
    <3>3. ASSUME NEW m \in Message, send'[c] = Append(send[c], m), m.type = s
          PROVE  Chain(c, t)'
      BY <2>4, <3>1, <3>3, OtherJoinsChain
    <3> QED BY <2>3, <3>2, <3>3
  <2>5. ASSUME Chain(c, s) PROVE Chain(c, s)'
    <3>1. CASE OutputEnds(c, s)
      <4>1. rd[c][s] = "read" /\ rd'[c][s] = "done" /\ UNCHANGED <<buff, send>>
        BY <3>1, ChunkTypes DEF OutputEnds, hubVars
      <4>2. ChainSame(c, s)
        BY <2>0, <2>5, <4>1 DEF ChainSame, Taken, Chain
      <4> QED BY <2>5, <4>1, <4>2, SameKeepsChain
    <3> QED BY <1>2, <2>5, <3>1, OwnJoinsChain, ReadKeepsChain
  <2>6. ChainInv(c)'
    BY <2>0, <2>4, <2>5 DEF ChainAll, ChainInv
  <2>7. \A d \in Conns \ {c} : ChainLeft(d)
    BY <2>0, <2>2 DEF ChainLeft
  <2> QED BY <2>6, <2>7, ChainOne
<1> QED BY <1>1, <1>2 DEF ReaderStep

LEMMA PumpKeepsChain ==
    ASSUME TypeOK, InfoAll, ChainAll, NEW c \in Conns,
           PumpStep(c) \/ PumpFails(c) \/ PeerLeaves(c)
    PROVE  ChainAll'
<1>i. ChainInv(c)
  BY DEF ChainAll
<1>1. CASE PumpReceive(c)
  <2>1. /\ UNCHANGED <<serve, ws, shown, buff, rd>> /\ wr[c] = "select" /\ send[c] # <<>>
    BY <1>1 DEF PumpReceive, Receive, peerVars
  <2>2. /\ wr'[c] = "write" /\ cur'[c] = Head(send[c]) /\ send'[c] = Tail(send[c])
        /\ \A d \in Conns \ {c} : wr'[d] = wr[d] /\ cur'[d] = cur[d] /\ send'[d] = send[d]
    BY <1>1, InfoTypes DEF PumpReceive, Receive
  <2>3. cur[c] = NoMessage
    BY <2>1, <1>i DEF ChainInv
  <2>4. ASSUME NEW s \in Streams, Chain(c, s) PROVE Chain(c, s)'
    <3>0. cur[c].type # s
      BY <2>3, ChainTypes
    <3>1. CASE Head(send[c]).type = s
      BY <2>1, <2>2, <2>4, <3>0, <3>1, OwnLeavesChain
    <3>2. CASE Head(send[c]).type # s
      <4>1. ChainSame(c, s)
        BY <2>1, <2>2, <3>0, <3>2 DEF ChainSame, Taken
      <4> QED BY <2>1, <2>2, <2>4, <3>2, <4>1, OtherLeavesChain
    <3> QED BY <3>1, <3>2
  <2>5. ChainInv(c)'
    BY <2>1, <2>2, <2>4, <1>i DEF ChainInv
  <2>6. \A d \in Conns \ {c} : ChainLeft(d)
    BY <2>1, <2>2 DEF ChainLeft
  <2> QED BY <2>5, <2>6, ChainOne
<1>2. CASE PumpWrite(c)
  <2>1. UNCHANGED <<serve, ws, buff, rd, send>>
    BY <1>2 DEF PumpWrite, hubVars
  <2>2. /\ cur'[c] = NoMessage
        /\ \A d \in Conns \ {c} : wr'[d] = wr[d] /\ cur'[d] = cur[d]
    BY <1>2, InfoTypes DEF PumpWrite
  <2>3. \A d \in Conns \ {c} : shown'[d] = shown[d]
    BY <1>2, OutputTypes DEF PumpWrite, Show
  <2>4. ASSUME NEW s \in Streams, Chain(c, s), ws[c] = "open" PROVE Chain(c, s)'
    <3>0. cur'[c].type # s
      BY <2>2, ChainTypes
    <3>1. shown'[c][s] = IF cur[c].type = s THEN cur[c].seq ELSE shown[c][s]
      BY <1>2, <2>4, OutputTypes DEF PumpWrite, Show
    <3>2. ChainSame(c, s)
      BY <2>1, <3>0, <3>1 DEF ChainSame, Taken
    <3> QED BY <2>1, <2>4, <3>2, SameKeepsChain
  <2>5. ws[c] # "none"
    BY <1>2 DEF PumpWrite
  <2>6. ChainInv(c)'
    BY <2>1, <2>2, <2>4, <2>5, <1>i DEF ChainInv
  <2>7. \A d \in Conns \ {c} : ChainLeft(d)
    BY <2>1, <2>2, <2>3 DEF ChainLeft
  <2> QED BY <2>6, <2>7, ChainOne
<1>3. CASE PumpFails(c) \/ PumpClosed(c) \/ PeerLeaves(c)
  <2>1. UNCHANGED <<serve, shown, buff, rd, send>>
    BY <1>3 DEF PumpFails, PumpClosed, PumpReturns, PeerLeaves, hubVars, goVars
  <2>2. /\ ws'[c] \in {"gone", "closed"}
        /\ \A d \in Conns \ {c} : ws'[d] = ws[d] /\ wr'[d] = wr[d] /\ cur'[d] = cur[d]
    BY <1>3, InfoTypes DEF PumpFails, PumpClosed, PumpReturns, PeerLeaves, goVars
  <2>3. serve[c] # "idle"
    <3>1. CASE PeerLeaves(c)
      BY <3>1, <1>i DEF PeerLeaves, ChainInv
    <3>2. CASE PumpFails(c) \/ PumpClosed(c)
      BY <3>2 DEF PumpFails, PumpClosed, InfoAll, InfoInv, Before
    <3> QED BY <1>3, <3>1, <3>2
  <2>4. wr'[c] # "write" => cur'[c] = NoMessage
    <3>1. CASE PeerLeaves(c)
      BY <3>1, <1>i DEF PeerLeaves, ChainInv, goVars
    <3>2. CASE PumpFails(c) \/ PumpClosed(c)
      BY <3>2, InfoTypes DEF PumpFails, PumpClosed, PumpReturns
    <3> QED BY <1>3, <3>1, <3>2
  <2>5. ChainInv(c)'
    BY <2>1, <2>2, <2>3, <2>4 DEF ChainInv
  <2>6. \A d \in Conns \ {c} : ChainLeft(d)
    BY <2>1, <2>2 DEF ChainLeft
  <2> QED BY <2>5, <2>6, ChainOne
<1> QED BY <1>1, <1>2, <1>3 DEF PumpStep

\* While the browser is there its channel holds the chunks that were sent and not
\* shown, each once and in their order (web_other.go:242-268, connection.go:131-147).
THEOREM SessionChain == Spec => []ChainAll
<1>1. Init => ChainAll
  <2> SUFFICES ASSUME Init, NEW c \in Conns PROVE ChainInv(c)
    BY DEF ChainAll
  <2>1. serve[c] = "idle" /\ ws[c] = "none" /\ cur[c] = NoMessage
    BY DEF Init
  <2>2. ASSUME NEW s \in Streams PROVE Chain(c, s)
    <3>1. shown[c][s] = 0 /\ buff[c][s][1] = 0 /\ rd[c][s] = "off"
      BY ParameterAssumption DEF Init, Blank
    <3>2. send[c] = <<>> /\ cur[c].type # s
      BY <2>1, ParameterAssumption DEF Init, HubInit, NoMessage
    <3>3. Taken(c, s) = 0
      BY <3>1, <3>2 DEF Taken
    <3>4. Sent(c, s) = {}
      BY <3>1, <3>3, ParameterAssumption DEF Sent
    <3> QED BY <3>1, <3>2, <3>3, <3>4 DEF Chain
  <2> QED BY <2>1, <2>2 DEF ChainInv
<1>2. TypeOK /\ InfoAll /\ ChainAll /\ [Next]_vars => ChainAll'
  <2> SUFFICES ASSUME TypeOK, InfoAll, ChainAll, [Next]_vars PROVE ChainAll'
    OBVIOUS
  <2>1. CASE HubStep \/ \E c \in Conns : CleanupStep(c) \/ Environment(c) \/ ConsoleFatal(c)
    <3>1. UNCHANGED chainVars
      BY <2>1 DEF HubStep, HubAdd, HubRemove, CleanupStep, Environment, ConsoleFatal,
         hubVars, goVars, peerVars, chainVars
    <3> QED BY <3>1, ChainStutter
  <2>2. CASE \E c \in Conns : \/ HandlerStep(c) \/ ForwarderStep(c) \/ Upgrade(c)
                              \/ ReceiveStdin(c) \/ ReceiveMalformed(c)
    BY <2>2, HandlerKeepsChain
  <2>3. CASE \E c \in Conns : PumpStep(c) \/ PumpFails(c) \/ PeerLeaves(c)
    BY <2>3, PumpKeepsChain
  <2>4. CASE \E c \in Conns, s \in Streams : ReaderStep(c, s) \/ ReadOutput(c, s)
    BY <2>4, ReaderKeepsChain
  <2>5. CASE UNCHANGED vars
    <3>1. UNCHANGED chainVars
      BY <2>5 DEF vars, hubVars, goVars, peerVars, chainVars
    <3> QED BY <3>1, ChainStutter
  <2> QED BY <2>1, <2>2, <2>3, <2>4, <2>5 DEF Next, PeerStep
<1> QED BY <1>1, <1>2, SessionTypeOK, SessionInfo, PTL DEF Spec

\* The page is shown the chunks of a stream one after the other, none twice and none
\* left out, whatever the capacity of the channel and whoever else sends on it.
THEOREM SessionOutputInOrder == Spec => OutputInOrder
<1>1. ChainAll =>
        [\A c \in Conns, s \in Streams :
            Shows(c) /\ cur[c].type = s => cur[c].seq = shown[c][s] + 1]_vars
  BY DEF ChainAll, ChainInv, Chain, Shows
<1> QED BY <1>1, SessionChain, PTL DEF OutputInOrder
=============================================================================
