-------------------------------- MODULE Hub --------------------------------
(***************************************************************************)
(* The connection hub of the web server: the goroutine web.run() of        *)
(* src/web/web_other.go, the map of registered connections it alone owns,  *)
(* and the buffered channel c.send of every connection, which the hub      *)
(* closes and the goroutines of the connection use.                        *)
(*                                                                         *)
(* register and unregister are unbuffered channels: a handler and the hub  *)
(* meet in Register(c) or Unregister(c), after which the handler goes on   *)
(* while the hub still has its case body (HubAdd, HubRemove) to execute.   *)
(* The third case of the select, the broadcast from messageCh, has no      *)
(* sender anywhere in the repository and is left out.                      *)
(*                                                                         *)
(* These actions describe the hub's variables only; Session conjoins them  *)
(* with the steps of the goroutines that take part in them.                *)
(***************************************************************************)
EXTENDS Parameters, Sequences

VARIABLES
    connections,    \* web.connections, the registered connections
    hub,            \* what the hub goroutine is doing: the select, or a case body
    send,           \* the messages buffered in c.send
    sendClosed      \* TRUE once c.send is closed

hubVars == <<connections, hub, send, sendClosed>>

(***************************************************************************)
(* A message is its type and, for output, a window of the reader's buffer: *)
(* the number seq of the chunk that was read and its length len.  The      *)
(* payload of an output message is the slice buff[:n], not a copy, so the  *)
(* bytes are looked up in the buffer when the message is encoded.          *)
(***************************************************************************)
Message ==
    [type : Notices \cup Streams,
     seq  : 0..MaxChunks,
     len  : 0..BuffLen]

Notice(t) == [type |-> t, seq |-> 0, len |-> 0]
Output(s, k, n) == [type |-> s, seq |-> k, len |-> n]

HubState == [op : {"select"}] \cup [op : {"add", "remove"}, conn : Conns]

HubTypeOK ==
    /\ connections \subseteq Conns
    /\ hub \in HubState
    /\ send \in [Conns -> Seq(Message)]
    /\ sendClosed \in [Conns -> BOOLEAN]

HubInit ==
    /\ connections = {}
    /\ hub = [op |-> "select"]
    /\ send = [c \in Conns |-> <<>>]
    /\ sendClosed = [c \in Conns |-> FALSE]

----------------------------------------------------------------------------
(* The hub goroutine. *)

\* case c := <-web.register
Register(c) ==
    /\ hub.op = "select"
    /\ hub' = [op |-> "add", conn |-> c]
    /\ UNCHANGED <<connections, send, sendClosed>>

\* web.connections[c] = true
HubAdd(c) ==
    /\ hub = [op |-> "add", conn |-> c]
    /\ connections' = connections \cup {c}
    /\ hub' = [op |-> "select"]
    /\ UNCHANGED <<send, sendClosed>>

\* case c := <-web.unregister
Unregister(c) ==
    /\ hub.op = "select"
    /\ hub' = [op |-> "remove", conn |-> c]
    /\ UNCHANGED <<connections, send, sendClosed>>

\* Mutant of HubRemove: the channel is closed and the entry is not deleted
HubRemoveKeeps(c) ==
    /\ hub = [op |-> "remove", conn |-> c]
    /\ sendClosed' = [sendClosed EXCEPT ![c] = @ \/ c \in connections]
    /\ hub' = [op |-> "select"]
    /\ UNCHANGED <<connections, send>>

\* delete(web.connections, c); close(c.send), for a registered connection.
\* Closing a closed channel would panic: the second conjunct says it is open,
\* ChannelDiscipline of Session that it always is.
HubRemove(c) ==
    /\ hub = [op |-> "remove", conn |-> c]
    /\ ~(c \in connections /\ sendClosed[c])
    /\ connections' = connections \ {c}
    /\ sendClosed' = [sendClosed EXCEPT ![c] = @ \/ c \in connections]
    /\ hub' = [op |-> "select"]
    /\ UNCHANGED send

----------------------------------------------------------------------------
(* The channel c.send, as its senders and its receiver use it. *)

\* c.send <- m.  The send blocks while the buffer is full.
Send(c, m) ==
    /\ ~sendClosed[c]
    /\ Len(send[c]) < SendCap
    /\ send' = [send EXCEPT ![c] = Append(@, m)]
    /\ UNCHANGED <<connections, hub, sendClosed>>

\* A send on a closed channel panics, and so does a send that was blocked
\* when the channel was closed.
SendPanics(c) == sendClosed[c]

\* msg, ok := <-c.send with ok = TRUE.  A closed channel is drained first.
Receive(c) ==
    /\ send[c] # <<>>
    /\ send' = [send EXCEPT ![c] = Tail(@)]
    /\ UNCHANGED <<connections, hub, sendClosed>>

\* msg, ok := <-c.send with ok = FALSE
Drained(c) == sendClosed[c] /\ send[c] = <<>>
=============================================================================
