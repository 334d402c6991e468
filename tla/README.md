# honey-sandbox: specifications, checks and proofs

honey-sandbox is a web server that gives every visitor of a page a gVisor
container of its own, with a shell in the browser and a feed of events from the
container's boot log.  This directory holds TLA+ modules that model the parts of
the program that carry its logic, TLC configurations that check them on small
instances, and TLAPS proofs that hold for instances of any size.  `PROJECT.json`
is the index: components, runs, mutants, the map from definitions to source
lines, findings, hazards and theorems.

Check a run with `tlc -config MCSession.cfg MCSession`, a proof with
`tlapm SessionProofs.tla`.

## 1. Inventory

| Component | Source | State | Operations | Modelled in |
|---|---|---|---|---|
| Web hub | `web/web_other.go` (`run`) | `connections`; the channels `register`, `unregister`, every `c.send` | add, remove and close | `Hub` |
| Web session | `web/web_other.go` (`ServeWS`), `web/connection.go` | handler, event forwarder, two output readers and `writePump` per connection; read buffers; the websocket | see below | `Session` |
| Sandbox life cycle | `server/gvisor/gvisor_linux.go` | container, namespace, `eventCh`, `close`, cleanup and tail goroutines | `Create`, `Start`, `Run`, `Stop` | `Sandbox` |
| Sandbox network | `gvisor_linux.go` (`setupNetwork`, veth), `netns_linux.go` | host links, bridge, namespace mounts | `NewNS`, `UnmountNS`, link moves | `Network` |
| unet sockets | `server/gvisor/unet/` | `fd`, `efd`, `gate` | Read, Write, Accept, options, Shutdown, Close, Release; `SocketPair`, `Connect`, `Bind`, `NewSocket`, descriptors in control messages | `Socket`, `Descriptors` |
| Usage gate | `vendor/.../netstack/gate/gate.go` | `userCount`, `done` | Enter, Leave, Close | `Gate`, `AbstractGate` |
| Server, command line | `main.go`, `cmd/`, `server/*.go`, `web.Start` | the signal channel, the context, a wait group | serve, `Run`, `Stop`, the signal | `Server` |
| Names of sandboxes | `gvisor_linux.go` (`nextSuffix`) | `rand2`, `randmu` | draw a name | `Names` |
| Other helpers | `gvisor_linux.go`, `unet_unsafe.go` | none | `resolveEnvs`, iovecs | not modelled: fixed inputs, memory layout |
| Container specification | `server/gvisor/spec.go` | none | a literal | not modelled: data |
| Event constructors, `conn.go`, `gvisor.go` | `server/gvisor/` | none | unused or commented out | not modelled |
| Build scripts | `scripts/gen-ldflags.go` | none | prints flags | not modelled |

**How they interact.**  A request for `/ws` runs `ServeWS` in a goroutine of
net/http.  It hands the connection to the hub over the unbuffered channel
`register`, creates and starts a sandbox, queues an info message in `c.send`,
runs a shell, starts the forwarder, the readers and `writePump`, and turns into
`readPump`, which copies what the page types to the shell's stdin.  Output and
events come back through `c.send`, a channel with room for 100 messages that
four goroutines send on, one receives from and a fifth, the hub, closes.  When
`readPump` ends the deferred calls unregister the connection, close the
websocket and meet the sandbox's cleanup goroutine on the unbuffered channel
`close`.  The shell's three sockets are unet socket pairs, each guarded by a
gate.  Around all this `serve` waits for a signal: it runs `Server.Run`, which
starts the hub and the listener and blocks until the context is cancelled, and
then `Server.Stop`, which waits for a wait group that counts `Run` and nothing
else, so the process ends with sessions open.

**What is hard.**

* Concurrency: the close of `c.send` races its senders; messages share the
  reader's buffer with later reads; the gate's compare-and-swap loops; users of
  a descriptor against `Close` and `Release`; handlers that draw names from one
  generator; a signal that comes before anybody waits for it.
* Limits: a session loses about eleven descriptors for good (the listener of its
  console, our ends of three socket pairs, their event descriptors), so the
  table does fill up, and then every call fails halfway at some step.
* Failure: `Create`, `Start`, `Run`, `Destroy` and `UnmountNS` may fail, and the
  code drops, logs, panics or exits in different ways.
* Ordering: the deferred calls; the info message before anything else.
* Time: a peer that vanishes silently; a shell that does not read; waiting for
  a peer in `poll` while a closer waits for the gate.

**What makes each part correct.**

* Hub: a channel is closed once and only after its connection is unregistered;
  the handler never sends on a closed channel.
* Session: output arrives unaltered and in order, after the info message; a
  session that ends takes only itself down; a browser that is gone is noticed.
* Sandbox: no container without somebody to clean it up; torn down last.
* unet and gate: a descriptor stays valid while it is used; it is closed or
  handed over once, when nobody uses it; waiting users are evicted; a constructor
  that fails leaves nothing open, and no number is closed that the kernel has
  given to somebody else since.
* Server: it ends when it is told to, and only then; the generator of names does not
  repeat itself.
* Network: sandboxes that are created at the same time do not take each other's
  link in the host namespace; a created sandbox stays connected until it is
  cleaned up, and a cleanup without error leaves nothing behind.

## 2. Modules

```
Parameters <- Hub -----+
           <- Sandbox -+-- Session <- MCSession
                 ^           |  ^-- SessionProofs <- OrderProofs, LifeProofs
                 +-----------+ INSTANCE (refinement)
                 +-- INSTANCE (refinement) -- Network <- MCNetwork
                                                 ^-- NetworkProofs
AbstractGate <- Socket <- MCSocket           Gate <- MCGate
      ^            ^-- SocketProofs            ^-- GateProofs
      +--------------- INSTANCE (refinement) --+
Descriptors <- MCDescriptors       Names <- Server <- MCServer
      ^-- DescriptorsProofs                   ^-- ServerProofs
```

**Parameters** declares the constants of a session and what is assumed of them:
capacities are at least one, and the streams are none of the notice types.

**Hub** has the hub goroutine (`Register`, `HubAdd`, `Unregister`, `HubRemove`)
and the operations of the channel `c.send`.  A meeting on an unbuffered channel
is one step; the case body that follows is another, because the handler is
already running again by then.  The broadcast case of the select has no sender
anywhere in the repository and is left out.

**Sandbox** has one sandbox per connection.  `Create` is given by its outcomes
(a failure may leave the namespace mounted); `Started`, `RunShell`, `Stop` and
the two steps of the cleanup goroutine follow the code, the ignored errors
included.  runsc, the guest's shell and the kernel's sockets are external.
`HangUp` deserves a word: the shell's ends of the socket pairs are closed by the
finalisers of `os.File` values, so our ends see a hang-up at some time after
`Execute` has returned, and nothing obliges that time to come.

**Session** composes both with the goroutines of a connection, each with a
program counter: `serve[c]` is the handler and, from "read" on, `readPump`;
`fwd[c]` the forwarder; `rd[c][s]` the readers; `wr[c]` the `writePump`.  `proc`
is the process: an unrecovered panic or `log.Fatalf` ends it and names the
reason.  A panic of the handler itself is recovered by net/http after the
deferred calls have run (`RunPanics`).  `buff[c][s]` is a reader's buffer: each
cell holds the number of the chunk it was last written with; a message carries a
chunk's number and length but the bytes are looked up when it is encoded, as in
the code, where the payload is a slice of the buffer.  Encoding races with the
next read, so `Show` lets every byte be any value its cell had since the message
was received.  The page appends what it gets; the model keeps of it, per stream,
the number of the last chunk (`shown`) and the bytes that came with it (`screen`).
The goroutine that accepts on a console outlives `Create` and its session, and an
error there ends the process (`ConsoleFatal`).

**Network** is the inside of `Create` and of the cleanup: `LinkAdd`, the seven
steps of `NewNS`, the move of the link, its configuration, the bridge, runsc;
then `Destroy`, `Unmount`, `RemoveFile`.  Any step may fail (`CreateFails`,
`UnmountFails`) and the server may die and be started again (`Crash`), which
leaves the kernel's state as it is.  The kernel is modelled by three facts: a
name is given to one link of a namespace at a time, a file that is mounted on
is not removed, and a namespace lives while it is mounted or has a process and
takes its veth pair along.  Names are distinct.  `Life` maps all this to the
variables of `Sandbox`, hiding the namespace until `Create` returns.  `Session`
and `Network` meet in `Sandbox.LifeSpec`: Network implements it, and Session
keeps to it (`ImplementsLife`), so what Network assumes of the order of its
calls is what the handler does.

**Gate** models the vendored gate load by load and swap by swap; **AbstractGate**
says what it promises; **Socket** is a unet socket on top of the abstract gate:
users in `enterFD`, the system call, `wait` and `Leave`, closers in the swap of
`fd`, `shutdown`, `finish` and `close`.

**Descriptors** is the table of descriptors with the goroutines that open
sockets in it: `SocketPair`, `Connect`, `BindAndListen` and `Accept` step by
step, with a failure at each step, `NewSocket` in their midst; then what callers
do with what they get, the code of `newSandbox` and `Run` among them.  The kernel
gives the lowest free number, so a number that is closed is soon somebody
else's; `owner` remembers for whom it was opened.  A descriptor that nobody can
close any more belongs to "lost".  `Others` is the rest of the process, which
fills and empties the table; `Finalize` closes the number of an `os.File` at any
time.  Three pairs in `Run` are three calls here; which end goes to the shell
makes no difference to the table.

**Names** is `nextSuffix`, line by line between `Lock` and `Unlock`, over a
generator with any modulus, multiplier and increment.  **Server** has the main
goroutine from `serve` to `Stop`, the goroutine that waits for a signal (both
calls of `signal.Notify` are steps, a signal before them kills), the listener,
and handlers that draw names and make sandboxes, coarsely; the process may die at
any time (`Fatal`), sessions or not, and is started again with the old sandboxes still there.  `count` and
`drawn` are history: which states the generator has been in since it was seeded.

Bytes, JSON, header contents, log wording and addresses are left out; what
remains of a message is its type and which bytes it points at.  Steps that
change nothing the model keeps (a ping that is written, an `EINTR` that is
retried, a message type `readPump` ignores) are stuttering steps.

## 3. Runs

The capacities are 100 messages and 1024 bytes in the code.  The runs use 1 or
2: the cases are empty, full and in between, and which of them a capacity of 2
reaches a larger one reaches too.  `MaxChunks`, `MaxLines` and `MaxReady` bound
what the guest or the peer produces.

| Run | Instance | Checks | Shows |
|---|---|---|---|
| session | 1 connection, 1 stream, 2 chunks, buffer of 2 cells, 1 log line, channel of 2; 1,089,000 states | `TypeOK`, `ChannelDiscipline`, `TeardownOrder`, `NoAbandonedSandbox`, `InfoFirst`, `OutputInOrder`, `OutputNotOlder`, `ImplementsLife`, `Reaped`, `PumpEnds` | handler, forwarder, reader, pump and hub on one channel, all failures, all exits; one message queued and one being encoded while the buffer is refilled, by chunks of different lengths; a browser that is gone leads to a cleaned-up sandbox, a closed channel ends its pump |
| gate | 3 users, 1 closer | `GateInv`, `NoPanic`, `ClosedMeansEmpty`, `ImplementsAbstractGate`, `CloseReturns` | three users: one inside, one entering, one leaving at the time of the Close; no lost wake-up |
| socket | 2 users, 2 closers, blocking and other calls; 453,000 states | `SocketInv`, `DescriptorsValid`, `QuietHandover`, `DisposedOnce`, `NoStandoff`, `Evicted`, `CloserReturns` | Close and Release race each other and two users; users that wait for a silent peer get out, and so do the closers |
| descriptors | 2 goroutines, 6 descriptors; 2,400,000 states | `DescInv`, `StillMine`, `PairRollsBack`, `OnlyOwnerCloses` | a pair needs 4 descriptors, so the table is full at each of its steps in some behaviour, with the other goroutine and the rest of the process taking what is freed; what is lost is lost until a restart |
| network_safety | 3 sandboxes; 57,000 states | `NetInv`, `OwnLinkMoved`, `HostLinkOwner`, `LeftLinkBlocks`, `Connected`, `CleanTeardown`, `ImplementsSandbox` | one sandbox being created, one failed or lost in a crash, one torn down, in all interleavings; a link that stays on the host stops every later Create |
| server | 2 handlers, a generator of 3 bits; 233,000 states | `ServerInv`, `DrawAtomic`, `UniqueDraws`, `SignalKept`, `SignalEnds`, `NameGiven` | signals before, between and after the two `Notify`, twice, and while handlers draw; every seed; the generator through its whole period and past its zero |

Connections share nothing but the hub and the process, so one connection is
enough for the properties of a single session; the interplay with others is
covered by the theorems, which hold for any set of connections and streams, and
by the run session_panic, which has two.  The streams of a session share
nothing but its channel, and the forwarder is already a second sender on it.  The calls the socket run leaves
out differ from the ones it has in what the kernel does, not in how they enter
and leave the gate; the theorems are about all of them.  The generator of the
code has 32 bits, multiplier 1664525 and increment 1013904223; the one of the
run has 3 bits and satisfies the same conditions for a full period, which the
assumption `FullPeriod` of MCServer states of both; `RankAssumption` has TLC
evaluate the hypothesis of the theorem on `UniqueDraws` for it.  Deadlock is not checked in
the session runs because the system may stop there: the guest and the bounds
are exhausted, the process has ended, or goroutines wait for ever (the
findings).

**Fairness.**  `FairSpec` assumes weak fairness of every goroutine (the Go
scheduler runs what stays runnable) and that calls into the runtime return.
Nothing is assumed of the peer, the guest, finalisers, or the choice between
success and failure, with one exception: a write to a websocket that is closed
fails.  The gate's liveness needs only weak fairness of those who leave and of
the closer once the gate is closed; before that its loops may lose every race,
which the property does not speak of.  The socket's needs weak fairness of
goroutines inside a call, and more: there the loop of `gate.Close` is one fair step
(`CloseGate`), which assumes that it wins its race in the end.  Gate does not
promise that, and its refinement carries safety only; `CloserReturns` and `Evicted`
are to be read with this proviso.  `ServerFairSpec` assumes weak fairness of the main
goroutine and of the one that waits for signals, and strong fairness of a
handler in `nextSuffix`: between two turns of a handler at the mutex others may
take it again and again, but `sync.Mutex` hands itself over to a waiter that has
starved for a millisecond.

Each property of a passing run has a mutant in `PROJECT.json`: a definition
named "Mutant of ..." in the module, that changes one step the way a slip in the
code would, and under which TLC finds the property violated.

### Findings

| Run | Property | What TLC shows |
|---|---|---|
| session_panic | `ShellKept` | The hub closes `c.send` while the forwarder or a reader still sends on it; the panic ends the process and with it another visitor's session. |
| session_alias | `OutputIntact` | A queued message holds a slice of the reader's only buffer; the next read overwrites it and the page shows the second chunk in place of the first. |
| session_unpumped | `MessagesPumped` | When `Create` fails the error is queued for a `writePump` that is never started; the connection stays open and registered. |
| session_start_failure | `StopCleansUp` | The error of `Start` is dropped; `Stop` then waits for a goroutine that was never started, and container and namespace stay. |
| descriptors_newsocket | `NewSocketOwns` | `NewSocket` "takes ownership of fd" and returns an error without closing it; `Connect`, `Bind` and `Accept`, which rely on that, leave it open (an accept in TLC's trace, with a number still free). `SocketPair` does not rely on it and closes its ends itself. |
| network_newns | `NewNSCleansUp` | `NewNS` fails in its last call, after the mount, and leaves mount and file, against its own comment. |

More observations have no text to disagree with and are stated in the
provisos of properties that hold.  `Reaped` excepts a `readPump` that is blocked
in `StdIn.Write`: it looks at no deadline, so a peer that is gone is not
noticed while the shell does not read.  `HostLinkOwner` says when a link eth0 is
left on the host, and `LeftLinkBlocks` that it stays for good and every later
`Create` fails in `LinkAdd`.  `Reaped` counts a cleanup as done when it has tried:
an error of `Destroy` or of the unmount is logged and what it left stays, which
`CleanTeardown` tells apart.
`IsExistLinkInNS` always returns false (its comment says otherwise); it has no
caller and is not modelled.  `EnableFDs(1)` makes room for two descriptors, not
for the three its comment in `newSandbox` names (gvisor_linux.go:250).  `StillMine`
holds for the numbers of which `Run` makes files only because `Run` never closes
its sockets: the mutant of that property is the version that does.

## 4. Proofs

All theorems hold for every value of the constants that satisfies the named
assumptions: `ParameterAssumption` (`Conns` is any set),
`NamesAssumption`, `DescriptorsAssumption` (owners are no tags), `GateAssumption`
(finitely many users, fewer than the bit `gateClosed`, without which the count
would carry into the bit) and `SocketAssumption`.  One theorem, on `UniqueDraws`,
has a hypothesis of its own.

**GateProofs.**  `GateInv` is inductive.  `NoPanic` and `ClosedMeansEmpty` are
not: that a swap is safe depends on what was checked when the word was loaded,
hence the conjuncts on `seen` and `cseen`; and the word must be tied to the
users inside by `Cardinality`, so that a swap which finds the word unchanged
knows how many are there.  Nothing in it says that the word is the *same* word:
it may have changed and changed back between load and swap, and the proof shows
that this does no harm.  `GateImplementsAbstract` then maps each successful
swap to a step of the abstract gate and everything else to a stutter.

**SocketProofs.**  `SocketInv` says that at most one closer is past the swap of
`fd` and that its program counter determines what is still open.  The two
descriptor properties and `DisposedOnce` follow.  `NoStandoff`, the safety half of
`Evicted` and `CloserReturns`, adds that a closer at the gate has left its signal
in the event descriptor and that nothing takes it out again: it is never read, so
one signal evicts them all.  The gate enters by its abstract specification, which
GateProofs justifies.

**SessionProofs.**  `SessionTypeOK` is proved goroutine by goroutine.
`SessionInv` strengthens `ChannelDiscipline`, `TeardownOrder` and
`NoAbandonedSandbox` by what connects them: which step of the hub may still be
pending for a connection at each stage of its handler.  The difficult case is a
handler that unregisters: `hub = [op |-> "remove", conn |-> c]` may outlive the
handler, so the invariant cannot say that a finished session is not registered,
only that it is not or is about to be removed.

**NetworkProofs.**  `NetInv` lists what has been made and is still there at each
step of `Create` and of the cleanup.  Its difficult part is shared between
sandboxes: the host has one `eth0` (so whoever holds it excludes the others,
even after its process is gone).  Hence `NewNS` runs in one sandbox at a time,
which is why the steps that prepare the directory of the namespaces need no lock.
`LeftLinkBlocks` follows: whoever holds a link it will not move keeps `LinkAdd` from
succeeding, and no step of the code deletes a link.  `NetworkImplementsSandbox`
follows by one step per action.

**OrderProofs.**  `InfoFirst` is not inductive: `InfoInv` adds that the channel
is empty until the handler's info message, that nobody takes from it before
`writePump` starts, and that until the page has seen something the info message
is at the head of the channel or in the pump's hand.  The lemma `SendHead` says
that a send never changes the head of a channel that is not empty.
`OutputInOrder`, an action property, says that the chunks of a stream are shown in
the order of the reads, each once and none left out.  It rests on `ChainInv`: while
the browser is there, the messages of a stream in the channel are exactly the
chunks from the last one shown or in the pump's hand up to the last one sent, in
order.  It is about messages; which bytes they show is the next property.
`OutputNotOlder`: a message shows its own chunk or something newer, so a read that
overtakes the pump can replace output but never bring back bytes older than the
message they come with.  (It can show newer bytes early: two chunks may reach the
page as 2, 1 and then 2 again, which is the finding session_alias.)  Its
invariant `ChunksKept` follows a chunk from the read into the buffer over the
channel into the pump's hand: the cells it covers are at no time older than it.
The read needs `OutputInv`: the number of the new chunk is larger than any in the
buffer, or overwriting cells would break the bound for what is still queued.

**LifeProofs.**  `SessionImplementsLife` needs `LifeInv`: what is there before
`Create`, before `Start`, and at each step of the cleanup.  `LifeSpec` asks that
`Create` finds nothing, that `Start` finds what `Create` has made, and that the
cleanup begins with a running container and unmounts a mounted namespace; so it
is not enough that the handler waits for its turn.  It does not say that every
`Stop` is answered: after a failed `Start` none is (session_start_failure).  With
`NetworkImplementsSandbox` the theorem ties Session to Network.

**ServerProofs.**  `ServerInv` relates the stage of the main goroutine to the
wait group, the context and the signal, and the mutex to whoever is between its
`Lock` and `Unlock`.  It must also say that the holder of the mutex is inside,
or a mutex held by nobody would satisfy `DrawAtomic`.  `SignalKept`, the safety half
of `SignalEnds`, says that a signal is in the channel, with the goroutine that
will receive it still on its way, until the context is cancelled; the buffer of
one is what makes it true of a signal that comes before the select.

`ServerUniqueDraws` is about the states of the generator; the names are these
reduced modulo 1e9, and two states may give one name.  It has no arithmetic in it.  Its hypothesis `PassesZero(rank)` is
a number for each state that grows by one at every step from a state other than
zero: the states drawn since the last seed then grow in rank, and what is drawn
next is above them all (`RankInv`).  A draw that finds zero seeds the generator
anew and forgets the rest, so coming round does no harm.  That the constants of
`nextSuffix` have such a rank is the theorem of Hull and Dobell on generators
modulo a power of two, which is not proved here; TLC evaluates the hypothesis for
the generator of the run.

**DescriptorsProofs.**  `DescInv` says of each call that its variables hold
exactly the descriptors opened for it, different numbers in each, at each step
(`Stage`).  `StillMine` alone is not inductive: closing one variable could free
the number of another if two were the same.  One lemma each covers a step that
moves on, opens, closes, or gives away what it has.  `PairRollsBack` takes it that
`Close` succeeds on a socket that was just made; the `Close` that fails in `finish`
and keeps `fd` open is in Socket (`FinishFails`).  `OnlyOwnerCloses` looks at the
steps in place of the states: whatever step changes the owner of a descriptor is a
step of that owner.  It rests on `StillMine`, without which a goroutine that closes
its variable could close another's number, and it implies that a lost descriptor
stays open until the process ends.

Out of the prover's reach and left to TLC: the liveness properties `Reaped`,
`PumpEnds`, `CloseReturns`, `Evicted`, `CloserReturns`, `SignalEnds` and `NameGiven`,
which need fairness, and the theory behind `PassesZero`.  Of the liveness
properties of gate, socket and server the part that is safety is proved: the waiting closer
finds the channel closed as soon as nobody is inside (`GateInv`), nobody waits
for the peer without a signal to evict him (`NoStandoff`), no signal is lost
(`SignalKept`).

## 5. Plan

Done: the session with hub and sandbox, the network, the gate and the sockets,
the constructors of unet, the server, the names, the two refinements into
`Sandbox.LifeSpec`, and the proofs of all safety properties of the passing runs.

Worth adding when the code changes: a copy of the buffer in the output readers
and an end of the forwarder (the runs session_alias and session_panic would
then be expected to pass), and `resolveEnvs` once its lists are not fixed.

## 6. Not modelled

The JSON specification of the container (data: almost half of the lines of the
repository's own code), the unused event constructors, build scripts, static
file serving, logging, the vendored libraries except the gate, and everything
inside runsc.  `ServeConsoleWS` is not routed by `Start`.  The console socket of
`newSandbox` is listened on but not passed to `container.Create`; Descriptors
has what it does to the table.  `resolveEnvs` has one caller, with lists fixed in
the source; `buildIovec` lays out memory for a system call; `PackFDs` and
`UnpackFDs` prepare a message that only tests send.  `gvisor.New`, `server.New` and
`web.New` get no options and cannot fail.  Packets are not modelled, so neither
is the address all sandboxes share.
