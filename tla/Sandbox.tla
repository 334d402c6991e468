------------------------------ MODULE Sandbox ------------------------------
(***************************************************************************)
(* The life of a gVisor sandbox, src/server/gvisor/gvisor_linux.go: one    *)
(* sandbox per connection, created, started, entered with a shell and      *)
(* cleaned up by a goroutine that waits for Stop().                        *)
(*                                                                         *)
(* The container runtime (runsc), the shell that runs in the container and *)
(* the kernel's sockets are external: they are modelled by the outcomes    *)
(* the code in src/ distinguishes.  A chunk is what one read of an output  *)
(* socket returns.                                                         *)
(***************************************************************************)
EXTENDS Parameters

VARIABLES
    container,  \* the runsc container
    netns,      \* the network namespace mounted for it
    cleanup,    \* the goroutine of Start() that cleans up
    tailing,    \* TRUE once Start() found the .boot log and follows it
    logged,     \* boot log lines with exec written so far
    tailed,     \* of these, the ones handed over on eventCh
    shell,      \* the bash that Run() executes, and our ends of its sockets
    stdin       \* writes waiting in the stdin socket

sandboxVars ==
    <<container, netns, cleanup, tailing, logged, tailed, shell, stdin>>

SandboxTypeOK ==
    /\ container \in [Conns -> {"none", "created", "running", "destroyed", "left"}]
    /\ netns \in [Conns -> {"none", "mounted", "unmounted"}]
    /\ cleanup \in [Conns -> {"off", "wait", "destroy", "unmount", "done"}]
    /\ tailing \in [Conns -> BOOLEAN]
    /\ logged \in [Conns -> 0..MaxLines]
    /\ tailed \in [Conns -> 0..MaxLines]
    /\ shell \in [Conns -> 
                 {"off", "starting", "running", "failed", "ended", "hungup"}]
    /\ stdin \in [Conns -> 0..StdinCap]

SandboxInit ==
    /\ container = [c \in Conns |-> "none"]
    /\ netns = [c \in Conns |-> "none"]
    /\ cleanup = [c \in Conns |-> "off"]
    /\ tailing = [c \in Conns |-> FALSE]
    /\ logged = [c \in Conns |-> 0]
    /\ tailed = [c \in Conns |-> 0]
    /\ shell = [c \in Conns |-> "off"]
    /\ stdin = [c \in Conns |-> 0]

----------------------------------------------------------------------------
(* Create, Start and Run, as their caller sees them. *)

\* gvisorManager.Create succeeds: network set up, container created
Created(c) ==
    /\ container' = [container EXCEPT ![c] = "created"]
    /\ netns' = [netns EXCEPT ![c] = "mounted"]
    /\ UNCHANGED <<cleanup, tailing, logged, tailed, shell, stdin>>

\* Create fails.  Nothing is undone: when the failing step comes after NewNS
\* the namespace stays mounted.
CreateFails(c) ==
    /\ \E left \in {"none", "mounted"} : netns' = [netns EXCEPT ![c] = left]
    /\ UNCHANGED <<container, cleanup, tailing, logged, tailed, shell, stdin>>

\* Sandbox.Start succeeds: the container runs, the .boot log is followed if
\* the walk of the log directory finds it, and the cleanup goroutine waits.
Started(c) ==
    /\ container' = [container EXCEPT ![c] = "running"]
    /\ \E found \in BOOLEAN : tailing' = [tailing EXCEPT ![c] = found]
    /\ cleanup' = [cleanup EXCEPT ![c] = "wait"]
    /\ UNCHANGED <<netns, logged, tailed, shell, stdin>>

\* Sandbox.Start returns early on an error of container.Start
StartFails(c) == UNCHANGED sandboxVars

\* Sandbox.Run: the sockets are made and a goroutine executes /bin/bash
RunShell(c) ==
    /\ shell' = [shell EXCEPT ![c] = "starting"]
    /\ UNCHANGED <<container, netns, cleanup, tailing, logged, tailed, stdin>>

\* Sandbox.Stop: c.close <- struct{}{} meets the cleanup goroutine
Stop(c) ==
    /\ cleanup[c] = "wait"
    /\ cleanup' = [cleanup EXCEPT ![c] = "destroy"]
    /\ UNCHANGED <<container, netns, tailing, logged, tailed, shell, stdin>>

----------------------------------------------------------------------------
(* The cleanup goroutine. *)

\* s.c.Destroy(): it kills the shell; an error is logged and ignored
Destroy(c) ==
    /\ cleanup[c] = "destroy"
    /\ cleanup' = [cleanup EXCEPT ![c] = "unmount"]
    /\ \/ /\ container' = [container EXCEPT ![c] = "destroyed"]
          /\ shell' = [shell EXCEPT ![c] = IF @ = "running" THEN "ended" ELSE @]
       \/ /\ container' = [container EXCEPT ![c] = "left"]
          /\ UNCHANGED shell
    /\ UNCHANGED <<netns, tailing, logged, tailed, stdin>>

\* UnmountNS(s.ns): an error is logged and ignored
Unmount(c) ==
    /\ cleanup[c] = "unmount"
    /\ cleanup' = [cleanup EXCEPT ![c] = "done"]
    /\ \E n \in {"unmounted", "mounted"} : netns' = [netns EXCEPT ![c] = n]
    /\ UNCHANGED <<container, tailing, logged, tailed, shell, stdin>>

----------------------------------------------------------------------------
(* The tail goroutine of Start() and the socket ends of Run(). *)

\* for line := range t.Lines ... s.eventCh <- Event{...}: eventCh is
\* unbuffered, the line is handed to whoever receives from Events()
HandEvent(c) ==
    /\ tailing[c]
    /\ tailed[c] < logged[c]
    /\ tailed' = [tailed EXCEPT ![c] = @ + 1]
    /\ UNCHANGED <<container, netns, cleanup, tailing, logged, shell, stdin>>

\* ctrl.StdIn.Write returns: the bytes fit into the socket, or the reading
\* end is closed and the error is ignored.  Until then Write blocks.
StdinAccepts(c) == shell[c] = "hungup" \/ stdin[c] < StdinCap

WriteStdin(c) ==
    /\ StdinAccepts(c)
    /\ stdin' = [stdin EXCEPT ![c] = IF shell[c] = "hungup" THEN @ ELSE @ + 1]
    /\ UNCHANGED <<container, netns, cleanup, tailing, logged, tailed, shell>>

\* ctrl.StdOut.Read and ctrl.StdErr.Read return bytes while the shell runs,
\* and what it wrote before it ended; they return io.EOF after the hang-up.
HasOutput(c) == shell[c] \in {"running", "ended"}
AtEOF(c) == shell[c] = "hungup"

----------------------------------------------------------------------------
(* The guest and the runtime (external). *)

\* The sentry logs a line that mentions exec
LogLine(c) ==
    /\ container[c] = "running"
    /\ logged[c] < MaxLines
    /\ logged' = [logged EXCEPT ![c] = @ + 1]
    /\ UNCHANGED <<container, netns, cleanup, tailing, tailed, shell, stdin>>

\* cont.Execute starts bash, which needs a running container, or it fails
ShellStarts(c) ==
    /\ shell[c] = "starting"
    /\ container[c] = "running"
    /\ shell' = [shell EXCEPT ![c] = "running"]
    /\ UNCHANGED <<container, netns, cleanup, tailing, logged, tailed, stdin>>

ExecuteFails(c) ==
    /\ shell[c] = "starting"
    /\ shell' = [shell EXCEPT ![c] = "failed"]
    /\ UNCHANGED <<container, netns, cleanup, tailing, logged, tailed, stdin>>

ShellReads(c) ==
    /\ shell[c] = "running"
    /\ stdin[c] > 0
    /\ stdin' = [stdin EXCEPT ![c] = @ - 1]
    /\ UNCHANGED <<container, netns, cleanup, tailing, logged, tailed, shell>>

ShellExits(c) ==
    /\ shell[c] = "running"
    /\ shell' = [shell EXCEPT ![c] = "ended"]
    /\ UNCHANGED <<container, netns, cleanup, tailing, logged, tailed, stdin>>

\* Execute has returned and the garbage collector finalises the os.Files that
\* wrap the shell's ends of the socket pairs: only now do our ends see a close
HangUp(c) ==
    /\ shell[c] \in {"failed", "ended"}
    /\ shell' = [shell EXCEPT ![c] = "hungup"]
    /\ UNCHANGED <<container, netns, cleanup, tailing, logged, tailed, stdin>>

----------------------------------------------------------------------------
(* Container and namespace alone, each operation on what it is meant for. *)

LifeStep(c) ==
    \/ /\ container[c] = "none"
       /\ netns[c] = "none"
       /\ Created(c) \/ CreateFails(c)
    \/ /\ netns[c] = "mounted"
       /\ \/ container[c] = "created" /\ Started(c)
          \/ container[c] = "running" /\ (Stop(c) \/ Destroy(c))
          \/ container[c] \in {"destroyed", "left"} /\ Unmount(c)

LifeSpec == SandboxInit /\ [][\E c \in Conns : LifeStep(c)]_sandboxVars
=============================================================================
