------------------------------ MODULE Network ------------------------------
(***************************************************************************)
(* Create, and the cleanup of Start, as they meet the kernel: setupNetwork *)
(* and newSandbox of src/server/gvisor/gvisor_linux.go, NewNS and          *)
(* UnmountNS of netns_linux.go.  Several sandboxes are created and torn    *)
(* down at the same time, every step may fail, and the process may die and *)
(* be started again.                                                       *)
(*                                                                         *)
(* A sandbox n has a veth pair.  One end, the link eth0, is created in the *)
(* host's namespace, where there is room for one link of that name only,   *)
(* and is then moved to the namespace of the sandbox; the other end,       *)
(* LINK_n, stays on the host and is attached to the bridge.  The kernel    *)
(* keeps a namespace while it is mounted or a process lives in it, and     *)
(* destroys it with its end of the pair, hence with both ends.             *)
(*                                                                         *)
(* Netlink, mount, the file system and runsc are external.  Left out: the  *)
(* resolv.conf and console socket files, which nothing reads or removes,   *)
(* and a host that has a link eth0 of its own, where no Create succeeds.   *)
(***************************************************************************)

CONSTANT Names  \* the names nextSuffix gives to sandboxes

VARIABLES
    pc,         \* where Create of the sandbox is, or how it ended
    runDir,     \* /var/run/netns: a directory, a mount point, a shared one
    eth,        \* the sandbox's end of the pair: where it is, and set up or not
    link,       \* the host's end LINK_n: there, or on the bridge and up
    file,       \* the namespaces whose file exists in runDir
    mounted,    \* the namespaces mounted on their file
    container,  \* the runsc container, as in Sandbox
    alive,      \* the containers that have a process
    cleanup,    \* the goroutine of Start that cleans up
    dead        \* the sandboxes whose server process is gone

netVars == <<pc, runDir, eth, link, file, mounted, container, alive, cleanup, dead>>

\* The steps of Create, in their order
NewNSSteps == {"mkdir", "share", "bind", "reshare", "file", "mount", "getns"}
Holding == NewNSSteps \cup {"move"}
Creating == Holding \cup {"link", "config", "master", "runsc"}

NetTypeOK ==
    /\ pc \in [Names -> Creating \cup {"idle", "created", "failed", "nsfailed"}]
    /\ runDir \in {"plain", "bound", "shared"}
    /\ eth \in [Names -> {"none", "host", "ns", "up"}]
    /\ link \in [Names -> {"none", "host", "bridged"}]
    /\ file \subseteq Names
    /\ mounted \subseteq Names
    /\ container \in [Names -> {"none", "created", "running", "destroyed", "left"}]
    /\ alive \subseteq Names
    /\ cleanup \in [Names -> {"off", "wait", "destroy", "unmount", "remove", "done",
                            "failed"}]
    /\ dead \subseteq Names

NetInit ==
    /\ pc = [n \in Names |-> "idle"]
    /\ runDir \in {"plain", "shared"}
    /\ eth = [n \in Names |-> "none"]
    /\ link = [n \in Names |-> "none"]
    /\ file = {}
    /\ mounted = {}
    /\ container = [n \in Names |-> "none"]
    /\ alive = {}
    /\ cleanup = [n \in Names |-> "off"]
    /\ dead = {}

\* Create of n goes from one step to the next
Goto(n, from, to) == pc[n] = from /\ pc' = [pc EXCEPT ![n] = to]

lifeVars == <<container, alive, cleanup, dead>>

----------------------------------------------------------------------------
(* setupNetwork, up to the call of NewNS *)

CallCreate(n) ==
    /\ Goto(n, "idle", "link")
    /\ UNCHANGED <<runDir, eth, link, file, mounted, lifeVars>>

\* Mutant of LinkAdd: an error because the name is taken is ignored
LinkAddAnyway(n) ==
    /\ Goto(n, "link", "mkdir")
    /\ IF \E m \in Names : eth[m] = "host"
       THEN UNCHANGED <<eth, link>>
       ELSE /\ eth' = [eth EXCEPT ![n] = "host"]
            /\ link' = [link EXCEPT ![n] = "host"]
    /\ UNCHANGED <<runDir, file, mounted, lifeVars>>

\* netlink.LinkAdd(veth): a link named eth0 may not exist on the host
LinkAdd(n) ==
    /\ Goto(n, "link", "mkdir")
    /\ \A m \in Names : eth[m] # "host"
    /\ eth' = [eth EXCEPT ![n] = "host"]
    /\ link' = [link EXCEPT ![n] = "host"]
    /\ UNCHANGED <<runDir, file, mounted, lifeVars>>

----------------------------------------------------------------------------
(* NewNS *)

\* os.MkdirAll(nsRunDir, 0755)
MakeRunDir(n) ==
    /\ Goto(n, "mkdir", "share")
    /\ UNCHANGED <<runDir, eth, link, file, mounted, lifeVars>>

\* Mount with MS_SHARED: EINVAL if the directory is not a mount point
MakeShared(n) ==
    /\ IF runDir = "plain"
       THEN Goto(n, "share", "bind") /\ UNCHANGED runDir
       ELSE Goto(n, "share", "file") /\ runDir' = "shared"
    /\ UNCHANGED <<eth, link, file, mounted, lifeVars>>

\* Mount with MS_BIND of the directory on itself.  Nobody has done so since the first
\* attempt: NewNS runs between LinkAdd and LinkSetNsFd, hence one at a time.
BindRunDir(n) ==
    /\ Goto(n, "bind", "reshare")
    /\ runDir' = "bound"
    /\ UNCHANGED <<eth, link, file, mounted, lifeVars>>

\* ... and Mount with MS_SHARED again
MakeSharedAgain(n) ==
    /\ Goto(n, "reshare", "file")
    /\ runDir' = "shared"
    /\ UNCHANGED <<eth, link, file, mounted, lifeVars>>

\* os.Create(nsPath)
CreateFile(n) ==
    /\ Goto(n, "file", "mount")
    /\ file' = file \cup {n}
    /\ UNCHANGED <<runDir, eth, link, mounted, lifeVars>>

\* The goroutine on a thread of its own: GetNS, Unshare, and Mount of the
\* thread's namespace on nsPath
MountNS(n) ==
    /\ Goto(n, "mount", "getns")
    /\ mounted' = mounted \cup {n}
    /\ UNCHANGED <<runDir, eth, link, file, lifeVars>>

\* ns.GetNS(nsPath); the deferred RemoveAll does nothing to a mount point
OpenNS(n) ==
    /\ Goto(n, "getns", "move")
    /\ UNCHANGED <<runDir, eth, link, file, mounted, lifeVars>>

----------------------------------------------------------------------------
(* The rest of setupNetwork, and of newSandbox *)

\* Mutant of MoveLink: an error is ignored
MoveLinkAnyway(n) ==
    /\ Goto(n, "move", "config")
    /\ \E e \in {"host", "ns"} : eth' = [eth EXCEPT ![n] = e]
    /\ UNCHANGED <<runDir, link, file, mounted, lifeVars>>

\* netlink.LinkSetNsFd(veth, vethNs.Fd())
MoveLink(n) ==
    /\ Goto(n, "move", "config")
    /\ eth' = [eth EXCEPT ![n] = "ns"]
    /\ UNCHANGED <<runDir, link, file, mounted, lifeVars>>

\* vethNs.Do: eth0 up, address, gateway route, lo up
Configure(n) ==
    /\ Goto(n, "config", "master")
    /\ eth' = [eth EXCEPT ![n] = "up"]
    /\ UNCHANGED <<runDir, link, file, mounted, lifeVars>>

\* Mutant of Attach: an error of LinkSetMaster is ignored
AttachAnyway(n) ==
    /\ Goto(n, "master", "runsc")
    /\ \E l \in {"host", "bridged"} : link' = [link EXCEPT ![n] = l]
    /\ UNCHANGED <<runDir, eth, file, mounted, lifeVars>>

\* LinkSetMaster and LinkSetUp of LINK_n, resolv.conf; then in newSandbox the
\* console socket, on which nobody will connect.  One of these failing after
\* LinkSetMaster leaves what a failure of the next step leaves.
Attach(n) ==
    /\ Goto(n, "master", "runsc")
    /\ link' = [link EXCEPT ![n] = "bridged"]
    /\ UNCHANGED <<runDir, eth, file, mounted, lifeVars>>

\* container.Create: a sandbox process in the namespace
CreateContainer(n) ==
    /\ Goto(n, "runsc", "created")
    /\ container' = [container EXCEPT ![n] = "created"]
    /\ alive' = alive \cup {n}
    /\ UNCHANGED <<runDir, eth, link, file, mounted, cleanup, dead>>

\* A step fails and Create returns the error.  Nothing is undone but for the
\* deferred RemoveAll of NewNS, which removes the file if it is not mounted.
CreateFails(n) ==
    /\ pc[n] \in Creating
    /\ pc' = [pc EXCEPT ![n] = IF @ \in NewNSSteps THEN "nsfailed" ELSE "failed"]
    /\ file' = IF pc[n] = "mount" THEN file \ {n} ELSE file
    /\ UNCHANGED <<runDir, eth, link, mounted, lifeVars>>

----------------------------------------------------------------------------
(* Start, Stop and the cleanup goroutine *)

Start(n) ==
    /\ container[n] = "created"
    /\ container' = [container EXCEPT ![n] = "running"]
    /\ cleanup' = [cleanup EXCEPT ![n] = "wait"]
    /\ UNCHANGED <<pc, runDir, eth, link, file, mounted, alive, dead>>

Stop(n) ==
    /\ cleanup[n] = "wait"
    /\ cleanup' = [cleanup EXCEPT ![n] = "destroy"]
    /\ UNCHANGED <<pc, runDir, eth, link, file, mounted, container, alive, dead>>

\* s.c.Destroy(), or its error is logged
Destroy(n) ==
    /\ cleanup[n] = "destroy"
    /\ cleanup' = [cleanup EXCEPT ![n] = "unmount"]
    /\ \/ /\ container' = [container EXCEPT ![n] = "destroyed"]
          /\ alive' = alive \ {n}
       \/ /\ container' = [container EXCEPT ![n] = "left"]
          /\ UNCHANGED alive
    /\ UNCHANGED <<pc, runDir, eth, link, file, mounted, dead>>

\* The kernel destroys a namespace without mount and process (external)
Reclaim(n) ==
    /\ eth' = [eth EXCEPT ![n] = "none"]
    /\ link' = [link EXCEPT ![n] = "none"]

\* UnmountNS: unix.Unmount(nsPath, 0) ...
Unmount(n) ==
    /\ cleanup[n] = "unmount"
    /\ cleanup' = [cleanup EXCEPT ![n] = "remove"]
    /\ mounted' = mounted \ {n}
    /\ IF n \in alive THEN UNCHANGED <<eth, link>> ELSE Reclaim(n)
    /\ UNCHANGED <<pc, runDir, file, container, alive, dead>>

\* Mutant of RemoveFile: the file is forgotten
RemoveFileNot(n) ==
    /\ cleanup[n] = "remove"
    /\ cleanup' = [cleanup EXCEPT ![n] = "done"]
    /\ UNCHANGED <<pc, runDir, eth, link, file, mounted, container, alive, dead>>

\* ... and os.Remove(nsPath)
RemoveFile(n) ==
    /\ cleanup[n] = "remove"
    /\ cleanup' = [cleanup EXCEPT ![n] = "done"]
    /\ file' = file \ {n}
    /\ UNCHANGED <<pc, runDir, eth, link, mounted, container, alive, dead>>

\* Mutant of UnmountFails: a failed unmount is taken for one that is to be
\* tried again with the container's removal
UnmountFailsLazily(n) ==
    /\ cleanup[n] \in {"unmount", "remove"}
    /\ cleanup' = [cleanup EXCEPT ![n] = "destroy"]
    /\ UNCHANGED <<pc, runDir, eth, link, file, mounted, container, alive, dead>>

\* One of the two fails: the error is logged, and that is all
UnmountFails(n) ==
    /\ cleanup[n] \in {"unmount", "remove"}
    /\ cleanup' = [cleanup EXCEPT ![n] = "failed"]
    /\ UNCHANGED <<pc, runDir, eth, link, file, mounted, container, alive, dead>>

----------------------------------------------------------------------------
(* What happens to the server and its containers *)

\* The container's process ends (external)
ContainerDies(n) ==
    /\ n \in alive
    /\ alive' = alive \ {n}
    /\ IF n \in mounted THEN UNCHANGED <<eth, link>> ELSE Reclaim(n)
    /\ UNCHANGED <<pc, runDir, file, mounted, container, cleanup, dead>>

\* The server process ends, by log.Fatalf (getwdOrDie among others), a panic or
\* a signal, and is started again.  What it had done stays in the kernel.
Crash ==
    /\ dead' = {n \in Names : pc[n] # "idle"}
    /\ UNCHANGED <<pc, runDir, eth, link, file, mounted, container, alive, cleanup>>

----------------------------------------------------------------------------
(* The specification *)

CreateStep(n) ==
    \/ CallCreate(n) \/ LinkAdd(n)
    \/ MakeRunDir(n) \/ MakeShared(n) \/ BindRunDir(n) \/ MakeSharedAgain(n)
    \/ CreateFile(n) \/ MountNS(n) \/ OpenNS(n)
    \/ MoveLink(n) \/ Configure(n) \/ Attach(n) \/ CreateContainer(n)
    \/ CreateFails(n)

CleanupStep(n) ==
    \/ Start(n) \/ Stop(n)
    \/ Destroy(n) \/ Unmount(n) \/ RemoveFile(n) \/ UnmountFails(n)

NetNext ==
    \/ \E n \in Names \ dead : CreateStep(n) \/ CleanupStep(n)
    \/ \E n \in Names : ContainerDies(n)
    \/ Crash

NetSpec == NetInit /\ [][NetNext]_netVars

----------------------------------------------------------------------------
(* Properties *)

\* The name eth0 works as a lock: whoever is between LinkAdd and LinkSetNsFd
\* has the host's only link of that name, so that the link it moves by name is
\* its own, whatever else is being created or torn down.
OwnLinkMoved ==
    \A n \in Names :
        pc[n] \in Holding =>
            eth[n] = "host" /\ \A m \in Names : eth[m] = "host" => m = n

\* The lock is lost only one way: a link stays on the host, where it blocks
\* every later Create, only if NewNS or the move failed or the process died in
\* between; not by a failure in the namespace, of runsc or of the cleanup.
HostLinkOwner ==
    \A n \in Names :
        eth[n] = "host" =>
            \/ pc[n] \in Holding
            \/ pc[n] = "nsfailed"
            \/ pc[n] = "failed" /\ link[n] = "host" /\ n \in mounted

\* A link left on the host without a Create to move it
Stuck == \E n \in Names : eth[n] = "host" /\ (pc[n] \notin Holding \/ n \in dead)

\* One failure of NewNS or of the move, or one crash between LinkAdd and LinkSetNsFd,
\* is the end of it: nothing in this code removes the link, a restarted server
\* included, and from then on every Create fails at LinkAdd (gvisor_linux.go:383-396).
LeftLinkBlocks ==
    [][Stuck =>
          /\ Stuck'
          /\ \A n \in Names :
                pc[n] \in {"idle", "link"} => pc'[n] \in {"idle", "link", "failed"}]_netVars

\* A sandbox that Create returned is connected and stays so until its cleanup
\* unmounts the namespace: a namespace with an address, its peer on the bridge.
Connected ==
    \A n \in Names :
        pc[n] = "created" /\ cleanup[n] \in {"off", "wait", "destroy", "unmount"} =>
            n \in mounted /\ eth[n] = "up" /\ link[n] = "bridged"

\* A cleanup that met no error leaves neither mount nor file, and no link once
\* the container has no process.
CleanTeardown ==
    \A n \in Names :
        cleanup[n] = "done" =>
            /\ n \notin mounted \cup file
            /\ n \notin alive => eth[n] = "none" /\ link[n] = "none"

\* The inductive invariant behind them: what has been made, and is still there,
\* at each step of Create and of the cleanup.
NetInv ==
    /\ NetTypeOK
    /\ \A n, m \in Names : eth[n] = "host" /\ eth[m] = "host" => n = m
    /\ mounted # {} => runDir = "shared"
    /\ mounted \subseteq file
    /\ \A n \in Names :
          /\ eth[n] = "none" <=> link[n] = "none"
          /\ pc[n] \in {"idle", "link"} => eth[n] = "none" /\ n \notin file
          /\ pc[n] \in Holding => eth[n] = "host" /\ link[n] = "host"
          /\ pc[n] \in {"mkdir", "share", "bind", "reshare", "file"} => n \notin file
          /\ pc[n] \in {"file", "mount", "getns"} => runDir = "shared"
          /\ pc[n] = "bind" => runDir = "plain"
          /\ pc[n] = "reshare" => runDir = "bound"
          /\ pc[n] = "mount" => n \in file \ mounted
          /\ pc[n] \in {"getns", "move", "config", "master", "runsc"} => n \in mounted
          /\ pc[n] = "config" => eth[n] = "ns"
          /\ pc[n] \in {"master", "runsc"} => eth[n] = "up"
          /\ pc[n] = "runsc" => link[n] = "bridged"
          /\ pc[n] # "created" => n \notin alive /\ container[n] = "none"
          /\ pc[n] = "created" => eth[n] # "host" /\ container[n] # "none"
          /\ container[n] \in {"none", "created"} => cleanup[n] = "off"
          /\ cleanup[n] \in {"wait", "destroy"} => container[n] = "running"
          /\ cleanup[n] = "unmount" => container[n] \in {"destroyed", "left"}
          /\ eth[n] = "host" /\ pc[n] \notin Holding \cup {"nsfailed"} =>
                pc[n] = "failed" /\ link[n] = "host" /\ n \in mounted
    /\ Connected
    /\ CleanTeardown
    /\ \A n \in Names : cleanup[n] = "remove" =>
          n \notin mounted /\ (n \notin alive => eth[n] = "none")

----------------------------------------------------------------------------
(* What Session sees of this: the outcomes of Create and of the cleanup. *)

Netns ==
    [n \in Names |->
        IF pc[n] \in Creating \cup {"idle"} THEN "none"
        ELSE IF n \in mounted THEN "mounted"
        ELSE IF container[n] = "none" THEN "none" ELSE "unmounted"]

Cleanup ==
    [n \in Names |-> IF cleanup[n] \in {"remove", "failed"} THEN "done" ELSE cleanup[n]]

Life == INSTANCE Sandbox WITH
    Conns <- Names, Streams <- {}, SendCap <- 1, BuffLen <- 1, StdinCap <- 1,
    MaxChunks <- 0, MaxLines <- 0,
    netns <- Netns,
    cleanup <- Cleanup,
    tailing <- [n \in Names |-> FALSE],
    logged <- [n \in Names |-> 0],
    tailed <- [n \in Names |-> 0],
    shell <- [n \in Names |-> "off"],
    stdin <- [n \in Names |-> 0]

\* The network code, with its failures and crashes, does for a sandbox what the
\* coarser module Sandbox, and so Session, takes Create, Start and the cleanup
\* to do.
ImplementsSandbox == Life!LifeSpec

----------------------------------------------------------------------------
(* What a comment says and the code does not do. *)

\* netns_linux.go:74: the mount point is cleaned up on errors of NewNS.
NewNSCleansUp == \A n \in Names : pc[n] = "nsfailed" => n \notin file \cup mounted
=============================================================================
