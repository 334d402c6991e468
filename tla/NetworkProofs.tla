--------------------------- MODULE NetworkProofs ---------------------------
(***************************************************************************)
(* Proofs about Network, for any set of sandboxes.                         *)
(***************************************************************************)
EXTENDS Network, TLAPS

\* A step of Create keeps the invariant.
LEMMA CreateKeepsInv ==
    ASSUME NetInv, NEW n \in Names \ dead, CreateStep(n)
    PROVE  NetInv'
<1> USE DEF NetInv, NetTypeOK, Creating, Holding, NewNSSteps, Goto, lifeVars,
            Connected, CleanTeardown
<1>1. CASE CallCreate(n) BY <1>1 DEF CallCreate
<1>2. CASE LinkAdd(n) BY <1>2 DEF LinkAdd
<1>3. CASE MakeRunDir(n) BY <1>3 DEF MakeRunDir
<1>4. CASE MakeShared(n) BY <1>4 DEF MakeShared
<1>5. CASE BindRunDir(n) BY <1>5 DEF BindRunDir
<1>6. CASE MakeSharedAgain(n) BY <1>6 DEF MakeSharedAgain
<1>7. CASE CreateFile(n) BY <1>7 DEF CreateFile
<1>8. CASE MountNS(n) BY <1>8 DEF MountNS
<1>9. CASE OpenNS(n) BY <1>9 DEF OpenNS
<1>10. CASE MoveLink(n) BY <1>10 DEF MoveLink
<1>11. CASE Configure(n) BY <1>11 DEF Configure
<1>12. CASE Attach(n) BY <1>12 DEF Attach
<1>13. CASE CreateContainer(n) BY <1>13 DEF CreateContainer
<1>14. CASE CreateFails(n) BY <1>14 DEF CreateFails
<1> QED
  BY <1>1, <1>2, <1>3, <1>4, <1>5, <1>6, <1>7, <1>8, <1>9, <1>10, <1>11, <1>12,
     <1>13, <1>14 DEF CreateStep

\* So does a step of Start, Stop or the cleanup, and the end of a container.
LEMMA CleanupKeepsInv ==
    ASSUME NetInv, NEW n \in Names, CleanupStep(n) \/ ContainerDies(n)
    PROVE  NetInv'
<1> USE DEF NetInv, NetTypeOK, Creating, Holding, NewNSSteps, Reclaim,
            Connected, CleanTeardown
<1>1. CASE Start(n) BY <1>1 DEF Start
<1>2. CASE Stop(n) BY <1>2 DEF Stop
<1>3. CASE Destroy(n) BY <1>3 DEF Destroy
<1>4. CASE Unmount(n) BY <1>4 DEF Unmount
<1>5. CASE RemoveFile(n) BY <1>5 DEF RemoveFile
<1>6. CASE UnmountFails(n) BY <1>6 DEF UnmountFails
<1>7. CASE ContainerDies(n) BY <1>7 DEF ContainerDies
<1> QED
  BY <1>1, <1>2, <1>3, <1>4, <1>5, <1>6, <1>7 DEF CleanupStep

\* What setupNetwork, NewNS, newSandbox and the cleanup of Start have made, and
\* what is still there at each of their steps, whatever fails or crashes.
THEOREM NetworkInvariant == NetSpec => []NetInv
<1>1. NetInit => NetInv
  BY DEF NetInit, NetInv, NetTypeOK, Creating, Holding, NewNSSteps, Connected,
         CleanTeardown
<1>2. NetInv /\ [NetNext]_netVars => NetInv'
  <2> SUFFICES ASSUME NetInv, [NetNext]_netVars PROVE NetInv'
    OBVIOUS
  <2>1. ASSUME NEW n \in Names \ dead, CreateStep(n) PROVE NetInv'
    BY <2>1, CreateKeepsInv
  <2>2. ASSUME NEW n \in Names, CleanupStep(n) \/ ContainerDies(n) PROVE NetInv'
    BY <2>2, CleanupKeepsInv
  <2>3. CASE Crash
    BY <2>3 DEF Crash, NetInv, NetTypeOK, Connected, CleanTeardown
  <2>4. CASE UNCHANGED netVars
    BY <2>4 DEF netVars, NetInv, NetTypeOK, Connected, CleanTeardown
  <2> QED BY <2>1, <2>2, <2>3, <2>4 DEF NetNext
<1> QED BY <1>1, <1>2, PTL DEF NetSpec

\* The host's link eth0 is its creator's while setupNetwork needs it.
THEOREM NetworkOwnLinkMoved == NetSpec => []OwnLinkMoved
<1>1. NetInv => OwnLinkMoved BY DEF NetInv, OwnLinkMoved
<1> QED BY <1>1, NetworkInvariant, PTL

\* Only a failure of NewNS or of the move leaves a link on the host.
THEOREM NetworkHostLinkOwner == NetSpec => []HostLinkOwner
<1>1. NetInv => HostLinkOwner BY DEF NetInv, HostLinkOwner
<1> QED BY <1>1, NetworkInvariant, PTL

\* Once a link is left on the host it stays there and every Create fails at LinkAdd,
\* whatever fails, crashes and starts again afterwards.
THEOREM NetworkLeftLinkBlocks == NetSpec => LeftLinkBlocks
<1> DEFINE Blocked ==
      /\ Stuck'
      /\ \A n \in Names : pc[n] \in {"idle", "link"} => pc'[n] \in {"idle", "link", "failed"}
<1>1. NetInv /\ [NetNext]_netVars => [Stuck => Blocked]_netVars
  <2> SUFFICES ASSUME NetInv, NetNext, Stuck PROVE Blocked
    OBVIOUS
  <2>s. PICK m \in Names : eth[m] = "host" /\ (pc[m] \notin Holding \/ m \in dead)
    BY DEF Stuck
  <2>m. pc[m] \in Holding \cup {"failed", "nsfailed"} /\ m \notin alive /\ cleanup[m] = "off"
    BY <2>s DEF NetInv, NetTypeOK, Holding, NewNSSteps
  <2>t. pc \in [Names -> Creating \cup {"idle", "created", "failed", "nsfailed"}]
        /\ eth \in [Names -> {"none", "host", "ns", "up"}]
    BY DEF NetInv, NetTypeOK
  <2>1. ASSUME NEW n \in Names \ dead, CreateStep(n) PROVE Blocked
    <3>0. n # m \/ pc[m] \in {"failed", "nsfailed"}
      BY <2>s, <2>m
    <3>1. /\ dead' = dead
          /\ \A k \in Names \ {n} : pc'[k] = pc[k] /\ eth'[k] = eth[k]
      BY <2>1, <2>t DEF CreateStep, CallCreate, LinkAdd, MakeRunDir, MakeShared, BindRunDir,
         MakeSharedAgain, CreateFile, MountNS, OpenNS, MoveLink, Configure, Attach,
         CreateContainer, CreateFails, Goto, lifeVars
    <3>2. n # m
      BY <2>1, <3>0 DEF CreateStep, CallCreate, LinkAdd, MakeRunDir, MakeShared, BindRunDir,
         MakeSharedAgain, CreateFile, MountNS, OpenNS, MoveLink, Configure, Attach,
         CreateContainer, CreateFails, Goto, Creating, Holding, NewNSSteps
    <3>3. Stuck'
      BY <2>s, <3>1, <3>2 DEF Stuck
    <3>4. pc[n] \in {"idle", "link"} => pc'[n] \in {"link", "failed"}
      BY <2>1, <2>s, <2>t DEF CreateStep, CallCreate, LinkAdd, MakeRunDir, MakeShared,
         BindRunDir, MakeSharedAgain, CreateFile, MountNS, OpenNS, MoveLink, Configure,
         Attach, CreateContainer, CreateFails, Goto, NewNSSteps
    <3> QED BY <3>1, <3>3, <3>4
  <2>2. ASSUME NEW n \in Names, CleanupStep(n) \/ ContainerDies(n) PROVE Blocked
    <3>1. UNCHANGED <<pc, dead>>
      BY <2>2 DEF CleanupStep, Start, Stop, Destroy, Unmount, RemoveFile, UnmountFails,
         ContainerDies
    <3>2. eth'[m] = eth[m]
      BY <2>2, <2>m, <2>t DEF CleanupStep, Start, Stop, Destroy, Unmount, RemoveFile,
         UnmountFails, ContainerDies, Reclaim
    <3> QED BY <2>s, <3>1, <3>2 DEF Stuck
  <2>3. CASE Crash
    <3>1. m \in dead' /\ UNCHANGED <<pc, eth>>
      BY <2>3, <2>m DEF Crash, Holding, NewNSSteps
    <3> QED BY <2>s, <3>1 DEF Stuck
  <2> QED BY <2>1, <2>2, <2>3 DEF NetNext
<1> QED BY <1>1, NetworkInvariant, PTL DEF NetSpec, LeftLinkBlocks

\* A created sandbox stays connected until its cleanup unmounts it.
THEOREM NetworkConnected == NetSpec => []Connected
<1>1. NetInv => Connected BY DEF NetInv
<1> QED BY <1>1, NetworkInvariant, PTL

\* A cleanup without error leaves nothing behind.
THEOREM NetworkCleanTeardown == NetSpec => []CleanTeardown
<1>1. NetInv => CleanTeardown BY DEF NetInv
<1> QED BY <1>1, NetworkInvariant, PTL

\* Steps that Sandbox does not see.
LEMMA Invisible ==
    ASSUME UNCHANGED <<Netns, Cleanup, container>>
    PROVE  UNCHANGED Life!sandboxVars
  BY DEF Life!sandboxVars

\* The network code implements what Sandbox takes Create, Start and the cleanup
\* to do: Create succeeds with the namespace mounted or fails with or without it,
\* and the cleanup destroys a running container first and unmounts then.
THEOREM NetworkImplementsSandbox == NetSpec => ImplementsSandbox
<1>1. NetInit => Life!SandboxInit
  BY DEF NetInit, Life!SandboxInit, Netns, Cleanup
<1>2. NetInv /\ [NetNext]_netVars =>
          [\E c \in Names : Life!LifeStep(c)]_(Life!sandboxVars)
  <2> SUFFICES ASSUME NetInv, [NetNext]_netVars
               PROVE  \/ \E c \in Names : Life!LifeStep(c)
                      \/ UNCHANGED Life!sandboxVars
    OBVIOUS
  <2> USE DEF NetInv, NetTypeOK, Creating, Holding, NewNSSteps, Goto, lifeVars
  <2>1. ASSUME NEW n \in Names,
               \/ CallCreate(n) \/ LinkAdd(n) \/ MakeRunDir(n) \/ MakeShared(n)
               \/ BindRunDir(n) \/ MakeSharedAgain(n) \/ CreateFile(n) \/ MountNS(n)
               \/ OpenNS(n) \/ MoveLink(n) \/ Configure(n) \/ Attach(n)
        PROVE  UNCHANGED Life!sandboxVars
    <3>1. UNCHANGED <<Cleanup, container>>
      BY <2>1 DEF CallCreate, LinkAdd, MakeRunDir, MakeShared, BindRunDir,
         MakeSharedAgain, CreateFile, MountNS, OpenNS, MoveLink, Configure, Attach,
         Cleanup
    <3>2. UNCHANGED Netns
      BY <2>1 DEF CallCreate, LinkAdd, MakeRunDir, MakeShared, BindRunDir,
         MakeSharedAgain, CreateFile, MountNS, OpenNS, MoveLink, Configure, Attach,
         Netns
    <3> QED BY <3>1, <3>2, Invisible
  <2>2. ASSUME NEW n \in Names, CreateContainer(n) PROVE Life!LifeStep(n)
    <3>1. /\ Netns[n] = "none" /\ Netns' = [Netns EXCEPT ![n] = "mounted"]
          /\ Cleanup' = Cleanup /\ container[n] = "none"
      <4>1. /\ pc[n] = "runsc" /\ container[n] = "none" /\ n \in mounted
            /\ UNCHANGED <<mounted, cleanup>>
        BY <2>2 DEF CreateContainer
      <4>2. /\ pc'[n] = "created"
            /\ \A m \in Names \ {n} : pc'[m] = pc[m] /\ container'[m] = container[m]
        BY <2>2 DEF CreateContainer
      <4> HIDE DEF NetInv, NetTypeOK
      <4>3. Netns[n] = "none" /\ Netns'[n] = "mounted"
        BY <4>1, <4>2 DEF Netns
      <4>4. \A m \in Names \ {n} : Netns'[m] = Netns[m]
        BY <4>1, <4>2 DEF Netns
      <4>5. Netns' = [Netns EXCEPT ![n] = "mounted"]
        BY <4>3, <4>4 DEF Netns
      <4>6. Cleanup' = Cleanup
        BY <4>1 DEF Cleanup
      <4> QED BY <4>1, <4>3, <4>5, <4>6
    <3> QED BY <2>2, <3>1 DEF CreateContainer, Life!LifeStep, Life!Created
  <2>3. ASSUME NEW n \in Names, CreateFails(n) PROVE Life!LifeStep(n)
    <3>1. /\ Netns[n] = "none" /\ Cleanup' = Cleanup
          /\ container[n] = "none" /\ container' = container
      BY <2>3 DEF CreateFails, Netns, Cleanup
    <3>2. Netns' = [Netns EXCEPT ![n] = IF n \in mounted THEN "mounted" ELSE "none"]
      <4>1. \A m \in Names \ {n} : pc'[m] = pc[m]
        BY <2>3 DEF CreateFails
      <4>2. pc'[n] \in {"nsfailed", "failed"} /\ mounted' = mounted
        BY <2>3 DEF CreateFails
      <4>3. Netns'[n] = IF n \in mounted THEN "mounted" ELSE "none"
        BY <3>1, <4>2 DEF Netns
      <4>4. \A m \in Names \ {n} : Netns'[m] = Netns[m]
        BY <3>1, <4>1, <4>2 DEF Netns
      <4> HIDE DEF NetInv
      <4> QED BY <4>3, <4>4 DEF Netns
    <3> QED BY <3>1, <3>2 DEF Life!LifeStep, Life!CreateFails
  <2>0. ASSUME NEW n \in Names,
               container[n] = "created" \/ cleanup[n] \in {"wait", "destroy", "unmount"}
        PROVE  Netns[n] = "mounted"
    <3>1. pc[n] = "created" /\ cleanup[n] \in {"off", "wait", "destroy", "unmount"}
      BY <2>0
    <3>2. n \in mounted
      BY <3>1 DEF Connected
    <3> HIDE DEF NetInv
    <3> QED BY <3>1, <3>2 DEF Netns
  <2>4. ASSUME NEW n \in Names, Start(n) PROVE Life!LifeStep(n)
    <3>1. Netns' = Netns /\ Cleanup' = [Cleanup EXCEPT ![n] = "wait"]
      BY <2>4 DEF Start, Netns, Cleanup
    <3>2. container[n] = "created"
      BY <2>4 DEF Start
    <3>3. Netns[n] = "mounted"
      BY <2>0, <3>2
    <3> HIDE DEF NetInv, NetTypeOK
    <3> QED BY <2>4, <3>1, <3>2, <3>3 DEF Start, Life!LifeStep, Life!Started
  <2>5. ASSUME NEW n \in Names, Stop(n) PROVE Life!LifeStep(n)
    <3>1. /\ Netns' = Netns /\ Cleanup[n] = "wait"
          /\ Cleanup' = [Cleanup EXCEPT ![n] = "destroy"]
      BY <2>5 DEF Stop, Netns, Cleanup
    <3>2. container[n] = "running" /\ cleanup[n] = "wait"
      BY <2>5 DEF Stop
    <3>3. Netns[n] = "mounted"
      BY <2>0, <3>2
    <3> HIDE DEF NetInv, NetTypeOK
    <3> QED BY <2>5, <3>1, <3>2, <3>3 DEF Stop, Life!LifeStep, Life!Stop
  <2>6. ASSUME NEW n \in Names, Destroy(n) PROVE Life!LifeStep(n)
    <3>1. /\ Netns' = Netns /\ Cleanup[n] = "destroy"
          /\ Cleanup' = [Cleanup EXCEPT ![n] = "unmount"]
      <4>1. pc[n] = "created" /\ container[n] # "none" /\ container'[n] # "none"
        BY <2>6 DEF Destroy
      <4>2. \A m \in Names \ {n} : container'[m] = container[m]
        BY <2>6 DEF Destroy
      <4>3. \A m \in Names : Netns'[m] = Netns[m]
        BY <2>6, <4>1, <4>2 DEF Destroy, Netns
      <4>4. Netns' = Netns
        BY <4>3 DEF Netns
      <4> QED BY <2>6, <4>4 DEF Destroy, Cleanup
    <3>2. container[n] = "running" /\ cleanup[n] = "destroy"
      BY <2>6 DEF Destroy
    <3>3. Netns[n] = "mounted"
      BY <2>0, <3>2
    <3> HIDE DEF NetInv, NetTypeOK
    <3> QED BY <2>6, <3>1, <3>2, <3>3 DEF Destroy, Life!LifeStep, Life!Destroy
  <2>7. ASSUME NEW n \in Names, Unmount(n) PROVE Life!LifeStep(n)
    <3>1. /\ Cleanup[n] = "unmount" /\ Cleanup' = [Cleanup EXCEPT ![n] = "done"]
          /\ Netns' = [Netns EXCEPT ![n] = "unmounted"]
      BY <2>7 DEF Unmount, Netns, Cleanup
    <3>2. container[n] \in {"destroyed", "left"} /\ cleanup[n] = "unmount"
      BY <2>7 DEF Unmount
    <3>3. Netns[n] = "mounted"
      BY <2>0, <3>2
    <3> HIDE DEF NetInv, NetTypeOK
    <3> QED BY <2>7, <3>1, <3>2, <3>3 DEF Unmount, Life!LifeStep, Life!Unmount
  <2>8. ASSUME NEW n \in Names, UnmountFails(n), cleanup[n] = "unmount"
        PROVE  Life!LifeStep(n)
    <3>1. /\ Cleanup[n] = "unmount" /\ Cleanup' = [Cleanup EXCEPT ![n] = "done"]
          /\ Netns' = [Netns EXCEPT ![n] = "mounted"]
      <4>1. /\ cleanup \in [Names -> {"off", "wait", "destroy", "unmount", "remove", "done",
                                     "failed"}]
            /\ cleanup' = [cleanup EXCEPT ![n] = "failed"]
            /\ UNCHANGED <<pc, mounted, container>>
        BY <2>8 DEF UnmountFails
      <4>2. pc[n] = "created" /\ n \in mounted
        BY <2>8 DEF Connected
      <4> HIDE DEF NetInv, NetTypeOK
      <4>3. Cleanup[n] = "unmount" /\ Cleanup' = [Cleanup EXCEPT ![n] = "done"]
        BY <2>8, <4>1 DEF Cleanup
      <4>4. Netns[n] = "mounted"
        BY <4>2 DEF Netns
      <4>5. Netns' = Netns
        BY <4>1 DEF Netns
      <4>6. Netns' = [Netns EXCEPT ![n] = "mounted"]
        BY <4>4, <4>5 DEF Netns
      <4> QED BY <4>3, <4>6
    <3>2. container[n] \in {"destroyed", "left"}
      BY <2>8
    <3>3. Netns[n] = "mounted"
      BY <2>0, <2>8
    <3> HIDE DEF NetInv, NetTypeOK
    <3> QED BY <2>8, <3>1, <3>2, <3>3 DEF UnmountFails, Life!LifeStep, Life!Unmount
  <2>9. ASSUME NEW n \in Names,
               \/ RemoveFile(n) \/ ContainerDies(n)
               \/ UnmountFails(n) /\ cleanup[n] = "remove"
        PROVE  UNCHANGED Life!sandboxVars
    <3>1. UNCHANGED <<Netns, Cleanup, container>>
      BY <2>9 DEF RemoveFile, ContainerDies, UnmountFails, Netns, Cleanup
    <3> QED BY <3>1, Invisible
  <2>10. CASE Crash \/ UNCHANGED netVars
    <3>1. UNCHANGED <<Netns, Cleanup, container>>
      BY <2>10 DEF Crash, netVars, Netns, Cleanup
    <3> QED BY <3>1, Invisible
  <2>11. ASSUME NEW n \in Names, UnmountFails(n)
         PROVE  cleanup[n] \in {"unmount", "remove"}
    BY <2>11 DEF UnmountFails
  <2> QED
    BY <2>1, <2>2, <2>3, <2>4, <2>5, <2>6, <2>7, <2>8, <2>9, <2>10, <2>11
    DEF NetNext, CreateStep, CleanupStep
<1> QED BY <1>1, <1>2, NetworkInvariant, PTL
  DEF NetSpec, ImplementsSandbox, Life!LifeSpec
=============================================================================
