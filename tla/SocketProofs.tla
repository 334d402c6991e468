---------------------------- MODULE SocketProofs ----------------------------
(***************************************************************************)
(* Proofs about Socket: for any number of users and closers, descriptors   *)
(* are valid while they are used and the socket's descriptor is disposed   *)
(* of once, when nobody uses it.                                           *)
(***************************************************************************)
EXTENDS Socket, TLAPS

\* Steps of a user inside the gate that only move its program counter.
LEMMA MoveKeepsInv ==
    ASSUME SocketInv, NEW u \in Users,
           pc[u] \in InGate, NEW l \in InGate, Goto(u, l),
           UNCHANGED <<absVars, live, efd, kind, cpc, how>>,
           kfd' = kfd \/ (kfd \in Usable /\ kfd' \in Usable),
           rx' \in 0..MaxReady, tx' \in 0..MaxReady
    PROVE  SocketInv'
<1>0. UNCHANGED <<inside, status, live, efd, kind, cpc, how>>
  BY DEF absVars
<1>1. pc' = [pc EXCEPT ![u] = l] /\ pc' \in [Users -> {"out", "enter"} \cup InGate]
  BY DEF Goto, SocketInv, SocketTypeOK
<1>2. SocketTypeOK'
  BY <1>0, <1>1 DEF SocketInv, SocketTypeOK
<1>3. {w \in Users : pc'[w] \in InGate} = {w \in Users : pc[w] \in InGate}
  BY <1>1 DEF SocketInv, SocketTypeOK
<1> QED
  BY <1>0, <1>2, <1>3 DEF SocketInv, Finishers

\* The steps of a user.
LEMMA UserKeepsInv ==
    ASSUME SocketInv, NEW u \in Users, Call(u) \/ UserStep(u) \/ CallFails(u)
    PROVE  SocketInv'
<1> USE SocketAssumption
<1>0. /\ rx \in 0..MaxReady /\ tx \in 0..MaxReady
      /\ pc[u] \in {"out", "enter"} \cup InGate
      /\ kfd \in Usable \cup {"closed", "released"}
  BY DEF SocketInv, SocketTypeOK
<1>1. CASE Call(u)
  <2>1. kind' \in [Users -> AllKinds] /\ pc' \in [Users -> {"out", "enter"} \cup InGate]
    BY <1>1 DEF Call, Goto, SocketInv, SocketTypeOK
  <2>2. {w \in Users : pc'[w] \in InGate} = {w \in Users : pc[w] \in InGate}
    BY <1>1 DEF Call, Goto, SocketInv, SocketTypeOK, InGate
  <2> QED BY <1>1, <2>1, <2>2 DEF Call, SocketInv, SocketTypeOK, Finishers, absVars
<1>2. CASE Enter(u)
  <2>0. UNCHANGED <<live, kfd, efd, rx, tx, kind, cpc, how>>
    BY <1>2 DEF Enter
  <2>1. CASE AbsEnter(u) /\ Goto(u, "load")
    <3>1. pc' \in [Users -> {"out", "enter"} \cup InGate]
      BY <2>1 DEF Goto, SocketInv, SocketTypeOK, InGate
    <3>2. {w \in Users : pc'[w] \in InGate} = {w \in Users : pc[w] \in InGate} \cup {u}
      BY <2>1 DEF Goto, SocketInv, SocketTypeOK, InGate
    <3>3. inside' = inside \cup {u} /\ status' = status /\ status = "open"
      BY <2>1 DEF AbsEnter
    <3> QED BY <2>0, <3>1, <3>2, <3>3 DEF SocketInv, SocketTypeOK, Finishers
  <2>2. CASE status # "open" /\ Goto(u, "out") /\ UNCHANGED absVars
    <3>1. pc' \in [Users -> {"out", "enter"} \cup InGate]
      BY <2>2 DEF Goto, SocketInv, SocketTypeOK
    <3>2. {w \in Users : pc'[w] \in InGate} = {w \in Users : pc[w] \in InGate}
      BY <1>2, <2>2 DEF Enter, Goto, SocketInv, SocketTypeOK, InGate
    <3> QED BY <2>0, <2>2, <3>1, <3>2 DEF SocketInv, SocketTypeOK, Finishers, absVars
  <2> QED BY <1>2, <2>1, <2>2 DEF Enter
<1>3. CASE LoadFD(u) \/ WaitLoad(u) \/ Poll(u) \/ CallFails(u)
  <2>1. PICK l \in InGate : Goto(u, l)
    BY <1>3 DEF LoadFD, WaitLoad, Poll, CallFails, InGate
  <2> QED BY <1>0, <1>3, <2>1, MoveKeepsInv DEF LoadFD, WaitLoad, Poll, CallFails, InGate
<1>4. CASE Transfer(u)
  <2>1. PICK l \in InGate : Goto(u, l)
    BY <1>4 DEF Transfer, InGate
  <2>2. rx' \in 0..MaxReady /\ tx' \in 0..MaxReady
    BY <1>0, <1>4 DEF Transfer, Ready, Reads, Writes
  <2> QED BY <1>4, <2>1, <2>2, MoveKeepsInv DEF Transfer, InGate
<1>5. CASE Control(u)
  <2>1. Goto(u, "leave") /\ "leave" \in InGate
    BY <1>5 DEF Control, InGate
  <2>2. u \in inside
    BY <1>5 DEF Control, SocketInv, InGate
  <2>3. kfd \in Usable /\ kfd' \in Usable
    BY <1>0, <1>5, <2>2 DEF Control, SocketInv, Usable
  <2> QED BY <1>0, <1>5, <2>1, <2>3, MoveKeepsInv DEF Control, InGate
<1>6. CASE Leave(u)
  <2>0. UNCHANGED <<live, kfd, efd, rx, tx, kind, cpc, how>>
    BY <1>6 DEF Leave
  <2>1. pc' \in [Users -> {"out", "enter"} \cup InGate]
    BY <1>6 DEF Leave, Goto, SocketInv, SocketTypeOK
  <2>2. {w \in Users : pc'[w] \in InGate} = {w \in Users : pc[w] \in InGate} \ {u}
    BY <1>6 DEF Leave, Goto, SocketInv, SocketTypeOK, InGate
  <2>3. inside' = inside \ {u} /\ status' = status
    BY <1>6 DEF Leave, AbsLeave
  <2> QED BY <2>0, <2>1, <2>2, <2>3 DEF SocketInv, SocketTypeOK, Finishers
<1> QED BY <1>1, <1>2, <1>3, <1>4, <1>5, <1>6 DEF UserStep

\* The steps of a closer.
LEMMA CloserKeepsInv ==
    ASSUME SocketInv, NEW x \in Closers, CallClose(x) \/ CloserStep(x) \/ FinishFails(x)
    PROVE  SocketInv'
<1> DEFINE PCs == {"out", "swap", "failed"} \cup Finishing
<1>0. ASSUME NEW l \in PCs, Then(x, l)
      PROVE  /\ cpc' \in [Closers -> PCs]
             /\ cpc'[x] = l
             /\ \A y \in Closers : y # x => cpc'[y] = cpc[y]
  BY <1>0 DEF Then, SocketInv, SocketTypeOK
<1>1. CASE CallClose(x)
  <2>1. how' \in [Closers -> {"close", "release"}]
    BY <1>1 DEF CallClose, SocketInv, SocketTypeOK
  <2>2. Finishers' = Finishers
    BY <1>0, <1>1 DEF CallClose, Finishers, Finishing
  <2> QED BY <1>0, <1>1, <2>1, <2>2
      DEF CallClose, SocketInv, SocketTypeOK, absVars, Finishing
<1>2. CASE SwapFD(x)
  <2>1. CASE live
    <3>1. Finishers = {}
      BY <2>1 DEF SocketInv
    <3>2. Finishers' = {x}
      BY <1>0, <1>2, <2>1, <3>1 DEF SwapFD, Finishers, Finishing
    <3>3. PICK l \in {"shut", "signal"} : Then(x, l)
      BY <1>2, <2>1 DEF SwapFD
    <3>4. SocketTypeOK'
      BY <1>0, <1>2, <3>3 DEF SwapFD, SocketInv, SocketTypeOK, absVars, Finishing
    <3>5. status' = status /\ inside' = inside /\ efd' = efd /\ kfd' = kfd /\ pc' = pc /\ ~live'
      BY <1>2 DEF SwapFD, absVars
    <3>6. \A y \in Closers :
            /\ cpc'[y] \in {"shut", "signal"} => status = "open"
            /\ cpc'[y] \notin {"gate", "gatewait", "efdclose", "fdclose"}
      <4>1. \A y \in Closers : cpc[y] \notin Finishing
        BY <3>1 DEF Finishers
      <4> QED BY <1>0, <2>1, <3>3, <4>1 DEF SocketInv, Finishing
    <3> QED BY <2>1, <3>2, <3>4, <3>5, <3>6 DEF SocketInv
  <2>2. CASE ~live
    <3>1. Finishers' = Finishers
      BY <1>0, <1>2, <2>2 DEF SwapFD, Finishers, Finishing
    <3>2. Then(x, "out") /\ UNCHANGED <<inside, status, live, kfd, efd, rx, tx, pc, kind, how>>
      BY <1>2, <2>2 DEF SwapFD, absVars, SocketInv, SocketTypeOK
    <3> QED BY <1>0, <3>1, <3>2 DEF SocketInv, SocketTypeOK, Finishing
  <2> QED BY <2>1, <2>2
<1>3. ASSUME cpc[x] \in Finishing, NEW l \in (Finishing \cup {"failed"}), Then(x, l)
      PROVE  Finishers' = Finishers /\ Finishers = {x}
  <2>1. Finishers' = Finishers
    BY <1>0, <1>3 DEF Finishers, Finishing
  <2> QED BY <1>3, <2>1 DEF Finishers, SocketInv
<1>4. CASE ShutFD(x)
  <2>1. Finishers' = Finishers /\ Finishers = {x}
    BY <1>3, <1>4 DEF ShutFD, Finishing
  <2>2. kfd' \in Usable
    BY <1>4, <2>1 DEF ShutFD, SocketInv, Usable
  <2> QED BY <1>0, <1>4, <2>1, <2>2 DEF ShutFD, SocketInv, SocketTypeOK, absVars, Finishing
<1>5. CASE Signal(x)
  <2>1. Finishers' = Finishers /\ Finishers = {x}
    BY <1>3, <1>5 DEF Signal, Finishing
  <2> QED BY <1>0, <1>5, <2>1 DEF Signal, SocketInv, SocketTypeOK, absVars, Finishing
<1>6. CASE CloseGate(x)
  <2>1. Finishers' = Finishers /\ Finishers = {x}
    BY <1>3, <1>6 DEF CloseGate, Finishing
  <2>2. \A y \in Closers : y # x => cpc[y] \notin Finishing
    BY <2>1 DEF Finishers
  <2> QED BY <1>0, <1>6, <2>1, <2>2
      DEF CloseGate, AbsClose, SocketInv, SocketTypeOK, Finishing
<1>7. CASE GateReturns(x)
  <2>1. Finishers' = Finishers /\ Finishers = {x}
    BY <1>3, <1>7 DEF GateReturns, Finishing
  <2>2. \A y \in Closers : y # x => cpc[y] \notin Finishing
    BY <2>1 DEF Finishers
  <2>3. status' = "closed" /\ inside' = inside /\ inside = {}
    BY <1>7 DEF GateReturns, AbsCloseReturns, absVars, SocketInv, SocketTypeOK
  <2>4. Then(x, "efdclose") /\ UNCHANGED <<live, kfd, efd, rx, tx, pc, kind, how>>
    BY <1>7 DEF GateReturns
  <2>5. ~live
    BY <2>1 DEF SocketInv
  <2> QED BY <1>0, <2>1, <2>2, <2>3, <2>4, <2>5 DEF SocketInv, SocketTypeOK, Finishing
<1>8. CASE CloseEFD(x)
  <2>1. Finishers' = Finishers /\ Finishers = {x}
    BY <1>3, <1>8 DEF CloseEFD, Finishing
  <2>2. \A y \in Closers : y # x => cpc[y] \notin Finishing
    BY <2>1 DEF Finishers
  <2> QED BY <1>0, <1>8, <2>1, <2>2 DEF CloseEFD, SocketInv, SocketTypeOK, absVars, Finishing
<1>9. CASE FinishFails(x)
  <2>1. Finishers' = Finishers /\ Finishers = {x}
    BY <1>3, <1>9 DEF FinishFails, Finishing
  <2>2. \A y \in Closers : y # x => cpc[y] \notin Finishing
    BY <2>1 DEF Finishers
  <2> QED BY <1>0, <1>9, <2>1, <2>2 DEF FinishFails, SocketInv, SocketTypeOK, absVars, Finishing
<1>10. CASE DisposeFD(x)
  <2>1. Finishers = {x}
    BY <1>10 DEF DisposeFD, Finishers, Finishing, SocketInv
  <2>2. Finishers' = {}
    BY <1>0, <1>10, <2>1 DEF DisposeFD, Finishers, Finishing
  <2> QED BY <1>0, <1>10, <2>1, <2>2
      DEF DisposeFD, SocketInv, SocketTypeOK, absVars, Finishing
<1> QED
  BY <1>1, <1>2, <1>4, <1>5, <1>6, <1>7, <1>8, <1>9, <1>10 DEF CloserStep

\* SocketInv is an invariant.
THEOREM SocketInvariant == SocketSpec => []SocketInv
<1>1. SocketInit => SocketInv
  <2> SUFFICES ASSUME SocketInit PROVE SocketInv
    OBVIOUS
  <2>1. SocketTypeOK
    BY SocketAssumption DEF SocketInit, AbsInit, SocketTypeOK, Usable, AllKinds
  <2>2. Finishers = {} /\ {u \in Users : pc[u] \in InGate} = {}
    BY DEF SocketInit, Finishers, Finishing, InGate
  <2> QED BY <2>1, <2>2 DEF SocketInit, AbsInit, SocketInv, Usable
<1>2. SocketInv /\ [SocketNext]_vars => SocketInv'
  <2> SUFFICES ASSUME SocketInv, [SocketNext]_vars PROVE SocketInv'
    OBVIOUS
  <2>1. CASE Peer
    <3>1. rx' \in 0..MaxReady /\ tx' \in 0..MaxReady
      BY <2>1, SocketAssumption DEF Peer, SocketInv, SocketTypeOK
    <3>2. \/ kfd' = kfd
          \/ kfd \in Usable /\ kfd' \in Usable
      BY <2>1 DEF Peer, Usable
    <3> QED BY <2>1, <3>1, <3>2 DEF Peer, SocketInv, SocketTypeOK, Finishers, absVars
  <2>2. CASE UNCHANGED vars
    BY <2>2 DEF vars, absVars, socketVars, SocketInv, SocketTypeOK, Finishers
  <2> QED BY <2>1, <2>2, UserKeepsInv, CloserKeepsInv DEF SocketNext
<1> QED BY <1>1, <1>2, PTL DEF SocketSpec

\* Descriptors stay valid while a call uses them.
THEOREM SocketDescriptorsValid == SocketSpec => []DescriptorsValid
<1>1. SocketInv => DescriptorsValid
  BY DEF SocketInv, DescriptorsValid, InGate
<1> QED BY <1>1, SocketInvariant, PTL

\* The descriptor is closed or handed over when nobody can use it any more.
THEOREM SocketQuietHandover == SocketSpec => []QuietHandover
<1>1. SocketInv => QuietHandover
  BY DEF SocketInv, QuietHandover
<1> QED BY <1>1, SocketInvariant, PTL

\* A closer never waits for a user that nothing will wake: the half of Evicted and
\* CloserReturns that needs no fairness.
THEOREM SocketNoStandoff == SocketSpec => []NoStandoff
<1>1. SocketInv => NoStandoff
  <2> SUFFICES ASSUME SocketInv, NEW x \in Closers, cpc[x] = "gatewait"
               PROVE  efd = "signalled" /\ ~live
    BY DEF NoStandoff
  <2>1. x \in Finishers
    BY DEF Finishers, Finishing
  <2> QED BY <2>1 DEF SocketInv
<1> QED BY <1>1, SocketInvariant, PTL

\* A descriptor that was closed is not handed over, and one that was handed over
\* is not closed.
THEOREM SocketDisposedOnce == SocketSpec => DisposedOnce
<1>1. SocketInv /\ [SocketNext]_vars => [kfd \notin Usable => UNCHANGED kfd]_vars
  <2> SUFFICES ASSUME SocketInv, SocketNext, kfd \notin Usable PROVE kfd' = kfd
    BY DEF vars, socketVars
  <2>1. inside = {} /\ Finishers = {}
    BY DEF SocketInv
  <2>2. \A x \in Closers : cpc[x] \notin Finishing
    BY <2>1 DEF Finishers
  <2>3. \A u \in Users : pc[u] \notin InGate
    BY <2>1 DEF SocketInv
  <2>4. ASSUME NEW u \in Users, Call(u) \/ UserStep(u) \/ CallFails(u) PROVE kfd' = kfd
    BY <2>3, <2>4 DEF Call, UserStep, CallFails, Enter, LoadFD, Transfer, Control,
                      WaitLoad, Poll, Leave, InGate
  <2>5. ASSUME NEW x \in Closers, CallClose(x) \/ CloserStep(x) \/ FinishFails(x)
        PROVE  kfd' = kfd
    BY <2>2, <2>5 DEF CallClose, CloserStep, FinishFails, SwapFD, ShutFD, Signal, CloseGate,
                      GateReturns, CloseEFD, DisposeFD, Finishing
  <2>6. CASE Peer
    BY <2>6 DEF Peer, Usable
  <2> QED BY <2>4, <2>5, <2>6 DEF SocketNext
<1> QED BY <1>1, SocketInvariant, PTL DEF SocketSpec, DisposedOnce
=============================================================================
