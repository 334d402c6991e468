---------------------------- MODULE ServerProofs ----------------------------
(***************************************************************************)
(* Proofs about Server and Names: for any number of handlers and any       *)
(* generator, draws exclude one another, and Stop finds Run returned.      *)
(***************************************************************************)
EXTENDS Server, FiniteSetTheorems, TLAPS

Draws == {"idle", "lock", "load", "store", "unlock"}

\* The generator stays within its word, the name within its range.
LEMMA NextInWord ==
    ASSUME NEW x \in Word PROVE NextState(x) \in Word
<1>1. x \in Int /\ Mult \in Int /\ Inc \in Int /\ Mod \in Int /\ Mod > 0
  BY NamesAssumption DEF Word
<1>2. x * Mult \in Int
  BY <1>1
<1>3. x * Mult + Inc \in Int
  BY <1>1, <1>2
<1> DEFINE y == x * Mult + Inc
<1> HIDE DEF y
<1>4. ASSUME y \in Int PROVE y % Mod \in 0 .. Mod - 1
  BY <1>1, <1>4
<1> QED BY <1>3, <1>4 DEF NextState, Word, y

LEMMA NameInRange ==
    ASSUME NEW x \in Word PROVE Base + (x % Base) \in 0 .. 2 * Base - 1
<1>1. x \in Int /\ Base \in Int /\ Base > 0
  BY NamesAssumption DEF Word
<1>2. x % Base \in 0 .. Base - 1
  BY <1>1
<1> QED BY <1>1, <1>2

\* What ServerInv says of the generator and the handlers ...
DrawInv ==
    /\ NamesTypeOK
    /\ session \in [Handlers -> {"off", "draw", "create", "open", "orphan"}]
    /\ DrawAtomic
    /\ \A h \in Handlers : session[h] # "draw" => draw[h] = "idle"
    /\ randmu # "free" => draw[randmu] \in {"load", "store", "unlock"}

\* ... and of the process
ProcInv ==
    /\ main \in Running \cup Ended
    /\ sigs \in {"off", "none", "int", "select", "taken"}
    /\ chan \in 0..1
    /\ done \in BOOLEAN
    /\ wg \in 0..1
    /\ listener \in {"off", "starting", "up", "failed"}
    /\ asked \in BOOLEAN
    /\ StopReady
    /\ main \in {"new", "run"} => wg = 0
    /\ main = "new" => sigs = "off"
    /\ chan = 1 => asked
    /\ done <=> sigs = "taken"
    /\ SignalKept

LEMMA Split == ServerInv <=> DrawInv /\ ProcInv
BY DEF ServerInv, ServerTypeOK, DrawInv, ProcInv

\* A step of one handler in nextSuffix.
LEMMA DrawKeepsInv ==
    ASSUME DrawInv, NEW h \in Handlers, DrawStep(h) \/ Unlock(h) \/ CallNext(h),
           NEW t \in {"draw", "create"},
           session' = [session EXCEPT ![h] = t],
           t = "create" => draw'[h] = "idle"
    PROVE  DrawInv'
<1> USE DEF Draws
<1>t. /\ rand2 \in Word /\ r \in [Handlers -> Word] /\ r[h] \in Word
      /\ randmu \in Handlers \cup {"free"}
      /\ draw \in [Handlers -> Draws]
      /\ name \in [Handlers -> 0 .. 2 * Base - 1]
      /\ drawn \subseteq Word /\ count \in Nat
      /\ session \in [Handlers -> {"off", "draw", "create", "open", "orphan"}]
      /\ "free" \notin Handlers
  BY NamesAssumption DEF DrawInv, NamesTypeOK
<1>s. session' \in [Handlers -> {"off", "draw", "create", "open", "orphan"}]
  BY <1>t
<1>z. \A g \in Handlers : g # h => session'[g] = session[g]
  BY <1>t
<1>i. \A g \in Handlers :
        /\ draw[g] \in {"load", "store", "unlock"} => randmu = g
        /\ draw[g] = "store" => rand2 \in {0, r[g]}
        /\ draw[g] = "unlock" => rand2 = r[g]
        /\ session[g] # "draw" => draw[g] = "idle"
  BY DEF DrawInv, DrawAtomic
<1>m. randmu # "free" => draw[randmu] \in {"load", "store", "unlock"}
  BY DEF DrawInv
<1>1. PICK l \in Draws : draw' = [draw EXCEPT ![h] = l]
  BY DEF DrawStep, Lock, Load, Store, Unlock, CallNext, At
<1>2. /\ draw' \in [Handlers -> Draws] /\ draw'[h] = l
      /\ \A g \in Handlers : g # h => draw'[g] = draw[g]
  BY <1>1, <1>t
<1>3. NamesTypeOK'
  <2>1. /\ rand2' \in Word /\ r' \in [Handlers -> Word]
        /\ drawn' \subseteq Word /\ count' \in Nat
    BY <1>t, NextInWord DEF DrawStep, Lock, Load, Store, Unlock, CallNext
  <2>2. name' \in [Handlers -> 0 .. 2 * Base - 1]
    BY <1>t, NameInRange DEF DrawStep, Lock, Load, Store, Unlock, CallNext
  <2>3. randmu' \in Handlers \cup {"free"}
    BY <1>t DEF DrawStep, Lock, Load, Store, Unlock, CallNext
  <2> QED BY <1>2, <2>1, <2>2, <2>3 DEF NamesTypeOK
<1>4. DrawAtomic'
  <2>1. CASE CallNext(h)
    <3>1. l = "lock" /\ UNCHANGED <<rand2, randmu, r>>
      BY <1>2, <2>1, <1>t DEF CallNext, At
    <3> QED BY <3>1, <1>2, <1>i DEF DrawAtomic
  <2>2. CASE Lock(h)
    <3>1. l = "load" /\ randmu = "free" /\ randmu' = h /\ UNCHANGED <<rand2, r>>
      BY <1>2, <2>2, <1>t DEF Lock, At
    <3> QED BY <3>1, <1>2, <1>i, <1>t DEF DrawAtomic
  <2>3. CASE Load(h)
    <3>1. /\ l = "store" /\ draw[h] = "load" /\ UNCHANGED <<rand2, randmu>>
          /\ rand2 = 0 \/ r'[h] = rand2
          /\ \A g \in Handlers : g # h => r'[g] = r[g]
      BY <1>2, <2>3, <1>t DEF Load, At
    <3> QED BY <3>1, <1>2, <1>i DEF DrawAtomic
  <2>4. CASE Store(h)
    <3>1. /\ l = "unlock" /\ draw[h] = "store" /\ UNCHANGED randmu /\ rand2' = r'[h]
          /\ \A g \in Handlers : g # h => r'[g] = r[g]
      BY <1>2, <2>4, <1>t DEF Store, At
    <3> QED BY <3>1, <1>2, <1>i DEF DrawAtomic
  <2>5. CASE Unlock(h)
    <3>1. l = "idle" /\ draw[h] = "unlock" /\ UNCHANGED <<rand2, r>>
      BY <1>2, <2>5, <1>t DEF Unlock, At
    <3> QED BY <3>1, <1>2, <1>i DEF DrawAtomic
  <2> QED BY <2>1, <2>2, <2>3, <2>4, <2>5 DEF DrawStep
<1>5. session'[h] = t /\ \A g \in Handlers : session'[g] # "draw" => draw'[g] = "idle"
  BY <1>2, <1>i, <1>t, <1>z
<1>6. randmu' # "free" => draw'[randmu'] \in {"load", "store", "unlock"}
  <2>1. CASE CallNext(h)
    BY <2>1, <1>2, <1>m, <1>t DEF CallNext, At
  <2>2. CASE Lock(h)
    BY <2>2, <1>2, <1>t DEF Lock, At
  <2>3. CASE Load(h)
    BY <2>3, <1>2, <1>m, <1>t DEF Load, At
  <2>4. CASE Store(h)
    BY <2>4, <1>2, <1>m, <1>t DEF Store, At
  <2>5. CASE Unlock(h)
    BY <2>5 DEF Unlock
  <2> QED BY <2>1, <2>2, <2>3, <2>4, <2>5 DEF DrawStep
<1> QED BY <1>3, <1>s, <1>4, <1>5, <1>6 DEF DrawInv

\* A process that ends leaves a generator that was never used.
LEMMA EndsKeepsInv ==
    ASSUME ServerInv, NEW how \in Ended, Ends(how)
    PROVE  ServerInv'
<1>t. NamesTypeOK /\ 0 \in Word
  BY NamesAssumption DEF ServerInv, ServerTypeOK, Word
<1>1. DrawInv'
  <2>1. /\ rand2' = 0 /\ randmu' = "free" /\ draw' = [h \in Handlers |-> "idle"]
        /\ r' = [h \in Handlers |-> 0] /\ drawn' = {} /\ count' = 0 /\ name' = name
    BY DEF Ends, Unseeded
  <2>2. NamesTypeOK'
    BY <1>t, <2>1 DEF NamesTypeOK
  <2>3. session' \in [Handlers -> {"off", "draw", "create", "open", "orphan"}]
    BY DEF Ends
  <2> QED BY <2>1, <2>2, <2>3 DEF DrawInv, DrawAtomic
<1>2. ProcInv'
  BY Split DEF Ends, ProcInv, StopReady, SignalKept, Ended, Running
<1> QED BY <1>1, <1>2 DEF ServerInv, ServerTypeOK, DrawInv, ProcInv

\* The mutual exclusion of draws, and the state of the wait group at every step of
\* the process, signals and crashes included (gvisor_linux.go:477, server.go:88).
THEOREM ServerInvariant == ServerSpec => []ServerInv
<1>1. ServerInit => ServerInv
  <2> SUFFICES ASSUME ServerInit PROVE ServerInv
    OBVIOUS
  <2>1. 0 \in Word /\ 0 \in 0 .. 2 * Base - 1
    BY NamesAssumption DEF Word
  <2>2. NamesTypeOK
    BY <2>1 DEF ServerInit, NamesInit, NamesTypeOK
  <2>3. DrawInv
    BY <2>2 DEF ServerInit, NamesInit, DrawInv, DrawAtomic
  <2>b. done \in BOOLEAN /\ asked \in BOOLEAN /\ ~done /\ ~asked
    BY Zenon DEF ServerInit
  <2>c. /\ main = "new" /\ sigs = "off" /\ chan = 0 /\ wg = 0 /\ listener = "off"
    BY DEF ServerInit
  <2>4. ProcInv
    BY <2>b, <2>c DEF ProcInv, StopReady, SignalKept, Running, Ended
  <2> QED BY <2>3, <2>4, Split
<1>2. ServerInv /\ [ServerNext]_serverVars => ServerInv'
  <2> SUFFICES ASSUME ServerInv, [ServerNext]_serverVars PROVE ServerInv'
    OBVIOUS
  <2>i. DrawInv /\ ProcInv
    BY Split
  <2>s. ASSUME DrawInv', ProcInv' PROVE ServerInv'
    BY <2>s DEF ServerInv, ServerTypeOK, DrawInv, ProcInv
  <2>d. ASSUME UNCHANGED <<session, nameVars>> PROVE DrawInv'
    BY <2>d, <2>i DEF DrawInv, NamesTypeOK, DrawAtomic, nameVars
  <2>p. ASSUME UNCHANGED procVars PROVE ProcInv'
    BY <2>p, <2>i DEF ProcInv, StopReady, SignalKept, procVars
  <2>1. CASE Serve \/ Run \/ RunReturns
    <3>1. ASSUME Serve PROVE ProcInv'
      BY <3>1, <2>i DEF Serve, ProcInv, StopReady, SignalKept, Running, Ended
    <3>2. ASSUME Run PROVE ProcInv'
      BY <3>2, <2>i DEF Run, ProcInv, StopReady, SignalKept, Running, Ended
    <3>3. ASSUME RunReturns PROVE ProcInv'
      BY <3>3, <2>i DEF RunReturns, ProcInv, StopReady, SignalKept, Running, Ended
    <3>4. ProcInv'
      BY <2>1, <3>1, <3>2, <3>3
    <3> QED BY <2>1, <3>4, <2>d, <2>s DEF Serve, Run, RunReturns
  <2>2. CASE Stop \/ Fatal
    BY <2>2, EndsKeepsInv DEF Stop, Fatal, Ended
  <2>3. CASE SignalStep \/ Listen
    <3>1. ASSUME Notify PROVE ProcInv'
      BY <3>1, <2>i DEF Notify, ProcInv, StopReady, SignalKept, Running, Ended
    <3>2. ASSUME TakeSignal PROVE ProcInv'
      BY <3>2, <2>i DEF TakeSignal, ProcInv, StopReady, SignalKept, Running, Ended
    <3>3. ASSUME Listen PROVE ProcInv'
      BY <3>3, <2>i DEF Listen, ProcInv, StopReady, SignalKept, Running, Ended
    <3>4. ProcInv'
      BY <2>3, <3>1, <3>2, <3>3 DEF SignalStep
    <3> QED BY <2>3, <3>4, <2>d, <2>s DEF SignalStep, Notify, TakeSignal, Listen
  <2>4. CASE Restart
    <3>b. done' \in BOOLEAN /\ asked' \in BOOLEAN /\ ~done' /\ ~asked'
      BY <2>4, Zenon DEF Restart
    <3>c. /\ main' = "new" /\ sigs' = "off" /\ chan' = 0 /\ wg' = 0 /\ listener' = "off"
      BY <2>4 DEF Restart
    <3>1. ProcInv'
      BY <3>b, <3>c DEF ProcInv, StopReady, SignalKept, Running, Ended
    <3> QED BY <2>4, <3>1, <2>d, <2>s DEF Restart
  <2>5. ASSUME NEW k \in {"INT", "TERM"}, Interrupt(k) PROVE ServerInv'
    <3>1. CASE Caught(k)
      <4>a. chan' = 1 /\ asked' /\ asked' \in BOOLEAN
        BY <2>5, <3>1, Zenon DEF Interrupt
      <4>b. UNCHANGED <<main, sigs, done, wg, listener>>
        BY <2>5, <3>1 DEF Interrupt
      <4>c. sigs \in {"int", "select", "taken"}
        BY <3>1 DEF Caught
      <4>1. ProcInv'
        BY <4>a, <4>b, <4>c, <2>i DEF ProcInv, StopReady, SignalKept
      <4> QED BY <2>5, <3>1, <4>1, <2>d, <2>s DEF Interrupt
    <3>2. CASE ~Caught(k)
      BY <2>5, <3>2, EndsKeepsInv DEF Interrupt, Ended
    <3> QED BY <3>1, <3>2
  <2>6. ASSUME NEW h \in Handlers, Create(h) PROVE ServerInv'
    <3>1. DrawInv'
      BY <2>6, <2>i, DrawKeepsInv DEF Create
    <3> QED BY <2>6, <3>1, <2>p, <2>s DEF Create
  <2>7. ASSUME NEW h \in Handlers, DrawName(h) PROVE ServerInv'
    <3>0. /\ session \in [Handlers -> {"off", "draw", "create", "open", "orphan"}]
          /\ draw \in [Handlers -> Draws]
      BY <2>i DEF DrawInv, NamesTypeOK, Draws
    <3>1. CASE DrawStep(h) /\ UNCHANGED session
      <4>1. session' = [session EXCEPT ![h] = "draw"]
        BY <2>7, <3>0, <3>1 DEF DrawName
      <4>2. DrawInv'
        BY <3>1, <4>1, <2>i, DrawKeepsInv
      <4> QED BY <2>7, <4>2, <2>p, <2>s DEF DrawName
    <3>2. CASE Unlock(h) /\ session' = [session EXCEPT ![h] = "create"]
      <4>1. draw'[h] = "idle"
        BY <3>0, <3>2 DEF Unlock, At
      <4>2. DrawInv'
        BY <3>2, <4>1, <2>i, DrawKeepsInv
      <4> QED BY <2>7, <4>2, <2>p, <2>s DEF DrawName
    <3> QED BY <2>7, <3>1, <3>2 DEF DrawName
  <2>8. ASSUME NEW h \in Handlers, NewSandbox(h) \/ Cleanup(h) PROVE ServerInv'
    <3>1. /\ session[h] # "draw"
          /\ \E t \in {"open", "off"} : session' = [session EXCEPT ![h] = t]
          /\ UNCHANGED <<procVars, nameVars>>
      BY <2>8 DEF NewSandbox, Cleanup
    <3>2. DrawInv'
      BY <3>1, <2>i DEF DrawInv, NamesTypeOK, DrawAtomic, nameVars
    <3> QED BY <3>1, <3>2, <2>p, <2>s
  <2>9. CASE UNCHANGED serverVars
    BY <2>9, <2>d, <2>p, <2>s DEF serverVars
  <2> QED
    BY <2>1, <2>2, <2>3, <2>4, <2>5, <2>6, <2>7, <2>8, <2>9 DEF ServerNext, MainStep
<1> QED BY <1>1, <1>2, PTL DEF ServerSpec

\* No draw overwrites another, for any number of handlers and any generator.
THEOREM ServerDrawAtomic == ServerSpec => []DrawAtomic
<1>1. ServerInv => DrawAtomic
  BY DEF ServerInv
<1> QED BY <1>1, ServerInvariant, PTL
\* No signal is lost, whenever it comes: the half of SignalEnds that needs no
\* fairness (cmd.go:92-107).
THEOREM ServerSignalKept == ServerSpec => []SignalKept
<1>1. ServerInv => SignalKept
  BY DEF ServerInv
<1> QED BY <1>1, ServerInvariant, PTL

----------------------------------------------------------------------------
(* The names *)

LEMMA DrawnFinite == NamesTypeOK => IsFiniteSet(drawn)
<1>1. IsFiniteSet(Word)
  BY NamesAssumption, FS_Interval DEF Word
<1> QED BY <1>1, FS_Subset DEF NamesTypeOK

\* A state is stored: it is none of those drawn since the generator was seeded.
LEMMA StoreKeepsRank ==
    ASSUME NEW CONSTANT rank, PassesZero(rank), DrawInv, RankInv(rank),
           NEW h \in Handlers, Store(h)
    PROVE  RankInv(rank)'
<1> DEFINE n == NextState(r[h])
<1>t. /\ rand2 \in Word /\ r[h] \in Word /\ drawn \subseteq Word /\ count \in Nat
      /\ draw \in [Handlers -> Draws]
  BY DEF DrawInv, NamesTypeOK, Draws
<1>n. n \in Word /\ \A x \in Word : rank[x] \in Nat
  BY <1>t, NextInWord DEF PassesZero
<1> HIDE DEF n
<1>s. /\ draw[h] = "store" /\ rand2' = n /\ drawn' = drawn \cup {n} /\ count' = count + 1
      /\ draw' = [draw EXCEPT ![h] = "unlock"]
  BY DEF Store, At, n
<1>c. Cardinality(drawn) = count /\ IsFiniteSet(drawn)
  BY DrawnFinite DEF RankInv, UniqueDraws, DrawInv
<1>1. \A x \in drawn : rank[x] < rank[n]
  <2>1. CASE rand2 = 0
    BY <2>1, <1>s DEF RankInv
  <2>2. CASE rand2 # 0
    <3>1. r[h] = rand2
      BY <2>2, <1>s DEF DrawInv, DrawAtomic
    <3>2. rank[n] = rank[rand2] + 1
      BY <2>2, <3>1, <1>t DEF PassesZero, n
    <3>3. \A x \in drawn : rank[x] <= rank[rand2]
      BY <2>2 DEF RankInv
    <3> QED BY <3>2, <3>3, <1>t, <1>n
  <2> QED BY <2>1, <2>2
<1>2. n \notin drawn
  BY <1>1, <1>n
<1>3. UniqueDraws'
  BY <1>2, <1>c, <1>s, <1>t, FS_AddElement DEF UniqueDraws
<1>4. \A x \in drawn' : rank[x] <= rank[rand2']
  BY <1>1, <1>n, <1>s, <1>t
<1>5. ASSUME NEW g \in Handlers PROVE draw'[g] # "store"
  <2>1. g # h => draw[g] # "store"
    BY <1>s DEF DrawInv, DrawAtomic
  <2> QED BY <2>1, <1>s, <1>t
<1> QED BY <1>3, <1>4, <1>5 DEF RankInv

\* A seed makes a new beginning.
LEMMA LoadKeepsRank ==
    ASSUME NEW rank, DrawInv, RankInv(rank), NEW h \in Handlers, Load(h)
    PROVE  RankInv(rank)'
<1>1. CASE rand2 = 0
  <2>1. rand2' = 0 /\ drawn' = {} /\ count' = 0
    BY <1>1 DEF Load
  <2> QED BY <2>1, FS_EmptySet DEF RankInv, UniqueDraws
<1>2. CASE rand2 # 0
  BY <1>2 DEF Load, RankInv, UniqueDraws
<1> QED BY <1>1, <1>2

\* The other steps draw nothing, and nobody comes to store in them.
LEMMA RankStutter ==
    ASSUME NEW rank, RankInv(rank), UNCHANGED <<rand2, drawn, count>>,
           \A g \in Handlers : draw'[g] = "store" => draw[g] = "store"
    PROVE  RankInv(rank)'
BY DEF RankInv, UniqueDraws

LEMMA EndsKeepsRank ==
    ASSUME NEW rank, NEW how, Ends(how)
    PROVE  RankInv(rank)'
BY FS_EmptySet DEF Ends, Unseeded, RankInv, UniqueDraws

\* Between two seeds no state of the generator is drawn twice, whichever handlers
\* draw and however they interleave, if the generator has the period that the
\* constants of nextSuffix give it (gvisor_linux.go:477-487).
THEOREM ServerUniqueDraws ==
    ASSUME NEW CONSTANT rank, PassesZero(rank)
    PROVE  ServerSpec => []UniqueDraws
<1>1. ServerInit => RankInv(rank)
  BY FS_EmptySet DEF ServerInit, NamesInit, RankInv, UniqueDraws
<1>2. ServerInv /\ RankInv(rank) /\ [ServerNext]_serverVars => RankInv(rank)'
  <2> SUFFICES ASSUME ServerInv, RankInv(rank), [ServerNext]_serverVars PROVE RankInv(rank)'
    OBVIOUS
  <2>i. DrawInv /\ draw \in [Handlers -> Draws]
    BY Split DEF DrawInv, NamesTypeOK, Draws
  <2>0. ASSUME UNCHANGED nameVars PROVE RankInv(rank)'
    BY <2>0, RankStutter DEF nameVars
  <2>1. CASE \/ Serve \/ Run \/ RunReturns \/ SignalStep \/ Listen \/ Restart
             \/ \E h \in Handlers : NewSandbox(h) \/ Cleanup(h)
    BY <2>0, <2>1 DEF Serve, Run, RunReturns, SignalStep, Notify, TakeSignal, Listen,
       Restart, NewSandbox, Cleanup
  <2>2. CASE Stop \/ Fatal
    BY <2>2, EndsKeepsRank DEF Stop, Fatal
  <2>3. ASSUME NEW k, Interrupt(k) PROVE RankInv(rank)'
    BY <2>0, <2>3, EndsKeepsRank DEF Interrupt
  <2>4. ASSUME NEW h \in Handlers, CallNext(h) \/ Lock(h) \/ Unlock(h)
        PROVE  RankInv(rank)'
    <3>1. /\ UNCHANGED <<rand2, drawn, count>>
          /\ \A g \in Handlers : draw'[g] = "store" => draw[g] = "store"
      BY <2>4, <2>i DEF CallNext, Lock, Unlock, At, Draws
    <3> QED BY <3>1, RankStutter
  <2>5. ASSUME NEW h \in Handlers, Create(h) \/ DrawName(h) PROVE RankInv(rank)'
    BY <2>5, <2>4, <2>i, LoadKeepsRank, StoreKeepsRank DEF Create, DrawName, DrawStep
  <2>6. CASE UNCHANGED serverVars
    BY <2>0, <2>6 DEF serverVars
  <2> QED BY <2>1, <2>2, <2>3, <2>5, <2>6 DEF ServerNext, MainStep
<1>3. RankInv(rank) => UniqueDraws
  BY DEF RankInv
<1> QED BY <1>1, <1>2, <1>3, ServerInvariant, PTL DEF ServerSpec
==============================================================================
