-------------------------- MODULE DescriptorsProofs --------------------------
(***************************************************************************)
(* Proofs about Descriptors: for any number of goroutines and any size of  *)
(* the descriptor table, nobody uses or closes a number that is not his    *)
(* any more, and a SocketPair that fails gives everything back.            *)
(***************************************************************************)
EXTENDS Descriptors, TLAPS

PCs == {"idle", "open", "link", "wrap", "wrapb", "listen",
        "have", "undo", "close", "failed"}

\* What DescInv says of one goroutine
ThreadInv(p) ==
    /\ \A s \in Slots : local[p][s] # 0 => owner[local[p][s]] = p
    /\ \A n \in Fds :
          owner[n] = p =>
              \/ \E s \in Slots : local[p][s] = n
              \/ pc[p] = "failed" /\ call[p] # "pair"
    /\ Stage(p)

LEMMA Split ==
    DescInv <=> /\ DescTypeOK
                /\ \A n \in files : owner[n] = "file"
                /\ \A p \in Threads : ThreadInv(p)
BY DEF DescInv, StillMine, PairRollsBack, ThreadInv

\* A step of p that takes nothing from the other goroutines and gives them nothing.
LEMMA OneKeepsInv ==
    ASSUME DescInv, DescTypeOK', NEW p \in Threads, ThreadInv(p)',
           \A n \in files' : owner'[n] = "file",
           \A q \in Threads \ {p} :
              /\ local'[q] = local[q] /\ pc'[q] = pc[q] /\ call'[q] = call[q]
              /\ \A n \in Fds : owner'[n] = q <=> owner[n] = q
    PROVE  DescInv'
<1>1. ASSUME NEW q \in Threads, q # p PROVE ThreadInv(q)'
  <2>1. ThreadInv(q)
    BY Split
  <2>2. \A s \in Slots : local[q][s] # 0 => local[q][s] \in Fds
    BY DEF DescInv, DescTypeOK
  <2>3. Stage(q)'
    BY <1>1, <2>1 DEF ThreadInv, Stage, Nothing
  <2>4. \A s \in Slots : local'[q][s] # 0 => owner'[local'[q][s]] = q
    BY <1>1, <2>1, <2>2 DEF ThreadInv
  <2>5. \A n \in Fds :
          owner'[n] = q =>
              \/ \E s \in Slots : local'[q][s] = n
              \/ pc'[q] = "failed" /\ call'[q] # "pair"
    BY <1>1, <2>1 DEF ThreadInv
  <2> QED BY <2>3, <2>4, <2>5 DEF ThreadInv
<1>2. \A q \in Threads : ThreadInv(q)'
  BY <1>1
<1> QED BY <1>2 DEF DescInv, StillMine, PairRollsBack, ThreadInv

\* The steps that only move a program counter.
LEMMA MoveKeepsInv ==
    ASSUME DescInv, NEW p \in Threads, NEW l \in PCs,
           pc' = [pc EXCEPT ![p] = l],
           UNCHANGED <<owner, local, files, call>>,
           pc[p] # "failed",
           l \in {"idle", "open", "failed"} => local[p] = Nothing,
           l \in {"link", "listen"} => call[p] # "pair",
           l \in {"wrap", "wrapb", "have"} /\ call[p] = "pair" => local[p][B] # 0,
           l \in {"link", "wrap"} => local[p][EA] = 0,
           l \in {"link", "wrap", "wrapb"} => local[p][EB] = 0
    PROVE  DescInv'
<1>1. DescTypeOK'
  BY DEF DescInv, DescTypeOK, PCs
<1>2. pc'[p] = l /\ \A q \in Threads \ {p} : pc'[q] = pc[q]
  BY DEF DescInv, DescTypeOK
<1>3. ThreadInv(p)
  BY Split
<1>4. ThreadInv(p)'
  BY <1>2, <1>3 DEF ThreadInv, Stage, Nothing
<1>5. \A n \in files' : owner'[n] = "file"
  BY DEF DescInv, StillMine
<1> QED BY <1>1, <1>2, <1>4, <1>5, OneKeepsInv

\* The kernel gives p a descriptor for an empty slot.
LEMMA OpensKeepsInv ==
    ASSUME DescInv, NEW p \in Threads, NEW s \in Slots, NEW l \in PCs,
           pc' = [pc EXCEPT ![p] = l], Opens(p, s),
           UNCHANGED <<files, call>>,
           local[p][s] = 0, pc[p] # "failed",
           l \notin {"idle", "open", "failed"},
           l \in {"link", "listen"} => call[p] # "pair",
           l \in {"wrap", "wrapb", "have"} /\ call[p] = "pair" => local[p][B] # 0 \/ s = B,
           l \in {"link", "wrap"} => local[p][EA] = 0 /\ s # EA,
           l \in {"link", "wrap", "wrapb"} => local[p][EB] = 0 /\ s # EB
    PROVE  DescInv'
<1>0. PICK n \in Fds :
        /\ owner[n] = "free"
        /\ owner' = [owner EXCEPT ![n] = p]
        /\ local' = [local EXCEPT ![p][s] = n]
  BY DEF Opens, Lowest
<1>t. /\ owner \in [Fds -> Threads \cup Tags]
      /\ local \in [Threads -> [Slots -> {0} \cup Fds]]
      /\ pc \in [Threads -> PCs]
      /\ 0 \notin Fds
      /\ p \notin Tags
  BY DescriptorsAssumption DEF DescInv, DescTypeOK, PCs, Fds
<1>f. pc'[p] = l /\ \A q \in Threads \ {p} : pc'[q] = pc[q] /\ local'[q] = local[q]
  BY <1>0, <1>t
<1>o. owner'[n] = p /\ \A m \in Fds : m # n => owner'[m] = owner[m]
  BY <1>0, <1>t
<1>l. local'[p][s] = n /\ \A t \in Slots : t # s => local'[p][t] = local[p][t]
  BY <1>0, <1>t
<1>1. DescTypeOK'
  <2>1. owner' \in [Fds -> Threads \cup Tags] /\ pc' \in [Threads -> PCs]
    BY <1>0, <1>t
  <2>2. local' \in [Threads -> [Slots -> {0} \cup Fds]]
    BY <1>0, <1>t
  <2> QED BY <2>1, <2>2 DEF DescInv, DescTypeOK, PCs
<1>3. ThreadInv(p)
  BY Split
<1>4. \A t \in Slots : local[p][t] # n
  BY <1>0, <1>t, <1>3 DEF ThreadInv, Tags
<1>5. Stage(p)'
  <2>1. \A t, u \in Slots : local'[p][t] = local'[p][u] /\ local'[p][t] # 0 => t = u
    BY <1>l, <1>3, <1>4 DEF ThreadInv, Stage
  <2> QED BY <2>1, <1>l, <1>f, <1>t DEF Stage, EA, EB, B, Slots
<1>6. \A t \in Slots : local'[p][t] # 0 => owner'[local'[p][t]] = p
  BY <1>l, <1>o, <1>3, <1>t DEF ThreadInv
<1>7. \A m \in Fds : owner'[m] = p => \E t \in Slots : local'[p][t] = m
  <2> SUFFICES ASSUME NEW m \in Fds, owner'[m] = p, m # n
               PROVE  \E t \in Slots : local'[p][t] = m
    BY <1>l
  <2>1. PICK t \in Slots : local[p][t] = m
    BY <1>o, <1>3 DEF ThreadInv
  <2> QED BY <2>1, <1>l, <1>t
<1>8. \A m \in files' : owner'[m] = "file"
  BY <1>0, <1>o, <1>t DEF DescInv, StillMine, DescTypeOK
<1>9. \A q \in Threads \ {p}, m \in Fds : owner'[m] = q <=> owner[m] = q
  BY <1>0, <1>o, DescriptorsAssumption DEF Tags
<1> QED
  BY <1>1, <1>5, <1>6, <1>7, <1>8, <1>9, <1>f, OneKeepsInv DEF ThreadInv

\* p closes a descriptor it has in one of its variables.
LEMMA FreesKeepsInv ==
    ASSUME DescInv, NEW p \in Threads, NEW s \in Slots,
           local[p][s] # 0,
           owner' = [owner EXCEPT ![local[p][s]] = "free"],
           local' = [local EXCEPT ![p][s] = 0],
           UNCHANGED <<files, pc, call>>,
           pc[p] \in {"undo", "close"} \/ (pc[p] = "have" /\ call[p] # "pair")
    PROVE  DescInv'
<1>t. /\ owner \in [Fds -> Threads \cup Tags]
      /\ local \in [Threads -> [Slots -> {0} \cup Fds]]
      /\ Threads \cap Tags = {}
  BY DescriptorsAssumption DEF DescInv, DescTypeOK
<1>i. ThreadInv(p) /\ Stage(p)
  BY Split DEF DescInv
<1> DEFINE n == local[p][s]
<1>2. n \in Fds /\ owner[n] = p /\ p \notin Tags
  BY <1>t, <1>i DEF ThreadInv
<1>3. owner'[n] = "free" /\ \A m \in Fds : m # n => owner'[m] = owner[m]
  BY <1>2, <1>t
<1>4. local'[p][s] = 0 /\ \A t \in Slots : t # s => local'[p][t] = local[p][t]
  BY <1>t
<1>5. \A q \in Threads \ {p} : local'[q] = local[q]
  BY <1>t
<1>6. DescTypeOK'
  <2>1. owner' \in [Fds -> Threads \cup Tags]
    BY <1>2, <1>t DEF Tags
  <2>2. local' \in [Threads -> [Slots -> {0} \cup Fds]]
    BY <1>t
  <2> QED BY <2>1, <2>2 DEF DescInv, DescTypeOK
<1>7. \A t \in Slots : t # s => local[p][t] # n
  BY <1>i DEF Stage
<1>8. Stage(p)'
  BY <1>4, <1>i DEF Stage
<1>9. \A t \in Slots : local'[p][t] # 0 => owner'[local'[p][t]] = p
  BY <1>3, <1>4, <1>7, <1>i, <1>t DEF ThreadInv
<1>10. \A m \in Fds : owner'[m] = p => \E t \in Slots : local'[p][t] = m
  BY <1>2, <1>3, <1>4, <1>i DEF ThreadInv, Tags
<1>11. \A m \in files' : owner'[m] = "file"
  BY <1>2, <1>3 DEF DescInv, StillMine, DescTypeOK, Tags
<1>12. \A q \in Threads \ {p}, m \in Fds : owner'[m] = q <=> owner[m] = q
  BY <1>2, <1>3, <1>t DEF Tags
<1> QED BY <1>5, <1>6, <1>8, <1>9, <1>10, <1>11, <1>12, OneKeepsInv DEF ThreadInv

\* p ends a call, and what it has opened is the business of nobody, or of a File.
LEMMA GivesKeepsInv ==
    ASSUME DescInv, NEW p \in Threads,
           pc' = [pc EXCEPT ![p] = "idle"],
           local' = [local EXCEPT ![p] = Nothing],
           call' = call,
           NEW F \in SUBSET Fds,
           files' = files \cup F,
           \A n \in F : owner[n] = p,
           owner' = [n \in Fds |-> IF n \in F THEN "file" ELSE PassOn(p, "lost")[n]]
    PROVE  DescInv'
<1>t. /\ owner \in [Fds -> Threads \cup Tags]
      /\ local \in [Threads -> [Slots -> {0} \cup Fds]]
      /\ pc \in [Threads -> PCs]
      /\ files \subseteq Fds
      /\ Threads \cap Tags = {}
  BY DescriptorsAssumption DEF DescInv, DescTypeOK, PCs
<1>n. Nothing \in [Slots -> {0} \cup Fds] /\ \A s \in Slots : Nothing[s] = 0
  BY DEF Nothing
<1>f. /\ pc'[p] = "idle" /\ local'[p] = Nothing
      /\ \A q \in Threads \ {p} : pc'[q] = pc[q] /\ local'[q] = local[q]
  BY <1>t
<1>o. \A n \in Fds : owner'[n] = IF n \in F THEN "file"
                                 ELSE IF owner[n] = p THEN "lost" ELSE owner[n]
  BY DEF PassOn
<1>1. DescTypeOK'
  <2>1. owner' \in [Fds -> Threads \cup Tags]
    <3>1. \A n \in Fds : owner'[n] \in Threads \cup Tags
      BY <1>o, <1>t DEF Tags
    <3> QED BY <3>1
  <2>2. local' \in [Threads -> [Slots -> {0} \cup Fds]] /\ pc' \in [Threads -> PCs]
    BY <1>t, <1>n DEF PCs
  <2> QED BY <2>1, <2>2, <1>t DEF DescInv, DescTypeOK, PCs
<1>2. \A n \in Fds : owner'[n] # p
  BY <1>o, <1>t DEF Tags
<1>3. ThreadInv(p)'
  BY <1>2, <1>f, <1>n DEF ThreadInv, Stage
<1>4. \A n \in files' : owner'[n] = "file"
  BY <1>o, <1>t DEF DescInv, StillMine, Tags
<1>5. \A q \in Threads \ {p}, n \in Fds : owner'[n] = q <=> owner[n] = q
  BY <1>o, <1>t DEF Tags
<1> QED BY <1>1, <1>3, <1>4, <1>5, <1>f, OneKeepsInv

\* The rest of the process, and the finaliser, leave the calls alone.
LEMMA OthersKeepInv ==
    ASSUME DescInv, UNCHANGED <<local, pc, call>>,
           NEW n \in Fds, NEW t \in {"free", "other"},
           owner[n] \in Tags,
           owner' = [owner EXCEPT ![n] = t],
           files' \subseteq files, owner[n] = "file" => n \notin files'
    PROVE  DescInv'
<1>t. /\ owner \in [Fds -> Threads \cup Tags]
      /\ files \subseteq Fds
      /\ Threads \cap Tags = {}
  BY DescriptorsAssumption DEF DescInv, DescTypeOK
<1>o. owner'[n] = t /\ \A m \in Fds : m # n => owner'[m] = owner[m]
  BY <1>t
<1>1. DescTypeOK'
  BY <1>t DEF DescInv, DescTypeOK, Tags
<1>2. \A q \in Threads, m \in Fds : owner'[m] = q <=> owner[m] = q
  BY <1>o, <1>t DEF Tags
<1>3. \A m \in files' : owner'[m] = "file"
  BY <1>o, <1>t DEF DescInv, StillMine
<1>4. ASSUME NEW q \in Threads PROVE DescInv'
  <2>1. ThreadInv(q)
    BY Split
  <2>2. \A s \in Slots : local[q][s] # 0 => local[q][s] \in Fds
    BY DEF DescInv, DescTypeOK
  <2>3. ThreadInv(q)'
    BY <1>2, <2>1, <2>2 DEF ThreadInv, Stage, Nothing
  <2> QED BY <1>1, <1>2, <1>3, <2>3, OneKeepsInv
<1>5. CASE Threads = {}
  BY <1>1, <1>3, <1>5 DEF DescInv, StillMine, PairRollsBack
<1> QED BY <1>4, <1>5

\* The steps of the constructors.
LEMMA ConstructKeepsInv ==
    ASSUME DescInv, NEW p \in Threads, ConstructStep(p)
    PROVE  DescInv'
<1> USE DEF PCs
<1>t. /\ owner \in [Fds -> Threads \cup Tags]
      /\ local \in [Threads -> [Slots -> {0} \cup Fds]]
      /\ pc \in [Threads -> PCs]
      /\ call \in [Threads -> Constructors]
      /\ 0 \notin Fds
      /\ Threads \cap Tags = {}
  BY DescriptorsAssumption DEF DescInv, DescTypeOK, Fds
<1>i. ThreadInv(p) /\ Stage(p)
  BY Split DEF DescInv
<1>n. Nothing \in [Slots -> {0} \cup Fds] /\ \A s \in Slots : Nothing[s] = 0
  BY DEF Nothing
<1>s. EA \in Slots /\ A \in Slots /\ EB \in Slots /\ B \in Slots
  BY DEF EA, A, EB, B, Slots
<1>1. CASE Call(p)
  <2>1. pc[p] = "idle" /\ pc'[p] = "open" /\ local' = local /\ owner' = owner /\ files' = files
    BY <1>1, <1>t DEF Call, Goto
  <2>2. \A q \in Threads \ {p} : pc'[q] = pc[q] /\ call'[q] = call[q]
    BY <1>1, <1>t DEF Call, Goto
  <2>3. DescTypeOK'
    BY <1>1, <1>t DEF Call, Goto, DescInv, DescTypeOK
  <2>4. \A n \in Fds : owner[n] # p
    BY <2>1, <1>i, <1>n DEF ThreadInv, Stage, Fds
  <2>5. ThreadInv(p)'
    BY <2>1, <2>4, <1>i, <1>n DEF ThreadInv, Stage
  <2>6. \A n \in files' : owner'[n] = "file"
    BY <2>1 DEF DescInv, StillMine
  <2> QED BY <2>1, <2>2, <2>3, <2>5, <2>6, OneKeepsInv
<1>2. CASE OpenPair(p)
  <2>0. PICK n, m \in Fds :
          /\ owner[n] = "free" /\ owner[m] = "free" /\ n # m
          /\ owner' = [owner EXCEPT ![n] = p, ![m] = p]
          /\ local' = [local EXCEPT ![p] = [@ EXCEPT ![A] = n, ![B] = m]]
    BY <1>2 DEF OpenPair, Second, Lowest, Fds
  <2>1. /\ call[p] = "pair" /\ call' = call /\ files' = files
        /\ pc[p] = "open" /\ pc'[p] = "wrap" /\ pc' \in [Threads -> PCs]
        /\ \A q \in Threads \ {p} : pc'[q] = pc[q]
    BY <1>2, <1>t DEF OpenPair, Goto
  <2>2. local[p] = Nothing
    BY <2>1, <1>i DEF Stage
  <2>3. /\ local'[p][A] = n /\ local'[p][B] = m
        /\ local'[p][EA] = 0 /\ local'[p][EB] = 0
    BY <2>0, <2>2, <1>t, <1>n, <1>s DEF EA, A, EB, B
  <2>4. local' \in [Threads -> [Slots -> {0} \cup Fds]]
    <3>1. [local[p] EXCEPT ![A] = n, ![B] = m] \in [Slots -> {0} \cup Fds]
      BY <1>t
    <3> QED BY <2>0, <3>1, <1>t
  <2>5. /\ owner' \in [Fds -> Threads \cup Tags]
        /\ owner'[n] = p /\ owner'[m] = p
        /\ \A k \in Fds : k # n /\ k # m => owner'[k] = owner[k]
    BY <2>0, <1>t
  <2>6. DescTypeOK'
    BY <2>1, <2>4, <2>5 DEF DescInv, DescTypeOK
  <2>7. \A k \in Fds : owner[k] # p
    BY <2>1, <2>2, <1>i, <1>t, <1>n DEF ThreadInv
  <2>8. \A s \in Slots : s = EA \/ s = A \/ s = EB \/ s = B
    BY DEF EA, A, EB, B, Slots
  <2>9. Stage(p)'
    <3>1. \A s, t \in Slots : local'[p][s] = local'[p][t] /\ local'[p][s] # 0 => s = t
      BY <2>0, <2>3, <2>8, <1>t
    <3> QED BY <3>1, <2>0, <2>1, <2>3, <1>t DEF Stage
  <2>10. ThreadInv(p)'
    BY <2>3, <2>5, <2>7, <2>8, <2>9, <1>s DEF ThreadInv
  <2>11. \A k \in files' : owner'[k] = "file"
    BY <2>0, <2>1, <2>5 DEF DescInv, StillMine, DescTypeOK
  <2>12. \A q \in Threads \ {p}, k \in Fds : owner'[k] = q <=> owner[k] = q
    BY <2>0, <2>5, <1>t DEF Tags
  <2>13. \A q \in Threads \ {p} : local'[q] = local[q]
    BY <2>0, <1>t
  <2> QED BY <2>1, <2>6, <2>10, <2>11, <2>12, <2>13, OneKeepsInv
<1>3. CASE OpenSocket(p)
  <2>1. PICK l \in {"wrap", "link"} : pc' = [pc EXCEPT ![p] = l]
    BY <1>3 DEF OpenSocket, Goto
  <2>2. /\ pc[p] = "open" /\ call[p] # "pair" /\ Opens(p, A)
        /\ UNCHANGED <<files, call>>
    BY <1>3 DEF OpenSocket, Goto
  <2>3. \A s \in Slots : local[p][s] = 0
    BY <2>2, <1>i, <1>n DEF Stage
  <2>4. A # EA /\ A # EB
    BY DEF A, EA, EB
  <2> QED BY <2>1, <2>2, <2>3, <2>4, <1>s, OpensKeepsInv
<1>4. CASE OpenFails(p)
  <2>1. pc[p] = "open" /\ pc' = [pc EXCEPT ![p] = "failed"]
    BY <1>4 DEF OpenFails, Goto
  <2> QED BY <2>1, <1>4, <1>i, MoveKeepsInv DEF OpenFails, Stage
<1>5. CASE Link(p)
  <2>1. PICK l \in {"wrap", "undo"} : pc' = [pc EXCEPT ![p] = l]
    BY <1>5 DEF Link, Goto
  <2>2. pc[p] = "link" /\ UNCHANGED <<owner, local, files, call>>
    BY <1>5 DEF Link, Goto
  <2>3. CASE l = "undo"
    BY <2>1, <2>2, <2>3, MoveKeepsInv
  <2>4. CASE l = "wrap" /\ call[p] # "pair"
    BY <2>1, <2>2, <2>4, <1>i, MoveKeepsInv DEF Stage
  <2>5. call[p] # "pair"
    BY <2>2, <1>i DEF Stage
  <2> QED BY <2>1, <2>3, <2>4, <2>5
<1>6. CASE NewSocket(p)
  <2>1. pc[p] = "wrap" /\ Opens(p, EA) /\ UNCHANGED <<files, call>>
    BY <1>6 DEF NewSocket, Goto
  <2>2. PICK l \in {"wrapb", "listen", "have"} :
          pc' = [pc EXCEPT ![p] = l] /\ (l = "listen" => call[p] # "pair")
    BY <1>6 DEF NewSocket, Goto, AfterWrap
  <2>3. /\ local[p][EA] = 0 /\ local[p][EB] = 0
        /\ call[p] = "pair" => local[p][B] # 0
    BY <2>1, <1>i DEF Stage
  <2>4. EA # EB
    BY DEF EA, EB
  <2> QED BY <2>1, <2>2, <2>3, <2>4, <1>s, OpensKeepsInv
<1>7. CASE NewSocketFails(p)
  <2>1. CASE call[p] = "pair"
    <3>1. pc[p] = "wrap" /\ pc' = [pc EXCEPT ![p] = "undo"]
          /\ UNCHANGED <<owner, local, files, call>>
      BY <1>7, <2>1 DEF NewSocketFails, Goto
    <3> QED BY <3>1, MoveKeepsInv
  <2>2. CASE call[p] # "pair"
    <3>1. pc' = [pc EXCEPT ![p] = "failed"] /\ local' = [local EXCEPT ![p] = Nothing]
          /\ UNCHANGED <<owner, files, call>>
      BY <1>7, <2>2 DEF NewSocketFails, Goto
    <3>2. /\ pc'[p] = "failed" /\ local'[p] = Nothing
          /\ \A q \in Threads \ {p} : pc'[q] = pc[q] /\ local'[q] = local[q]
      BY <3>1, <1>t
    <3>3. DescTypeOK'
      BY <3>1, <1>t, <1>n DEF DescInv, DescTypeOK
    <3>4. ThreadInv(p)'
      BY <2>2, <3>1, <3>2, <1>n DEF ThreadInv, Stage
    <3>5. \A n \in files' : owner'[n] = "file"
      BY <3>1 DEF DescInv, StillMine
    <3> QED BY <3>1, <3>2, <3>3, <3>4, <3>5, OneKeepsInv
  <2> QED BY <2>1, <2>2
<1>8. CASE NewSocketB(p)
  <2>0. pc[p] = "wrapb" /\ UNCHANGED <<files, call>>
    BY <1>8 DEF NewSocketB, Goto
  <2>1. CASE Goto(p, "wrapb", "have") /\ Opens(p, EB)
    <3>1. pc' = [pc EXCEPT ![p] = "have"] /\ Opens(p, EB)
      BY <2>1 DEF Goto
    <3>2. local[p][EB] = 0 /\ (call[p] = "pair" => local[p][B] # 0)
      BY <2>0, <1>i DEF Stage
    <3> QED BY <2>0, <3>1, <3>2, <1>s, OpensKeepsInv
  <2>2. CASE Goto(p, "wrapb", "undo") /\ UNCHANGED <<owner, local>>
    <3>1. pc' = [pc EXCEPT ![p] = "undo"] /\ UNCHANGED <<owner, local, files, call>>
      BY <2>0, <2>2 DEF Goto
    <3> QED BY <2>0, <3>1, MoveKeepsInv
  <2> QED BY <1>8, <2>1, <2>2 DEF NewSocketB
<1>9. CASE Listen(p)
  <2>1. PICK l \in {"have", "undo"} : pc' = [pc EXCEPT ![p] = l]
    BY <1>9 DEF Listen, Goto
  <2>2. pc[p] = "listen" /\ UNCHANGED <<owner, local, files, call>>
    BY <1>9 DEF Listen, Goto
  <2>3. call[p] # "pair"
    BY <2>2, <1>i DEF Stage
  <2> QED BY <2>1, <2>2, <2>3, MoveKeepsInv
<1>10. CASE CloseOne(p)
  <2>1. PICK s \in Slots :
          /\ local[p][s] # 0
          /\ owner' = [owner EXCEPT ![local[p][s]] = "free"]
          /\ local' = [local EXCEPT ![p][s] = 0]
    BY <1>10 DEF CloseOne
  <2>2. pc[p] \in {"undo", "close"} /\ UNCHANGED <<files, pc, call>>
    BY <1>10 DEF CloseOne
  <2> QED BY <2>1, <2>2, FreesKeepsInv
<1>11. CASE ClosedAll(p)
  <2>1. PICK l \in {"failed", "idle"} : pc' = [pc EXCEPT ![p] = l]
    BY <1>11 DEF ClosedAll, Goto
  <2>2. pc[p] # "failed" /\ local[p] = Nothing /\ UNCHANGED <<owner, local, files, call>>
    BY <1>11 DEF ClosedAll, Goto
  <2> QED BY <2>1, <2>2, MoveKeepsInv
<1> QED
  BY <1>1, <1>2, <1>3, <1>4, <1>5, <1>6, <1>7, <1>8, <1>9, <1>10, <1>11 DEF ConstructStep

\* The steps of the callers.
LEMMA CallerKeepsInv ==
    ASSUME DescInv, NEW p \in Threads, CallerStep(p)
    PROVE  DescInv'
<1> USE DEF PCs
<1>t. /\ owner \in [Fds -> Threads \cup Tags]
      /\ local \in [Threads -> [Slots -> {0} \cup Fds]]
      /\ pc \in [Threads -> PCs]
      /\ 0 \notin Fds
      /\ Threads \cap Tags = {}
  BY DescriptorsAssumption DEF DescInv, DescTypeOK, Fds
<1>i. ThreadInv(p) /\ Stage(p)
  BY Split DEF DescInv
<1>n. Nothing \in [Slots -> {0} \cup Fds] /\ \A s \in Slots : Nothing[s] = 0
  BY DEF Nothing
<1>e. PICK E \in SUBSET Fds : E = {}
  OBVIOUS
<1>1. CASE Close(p)
  <2>1. pc[p] = "have" /\ pc' = [pc EXCEPT ![p] = "close"]
    BY <1>1 DEF Close, Goto
  <2> QED BY <2>1, <1>1, MoveKeepsInv DEF Close
<1>2. CASE HandOver(p)
  <2> DEFINE F == {local[p][B]}
  <2>1. /\ pc[p] = "have" /\ pc' = [pc EXCEPT ![p] = "idle"]
        /\ local' = [local EXCEPT ![p] = Nothing] /\ call' = call
        /\ files' = files \cup F
    BY <1>2 DEF HandOver, Goto
  <2>2. local[p][B] # 0 /\ B \in Slots
    BY <1>2, <2>1, <1>i DEF HandOver, Stage, B, Slots
  <2>3. F \in SUBSET Fds /\ \A n \in F : owner[n] = p
    BY <2>2, <1>t, <1>i DEF ThreadInv
  <2>4. owner' = [n \in Fds |-> IF n \in F THEN "file" ELSE PassOn(p, "lost")[n]]
    BY <1>2, <2>3, <1>e DEF HandOver, PassOn
  <2> QED BY <2>1, <2>3, <2>4, <1>e, GivesKeepsInv
<1>3. CASE Abandon(p)
  <2>1. /\ pc' = [pc EXCEPT ![p] = "idle"] /\ local' = [local EXCEPT ![p] = Nothing]
        /\ call' = call /\ files' = files \cup E
    BY <1>3, <1>e DEF Abandon, Goto
  <2>2. owner' = [n \in Fds |-> IF n \in E THEN "file" ELSE PassOn(p, "lost")[n]]
    BY <1>3, <1>e DEF Abandon, PassOn
  <2> QED BY <2>1, <2>2, <1>e, GivesKeepsInv
<1>4. CASE Receive(p)
  <2>1. /\ pc[p] = "have" /\ pc' = [pc EXCEPT ![p] = "have"] /\ Opens(p, B)
        /\ local[p][B] = 0 /\ call[p] # "pair" /\ UNCHANGED <<files, call>>
    BY <1>4 DEF Receive, Goto
  <2>2. B \in Slots
    BY DEF B, Slots
  <2> QED BY <2>1, <2>2, OpensKeepsInv
<1>5. CASE CloseFDs(p)
  <2>1. /\ pc[p] = "have" /\ pc' = pc /\ call[p] # "pair" /\ local[p][B] # 0
        /\ owner' = [owner EXCEPT ![local[p][B]] = "free"]
        /\ local' = [local EXCEPT ![p][B] = 0]
        /\ UNCHANGED <<files, call>>
    BY <1>5, <1>t DEF CloseFDs, Goto
  <2>2. B \in Slots
    BY DEF B, Slots
  <2> QED BY <2>1, <2>2, FreesKeepsInv
<1>6. CASE Return(p)
  <2>1. /\ pc[p] = "failed" /\ pc' = [pc EXCEPT ![p] = "idle"]
        /\ call' = call /\ files' = files \cup E
    BY <1>6, <1>e DEF Return, Goto
  <2>2. local' = [local EXCEPT ![p] = Nothing]
    <3>1. local[p] = Nothing
      BY <2>1, <1>i DEF Stage
    <3> QED BY <1>6, <3>1, <1>t DEF Return
  <2>3. owner' = [n \in Fds |-> IF n \in E THEN "file" ELSE PassOn(p, "lost")[n]]
    BY <1>6, <1>e DEF Return, PassOn
  <2> QED BY <2>1, <2>2, <2>3, <1>e, GivesKeepsInv
<1>7. CASE Fatal(p)
  <2>1. DescTypeOK'
    BY <1>7, <1>n DEF Fatal, DescInv, DescTypeOK, Tags
  <2>2. \A q \in Threads, n \in Fds : owner'[n] # q
    BY <1>7, <1>t DEF Fatal, Tags
  <2>3. \A q \in Threads : local'[q] = Nothing /\ pc'[q] = "idle"
    BY <1>7 DEF Fatal
  <2>4. \A q \in Threads : ThreadInv(q)'
    BY <2>2, <2>3, <1>n DEF ThreadInv, Stage
  <2>5. files' = {}
    BY <1>7 DEF Fatal
  <2> QED BY <2>1, <2>4, <2>5 DEF DescInv, StillMine, PairRollsBack, ThreadInv
<1> QED BY <1>1, <1>2, <1>3, <1>4, <1>5, <1>6, <1>7 DEF CallerStep

----------------------------------------------------------------------------

\* At every step of every call its variables hold exactly the descriptors that
\* were opened for it, for any size of the table (unet.go:201-248, 494-507).
THEOREM DescriptorsInvariant == DescSpec => []DescInv
<1>1. DescInit => DescInv
  <2> SUFFICES ASSUME DescInit PROVE DescInv
    OBVIOUS
  <2>1. DescTypeOK
    BY DEF DescInit, DescTypeOK, Nothing, Tags, Constructors
  <2>2. \A p \in Threads, n \in Fds : owner[n] # p
    BY DescriptorsAssumption DEF DescInit, Tags
  <2>3. \A p \in Threads : local[p] = Nothing /\ pc[p] = "idle"
    BY DEF DescInit
  <2>4. \A s \in Slots : Nothing[s] = 0
    BY DEF Nothing
  <2>5. \A p \in Threads : ThreadInv(p)
    BY <2>2, <2>3, <2>4 DEF ThreadInv, Stage
  <2>6. files = {}
    BY DEF DescInit
  <2> QED BY <2>1, <2>5, <2>6, Split
<1>2. DescInv /\ [DescNext]_descVars => DescInv'
  <2> SUFFICES ASSUME DescInv, [DescNext]_descVars PROVE DescInv'
    OBVIOUS
  <2>t. /\ Threads \cap Tags = {} /\ files \subseteq Fds
        /\ \A n \in files : owner[n] = "file"
    BY DescriptorsAssumption DEF DescInv, DescTypeOK, StillMine
  <2>1. CASE \E p \in Threads : ConstructStep(p) \/ CallerStep(p)
    BY <2>1, ConstructKeepsInv, CallerKeepsInv
  <2>2. ASSUME NEW n \in Fds, Finalize(n) PROVE DescInv'
    <3>1. /\ UNCHANGED <<local, pc, call>> /\ owner' = [owner EXCEPT ![n] = "free"]
          /\ n \in files /\ files' = files \ {n}
      BY <2>2 DEF Finalize
    <3>2. owner[n] \in Tags
      BY <3>1, <2>t DEF Tags
    <3> QED BY <3>1, <3>2, OthersKeepInv
  <2>3. CASE Others
    <3>1. UNCHANGED <<local, files, pc, call>>
      BY <2>3 DEF Others
    <3>2. PICK n \in Fds, t \in {"free", "other"} :
            owner[n] \in {"free", "other"} /\ owner' = [owner EXCEPT ![n] = t]
      BY <2>3 DEF Others, Lowest
    <3>3. owner[n] \in Tags /\ owner[n] # "file"
      BY <3>2 DEF Tags
    <3> QED BY <3>1, <3>2, <3>3, OthersKeepInv
  <2>4. CASE UNCHANGED descVars
    BY <2>4 DEF descVars, DescInv, DescTypeOK, StillMine, PairRollsBack, Stage, Nothing
  <2> QED BY <2>1, <2>2, <2>3, <2>4 DEF DescNext
<1> QED BY <1>1, <1>2, PTL DEF DescSpec

\* No number is used or closed after the kernel has given it to somebody else.
THEOREM DescriptorsStillMine == DescSpec => []StillMine
<1>1. DescInv => StillMine
  BY DEF DescInv
<1> QED BY <1>1, DescriptorsInvariant, PTL

\* A SocketPair that fails at the limit of the table leaves nothing open
\* (unet.go:219-220 and 226-227), provided Close succeeds on a socket just made.
THEOREM DescriptorsPairRollsBack == DescSpec => []PairRollsBack
<1>1. DescInv => PairRollsBack
  BY DEF DescInv
<1> QED BY <1>1, DescriptorsInvariant, PTL

----------------------------------------------------------------------------
(* Who closes a descriptor *)

\* A step of p that takes only free descriptors and those of p.
LEMMA OwnStep ==
    ASSUME NEW p \in Threads, StepOf(p),
           \A n \in Fds : owner'[n] # owner[n] => owner[n] = "free" \/ owner[n] = p
    PROVE  \A n \in Fds : owner'[n] # owner[n] => MayChange(n)
BY DEF MayChange

\* p gives away what it has at its return to idle.
LEMMA PassesOwn ==
    ASSUME DescInv, NEW p \in Threads, pc[p] # "idle", pc' = [pc EXCEPT ![p] = "idle"],
           \A q \in Threads \ {p} : local'[q] = local[q],
           \A n \in Fds : owner[n] # p => owner'[n] = owner[n]
    PROVE  \A n \in Fds : owner'[n] # owner[n] => MayChange(n)
<1>1. pc \in [Threads -> PCs]
  BY DEF DescInv, DescTypeOK, PCs
<1>2. StepOf(p)
  BY <1>1 DEF StepOf
<1> QED BY <1>2, OwnStep

\* The kernel gives p a descriptor that was free.
LEMMA OpensOwn ==
    ASSUME DescInv, NEW p \in Threads, NEW s \in Slots, Opens(p, s), local[p][s] = 0,
           \A q \in Threads \ {p} : pc'[q] = pc[q]
    PROVE  \A n \in Fds : owner'[n] # owner[n] => MayChange(n)
<1>1. PICK n \in Fds :
        /\ owner[n] = "free"
        /\ owner' = [owner EXCEPT ![n] = p]
        /\ local' = [local EXCEPT ![p][s] = n]
  BY DEF Opens, Lowest
<1>2. /\ owner \in [Fds -> Threads \cup Tags]
      /\ local \in [Threads -> [Slots -> {0} \cup Fds]]
  BY DEF DescInv, DescTypeOK
<1>3. \A m \in Fds : m # n => owner'[m] = owner[m]
  BY <1>1, <1>2
<1> QED BY <1>1, <1>3 DEF MayChange

\* p closes the descriptor that is in one of its variables.
LEMMA FreesOwn ==
    ASSUME DescInv, NEW p \in Threads, NEW s \in Slots, local[p][s] # 0,
           owner' = [owner EXCEPT ![local[p][s]] = "free"],
           local' = [local EXCEPT ![p][s] = 0],
           \A q \in Threads \ {p} : pc'[q] = pc[q]
    PROVE  \A n \in Fds : owner'[n] # owner[n] => MayChange(n)
<1>1. /\ owner \in [Fds -> Threads \cup Tags]
      /\ local \in [Threads -> [Slots -> {0} \cup Fds]]
  BY DEF DescInv, DescTypeOK
<1>2. owner[local[p][s]] = p
  BY DEF DescInv, StillMine
<1>3. \A n \in Fds : n # local[p][s] => owner'[n] = owner[n]
  BY <1>1
<1>4. local'[p][s] = 0 /\ \A q \in Threads \ {p} : local'[q] = local[q]
  BY <1>1
<1>5. StepOf(p)
  BY <1>4 DEF StepOf
<1> QED BY <1>2, <1>3, <1>5, OwnStep

\* The steps of a goroutine, Fatal excepted.
LEMMA ThreadOwns ==
    ASSUME DescInv, NEW p \in Threads, ConstructStep(p) \/ CallerStep(p), ~Fatal(p)
    PROVE  \A n \in Fds : owner'[n] # owner[n] => MayChange(n)
<1>t. /\ owner \in [Fds -> Threads \cup Tags]
      /\ local \in [Threads -> [Slots -> {0} \cup Fds]]
      /\ pc \in [Threads -> PCs]
  BY DEF DescInv, DescTypeOK, PCs
<1>g. ASSUME NEW f, NEW l, Goto(p, f, l)
      PROVE  \A q \in Threads \ {p} : pc'[q] = pc[q]
  BY <1>g, <1>t DEF Goto
<1>s. EA \in Slots /\ A \in Slots /\ EB \in Slots /\ B \in Slots
  BY DEF EA, A, EB, B, Slots
<1>i. Stage(p)
  BY DEF DescInv
<1>n. \A s \in Slots : Nothing[s] = 0
  BY DEF Nothing
<1>1. CASE owner' = owner
  BY <1>1
<1>2. CASE OpenPair(p)
  <2>1. PICK n, m \in Fds :
          /\ owner[n] = "free" /\ owner[m] = "free"
          /\ owner' = [owner EXCEPT ![n] = p, ![m] = p]
    BY <1>2 DEF OpenPair, Second, Lowest
  <2>2. \A k \in Fds : k # n /\ k # m => owner'[k] = owner[k]
    BY <2>1, <1>t
  <2> QED BY <2>1, <2>2 DEF MayChange
<1>3. CASE OpenSocket(p)
  <2>1. pc[p] = "open" /\ Opens(p, A) /\ \A q \in Threads \ {p} : pc'[q] = pc[q]
    BY <1>3, <1>g DEF OpenSocket, Goto
  <2>2. local[p][A] = 0
    BY <2>1, <1>i, <1>n, <1>s DEF Stage
  <2> QED BY <2>1, <2>2, <1>s, OpensOwn
<1>4. CASE NewSocket(p)
  <2>1. pc[p] = "wrap" /\ Opens(p, EA) /\ \A q \in Threads \ {p} : pc'[q] = pc[q]
    BY <1>4, <1>g DEF NewSocket, Goto
  <2>2. local[p][EA] = 0
    BY <2>1, <1>i DEF Stage
  <2> QED BY <2>1, <2>2, <1>s, OpensOwn
<1>5. CASE NewSocketB(p) /\ owner' # owner
  <2>1. pc[p] = "wrapb" /\ Opens(p, EB) /\ \A q \in Threads \ {p} : pc'[q] = pc[q]
    BY <1>5, <1>g DEF NewSocketB, Goto
  <2>2. local[p][EB] = 0
    BY <2>1, <1>i DEF Stage
  <2> QED BY <2>1, <2>2, <1>s, OpensOwn
<1>6. CASE CloseOne(p)
  <2>1. PICK s \in Slots :
          /\ local[p][s] # 0
          /\ owner' = [owner EXCEPT ![local[p][s]] = "free"]
          /\ local' = [local EXCEPT ![p][s] = 0]
    BY <1>6 DEF CloseOne
  <2>2. pc' = pc
    BY <1>6 DEF CloseOne
  <2> QED BY <2>1, <2>2, FreesOwn
<1>7. CASE HandOver(p)
  <2>1. /\ pc[p] = "have" /\ pc' = [pc EXCEPT ![p] = "idle"] /\ call[p] = "pair"
        /\ owner' = [PassOn(p, "lost") EXCEPT ![local[p][B]] = "file"]
        /\ local' = [local EXCEPT ![p] = Nothing]
    BY <1>7 DEF HandOver, Goto
  <2>2. owner[local[p][B]] = p
    BY <2>1, <1>i, <1>s DEF DescInv, StillMine, Stage
  <2>3. \A n \in Fds : owner[n] # p => owner'[n] = owner[n]
    BY <2>1, <2>2 DEF PassOn
  <2> QED BY <2>1, <2>3, <1>t, PassesOwn
<1>8. CASE Abandon(p)
  <2>1. pc[p] = "have" /\ pc' = [pc EXCEPT ![p] = "idle"]
    BY <1>8 DEF Abandon, Goto
  <2>2. \A n \in Fds : owner[n] # p => owner'[n] = owner[n]
    BY <1>8 DEF Abandon, PassOn
  <2>3. \A q \in Threads \ {p} : local'[q] = local[q]
    BY <1>8, <1>t DEF Abandon
  <2> QED BY <2>1, <2>2, <2>3, PassesOwn
<1>9. CASE Receive(p)
  <2>1. Opens(p, B) /\ local[p][B] = 0 /\ \A q \in Threads \ {p} : pc'[q] = pc[q]
    BY <1>9, <1>g DEF Receive
  <2> QED BY <2>1, <1>s, OpensOwn
<1>10. CASE CloseFDs(p)
  <2>1. /\ local[p][B] # 0 /\ \A q \in Threads \ {p} : pc'[q] = pc[q]
        /\ owner' = [owner EXCEPT ![local[p][B]] = "free"]
        /\ local' = [local EXCEPT ![p][B] = 0]
    BY <1>10, <1>g DEF CloseFDs
  <2> QED BY <2>1, <1>s, FreesOwn
<1>11. CASE Return(p)
  <2>1. pc[p] = "failed" /\ pc' = [pc EXCEPT ![p] = "idle"] /\ local' = local
    BY <1>11 DEF Return, Goto
  <2>2. \A n \in Fds : owner[n] # p => owner'[n] = owner[n]
    BY <1>11 DEF Return, PassOn
  <2> QED BY <2>1, <2>2, PassesOwn
<1>12. CASE \/ Call(p) \/ OpenFails(p) \/ Link(p) \/ NewSocketFails(p) \/ Listen(p)
            \/ ClosedAll(p) \/ Close(p)
  BY <1>1, <1>12 DEF Call, OpenFails, Link, NewSocketFails, Listen, ClosedAll, Close
<1> QED
  BY <1>1, <1>2, <1>3, <1>4, <1>5, <1>6, <1>7, <1>8, <1>9, <1>10, <1>11, <1>12
  DEF ConstructStep, CallerStep

\* Nobody but its owner closes a descriptor, and a lost one stays open until the
\* process ends, for any number of goroutines and any size of the table
\* (unet.go:219-227, gvisor_linux.go:606-631).
THEOREM DescriptorsOnlyOwnerCloses == DescSpec => OnlyOwnerCloses
<1>1. ASSUME DescInv, [DescNext]_descVars
      PROVE  [Restarts \/ \A n \in Fds : owner'[n] # owner[n] => MayChange(n)]_descVars
  <2>t. owner \in [Fds -> Threads \cup Tags]
    BY <1>1 DEF DescInv, DescTypeOK
  <2>1. ASSUME NEW p \in Threads, Fatal(p) PROVE Restarts
    BY <2>1 DEF Fatal, Restarts
  <2>2. ASSUME NEW p \in Threads, ConstructStep(p) \/ CallerStep(p), ~Fatal(p)
        PROVE  \A n \in Fds : owner'[n] # owner[n] => MayChange(n)
    BY <1>1, <2>2, ThreadOwns
  <2>3. ASSUME NEW m \in Fds, Finalize(m)
        PROVE  \A n \in Fds : owner'[n] # owner[n] => MayChange(n)
    <3>1. /\ owner[m] = "file" /\ m \in files \ files' /\ UNCHANGED <<local, pc, call>>
          /\ owner' = [owner EXCEPT ![m] = "free"]
      BY <1>1, <2>3 DEF Finalize, DescInv, StillMine
    <3>2. \A n \in Fds : n # m => owner'[n] = owner[n]
      BY <3>1, <2>t
    <3> QED BY <3>1, <3>2 DEF MayChange
  <2>4. ASSUME Others
        PROVE  \A n \in Fds : owner'[n] # owner[n] => MayChange(n)
    <3>1. UNCHANGED <<local, files, pc, call>>
      BY <2>4 DEF Others
    <3>2. PICK m \in Fds, t \in {"free", "other"} :
            owner[m] \in {"free", "other"} /\ owner' = [owner EXCEPT ![m] = t]
      BY <2>4 DEF Others, Lowest
    <3>3. \A n \in Fds : n # m => owner'[n] = owner[n]
      BY <3>2, <2>t
    <3> QED BY <3>1, <3>2, <3>3 DEF MayChange
  <2> QED BY <1>1, <2>1, <2>2, <2>3, <2>4 DEF DescNext
<1> QED BY <1>1, DescriptorsInvariant, PTL DEF DescSpec, OnlyOwnerCloses
==============================================================================
