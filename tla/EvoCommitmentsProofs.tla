------------------------ MODULE EvoCommitmentsProofs ------------------------
(***************************************************************************)
(* For any tree of blocks, any commitments, any number of readers and any  *)
(* crashes: the committed stores hold the commitments of their chain, the  *)
(* rule of the mining window is obeyed, an undone commitment stays         *)
(* minable, a template is accepted, and a scan only fails its assertion    *)
(* after a reorganisation or a race of the readers.                        *)
(***************************************************************************)
EXTENDS EvoChainProofs

(***************************************************************************)
(* The commitments in the stores and on the chains.                        *)
(***************************************************************************)
\* A block adds its own commitment, if it has one, and nothing else.
LEMMA MinedExtend ==
  ASSUME NEW b \in Block \ {Genesis}, NEW q
  PROVE  /\ Commitment[b] \in Qc /\ QuorumOf[Commitment[b]] = q =>
              MinedOn(b, q) = MinedOn(Parent(b), q) \cup {<<Commitment[b], b>>}
         /\ ~(Commitment[b] \in Qc /\ QuorumOf[Commitment[b]] = q) =>
              MinedOn(b, q) = MinedOn(Parent(b), q)
         /\ <<Commitment[b], b>> \notin MinedOn(Parent(b), q)
<1> DEFINE Of(C) == {x \in C : Commitment[x] \in Qc /\ QuorumOf[Commitment[x]] = q}
<1>1. Chain[b] = Chain[Parent(b)] \cup {b} /\ b \notin Chain[Parent(b)]
  BY ParentChain
<1>2. CASE Commitment[b] \in Qc /\ QuorumOf[Commitment[b]] = q
  <2>1. Of(Chain[b]) = Of(Chain[Parent(b)]) \cup {b}
    BY <1>1, <1>2
  <2> HIDE DEF Of
  <2>2. MinedOn(b, q) = {<<Commitment[m], m>> : m \in Of(Chain[b])}
    BY DEF MinedOn, Of
  <2>3. MinedOn(Parent(b), q) = {<<Commitment[m], m>> : m \in Of(Chain[Parent(b)])}
    BY DEF MinedOn, Of
  <2> QED BY <1>1, <1>2, <2>1, <2>2, <2>3 DEF Of
<1>3. CASE ~(Commitment[b] \in Qc /\ QuorumOf[Commitment[b]] = q)
  <2>1. Of(Chain[b]) = Of(Chain[Parent(b)])
    BY <1>1, <1>3
  <2> QED BY <1>1, <1>3, <2>1 DEF MinedOn
<1> QED BY <1>2, <1>3

LEMMA BestOf ==
  ASSUME NEW s, NEW b
  PROVE  /\ WithBest(s, b).best = b /\ WithBest(s, b).mc = s.mc
         /\ WithBest(s, b).ih = s.ih
BY DEF WithBest

\* Excusing more quorums keeps a store right.
LEMMA HoldsMore ==
  ASSUME NEW s, NEW R, NEW S, R \subseteq S, HoldsCommitments(s, R)
  PROVE  HoldsCommitments(s, S)
<1>1. \A q \in Quorum \ S : q \in Quorum \ R
  OBVIOUS
<1> QED BY <1>1 DEF HoldsCommitments

\* Connecting b keeps the store right, if its quorum had no commitment.
LEMMA HoldsConnect ==
  ASSUME NEW b \in Block \ {Genesis}, StoreType(root), root.best = Parent(b),
         HoldsCommitments(root, raced),
         IF Commitment[b] \in Qc THEN Added(b, Commitment[b]) ELSE Unchanged,
         Commitment[b] \in Qc => \/ QuorumOf[Commitment[b]] \in raced
                                 \/ MinedOn(Parent(b), QuorumOf[Commitment[b]]) = {}
  PROVE  HoldsCommitments(WithBest(cur, b), raced)
<1> DEFINE c == Commitment[b]
           t == WithBest(cur, b)
<1>1. /\ Parent(b) \in Block /\ Height[Parent(b)] = Height[b] - 1
      /\ b \notin Chain[Parent(b)] /\ Chain[b] = Chain[Parent(b)] \cup {b}
  BY ParentChain
<1>2. t.best = b /\ t.mc = cur.mc /\ t.ih = cur.ih
  BY BestOf
<1>3. \A m \in Chain[Parent(b)] : m \in Block /\ Height[m] \in Heights
                                  /\ Height[m] # Height[b]
  <2>1. Height[b] \in Nat
    BY ForestAssumption
  <2> QED BY <1>1, <2>1, ForestAssumption DEF Heights
<1>4. Height[b] \in Heights /\ b \in Block
  BY DEF Heights
<1> HIDE DEF t
<1>5. ASSUME NEW q \in Quorum \ raced
      PROVE  /\ t.mc[q] = None => MinedOn(b, q) = {}
             /\ t.mc[q] # None => MinedOn(b, q) = {t.mc[q]}
  <2>1. CASE c \in Qc /\ QuorumOf[c] = q
    <3>1. MinedOn(b, q) = {<<c, b>>}
      BY Zenon, <1>5, <2>1, MinedExtend
    <3>2. cur.mc[q] = <<c, b>>
      <4>1. cur.mc = [root.mc EXCEPT ![q] = <<c, b>>]
        BY <2>1 DEF Added
      <4>2. DOMAIN root.mc = Quorum
        BY DEF StoreType
      <4> QED BY <1>5, <4>1, <4>2
    <3>3. <<c, b>> # None
      BY <2>1, CommitmentAssumption
    <3> QED BY <1>2, <3>1, <3>2, <3>3
  <2>2. CASE ~(c \in Qc /\ QuorumOf[c] = q)
    <3>1. MinedOn(b, q) = MinedOn(Parent(b), q)
      BY Zenon, <2>2, MinedExtend
    <3>2. cur.mc[q] = root.mc[q]
      BY <1>5, <2>2 DEF Added, Unchanged, StoreType
    <3> QED BY <1>2, <1>5, <3>1, <3>2 DEF HoldsCommitments
  <2> QED BY <2>1, <2>2
<1>6. ASSUME NEW q \in Quorum \ raced, NEW m \in Chain[b],
             Commitment[m] \in Qc, QuorumOf[Commitment[m]] = q
      PROVE  t.ih[Height[m]] = Height[q]
  <2>1. CASE m = b
    BY <1>2, <1>4, <1>6, <2>1 DEF Added, StoreType
  <2>2. CASE m # b
    <3>1. m \in Chain[Parent(b)] /\ root.ih[Height[m]] = Height[q]
      BY <1>1, <1>6, <2>2 DEF HoldsCommitments
    <3>2. cur.ih[Height[m]] = root.ih[Height[m]]
      BY <1>3, <3>1 DEF Added, Unchanged, StoreType
    <3> QED BY <1>2, <3>1, <3>2
  <2> QED BY <2>1, <2>2
<1>7. ASSUME NEW h \in Heights, t.ih[h] # None
      PROVE  \E m \in Chain[b] : Height[m] = h /\ Commitment[m] \in Qc
  <2>1. CASE h = Height[b] /\ c \in Qc
    BY <1>1, <2>1
  <2>2. CASE ~(h = Height[b] /\ c \in Qc)
    <3>1. cur.ih[h] = root.ih[h]
      BY <1>7, <2>2 DEF Added, Unchanged, StoreType
    <3> QED BY <1>1, <1>2, <1>7, <3>1 DEF HoldsCommitments
  <2> QED BY <2>1, <2>2
<1>8. t = WithBest(cur, b)
  BY Zenon DEF t
<1>9. HoldsCommitments(t, raced)
  BY <1>2, <1>5, <1>6, <1>7 DEF HoldsCommitments
<1> QED BY <1>8, <1>9

\* Disconnecting b keeps the store right.
LEMMA HoldsDisconnect ==
  ASSUME NEW b \in Block \ {Genesis}, StoreType(root), root.best = b,
         HoldsCommitments(root, raced),
         IF Commitment[b] \in Qc THEN Removed(b, Commitment[b]) ELSE Unchanged
  PROVE  HoldsCommitments(WithBest(cur, Parent(b)), raced)
<1> DEFINE c == Commitment[b]
           t == WithBest(cur, Parent(b))
<1>1. /\ Parent(b) \in Block /\ Height[Parent(b)] = Height[b] - 1
      /\ b \notin Chain[Parent(b)] /\ Chain[b] = Chain[Parent(b)] \cup {b}
  BY ParentChain
<1>2. t.best = Parent(b) /\ t.mc = cur.mc /\ t.ih = cur.ih
  BY BestOf
<1>3. \A m \in Chain[Parent(b)] : m \in Block /\ Height[m] \in Heights
                                  /\ Height[m] # Height[b]
  <2>1. Height[b] \in Nat
    BY ForestAssumption
  <2> QED BY <1>1, <2>1, ForestAssumption DEF Heights
<1>4. t = WithBest(cur, Parent(b))
  OBVIOUS
<1> HIDE DEF t
<1>5. ASSUME NEW q \in Quorum \ raced
      PROVE  /\ t.mc[q] = None => MinedOn(Parent(b), q) = {}
             /\ t.mc[q] # None => MinedOn(Parent(b), q) = {t.mc[q]}
  <2>1. CASE c \in Qc /\ QuorumOf[c] = q
    <3>1. <<c, b>> \in MinedOn(b, q)
      BY <2>1, MinedExtend
    <3>2. MinedOn(b, q) = {<<c, b>>}
      <4>1. /\ root.mc[q] = None => MinedOn(b, q) = {}
            /\ root.mc[q] # None => MinedOn(b, q) = {root.mc[q]}
        BY <1>5 DEF HoldsCommitments
      <4>2. MinedOn(b, q) = {root.mc[q]}
        BY <3>1, <4>1
      <4> QED BY <3>1, <4>2
    <3>3. MinedOn(Parent(b), q) = {}
      <4>1. /\ MinedOn(b, q) = MinedOn(Parent(b), q) \cup {<<c, b>>}
            /\ <<c, b>> \notin MinedOn(Parent(b), q)
        BY <2>1, MinedExtend
      <4> QED BY <3>2, <4>1
    <3>4. cur.mc[q] = None
      <4>1. cur.mc = [root.mc EXCEPT ![q] = None]
        BY <2>1 DEF Removed
      <4>2. DOMAIN root.mc = Quorum
        BY DEF StoreType
      <4> QED BY <1>5, <4>1, <4>2
    <3> QED BY <1>2, <3>3, <3>4
  <2>2. CASE ~(c \in Qc /\ QuorumOf[c] = q)
    <3>1. MinedOn(b, q) = MinedOn(Parent(b), q)
      BY Zenon, <2>2, MinedExtend
    <3>2. cur.mc[q] = root.mc[q]
      BY <1>5, <2>2 DEF Removed, Unchanged, StoreType
    <3> QED BY <1>2, <1>5, <3>1, <3>2 DEF HoldsCommitments
  <2> QED BY <2>1, <2>2
<1>6. ASSUME NEW q \in Quorum \ raced, NEW m \in Chain[Parent(b)],
             Commitment[m] \in Qc, QuorumOf[Commitment[m]] = q
      PROVE  t.ih[Height[m]] = Height[q]
  <2>1. root.ih[Height[m]] = Height[q]
    BY <1>1, <1>6 DEF HoldsCommitments
  <2>2. cur.ih[Height[m]] = root.ih[Height[m]]
    BY <1>3 DEF Removed, Unchanged, StoreType
  <2> QED BY Zenon, <1>2, <2>1, <2>2
<1>7. ASSUME NEW h \in Heights, t.ih[h] # None
      PROVE  \E m \in Chain[Parent(b)] : Height[m] = h /\ Commitment[m] \in Qc
  <2>1. root.ih[h] # None /\ (c \in Qc => h # Height[b])
    BY <1>2, <1>7 DEF Removed, Unchanged, StoreType
  <2>2. PICK m \in Chain[b] : Height[m] = h /\ Commitment[m] \in Qc
    BY Zenon, <1>7, <2>1 DEF HoldsCommitments
  <2> QED BY <1>1, <2>1, <2>2
<1>8. HoldsCommitments(t, raced)
  BY <1>2, <1>5, <1>6, <1>7 DEF HoldsCommitments
<1> QED BY <1>4, <1>8

\* Between blocks ProcessBlock takes a block exactly if it follows the rule of
\* the mining window.
LEMMA AcceptsIsFollows ==
  ASSUME PcInv, TxInv, HInv, HoldsCommitments(root, raced), val.pc = "idle",
         NEW b \in Block \ {Genesis}, Parent(b) = tip, SessionOf(b) \notin raced
  PROVE  AcceptsCommitment(tip, Height[b], Commitment[b]) <=> FollowsWindow(b)
<1> DEFINE q == SessionOf(b)
<1>1. q = GetQuorumBlockHash(tip, Height[b]) /\ tip \in Block /\ Height[b] \in Nat
      /\ cur = root /\ root.best = tip
  BY Zenon, ForestAssumption DEF SessionOf, PcInv
<1>2. q \in Quorum \cup {None}
  BY <1>1, SessionIsQuorum
<1>3. q \in Quorum => (HasMinedCommitment(q) <=> MinedOn(tip, q) # {})
  <2> SUFFICES ASSUME q \in Quorum
               PROVE  HasMinedCommitment(q) <=> MinedOn(tip, q) # {}
    OBVIOUS
  <2>1. HasMinedCommitment(q) <=> cur.mc[q] # None
    BY DEF HInv, HasMinedCommitment, Settled, Erasing
  <2>2. cur.mc[q] # None <=> MinedOn(tip, q) # {}
    BY <1>1 DEF HoldsCommitments
  <2> QED BY <2>1, <2>2
<1>4. IsCommitmentRequired(tip, Height[b]) <=>
        q # None /\ IsMiningPhase(Height[b]) /\ MinedOn(Parent(b), q) = {}
  BY <1>1, <1>2, <1>3 DEF IsCommitmentRequired
<1>5. CASE IsCommitmentRequired(tip, Height[b])
  <2>1. ((Commitment[b] # None) = IsCommitmentRequired(tip, Height[b]))
          <=> Commitment[b] # None
    BY Zenon, <1>5
  <2>2. FollowsWindow(b) <=>
          /\ Commitment[b] # None
          /\ Commitment[b] \in Qc => QuorumOf[Commitment[b]] = q
                                     /\ Commitment[b] \in Verified
    BY Zenon, <1>4, <1>5 DEF FollowsWindow
  <2> QED BY <1>1, <2>1, <2>2 DEF AcceptsCommitment
<1>6. CASE ~IsCommitmentRequired(tip, Height[b])
  <2>1. ((Commitment[b] # None) = IsCommitmentRequired(tip, Height[b]))
          <=> Commitment[b] = None
    BY <1>6 DEF IsCommitmentRequired
  <2>2. FollowsWindow(b) <=>
          /\ Commitment[b] = None
          /\ Commitment[b] \in Qc => QuorumOf[Commitment[b]] = q
                                     /\ Commitment[b] \in Verified
    BY Zenon, <1>4, <1>6 DEF FollowsWindow
  <2> QED BY Zenon, <1>1, <2>1, <2>2 DEF AcceptsCommitment
<1> QED BY Zenon, <1>5, <1>6

(***************************************************************************)
(* The inductive invariant: the stores in memory and on disk are right,    *)
(* the chains in memory and on disk follow the rule of the window, and so  *)
(* does a block that is being connected.                                   *)
(***************************************************************************)
Follows(b, R) == SessionOf(b) \in R \/ FollowsWindow(b)

CInv ==
  /\ CommitmentsMatch
  /\ \A b \in Chain[coins] \ {Genesis} : Follows(b, raced)
  /\ \A b \in Chain[coinsDisk] \ {Genesis} : Follows(b, raced)
  /\ \A b \in failed : \/ SessionOf(b) \in raced \/ ~FollowsWindow(b)
                       \/ b \in Invalid
  /\ val.pc \in ConnectPc =>
       /\ Commitment[val.b] \in Qc => QuorumOf[Commitment[val.b]] = SessionOf(val.b)
       /\ Follows(val.b, raced)

LEMMA GenesisChain == Chain[Genesis] = {Genesis}
BY ForestAssumption

LEMMA EmptyHolds == ASSUME NEW R PROVE HoldsCommitments(EmptyStore, R)
<1>1. /\ EmptyStore.best = Genesis /\ EmptyStore.mc = [q \in Quorum |-> None]
      /\ EmptyStore.ih = [h \in Heights |-> None]
  BY DEF EmptyStore
<1>2. Commitment[Genesis] \notin Qc
  BY CommitmentAssumption
<1>3. \A q : MinedOn(Genesis, q) = {}
  BY Zenon, <1>2, GenesisChain DEF MinedOn
<1> QED BY <1>1, <1>2, <1>3, GenesisChain DEF HoldsCommitments

LEMMA CInit == Init => CInv
<1> SUFFICES ASSUME Init PROVE CInv
  OBVIOUS
<1> QED BY EmptyHolds, GenesisChain
        DEF Init, CInv, CommitmentsMatch, Idle, ConnectPc

LEMMA CNext == PcInv /\ TxInv /\ HInv /\ CInv /\ [Next]_vars => CInv'
<1> SUFFICES ASSUME PcInv, TxInv, HInv, CInv, [Next]_vars PROVE CInv'
  BY Zenon
\* A wrong answer that a reader caches only weakens the invariant.
<1>1. ASSUME raced \subseteq raced', UNCHANGED <<dbVars, chainVars, val>>
      PROVE  CInv'
  <2>1. HoldsCommitments(root', raced') /\ HoldsCommitments(disk', raced')
    BY Zenon, <1>1, HoldsMore DEF CInv, CommitmentsMatch, dbVars
  <2> QED BY <1>1, <2>1
          DEF CInv, CommitmentsMatch, Follows, dbVars, chainVars
\* Steps that commit nothing.
<1>2. ASSUME UNCHANGED <<root, disk, coins, coinsDisk, failed, raced>>,
             val'.pc \in ConnectPc => val.pc \in ConnectPc /\ val'.b = val.b
      PROVE  CInv'
  BY <1>2 DEF CInv, CommitmentsMatch, Follows
<1>3. ASSUME NEW b \in Block, NEW check \in BOOLEAN, ConnectBlock(b, check)
      PROVE  CInv'
  <2>1. /\ val.pc = "idle" /\ b \in Block \ {Genesis} /\ Parent(b) = tip
        /\ UNCHANGED <<root, disk, coins, coinsDisk, raced>>
    BY Zenon, <1>3 DEF ConnectBlock, Idle, dbVars
  <2>2. SessionOf(b) \notin raced =>
          (AcceptsCommitment(tip, Height[b], Commitment[b]) <=> FollowsWindow(b))
    BY <2>1, AcceptsIsFollows DEF CInv, CommitmentsMatch
  <2>3. HoldsCommitments(root', raced') /\ HoldsCommitments(disk', raced')
    BY Zenon, <2>1 DEF CInv, CommitmentsMatch
  <2>4. CASE AcceptsCommitment(tip, Height[b], Commitment[b])
    <3>1. val'.b = b /\ UNCHANGED failed
      BY Zenon, <1>3, <2>4, ConnectVal
    <3>2. Commitment[b] \in Qc => QuorumOf[Commitment[b]] = SessionOf(b)
      BY Zenon, <2>1, <2>4 DEF AcceptsCommitment, SessionOf
    <3> QED BY Zenon, <2>1, <2>2, <2>3, <2>4, <3>1, <3>2
            DEF CInv, CommitmentsMatch, Follows
  <2>5. CASE ~AcceptsCommitment(tip, Height[b], Commitment[b])
    <3>1. val' = val /\ failed' \subseteq failed \cup {b}
      BY Zenon, <1>3, <2>5 DEF ConnectBlock
    <3> QED BY Zenon, <2>1, <2>2, <2>3, <2>5, <3>1
            DEF CInv, CommitmentsMatch, Follows, ConnectPc
  <2> QED BY <2>4, <2>5
<1>4. CASE RollbackBlock
  <2>1. /\ val.pc = "finish" /\ val'.pc = "idle"
        /\ UNCHANGED <<root, disk, coins, coinsDisk, raced>>
        /\ \A b \in failed' : b \in failed \/ b \in Invalid
    BY Zenon, <1>4 DEF RollbackBlock, RollbackCurTransaction, Idle
  <2>2. HoldsCommitments(root', raced') /\ HoldsCommitments(disk', raced')
    BY Zenon, <2>1 DEF CInv, CommitmentsMatch
  <2> QED BY <2>1, <2>2 DEF CInv, CommitmentsMatch, Follows, ConnectPc
<1>5. CASE CommitBlock
  <2>1. PICK b \in Block \ {Genesis} : b = val.b
    BY <1>5 DEF CommitBlock, PcInv, ConnectPc
  <2>2. /\ val.pc = "finish" /\ val'.pc = "flush" /\ root' = WithBest(cur, b)
        /\ coins' = b /\ UNCHANGED <<disk, coinsDisk, failed, raced>>
    BY Zenon, <1>5, <2>1 DEF CommitBlock, CommitCurTransaction, At
  <2>3. root.best = Parent(b) /\ coins = Parent(b)
    BY Zenon, <2>1, <2>2 DEF PcInv, ConnectPc
  <2>4. Follows(b, raced)
        /\ (Commitment[b] \in Qc => QuorumOf[Commitment[b]] = SessionOf(b))
    BY <2>1, <2>2 DEF CInv, ConnectPc
  <2>5. Commitment[b] \in Qc =>
          \/ QuorumOf[Commitment[b]] \in raced
          \/ MinedOn(Parent(b), QuorumOf[Commitment[b]]) = {}
    <3>1. None \notin Qc
      BY Zenon, CommitmentAssumption
    <3> QED BY Zenon, <2>4, <3>1 DEF Follows, FollowsWindow
  <2>6. HoldsCommitments(WithBest(cur, b), raced)
    BY Zenon, <2>1, <2>2, <2>3, <2>5, HoldsConnect DEF TxInv, CInv,
       CommitmentsMatch
  <2>7. HoldsCommitments(root', raced') /\ HoldsCommitments(disk', raced')
    BY <2>2, <2>6 DEF CInv, CommitmentsMatch
  <2>8. Chain[b] = Chain[Parent(b)] \cup {b}
    BY Zenon, ParentChain
  <2> QED BY Zenon, <2>2, <2>3, <2>4, <2>7, <2>8
          DEF CInv, CommitmentsMatch, Follows, ConnectPc
<1>6. CASE CommitDisconnect
  <2>1. PICK b \in Block \ {Genesis} : b = val.b
    BY Zenon, <1>6 DEF CommitDisconnect, PcInv, UndoPc
  <2>2. /\ val.pc = "undone" /\ val'.pc = "flush" /\ val.to = Parent(b)
        /\ root' = WithBest(cur, Parent(b)) /\ coins' = Parent(b)
        /\ UNCHANGED <<disk, coinsDisk, failed, raced>>
    BY Zenon, <1>6, <2>1 DEF CommitDisconnect, CommitCurTransaction, At,
       PcInv, UndoPc
  <2>3. root.best = b /\ coins = b
    BY Zenon, <2>1, <2>2 DEF PcInv, UndoPc
  <2>4. HoldsCommitments(WithBest(cur, Parent(b)), raced)
    BY Zenon, <2>1, <2>2, <2>3, HoldsDisconnect DEF TxInv, CInv,
       CommitmentsMatch
  <2>5. HoldsCommitments(root', raced') /\ HoldsCommitments(disk', raced')
    BY Zenon, <2>2, <2>4 DEF CInv, CommitmentsMatch
  <2>6. Chain[b] = Chain[Parent(b)] \cup {b}
    BY ParentChain
  <2> QED BY Zenon, <2>2, <2>3, <2>5, <2>6
          DEF CInv, CommitmentsMatch, Follows, ConnectPc
<1>7. CASE FlushCoins
  <2>1. /\ val'.pc = "commitroot" /\ coinsDisk' = coins
        /\ UNCHANGED <<root, disk, coins, failed, raced>>
    BY Zenon, <1>7 DEF FlushCoins, dbVars, At
  <2>2. HoldsCommitments(root', raced') /\ HoldsCommitments(disk', raced')
    BY Zenon, <2>1 DEF CInv, CommitmentsMatch
  <2> QED BY Zenon, <2>1, <2>2 DEF CInv, CommitmentsMatch, Follows, ConnectPc
<1>8. CASE FlushEvoDb
  <2>1. /\ val'.pc = "updatetip" /\ disk' = root
        /\ UNCHANGED <<root, coins, coinsDisk, failed, raced>>
    BY Zenon, <1>8 DEF FlushEvoDb, CommitRootTransaction, At, chainVars
  <2>2. HoldsCommitments(root', raced') /\ HoldsCommitments(disk', raced')
    BY Zenon, <2>1 DEF CInv, CommitmentsMatch
  <2> QED BY <2>1, <2>2 DEF CInv, CommitmentsMatch, Follows, ConnectPc
<1>9. CASE Crash
  <2>1. /\ val'.pc = "down" /\ disk' = disk /\ root' = disk
        /\ coins' = coinsDisk /\ UNCHANGED <<coinsDisk, raced>>
        /\ failed' \subseteq failed
    BY Zenon, <1>9 DEF Crash, Open, Down
  <2>2. HoldsCommitments(root', raced') /\ HoldsCommitments(disk', raced')
    BY Zenon, <2>1 DEF CInv, CommitmentsMatch
  <2> QED BY Zenon, <2>1, <2>2 DEF CInv, CommitmentsMatch, Follows, ConnectPc
<1>10. CASE Reindex
  <2>1. /\ val'.pc = "idle" /\ disk' = EmptyStore /\ root' = EmptyStore
        /\ coins' = Genesis /\ coinsDisk' = Genesis /\ failed' = {}
    BY <1>10 DEF Reindex, Open, Idle
  <2>2. HoldsCommitments(root', raced') /\ HoldsCommitments(disk', raced')
    BY Zenon, <2>1, EmptyHolds
  <2> QED BY <2>1, <2>2, GenesisChain DEF CInv, CommitmentsMatch, ConnectPc
<1>11. CASE WriteCommitment \/ EraseHasMined \/ UndoCommitment
  <2>1. CASE WriteCommitment
    BY Zenon, <1>2, <2>1, ValFields
       DEF WriteCommitment, chainVars, Write, ConnectPc
  <2>2. CASE EraseHasMined
    BY Zenon, <1>2, <2>2, ValFields
       DEF EraseHasMined, dbVars, chainVars, ConnectPc
  <2>3. CASE UndoCommitment
    BY Zenon, <1>2, <2>3, ValFields
       DEF UndoCommitment, chainVars, Write, ConnectPc
  <2> QED BY Zenon, <1>11, <2>1, <2>2, <2>3
<1>12. CASE ProcessList \/ ProcessListCleanup
  <2>1. /\ UNCHANGED <<root, disk, coins, coinsDisk, failed, raced>>
        /\ val.pc \in ConnectPc /\ val'.b = val.b
    <3>1. CASE ProcessList
      <4>1. val.pc = "list" /\ UNCHANGED <<chainVars, raced>>
        BY Zenon, <3>1 DEF ProcessList
      <4>2. UNCHANGED <<root, disk>> /\ (val' = At("finish") \/ val' = At("cleanup"))
        BY Zenon, <3>1 DEF ProcessList, Write, dbVars
      <4> QED
        BY <4>1, <4>2 DEF chainVars, At, ConnectPc
    <3>2. CASE ProcessListCleanup
      BY Zenon, <3>2 DEF ProcessListCleanup, dbVars, chainVars, At, ConnectPc
    <3> QED BY Zenon, <1>12, <3>1, <3>2
  <2> QED BY <1>2, <2>1
<1>13. CASE DisconnectBlock \/ UndoAddMinable \/ UpdateTip \/ Start
  <2>1. /\ UNCHANGED <<root, disk, coins, coinsDisk, failed, raced>>
        /\ val'.pc \in {"undo", "undone", "idle"}
    <3>1. CASE DisconnectBlock
      BY Zenon, <3>1 DEF DisconnectBlock, chainVars, Write
    <3>2. CASE UndoAddMinable
      BY Zenon, <3>2 DEF UndoAddMinable, dbVars, chainVars, At
    <3>3. CASE UpdateTip
      BY Zenon, <3>3 DEF UpdateTip, dbVars, Idle
    <3>4. CASE Start
      BY <3>4 DEF Start, dbVars, chainVars, Idle
    <3> QED BY Zenon, <1>13, <3>1, <3>2, <3>3, <3>4
  <2> QED BY <1>2, <2>1 DEF ConnectPc
<1>14. ASSUME OtherStep PROVE CInv'
  <2>1. raced \subseteq raced'
    <3>1. ASSUME NEW r \in Reader, ReaderStep(r) PROVE raced \subseteq raced'
      BY Zenon, <3>1 DEF ReaderStep, CallGetQuorum, CallScanQuorums, ScanIndex,
           ScanNext, ScanStore, LookUpHasMined, ReadHasMined, EmplaceHasMined,
           BuildQuorum, readerCaches
    <3> QED BY Zenon, <1>14, <3>1 DEF OtherStep, UpdatedBlockTip, ReadMNList,
          ReceiveCommitment, AddReceivedCommitment, AddOwnCommitment,
          CreateNewBlock, vars
  <2> QED BY Zenon, <1>1, <1>14, <2>1, OtherSteps
<1> QED BY <1>3, <1>4, <1>5, <1>6, <1>7, <1>8, <1>9, <1>10, <1>11, <1>12,
     <1>13, <1>14 DEF Next, Step, OtherStep

LEMMA Invariants == Spec => [](PcInv /\ TxInv /\ HInv /\ CInv)
BY PcInit, PcNext, TxInit, TxNext, HInit, HNext, CInit, CNext, PTL DEF Spec

\* What is committed in memory and what is on disk are the commitments of the
\* chain of the best block (ProcessCommitment, UndoBlock, CEvoDB), for every
\* tree of blocks and wherever the process stops.
THEOREM CommitmentsAlwaysMatch == Spec => []CommitmentsMatch
<1>1. CInv => CommitmentsMatch
  BY Zenon DEF CInv
<1> QED BY Invariants, <1>1, PTL

\* Every block of the active chain follows the rule of the mining window and
\* no block that does is rejected (CQuorumBlockProcessor::ProcessBlock), for
\* every tree of blocks, but for quorums that a reader raced with.
THEOREM WindowAlwaysRuled == Spec => []WindowRule
<1>1. CInv => WindowRule
  BY DEF CInv, WindowRule, Follows
<1> QED BY Invariants, <1>1, PTL
-----------------------------------------------------------------------------
(***************************************************************************)
(* The commitments of connected blocks passed the checks of ProcessBlock,  *)
(* and the minable commitments are verified ones.                          *)
(***************************************************************************)
Checked(b) ==
  Commitment[b] \in Qc => /\ Commitment[b] \in Verified
                          /\ QuorumOf[Commitment[b]] = SessionOf(b)

VInv ==
  /\ \A b \in Chain[coins] : Checked(b)
  /\ \A b \in Chain[coinsDisk] : Checked(b)
  /\ val.pc \in ConnectPc => Checked(val.b)

LEMMA GenesisChecked == \A b \in Chain[Genesis] : Checked(b)
<1>1. Commitment[Genesis] \notin Qc
  BY Zenon, CommitmentAssumption
<1> QED BY Zenon, <1>1, GenesisChain DEF Checked

LEMMA VInit == Init => VInv
BY GenesisChecked DEF Init, VInv, Idle, ConnectPc

LEMMA VNext == PcInv /\ VInv /\ [Next]_vars => VInv'
<1> SUFFICES ASSUME PcInv, VInv, [Next]_vars PROVE VInv'
  BY Zenon
\* Steps that move neither the coins nor the block that is connected.
<1>1. ASSUME UNCHANGED <<coins, coinsDisk>>,
             val'.pc \in ConnectPc => val.pc \in ConnectPc /\ val'.b = val.b
      PROVE  VInv'
  BY Zenon, <1>1 DEF VInv
<1>2. ASSUME NEW b \in Block, NEW check \in BOOLEAN, ConnectBlock(b, check)
      PROVE  VInv'
  <2>1. Parent(b) = tip /\ UNCHANGED <<coins, coinsDisk>>
    BY Zenon, <1>2 DEF ConnectBlock
  <2>2. CASE AcceptsCommitment(tip, Height[b], Commitment[b])
    <3>1. val'.b = b
      BY Zenon, <1>2, <2>2, ConnectVal
    <3>2. Checked(b)
      BY Zenon, <2>1, <2>2 DEF AcceptsCommitment, SessionOf, Checked
    <3> QED BY Zenon, <2>1, <3>1, <3>2 DEF VInv
  <2>3. CASE ~AcceptsCommitment(tip, Height[b], Commitment[b])
    <3>1. val' = val
      BY Zenon, <1>2, <2>3 DEF ConnectBlock
    <3> QED BY Zenon, <2>1, <3>1 DEF VInv
  <2> QED BY Zenon, <2>2, <2>3
<1>3. CASE CommitBlock
  <2>1. PICK b \in Block \ {Genesis} : b = val.b
    BY <1>3 DEF CommitBlock, PcInv, ConnectPc
  <2>2. /\ val.pc = "finish" /\ val'.pc = "flush" /\ coins' = b
        /\ UNCHANGED coinsDisk
    BY Zenon, <1>3, <2>1 DEF CommitBlock, At
  <2>3. coins = Parent(b) /\ Checked(b)
    BY Zenon, <2>1, <2>2 DEF PcInv, VInv, ConnectPc
  <2>4. Chain[b] = Chain[Parent(b)] \cup {b}
    BY Zenon, ParentChain
  <2>5. \A c \in Chain[b] : Checked(c)
    BY Zenon, <2>3, <2>4 DEF VInv
  <2> QED BY Zenon, <2>2, <2>5 DEF VInv, ConnectPc
<1>4. CASE CommitDisconnect
  <2>1. PICK b \in Block \ {Genesis} : b = val.b
    BY Zenon, <1>4 DEF CommitDisconnect, PcInv, UndoPc
  <2>2. /\ val'.pc = "flush" /\ coins = b /\ coins' = Parent(b)
        /\ UNCHANGED coinsDisk
    BY Zenon, <1>4, <2>1 DEF CommitDisconnect, At, PcInv, UndoPc
  <2>3. Chain[b] = Chain[Parent(b)] \cup {b}
    BY Zenon, ParentChain
  <2>4. \A c \in Chain[Parent(b)] : Checked(c)
    BY Zenon, <2>2, <2>3 DEF VInv
  <2> QED BY <2>2, <2>4 DEF VInv, ConnectPc
<1>5. CASE FlushCoins \/ Crash
  <2>1. /\ coins' \in {coins, coinsDisk} /\ coinsDisk' \in {coins, coinsDisk}
        /\ val'.pc \in {"commitroot", "down"}
    <3>1. CASE FlushCoins
      BY <3>1 DEF FlushCoins, At
    <3>2. CASE Crash
      BY Zenon, <3>2 DEF Crash, Down
    <3> QED BY Zenon, <1>5, <3>1, <3>2
  <2> QED BY Zenon, <2>1 DEF VInv, ConnectPc
<1>6. CASE Reindex
  BY Zenon, <1>6, GenesisChecked DEF Reindex, Idle, VInv, ConnectPc
<1>7. CASE WriteCommitment \/ EraseHasMined \/ UndoCommitment
  <2>1. CASE WriteCommitment
    BY Zenon, <1>1, <2>1, ValFields DEF WriteCommitment, chainVars, ConnectPc
  <2>2. CASE EraseHasMined
    BY Zenon, <1>1, <2>2, ValFields DEF EraseHasMined, chainVars, ConnectPc
  <2>3. CASE UndoCommitment
    BY Zenon, <1>1, <2>3, ValFields DEF UndoCommitment, chainVars, ConnectPc
  <2> QED BY Zenon, <1>7, <2>1, <2>2, <2>3
<1>8. CASE ProcessList \/ ProcessListCleanup
  <2>1. /\ UNCHANGED <<coins, coinsDisk>> /\ val.pc \in ConnectPc
        /\ val'.b = val.b
    <3>1. CASE ProcessList
      <4>1. val.pc = "list" /\ UNCHANGED chainVars
        BY Zenon, <3>1 DEF ProcessList
      <4>2. val' = At("finish") \/ val' = At("cleanup")
        BY Zenon, <3>1 DEF ProcessList
      <4>3. val'.b = val.b
        BY <4>2 DEF At
      <4> QED BY Zenon, <4>1, <4>3 DEF chainVars, ConnectPc
    <3>2. CASE ProcessListCleanup
      BY Zenon, <3>2 DEF ProcessListCleanup, chainVars, At, ConnectPc
    <3> QED BY Zenon, <1>8, <3>1, <3>2
  <2> QED BY Zenon, <1>1, <2>1
<1>9. CASE \/ DisconnectBlock \/ UndoAddMinable \/ UpdateTip \/ Start
           \/ RollbackBlock \/ FlushEvoDb
  <2>1. /\ UNCHANGED <<coins, coinsDisk>>
        /\ val'.pc \in {"undo", "undone", "updatetip", "idle"}
    <3>1. CASE DisconnectBlock
      BY <3>1 DEF DisconnectBlock, chainVars
    <3>2. CASE UndoAddMinable \/ FlushEvoDb
      BY Zenon, <3>2, ValFields DEF UndoAddMinable, FlushEvoDb, chainVars
    <3>3. CASE UpdateTip \/ RollbackBlock
      BY <3>3 DEF UpdateTip, RollbackBlock, Idle
    <3>4. CASE Start
      BY Zenon, <3>4 DEF Start, chainVars, Idle
    <3> QED BY Zenon, <1>9, <3>1, <3>2, <3>3, <3>4
  <2> QED BY Zenon, <1>1, <2>1 DEF ConnectPc
<1>10. ASSUME OtherStep PROVE VInv'
  BY Zenon, <1>1, <1>10, OtherSteps DEF chainVars
<1> QED BY Zenon, <1>2, <1>3, <1>4, <1>5, <1>6, <1>7, <1>8, <1>9, <1>10
        DEF Next, Step, OtherStep

\* What minableCommitmentsByQuorum points to is there, verified and of its
\* quorum.
Minable(c, q) == c \in minable /\ c \in Verified /\ QuorumOf[c] = q

NInv ==
  /\ byQuorum \in [Quorum -> Qc \cup {None}]
  /\ \A q \in Quorum : byQuorum[q] # None => Minable(byQuorum[q], q)
  /\ verifying \subseteq Verified
  /\ val.pc = "down" => verifying = {} /\ \A q \in Quorum : byQuorum[q] = None

\* AddMinableCommitment replaces a commitment only by a better one.
LEMMA AddMinable ==
  ASSUME NInv, NEW c \in Verified, AddMinableCommitment(c)
  PROVE  /\ byQuorum' \in [Quorum -> Qc \cup {None}]
         /\ \A q \in Quorum : byQuorum'[q] # None => Minable(byQuorum[q], q)'
         /\ \A q \in Quorum : byQuorum[q] # None =>
              /\ byQuorum'[q] # None
              /\ CountSigners[byQuorum'[q]] >= CountSigners[byQuorum[q]]
         /\ QuorumOf[c] \in Quorum =>
              /\ byQuorum'[QuorumOf[c]] # None
              /\ CountSigners[byQuorum'[QuorumOf[c]]] >= CountSigners[c]
<1> DEFINE p == QuorumOf[c]
<1>1. /\ c \in Qc /\ c # None
      /\ \A d \in Qc : CountSigners[d] \in Nat
  BY Zenon, CommitmentAssumption
<1>2. CASE byQuorum[p] = None \/ CountSigners[c] > CountSigners[byQuorum[p]]
  <2>1. byQuorum' = [byQuorum EXCEPT ![p] = c] /\ minable' = minable \cup {c}
    BY Zenon, <1>2 DEF AddMinableCommitment
  <2>2. byQuorum' \in [Quorum -> Qc \cup {None}]
    BY Zenon, <1>1, <2>1, ExceptType DEF NInv
  <2>3. \A q \in Quorum : byQuorum'[q] = IF q = p THEN c ELSE byQuorum[q]
    BY <2>1 DEF NInv
  <2>4. ASSUME NEW q \in Quorum, byQuorum'[q] # None
        PROVE  Minable(byQuorum[q], q)'
    BY Zenon, <2>1, <2>3, <2>4 DEF NInv, Minable
  <2>5. ASSUME NEW q \in Quorum, byQuorum[q] # None
        PROVE  /\ byQuorum'[q] # None
               /\ CountSigners[byQuorum'[q]] >= CountSigners[byQuorum[q]]
    <3>1. byQuorum[q] \in Qc
      BY Zenon, <2>5 DEF NInv
    <3> QED BY <1>1, <1>2, <2>3, <2>5, <3>1
  <2>6. p \in Quorum => byQuorum'[p] = c /\ CountSigners[c] >= CountSigners[c]
    BY <1>1, <2>3
  <2> QED BY <1>1, <2>2, <2>4, <2>5, <2>6
<1>3. CASE ~(byQuorum[p] = None \/ CountSigners[c] > CountSigners[byQuorum[p]])
  <2>1. byQuorum' = byQuorum /\ minable' = minable
    BY Zenon, <1>3 DEF AddMinableCommitment
  <2>2. \A q \in Quorum : byQuorum[q] # None => byQuorum[q] \in Qc
    BY Zenon DEF NInv
  <2>3. \A q \in Quorum : byQuorum'[q] # None => Minable(byQuorum[q], q)'
    BY Zenon, <2>1 DEF NInv, Minable
  <2> QED BY <1>1, <1>3, <2>1, <2>2, <2>3 DEF NInv
<1> QED BY Zenon, <1>2, <1>3

\* Undoing a block offers its commitment, a verified one of its session.
LEMMA UndoneVerified ==
  ASSUME PcInv, VInv, val.pc = "undoadd"
  PROVE  Commitment[val.b] \in Verified /\ QuorumOf[Commitment[val.b]] \in Quorum
<1>1. val.b = coins /\ val.b \in Block \ {Genesis} /\ Commitment[val.b] \in Qc
  BY Zenon DEF PcInv, UndoPc
<1>2. Checked(val.b)
  BY Zenon, <1>1, ForestAssumption DEF VInv
<1>3. QuorumOf[Commitment[val.b]] \in Block /\ None \notin Block
  BY Zenon, <1>1, CommitmentAssumption, ForestAssumption
<1>4. Parent(val.b) \in Block /\ Height[val.b] \in Nat
  BY Zenon, <1>1, ParentChain, ForestAssumption
<1>5. SessionOf(val.b) \in Quorum \cup {None}
  BY Zenon, <1>4, SessionIsQuorum DEF SessionOf
<1> QED BY <1>1, <1>2, <1>3, <1>5 DEF Checked

LEMMA NInit == Init => NInv
BY DEF Init, NInv, Idle

LEMMA NNext == PcInv /\ VInv /\ NInv /\ [Next]_vars => NInv' /\ [MinableKept]_vars
<1> SUFFICES ASSUME PcInv, VInv, NInv, [Next]_vars
             PROVE  NInv' /\ [MinableKept]_vars
  BY Zenon
<1>1. \A q \in Quorum : byQuorum[q] # None =>
        CountSigners[byQuorum[q]] >= CountSigners[byQuorum[q]]
  BY CommitmentAssumption DEF NInv
\* The steps that leave the minable commitments alone.
<1>2. ASSUME UNCHANGED minableVars, val'.pc # "down" \/ val.pc = "down",
             val'.pc # "undone" \/ val.pc # "undoadd"
      PROVE  NInv' /\ [MinableKept]_vars
  BY Zenon, <1>1, <1>2 DEF NInv, Minable, MinableKept, minableVars
\* The steps that add one.
<1>3. ASSUME NEW c \in Verified, AddMinableCommitment(c),
             verifying' \subseteq verifying, val.pc # "down", val'.pc # "down",
             val.pc = "undoadd" /\ val'.pc = "undone" =>
               c = Commitment[val.b] /\ QuorumOf[c] \in Quorum
      PROVE  NInv' /\ [MinableKept]_vars
  <2>1. NInv'
    BY Zenon, <1>3, AddMinable DEF NInv
  <2>2. MinableKept
    BY Zenon, <1>3, AddMinable DEF MinableKept
  <2> QED BY Zenon, <2>1, <2>2
<1>4. CASE UndoAddMinable
  <2>1. /\ val.pc = "undoadd" /\ val'.pc = "undone"
        /\ AddMinableCommitment(Commitment[val.b]) /\ UNCHANGED verifying
    BY Zenon, <1>4 DEF UndoAddMinable, At
  <2>2. Commitment[val.b] \in Verified /\ QuorumOf[Commitment[val.b]] \in Quorum
    BY Zenon, <2>1, UndoneVerified
  <2> QED BY <1>3, <2>1, <2>2
<1>5. ASSUME NEW c \in verifying, AddReceivedCommitment(c)
      PROVE  NInv' /\ [MinableKept]_vars
  <2>1. c \in Verified /\ val.pc # "down" /\ UNCHANGED val
    BY <1>5 DEF NInv, AddReceivedCommitment
  <2>2. AddMinableCommitment(c) /\ verifying' \subseteq verifying
    BY <1>5 DEF AddReceivedCommitment
  <2>3. ~(val.pc = "undoadd" /\ val'.pc = "undone")
    BY Zenon, <2>1
  <2> QED BY Zenon, <1>3, <2>1, <2>2, <2>3
<1>6. ASSUME NEW c \in Announced, AddOwnCommitment(c)
      PROVE  NInv' /\ [MinableKept]_vars
  <2>1. /\ c \in Verified /\ val.pc # "down" /\ UNCHANGED <<val, verifying>>
        /\ AddMinableCommitment(c)
    BY Zenon, <1>6 DEF AddOwnCommitment
  <2>2. ~(val.pc = "undoadd" /\ val'.pc = "undone")
    BY Zenon, <2>1
  <2> QED BY <1>3, <2>1, <2>2
<1>7. ASSUME NEW c \in Announced, ReceiveCommitment(c)
      PROVE  NInv' /\ [MinableKept]_vars
  <2>1. /\ c \in Verified /\ val.pc = "idle" /\ UNCHANGED <<val, minable, byQuorum>>
        /\ verifying' = verifying \cup {c}
    BY Zenon, <1>7 DEF ReceiveCommitment, Idle
  <2>2. NInv'
    BY <2>1 DEF NInv, Minable
  <2>3. MinableKept
    BY Zenon, <1>1, <2>1 DEF MinableKept
  <2> QED BY Zenon, <2>2, <2>3
<1>8. CASE Crash
  <2>1. /\ val'.pc = "down" /\ verifying' = {}
        /\ byQuorum' = [q \in Quorum |-> None]
    BY Zenon, <1>8 DEF Crash, Down
  <2> QED BY <2>1 DEF NInv, Minable, MinableKept
<1>9. CASE Start
  <2>1. /\ val.pc = "down" /\ val'.pc = "idle" /\ UNCHANGED <<verifying, coins>>
        /\ tip = coins
        /\ byQuorum' \in [Quorum -> Qc \cup {None}]
        /\ minable' = {byQuorum'[q] : q \in Quorum} \ {None}
    BY Zenon, <1>9 DEF Start, Idle, chainVars, PcInv
  <2>2. ASSUME NEW q \in Quorum, byQuorum'[q] # None
        PROVE  \E b \in Chain[tip] : /\ byQuorum'[q] = Commitment[b]
                                     /\ byQuorum'[q] \in Qc
                                     /\ QuorumOf[byQuorum'[q]] = q
    BY Zenon, <1>9, <2>2 DEF Start
  <2>3. ASSUME NEW q \in Quorum, byQuorum'[q] # None
        PROVE  Minable(byQuorum[q], q)'
    <3>1. PICK b \in Chain[tip] : /\ byQuorum'[q] = Commitment[b]
                                  /\ byQuorum'[q] \in Qc
                                  /\ QuorumOf[byQuorum'[q]] = q
      BY Zenon, <2>2, <2>3
    <3>2. byQuorum'[q] \in Verified
      BY Zenon, <2>1, <3>1 DEF VInv, Checked
    <3>3. byQuorum'[q] \in minable'
      BY <2>1, <2>3
    <3> QED BY Zenon, <3>1, <3>2, <3>3 DEF Minable
  <2>4. NInv'
    BY Zenon, <2>1, <2>3 DEF NInv
  <2>5. MinableKept
    BY Zenon, <2>1 DEF NInv, MinableKept
  <2> QED BY Zenon, <2>4, <2>5
<1>10. ASSUME NEW b \in Block, NEW check \in BOOLEAN, ConnectBlock(b, check)
       PROVE  NInv' /\ [MinableKept]_vars
  <2>1. UNCHANGED minableVars /\ val'.pc # "down" /\ val.pc = "idle"
    BY Zenon, <1>10, ConnectVal DEF ConnectBlock
  <2> QED BY Zenon, <1>2, <2>1
<1>11. CASE ProcessList \/ EraseHasMined
  <2>1. UNCHANGED minableVars /\ val'.pc \in {"finish", "cleanup", "list", "undoadd"}
    <3>1. CASE ProcessList
      <4>1. UNCHANGED minableVars /\ (val' = At("finish") \/ val' = At("cleanup"))
        BY Zenon, <3>1 DEF ProcessList
      <4> QED BY <4>1 DEF At
    <3>2. CASE EraseHasMined
      BY Zenon, <3>2 DEF EraseHasMined, At
    <3> QED BY Zenon, <1>11, <3>1, <3>2
  <2> QED BY Zenon, <1>2, <2>1
<1>12. CASE \/ WriteCommitment \/ ProcessListCleanup \/ RollbackBlock
            \/ CommitBlock \/ UndoCommitment \/ CommitDisconnect
            \/ FlushCoins \/ FlushEvoDb \/ UpdateTip \/ Reindex
  <2>1. UNCHANGED minableVars
        /\ val'.pc \in {"erase", "finish", "idle", "flush", "undoerase",
                        "commitroot", "updatetip"}
    <3>1. CASE WriteCommitment \/ ProcessListCleanup \/ UndoCommitment
      BY Zenon, <3>1, ValFields
         DEF WriteCommitment, ProcessListCleanup, UndoCommitment
    <3>2. CASE CommitBlock \/ CommitDisconnect \/ FlushEvoDb
      BY Zenon, <3>2, ValFields DEF CommitBlock, CommitDisconnect, FlushEvoDb
    <3>3. CASE RollbackBlock \/ UpdateTip \/ Reindex
      BY Zenon, <3>3, ValFields DEF RollbackBlock, UpdateTip, Reindex
    <3>4. CASE FlushCoins
      BY <3>4 DEF FlushCoins, At
    <3> QED BY Zenon, <1>12, <3>1, <3>2, <3>3, <3>4
  <2> QED BY Zenon, <1>2, <2>1
<1>13. CASE DisconnectBlock
  <2>1. UNCHANGED minableVars /\ val.pc = "idle" /\ val'.pc \in {"undo", "undone"}
    BY Zenon, <1>13 DEF DisconnectBlock, Idle
  <2> QED BY Zenon, <1>2, <2>1
<1>14. CASE \/ UpdatedBlockTip
            \/ \E b \in Asked : ReadMNList(b)
            \/ CreateNewBlock
            \/ UNCHANGED vars
  <2>1. UNCHANGED minableVars /\ UNCHANGED val
    BY Zenon, <1>14 DEF UpdatedBlockTip, ReadMNList, CreateNewBlock, vars
  <2> QED BY Zenon, <1>2, <2>1
<1>15. ASSUME NEW r \in Reader, ReaderStep(r) PROVE NInv' /\ [MinableKept]_vars
  <2>1. UNCHANGED minableVars /\ UNCHANGED val
    BY Zenon, <1>15 DEF ReaderStep, CallGetQuorum, CallScanQuorums, ScanIndex,
       ScanNext, ScanStore, LookUpHasMined, ReadHasMined, EmplaceHasMined,
       BuildQuorum, otherThanReaders
  <2> QED BY Zenon, <1>2, <2>1
<1> QED BY Zenon, <1>4, <1>5, <1>6, <1>7, <1>8, <1>9, <1>10, <1>11, <1>12,
           <1>13, <1>14, <1>15 DEF Next, Step

LEMMA MinableInvariants == Spec => [](PcInv /\ VInv /\ NInv)
BY PcInit, PcNext, VInit, VNext, NInit, NNext, PTL DEF Spec

\* "if a reorg happened, we should allow to mine this commitment later": after
\* UndoBlock the node has the undone commitment of the block or a better one to
\* mine, and what it has to mine for a quorum never gets worse while it runs
\* (UndoBlock, AddMinableCommitment), for every tree of blocks.
THEOREM UndoneAlwaysMinable == Spec => UndoneStaysMinable
<1>1. PcInv /\ VInv /\ NInv /\ [Next]_vars => [MinableKept]_vars
  BY Zenon, NNext
<1> QED BY MinableInvariants, <1>1, PTL DEF Spec, UndoneStaysMinable

\* What GetMinableCommitment gives the miner is known, and passes the checks of
\* ProcessBlock on top of the same tip, in every state between blocks.
THEOREM TemplateAlwaysAccepted == Spec => []TemplateAccepted
<1>1. ASSUME PcInv, NInv PROVE TemplateAccepted
  <2> DEFINE h == Height[tip] + 1
             q == GetQuorumBlockHash(tip, h)
             c == GetMinableCommitment(tip, h)
  <2>1. tip \in Block /\ h \in Nat
    BY <1>1, ForestAssumption DEF PcInv
  <2>2. q \in Quorum \cup {None}
    BY Zenon, <2>1, SessionIsQuorum
  <2>3. NullQc \notin Qc /\ NullQc # None /\ None \notin Qc
    BY Zenon, CommitmentAssumption
  <2>4. CASE ~IsCommitmentRequired(tip, h)
    <3>1. c = None
      BY Zenon, <2>4 DEF GetMinableCommitment
    <3>2. (c # None) = IsCommitmentRequired(tip, h)
      BY <2>4, <3>1 DEF IsCommitmentRequired
    <3> QED BY Zenon, <2>3, <3>1, <3>2 DEF TemplateAccepted, AcceptsCommitment
  <2>5. CASE IsCommitmentRequired(tip, h)
    <3>1. q \in Quorum
      BY Zenon, <2>2, <2>5 DEF IsCommitmentRequired
    <3>2. c = IF byQuorum[q] = None THEN NullQc ELSE byQuorum[q]
      BY Zenon, <2>5 DEF GetMinableCommitment
    <3>3. /\ c # None
          /\ c \in Qc => c \in minable /\ c \in Verified /\ QuorumOf[c] = q
      BY Zenon, <1>1, <2>3, <3>1, <3>2 DEF NInv, Minable
    <3>4. (c # None) = IsCommitmentRequired(tip, h)
      BY <2>5, <3>3 DEF IsCommitmentRequired
    <3> QED BY Zenon, <3>3, <3>4 DEF TemplateAccepted, AcceptsCommitment
  <2> QED BY Zenon, <2>4, <2>5
<1> QED BY MinableInvariants, <1>1, PTL
-----------------------------------------------------------------------------
(***************************************************************************)
(* ScanQuorums.  The index by height names the quorum of every commitment  *)
(* of the chain, also of quorums that a reader raced with.                 *)
(***************************************************************************)
Indexed(s) ==
  \A m \in Chain[s.best] : Commitment[m] \in Qc =>
    s.ih[Height[m]] = Height[QuorumOf[Commitment[m]]]

IInv == Indexed(root) /\ Indexed(disk)

\* Connecting b indexes its commitment; the lower heights stay.
LEMMA IndexedConnect ==
  ASSUME NEW b \in Block \ {Genesis}, StoreType(root), root.best = Parent(b),
         Indexed(root),
         IF Commitment[b] \in Qc THEN Added(b, Commitment[b]) ELSE Unchanged
  PROVE  Indexed(WithBest(cur, b))
<1>1. WithBest(cur, b).best = b /\ WithBest(cur, b).ih = cur.ih
  BY Zenon, BestOf
<1> SUFFICES ASSUME NEW m \in Chain[b], Commitment[m] \in Qc
             PROVE  cur.ih[Height[m]] = Height[QuorumOf[Commitment[m]]]
  BY Zenon, <1>1 DEF Indexed
<1>2. /\ Parent(b) \in Block /\ Height[Parent(b)] = Height[b] - 1
      /\ Chain[b] = Chain[Parent(b)] \cup {b}
  BY Zenon, ParentChain
<1>3. Height[b] \in Heights /\ Height[b] \in Nat
  BY Zenon, ForestAssumption DEF Heights
<1>4. CASE m = b
  BY <1>3, <1>4 DEF Added, StoreType
<1>5. CASE m # b
  <2>1. m \in Chain[Parent(b)]
    BY Zenon, <1>2, <1>5
  <2>2. Height[m] \in Heights /\ Height[m] # Height[b]
    BY <1>2, <1>3, <2>1, ForestAssumption DEF Heights
  <2>3. cur.ih[Height[m]] = root.ih[Height[m]]
    BY <2>2 DEF Added, Unchanged, StoreType
  <2> QED BY Zenon, <2>1, <2>3 DEF Indexed
<1> QED BY Zenon, <1>4, <1>5

LEMMA IndexedDisconnect ==
  ASSUME NEW b \in Block \ {Genesis}, StoreType(root), root.best = b,
         Indexed(root),
         IF Commitment[b] \in Qc THEN Removed(b, Commitment[b]) ELSE Unchanged
  PROVE  Indexed(WithBest(cur, Parent(b)))
<1>1. /\ WithBest(cur, Parent(b)).best = Parent(b)
      /\ WithBest(cur, Parent(b)).ih = cur.ih
  BY Zenon, BestOf
<1> SUFFICES ASSUME NEW m \in Chain[Parent(b)], Commitment[m] \in Qc
             PROVE  cur.ih[Height[m]] = Height[QuorumOf[Commitment[m]]]
  BY Zenon, <1>1 DEF Indexed
<1>2. /\ Parent(b) \in Block /\ Height[Parent(b)] = Height[b] - 1
      /\ Chain[b] = Chain[Parent(b)] \cup {b}
  BY Zenon, ParentChain
<1>3. Height[m] \in Heights /\ Height[m] # Height[b]
  BY <1>2, ForestAssumption DEF Heights
<1>4. cur.ih[Height[m]] = root.ih[Height[m]]
  BY <1>3 DEF Removed, Unchanged, StoreType
<1>5. m \in Chain[root.best]
  BY Zenon, <1>2
<1> QED BY Zenon, <1>4, <1>5 DEF Indexed

LEMMA EmptyIndexed == Indexed(EmptyStore)
<1>1. EmptyStore.best = Genesis /\ Commitment[Genesis] \notin Qc
  BY CommitmentAssumption DEF EmptyStore
<1> QED BY Zenon, <1>1, GenesisChain DEF Indexed

LEMMA IInit == Init => IInv
BY Zenon, EmptyIndexed DEF Init, IInv

LEMMA INext == PcInv /\ TxInv /\ IInv /\ [Next]_vars => IInv'
<1> SUFFICES ASSUME PcInv, TxInv, IInv, [Next]_vars PROVE IInv'
  BY Zenon
<1>1. ASSUME root' \in {root, disk, EmptyStore}, disk' \in {root, disk, EmptyStore}
      PROVE  IInv'
  BY Zenon, <1>1, EmptyIndexed DEF IInv
<1>2. CASE CommitBlock
  <2>1. PICK b \in Block \ {Genesis} : b = val.b
    BY <1>2 DEF CommitBlock, PcInv, ConnectPc
  <2>2. /\ val.pc = "finish" /\ root' = WithBest(cur, b) /\ UNCHANGED disk
    BY Zenon, <1>2, <2>1 DEF CommitBlock, CommitCurTransaction
  <2>3. root.best = Parent(b)
    BY Zenon, <2>1, <2>2 DEF PcInv, ConnectPc
  <2>4. Indexed(WithBest(cur, b))
    BY Zenon, <2>1, <2>2, <2>3, IndexedConnect DEF TxInv, IInv
  <2> QED BY Zenon, <2>2, <2>4 DEF IInv
<1>3. CASE CommitDisconnect
  <2>1. PICK b \in Block \ {Genesis} : b = val.b
    BY Zenon, <1>3 DEF CommitDisconnect, PcInv, UndoPc
  <2>2. /\ val.pc = "undone" /\ root' = WithBest(cur, Parent(b)) /\ UNCHANGED disk
    BY Zenon, <1>3, <2>1 DEF CommitDisconnect, CommitCurTransaction, PcInv, UndoPc
  <2>3. root.best = b
    BY Zenon, <2>1, <2>2 DEF PcInv, UndoPc
  <2>4. Indexed(WithBest(cur, Parent(b)))
    BY Zenon, <2>1, <2>2, <2>3, IndexedDisconnect DEF TxInv, IInv
  <2> QED BY Zenon, <2>2, <2>4 DEF IInv
<1>4. ASSUME NEW b \in Block, NEW check \in BOOLEAN, ConnectBlock(b, check)
      PROVE  IInv'
  BY Zenon, <1>1, <1>4 DEF ConnectBlock, dbVars
<1>5. CASE ProcessList
  BY Zenon, <1>1, <1>5 DEF ProcessList, dbVars, Write
<1>6. CASE \/ WriteCommitment \/ EraseHasMined \/ ProcessListCleanup
           \/ RollbackBlock \/ DisconnectBlock \/ UndoCommitment
           \/ UndoAddMinable \/ FlushCoins \/ UpdateTip
  <2>1. UNCHANGED <<root, disk>>
    BY Zenon, <1>6 DEF WriteCommitment, EraseHasMined, ProcessListCleanup,
       RollbackBlock, DisconnectBlock, UndoCommitment, UndoAddMinable,
       FlushCoins, UpdateTip, Write, RollbackCurTransaction, dbVars
  <2> QED BY Zenon, <1>1, <2>1
<1>7. CASE FlushEvoDb \/ Crash \/ Reindex
  BY Zenon, <1>1, <1>7 DEF FlushEvoDb, CommitRootTransaction, Crash, Reindex, Open
<1>8. CASE Start
  BY Zenon, <1>1, <1>8 DEF Start, dbVars
<1>9. ASSUME OtherStep PROVE IInv'
  BY Zenon, <1>1, <1>9, OtherSteps DEF dbVars
<1> QED BY Zenon, <1>2, <1>3, <1>4, <1>5, <1>6, <1>7, <1>8, <1>9
        DEF Next, Step, OtherStep

\* The quorum block of a block's session is on the chain of the block.
LEMMA SessionOnChain ==
  ASSUME NEW b \in Block \ {Genesis}, SessionOf(b) # None
  PROVE  SessionOf(b) \in Chain[b]
<1> DEFINE p == Parent(b)
           h == Height[b] - (Height[b] % DkgInterval)
<1>1. p \in Block /\ Chain[b] = Chain[p] \cup {b}
  BY Zenon, ParentChain
<1>2. DkgInterval \in Nat \ {0} /\ Height[b] \in Nat /\ Height[p] \in Nat
  BY <1>1, ParameterAssumption, ForestAssumption
<1>3. h \in Nat
  <2>1. Height[b] % DkgInterval \in Nat /\ Height[b] % DkgInterval <= Height[b]
    BY <1>2
  <2> QED BY <1>2, <2>1
<1>4. ~(h > Height[p]) /\ SessionOf(b) = CHOOSE a \in Chain[p] : Height[a] = h
  BY DEF SessionOf, GetQuorumBlockHash, GetAncestor
<1> HIDE DEF h
<1>5. h \in 0 .. Height[p]
  BY <1>2, <1>3, <1>4
<1>6. \E a \in Chain[p] : Height[a] = h
  BY Zenon, <1>1, <1>5, ForestAssumption
<1>7. SessionOf(b) \in Chain[p]
  BY Zenon, <1>4, <1>6
<1> QED BY Zenon, <1>1, <1>7

\* The chain of b has a commitment of q.
HasOn(b, q) ==
  \E m \in Chain[b] : Commitment[m] \in Qc /\ QuorumOf[Commitment[m]] = q

LEMMA HasIsMined == ASSUME NEW b, NEW q PROVE HasOn(b, q) <=> MinedOn(b, q) # {}
BY Zenon DEF HasOn, MinedOn

\* What a scan that met no reorganisation relies on, when best is the best
\* block of the committed data, the thread that holds cs_main is at pc and the
\* readers raced with the quorums R.
IsScan(s) ==
  s = [start |-> s.start, todo |-> s.todo, found |-> s.found, reorg |-> s.reorg]

Scanning(c) == c.scan.start # None /\ ~c.scan.reorg

\* The places of GetQuorum that hold a quorum.
GetPc == {"has", "exists", "emplace", "get"}

ScanOk(c, best, pc, R) ==
  /\ IsScan(c.scan)
  /\ c.pc = "idle" => c.scan.start = None
  /\ c.pc = "assert" => c.scan.start # None
  /\ Scanning(c) =>
       /\ c.scan.start \in Chain[best]
       /\ pc \notin UndoPc
       /\ \A q \in c.scan.todo : HasOn(c.scan.start, q)
       /\ c.pc \in GetPc =>
            HasOn(c.scan.start, c.q)
       /\ c.pc = "emplace" => c.ret \/ c.q \in R
       /\ c.pc = "assert" => c.q \in R

SInv ==
  /\ quorumsCache = [q \in Quorum |-> quorumsCache[q]]
  /\ \A r \in Reader : ScanOk(rd[r], root.best, val.pc, raced)

\* Between a read and its use, a commitment of the chain does not vanish from
\* the database unless a block is disconnected.
LEMMA MinedStays ==
  ASSUME PcInv, TxInv, CInv, val.pc # "down", val.pc \notin UndoPc,
         NEW b \in Chain[root.best], NEW q \in Quorum, q \notin raced, HasOn(b, q)
  PROVE  root.mc[q] # None /\ cur.mc[q] # None
<1>1. root.best \in Block
  BY Zenon DEF PcInv
<1>2. Chain[b] \subseteq Chain[root.best]
  BY Zenon, <1>1, ForestAssumption
<1>3. HasOn(root.best, q)
  BY Zenon, <1>2 DEF HasOn
<1>4. root.mc[q] # None
  BY Zenon, <1>3, HasIsMined DEF CInv, CommitmentsMatch, HoldsCommitments
<1>5. CASE Unchanged
  BY Zenon, <1>4, <1>5 DEF Unchanged
<1>6. ASSUME NEW m \in Block, Commitment[m] \in Qc, Added(m, Commitment[m])
      PROVE  cur.mc[q] # None
  <2>1. <<Commitment[m], m>> # None
    BY <1>6, CommitmentAssumption
  <2>2. cur.mc = [root.mc EXCEPT ![QuorumOf[Commitment[m]]] = <<Commitment[m], m>>]
    BY Zenon, <1>6 DEF Added
  <2>3. DOMAIN root.mc = Quorum
    BY Zenon DEF TxInv, StoreType
  <2> QED BY Zenon, <1>4, <2>1, <2>2, <2>3
<1>7. val.pc \in ConnectPc => val.b \in Block
  BY Zenon DEF PcInv
<1>8. val.pc \in ConnectPc \cup AfterPc \cup {"idle"}
  BY Zenon DEF PcInv
<1> QED BY Zenon, <1>4, <1>5, <1>6, <1>7, <1>8 DEF TxInv, ConnectPc, AfterPc

\* GetMinedCommitmentsUntilBlock finds quorums with a commitment on the chain.
LEMMA ScanFinds ==
  ASSUME PcInv, TxInv, CInv, VInv, IInv, val.pc # "down", val.pc \notin UndoPc,
         NEW b \in Chain[root.best], NEW h \in Heights, h <= Height[b],
         cur.ih[h] # None
  PROVE  HasOn(b, GetAncestor(b, cur.ih[h]))
<1>1. root.best \in Block /\ b \in Block /\ root.best = coins
  <2>1. root.best \in Block /\ root.best = coins
    BY Zenon DEF PcInv
  <2> QED BY Zenon, <2>1, ForestAssumption
<1>2. Height[b] <= Height[root.best] /\ Height[b] \in Nat /\ h \in Nat
      /\ Height[root.best] \in Nat
  BY <1>1, ForestAssumption DEF Heights
<1>3. cur.ih[h] = root.ih[h]
  <2>1. ASSUME NEW m \in Block, m # Genesis, Parent(m) = root.best
        PROVE  Height[m] # h
    <3>1. Height[root.best] = Height[m] - 1 /\ Height[m] \in Nat
      BY Zenon, <2>1, ParentChain, ForestAssumption
    <3> QED BY <1>2, <3>1
  <2>2. val.pc \in ConnectPc =>
          val.b \in Block /\ val.b # Genesis /\ Parent(val.b) = root.best
    BY Zenon DEF PcInv
  <2>3. val.pc \in ConnectPc => Height[val.b] # h
    BY Zenon, <2>1, <2>2
  <2>4. Unchanged \/ (val.pc \in ConnectPc /\ Added(val.b, Commitment[val.b]))
    BY Zenon DEF PcInv, TxInv, ConnectPc, AfterPc
  <2>5. DOMAIN root.ih = Heights
    BY Zenon DEF TxInv, StoreType
  <2> QED BY Zenon, <2>3, <2>4, <2>5 DEF Added, Unchanged
<1>4. PICK m \in Chain[root.best] : Height[m] = h /\ Commitment[m] \in Qc
  BY Zenon, <1>3 DEF CInv, CommitmentsMatch, HoldsCommitments
<1> DEFINE q == QuorumOf[Commitment[m]]
<1>5. m \in Block /\ m \in Chain[b] /\ Chain[m] \subseteq Chain[b]
  BY <1>1, <1>2, <1>4, ForestAssumption
<1>6. m # Genesis /\ q \in Block /\ None \notin Block
  BY Zenon, <1>4, CommitmentAssumption, ForestAssumption
<1>7. q = SessionOf(m)
  BY Zenon, <1>1, <1>4 DEF VInv, Checked
<1>8. q \in Chain[b]
  BY Zenon, <1>5, <1>6, <1>7, SessionOnChain
<1>9. cur.ih[h] = Height[q]
  BY Zenon, <1>3, <1>4 DEF IInv, Indexed
<1>10. GetAncestor(b, Height[q]) = q
  <2>1. Height[q] \in Nat /\ Height[q] <= Height[b]
    BY <1>1, <1>6, <1>8, ForestAssumption
  <2>2. ASSUME NEW a \in Chain[b], Height[a] = Height[q] PROVE a = q
    <3>1. Height[a] <= Height[q]
      BY <2>1, <2>2
    <3>2. a \in Chain[q]
      BY Zenon, <1>1, <1>8, <3>1, ForestAssumption
    <3> QED BY Zenon, <1>6, <2>2, <3>2, ForestAssumption
  <2>3. ~(Height[q] > Height[b])
    BY <1>2, <2>1
  <2>4. (CHOOSE a \in Chain[b] : Height[a] = Height[q]) = q
    BY Zenon, <1>8, <2>2
  <2> QED BY Zenon, <2>3, <2>4 DEF GetAncestor
<1> QED BY Zenon, <1>4, <1>5, <1>9, <1>10 DEF HasOn

\* A scan is not disturbed by blocks that are connected, or by more races.
LEMMA ScanKeeps ==
  ASSUME NEW c, NEW b, NEW pc, NEW R, ScanOk(c, b, pc, R),
         NEW b2, NEW pc2, NEW S, Chain[b] \subseteq Chain[b2], R \subseteq S,
         pc2 \in UndoPc => pc \in UndoPc
  PROVE  ScanOk(c, b2, pc2, S)
BY Zenon DEF ScanOk

\* Neither by a change of `dirty`.
LEMMA ScanSame ==
  ASSUME NEW c, NEW d, NEW b, NEW pc, NEW R, ScanOk(c, b, pc, R),
         d.pc = c.pc, d.q = c.q, d.scan = c.scan, d.ret = c.ret
  PROVE  ScanOk(d, b, pc, R)
BY Zenon DEF ScanOk, Scanning

LEMMA IdleOk == ASSUME NEW b, NEW pc, NEW R PROVE ScanOk(RIdle, b, pc, R)
BY Zenon DEF ScanOk, Scanning, IsScan, RIdle, NoScan, Call

LEMMA ScanTodo ==
  ASSUME NEW s, IsScan(s), NEW T, NEW x, x = [s EXCEPT !.todo = T]
  PROVE  IsScan(x) /\ x.start = s.start /\ x.reorg = s.reorg /\ x.todo = T
BY DEF IsScan

LEMMA ScanFound ==
  ASSUME NEW s, IsScan(s), NEW e, NEW x, x = [s EXCEPT !.found = @ \cup {e}]
  PROVE  IsScan(x) /\ x.start = s.start /\ x.reorg = s.reorg /\ x.todo = s.todo
BY DEF IsScan

LEMMA ScanReorg ==
  ASSUME NEW s, IsScan(s), NEW v, NEW x, x = [s EXCEPT !.reorg = v]
  PROVE  IsScan(x) /\ x.start = s.start /\ x.reorg = v
BY DEF IsScan

LEMMA ScanStart ==
  ASSUME NEW s, IsScan(s), NEW b, NEW x, x = [s EXCEPT !.start = b]
  PROVE  IsScan(x) /\ x.start = b /\ x.todo = s.todo
BY DEF IsScan

LEMMA SInit == Init => SInv
<1> SUFFICES ASSUME Init PROVE SInv
  BY Zenon
<1>1. /\ quorumsCache = [q \in Quorum |-> None]
      /\ \A r \in Reader : rd[r] = RIdle
  BY Zenon DEF Init
<1>2. \A r \in Reader : ScanOk(rd[r], root.best, val.pc, raced)
  BY Zenon, <1>1, IdleOk
<1> QED BY Zenon, <1>1, <1>2 DEF SInv

LEMMA SReader ==
  ASSUME PcInv, TxInv, HInv, CInv, VInv, IInv, SInv, NEW r \in Reader,
         ReaderStep(r)
  PROVE  SInv'
<1> DEFINE q == rd[r].q
           s == rd[r].scan
           Ok(c) == ScanOk(c, root.best, val.pc, raced)
<1>1. /\ UNCHANGED <<root, cur, val>> /\ raced \subseteq raced'
  <2>1. UNCHANGED dbVars /\ UNCHANGED val
    BY Zenon DEF ReaderStep, CallGetQuorum, CallScanQuorums, ScanIndex,
       ScanNext, ScanStore, LookUpHasMined, ReadHasMined, EmplaceHasMined,
       BuildQuorum, otherThanReaders
  <2>2. raced \subseteq raced'
    BY Zenon DEF ReaderStep, CallGetQuorum, CallScanQuorums, ScanIndex,
         ScanNext, ScanStore, LookUpHasMined, ReadHasMined, EmplaceHasMined,
         BuildQuorum, readerCaches
  <2> QED BY Zenon, <2>1, <2>2 DEF dbVars
<1>2. Ok(rd[r]) /\ ReaderInv(rd[r]) /\ rd = [p \in Reader |-> rd[p]]
  BY Zenon DEF SInv, HInv
<1>3. rd[r].pc # "idle" => val.pc # "down"
  BY Zenon, <1>2 DEF ReaderInv
<1>4. IsScan(s)
  BY Zenon, <1>2 DEF ScanOk
\* Only the call of r changes.
<1>5. ASSUME NEW c, rd' = [rd EXCEPT ![r] = c], Ok(c),
             quorumsCache' = [p \in Quorum |-> quorumsCache'[p]]
      PROVE  SInv'
  <2>1. \A p \in Reader : rd'[p] = IF p = r THEN c ELSE rd[p]
    BY Zenon, <1>2, <1>5
  <2>2. \A p \in Reader : Ok(rd'[p])
    BY Zenon, <1>5, <2>1 DEF SInv
  <2>3. \A p \in Reader : ScanOk(rd'[p], root'.best, val'.pc, raced')
    BY Zenon, <1>1, <2>2, ScanKeeps
  <2> QED BY Zenon, <1>5, <2>3 DEF SInv
<1>6. quorumsCache = [p \in Quorum |-> quorumsCache[p]]
  BY Zenon DEF SInv
\* What the chain has is in the database for a scan.
<1>7. Scanning(rd[r]) =>
        s.start \in Chain[root.best] /\ val.pc \notin UndoPc
  BY Zenon, <1>2 DEF ScanOk
<1>8. ASSUME rd[r].pc \in GetPc
      PROVE  /\ q \in Quorum /\ val.pc # "down"
             /\ Scanning(rd[r]) => HasOn(s.start, q)
             /\ Scanning(rd[r]) /\ q \notin raced =>
                  root.mc[q] # None /\ cur.mc[q] # None
  <2>1. q \in Quorum /\ val.pc # "down"
    BY <1>2, <1>3, <1>8 DEF ReaderInv, GetPc
  <2>2. Scanning(rd[r]) => HasOn(s.start, q)
    BY Zenon, <1>2, <1>8 DEF ScanOk
  <2> QED BY Zenon, <1>7, <2>1, <2>2, MinedStays
\* The ends of GetQuorum.
<1>9. ASSUME NEW pc \in GetPc, NEW ret, NEW dirty,
             rd[r].pc \in GetPc,
             pc = "emplace" /\ Scanning(rd[r]) => ret \/ q \in raced
      PROVE  Ok(Call(pc, q, s, ret, dirty))
  <2> DEFINE c == Call(pc, q, s, ret, dirty)
  <2>1. c.pc = pc /\ c.q = q /\ c.scan = s /\ c.ret = ret
    BY Zenon DEF Call
  <2> HIDE DEF c
  <2>2. Scanning(c) <=> Scanning(rd[r])
    BY Zenon, <2>1 DEF Scanning
  <2>3. c.pc # "idle" /\ c.pc # "assert"
    BY <1>9, <2>1 DEF GetPc
  <2>4. Scanning(rd[r]) => \A p \in s.todo : HasOn(s.start, p)
    BY Zenon, <1>2 DEF ScanOk
  <2>5. Ok(c)
    BY Zenon, <1>4, <1>7, <1>8, <1>9, <2>1, <2>2, <2>3, <2>4 DEF ScanOk
  <2> QED BY Zenon, <2>5 DEF c
<1>10. ASSUME Scanning(rd[r]) => q \in raced PROVE Ok(Nothing(r))
  <2>1. CASE s.start = None
    BY Zenon, <2>1, IdleOk DEF Nothing
  <2>2. CASE s.start # None
    <3> DEFINE c == Call("assert", q, s, FALSE, FALSE)
    <3>1. c.pc = "assert" /\ c.q = q /\ c.scan = s
      BY Zenon DEF Call
    <3>2. Nothing(r) = c
      BY Zenon, <2>2 DEF Nothing
    <3> HIDE DEF c
    <3>3. Scanning(c) <=> Scanning(rd[r])
      BY Zenon, <3>1 DEF Scanning
    <3>4. Scanning(rd[r]) => \A p \in s.todo : HasOn(s.start, p)
      BY Zenon, <1>2 DEF ScanOk
    <3>5. c.pc # "idle" /\ c.pc # "emplace" /\ c.pc \notin GetPc
      BY <3>1 DEF GetPc
    <3>6. Ok(c)
      BY Zenon, <1>4, <1>7, <1>10, <2>2, <3>1, <3>3, <3>4, <3>5 DEF ScanOk
    <3> QED BY Zenon, <3>2, <3>6
  <2> QED BY Zenon, <2>1, <2>2
\* A call with other sets.
<1>11. ASSUME NEW pc \in {"next", "has"}, NEW p, NEW x, IsScan(x),
              x.start = s.start, x.reorg = s.reorg,
              Scanning(rd[r]) => \A k \in x.todo : HasOn(s.start, k),
              pc = "has" /\ Scanning(rd[r]) => HasOn(s.start, p)
       PROVE  Ok(Call(pc, p, x, FALSE, FALSE))
  <2> DEFINE c == Call(pc, p, x, FALSE, FALSE)
  <2>1. c.pc = pc /\ c.q = p /\ c.scan = x
    BY Zenon DEF Call
  <2> HIDE DEF c
  <2>2. Scanning(c) <=> Scanning(rd[r])
    BY Zenon, <1>11, <2>1 DEF Scanning
  <2>3. /\ c.pc # "idle" /\ c.pc # "assert" /\ c.pc # "emplace"
        /\ (c.pc \in GetPc => pc = "has")
    BY <1>11, <2>1 DEF GetPc
  <2>4. Ok(c)
    BY Zenon, <1>7, <1>11, <2>1, <2>2, <2>3 DEF ScanOk
  <2> QED BY Zenon, <2>4 DEF c
<1> HIDE DEF Ok
<1>12. ASSUME NEW p \in Quorum, CallGetQuorum(r, p) PROVE SInv'
  <2>1. ScanOk(Call("has", p, NoScan, FALSE, FALSE), root.best, val.pc, raced)
    BY Zenon DEF ScanOk, Scanning, IsScan, NoScan, Call, GetPc
  <2> QED BY Zenon, <1>5, <1>6, <1>12, <2>1 DEF CallGetQuorum, readerCaches, Ok
<1>13. CASE CallScanQuorums(r)
  <2> DEFINE x == [NoScan EXCEPT !.start = tip]
             c == Call("scan", None, x, FALSE, FALSE)
  <2>1. val.pc = "idle" /\ tip \in Block /\ root.best = tip /\ tip \in Chain[tip]
    BY Zenon, <1>13, ForestAssumption DEF CallScanQuorums, Idle, PcInv
  <2>2. /\ IsScan(x) /\ x.start = tip /\ x.todo = {}
    <3>1. IsScan(NoScan) /\ NoScan.todo = {}
      BY Zenon DEF NoScan, IsScan
    <3> QED BY <3>1, ScanStart
  <2> HIDE DEF x
  <2>3. c.pc = "scan" /\ c.scan = x
    BY Zenon DEF Call
  <2>4. rd' = [rd EXCEPT ![r] = c] /\ UNCHANGED quorumsCache
    BY Zenon, <1>13 DEF CallScanQuorums, readerCaches, x
  <2> HIDE DEF c
  <2>5. /\ c.pc # "idle" /\ c.pc # "assert" /\ c.pc # "emplace"
        /\ c.pc \notin GetPc /\ val.pc \notin UndoPc
    BY Zenon, <2>1, <2>3 DEF UndoPc, GetPc
  <2>6. Ok(c)
    BY <2>1, <2>2, <2>3, <2>5 DEF ScanOk, Ok
  <2> QED BY Zenon, <1>5, <1>6, <2>4, <2>6
<1>14. CASE ScanIndex(r)
  <2> DEFINE hs == {h \in Heights : h <= Height[s.start] /\ cur.ih[h] # None}
             T == {GetAncestor(s.start, cur.ih[h]) : h \in hs}
             x == [s EXCEPT !.todo = T]
  <2>1. /\ rd' = [rd EXCEPT ![r] = Call("next", None, x, FALSE, FALSE)]
        /\ UNCHANGED quorumsCache /\ val.pc # "down"
    BY Zenon, <1>3, <1>14 DEF ScanIndex, readerCaches
  <2>2. Scanning(rd[r]) => \A k \in T : HasOn(s.start, k)
    <3> SUFFICES ASSUME Scanning(rd[r]), NEW h \in hs
                 PROVE  HasOn(s.start, GetAncestor(s.start, cur.ih[h]))
      BY Zenon
    <3>1. h \in Heights /\ h <= Height[s.start] /\ cur.ih[h] # None
      OBVIOUS
    <3> QED BY Zenon, <1>7, <2>1, <3>1, ScanFinds
  <2> HIDE DEF T
  <2>3. IsScan(x) /\ x.start = s.start /\ x.reorg = s.reorg /\ x.todo = T
    BY <1>4, ScanTodo
  <2> HIDE DEF x
  <2>4. Ok(Call("next", None, x, FALSE, FALSE))
    BY Zenon, <1>11, <2>2, <2>3
  <2> QED BY Zenon, <1>5, <1>6, <2>1, <2>4
<1>15. ASSUME NEW p \in Quorum, ScanNext(r, p) PROVE SInv'
  <2> DEFINE T == s.todo \ {p}
             x == [s EXCEPT !.todo = T]
  <2>1. /\ rd' = [rd EXCEPT ![r] = Call("has", p, x, FALSE, FALSE)]
        /\ UNCHANGED quorumsCache /\ p \in s.todo
    BY Zenon, <1>15 DEF ScanNext, readerCaches
  <2>2. Scanning(rd[r]) => \A k \in s.todo : HasOn(s.start, k)
    BY Zenon, <1>2 DEF ScanOk, Ok
  <2>3. /\ IsScan(x) /\ x.start = s.start /\ x.reorg = s.reorg
        /\ x.todo = s.todo \ {p}
    <3>1. T = s.todo \ {p}
      BY Zenon
    <3> HIDE DEF T
    <3>2. IsScan(x) /\ x.start = s.start /\ x.reorg = s.reorg /\ x.todo = T
      BY <1>4, ScanTodo
    <3> QED BY Zenon, <3>1, <3>2
  <2> HIDE DEF x
  <2>4. Scanning(rd[r]) =>
          HasOn(s.start, p) /\ \A k \in x.todo : HasOn(s.start, k)
    BY Zenon, <2>1, <2>2, <2>3
  <2>5. Ok(Call("has", p, x, FALSE, FALSE))
    BY Zenon, <1>11, <2>3, <2>4
  <2> QED BY Zenon, <1>5, <1>6, <2>1, <2>5
<1>16. CASE ScanStore(r)
  <2>1. Ok(RIdle)
    BY Zenon, IdleOk DEF Ok
  <2> QED BY Zenon, <1>5, <1>6, <1>16, <2>1 DEF ScanStore
<1>17. ASSUME rd[r].pc \in GetPc, NEW ret,
              Scanning(rd[r]) => ret \/ q \in raced
       PROVE  Ok(AfterHasMined(r, ret))
  <2>1. "get" \in GetPc /\ "get" # "emplace"
    BY DEF GetPc
  <2>2. Ok(Call("get", q, s, FALSE, FALSE))
    BY Zenon, <1>9, <1>17, <2>1
  <2>3. ~ret => Ok(Nothing(r))
    BY Zenon, <1>10, <1>17
  <2> QED BY Zenon, <2>2, <2>3 DEF AfterHasMined
<1>18. CASE LookUpHasMined(r)
  <2>1. rd[r].pc \in GetPc /\ UNCHANGED quorumsCache
    <3>1. rd[r].pc = "has" /\ UNCHANGED quorumsCache
      BY Zenon, <1>18 DEF LookUpHasMined, readerCaches
    <3> QED BY <3>1 DEF GetPc
  <2>2. CASE hasMined[q] = None
    <3>1. "exists" \in GetPc /\ "exists" # "emplace"
      BY DEF GetPc
    <3>2. Ok(Call("exists", q, s, FALSE, FALSE))
      BY Zenon, <1>9, <2>1, <3>1
    <3> QED BY Zenon, <1>5, <1>6, <1>18, <2>1, <2>2, <3>2 DEF LookUpHasMined
  <2>3. CASE hasMined[q] # None
    <3>1. ASSUME Scanning(rd[r]), q \notin raced PROVE hasMined[q] = TRUE
      <4>1. /\ q \in Quorum /\ root.mc[q] # None /\ cur.mc[q] # None
            /\ HasOn(s.start, q) /\ s.start \in Chain[root.best]
            /\ val.pc \notin UndoPc
        BY Zenon, <1>7, <1>8, <2>1, <3>1
      <4>2. Erasing(q) \/ Settled(q, hasMined[q])
        BY Zenon, <2>3, <3>1, <4>1 DEF HInv
      <4>3. ~Erasing(q)
        <5> SUFFICES ASSUME Erasing(q) PROVE FALSE
          BY Zenon
        <5>1. val.pc = "erase" /\ QuorumOf[Commitment[val.b]] = q
          BY <4>1 DEF Erasing, UndoPc
        <5>2. /\ Parent(val.b) = root.best /\ Commitment[val.b] \in Qc
              /\ root.best \in Block
          BY Zenon, <5>1 DEF PcInv, ConnectPc
        <5>3. SessionOf(val.b) = q /\ Follows(val.b, raced)
          BY Zenon, <5>1, <5>2 DEF CInv, ConnectPc
        <5>4. MinedOn(root.best, q) = {}
          <6>1. None \notin Qc
            BY Zenon, CommitmentAssumption
          <6>2. \/ SessionOf(val.b) \in raced
                \/ MinedOn(Parent(val.b), SessionOf(val.b)) = {}
            BY Zenon, <5>2, <5>3, <6>1 DEF Follows, FollowsWindow
          <6> QED BY <3>1, <5>2, <5>3, <6>2
        <5>5. HasOn(root.best, q)
          <6>1. Chain[s.start] \subseteq Chain[root.best]
            <7>1. root.best \in Block /\ s.start \in Chain[root.best]
              BY Zenon, <4>1, <5>2
            <7> QED BY Zenon, <7>1, ForestAssumption
          <6> QED BY Zenon, <4>1, <6>1 DEF HasOn
        <5> QED BY Zenon, <5>4, <5>5, HasIsMined
      <4> QED BY Zenon, <4>1, <4>2, <4>3 DEF Settled
    <3>2. Ok(AfterHasMined(r, hasMined[q] = TRUE))
      BY Zenon, <1>17, <2>1, <3>1
    <3> QED BY Zenon, <1>5, <1>6, <1>18, <2>1, <2>3, <3>2 DEF LookUpHasMined
  <2> QED BY Zenon, <2>2, <2>3
<1>19. CASE ReadHasMined(r)
  <2>1. /\ rd[r].pc = "exists" /\ UNCHANGED quorumsCache
        /\ rd' = [rd EXCEPT ![r] = Call("emplace", q, s, cur.mc[q] # None,
                                        cur.mc[q] # root.mc[q])]
    BY Zenon, <1>19 DEF ReadHasMined, readerCaches
  <2>0. rd[r].pc \in GetPc /\ "emplace" \in GetPc
    BY <2>1 DEF GetPc
  <2>2. Scanning(rd[r]) => cur.mc[q] # None \/ q \in raced
    BY Zenon, <1>8, <2>0
  <2>3. Ok(Call("emplace", q, s, cur.mc[q] # None, cur.mc[q] # root.mc[q]))
    BY Zenon, <1>9, <2>0, <2>2
  <2> QED BY Zenon, <1>5, <1>6, <2>1, <2>3
<1>20. CASE EmplaceHasMined(r)
  <2>1. /\ rd[r].pc = "emplace" /\ UNCHANGED quorumsCache
        /\ rd' = [rd EXCEPT ![r] = AfterHasMined(r, rd[r].ret)]
    BY Zenon, <1>20 DEF EmplaceHasMined
  <2>2. Scanning(rd[r]) => rd[r].ret \/ q \in raced
    BY Zenon, <1>2, <2>1 DEF ScanOk, Ok
  <2>0. rd[r].pc \in GetPc
    BY <2>1 DEF GetPc
  <2>3. Ok(AfterHasMined(r, rd[r].ret))
    BY Zenon, <1>17, <2>0, <2>2
  <2> QED BY Zenon, <1>5, <1>6, <2>1, <2>3
<1>21. CASE BuildQuorum(r)
  <2>1. /\ rd[r].pc = "get"
        /\ quorumsCache' = IF quorumsCache[q] # None THEN quorumsCache
                           ELSE [quorumsCache EXCEPT ![q] = cur.mc[q]]
        /\ rd' = [rd EXCEPT ![r] = IF quorumsCache'[q] = None THEN Nothing(r)
                                   ELSE Something(r, quorumsCache'[q])]
    BY Zenon, <1>21 DEF BuildQuorum
  <2>0. rd[r].pc \in GetPc
    BY <2>1 DEF GetPc
  <2>2. q \in Quorum
    BY Zenon, <1>8, <2>0
  <2>3. quorumsCache' = [p \in Quorum |-> quorumsCache'[p]]
    BY Zenon, <1>6, <2>1
  <2>4. quorumsCache'[q] = None => cur.mc[q] = None
    BY <1>6, <2>1, <2>2
  <2>5. quorumsCache'[q] = None => Ok(Nothing(r))
    BY Zenon, <1>8, <1>10, <2>0, <2>4
  <2>6. ASSUME NEW e PROVE Ok(Something(r, e))
    <3>1. CASE s.start = None
      BY Zenon, <3>1, IdleOk DEF Something, Ok
    <3>2. CASE s.start # None
      <4> DEFINE x == [s EXCEPT !.found = @ \cup {e}]
      <4>1. Something(r, e) = Call("next", None, x, FALSE, FALSE)
        BY Zenon, <3>2 DEF Something
      <4>2. IsScan(x) /\ x.start = s.start /\ x.reorg = s.reorg /\ x.todo = s.todo
        BY ZenonT(40), <1>4, ScanFound
      <4> HIDE DEF x
      <4>3. Scanning(rd[r]) => \A k \in x.todo : HasOn(s.start, k)
        BY Zenon, <1>2, <4>2 DEF ScanOk, Ok
      <4>4. Ok(Call("next", None, x, FALSE, FALSE))
        BY Zenon, <1>11, <4>2, <4>3
      <4> QED BY Zenon, <4>1, <4>4
    <3> QED BY Zenon, <3>1, <3>2
  <2>7. Ok(IF quorumsCache'[q] = None THEN Nothing(r)
           ELSE Something(r, quorumsCache'[q]))
    BY Zenon, <2>5, <2>6
  <2> QED BY Zenon, <1>5, <2>1, <2>3, <2>7
<1> QED BY Zenon, <1>12, <1>13, <1>14, <1>15, <1>16, <1>18, <1>19, <1>20, <1>21
        DEF ReaderStep

LEMMA SNext ==
  PcInv /\ TxInv /\ HInv /\ CInv /\ VInv /\ IInv /\ SInv /\ [Next]_vars => SInv'
<1> SUFFICES ASSUME PcInv, TxInv, HInv, CInv, VInv, IInv, SInv, [Next]_vars
             PROVE  SInv'
  BY Zenon
\* Steps that leave the calls alone, or make some of them late.
<1>1. ASSUME UNCHANGED <<quorumsCache, raced>>,
             rd' = rd \/ \E q : rd' = LateFor(q),
             Chain[root.best] \subseteq Chain[root'.best],
             val'.pc \in UndoPc => val.pc \in UndoPc
      PROVE  SInv'
  <2>1. ASSUME NEW r \in Reader
        PROVE  /\ rd'[r].pc = rd[r].pc /\ rd'[r].q = rd[r].q
               /\ rd'[r].scan = rd[r].scan /\ rd'[r].ret = rd[r].ret
    <3>1. ASSUME NEW q, rd' = LateFor(q)
          PROVE  /\ rd'[r].pc = rd[r].pc /\ rd'[r].q = rd[r].q
                 /\ rd'[r].scan = rd[r].scan /\ rd'[r].ret = rd[r].ret
      BY Zenon, <2>1, <3>1 DEF LateFor, Call
    <3> QED BY Zenon, <1>1, <3>1
  <2>2. ASSUME NEW r \in Reader
        PROVE  ScanOk(rd'[r], root'.best, val'.pc, raced')
    <3>1. ScanOk(rd[r], root.best, val.pc, raced)
      BY Zenon, <2>2 DEF SInv
    <3>2. ScanOk(rd'[r], root.best, val.pc, raced)
      BY Zenon, <2>1, <2>2, <3>1, ScanSame
    <3> QED BY Zenon, <1>1, <3>2, ScanKeeps
  <2> QED BY Zenon, <1>1, <2>2 DEF SInv
<1>2. ASSUME NEW b \in Block, NEW check \in BOOLEAN, ConnectBlock(b, check)
      PROVE  SInv'
  <2>1. /\ UNCHANGED <<root, rd, quorumsCache, raced>>
    BY Zenon, <1>2 DEF ConnectBlock, dbVars, readerVars
  <2>2. val'.pc \in UndoPc => val.pc \in UndoPc
    BY Zenon, <1>2, ConnectVal DEF UndoPc
  <2> QED BY Zenon, <1>1, <2>1, <2>2
<1>3. CASE CommitBlock
  <2>1. /\ UNCHANGED <<rd, quorumsCache, raced>> /\ val'.pc = "flush"
        /\ val.pc = "finish" /\ root'.best = val.b
    BY Zenon, <1>3 DEF CommitBlock, CommitCurTransaction, WithBest, At, readerVars
  <2>2. val.b \in Block \ {Genesis} /\ Parent(val.b) = root.best
    BY Zenon, <2>1 DEF PcInv, ConnectPc
  <2>3. Chain[val.b] = Chain[Parent(val.b)] \cup {val.b}
    BY Zenon, <2>2, ParentChain
  <2>4. Chain[root.best] \subseteq Chain[root'.best]
    BY Zenon, <2>1, <2>2, <2>3
  <2> QED BY <1>1, <2>1, <2>4 DEF UndoPc
<1>4. CASE CommitDisconnect
  <2>1. /\ UNCHANGED <<rd, quorumsCache, raced>> /\ val.pc = "undone"
    BY Zenon, <1>4 DEF CommitDisconnect, readerVars
  <2>2. \A r \in Reader : ~Scanning(rd[r])
    BY Zenon, <2>1 DEF SInv, ScanOk, UndoPc
  <2> QED BY Zenon, <2>1, <2>2 DEF SInv, ScanOk
<1>5. CASE DisconnectBlock
  <2>1. UNCHANGED <<quorumsCache, raced>> /\ rd' = ReorgForScans
    BY Zenon, <1>5 DEF DisconnectBlock
  <2>2. ASSUME NEW r \in Reader
        PROVE  ScanOk(rd'[r], root'.best, val'.pc, raced')
    <3> DEFINE v == rd[r].scan.start # None
               x == [rd[r].scan EXCEPT !.reorg = v]
    <3>1. rd'[r].pc = rd[r].pc /\ rd'[r].scan = x
      BY Zenon, <2>1, <2>2 DEF ReorgForScans, Call
    <3>2. /\ IsScan(rd[r].scan)
          /\ rd[r].pc = "idle" => rd[r].scan.start = None
          /\ rd[r].pc = "assert" => rd[r].scan.start # None
      BY Zenon, <2>2 DEF SInv, ScanOk
    <3>3. /\ IsScan(x) /\ x.start = rd[r].scan.start
          /\ (x.reorg <=> rd[r].scan.start # None)
      <4>1. x = [rd[r].scan EXCEPT !.reorg = v]
        BY Zenon
      <4> HIDE DEF v, x
      <4>2. IsScan(x) /\ x.start = rd[r].scan.start /\ x.reorg = v
        BY <3>2, <4>1, ScanReorg
      <4> QED BY Zenon, <4>2 DEF v
    <3> HIDE DEF x
    <3>4. ~Scanning(rd'[r])
      BY Zenon, <3>1, <3>3 DEF Scanning
    <3> QED BY Zenon, <3>1, <3>2, <3>3, <3>4 DEF ScanOk
  <2> QED BY Zenon, <2>1, <2>2 DEF SInv
<1>6. CASE Crash
  <2>1. /\ rd' = [r \in Reader |-> RIdle]
        /\ quorumsCache' = [q \in Quorum |-> None]
    BY Zenon, <1>6 DEF Crash
  <2> QED BY Zenon, <2>1, IdleOk DEF SInv
<1>7. CASE Start \/ Reindex
  <2>1. val.pc = "down" /\ UNCHANGED <<rd, quorumsCache>>
    BY Zenon, <1>7 DEF Start, Reindex, readerVars
  <2>2. \A r \in Reader : rd[r].pc = "idle"
    BY Zenon, <2>1 DEF HInv, ReaderInv
  <2>3. \A r \in Reader : ~Scanning(rd[r])
    BY Zenon, <2>2 DEF SInv, ScanOk, Scanning
  <2> QED BY Zenon, <2>1, <2>3 DEF SInv, ScanOk
<1>8. CASE WriteCommitment \/ RollbackBlock
  <2>1. /\ UNCHANGED <<root, quorumsCache, raced>>
        /\ rd' = rd \/ \E q : rd' = LateFor(q)
        /\ val'.pc \in {"erase", "idle"}
    <3>1. CASE WriteCommitment
      BY Zenon, <3>1 DEF WriteCommitment, Write, At
    <3>2. CASE RollbackBlock
      <4>1. UNCHANGED <<root, quorumsCache, raced>> /\ val'.pc = "idle"
        BY Zenon, <3>2 DEF RollbackBlock, RollbackCurTransaction, Idle
      <4>2. rd' = rd \/ \E q : rd' = LateFor(q)
        BY Zenon, <3>2 DEF RollbackBlock
      <4> QED BY Zenon, <4>1, <4>2
    <3> QED BY Zenon, <1>8, <3>1, <3>2
  <2> QED BY <1>1, <2>1 DEF UndoPc
<1>9. CASE UndoCommitment
  <2>1. /\ UNCHANGED <<root, quorumsCache, raced>> /\ \E q : rd' = LateFor(q)
        /\ val.pc = "undo"
    BY Zenon, <1>9 DEF UndoCommitment, Write
  <2> QED BY <1>1, <2>1 DEF UndoPc
<1>10. CASE ProcessList
  <2>1. UNCHANGED <<root, rd, quorumsCache, raced>>
    BY Zenon, <1>10 DEF ProcessList, Write, dbVars, readerVars
  <2>2. val' = At("finish") \/ val' = At("cleanup")
    BY Zenon, <1>10 DEF ProcessList
  <2>3. val'.pc \notin UndoPc
    BY <2>2 DEF At, UndoPc
  <2> QED BY Zenon, <1>1, <2>1, <2>3
<1>11. CASE EraseHasMined \/ UndoAddMinable
  <2>1. UNCHANGED <<root, rd, quorumsCache, raced>>
    BY Zenon, <1>11 DEF EraseHasMined, UndoAddMinable, dbVars, readerVars
  <2>2. val'.pc \in UndoPc => val.pc \in UndoPc
    <3>1. CASE EraseHasMined
      <4>1. \/ val.pc = "erase" /\ val' = At("list")
            \/ val.pc = "undoerase"
        BY <3>1 DEF EraseHasMined
      <4> QED BY Zenon, <4>1, ValFields DEF UndoPc
    <3>2. CASE UndoAddMinable
      BY Zenon, <3>2 DEF UndoAddMinable, UndoPc
    <3> QED BY Zenon, <1>11, <3>1, <3>2
  <2> QED BY Zenon, <1>1, <2>1, <2>2
<1>12. CASE ProcessListCleanup \/ FlushCoins \/ FlushEvoDb \/ UpdateTip
  <2>1. /\ UNCHANGED <<root, rd, quorumsCache, raced>>
        /\ val'.pc \in {"finish", "commitroot", "updatetip", "idle"}
    <3>1. CASE ProcessListCleanup
      BY Zenon, <3>1, ValFields DEF ProcessListCleanup, dbVars, readerVars
    <3>2. CASE FlushCoins
      <4>1. val'.pc = "commitroot"
        BY <3>2 DEF FlushCoins, At
      <4> QED BY Zenon, <3>2, <4>1 DEF FlushCoins, dbVars, readerVars
    <3>3. CASE FlushEvoDb
      BY Zenon, <3>3, ValFields
         DEF FlushEvoDb, CommitRootTransaction, readerVars
    <3>4. CASE UpdateTip
      BY Zenon, <3>4, ValFields DEF UpdateTip, dbVars, readerVars
    <3> QED BY Zenon, <1>12, <3>1, <3>2, <3>3, <3>4
  <2> QED BY <1>1, <2>1 DEF UndoPc
<1>13. CASE \/ UpdatedBlockTip
            \/ \E b \in Asked : ReadMNList(b)
            \/ \E c \in Announced : ReceiveCommitment(c)
            \/ \E c \in verifying : AddReceivedCommitment(c)
            \/ \E c \in Announced : AddOwnCommitment(c)
            \/ CreateNewBlock
            \/ UNCHANGED vars
  <2>1. UNCHANGED <<root, val, rd, quorumsCache, raced>>
    BY Zenon, <1>13 DEF UpdatedBlockTip, ReadMNList, ReceiveCommitment,
       AddReceivedCommitment, AddOwnCommitment, CreateNewBlock, vars, dbVars,
       readerVars
  <2> QED BY Zenon, <1>1, <2>1
<1> QED BY Zenon, <1>2, <1>3, <1>4, <1>5, <1>6, <1>7, <1>8, <1>9, <1>10,
           <1>11, <1>12, <1>13, SReader DEF Next, Step

\* ScanQuorums meets a quorum that GetQuorum does not find, and its assertion
\* fails, only if a block was disconnected while it ran or a reader had cached a
\* wrong answer for the quorum: for every tree of blocks, any number of readers
\* and every interleaving with the thread that connects blocks.
THEOREM ScanAssertOnlyByReorg == Spec => []ScanAssertNeedsReorg
<1>1. SInv => ScanAssertNeedsReorg
  BY Zenon DEF SInv, ScanOk, Scanning, ScanAssertNeedsReorg
<1> QED BY Invariants, VInit, VNext, IInit, INext, SInit, SNext, <1>1, PTL DEF Spec
=============================================================================
