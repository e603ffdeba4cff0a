--------------------------- MODULE EvoChainProofs ---------------------------
(***************************************************************************)
(* For any tree of blocks, any commitments, any number of readers and any  *)
(* crashes: evoDb and the chain agree on the best block, and the cache of  *)
(* mined commitments is exact but for the named races.                     *)
(***************************************************************************)
EXTENDS EvoChain, TLAPS

(***************************************************************************)
(* The tree.                                                               *)
(***************************************************************************)
\* pprev of a block other than the first: the chain of the block without it.
LEMMA ParentChain ==
  ASSUME NEW b \in Block, b # Genesis
  PROVE  /\ Parent(b) \in Block
         /\ Height[Parent(b)] = Height[b] - 1
         /\ b \notin Chain[Parent(b)]
         /\ Chain[b] = Chain[Parent(b)] \cup {b}
<1> DEFINE p == Parent(b)
<1> USE ForestAssumption
<1>1. Height[b] \in Nat /\ Height[b] # 0
  OBVIOUS
<1>2. \E c \in Chain[b] : Height[c] = Height[b] - 1
  <2>1. Height[b] - 1 \in 0 .. Height[b]
    BY <1>1
  <2> QED BY <2>1
<1>3. p \in Chain[b] /\ Height[p] = Height[b] - 1
  BY <1>2 DEF Parent
<1>4. p \in Block
  BY <1>3
<1>5. b \notin Chain[p]
  BY <1>1, <1>3, <1>4
<1>6. ASSUME NEW c \in Chain[b], c # b PROVE c \in Chain[p]
  <2>1. c \in Block /\ Height[c] \in Nat /\ Height[c] <= Height[b]
        /\ Height[c] # Height[b]
    BY <1>6
  <2>2. Height[c] <= Height[p]
    BY <1>1, <1>3, <2>1
  <2> QED BY <1>3, <2>2
<1>7. Chain[p] \subseteq Chain[b] /\ b \in Chain[b]
  BY <1>3
<1> QED BY <1>3, <1>4, <1>5, <1>6, <1>7

\* The first block of the session of a block is a possible quorum block, if it
\* is known (GetQuorumBlockHash).
LEMMA SessionIsQuorum ==
  ASSUME NEW t \in Block, NEW h \in Nat
  PROVE  GetQuorumBlockHash(t, h) \in Quorum \cup {None}
<1> DEFINE s == h - (h % DkgInterval)
<1>1. DkgInterval \in Nat \ {0}
  BY ParameterAssumption
<1>2. s \in Nat
  <2>1. h % DkgInterval \in Nat /\ h % DkgInterval <= h
    BY <1>1
  <2> QED BY <2>1
<1>3. s % DkgInterval = 0
  <2>1. s = DkgInterval * (h \div DkgInterval) /\ h \div DkgInterval \in Nat
    BY <1>1
  <2>2. \A k \in Nat : (DkgInterval * k) % DkgInterval = 0
    BY <1>1
  <2> QED BY <2>1, <2>2
<1>4. CASE s > Height[t]
  BY <1>4 DEF GetQuorumBlockHash, GetAncestor
<1>5. CASE ~(s > Height[t])
  <2>1. s \in 0 .. Height[t]
    BY <1>2, <1>5, ForestAssumption
  <2>2. \E a \in Chain[t] : Height[a] = s
    BY <2>1, ForestAssumption
  <2>3. GetQuorumBlockHash(t, h) = CHOOSE a \in Chain[t] : Height[a] = s
    BY <1>5 DEF GetQuorumBlockHash, GetAncestor
  <2>4. GetQuorumBlockHash(t, h) \in Chain[t]
        /\ Height[GetQuorumBlockHash(t, h)] = s
    BY <2>2, <2>3
  <2> QED BY <1>3, <2>4, ForestAssumption DEF Quorum
<1> QED BY <1>4, <1>5
-----------------------------------------------------------------------------
(***************************************************************************)
(* Where the thread that holds cs_main is, and the best blocks.            *)
(***************************************************************************)
ConnectPc == {"write", "erase", "list", "cleanup", "finish"}
UndoPc == {"undo", "undoerase", "undoadd", "undone"}
AfterPc == {"flush", "commitroot", "updatetip"}

PcInv ==
  /\ tip \in Block /\ coins \in Block /\ coinsDisk \in Block
  /\ root.best \in Block /\ disk.best \in Block
  /\ cur.best = root.best
  /\ val.pc \in ConnectPc \cup UndoPc \cup AfterPc \cup {"idle", "down"}
  /\ val.pc = "idle" => val = Idle
  /\ val.pc \in ConnectPc =>
       /\ val.b \in Block \ {Genesis} /\ Parent(val.b) = tip
       /\ val.to = val.b
       /\ val.pc \in {"write", "erase"} => Commitment[val.b] \in Qc
  /\ val.pc \in UndoPc =>
       /\ val.b = tip /\ tip # Genesis /\ val.to = Parent(tip)
       /\ val.pc # "undone" => Commitment[val.b] \in Qc
  /\ val.pc \in ConnectPc \cup UndoPc \cup {"idle"} =>
       coins = tip /\ root.best = tip
  /\ val.pc \in AfterPc => val.to = coins /\ root.best = coins
  /\ val.pc \in AfterPc \cup {"idle", "down"} => cur = root
  /\ val.pc = "down" => root = disk /\ tip = coins /\ coins = coinsDisk
  /\ val.pc = "commitroot" => coinsDisk = coins
  /\ val.pc \notin {"commitroot", "down"} => disk.best = coinsDisk

\* The fields of the values that val takes.
LEMMA ValFields ==
  /\ Idle.pc = "idle" /\ Down.pc = "down"
  /\ \A p : At(p).pc = p /\ At(p).b = val.b /\ At(p).to = val.to
BY DEF Idle, Down, At

LEMMA ConnectVal ==
  ASSUME NEW b, NEW check, ConnectBlock(b, check)
  PROVE  /\ val.pc = "idle"
         /\ AcceptsCommitment(tip, Height[b], Commitment[b]) =>
              /\ val'.b = b
              /\ val'.pc = IF Commitment[b] \in Qc THEN "write" ELSE "list"
              /\ UNCHANGED failed
         /\ ~AcceptsCommitment(tip, Height[b], Commitment[b]) => UNCHANGED val
<1> DEFINE v(p) == [pc |-> p, b |-> b, to |-> b, check |-> check]
<1>1. \A p : v(p).pc = p /\ v(p).b = b
  OBVIOUS
<1>2. CASE AcceptsCommitment(tip, Height[b], Commitment[b])
  <2>1. val' = v(IF Commitment[b] \in Qc THEN "write" ELSE "list")
        /\ UNCHANGED failed
    BY Zenon, <1>2 DEF ConnectBlock
  <2> HIDE DEF v
  <2> QED BY Zenon, <1>1, <1>2, <2>1, ValFields DEF ConnectBlock
<1>3. CASE ~AcceptsCommitment(tip, Height[b], Commitment[b])
  BY Zenon, <1>3, ValFields DEF ConnectBlock
<1> QED BY Zenon, <1>2, <1>3

\* The steps of readers, of the message and DKG threads and of signals leave
\* the database, the chain and the thread that holds cs_main alone.
OtherStep ==
  \/ UpdatedBlockTip
  \/ \E b \in Asked : ReadMNList(b)
  \/ \E c \in Announced : ReceiveCommitment(c)
  \/ \E c \in verifying : AddReceivedCommitment(c)
  \/ \E c \in Announced : AddOwnCommitment(c)
  \/ CreateNewBlock
  \/ \E r \in Reader : ReaderStep(r)
  \/ UNCHANGED vars

LEMMA OtherSteps == OtherStep => UNCHANGED <<dbVars, chainVars, val>>
<1>1. ASSUME NEW r \in Reader, ReaderStep(r)
      PROVE  UNCHANGED <<dbVars, chainVars, val>>
  BY Zenon, <1>1 DEF ReaderStep, CallGetQuorum, CallScanQuorums, ScanIndex,
     ScanNext,
       ScanStore, LookUpHasMined, ReadHasMined, EmplaceHasMined, BuildQuorum,
       otherThanReaders
<1>2. ASSUME OtherStep, ~ \E r \in Reader : ReaderStep(r)
      PROVE  UNCHANGED <<dbVars, chainVars, val>>
  BY <1>2 DEF OtherStep, UpdatedBlockTip, ReadMNList, ReceiveCommitment,
       AddReceivedCommitment, AddOwnCommitment, CreateNewBlock, vars
<1> QED BY <1>1, <1>2

LEMMA PcInit == Init => PcInv
<1> SUFFICES ASSUME Init PROVE PcInv
  OBVIOUS
<1> QED BY ForestAssumption
        DEF Init, PcInv, EmptyStore, Idle, ConnectPc, UndoPc, AfterPc

\* Every step keeps the place of the thread and the best blocks together.
LEMMA PcNext == PcInv /\ [Next]_vars => PcInv'
<1> SUFFICES ASSUME PcInv, [Next]_vars PROVE PcInv'
  BY Zenon
<1> USE DEF PcInv, ConnectPc, UndoPc, AfterPc
<1>1. ASSUME NEW b \in Block, NEW check \in BOOLEAN, ConnectBlock(b, check)
      PROVE  PcInv'
  BY <1>1 DEF ConnectBlock, dbVars, Idle
<1>2. CASE WriteCommitment
  BY Zenon, <1>2 DEF WriteCommitment, Write, WithCommitments, At, chainVars
<1>3. CASE EraseHasMined
  BY Zenon, <1>3 DEF EraseHasMined, dbVars, At, chainVars
<1>4. CASE ProcessList
  BY <1>4 DEF ProcessList, dbVars, Write, WithLists, At, chainVars
<1>5. CASE ProcessListCleanup
  BY Zenon, <1>5 DEF ProcessListCleanup, dbVars, At, chainVars
<1>6. CASE RollbackBlock
  BY Zenon, <1>6 DEF RollbackBlock, RollbackCurTransaction, Idle
<1>7. CASE CommitBlock
  BY Zenon, <1>7 DEF CommitBlock, CommitCurTransaction, WithBest, At
<1>8. CASE DisconnectBlock
  BY Zenon, <1>8 DEF DisconnectBlock, Write, WithLists, chainVars, Idle
<1>9. CASE UndoCommitment
  BY Zenon, <1>9 DEF UndoCommitment, Write, WithCommitments, At, chainVars
<1>10. CASE UndoAddMinable
  BY Zenon, <1>10 DEF UndoAddMinable, dbVars, At, chainVars
<1>11. CASE CommitDisconnect
  BY <1>11, ParentChain DEF CommitDisconnect, CommitCurTransaction, WithBest,
     At
<1>12. CASE FlushCoins
  BY <1>12 DEF FlushCoins, dbVars, At, Idle
<1>13. CASE FlushEvoDb
  BY Zenon, <1>13 DEF FlushEvoDb, CommitRootTransaction, At, chainVars
<1>14. CASE UpdateTip
  BY Zenon, <1>14 DEF UpdateTip, dbVars, Idle
<1>15. CASE /\ UNCHANGED <<dbVars, chainVars, val>>
  BY Zenon, <1>15 DEF dbVars, chainVars
<1>16. CASE Crash
  BY Zenon, <1>16 DEF Crash, Open, Down
<1>17. CASE Start
  BY Zenon, <1>17 DEF Start, dbVars, chainVars, Idle
<1>18. CASE Reindex
  BY <1>18, ForestAssumption DEF Reindex, Open, EmptyStore, Idle
<1> QED BY Zenon, <1>1, <1>2, <1>3, <1>4, <1>5, <1>6, <1>7, <1>8, <1>9, <1>10,
           <1>11,
     <1>12, <1>13, <1>14, <1>15, <1>16, <1>17, <1>18, OtherSteps
     DEF Next, Step, OtherStep

\* The assertions of BeginTransaction, CommitRootTransaction and
\* VerifyBestBlock hold in every reachable state (ConnectTip, DisconnectTip,
\* FlushStateToDisk, VerifyDB), whatever blocks come and wherever the process
\* stops, but for a restart after a stop between the two writes of a flush.
THEOREM BestBlocksAlwaysAgree == Spec => []BestBlocksAgree
<1>1. PcInv => BestBlocksAgree
  BY DEF PcInv, BestBlocksAgree, IsClean, AfterPc
<1> QED BY PcInit, PcNext, <1>1, PTL DEF Spec
-----------------------------------------------------------------------------
(***************************************************************************)
(* What the open transaction has changed.                                  *)
(***************************************************************************)
StoreType(s) ==
  /\ s.mc \in [Quorum -> (Qc \X Block) \cup {None}]
  /\ s.ih \in [Heights -> Heights \cup {None}]

Unchanged == cur.mc = root.mc /\ cur.ih = root.ih

Added(b, c) ==
  /\ cur.mc = [root.mc EXCEPT ![QuorumOf[c]] = <<c, b>>]
  /\ cur.ih = [root.ih EXCEPT ![Height[b]] = Height[QuorumOf[c]]]

Removed(b, c) ==
  /\ cur.mc = [root.mc EXCEPT ![QuorumOf[c]] = None]
  /\ cur.ih = [root.ih EXCEPT ![Height[b]] = None]

TxInv ==
  /\ StoreType(disk) /\ StoreType(root) /\ StoreType(cur)
  /\ val.pc \in {"idle", "down", "write", "undo"} \cup AfterPc => Unchanged
  /\ val.pc \in {"erase", "list", "cleanup", "finish"} =>
       IF Commitment[val.b] \in Qc THEN Added(val.b, Commitment[val.b])
       ELSE Unchanged
  /\ val.pc \in {"undoerase", "undoadd", "undone"} =>
       IF Commitment[val.b] \in Qc THEN Removed(val.b, Commitment[val.b])
       ELSE Unchanged

LEMMA ExceptType ==
  ASSUME NEW S, NEW T, NEW f \in [S -> T], NEW x, NEW v \in T
  PROVE  [f EXCEPT ![x] = v] \in [S -> T]
BY Zenon

LEMMA TxInit == Init => TxInv
<1> SUFFICES ASSUME Init PROVE TxInv
  OBVIOUS
<1> QED BY DEF Init, TxInv, StoreType, Unchanged, EmptyStore, Idle, AfterPc

\* Every step changes the open transaction as its place says.
LEMMA TxNext == PcInv /\ TxInv /\ [Next]_vars => TxInv'
<1> SUFFICES ASSUME PcInv, TxInv, [Next]_vars PROVE TxInv'
  BY Zenon
<1> USE DEF TxInv, StoreType, Unchanged, Added, Removed, AfterPc
<1>1. ASSUME NEW b \in Block, NEW check \in BOOLEAN, ConnectBlock(b, check)
      PROVE  TxInv'
  <2>1. val.pc = "idle" /\ UNCHANGED dbVars
    BY Zenon, <1>1, ConnectVal DEF ConnectBlock
  <2>2. \/ val' = val
        \/ val'.pc = "write"
        \/ val'.pc = "list" /\ val'.b = b /\ Commitment[b] \notin Qc
    BY Zenon, <1>1, ConnectVal
  <2> QED BY Zenon, <2>1, <2>2 DEF dbVars
<1>2. CASE WriteCommitment
  <2>1. /\ val.pc = "write" /\ val.b \in Block /\ Commitment[val.b] \in Qc
        /\ val' = At("erase")
    BY Zenon, <1>2 DEF WriteCommitment, PcInv, ConnectPc
  <2>2. /\ QuorumOf[Commitment[val.b]] \in Block
        /\ <<Commitment[val.b], val.b>> \in Qc \X Block
        /\ Height[QuorumOf[Commitment[val.b]]] \in Heights
    BY Zenon, <2>1, CommitmentAssumption DEF Heights
  <2>3. /\ cur'.mc = [cur.mc EXCEPT ![QuorumOf[Commitment[val.b]]]
                                   = <<Commitment[val.b], val.b>>]
        /\ cur'.ih = [cur.ih EXCEPT ![Height[val.b]]
                                   = Height[QuorumOf[Commitment[val.b]]]]
        /\ UNCHANGED <<disk, root>> /\ val'.pc = "erase" /\ val'.b = val.b
    BY Zenon, <1>2 DEF WriteCommitment, Write, WithCommitments, At
  <2>4. StoreType(cur)'
    <3> DEFINE c == Commitment[val.b]
    <3>1. [cur.mc EXCEPT ![QuorumOf[c]] = <<c, val.b>>]
            \in [Quorum -> (Qc \X Block) \cup {None}]
      BY Zenon, <2>2, ExceptType
    <3>2. [cur.ih EXCEPT ![Height[val.b]] = Height[QuorumOf[c]]]
            \in [Heights -> Heights \cup {None}]
      BY Zenon, <2>2, ExceptType
    <3> QED BY <2>3, <3>1, <3>2
  <2> QED BY Zenon, <2>1, <2>3, <2>4
<1>3. CASE EraseHasMined
  BY Zenon, <1>3 DEF EraseHasMined, dbVars, At, PcInv, ConnectPc, UndoPc
<1>4. CASE ProcessList
  <2>1. /\ val.pc = "list" /\ val'.pc \in {"finish", "cleanup"}
        /\ val'.b = val.b /\ UNCHANGED <<disk, root>>
        /\ cur'.mc = cur.mc /\ cur'.ih = cur.ih
    BY <1>4 DEF ProcessList, dbVars, Write, WithLists, At
  <2> QED BY Zenon, <2>1
<1>5. CASE ProcessListCleanup
  BY Zenon, <1>5 DEF ProcessListCleanup, dbVars, At
<1>6. CASE RollbackBlock
  BY Zenon, <1>6 DEF RollbackBlock, RollbackCurTransaction, Idle
<1>7. CASE CommitBlock
  BY Zenon, <1>7 DEF CommitBlock, CommitCurTransaction, WithBest, At
<1>8. CASE DisconnectBlock
  BY <1>8 DEF DisconnectBlock, Write, WithLists, Idle
<1>9. CASE UndoCommitment
  <2>1. val.pc = "undo" /\ Commitment[val.b] \in Qc /\ val' = At("undoerase")
    BY Zenon, <1>9 DEF UndoCommitment, PcInv, UndoPc
  <2>2. /\ cur'.mc = [cur.mc EXCEPT ![QuorumOf[Commitment[val.b]]] = None]
        /\ cur'.ih = [cur.ih EXCEPT ![Height[val.b]] = None]
        /\ UNCHANGED <<disk, root>> /\ val'.pc = "undoerase" /\ val'.b = val.b
    BY Zenon, <1>9 DEF UndoCommitment, Write, WithCommitments, At
  <2>3. StoreType(cur)'
    <3>1. [cur.mc EXCEPT ![QuorumOf[Commitment[val.b]]] = None]
            \in [Quorum -> (Qc \X Block) \cup {None}]
      BY Zenon, ExceptType
    <3>2. [cur.ih EXCEPT ![Height[val.b]] = None]
            \in [Heights -> Heights \cup {None}]
      BY Zenon, ExceptType
    <3> QED BY <2>2, <3>1, <3>2
  <2> QED BY Zenon, <2>1, <2>2, <2>3
<1>10. CASE UndoAddMinable
  BY Zenon, <1>10 DEF UndoAddMinable, dbVars, At
<1>11. CASE CommitDisconnect
  BY <1>11 DEF CommitDisconnect, CommitCurTransaction, WithBest, At
<1>12. CASE FlushCoins
  BY Zenon, <1>12 DEF FlushCoins, dbVars, At
<1>13. CASE FlushEvoDb
  BY Zenon, <1>13 DEF FlushEvoDb, CommitRootTransaction, At
<1>14. CASE UpdateTip
  BY Zenon, <1>14 DEF UpdateTip, dbVars, Idle
<1>15. CASE /\ UNCHANGED <<dbVars, val>>
  BY Zenon, <1>15 DEF dbVars
<1>16. CASE Crash
  BY Zenon, <1>16 DEF Crash, Open, Down
<1>17. CASE Start
  BY Zenon, <1>17 DEF Start, dbVars, Idle
<1>18. CASE Reindex
  BY <1>18 DEF Reindex, Open, EmptyStore, Idle
<1> QED BY Zenon, <1>1, <1>2, <1>3, <1>4, <1>5, <1>6, <1>7, <1>8, <1>9, <1>10,
           <1>11,
     <1>12, <1>13, <1>14, <1>15, <1>16, <1>17, <1>18, OtherSteps
     DEF Next, Step, OtherStep
-----------------------------------------------------------------------------
(***************************************************************************)
(* The cache of HasMinedCommitment.  v is the answer for q in the database *)
(* and would be after a rollback as well.                                  *)
(***************************************************************************)
Settled(q, v) == v = (cur.mc[q] # None) /\ cur.mc[q] = root.mc[q]

ReaderInv(c) ==
  /\ c.pc \in {"has", "exists", "emplace", "get"} => c.q \in Quorum
  /\ c.ret \in BOOLEAN /\ c.dirty \in BOOLEAN
  /\ c.pc = "emplace" /\ ~c.dirty => Settled(c.q, c.ret)
  /\ val.pc = "down" => c.pc = "idle"

Erasing(q) ==
  val.pc \in {"erase", "undoerase"} /\ QuorumOf[Commitment[val.b]] = q

HInv ==
  /\ hasMined \in [Quorum -> BOOLEAN \cup {None}]
  /\ rd = [r \in Reader |-> rd[r]]
  /\ \A r \in Reader : ReaderInv(rd[r])
  /\ \A q \in Quorum : hasMined[q] # None =>
       /\ val.pc # "down"
       /\ q \in raced \/ Erasing(q) \/ Settled(q, hasMined[q])

LEMMA HInit == Init => HInv
<1> SUFFICES ASSUME Init PROVE HInv
  OBVIOUS
<1>1. /\ hasMined = [q \in Quorum |-> None] /\ rd = [r \in Reader |-> RIdle]
      /\ val.pc = "idle"
  BY DEF Init, Idle
<1>2. ReaderInv(RIdle)
  BY <1>1 DEF ReaderInv, RIdle, Call
<1> QED BY <1>1, <1>2 DEF HInv

\* The answer that IsCommitmentRequired caches between blocks.
LEMMA HCache ==
  ASSUME HInv, val.pc = "idle", cur = root,
         NEW t \in Block, NEW h \in Nat, hasMined' = CacheHasMined(t, h),
         UNCHANGED <<dbVars, rd, raced>>, val'.pc # "down"
  PROVE  HInv'
<1> DEFINE q == GetQuorumBlockHash(t, h)
<1>1. q \in Quorum \cup {None}
  BY Zenon, SessionIsQuorum
<1>2. CASE q = None
  BY Zenon, <1>2 DEF HInv, CacheHasMined, ReaderInv, Settled, Erasing, dbVars
<1>3. CASE q \in Quorum
  <2>1. None \notin Block /\ None \notin BOOLEAN
    BY Zenon, ForestAssumption, CommitmentAssumption
  <2>2. hasMined' = [hasMined EXCEPT ![q] = HasMinedCommitment(q)]
    BY <1>3, <2>1 DEF CacheHasMined, Quorum
  <2>3. HasMinedCommitment(q) \in BOOLEAN
    BY Zenon DEF HasMinedCommitment
  <2>4. q \notin raced => HasMinedCommitment(q) = (cur.mc[q] # None)
    BY <1>3 DEF HInv, HasMinedCommitment, Settled, Erasing
  <2> QED BY ZenonT(40), <1>3, <2>2, <2>3, <2>4 DEF HInv, ReaderInv, Settled,
             Erasing, dbVars
<1> QED BY <1>1, <1>2, <1>3

\* A write that changes the commitment of q alone, and makes late readers of q
\* late.
LEMMA HWrite ==
  ASSUME HInv, NEW q, rd' = LateFor(q),
         UNCHANGED <<root, hasMined, raced>>, val'.pc # "down",
         val.pc \notin {"erase", "undoerase"},
         \A p \in Quorum : p # q => cur'.mc[p] = cur.mc[p],
         q \in Quorum /\ hasMined[q] # None => q \in raced \/ Erasing(q)'
                                             \/ Settled(q, hasMined[q])'
  PROVE  HInv'
<1>1. rd' = [r \in Reader |-> rd'[r]]
  BY DEF LateFor
<1>2. ASSUME NEW r \in Reader PROVE ReaderInv(rd[r])'
  <2>1. /\ rd'[r].pc = rd[r].pc /\ rd'[r].q = rd[r].q /\ rd'[r].ret = rd[r].ret
        /\ rd'[r].dirty = (rd[r].dirty \/ (rd[r].pc = "emplace" /\ rd[r].q = q))
    BY Zenon, <1>2 DEF LateFor, Call
  <2>2. ReaderInv(rd[r])
    BY Zenon, <1>2 DEF HInv
  <2> QED BY Zenon, <2>1, <2>2 DEF ReaderInv, Settled
<1>3. ASSUME NEW p \in Quorum, hasMined'[p] # None
      PROVE  p \in raced' \/ Erasing(p)' \/ Settled(p, hasMined[p])'
  <2>1. CASE p = q
    BY Zenon, <1>3, <2>1
  <2>2. CASE p # q
    BY <1>3, <2>2 DEF HInv, Settled, Erasing
  <2> QED BY Zenon, <2>1, <2>2
<1> QED BY Zenon, <1>1, <1>2, <1>3 DEF HInv

\* The steps of the readers.
LEMMA HReader ==
  ASSUME HInv, NEW r \in Reader, ReaderStep(r)
  PROVE  HInv'
<1>1. UNCHANGED dbVars /\ UNCHANGED val
  BY Zenon DEF ReaderStep, CallGetQuorum, CallScanQuorums, ScanIndex, ScanNext,
       ScanStore, LookUpHasMined, ReadHasMined, EmplaceHasMined, BuildQuorum,
       otherThanReaders
<1>2. UNCHANGED <<cur, root>>
  BY <1>1 DEF dbVars
<1>3. val.pc # "down" \/ rd[r].pc = "idle"
  BY DEF HInv, ReaderInv
<1>4. ReaderInv(rd[r])
  BY Zenon DEF HInv
\* Only the call of r changes.
<1>5. ASSUME NEW c, rd' = [rd EXCEPT ![r] = c], ReaderInv(c),
             UNCHANGED <<hasMined, raced>>
      PROVE  HInv'
  BY <1>1, <1>2, <1>5 DEF HInv, ReaderInv, Settled, Erasing
<1>6. ASSUME NEW pc, NEW q, NEW scan, pc # "emplace", val.pc # "down",
             pc \in {"has", "exists", "get"} => q \in Quorum
      PROVE  ReaderInv(Call(pc, q, scan, FALSE, FALSE))
  BY Zenon, <1>6 DEF ReaderInv, Call
<1>7. ReaderInv(RIdle)
  BY DEF ReaderInv, RIdle, Call
<1>8. val.pc # "down" => ReaderInv(Nothing(r))
  BY Zenon, <1>6, <1>7 DEF Nothing
<1>9. val.pc # "down" => \A e : ReaderInv(Something(r, e))
  BY Zenon, <1>6, <1>7 DEF Something
<1>10. val.pc # "down" /\ rd[r].q \in Quorum =>
         \A v \in BOOLEAN : ReaderInv(AfterHasMined(r, v))
  BY Zenon, <1>6, <1>8 DEF AfterHasMined
<1>11. ASSUME NEW q \in Quorum, CallGetQuorum(r, q) PROVE HInv'
  BY Zenon, <1>5, <1>6, <1>11 DEF CallGetQuorum, readerCaches
<1>12. CASE CallScanQuorums(r)
  BY Zenon, <1>5, <1>6, <1>12 DEF CallScanQuorums, readerCaches, Idle
<1>13. CASE ScanIndex(r)
  BY Zenon, <1>3, <1>5, <1>6, <1>13 DEF ScanIndex, readerCaches
<1>14. ASSUME NEW q \in Quorum, ScanNext(r, q) PROVE HInv'
  BY Zenon, <1>3, <1>5, <1>6, <1>14 DEF ScanNext, readerCaches
<1>15. CASE ScanStore(r)
  BY Zenon, <1>5, <1>7, <1>15 DEF ScanStore
<1>16. CASE LookUpHasMined(r)
  <2>1. rd[r].q \in Quorum /\ val.pc # "down"
    BY <1>3, <1>4, <1>16 DEF LookUpHasMined, ReaderInv
  <2> QED BY Zenon, <1>5, <1>6, <1>10, <1>16, <2>1 DEF LookUpHasMined,
             readerCaches
<1>17. CASE ReadHasMined(r)
  <2>1. rd[r].q \in Quorum /\ val.pc # "down"
    BY Zenon, <1>3, <1>4, <1>17 DEF ReadHasMined, ReaderInv
  <2>2. ReaderInv(Call("emplace", rd[r].q, rd[r].scan, cur.mc[rd[r].q] # None,
                       cur.mc[rd[r].q] # root.mc[rd[r].q]))
    BY Zenon, <2>1 DEF ReaderInv, Call, Settled
  <2> QED BY Zenon, <1>5, <1>17, <2>2 DEF ReadHasMined, readerCaches
<1>18. CASE EmplaceHasMined(r)
  <2> DEFINE q == rd[r].q
  <2>1. /\ q \in Quorum /\ val.pc # "down" /\ rd[r].ret \in BOOLEAN
        /\ rd[r].dirty \in BOOLEAN
        /\ ~rd[r].dirty => Settled(q, rd[r].ret)
    BY Zenon, <1>3, <1>4, <1>18 DEF EmplaceHasMined, ReaderInv
  <2>2. rd' = [rd EXCEPT ![r] = AfterHasMined(r, rd[r].ret)]
        /\ ReaderInv(AfterHasMined(r, rd[r].ret))
    BY <1>10, <1>18, <2>1 DEF EmplaceHasMined
  <2>3. CASE hasMined[q] # None
    BY Zenon, <1>5, <1>18, <2>2, <2>3 DEF EmplaceHasMined
  <2>4. CASE hasMined[q] = None
    <3>1. /\ hasMined' = [hasMined EXCEPT ![q] = rd[r].ret]
          /\ raced \subseteq raced' /\ (rd[r].dirty => q \in raced')
      BY <1>18, <2>4 DEF EmplaceHasMined
    <3>2. hasMined' \in [Quorum -> BOOLEAN \cup {None}]
      BY Zenon, <2>1, <3>1 DEF HInv
    <3>3. rd' = [p \in Reader |-> rd'[p]] /\ \A p \in Reader : ReaderInv(rd[p])'
      BY Zenon, <1>1, <1>2, <2>2 DEF HInv, ReaderInv, Settled
    <3>4. ASSUME NEW p \in Quorum, hasMined'[p] # None
          PROVE  p \in raced' \/ Erasing(p)' \/ Settled(p, hasMined[p])'
      <4>1. CASE p = q
        <5>1. hasMined'[p] = rd[r].ret
          BY <2>1, <3>1, <4>1 DEF HInv
        <5>2. Settled(q, rd[r].ret) => Settled(p, hasMined[p])'
          BY <1>2, <4>1, <5>1, Zenon DEF Settled
        <5> QED BY <2>1, <3>1, <4>1, <5>2
      <4>2. CASE p # q
        <5>1. hasMined'[p] = hasMined[p]
          BY <3>1, <4>2 DEF HInv
        <5>2. p \in raced \/ Erasing(p) \/ Settled(p, hasMined[p])
          BY <3>4, <5>1 DEF HInv
        <5>3. Settled(p, hasMined[p]) => Settled(p, hasMined[p])'
          BY <1>2, <5>1, Zenon DEF Settled
        <5>4. Erasing(p) => Erasing(p)'
          BY <1>1 DEF Erasing
        <5> QED BY <3>1, <5>2, <5>3, <5>4
      <4> QED BY Zenon, <4>1, <4>2
    <3> QED BY Zenon, <1>1, <2>1, <3>2, <3>3, <3>4 DEF HInv
  <2> QED BY Zenon, <2>3, <2>4
<1>19. CASE BuildQuorum(r)
  <2>1. val.pc # "down"
    BY Zenon, <1>3, <1>19 DEF BuildQuorum
  <2> QED BY Zenon, <1>5, <1>8, <1>9, <1>19, <2>1 DEF BuildQuorum
<1> QED BY <1>11, <1>12, <1>13, <1>14, <1>15, <1>16, <1>17, <1>18, <1>19
     DEF ReaderStep

LEMMA HNext == PcInv /\ TxInv /\ HInv /\ [Next]_vars => HInv'
<1> SUFFICES ASSUME PcInv, TxInv, HInv, [Next]_vars PROVE HInv'
  OBVIOUS
<1>1. ASSUME NEW b \in Block, NEW check \in BOOLEAN, ConnectBlock(b, check)
      PROVE  HInv'
  <2>1. /\ val.pc = "idle" /\ tip \in Block /\ Height[b] \in Nat /\ cur = root
        /\ val'.pc # "down" /\ hasMined' = CacheHasMined(tip, Height[b])
        /\ UNCHANGED <<dbVars, rd, raced>>
    <3>1. val = Idle /\ UNCHANGED <<dbVars, rd, raced>>
          /\ hasMined' = CacheHasMined(tip, Height[b])
      BY Zenon, <1>1 DEF ConnectBlock, readerVars
    <3>2. val'.pc # "down"
      BY Zenon, <1>1, ConnectVal
    <3>3. val.pc = "idle" /\ tip \in Block /\ cur = root
      BY Zenon, <3>1 DEF Idle, PcInv
    <3> QED BY Zenon, <3>1, <3>2, <3>3, ForestAssumption
  <2> QED BY Zenon, <2>1, HCache
<1>2. CASE CreateNewBlock
  <2>1. /\ val.pc = "idle" /\ tip \in Block /\ Height[tip] + 1 \in Nat
        /\ cur = root /\ val'.pc # "down"
        /\ hasMined' = CacheHasMined(tip, Height[tip] + 1)
        /\ UNCHANGED <<dbVars, rd, raced>>
    <3>1. /\ val = Idle /\ UNCHANGED <<dbVars, val, rd, raced>>
          /\ hasMined' = CacheHasMined(tip, Height[tip] + 1)
      BY Zenon, <1>2 DEF CreateNewBlock, readerVars
    <3>2. tip \in Block /\ cur = root
      BY Zenon, <3>1, ValFields DEF PcInv
    <3>3. Height[tip] + 1 \in Nat
      BY <3>2, ForestAssumption
    <3> QED BY Zenon, <3>1, <3>2, <3>3, ValFields
  <2> QED BY Zenon, <2>1, HCache
<1>3. CASE WriteCommitment
  <2> DEFINE q == QuorumOf[Commitment[val.b]]
  <2>1. /\ val.pc = "write" /\ val'.pc = "erase" /\ val'.b = val.b
        /\ rd' = LateFor(q) /\ UNCHANGED <<root, hasMined, raced>>
        /\ cur'.mc = [cur.mc EXCEPT ![q] = <<Commitment[val.b], val.b>>]
    BY Zenon, <1>3 DEF WriteCommitment, Write, WithCommitments, At
  <2>2. Erasing(q)'
    BY Zenon, <2>1 DEF Erasing
  <2>3. \A p \in Quorum : p # q => cur'.mc[p] = cur.mc[p]
    BY Zenon, <2>1 DEF TxInv, StoreType
  <2> QED BY Zenon, <2>1, <2>2, <2>3, HWrite
<1>4. CASE UndoCommitment
  <2> DEFINE q == QuorumOf[Commitment[val.b]]
  <2>1. /\ val.pc = "undo" /\ val'.pc = "undoerase" /\ val'.b = val.b
        /\ rd' = LateFor(q) /\ UNCHANGED <<root, hasMined, raced>>
        /\ cur'.mc = [cur.mc EXCEPT ![q] = None]
    BY Zenon, <1>4 DEF UndoCommitment, Write, WithCommitments, At
  <2>2. Erasing(q)'
    BY Zenon, <2>1 DEF Erasing
  <2>3. \A p \in Quorum : p # q => cur'.mc[p] = cur.mc[p]
    BY Zenon, <2>1 DEF TxInv, StoreType
  <2> QED BY Zenon, <2>1, <2>2, <2>3, HWrite
<1>5. CASE EraseHasMined
  <2>1. /\ val'.pc \in {"list", "undoadd"} /\ UNCHANGED <<cur, root, rd, raced>>
        /\ hasMined' = [hasMined EXCEPT ![QuorumOf[Commitment[val.b]]] = None]
        /\ val.pc # "down"
    BY Zenon, <1>5 DEF EraseHasMined, At, dbVars, readerVars
  <2> QED BY Zenon, <2>1 DEF HInv, ReaderInv, Settled, Erasing
<1>6. CASE RollbackBlock
  <2> DEFINE c == Commitment[val.b]
  <2>1. /\ val.pc = "finish" /\ val'.pc = "idle" /\ cur' = root
        /\ UNCHANGED <<root, hasMined, raced>>
        /\ rd' = IF c \in Qc THEN LateFor(QuorumOf[c]) ELSE rd
    BY Zenon, <1>6 DEF RollbackBlock, RollbackCurTransaction, Idle
  <2>2. ASSUME c \in Qc, NEW q, q = QuorumOf[c] PROVE HInv'
    <3>1. cur.mc = [root.mc EXCEPT ![q] = <<c, val.b>>]
      BY <2>1, <2>2 DEF TxInv, Added
    <3>2. \A p \in Quorum : p # q => cur'.mc[p] = cur.mc[p]
      BY Zenon, <2>1, <3>1 DEF TxInv, StoreType
    <3>3. Settled(q, hasMined[q]) => Settled(q, hasMined[q])'
      <4>1. /\ cur'.mc[q] = root.mc[q] /\ root'.mc[q] = root.mc[q]
            /\ hasMined'[q] = hasMined[q]
        BY <2>1
      <4> QED BY <4>1, Zenon DEF Settled
    <3>4. q \in Quorum /\ hasMined[q] # None =>
            q \in raced \/ Settled(q, hasMined[q])
      BY Zenon, <2>1 DEF HInv, Erasing
    <3>5. rd' = LateFor(q) /\ val'.pc # "down"
          /\ val.pc \notin {"erase", "undoerase"}
          /\ UNCHANGED <<root, hasMined, raced>>
      BY Zenon, <2>1, <2>2
    <3> QED BY Zenon, <3>2, <3>3, <3>4, <3>5, HWrite
  <2>3. CASE c \notin Qc
    <3>1. cur.mc = root.mc
      BY Zenon, <2>1, <2>3 DEF TxInv, Unchanged
    <3> QED BY Zenon, <2>1, <2>3, <3>1 DEF HInv, ReaderInv, Settled, Erasing
  <2> QED BY <2>2, <2>3
\* The steps that change no commitment, or commit them.
<1>7. ASSUME cur'.mc = cur.mc, root'.mc \in {root.mc, cur.mc},
             UNCHANGED <<hasMined, raced>>,
             rd' = rd, val.pc # "down" => val'.pc # "down",
             val.pc \notin {"erase", "undoerase"}
      PROVE  HInv'
  BY Zenon, <1>7 DEF HInv, ReaderInv, Settled, Erasing
<1>8. CASE ProcessList
  <2>1. /\ val.pc = "list" /\ val'.pc \in {"finish", "cleanup"}
        /\ UNCHANGED <<root, hasMined, raced, rd>> /\ cur'.mc = cur.mc
    BY <1>8 DEF ProcessList, dbVars, Write, WithLists, At, readerVars
  <2> QED BY Zenon, <1>7, <2>1
<1>9. CASE ProcessListCleanup
  BY Zenon, <1>7, <1>9 DEF ProcessListCleanup, dbVars, At, readerVars
<1>10. CASE CommitBlock
  BY <1>7, <1>10 DEF CommitBlock, CommitCurTransaction, WithBest, At,
     readerVars
<1>11. CASE DisconnectBlock
  <2>1. /\ val.pc = "idle" /\ val'.pc \in {"undo", "undone"}
        /\ UNCHANGED <<root, hasMined, raced>> /\ cur'.mc = cur.mc
        /\ rd' = ReorgForScans
    BY Zenon, <1>11 DEF DisconnectBlock, Write, WithLists, Idle
  <2>2. ASSUME NEW r \in Reader PROVE ReaderInv(rd[r])'
    <3>1. /\ rd'[r].pc = rd[r].pc /\ rd'[r].q = rd[r].q
          /\ rd'[r].ret = rd[r].ret /\ rd'[r].dirty = rd[r].dirty
      BY <2>1, <2>2 DEF ReorgForScans, Call
    <3>2. ReaderInv(rd[r])
      BY Zenon, <2>2 DEF HInv
    <3> QED BY <2>1, <3>1, <3>2 DEF ReaderInv, Settled
  <2> QED BY Zenon, <2>1, <2>2 DEF HInv, ReorgForScans, Settled, Erasing
<1>12. CASE UndoAddMinable
  BY Zenon, <1>7, <1>12 DEF UndoAddMinable, dbVars, At, readerVars
<1>13. CASE CommitDisconnect
  BY Zenon, <1>7, <1>13
     DEF CommitDisconnect, CommitCurTransaction, WithBest, At, readerVars
<1>14. CASE FlushCoins
  BY Zenon, <1>7, <1>14 DEF FlushCoins, dbVars, At, readerVars
<1>15. CASE FlushEvoDb
  BY Zenon, <1>7, <1>15 DEF FlushEvoDb, CommitRootTransaction, At, readerVars
<1>16. CASE UpdateTip
  BY Zenon, <1>7, <1>16 DEF UpdateTip, dbVars, Idle, readerVars
<1>17. ASSUME UNCHANGED <<dbVars, val, hasMined, rd, raced>>
       PROVE  HInv'
  BY Zenon, <1>17 DEF dbVars, HInv, ReaderInv, Settled, Erasing
<1>18. CASE \/ UpdatedBlockTip
            \/ \E b \in Asked : ReadMNList(b)
            \/ \E c \in Announced : ReceiveCommitment(c)
            \/ \E c \in verifying : AddReceivedCommitment(c)
            \/ \E c \in Announced : AddOwnCommitment(c)
            \/ UNCHANGED vars
  BY Zenon, <1>17, <1>18 DEF UpdatedBlockTip, ReadMNList, ReceiveCommitment,
       AddReceivedCommitment, AddOwnCommitment, vars, readerVars
<1>19. CASE Crash
  <2>1. /\ hasMined' = [q \in Quorum |-> None] /\ val'.pc = "down"
        /\ rd' = [r \in Reader |-> RIdle]
    BY Zenon, <1>19 DEF Crash, Down
  <2>2. ReaderInv(RIdle)'
    BY Zenon DEF ReaderInv, RIdle, Call
  <2> QED BY Zenon, <2>1, <2>2 DEF HInv, ReaderInv
<1>20. CASE Start \/ Reindex
  <2>1. /\ val.pc = "down" /\ val'.pc = "idle" /\ UNCHANGED <<hasMined, rd>>
    BY <1>20 DEF Start, Reindex, Idle, readerVars
  <2>2. \A q \in Quorum : hasMined[q] = None
    BY <2>1 DEF HInv
  <2> QED BY Zenon, <2>1, <2>2 DEF HInv, ReaderInv
<1> QED BY <1>1, <1>2, <1>3, <1>4, <1>5, <1>6, <1>8, <1>9, <1>10, <1>11, <1>12,
     <1>13, <1>14, <1>15, <1>16, <1>18, <1>19, <1>20, HReader DEF Next, Step

\* A cached answer of HasMinedCommitment is the answer of the database in every
\* reachable state, whichever blocks are connected, disconnected, tested or
\* rejected, unless a reader cached what was not, or no longer, committed.
THEOREM HasMinedAlwaysExact == Spec => []HasMinedExact
<1>1. HInv => HasMinedExact
  BY DEF HInv, HasMinedExact, Settled, Erasing
<1> QED BY PcInit, PcNext, TxInit, TxNext, HInit, HNext, <1>1, PTL DEF Spec
=============================================================================
