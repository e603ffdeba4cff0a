------------------------------ MODULE EvoChain ------------------------------
(***************************************************************************)
(* What a node derives from the blocks of its chain and keeps in CEvoDB:   *)
(* the final commitments of CQuorumBlockProcessor and the masternode lists *)
(* of CDeterministicMNManager, with the caches over them (the quorums of   *)
(* CQuorumManager included) and the steps of validation.cpp that connect,  *)
(* disconnect, test and flush.                                             *)
(*                                                                         *)
(* Threads.  The thread that holds cs_main connects and disconnects        *)
(* blocks: `val` is where it is.  Readers call CQuorumManager without      *)
(* cs_main (`rd`), so their steps fall between those of the first.  The    *)
(* message thread and the DKG thread bring final commitments.  Any thread  *)
(* may ask for the masternode list of a block.                             *)
(*                                                                         *)
(* Abstractions.  One LLMQ type.  A masternode list is its height and the  *)
(* set of blocks whose changes it contains, and a diff is the block it     *)
(* belongs to; every block changes the list (its payee does).  The tip of  *)
(* the coins stands for the coins.  Genesis stands for the last block      *)
(* before DIP3: evoDb knows it as the best block and has nothing else.     *)
(***************************************************************************)
EXTENDS Integers, FiniteSets, EvoDB

CONSTANTS
  Block, Genesis,
  Chain,           \* Chain[b]: b and its ancestors
  Height,          \* Height[b]: nHeight
  None,            \* a null hash, a null pointer, a missing entry
  Qc,              \* the non-null final commitments
  NullQc,          \* the null commitment of the quorum of the session
  QuorumOf,        \* QuorumOf[c]: quorumHash
  CountSigners,    \* CountSigners[c]
  Verified,        \* the commitments that pass CFinalCommitment::Verify
  Commitment,      \* Commitment[b]: in block b; None if b has none
  Invalid,         \* blocks that BuildNewListFromBlock rejects, or a later
                   \* check of ConnectBlock
  DkgInterval, MiningWindowStart, MiningWindowEnd,
  SnapshotPeriod,  \* SNAPSHOT_LIST_PERIOD
  ListsCacheSize,  \* LISTS_CACHE_SIZE
  Announced,       \* the commitments that the network or a DKG brings
  Asked,           \* the blocks whose list other threads ask for
  Reader,          \* threads that call CQuorumManager
  MaxCalls,        \* bound: calls of the readers
  MaxCrashes       \* bound: stops of the process

ASSUME ForestAssumption ==
  /\ Genesis \in Block /\ None \notin Block
  /\ Chain \in [Block -> SUBSET Block]
  /\ Height \in [Block -> Nat]
  /\ \A b \in Block : b \in Chain[b] /\ Genesis \in Chain[b]
  /\ \A b \in Block : \A c \in Chain[b] :
       /\ Chain[c] \subseteq Chain[b]
       /\ Height[c] <= Height[b]
       /\ Height[c] = Height[b] => c = b
  /\ \A b \in Block : \A c, d \in Chain[b] :
       Height[c] <= Height[d] => c \in Chain[d]
  /\ \A b \in Block : \A h \in 0 .. Height[b] :
       \E c \in Chain[b] : Height[c] = h
  /\ Height[Genesis] = 0

ASSUME CommitmentAssumption ==
  /\ NullQc \notin Qc /\ NullQc # None
  /\ None \notin Qc \cup (Qc \X Block) \cup BOOLEAN
  /\ \A b \in Block : None # Height[b]
  /\ QuorumOf \in [Qc -> Block]
  /\ CountSigners \in [Qc -> Nat]
  /\ Verified \subseteq Qc
  /\ Commitment \in [Block -> Qc \cup {NullQc, None}]
  /\ Commitment[Genesis] = None
  /\ Invalid \subseteq Block
  /\ Announced \subseteq Qc /\ Asked \subseteq Block

ASSUME ParameterAssumption ==
  /\ DkgInterval \in Nat \ {0} /\ SnapshotPeriod \in Nat \ {0}
  /\ MiningWindowStart \in Nat /\ MiningWindowEnd \in Nat
  /\ ListsCacheSize \in Nat /\ MaxCalls \in Nat /\ MaxCrashes \in Nat

VARIABLES
  \* validation.cpp
  tip,          \* chainActive.Tip()
  coins,        \* the best block of pcoinsTip
  coinsDisk,    \* the best block of pcoinsdbview
  failed,       \* blocks with a flag of BLOCK_FAILED_MASK
  val,          \* the thread that holds cs_main: where it is, with which block
  \* CQuorumBlockProcessor
  hasMined,     \* hasMinedCommitmentCache
  minable,      \* minableCommitments
  byQuorum,     \* minableCommitmentsByQuorum
  verifying,    \* commitments received and being verified
  \* CQuorumManager
  quorumsCache, scanCache,
  rd,           \* the calls of the readers
  \* CDeterministicMNManager
  mnListsCache, tipIndex,
  \* history
  calls, crashes,
  raced         \* quorums whose cache entry a reader wrote from a read that
                \* was not of committed data, or no longer current

chainVars == <<tip, coins, coinsDisk, failed>>
minableVars == <<minable, byQuorum, verifying>>
readerVars == <<quorumsCache, scanCache, rd>>
listVars == <<mnListsCache, tipIndex>>
vars == <<dbVars, chainVars, val, hasMined, minableVars, readerVars, listVars,
          calls, crashes, raced>>
-----------------------------------------------------------------------------
(***************************************************************************)
(* Blocks, lists and stores.                                               *)
(***************************************************************************)
Parent(b) == CHOOSE p \in Chain[b] : Height[p] = Height[b] - 1

\* CBlockIndex::GetAncestor, and GetBlockHash for the active chain.
GetAncestor(b, h) ==
  IF h > Height[b] THEN None ELSE CHOOSE a \in Chain[b] : Height[a] = h

Quorum == {b \in Block : Height[b] % DkgInterval = 0}

Heights == {Height[b] : b \in Block}

List == [h : Heights \cup {-1}, of : SUBSET Block]

EmptyList == [h |-> -1, of |-> {}]

\* The list that the chain of b defines.
ListOf(b) ==
  IF b = Genesis THEN EmptyList
  ELSE [h |-> Height[b], of |-> Chain[b] \ {Genesis}]

\* best: EVODB_BEST_BLOCK.  mc: DB_MINED_COMMITMENT, the commitment of a
\* quorum and the block with it.  ih: DB_MINED_COMMITMENT_BY_INVERSED_HEIGHT.
\* diff: the blocks with a DB_LIST_DIFF.  snap: DB_LIST_SNAPSHOT.
Store ==
  [best : Block,
   mc   : [Quorum -> (Qc \X Block) \cup {None}],
   ih   : [Heights -> Heights \cup {None}],
   diff : SUBSET Block,
   snap : [Block -> List \cup {None}]]

EmptyStore ==
  [best |-> Genesis,
   mc   |-> [q \in Quorum |-> None],
   ih   |-> [h \in Heights |-> None],
   diff |-> {},
   snap |-> [b \in Block |-> None]]

WithBest(s, b) ==
  [best |-> b, mc |-> s.mc, ih |-> s.ih, diff |-> s.diff, snap |-> s.snap]

WithCommitments(s, mc, ih) ==
  [best |-> s.best, mc |-> mc, ih |-> ih, diff |-> s.diff, snap |-> s.snap]

WithLists(s, diff, snap) ==
  [best |-> s.best, mc |-> s.mc, ih |-> s.ih, diff |-> diff, snap |-> snap]

\* pc: the next step.  b: the block that is connected or disconnected.
\* to: the tip after it.  check: fJustCheck.
Idle == [pc |-> "idle", b |-> None, to |-> None, check |-> FALSE]

Down == [pc |-> "down", b |-> None, to |-> None, check |-> FALSE]

At(pc) == [pc |-> pc, b |-> val.b, to |-> val.to, check |-> val.check]

\* scan: what ScanQuorums has (start: its block; None for a call of GetQuorum
\* alone).  ret: what was read.  dirty: it is not, or no longer, committed.
Call(pc, q, scan, ret, dirty) ==
  [pc |-> pc, q |-> q, scan |-> scan, ret |-> ret, dirty |-> dirty]

NoScan == [start |-> None, todo |-> {}, found |-> {}, reorg |-> FALSE]

RIdle == Call("idle", None, NoScan, FALSE, FALSE)

Init ==
  /\ disk = EmptyStore /\ root = EmptyStore /\ cur = EmptyStore
  /\ tip = Genesis /\ coins = Genesis /\ coinsDisk = Genesis
  /\ failed = {} /\ val = Idle
  /\ hasMined = [q \in Quorum |-> None]
  /\ minable = {} /\ byQuorum = [q \in Quorum |-> None] /\ verifying = {}
  /\ quorumsCache = [q \in Quorum |-> None]
  /\ scanCache = [b \in Block |-> None]
  /\ rd = [r \in Reader |-> RIdle]
  /\ mnListsCache = [b \in Block |-> None] /\ tipIndex = Genesis
  /\ calls = 0 /\ crashes = 0 /\ raced = {}
-----------------------------------------------------------------------------
(***************************************************************************)
(* CQuorumBlockProcessor: which blocks need a commitment.  t is the tip.   *)
(***************************************************************************)
IsMiningPhase(h) ==
  /\ h % DkgInterval >= MiningWindowStart
  /\ h % DkgInterval <= MiningWindowEnd

\* None on the first block of a session, whose hash is not known yet.
GetQuorumBlockHash(t, h) == GetAncestor(t, h - (h % DkgInterval))

HasMinedCommitment(q) ==
  IF hasMined[q] # None THEN hasMined[q] = TRUE ELSE cur.mc[q] # None

IsCommitmentRequired(t, h) ==
  LET q == GetQuorumBlockHash(t, h)
  IN q # None /\ IsMiningPhase(h) /\ ~HasMinedCommitment(q)

\* The entry that a call of IsCommitmentRequired leaves in the cache.
CacheHasMined(t, h) ==
  LET q == GetQuorumBlockHash(t, h)
  IN IF q = None THEN hasMined
     ELSE [hasMined EXCEPT ![q] = HasMinedCommitment(q)]

\* Mutant: no check for a commitment that is not allowed.
AcceptsAnyCommitment(t, h, c) ==
  /\ IsCommitmentRequired(t, h) => c # None
  /\ c \in Qc => QuorumOf[c] = GetQuorumBlockHash(t, h) /\ c \in Verified

\* The checks of ProcessBlock, and of ProcessCommitment those that
\* IsCommitmentRequired does not imply.
AcceptsCommitment(t, h, c) ==
  /\ (c # None) = IsCommitmentRequired(t, h)
  /\ c \in Qc => QuorumOf[c] = GetQuorumBlockHash(t, h) /\ c \in Verified

\* A reader that has read whether q is mined, but has not cached it, is late.
LateFor(q) ==
  [r \in Reader |-> Call(rd[r].pc, rd[r].q, rd[r].scan, rd[r].ret,
     rd[r].dirty \/ (rd[r].pc = "emplace" /\ rd[r].q = q))]

\* A block is disconnected while a scan runs.
ReorgForScans ==
  [r \in Reader |-> Call(rd[r].pc, rd[r].q,
     [rd[r].scan EXCEPT !.reorg = rd[r].scan.start # None],
     rd[r].ret, rd[r].dirty)]
-----------------------------------------------------------------------------
(***************************************************************************)
(* CDeterministicMNManager: the list of a block from the cache, from a     *)
(* snapshot, or from the list of its parent and its diff; a block without  *)
(* any of them has the empty list.  Every list met is cached; `emplace`    *)
(* keeps what is there.                                                    *)
(***************************************************************************)
HasBase(cache, s, b) == cache[b] # None \/ s.snap[b] # None \/ b \notin s.diff

BaseOf(cache, s, b) ==
  CHOOSE a \in Chain[b] :
    /\ HasBase(cache, s, a)
    /\ \A c \in Chain[b] : Height[c] > Height[a] => ~HasBase(cache, s, c)

ReadList(cache, s, b) ==
  LET a == BaseOf(cache, s, b)
      l == IF cache[a] # None THEN cache[a]
           ELSE IF s.snap[a] # None THEN s.snap[a] ELSE EmptyList
  IN IF a = b THEN l
     ELSE [h |-> Height[b], of |-> l.of \cup (Chain[b] \ Chain[a])]

CacheLists(cache, s, b) ==
  [c \in Block |->
     IF c \in Chain[b] /\ Height[c] >= Height[BaseOf(cache, s, b)]
     THEN ReadList(cache, s, c) ELSE cache[c]]

GetListForBlock(b) == ReadList(mnListsCache, cur, b)

\* Mutant: by the height of the block instead of the height of its list.
CleanupCacheByBlock(h) ==
  [b \in Block |-> IF mnListsCache[b] # None /\ Height[b] + ListsCacheSize < h
                   THEN None ELSE mnListsCache[b]]

CleanupCache(h) ==
  [b \in Block |-> IF mnListsCache[b] # None
                      /\ mnListsCache[b].h + ListsCacheSize < h
                   THEN None ELSE mnListsCache[b]]
-----------------------------------------------------------------------------
(***************************************************************************)
(* ConnectTip, and TestBlockValidity (check), which rolls back whatever    *)
(* ConnectBlock did.                                                       *)
(***************************************************************************)
ConnectBlock(b, check) ==
  /\ val = Idle /\ b # Genesis /\ Parent(b) = tip /\ b \notin failed
  /\ hasMined' = CacheHasMined(tip, Height[b])
  /\ IF AcceptsCommitment(tip, Height[b], Commitment[b])
     THEN /\ val' = [pc |-> IF Commitment[b] \in Qc THEN "write" ELSE "list",
                     b |-> b, to |-> b, check |-> check]
          /\ UNCHANGED failed
     ELSE /\ failed' = IF check THEN failed ELSE failed \cup {b}
          /\ UNCHANGED val
  /\ UNCHANGED <<dbVars, tip, coins, coinsDisk, minableVars, readerVars,
                 listVars, calls, crashes, raced>>

\* ProcessCommitment: the two keys.
WriteCommitment ==
  LET b == val.b
      c == Commitment[b]
      q == QuorumOf[c]
  IN /\ val.pc = "write"
     /\ Write(WithCommitments(cur, [cur.mc EXCEPT ![q] = <<c, b>>],
                                   [cur.ih EXCEPT ![Height[b]] = Height[q]]))
     /\ rd' = LateFor(q)
     /\ val' = At("erase")
     /\ UNCHANGED <<chainVars, hasMined, minableVars, quorumsCache, scanCache,
                    listVars, calls, crashes, raced>>

\* Mutant: ProcessCommitment leaves the entry.
EraseHasMinedOnUndo ==
  /\ val.pc \in {"erase", "undoerase"}
  /\ hasMined' = IF val.pc = "erase" THEN hasMined
                 ELSE [hasMined EXCEPT ![QuorumOf[Commitment[val.b]]] = None]
  /\ val' = At(IF val.pc = "erase" THEN "list" ELSE "undoadd")
  /\ UNCHANGED <<dbVars, chainVars, minableVars, readerVars, listVars,
                 calls, crashes, raced>>

\* ProcessCommitment, and UndoBlock: the entry of the cache.
EraseHasMined ==
  /\ val.pc \in {"erase", "undoerase"}
  /\ hasMined' = [hasMined EXCEPT ![QuorumOf[Commitment[val.b]]] = None]
  /\ val' = At(IF val.pc = "erase" THEN "list" ELSE "undoadd")
  /\ UNCHANGED <<dbVars, chainVars, minableVars, readerVars, listVars,
                 calls, crashes, raced>>

\* CDeterministicMNManager::ProcessBlock while it holds cs.
ProcessList ==
  LET b == val.b
      old == GetListForBlock(Parent(b))
      new == [h |-> Height[b], of |-> old.of \cup {b}]
  IN /\ val.pc = "list"
     /\ mnListsCache' = CacheLists(mnListsCache, cur, Parent(b))
     /\ \/ /\ b \in Invalid \/ val.check
           /\ val' = At("finish")
           /\ UNCHANGED dbVars
        \/ /\ ~val.check
           /\ Write(WithLists(cur, cur.diff \cup {b},
                IF Height[b] % SnapshotPeriod = 0 \/ old.h = -1
                THEN [cur.snap EXCEPT ![b] = new] ELSE cur.snap))
           /\ val' = At("cleanup")
     /\ UNCHANGED <<chainVars, hasMined, minableVars, readerVars, tipIndex,
                    calls, crashes, raced>>

ProcessListCleanup ==
  /\ val.pc = "cleanup"
  /\ mnListsCache' = CleanupCache(Height[val.b])
  /\ val' = At("finish")
  /\ UNCHANGED <<dbVars, chainVars, hasMined, minableVars, readerVars,
                 tipIndex, calls, crashes, raced>>

\* Mutant: no rollback of a test.
RollbackBlockUnlessCheck ==
  /\ val.pc = "finish" /\ (val.check \/ val.b \in Invalid)
  /\ IF val.check THEN UNCHANGED dbVars ELSE RollbackCurTransaction
  /\ rd' = IF Commitment[val.b] \in Qc
           THEN LateFor(QuorumOf[Commitment[val.b]]) ELSE rd
  /\ failed' = IF val.check THEN failed ELSE failed \cup {val.b}
  /\ val' = Idle
  /\ UNCHANGED <<tip, coins, coinsDisk, hasMined, minableVars, quorumsCache,
                 scanCache, listVars, calls, crashes, raced>>

\* The rest of ConnectBlock fails, or was only a test.
RollbackBlock ==
  /\ val.pc = "finish" /\ (val.check \/ val.b \in Invalid)
  /\ RollbackCurTransaction
  /\ rd' = IF Commitment[val.b] \in Qc
           THEN LateFor(QuorumOf[Commitment[val.b]]) ELSE rd
  /\ failed' = IF val.check THEN failed ELSE failed \cup {val.b}
  /\ val' = Idle
  /\ UNCHANGED <<tip, coins, coinsDisk, hasMined, minableVars, quorumsCache,
                 scanCache, listVars, calls, crashes, raced>>

CommitBlock ==
  /\ val.pc = "finish" /\ ~val.check /\ val.b \notin Invalid
  /\ CommitCurTransaction(WithBest(cur, val.b))
  /\ coins' = val.b
  /\ val' = At("flush")
  /\ UNCHANGED <<tip, coinsDisk, failed, hasMined, minableVars, readerVars,
                 listVars, calls, crashes, raced>>
-----------------------------------------------------------------------------
(***************************************************************************)
(* DisconnectTip: UndoSpecialTxsInBlock undoes the list first.             *)
(***************************************************************************)
\* Mutant: the snapshot stays.
DisconnectBlockKeepsSnapshot ==
  LET b == tip
      lists == CacheLists(CacheLists(mnListsCache, cur, b), cur, Parent(b))
  IN /\ val = Idle /\ b # Genesis
     /\ mnListsCache' = [lists EXCEPT ![b] = None]
     /\ Write(WithLists(cur, cur.diff \ {b}, cur.snap))
     /\ val' = [pc |-> IF Commitment[b] \in Qc THEN "undo" ELSE "undone",
                b |-> b, to |-> Parent(b), check |-> FALSE]
     /\ rd' = ReorgForScans
     /\ UNCHANGED <<chainVars, hasMined, minableVars, quorumsCache, scanCache,
                    tipIndex, calls, crashes, raced>>

DisconnectBlock ==
  LET b == tip
      lists == CacheLists(CacheLists(mnListsCache, cur, b), cur, Parent(b))
  IN /\ val = Idle /\ b # Genesis
     /\ mnListsCache' = [lists EXCEPT ![b] = None]
     /\ Write(WithLists(cur, cur.diff \ {b}, [cur.snap EXCEPT ![b] = None]))
     /\ val' = [pc |-> IF Commitment[b] \in Qc THEN "undo" ELSE "undone",
                b |-> b, to |-> Parent(b), check |-> FALSE]
     /\ rd' = ReorgForScans
     /\ UNCHANGED <<chainVars, hasMined, minableVars, quorumsCache, scanCache,
                    tipIndex, calls, crashes, raced>>

\* Mutant: the key by height stays.
UndoCommitmentByHash ==
  LET b == val.b
      q == QuorumOf[Commitment[b]]
  IN /\ val.pc = "undo"
     /\ Write(WithCommitments(cur, [cur.mc EXCEPT ![q] = None], cur.ih))
     /\ rd' = LateFor(q)
     /\ val' = At("undoerase")
     /\ UNCHANGED <<chainVars, hasMined, minableVars, quorumsCache, scanCache,
                    listVars, calls, crashes, raced>>

UndoCommitment ==
  LET b == val.b
      q == QuorumOf[Commitment[b]]
  IN /\ val.pc = "undo"
     /\ Write(WithCommitments(cur, [cur.mc EXCEPT ![q] = None],
                                   [cur.ih EXCEPT ![Height[b]] = None]))
     /\ rd' = LateFor(q)
     /\ val' = At("undoerase")
     /\ UNCHANGED <<chainVars, hasMined, minableVars, quorumsCache, scanCache,
                    listVars, calls, crashes, raced>>

\* Mutant: the last commitment wins.
AddMinableCommitmentLast(c) ==
  /\ byQuorum' = [byQuorum EXCEPT ![QuorumOf[c]] = c]
  /\ minable' = minable \cup {c}

\* Mutant: emplaced before the erasure.
AddMinableCommitmentErased(c) ==
  LET q == QuorumOf[c]
      old == byQuorum[q]
  IN IF old = None \/ CountSigners[c] > CountSigners[old]
     THEN /\ byQuorum' = [byQuorum EXCEPT ![q] = c]
          /\ minable' = IF old = None THEN minable \cup {c} ELSE minable \ {c}
     ELSE UNCHANGED <<byQuorum, minable>>

\* The better commitment of a quorum replaces the other one in byQuorum;
\* the other one is not erased from minableCommitments.
AddMinableCommitment(c) ==
  LET q == QuorumOf[c]
      old == byQuorum[q]
  IN IF old = None \/ CountSigners[c] > CountSigners[old]
     THEN /\ byQuorum' = [byQuorum EXCEPT ![q] = c]
          /\ minable' = minable \cup {c}
     ELSE UNCHANGED <<byQuorum, minable>>

UndoAddMinable ==
  /\ val.pc = "undoadd"
  /\ AddMinableCommitment(Commitment[val.b])
  /\ val' = At("undone")
  /\ UNCHANGED <<dbVars, chainVars, hasMined, verifying, readerVars, listVars,
                 calls, crashes, raced>>

CommitDisconnect ==
  /\ val.pc = "undone"
  /\ CommitCurTransaction(WithBest(cur, val.to))
  /\ coins' = val.to
  /\ val' = At("flush")
  /\ UNCHANGED <<tip, coinsDisk, failed, hasMined, minableVars, readerVars,
                 listVars, calls, crashes, raced>>
-----------------------------------------------------------------------------
(***************************************************************************)
(* FlushStateToDisk, after every block if needed and from time to time:    *)
(* the coins first, then evoDb.                                            *)
(***************************************************************************)
FlushCoins ==
  /\ val.pc \in {"flush", "idle"}
  /\ coinsDisk' = coins
  /\ val' = IF val.pc = "flush" THEN At("commitroot")
            ELSE [pc |-> "commitroot", b |-> None, to |-> tip, check |-> FALSE]
  /\ UNCHANGED <<dbVars, tip, coins, failed, hasMined, minableVars,
                 readerVars, listVars, calls, crashes, raced>>

FlushEvoDb ==
  /\ val.pc = "commitroot"
  /\ CommitRootTransaction
  /\ val' = At("updatetip")
  /\ UNCHANGED <<chainVars, hasMined, minableVars, readerVars, listVars,
                 calls, crashes, raced>>

\* Mutant: the block of the step, also after a flush without one.
UpdateTipToBlock ==
  /\ val.pc \in {"flush", "updatetip"}
  /\ tip' = val.b
  /\ val' = Idle
  /\ UNCHANGED <<dbVars, coins, coinsDisk, failed, hasMined, minableVars,
                 readerVars, listVars, calls, crashes, raced>>

UpdateTip ==
  /\ val.pc \in {"flush", "updatetip"}
  /\ tip' = val.to
  /\ val' = Idle
  /\ UNCHANGED <<dbVars, coins, coinsDisk, failed, hasMined, minableVars,
                 readerVars, listVars, calls, crashes, raced>>

\* The signal of the same name, sent when cs_main is free again.
UpdatedBlockTip ==
  /\ val = Idle
  /\ tipIndex' = tip
  /\ UNCHANGED <<dbVars, chainVars, val, hasMined, minableVars, readerVars,
                 mnListsCache, calls, crashes, raced>>

\* GetListAtChainTip, or GetListForBlock of a block of the active chain.
ReadMNList(b) ==
  /\ val.pc # "down" /\ b \in Chain[tip] \cup {tipIndex}
  /\ mnListsCache' = CacheLists(mnListsCache, cur, b)
  /\ UNCHANGED <<dbVars, chainVars, val, hasMined, minableVars, readerVars,
                 tipIndex, calls, crashes, raced>>
-----------------------------------------------------------------------------
(***************************************************************************)
(* Final commitments from the network and from the node's own DKG.         *)
(***************************************************************************)
\* The early return of ProcessMessage, as it is coded.
HasBetterCommitment(c) ==
  LET old == byQuorum[QuorumOf[c]]
  IN old # None /\ old \in minable /\ CountSigners[old] <= CountSigners[c]

ReceiveCommitment(c) ==
  /\ val = Idle /\ QuorumOf[c] \in Chain[tip] \cap Quorum
  /\ ~HasBetterCommitment(c) /\ c \in Verified
  /\ verifying' = verifying \cup {c}
  /\ UNCHANGED <<dbVars, chainVars, val, hasMined, minable, byQuorum,
                 readerVars, listVars, calls, crashes, raced>>

AddReceivedCommitment(c) ==
  /\ AddMinableCommitment(c)
  /\ verifying' = verifying \ {c}
  /\ UNCHANGED <<dbVars, chainVars, val, hasMined, readerVars, listVars,
                 calls, crashes, raced>>

\* CDKGSessionHandler::HandleDKGRound hands over what FinalizeCommitments made.
AddOwnCommitment(c) ==
  /\ val.pc # "down" /\ c \in Verified
  /\ AddMinableCommitment(c)
  /\ UNCHANGED <<dbVars, chainVars, val, hasMined, verifying, readerVars,
                 listVars, calls, crashes, raced>>

\* None: no commitment is to be mined.
GetMinableCommitment(t, h) ==
  LET q == GetQuorumBlockHash(t, h)
  IN IF ~IsCommitmentRequired(t, h) THEN None
     ELSE IF byQuorum[q] = None THEN NullQc ELSE byQuorum[q]

\* CreateNewBlock.
CreateNewBlock ==
  /\ val = Idle
  /\ hasMined' = CacheHasMined(tip, Height[tip] + 1)
  /\ UNCHANGED <<dbVars, chainVars, val, minableVars, readerVars, listVars,
                 calls, crashes, raced>>
-----------------------------------------------------------------------------
(***************************************************************************)
(* CQuorumManager::GetQuorum, alone or for each quorum of ScanQuorums.     *)
(***************************************************************************)
otherThanReaders == <<dbVars, chainVars, val, minableVars, listVars, crashes>>

readerCaches == <<hasMined, quorumsCache, scanCache, raced>>

CallGetQuorum(r, q) ==
  /\ val.pc # "down" /\ rd[r] = RIdle /\ calls < MaxCalls
  /\ calls' = calls + 1
  /\ rd' = [rd EXCEPT ![r] = Call("has", q, NoScan, FALSE, FALSE)]
  /\ UNCHANGED <<otherThanReaders, readerCaches>>

\* ScanQuorums for the tip, when its cache has no result.
CallScanQuorums(r) ==
  /\ val = Idle /\ rd[r] = RIdle /\ calls < MaxCalls
  /\ scanCache[tip] = None
  /\ calls' = calls + 1
  /\ rd' = [rd EXCEPT ![r] =
              Call("scan", None, [NoScan EXCEPT !.start = tip], FALSE, FALSE)]
  /\ UNCHANGED <<otherThanReaders, readerCaches>>

\* Mutant: all heights.
ScanWholeIndex(r) ==
  /\ rd[r].pc = "scan"
  /\ LET hs == {h \in Heights : cur.ih[h] # None}
         todo == {GetAncestor(rd[r].scan.start, cur.ih[h]) : h \in hs}
     IN rd' = [rd EXCEPT ![r] = Call("next", None,
                 [rd[r].scan EXCEPT !.todo = todo], FALSE, FALSE)]
  /\ UNCHANGED <<otherThanReaders, readerCaches, calls>>

\* GetMinedCommitmentsUntilBlock.
ScanIndex(r) ==
  /\ rd[r].pc = "scan"
  /\ LET hs == {h \in Heights : h <= Height[rd[r].scan.start]
                                 /\ cur.ih[h] # None}
         todo == {GetAncestor(rd[r].scan.start, cur.ih[h]) : h \in hs}
     IN rd' = [rd EXCEPT ![r] = Call("next", None,
                 [rd[r].scan EXCEPT !.todo = todo], FALSE, FALSE)]
  /\ UNCHANGED <<otherThanReaders, readerCaches, calls>>

ScanNext(r, q) ==
  /\ rd[r].pc = "next" /\ q \in rd[r].scan.todo
  /\ rd' = [rd EXCEPT ![r] = Call("has", q,
              [rd[r].scan EXCEPT !.todo = @ \ {q}], FALSE, FALSE)]
  /\ UNCHANGED <<otherThanReaders, readerCaches, calls>>

ScanStore(r) ==
  /\ rd[r].pc = "next" /\ rd[r].scan.todo = {}
  /\ scanCache' = [scanCache EXCEPT ![rd[r].scan.start] = rd[r].scan.found]
  /\ rd' = [rd EXCEPT ![r] = RIdle]
  /\ UNCHANGED <<otherThanReaders, hasMined, quorumsCache, calls, raced>>

\* GetQuorum returns nullptr, which ScanQuorums asserts it does not.
Nothing(r) ==
  IF rd[r].scan.start = None THEN RIdle
  ELSE Call("assert", rd[r].q, rd[r].scan, FALSE, FALSE)

Something(r, e) ==
  IF rd[r].scan.start = None THEN RIdle
  ELSE Call("next", None, [rd[r].scan EXCEPT !.found = @ \cup {e}], FALSE, FALSE)

\* The step of GetQuorum after HasMinedCommitment.
AfterHasMined(r, ret) ==
  IF ret THEN Call("get", rd[r].q, rd[r].scan, FALSE, FALSE) ELSE Nothing(r)

\* HasMinedCommitment: the cache, the database, the cache again.
LookUpHasMined(r) ==
  LET q == rd[r].q
  IN /\ rd[r].pc = "has"
     /\ rd' = [rd EXCEPT ![r] =
                 IF hasMined[q] # None THEN AfterHasMined(r, hasMined[q] = TRUE)
                 ELSE Call("exists", q, rd[r].scan, FALSE, FALSE)]
     /\ UNCHANGED <<otherThanReaders, readerCaches, calls>>

ReadHasMined(r) ==
  LET q == rd[r].q
  IN /\ rd[r].pc = "exists"
     /\ rd' = [rd EXCEPT ![r] = Call("emplace", q, rd[r].scan,
                 cur.mc[q] # None, cur.mc[q] # root.mc[q])]
     /\ UNCHANGED <<otherThanReaders, readerCaches, calls>>

EmplaceHasMined(r) ==
  LET q == rd[r].q
  IN /\ rd[r].pc = "emplace"
     /\ IF hasMined[q] = None
        THEN /\ hasMined' = [hasMined EXCEPT ![q] = rd[r].ret]
             /\ raced' = IF rd[r].dirty THEN raced \cup {q} ELSE raced
        ELSE UNCHANGED <<hasMined, raced>>
     /\ rd' = [rd EXCEPT ![r] = AfterHasMined(r, rd[r].ret)]
     /\ UNCHANGED <<otherThanReaders, quorumsCache, scanCache, calls>>

\* The rest of GetQuorum, under quorumsCacheCs.
BuildQuorum(r) ==
  LET q == rd[r].q
  IN /\ rd[r].pc = "get"
     /\ quorumsCache' = IF quorumsCache[q] # None THEN quorumsCache
                        ELSE [quorumsCache EXCEPT ![q] = cur.mc[q]]
     /\ rd' = [rd EXCEPT ![r] = IF quorumsCache'[q] = None THEN Nothing(r)
                                ELSE Something(r, quorumsCache'[q])]
     /\ UNCHANGED <<otherThanReaders, hasMined, scanCache, calls, raced>>
-----------------------------------------------------------------------------
(***************************************************************************)
(* The process ends, by itself or by a failed assertion, and starts again. *)
(* What is not on disk is lost, marks of failed blocks perhaps.            *)
(***************************************************************************)
Asserted == \E r \in Reader : rd[r].pc = "assert"

Crash ==
  /\ val.pc # "down" /\ (crashes < MaxCrashes \/ Asserted)
  /\ crashes' = IF Asserted THEN crashes ELSE crashes + 1
  /\ Open(disk)
  /\ coins' = coinsDisk /\ tip' = coinsDisk
  /\ failed' \in {failed, {}}
  /\ hasMined' = [q \in Quorum |-> None]
  /\ minable' = {} /\ byQuorum' = [q \in Quorum |-> None] /\ verifying' = {}
  /\ quorumsCache' = [q \in Quorum |-> None]
  /\ scanCache' = [b \in Block |-> None]
  /\ rd' = [r \in Reader |-> RIdle]
  /\ mnListsCache' = [b \in Block |-> None]
  /\ tipIndex' = coinsDisk
  /\ val' = Down
  /\ UNCHANGED <<coinsDisk, calls, raced>>

\* VerifyDB asserts that evoDb knows the tip as its best block.  Then it
\* undoes the last blocks in a transaction that it rolls back: their
\* commitments become minable, and the list before the first stays cached.
Start ==
  LET mined(q) == {c \in {Commitment[b] : b \in Chain[tip]} \cap Qc :
                     QuorumOf[c] = q}
      most(q) == {c \in mined(q) : \A d \in mined(q) :
                     CountSigners[d] <= CountSigners[c]}
  IN /\ val.pc = "down" /\ disk.best = coinsDisk
     /\ byQuorum' \in [Quorum -> Qc \cup {None}]
     /\ \A q \in Quorum : IF mined(q) = {} THEN byQuorum'[q] = None
                          ELSE byQuorum'[q] \in most(q)
     /\ minable' = {byQuorum'[q] : q \in Quorum} \ {None}
     /\ mnListsCache' = IF tip = Genesis THEN mnListsCache
                        ELSE [mnListsCache EXCEPT ![Genesis] = EmptyList]
     /\ val' = Idle
     /\ UNCHANGED <<dbVars, chainVars, hasMined, verifying, readerVars,
                    tipIndex, calls, crashes, raced>>

\* -reindex: all blocks are processed again from the first one.
Reindex ==
  /\ val.pc = "down"
  /\ Open(EmptyStore)
  /\ tip' = Genesis /\ coins' = Genesis /\ coinsDisk' = Genesis
  /\ tipIndex' = Genesis /\ failed' = {} /\ raced' = {}
  /\ val' = Idle
  /\ UNCHANGED <<hasMined, minableVars, readerVars, mnListsCache, calls,
                 crashes>>

ReaderStep(r) ==
  \/ \E q \in Quorum : CallGetQuorum(r, q)
  \/ CallScanQuorums(r)
  \/ ScanIndex(r)
  \/ \E q \in Quorum : ScanNext(r, q)
  \/ ScanStore(r)
  \/ LookUpHasMined(r)
  \/ ReadHasMined(r)
  \/ EmplaceHasMined(r)
  \/ BuildQuorum(r)

Step ==
  \/ \E b \in Block, check \in BOOLEAN : ConnectBlock(b, check)
  \/ WriteCommitment
  \/ EraseHasMined
  \/ ProcessList
  \/ ProcessListCleanup
  \/ RollbackBlock
  \/ CommitBlock
  \/ DisconnectBlock
  \/ UndoCommitment
  \/ UndoAddMinable
  \/ CommitDisconnect
  \/ FlushCoins
  \/ FlushEvoDb
  \/ UpdateTip
  \/ UpdatedBlockTip
  \/ \E b \in Asked : ReadMNList(b)
  \/ \E c \in Announced : ReceiveCommitment(c)
  \/ \E c \in verifying : AddReceivedCommitment(c)
  \/ \E c \in Announced : AddOwnCommitment(c)
  \/ CreateNewBlock
  \/ \E r \in Reader : ReaderStep(r)
  \/ Start
  \/ Reindex

Next ==
  \/ ~Asserted /\ Step
  \/ Crash

Spec == Init /\ [][Next]_vars
-----------------------------------------------------------------------------
(***************************************************************************)
(* Properties.                                                             *)
(***************************************************************************)
\* Type invariant.
TypeOK ==
  /\ disk \in Store /\ root \in Store /\ cur \in Store
  /\ tip \in Block /\ coins \in Block /\ coinsDisk \in Block
  /\ failed \in SUBSET Block
  /\ val \in [pc : {"idle", "down", "write", "erase", "list", "cleanup",
                    "finish", "undo", "undoerase", "undoadd", "undone",
                    "flush", "commitroot", "updatetip"},
              b : Block \cup {None}, to : Block \cup {None}, check : BOOLEAN]
  /\ hasMined \in [Quorum -> BOOLEAN \cup {None}]
  /\ minable \in SUBSET Qc /\ verifying \in SUBSET Qc
  /\ byQuorum \in [Quorum -> Qc \cup {None}]
  /\ quorumsCache \in [Quorum -> (Qc \X Block) \cup {None}]
  /\ scanCache \in [Block -> SUBSET (Qc \X Block) \cup {None}]
  /\ rd \in [Reader ->
       [pc : {"idle", "scan", "next", "has", "exists", "emplace", "get",
              "assert"},
        q : Quorum \cup {None},
        scan : [start : Block \cup {None}, todo : SUBSET Quorum,
                found : SUBSET (Qc \X Block), reorg : BOOLEAN],
        ret : BOOLEAN, dirty : BOOLEAN]]
  /\ mnListsCache \in [Block -> List \cup {None}]
  /\ tipIndex \in Block
  /\ calls \in Nat /\ crashes \in Nat /\ raced \in SUBSET Quorum

\* The commitments that the chain of b has for quorum q, with their blocks.
MinedOn(b, q) ==
  {<<Commitment[m], m>> : m \in {x \in Chain[b] :
     Commitment[x] \in Qc /\ QuorumOf[Commitment[x]] = q}}
\* The quorum of the session of block b; None for its first block.
SessionOf(b) == GetQuorumBlockHash(Parent(b), Height[b])

\* What the code says of a block of the chain: "there is always a (possibly
\* null) commitment while in the mining phase until the first non-null
\* commitment has been mined.  After the non-null commitment, no other
\* commitments are allowed".
FollowsWindow(b) ==
  LET q == SessionOf(b)
      c == Commitment[b]
  IN /\ (c # None) = (/\ q # None /\ IsMiningPhase(Height[b])
                      /\ MinedOn(Parent(b), q) = {})
     /\ c \in Qc => QuorumOf[c] = q /\ c \in Verified

\* Every block of the active chain follows the rule of the mining window, and
\* no block that does is rejected (ProcessBlock, ProcessCommitment), unless a
\* reader cached a wrong answer of HasMinedCommitment for the quorum.
WindowRule ==
  \A b \in Block \ {Genesis} :
    SessionOf(b) \in raced
    \/ /\ b \in Chain[coins] => FollowsWindow(b)
       /\ b \in failed => ~FollowsWindow(b) \/ b \in Invalid

\* The same whatever the readers do.
WindowRuleAlways ==
  \A b \in Block \ {Genesis} :
    /\ b \in Chain[coins] => FollowsWindow(b)
    /\ b \in failed => ~FollowsWindow(b) \/ b \in Invalid

\* Store s holds the commitments of the chain of its best block, by quorum
\* and by height, but for those of the quorums R.
HoldsCommitments(s, R) ==
  /\ \A q \in Quorum \ R :
       /\ s.mc[q] = None => MinedOn(s.best, q) = {}
       /\ s.mc[q] # None => MinedOn(s.best, q) = {s.mc[q]}
       /\ \A m \in Chain[s.best] :
            Commitment[m] \in Qc /\ QuorumOf[Commitment[m]] = q
              => s.ih[Height[m]] = Height[q]
  /\ \A h \in Heights : s.ih[h] # None =>
       \E m \in Chain[s.best] : Height[m] = h /\ Commitment[m] \in Qc

\* What is committed, in memory and on disk, always is what one chain of the
\* tree defines, through failed blocks, tests of blocks, reorganisations,
\* flushes and crashes (ProcessCommitment, UndoBlock, CEvoDB): the commitments.
CommitmentsMatch ==
  HoldsCommitments(root, raced) /\ HoldsCommitments(disk, raced)

\* The same of the masternode lists (ProcessBlock and UndoBlock of
\* CDeterministicMNManager): a diff for every block, correct snapshots, one
\* of them at the first block, where the walk of GetListForBlock ends.
ListsMatch ==
  \A s \in {root, disk} :
    /\ s.diff = Chain[s.best] \ {Genesis}
    /\ \A b \in Block : s.snap[b] # None =>
         b \in s.diff /\ s.snap[b] = ListOf(b)
    /\ \A b \in s.diff : Height[b] = 1 => s.snap[b] # None

\* Between blocks no transaction is open and evoDb, the coins and the active
\* chain agree on the best block, so that the assertions of BeginTransaction,
\* CommitRootTransaction and VerifyBestBlock hold.  On disk evoDb and the
\* coins agree but for a stop between their two writes.
BestBlocksAgree ==
  /\ val.pc \in {"idle", "commitroot"} => IsClean
  /\ val.pc = "idle" => cur.best = tip /\ coins = tip
  /\ disk.best # coinsDisk => val.pc \in {"commitroot", "down"}

\* A cached answer of HasMinedCommitment is the answer of the database, but
\* for the time between a write and the erasure of the entry, and for the
\* entries that readers cached from a read that was not current.
HasMinedExact ==
  \A q \in Quorum \ raced :
    hasMined[q] # None =>
      \/ hasMined[q] = (cur.mc[q] # None)
      \/ val.pc \in {"erase", "undoerase"} /\ QuorumOf[Commitment[val.b]] = q

\* "if a reorg happened, we should allow to mine this commitment later":
\* after UndoBlock the node has the undone commitment, or a better one, to
\* mine, and what it has to mine for a quorum never gets worse while it runs.
MinableKept ==
  /\ \A q \in Quorum : byQuorum[q] # None /\ val'.pc # "down" =>
       byQuorum'[q] # None
       /\ CountSigners[byQuorum'[q]] >= CountSigners[byQuorum[q]]
  /\ val.pc = "undoadd" /\ val'.pc = "undone" =>
       LET c == Commitment[val.b]
       IN byQuorum'[QuorumOf[c]] # None
          /\ CountSigners[byQuorum'[QuorumOf[c]]] >= CountSigners[c]

UndoneStaysMinable == [][MinableKept]_vars

\* What GetMinableCommitment gives the miner is known (the `at` does not
\* throw) and passes the checks of ProcessBlock on top of the same tip.
TemplateAccepted ==
  val.pc = "idle" =>
    LET c == GetMinableCommitment(tip, Height[tip] + 1)
    IN /\ c \in Qc => c \in minable
       /\ AcceptsCommitment(tip, Height[tip] + 1, c)

\* Between blocks, GetListForBlock gives for every block of the active chain
\* the list that the chain defines, whatever other threads asked for while
\* blocks were connected, disconnected or rolled back.
ListsExact ==
  val.pc = "idle" => \A b \in Chain[tip] : GetListForBlock(b) = ListOf(b)

\* ScanQuorums meets a quorum that GetQuorum does not find, and asserts, only
\* if a block was disconnected while it ran or a cached answer was wrong.
ScanAssertNeedsReorg ==
  \A r \in Reader : rd[r].pc = "assert" => rd[r].scan.reorg \/ rd[r].q \in raced
=============================================================================
