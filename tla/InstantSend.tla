---------------------------- MODULE InstantSend ----------------------------
(***************************************************************************)
(* CInstantSendManager and CInstantSendDb on one node: the ISLOCKs it      *)
(* stores, the transactions it tracks because they are not locked yet, and *)
(* how both follow the mempool and the chain.                              *)
(*                                                                         *)
(* Threads.  The validation thread holds cs_main and reports transactions  *)
(* to SyncTransaction; the worker processes ISLOCKs and retries; the       *)
(* scheduler reports ChainLocks.  CInstantSendManager::cs is held for one  *)
(* step only, so the threads interleave between the steps.                 *)
(*                                                                         *)
(* Abstractions.  An ISLOCK that is processed has a valid signature, and   *)
(* one is processed at a time: the one that this node completes itself     *)
(* runs the same code in the signing thread.  A vote on the inputs of a    *)
(* transaction is one step; what the quorum then signs is the set ISLock   *)
(* (module Signing), and the recovered signatures dropped with a confirmed *)
(* ISLOCK are module RecoveredSigsDb's.  Every access to the caches of     *)
(* CInstantSendDb is under cs and leaves them coherent: they are left out. *)
(* The node is a synced masternode, the sporks are on.  A reorganisation   *)
(* is a sequence of single disconnects and connects.  All blocks and       *)
(* ISLOCKs that may come are constants.                                    *)
(***************************************************************************)
EXTENDS Integers, Sequences, FiniteSets

CONSTANTS
  Tx, Coin,      \* transactions, and confirmed transactions they may spend
  Spends,        \* Spends[t]: the outpoints <<hash, n>> that t spends
  ISLock,        \* the ISLOCKs that quorums sign
  TxidOf,        \* TxidOf[l]: islock.txid
  Block, Genesis,
  Chain, Height, \* Chain[b]: b and its ancestors
  BlockTxs,      \* BlockTxs[b]: the transactions of b, as a sequence
  Locked,        \* blocks that get a ChainLock
  None,
  ArchiveDepth,  \* blocks for which a removed ISLOCK's hash is kept (100)
  Confirmations, \* nInstantSendConfirmationsRequired
  MaxRestarts    \* bound

Source == Tx \cup Coin
Outpoint == UNION {Spends[t] : t \in Tx}
Inputs(l) == Spends[TxidOf[l]]
TxsOf(b) == {BlockTxs[b][i] : i \in DOMAIN BlockTxs[b]}
Heights == {Height[b] : b \in Block}
Call == [tx : Tx, pindex : Block \cup {None}, notInBlock : BOOLEAN]

ASSUME InstantSendAssumption ==
  /\ IsFiniteSet(Tx)
  /\ Spends \in [Tx -> SUBSET (Source \X Nat)]
  /\ \A t \in Tx : \A o \in Spends[t] : o[1] # t
  /\ TxidOf \in [ISLock -> Tx]
  /\ Genesis \in Block
  /\ Chain \in [Block -> SUBSET Block]
  /\ \A b \in Block : b \in Chain[b]
  /\ Height \in [Block -> Nat]
  /\ BlockTxs \in [Block -> Seq(Tx)]
  /\ Locked \subseteq Block
  /\ None \notin Tx \cup Coin \cup ISLock \cup Block
  /\ ArchiveDepth \in Nat /\ Confirmations \in Nat /\ MaxRestarts \in Nat

VARIABLES
  mempool, tip, failed, \* transactions, chainActive.Tip(), failed blocks
  txIndex,      \* txIndex[t]: the block of t's -txindex entry
  clsig,        \* the ChainLock that is enforced
  notified,     \* the ChainLock last passed to NotifyChainLock
  isI,          \* is_i: the ISLOCKs stored
  isTx, isIn,   \* is_tx, is_in: hash of the ISLOCK of a txid, of an outpoint
  isM,          \* is_m: pairs of height and ISLOCK
  isA1, isA2,   \* is_a1, is_a2: archived hashes, with and without height
  trk,          \* nonLockedTxs, nonLockedTxsByInputs, pendingRetryTxs
  voted,        \* transactions on whose inputs this node voted
  at, cur,      \* validation thread: where it is, its transaction or block
  calls,        \* SyncTransaction calls it has still to make
  isLocked,     \* SyncTransaction: the transaction was found locked
  wat, lock,    \* worker: where it is, the ISLOCK
  pindexMined,  \* worker: the block GetTransaction found, or None
  conflicts,    \* worker: toDelete, or the pairs of block and transaction
  retryTxs,     \* worker: transactions taken from pendingRetryTxs
  restarts

chain == <<mempool, tip, failed, txIndex, clsig, notified>>
db == <<isI, isTx, isIn, isM, isA1, isA2>>
sync == <<at, cur, calls, isLocked>>
work == <<wat, lock, pindexMined, conflicts, retryTxs>>
vars == <<chain, db, trk, voted, sync, work, restarts>>

-----------------------------------------------------------------------------
(* Transactions that are not locked.  A record: entry, the keys of         *)
(* nonLockedTxs; known, those whose info.tx is set; children and mined,    *)
(* the other fields of NonLockedTxInfo; byInputs, nonLockedTxsByInputs;    *)
(* retry, pendingRetryTxs.                                                 *)

Parents(t) == {o[1] : o \in Spends[t]}

NoTxs == [entry |-> {}, known |-> {}, children |-> [h \in Source |-> {}],
          mined |-> [t \in Tx |-> None], byInputs |-> {}, retry |-> {}]

\* AddNonLockedTx, and the block that SyncTransaction then notes.  The inputs
\* are indexed only when the entry itself is new, not when it was there as
\* the parent of another transaction.
AddNonLockedTx(r, t, b) ==
  LET new == t \notin r.known
  IN [entry |-> r.entry \cup {t} \cup (IF new THEN Parents(t) ELSE {}),
      known |-> r.known \cup {t},
      children |-> [h \in Source |->
         IF new /\ h \in Parents(t) THEN r.children[h] \cup {t} ELSE r.children[h]],
      mined |-> [r.mined EXCEPT ![t] = b],
      byInputs |-> r.byInputs \cup (IF t \in r.entry THEN {} ELSE {<<o, t>> : o \in Spends[t]}),
      retry |-> r.retry]

\* Mutant: an entry that only stood for a parent stays behind.
RemoveNonLockedTxsKeep(r, S, retryChildren) ==
  LET K == S \cap r.known
  IN [r EXCEPT
        !.entry = @ \ S,
        !.known = @ \ K,
        !.children = [h \in Source |-> IF h \in S THEN {} ELSE @[h] \ K],
        !.mined = [t \in Tx |-> IF t \in S THEN None ELSE @[t]],
        !.byInputs = {e \in @ : \A t \in K : e[1] \notin Spends[t]}]

\* RemoveNonLockedTx for every element of S.  A parent's entry goes with its
\* last child if it has no transaction; of nonLockedTxsByInputs everything
\* goes that spends an input of a removed transaction.  Of the orders of S, a
\* parent before its child: it only adds to retry what is not tracked any more.
RemoveNonLockedTxs(r, S, retryChildren) ==
  LET K == S \cap r.known
      kids == [h \in Source |-> r.children[h] \ K]
      gone == S \cup {h \in r.entry \ r.known : kids[h] = {} /\ r.children[h] # {}}
  IN [entry |-> r.entry \ gone,
      known |-> r.known \ K,
      children |-> [h \in Source |-> IF h \in gone THEN {} ELSE kids[h]],
      mined |-> [t \in Tx |-> IF t \in S THEN None ELSE r.mined[t]],
      byInputs |-> {e \in r.byInputs : \A t \in K : e[1] \notin Spends[t]},
      retry |-> IF retryChildren
                  THEN r.retry \cup UNION {r.children[h] : h \in S \cap r.entry} ELSE r.retry]

RemoveNonLockedTx(r, t, retryChildren) == RemoveNonLockedTxs(r, {t}, retryChildren)

\* RemoveConflictedTx.  The request id it erases from inputRequestIds is the
\* hash of a CTxIn, which is no input's.
RemoveConflictedTxs(r, S) == RemoveNonLockedTxs(r, S, FALSE)

-----------------------------------------------------------------------------
(* The database of ISLOCKs, and what the manager reads from it.            *)

IsLocked(h) == h \in Tx /\ isTx[h] # None

\* GetConflictingLock: the locks on inputs of t that lock another transaction.
ConflictingLocks(t) == {l \in isI : TxidOf[l] # t /\ \E o \in Spends[t] : isIn[o] = l}

WriteNewInstantSendLock(l) ==
  /\ isI' = isI \cup {l}
  /\ isTx' = [isTx EXCEPT ![TxidOf[l]] = l]
  /\ isIn' = [o \in Outpoint |-> IF o \in Inputs(l) THEN l ELSE isIn[o]]

\* Mutant: the keys of the inputs are forgotten.
RemoveInstantSendLocksInputs(S) ==
  /\ isI' = isI \ S
  /\ isTx' = [t \in Tx |-> IF \E l \in S \cap isI : TxidOf[l] = t THEN None ELSE isTx[t]]
  /\ isIn' = isIn

\* RemoveInstantSendLock for every element of S.
RemoveInstantSendLocks(S) ==
  /\ isI' = isI \ S
  /\ isTx' = [t \in Tx |-> IF \E l \in S \cap isI : TxidOf[l] = t THEN None ELSE isTx[t]]
  /\ isIn' = [o \in Outpoint |-> IF \E l \in S \cap isI : o \in Inputs(l) THEN None ELSE isIn[o]]

\* GetInstantSendLocksByParent, for every element of S.
ChildLocks(S) == {isIn[o] : o \in {q \in Outpoint : q[1] \in S}} \ {None}

\* Mutant: what builds on it is left.
ChainedAlone(l) == {l}

\* RemoveChainedInstantSendLocks: l and every lock of a transaction that
\* spends, directly or not, an output of l's.
Chained(l) ==
  LET locks[n \in Nat] ==
        IF n = 0 THEN {l} ELSE locks[n - 1] \cup ChildLocks({TxidOf[k] : k \in locks[n - 1]})
  IN {k \in isI \cup {l} : k \in locks[Cardinality(ISLock)]}

\* RemoveChainLockConflictingLock, for every lock of S; tip is the height
\* under which the hashes are archived.
RemoveChainLockConflictingLocks(S) ==
  LET gone == UNION {Chained(l) : l \in S}
  IN /\ RemoveInstantSendLocks(gone)
     /\ isA1' = isA1 \cup {<<Height[tip], l>> : l \in gone}
     /\ isA2' = isA2 \cup gone
     /\ UNCHANGED isM

HasChainLock(b) == clsig # None /\ b \in Chain[clsig]

\* RemoveConfirmedInstantSendLocks and RemoveArchivedInstantSendLocks: the
\* keys is_m up to height n, and the keys is_a1 that are too old at height n.
ConfirmedKeys(n) == {e \in isM : e[1] <= n}
ExpiredKeys(n, keys) == {e \in keys : n > ArchiveDepth /\ e[1] <= n - ArchiveDepth}

\* HandleFullyConfirmedBlock: confirmed ISLOCKs are removed and archived, and
\* the transactions that b locks are no longer tracked.
HandleFullyConfirmedBlock(b) ==
  LET M == ConfirmedKeys(Height[b])
      old == ExpiredKeys(Height[b], isA1 \cup M)
  IN /\ RemoveInstantSendLocks({e[2] : e \in M})
     /\ isM' = isM \ M
     /\ isA1' = (isA1 \cup M) \ old
     /\ isA2' = (isA2 \cup {e[2] : e \in M}) \ {e[2] : e \in old}
     /\ trk' = RemoveNonLockedTxs(trk, {t \in trk.known : trk.mined[t] \in Chain[b]}, TRUE)

-----------------------------------------------------------------------------
(* Mempool and chain, as far as validation.cpp reports them.               *)

Init ==
  /\ mempool = {} /\ tip = Genesis /\ failed = {}
  /\ txIndex = [t \in Tx |-> None]
  /\ clsig = None /\ notified = None
  /\ isI = {} /\ isTx = [t \in Tx |-> None] /\ isIn = [o \in Outpoint |-> None]
  /\ isM = {} /\ isA1 = {} /\ isA2 = {}
  /\ trk = NoTxs /\ voted = {}
  /\ at = "idle" /\ cur = None /\ calls = <<>> /\ isLocked = FALSE
  /\ wat = "idle" /\ lock = None /\ pindexMined = None
  /\ conflicts = {} /\ retryTxs = {}
  /\ restarts = 0

\* cs_main can be taken: neither a notification nor an InvalidateBlock is under way.
MainFree == at = "idle" /\ cur = None /\ calls = <<>> /\ Chain[tip] \cap failed = {}

Conflict(t, u) == t # u /\ Spends[t] \cap Spends[u] # {}
Mined == UNION {TxsOf(b) : b \in Chain[tip]}

\* S and everything in Tx that spends, directly or not, an output of S.
WithDescendants(S) ==
  LET txs[n \in Nat] ==
        IF n = 0 THEN S ELSE txs[n - 1] \cup {t \in Tx : Parents(t) \cap txs[n - 1] # {}}
  IN txs[Cardinality(Tx)]

Orders(S) == {s \in [1 .. Cardinality(S) -> S] : \A x \in S : \E i \in DOMAIN s : s[i] = x}
CallsFor(s, b, notInBlock) ==
  [i \in DOMAIN s |-> [tx |-> s[i], pindex |-> b, notInBlock |-> notInBlock]]

\* The checks of AcceptToMemoryPool.
AcceptToMemoryPool(t) ==
  /\ MainFree
  /\ t \notin mempool \cup Mined
  /\ Parents(t) \subseteq Coin \cup mempool \cup Mined
  /\ ConflictingLocks(t) = {}
  /\ \A u \in mempool \cup Mined : ~ Conflict(t, u)
  /\ at' = "accept" /\ cur' = t
  /\ UNCHANGED <<chain, db, trk, voted, calls, isLocked, work, restarts>>

\* The rest of it: the entry and the notification.
AddUnchecked ==
  /\ at = "accept"
  /\ mempool' = mempool \cup {cur}
  /\ calls' = CallsFor(<<cur>>, None, TRUE)
  /\ at' = "idle" /\ cur' = None
  /\ UNCHANGED <<tip, failed, txIndex, clsig, notified, db, trk, voted, isLocked, work, restarts>>

\* A block that ActivateBestChainStep may connect to the tip.
Connectable(b) ==
  /\ Chain[b] \ {b} = Chain[tip] /\ b \notin Chain[tip]
  /\ Chain[b] \cap failed = {}
  /\ clsig # None => b \in Chain[clsig] \/ clsig \in Chain[b]

\* The check of ConnectBlock: a block that conflicts with an ISLOCK is refused,
\* unless it is ChainLocked, which prunes the ISLOCKs.  (The code looks for one
\* ISLOCK per transaction and asserts that there was no other.)
ConnectBlock(b) ==
  LET locks == UNION {ConflictingLocks(t) : t \in TxsOf(b)}
  IN /\ MainFree
     /\ Connectable(b)
     /\ \/ /\ locks = {} \/ HasChainLock(b)
           /\ at' = "connect" /\ cur' = b
           /\ RemoveChainLockConflictingLocks(locks)
           /\ UNCHANGED failed
        \/ /\ locks # {} /\ ~ HasChainLock(b)
           /\ failed' = failed \cup {b}
           /\ UNCHANGED <<at, cur, db>>
     /\ UNCHANGED <<mempool, tip, txIndex, clsig, notified, trk, voted, calls, isLocked, work, restarts>>

\* The rest of ConnectTip: removeForBlock, and the notifications, conflicts
\* removed from the mempool (MemPoolConflictRemovalTracker) first.
ConnectTip ==
  LET txs == TxsOf(cur)
      removed == mempool \cap WithDescendants({u \in mempool : \E t \in txs : Conflict(t, u)})
  IN /\ at = "connect"
     /\ mempool' = mempool \ (txs \cup removed)
     /\ tip' = cur
     /\ txIndex' = [t \in Tx |-> IF t \in txs THEN cur ELSE txIndex[t]]
     /\ \E s \in Orders(removed) :
          calls' = CallsFor(s, None, TRUE) \o CallsFor(BlockTxs[cur], cur, FALSE)
     /\ at' = "idle" /\ cur' = None
     /\ UNCHANGED <<failed, clsig, notified, db, trk, voted, isLocked, work, restarts>>

\* Why the tip is left: InvalidateBlock, a ChainLock elsewhere, more work elsewhere.
Leaving ==
  \/ Chain[tip] \cap failed # {}
  \/ clsig # None /\ tip \notin Chain[clsig] /\ clsig \notin Chain[tip]
  \/ /\ ~ HasChainLock(tip)
     /\ \E b \in Block : /\ Height[b] > Height[tip] /\ tip \notin Chain[b]
                         /\ Chain[b] \cap failed = {}
                         /\ clsig # None => b \in Chain[clsig] \/ clsig \in Chain[b]

\* DisconnectTip: transactions go back to the mempool if AcceptToMemoryPool
\* takes them, which notifies; a refused one leaves with its descendants.
DisconnectTip ==
  LET refused == {t \in TxsOf(tip) : ConflictingLocks(t) # {} \/ \E u \in mempool : Conflict(t, u)}
      accepted == TxsOf(tip) \ WithDescendants(refused)
  IN /\ at = "idle" /\ cur = None /\ calls = <<>> /\ tip # Genesis
     /\ Leaving
     /\ mempool' = (mempool \cup accepted) \ WithDescendants(refused)
     /\ \E s \in Orders(accepted) : calls' = CallsFor(s, None, TRUE)
     /\ cur' = tip
     /\ UNCHANGED <<tip, failed, txIndex, clsig, notified, db, trk, voted, at, isLocked, work, restarts>>

\* The rest of it: UpdateTip, and every transaction of the block is notified
\* with the block before it.
DisconnectTipNotify(prev) ==
  /\ at = "idle" /\ cur # None /\ calls = <<>>
  /\ Chain[prev] = Chain[tip] \ {tip}
  /\ tip' = prev
  /\ calls' = CallsFor(BlockTxs[cur], prev, TRUE)
  /\ cur' = None
  /\ UNCHANGED <<mempool, failed, txIndex, clsig, notified, db, trk, voted, at, isLocked, work, restarts>>

-----------------------------------------------------------------------------
(* SyncTransaction, in three steps: what is known of the transaction (cs), *)
(* ProcessTx, and the tracking (cs).                                       *)

\* CheckCanLock: every parent is locked, or mined deep enough or ChainLocked.
CheckCanLock(t) ==
  \A h \in Parents(t) \cap Tx :
    \/ IsLocked(h)
    \/ /\ h \notin mempool /\ txIndex[h] # None
       /\ \/ Height[tip] - Height[txIndex[h]] + 1 >= Confirmations
          \/ HasChainLock(txIndex[h])

\* ProcessTx: vote on the inputs, unless one of them is locked by or was voted
\* for another transaction.
ProcessTx(t) ==
  IF ConflictingLocks(t) = {} /\ CheckCanLock(t) /\ \A u \in voted : ~ Conflict(t, u)
    THEN voted \cup {t} ELSE voted

SyncTransaction(c) ==
  LET isDisconnect == c.pindex # None /\ c.notInBlock
  IN /\ at = "idle"
     /\ \/ /\ isDisconnect /\ c.tx \notin mempool
           /\ trk' = RemoveConflictedTxs(trk, {c.tx})
           /\ calls' = Tail(calls)
           /\ UNCHANGED <<at, isLocked, isM>>
        \/ /\ ~ isDisconnect \/ c.tx \in mempool
           /\ isLocked' = IsLocked(c.tx)
           /\ isM' = CASE c.pindex = None \/ ~ IsLocked(c.tx) -> isM
                       [] isDisconnect -> isM \ {<<Height[c.pindex] + 1, isTx[c.tx]>>}
                       [] OTHER -> isM \cup {<<Height[c.pindex], isTx[c.tx]>>}
           /\ at' = "vote"
           /\ UNCHANGED <<trk, calls>>
     /\ UNCHANGED <<chain, isI, isTx, isIn, isA1, isA2, voted, cur, work, restarts>>

SyncVote(c) ==
  LET locked == isLocked \/ (c.pindex # None /\ HasChainLock(c.pindex))
  IN /\ at = "vote"
     /\ isLocked' = locked
     /\ voted' = IF locked THEN voted ELSE ProcessTx(c.tx)
     /\ at' = "track"
     /\ UNCHANGED <<chain, db, trk, cur, calls, work, restarts>>

\* Mutant: pindexMined is set on a disconnect too.
SyncTrackSetsMined(c) ==
  /\ at = "track"
  /\ trk' = IF isLocked THEN RemoveNonLockedTx(trk, c.tx, TRUE)
            ELSE AddNonLockedTx(trk, c.tx, c.pindex)
  /\ at' = "idle" /\ calls' = Tail(calls) /\ isLocked' = FALSE
  /\ UNCHANGED <<chain, db, voted, cur, work, restarts>>

SyncTrack(c) ==
  /\ at = "track"
  /\ trk' = IF isLocked THEN RemoveNonLockedTx(trk, c.tx, TRUE)
            ELSE AddNonLockedTx(trk, c.tx, IF c.notInBlock THEN None ELSE c.pindex)
  /\ at' = "idle" /\ calls' = Tail(calls) /\ isLocked' = FALSE
  /\ UNCHANGED <<chain, db, voted, cur, work, restarts>>

-----------------------------------------------------------------------------
(* The worker: ProcessInstantSendLock.                                     *)

\* An ISLOCK that is not stored (it may be archived: AlreadyHave is asked when
\* it is announced, not when it arrives): GetTransaction, and the ISLOCK is dropped if
\* the transaction is already ChainLocked.
ProcessInstantSendLock(l) ==
  LET t == TxidOf[l]
      b == IF t \in mempool THEN None ELSE txIndex[t]
  IN /\ wat = "idle" /\ MainFree
     /\ l \notin isI
     /\ b # None => ~ HasChainLock(b)
     /\ lock' = l /\ pindexMined' = b
     /\ wat' = "store"
     /\ UNCHANGED <<chain, db, trk, voted, sync, conflicts, retryTxs, restarts>>

\* Under cs: the keys, and the transaction is no longer tracked.
StoreLock ==
  /\ wat = "store"
  /\ WriteNewInstantSendLock(lock)
  /\ isM' = IF pindexMined = None THEN isM ELSE isM \cup {<<Height[pindexMined], lock>>}
  /\ trk' = RemoveNonLockedTx(trk, TxidOf[lock], TRUE)
  /\ wat' = "mempool" /\ pindexMined' = None
  /\ UNCHANGED <<chain, isA1, isA2, voted, sync, lock, conflicts, retryTxs, restarts>>

\* RemoveMempoolConflictsForLock, under mempool.cs ...
RemoveMempoolConflictsForLock ==
  LET toDelete == {u \in mempool : u # TxidOf[lock] /\ Spends[u] \cap Inputs(lock) # {}}
  IN /\ wat = "mempool"
     /\ mempool' = mempool \ WithDescendants(toDelete)
     /\ conflicts' = toDelete
     /\ wat' = "untrack"
     /\ UNCHANGED <<tip, failed, txIndex, clsig, notified, db, trk, voted, sync, lock, pindexMined, retryTxs, restarts>>

\* ... and under cs.
RemoveConflictedTx ==
  /\ wat = "untrack"
  /\ trk' = RemoveConflictedTxs(trk, conflicts)
  /\ conflicts' = {}
  /\ wat' = "collect"
  /\ UNCHANGED <<chain, db, voted, sync, lock, pindexMined, retryTxs, restarts>>

\* ResolveBlockConflicts: the tracked transactions that conflict, by block.
CollectConflicts ==
  LET txs == {t \in trk.known \ {TxidOf[lock]} : \E o \in Inputs(lock) : <<o, t>> \in trk.byInputs}
  IN /\ wat = "collect"
     /\ conflicts' = {<<trk.mined[t], t>> : t \in {u \in txs : trk.mined[u] # None}}
     /\ wat' = "resolve"
     /\ UNCHANGED <<chain, db, trk, voted, sync, lock, pindexMined, retryTxs, restarts>>

ResolveBlockConflicts ==
  /\ wat = "resolve"
  /\ wat' = CASE conflicts = {} -> "idle"
              [] \E e \in conflicts : HasChainLock(e[1]) -> "prune"
              [] OTHER -> "block"
  /\ lock' = IF conflicts = {} THEN None ELSE lock
  /\ UNCHANGED <<chain, db, trk, voted, sync, pindexMined, conflicts, retryTxs, restarts>>

PruneLock ==
  /\ wat = "prune" /\ MainFree
  /\ RemoveChainLockConflictingLocks({lock})
  /\ conflicts' = {} /\ wat' = "idle" /\ lock' = None
  /\ UNCHANGED <<chain, trk, voted, sync, pindexMined, retryTxs, restarts>>

\* One block of the loop: its conflicting transactions (cs), then InvalidateBlock.
UntrackMined(b) ==
  /\ wat = "block"
  /\ b \in {e[1] : e \in conflicts}
  /\ trk' = RemoveConflictedTxs(trk, {e[2] : e \in {f \in conflicts : f[1] = b}})
  /\ pindexMined' = b
  /\ wat' = "invalidate"
  /\ UNCHANGED <<chain, db, voted, sync, lock, conflicts, retryTxs, restarts>>

InvalidateBlock ==
  /\ wat = "invalidate" /\ MainFree
  /\ failed' = failed \cup {pindexMined}
  /\ conflicts' = {e \in conflicts : e[1] # pindexMined}
  /\ wat' = IF conflicts' = {} THEN "idle" ELSE "block"
  /\ lock' = IF conflicts' = {} THEN None ELSE lock
  /\ pindexMined' = None
  /\ UNCHANGED <<mempool, tip, txIndex, clsig, notified, db, trk, voted, sync, retryTxs, restarts>>

-----------------------------------------------------------------------------
(* The worker: ProcessPendingRetryLockTxs.                                 *)

TakeRetryTxs ==
  /\ wat = "idle" /\ trk.retry # {}
  /\ retryTxs' = trk.retry
  /\ trk' = [trk EXCEPT !.retry = {}]
  /\ wat' = "retry"
  /\ UNCHANGED <<chain, db, voted, sync, lock, pindexMined, conflicts, restarts>>

RetryTx(t) ==
  /\ wat = "retry" /\ MainFree
  /\ t \in retryTxs
  /\ voted' = IF t \in trk.known /\ ~ IsLocked(t) THEN ProcessTx(t) ELSE voted
  /\ retryTxs' = retryTxs \ {t}
  /\ wat' = IF retryTxs' = {} THEN "idle" ELSE "retry"
  /\ UNCHANGED <<chain, db, trk, sync, lock, pindexMined, conflicts, restarts>>

-----------------------------------------------------------------------------
(* ChainLocks and restarts.                                                *)

NewChainLock(b) ==
  /\ b \in Locked /\ b # clsig
  /\ clsig # None => clsig \in Chain[b]
  /\ clsig' = b
  /\ UNCHANGED <<mempool, tip, failed, txIndex, notified, db, trk, voted, sync, work, restarts>>

\* EnforceBestChainLock: the locked block is considered again if it failed.
ReconsiderBlock ==
  /\ MainFree
  /\ clsig # None /\ Chain[clsig] \cap failed # {}
  /\ failed' = {b \in failed : b \notin Chain[clsig] /\ clsig \notin Chain[b]}
  /\ UNCHANGED <<mempool, tip, txIndex, clsig, notified, db, trk, voted, sync, work, restarts>>

\* Its notification, outside cs_main.
NotifyChainLock ==
  /\ clsig # None /\ clsig # notified
  /\ clsig \in Chain[tip]
  /\ notified' = clsig
  /\ HandleFullyConfirmedBlock(clsig)
  /\ UNCHANGED <<mempool, tip, failed, txIndex, clsig, voted, sync, work, restarts>>

\* A clean stop and a start: the databases stay, what is in memory goes.  The
\* mempool's file is read back through AcceptToMemoryPool.
Restart ==
  /\ restarts < MaxRestarts
  /\ MainFree /\ wat = "idle"
  /\ mempool' = {} /\ clsig' = None /\ notified' = None
  /\ trk' = NoTxs
  /\ restarts' = restarts + 1
  /\ UNCHANGED <<tip, failed, txIndex, db, voted, sync, work>>

-----------------------------------------------------------------------------
ValidationStep ==
  \/ \E t \in Tx : AcceptToMemoryPool(t)
  \/ AddUnchecked
  \/ \E b \in Block : ConnectBlock(b)
  \/ ConnectTip
  \/ DisconnectTip
  \/ \E b \in Block : DisconnectTipNotify(b)
  \/ calls # <<>> /\ (SyncTransaction(Head(calls)) \/ SyncVote(Head(calls)) \/ SyncTrack(Head(calls)))

WorkStep ==
  \/ \E l \in ISLock : ProcessInstantSendLock(l)
  \/ StoreLock \/ RemoveMempoolConflictsForLock \/ RemoveConflictedTx
  \/ CollectConflicts \/ ResolveBlockConflicts \/ PruneLock
  \/ \E b \in Block : UntrackMined(b)
  \/ InvalidateBlock
  \/ TakeRetryTxs
  \/ \E t \in Tx : RetryTx(t)

Next ==
  \/ ValidationStep
  \/ WorkStep
  \/ \E b \in Block : NewChainLock(b)
  \/ ReconsiderBlock \/ NotifyChainLock \/ Restart

Spec == Init /\ [][Next]_vars

\* The same with the worker and the validation thread taking turns: neither
\* starts before the other has finished what it is doing.
TurnSpec ==
  Init /\ [][\/ ValidationStep /\ wat \in {"idle", "block"}
             \/ WorkStep /\ MainFree]_vars

-----------------------------------------------------------------------------
(* Properties.                                                             *)

ChainType ==
  /\ mempool \subseteq Tx /\ tip \in Block /\ failed \subseteq Block
  /\ txIndex \in [Tx -> Block \cup {None}]
  /\ clsig \in Block \cup {None} /\ notified \in Block \cup {None}
DbType ==
  /\ isI \subseteq ISLock
  /\ isTx \in [Tx -> ISLock \cup {None}] /\ isIn \in [Outpoint -> ISLock \cup {None}]
  /\ isM \subseteq Nat \X ISLock /\ isA1 \subseteq Nat \X ISLock /\ isA2 \subseteq ISLock
Tracker ==
  [entry : SUBSET Source, known : SUBSET Tx, children : [Source -> SUBSET Tx],
   mined : [Tx -> Block \cup {None}], byInputs : SUBSET (Outpoint \X Tx), retry : SUBSET Tx]
SyncType ==
  /\ at \in {"idle", "accept", "connect", "vote", "track"}
  /\ cur \in CASE at = "accept" -> Tx [] at = "connect" -> Block [] OTHER -> Block \cup {None}
  /\ calls \in Seq(Call) /\ isLocked \in BOOLEAN
WorkType ==
  /\ wat \in {"idle", "store", "mempool", "untrack", "collect", "resolve", "prune",
              "block", "invalidate", "retry"}
  /\ lock \in IF wat \in {"idle", "retry"} THEN {None} ELSE ISLock
  /\ pindexMined \in IF wat = "invalidate" THEN Block ELSE Block \cup {None}
  /\ conflicts \subseteq (IF wat = "untrack" THEN Tx ELSE Block \X Tx)
  /\ retryTxs \subseteq Tx

\* The types of all variables.  The worker's conflicts are transactions while
\* it clears the mempool, and mined ones with their blocks while it resolves
\* them (RemoveMempoolConflictsForLock, ResolveBlockConflicts).
TypeOK ==
  /\ ChainType /\ DbType /\ trk \in Tracker /\ voted \subseteq Tx
  /\ SyncType /\ WorkType /\ restarts \in 0 .. MaxRestarts

\* The keys of CInstantSendDb agree: a txid or an outpoint never leads to an
\* ISLOCK that was removed or that is about something else, and, when no two
\* ISLOCKs share a txid or an input, every stored ISLOCK is found by both.
LocksDisjoint ==
  \A k, l \in ISLock : k # l => TxidOf[k] # TxidOf[l] /\ Inputs(k) \cap Inputs(l) = {}
KeysAgree ==
  /\ \A t \in Tx : isTx[t] # None => isTx[t] \in isI /\ TxidOf[isTx[t]] = t
  /\ \A o \in Outpoint : isIn[o] # None => isIn[o] \in isI /\ o \in Inputs(isIn[o])
  /\ LocksDisjoint => \A l \in isI : isTx[TxidOf[l]] = l /\ \A o \in Inputs(l) : isIn[o] = l

\* The maps of non-locked transactions agree: a child is tracked itself and
\* spends its parent, an entry without a transaction has a child (nothing is
\* left behind), and the index by inputs names tracked transactions only.
TrackerSound ==
  /\ trk.known \subseteq trk.entry
  /\ \A h \in Source : \A t \in trk.children[h] : h \in trk.entry /\ t \in trk.known /\ h \in Parents(t)
  /\ \A h \in trk.entry : h \in trk.known \/ trk.children[h] # {}
  /\ \A e \in trk.byInputs : e[2] \in trk.known /\ e[1] \in Spends[e[2]]
  /\ \A t \in Tx : trk.mined[t] # None => t \in trk.known

\* When no notification is outstanding, the pindexMined of a tracked
\* transaction is a block of the active chain that contains it.
MinedPointersFresh ==
  MainFree => \A t \in Tx : trk.mined[t] # None =>
                trk.mined[t] \in Chain[tip] /\ t \in TxsOf(trk.mined[t])

\* An ISLOCK that is given up for a ChainLock takes with it every stored
\* ISLOCK whose transaction builds on the one it locked.
PrunedWithChildren ==
  [][\A l \in isI \ isI' :
       (\A e \in isM : e[2] = l => e \in isM') =>
         \A k \in isI' : TxidOf[k] \notin WithDescendants({TxidOf[l]})]_vars

\* When all threads are idle, no block of the active chain that is not
\* ChainLocked contains a transaction that conflicts with a stored ISLOCK:
\* ResolveBlockConflicts or ConnectBlock has seen to it.
MinedConflictResolved ==
  MainFree /\ wat = "idle" =>
    \A l \in isI : \A b \in Chain[tip] : \A t \in TxsOf(b) :
      t # TxidOf[l] /\ Spends[t] \cap Inputs(l) # {} => HasChainLock(b)
=============================================================================
