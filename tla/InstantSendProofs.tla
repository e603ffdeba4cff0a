------------------------- MODULE InstantSendProofs -------------------------
(***************************************************************************)
(* Proofs about InstantSend, for any transactions, blocks and ISLOCKs:     *)
(* the types, the keys of the database, the maps of transactions that are  *)
(* not locked, and the blocks noted for them.                              *)
(***************************************************************************)
EXTENDS InstantSend, FiniteSetTheorems, TLAPS

-----------------------------------------------------------------------------
(* What the operators on the maps of non-locked transactions preserve.     *)

\* TrackerSound, of any value of the maps.
Sound(r) ==
  /\ r.known \subseteq r.entry
  /\ \A h \in Source : \A t \in r.children[h] : h \in r.entry /\ t \in r.known /\ h \in Parents(t)
  /\ \A h \in r.entry : h \in r.known \/ r.children[h] # {}
  /\ \A e \in r.byInputs : e[2] \in r.known /\ e[1] \in Spends[e[2]]
  /\ \A t \in Tx : r.mined[t] # None => t \in r.known

\* The parents of a transaction are sources, its inputs outpoints.
LEMMA SpendsType == \A t \in Tx : Parents(t) \subseteq Source /\ Spends[t] \subseteq Outpoint
BY InstantSendAssumption DEF Parents, Source, Outpoint

\* AddNonLockedTx, with the block of the transaction, yields maps.
LEMMA AddType ==
  ASSUME NEW r \in Tracker, NEW t \in Tx, NEW b \in Block \cup {None}
  PROVE  AddNonLockedTx(r, t, b) \in Tracker
<1> DEFINE entry == r.entry \cup {t} \cup (IF t \in r.known THEN {} ELSE Parents(t))
           children == [h \in Source |-> IF t \notin r.known /\ h \in Parents(t)
                                           THEN r.children[h] \cup {t} ELSE r.children[h]]
           byInputs == r.byInputs \cup (IF t \in r.entry THEN {} ELSE {<<o, t>> : o \in Spends[t]})
<1>1. AddNonLockedTx(r, t, b)
        = [entry |-> entry, known |-> r.known \cup {t}, children |-> children,
           mined |-> [r.mined EXCEPT ![t] = b], byInputs |-> byInputs, retry |-> r.retry]
  BY Zenon DEF AddNonLockedTx, Tracker
<1>2. entry \in SUBSET Source
  BY SpendsType DEF Tracker, Source
<1>3. children \in [Source -> SUBSET Tx]
  BY DEF Tracker
<1>4. byInputs \in SUBSET (Outpoint \X Tx)
  BY SpendsType DEF Tracker
<1>5. [r.mined EXCEPT ![t] = b] \in [Tx -> Block \cup {None}] /\ r.known \cup {t} \in SUBSET Tx /\ r.retry \in SUBSET Tx
  BY DEF Tracker
<1> HIDE DEF entry, children, byInputs
<1> QED BY <1>1, <1>2, <1>3, <1>4, <1>5 DEF Tracker

\* AddNonLockedTx keeps the maps in agreement.
LEMMA AddSound ==
  ASSUME NEW r \in Tracker, NEW t \in Tx, NEW b \in Block \cup {None}, Sound(r)
  PROVE  Sound(AddNonLockedTx(r, t, b))
<1> DEFINE q == AddNonLockedTx(r, t, b)
<1>1. /\ q.entry = r.entry \cup {t} \cup (IF t \in r.known THEN {} ELSE Parents(t))
      /\ q.known = r.known \cup {t}
      /\ q.children = [h \in Source |-> IF t \notin r.known /\ h \in Parents(t)
                                          THEN r.children[h] \cup {t} ELSE r.children[h]]
      /\ q.byInputs = r.byInputs \cup (IF t \in r.entry THEN {} ELSE {<<o, t>> : o \in Spends[t]})
      /\ q.mined = [r.mined EXCEPT ![t] = b]
  BY DEF AddNonLockedTx, Tracker
<1> HIDE DEF q
<1>2. q.known \subseteq q.entry
  BY <1>1 DEF Sound
<1>3. \A h \in Source : \A u \in q.children[h] : h \in q.entry /\ u \in q.known /\ h \in Parents(u)
  BY <1>1 DEF Sound
<1>4. \A h \in q.entry : h \in q.known \/ q.children[h] # {}
  <2> SUFFICES ASSUME NEW h \in q.entry, h \notin q.known PROVE q.children[h] # {}
    OBVIOUS
  <2>1. h \in Source
    BY <1>1, SpendsType DEF Tracker
  <2>2. CASE h \in r.entry
    BY <1>1, <2>1, <2>2 DEF Sound
  <2>3. CASE h \notin r.entry
    BY <1>1, <2>1, <2>3
  <2> QED BY <2>2, <2>3
<1>5. \A e \in q.byInputs : e[2] \in q.known /\ e[1] \in Spends[e[2]]
  BY <1>1 DEF Sound
<1>6. \A u \in Tx : q.mined[u] # None => u \in q.known
  BY <1>1 DEF Sound, Tracker
<1> QED BY <1>2, <1>3, <1>4, <1>5, <1>6 DEF Sound, q

\* RemoveNonLockedTx yields maps.
LEMMA RemoveType ==
  ASSUME NEW r \in Tracker, NEW S, NEW retryChildren \in BOOLEAN
  PROVE  RemoveNonLockedTxs(r, S, retryChildren) \in Tracker
<1> DEFINE K == S \cap r.known
           kids == [h \in Source |-> r.children[h] \ K]
           gone == S \cup {h \in r.entry \ r.known : kids[h] = {} /\ r.children[h] # {}}
           children == [h \in Source |-> IF h \in gone THEN {} ELSE kids[h]]
           mined == [t \in Tx |-> IF t \in S THEN None ELSE r.mined[t]]
           byInputs == {e \in r.byInputs : \A t \in K : e[1] \notin Spends[t]}
           retry == IF retryChildren THEN r.retry \cup UNION {r.children[h] : h \in S \cap r.entry} ELSE r.retry
<1>1. RemoveNonLockedTxs(r, S, retryChildren)
        = [entry |-> r.entry \ gone, known |-> r.known \ K, children |-> children,
           mined |-> mined, byInputs |-> byInputs, retry |-> retry]
  BY DEF RemoveNonLockedTxs, Tracker
<1>2. children \in [Source -> SUBSET Tx] /\ mined \in [Tx -> Block \cup {None}]
  BY DEF Tracker
<1>3. r.entry \ gone \in SUBSET Source /\ r.known \ K \in SUBSET Tx /\ byInputs \in SUBSET (Outpoint \X Tx)
  BY DEF Tracker
<1>4. retry \in SUBSET Tx
  BY DEF Tracker
<1> HIDE DEF gone, children, mined, byInputs, retry, K
<1> QED BY <1>1, <1>2, <1>3, <1>4 DEF Tracker

\* RemoveNonLockedTx keeps the maps in agreement: whatever named a removed
\* transaction is gone with it.
LEMMA RemoveSound ==
  ASSUME NEW r \in Tracker, NEW S, NEW retryChildren \in BOOLEAN, Sound(r)
  PROVE  Sound(RemoveNonLockedTxs(r, S, retryChildren))
<1> DEFINE q == RemoveNonLockedTxs(r, S, retryChildren)
           K == S \cap r.known
           gone == S \cup {h \in r.entry \ r.known : r.children[h] \ K = {} /\ r.children[h] # {}}
<1>0. \A h \in r.entry : h \in Source
  BY Zenon DEF Tracker
<1>1. /\ q.entry = r.entry \ gone
      /\ q.known = r.known \ K
      /\ q.children = [h \in Source |-> IF h \in gone THEN {} ELSE r.children[h] \ K]
      /\ q.byInputs = {e \in r.byInputs : \A t \in K : e[1] \notin Spends[t]}
      /\ q.mined = [t \in Tx |-> IF t \in S THEN None ELSE r.mined[t]]
  BY Zenon, <1>0 DEF RemoveNonLockedTxs, Tracker
<1> HIDE DEF q
<1>2. q.known \subseteq q.entry
  BY <1>1 DEF Sound
<1>3. \A h \in Source : \A u \in q.children[h] : h \in q.entry /\ u \in q.known /\ h \in Parents(u)
  BY <1>1 DEF Sound
<1>4. \A h \in q.entry : h \in q.known \/ q.children[h] # {}
  BY <1>0, <1>1 DEF Sound
<1>5. \A e \in q.byInputs : e[2] \in q.known /\ e[1] \in Spends[e[2]]
  BY <1>1 DEF Sound
<1>6. \A u \in Tx : q.mined[u] # None => u \in q.known
  BY <1>1 DEF Sound, Tracker
<1> QED BY <1>2, <1>3, <1>4, <1>5, <1>6 DEF Sound, q

-----------------------------------------------------------------------------
(* Types.                                                                  *)

\* A sequence of notifications.
LEMMA CallsType ==
  ASSUME NEW s \in Seq(Tx), NEW b \in Block \cup {None}, NEW x \in BOOLEAN
  PROVE  CallsFor(s, b, x) \in Seq(Call)
<1>1. CallsFor(s, b, x) = [i \in 1 .. Len(s) |-> [tx |-> s[i], pindex |-> b, notInBlock |-> x]]
  BY DEF CallsFor
<1>2. \A i \in 1 .. Len(s) : [tx |-> s[i], pindex |-> b, notInBlock |-> x] \in Call
  BY DEF Call
<1> QED BY <1>1, <1>2, Len(s) \in Nat

\* An order of a set of transactions is a sequence.
LEMMA OrdersType ==
  ASSUME NEW S \in SUBSET Tx, NEW s \in Orders(S)
  PROVE  s \in Seq(Tx)
<1>1. Cardinality(S) \in Nat
  BY InstantSendAssumption, FS_Subset, FS_CardinalityType
<1>2. s \in [1 .. Cardinality(S) -> Tx]
  BY DEF Orders
<1> QED BY <1>1, <1>2

\* RemoveInstantSendLock yields keys.
LEMMA RemoveLocksType ==
  ASSUME DbType, NEW S, RemoveInstantSendLocks(S)
  PROVE  /\ isI' \subseteq ISLock
         /\ isTx' \in [Tx -> ISLock \cup {None}] /\ isIn' \in [Outpoint -> ISLock \cup {None}]
<1>1. isI' \subseteq ISLock
  BY DEF DbType, RemoveInstantSendLocks
<1>2. isTx' \in [Tx -> ISLock \cup {None}]
  BY DEF DbType, RemoveInstantSendLocks
<1>3. isIn' \in [Outpoint -> ISLock \cup {None}]
  BY DEF DbType, RemoveInstantSendLocks
<1> QED BY <1>1, <1>2, <1>3

\* RemoveChainLockConflictingLock yields keys.
LEMMA PruneType ==
  ASSUME DbType, tip \in Block, NEW S \in SUBSET ISLock, RemoveChainLockConflictingLocks(S)
  PROVE  DbType'
<1> DEFINE gone == UNION {Chained(l) : l \in S}
<1>1. \A l \in S : Chained(l) \subseteq ISLock
  BY DEF Chained, DbType
<1>2. gone \subseteq ISLock
  BY <1>1
<1>3. /\ RemoveInstantSendLocks(gone)
      /\ isA1' = isA1 \cup {<<Height[tip], l>> : l \in gone}
      /\ isA2' = isA2 \cup gone
      /\ isM' = isM
  BY DEF RemoveChainLockConflictingLocks
<1> HIDE DEF gone
<1>4. Height[tip] \in Nat
  BY InstantSendAssumption
<1>5. isA1' \subseteq Nat \X ISLock
  BY <1>2, <1>3, <1>4 DEF DbType
<1>6. isA2' \subseteq ISLock /\ isM' \subseteq Nat \X ISLock
  BY Zenon, <1>2, <1>3 DEF DbType
<1> QED BY <1>3, <1>5, <1>6, RemoveLocksType DEF DbType

\* HandleFullyConfirmedBlock yields keys and maps.
LEMMA ConfirmType ==
  ASSUME DbType, trk \in Tracker, NEW b \in Block, HandleFullyConfirmedBlock(b)
  PROVE  DbType' /\ trk' \in Tracker
<1> DEFINE M == ConfirmedKeys(Height[b])
<1>0. M \subseteq isM
  BY DEF ConfirmedKeys
<1>1. RemoveInstantSendLocks({e[2] : e \in M})
  BY DEF HandleFullyConfirmedBlock
<1>2. isM' \subseteq isM /\ isA1' \subseteq isA1 \cup isM /\ isA2' \subseteq isA2 \cup {e[2] : e \in isM}
  BY <1>0 DEF HandleFullyConfirmedBlock
<1>3. trk' \in Tracker
  BY Zenon, RemoveType DEF HandleFullyConfirmedBlock
<1> QED BY <1>1, <1>2, <1>3, RemoveLocksType DEF DbType

\* Every step of the validation thread keeps the types.
LEMMA ValidationTypes == TypeOK /\ ValidationStep => TypeOK'
<1> SUFFICES ASSUME TypeOK, ValidationStep PROVE TypeOK'
  OBVIOUS
<1> USE DEF TypeOK
<1>1. ASSUME NEW t \in Tx, AcceptToMemoryPool(t) PROVE TypeOK'
  BY <1>1 DEF AcceptToMemoryPool, ChainType, DbType, SyncType, WorkType,
     chain, db, work
<1>2. CASE AddUnchecked
  <2>1. cur \in Tx
    BY <1>2 DEF AddUnchecked, SyncType
  <2>2. calls' \in Seq(Call)
    <3>1. <<cur>> \in Seq(Tx) /\ None \in Block \cup {None} /\ TRUE \in BOOLEAN
      BY <2>1
    <3>2. CallsFor(<<cur>>, None, TRUE) \in Seq(Call)
      BY Zenon, <3>1, CallsType
    <3> QED BY Zenon, <1>2, <3>2 DEF AddUnchecked
  <2> QED BY Zenon, <1>2, <2>1, <2>2 DEF AddUnchecked, ChainType, DbType,
             SyncType, WorkType, db, work
<1>3. ASSUME NEW b \in Block, ConnectBlock(b) PROVE TypeOK'
  <2>1. DbType'
    <3>1. CASE RemoveChainLockConflictingLocks(UNION {ConflictingLocks(t) : t \in TxsOf(b)})
      <4>1. UNION {ConflictingLocks(t) : t \in TxsOf(b)} \in SUBSET ISLock
        BY DEF ConflictingLocks, DbType
      <4> QED BY <3>1, <4>1, PruneType DEF ChainType
    <3>2. CASE UNCHANGED db
      BY <3>2 DEF db, DbType
    <3> QED BY <1>3, <3>1, <3>2 DEF ConnectBlock
  <2>2. ChainType'
    BY <1>3 DEF ConnectBlock, ChainType
  <2>3. SyncType'
    <3>1. CASE at' = "connect" /\ cur' = b
      BY <1>3, <3>1 DEF ConnectBlock, SyncType
    <3>2. CASE UNCHANGED <<at, cur>>
      BY Zenon, <1>3, <3>2 DEF ConnectBlock, SyncType
    <3> QED BY <1>3, <3>1, <3>2 DEF ConnectBlock
  <2> QED BY Zenon, <1>3, <2>1, <2>2, <2>3 DEF ConnectBlock, WorkType, work
<1>4. CASE ConnectTip
  <2>1. cur \in Block /\ BlockTxs[cur] \in Seq(Tx)
    BY Zenon, <1>4, InstantSendAssumption DEF ConnectTip, SyncType
  <2>2. PICK R \in SUBSET Tx : \E s \in Orders(R) :
           calls' = CallsFor(s, None, TRUE) \o CallsFor(BlockTxs[cur], cur, FALSE)
    BY Zenon, <1>4 DEF ConnectTip, ChainType
  <2>3. calls' \in Seq(Call)
    <3>1. PICK s \in Orders(R) :
             calls' = CallsFor(s, None, TRUE) \o CallsFor(BlockTxs[cur], cur, FALSE)
      BY Zenon, <2>2
    <3>2. s \in Seq(Tx)
      BY OrdersType
    <3>3. CallsFor(s, None, TRUE) \in Seq(Call)
      BY Zenon, <3>2, CallsType
    <3>4. CallsFor(BlockTxs[cur], cur, FALSE) \in Seq(Call)
      BY Zenon, <2>1, CallsType
    <3>5. ASSUME NEW x \in Seq(Call), NEW y \in Seq(Call) PROVE x \o y \in Seq(Call)
      OBVIOUS
    <3> QED BY Zenon, <3>1, <3>3, <3>4, <3>5
  <2>4. ChainType' /\ SyncType'
    BY Zenon, <1>4, <2>1, <2>3 DEF ConnectTip, ChainType, SyncType
  <2> QED BY <1>4, <2>4 DEF ConnectTip, DbType, WorkType, db, work
<1>5. CASE DisconnectTip
  <2>1. BlockTxs[tip] \in Seq(Tx) /\ TxsOf(tip) \subseteq Tx
    BY InstantSendAssumption DEF ChainType, TxsOf
  <2>2. PICK R \in SUBSET Tx : \E s \in Orders(R) : calls' = CallsFor(s, None, TRUE)
    <3> DEFINE refused == {t \in TxsOf(tip) : ConflictingLocks(t) # {} \/ \E u \in mempool : Conflict(t, u)}
    <3>1. TxsOf(tip) \ WithDescendants(refused) \in SUBSET Tx
      BY <2>1
    <3> QED BY Zenon, <1>5, <3>1 DEF DisconnectTip
  <2>3. calls' \in Seq(Call)
    BY Zenon, <2>2, OrdersType, CallsType
  <2>4. ChainType' /\ SyncType'
    BY Zenon, <1>5, <2>1, <2>3 DEF DisconnectTip, ChainType, SyncType
  <2> QED BY <1>5, <2>4 DEF DisconnectTip, DbType, WorkType, db, work
<1>6. ASSUME NEW b \in Block, DisconnectTipNotify(b) PROVE TypeOK'
  <2>1. cur \in Block /\ BlockTxs[cur] \in Seq(Tx)
    BY <1>6, InstantSendAssumption DEF DisconnectTipNotify, SyncType
  <2>2. calls' \in Seq(Call)
    BY Zenon, <1>6, <2>1, CallsType DEF DisconnectTipNotify
  <2> QED BY Zenon, <1>6, <2>2 DEF DisconnectTipNotify, ChainType, DbType,
             SyncType, WorkType, db, work
<1>7. ASSUME calls # <<>>, SyncTransaction(Head(calls)) PROVE TypeOK'
  <2> DEFINE c == Head(calls)
  <2>1. c \in Call /\ Tail(calls) \in Seq(Call)
    BY <1>7 DEF SyncType
  <2> HIDE DEF c
  <2>2. trk' \in Tracker
    BY Zenon, <1>7, <2>1, RemoveType DEF SyncTransaction, RemoveConflictedTxs,
       c
  <2>3. SyncType'
    BY Zenon, <1>7, <2>1 DEF SyncTransaction, SyncType, IsLocked, c
  <2>4. isM' \subseteq Nat \X ISLock
    <3>1. CASE isM' = isM
      BY <3>1 DEF DbType
    <3>2. CASE isM' = isM \ {<<Height[c.pindex] + 1, isTx[c.tx]>>}
      BY <3>2 DEF DbType
    <3>3. CASE c.pindex # None /\ IsLocked(c.tx) /\ isM' = isM \cup {<<Height[c.pindex], isTx[c.tx]>>}
      <4>1. Height[c.pindex] \in Nat /\ isTx[c.tx] \in ISLock
        BY <2>1, <3>3, InstantSendAssumption DEF Call, IsLocked, DbType
      <4> QED BY <3>3, <4>1 DEF DbType
    <3> QED BY <1>7, <3>1, <3>2, <3>3 DEF SyncTransaction, c
  <2> QED BY <1>7, <2>2, <2>3, <2>4 DEF SyncTransaction, ChainType, DbType,
             WorkType, chain, work
<1>8. ASSUME calls # <<>>, SyncVote(Head(calls)) PROVE TypeOK'
  <2>1. Head(calls) \in Call
    BY <1>8 DEF SyncType
  <2>2. voted' \subseteq Tx /\ isLocked' \in BOOLEAN
    BY <1>8, <2>1 DEF SyncVote, ProcessTx, SyncType, HasChainLock, Call
  <2> QED BY <1>8, <2>2 DEF SyncVote, ChainType, DbType, SyncType, WorkType,
             chain, db, work
<1>9. ASSUME calls # <<>>, SyncTrack(Head(calls)) PROVE TypeOK'
  <2>1. Head(calls) \in Call /\ Tail(calls) \in Seq(Call)
    BY <1>9 DEF SyncType
  <2>2. trk' \in Tracker
    BY Zenon, <1>9, <2>1, RemoveType, AddType DEF SyncTrack,
       RemoveNonLockedTx, Call
  <2> QED BY Zenon, <1>9, <2>1, <2>2 DEF SyncTrack, ChainType, DbType,
             SyncType, WorkType, chain, db, work
<1> QED BY Zenon, <1>1, <1>2, <1>3, <1>4, <1>5, <1>6, <1>7, <1>8, <1>9
           DEF ValidationStep

\* Every step of the worker keeps the types.
LEMMA WorkTypes == TypeOK /\ WorkStep => TypeOK'
<1> SUFFICES ASSUME TypeOK, WorkStep PROVE TypeOK'
  OBVIOUS
<1> USE DEF TypeOK
<1>1. ASSUME NEW l \in ISLock, ProcessInstantSendLock(l) PROVE TypeOK'
  <2>1. (IF TxidOf[l] \in mempool THEN None ELSE txIndex[TxidOf[l]]) \in Block \cup {None}
    BY InstantSendAssumption DEF ChainType
  <2> QED BY Zenon, <1>1, <2>1 DEF ProcessInstantSendLock, ChainType, DbType,
             SyncType, WorkType, chain, db, sync
<1>2. CASE StoreLock
  <2>1. lock \in ISLock /\ pindexMined \in Block \cup {None}
    BY <1>2 DEF StoreLock, WorkType
  <2>2. isI' \subseteq ISLock
    BY Zenon, <1>2, <2>1 DEF StoreLock, WriteNewInstantSendLock, DbType
  <2>3. isTx' \in [Tx -> ISLock \cup {None}]
    BY Zenon, <1>2, <2>1 DEF StoreLock, WriteNewInstantSendLock, DbType
  <2>4. isIn' \in [Outpoint -> ISLock \cup {None}]
    BY Zenon, <1>2, <2>1 DEF StoreLock, WriteNewInstantSendLock, DbType
  <2>5. isM' \subseteq Nat \X ISLock
    BY <1>2, <2>1, InstantSendAssumption DEF StoreLock, DbType
  <2>6. trk' \in Tracker
    BY Zenon, <1>2, RemoveType DEF StoreLock, RemoveNonLockedTx
  <2> QED BY Zenon, <1>2, <2>1, <2>2, <2>3, <2>4, <2>5, <2>6 DEF StoreLock,
             ChainType, DbType, SyncType, WorkType, chain, sync
<1>3. CASE RemoveMempoolConflictsForLock
  BY <1>3 DEF RemoveMempoolConflictsForLock, ChainType, DbType, SyncType,
     WorkType, db, sync
<1>4. CASE RemoveConflictedTx
  <2>1. trk' \in Tracker
    BY Zenon, <1>4, RemoveType DEF RemoveConflictedTx, RemoveConflictedTxs
  <2> QED BY <1>4, <2>1 DEF RemoveConflictedTx, ChainType, DbType, SyncType,
             WorkType, chain, db, sync
<1>5. CASE CollectConflicts
  <2>1. conflicts' \subseteq Block \X Tx
    BY <1>5 DEF CollectConflicts, Tracker
  <2> QED BY Zenon, <1>5, <2>1 DEF CollectConflicts, ChainType, DbType,
             SyncType, WorkType, chain, db, sync
<1>6. CASE ResolveBlockConflicts
  BY <1>6 DEF ResolveBlockConflicts, ChainType, DbType, SyncType, WorkType,
     chain, db, sync
<1>7. CASE PruneLock
  <2>1. lock \in ISLock
    BY <1>7 DEF PruneLock, WorkType
  <2>2. DbType'
    BY <1>7, <2>1, PruneType DEF PruneLock, ChainType
  <2> QED BY <1>7, <2>2 DEF PruneLock, ChainType, SyncType, WorkType, chain,
             sync
<1>8. ASSUME NEW b \in Block, UntrackMined(b) PROVE TypeOK'
  <2>1. trk' \in Tracker
    BY Zenon, <1>8, RemoveType DEF UntrackMined, RemoveConflictedTxs
  <2> QED BY Zenon, <1>8, <2>1 DEF UntrackMined, ChainType, DbType, SyncType,
             WorkType, chain, db, sync
<1>9. CASE InvalidateBlock
  BY <1>9 DEF InvalidateBlock, ChainType, DbType, SyncType, WorkType, db, sync
<1>10. CASE TakeRetryTxs
  <2>1. trk' \in Tracker /\ retryTxs' \subseteq Tx
    BY <1>10 DEF TakeRetryTxs, Tracker
  <2> QED BY <1>10, <2>1 DEF TakeRetryTxs, ChainType, DbType, SyncType,
             WorkType, chain, db, sync
<1>11. ASSUME NEW t \in Tx, RetryTx(t) PROVE TypeOK'
  BY <1>11 DEF RetryTx, ProcessTx, ChainType, DbType, SyncType, WorkType,
     chain, db, sync
<1> QED BY Zenon, <1>1, <1>2, <1>3, <1>4, <1>5, <1>6, <1>7, <1>8, <1>9, <1>10,
           <1>11 DEF WorkStep

\* The types hold for any transactions, blocks and ISLOCKs.
THEOREM TypeCorrect == Spec => []TypeOK
<1>1. Init => TypeOK
  <2> SUFFICES ASSUME Init PROVE TypeOK
    OBVIOUS
  <2>1. trk \in Tracker
    BY DEF Init, NoTxs, Tracker
  <2>2. calls \in Seq(Call)
    BY DEF Init
  <2>3. ChainType
    BY Zenon, InstantSendAssumption DEF Init, ChainType
  <2>4. DbType
    BY DEF Init, DbType
  <2>5. SyncType /\ WorkType
    BY Zenon, <2>2 DEF Init, SyncType, WorkType
  <2>6. voted \subseteq Tx /\ restarts \in 0 .. MaxRestarts
    BY InstantSendAssumption DEF Init
  <2> QED BY <2>1, <2>3, <2>4, <2>5, <2>6 DEF TypeOK
<1>2. TypeOK /\ [Next]_vars => TypeOK'
  <2> SUFFICES ASSUME TypeOK, [Next]_vars PROVE TypeOK'
    OBVIOUS
  <2>1. CASE ValidationStep
    BY <2>1, ValidationTypes
  <2>2. CASE WorkStep
    BY <2>2, WorkTypes
  <2>3. ASSUME NEW b \in Block, NewChainLock(b) PROVE TypeOK'
    BY <2>3 DEF NewChainLock, TypeOK, ChainType, DbType, SyncType, WorkType,
       db, sync, work
  <2>4. CASE ReconsiderBlock
    BY <2>4 DEF ReconsiderBlock, TypeOK, ChainType, DbType, SyncType,
       WorkType, db, sync, work
  <2>5. CASE NotifyChainLock
    <3>1. clsig \in Block
      BY Zenon, <2>5 DEF NotifyChainLock, TypeOK, ChainType
    <3>2. DbType' /\ trk' \in Tracker
      BY <2>5, <3>1, ConfirmType DEF NotifyChainLock, TypeOK
    <3> QED BY Zenon, <2>5, <3>1, <3>2 DEF NotifyChainLock, TypeOK, ChainType,
               SyncType, WorkType, sync, work
  <2>6. CASE Restart
    <3>1. trk' \in Tracker
      BY Zenon, <2>6 DEF Restart, NoTxs, Tracker
    <3>2. restarts' \in 0 .. MaxRestarts
      BY <2>6, InstantSendAssumption DEF Restart, TypeOK
    <3> QED BY Zenon, <2>6, <3>1, <3>2 DEF Restart, TypeOK, ChainType, DbType,
               SyncType, WorkType, db, sync, work
  <2>7. CASE UNCHANGED vars
    BY Zenon, <2>7 DEF vars, chain, db, sync, work, TypeOK, ChainType, DbType,
       SyncType, WorkType
  <2> QED BY <2>1, <2>2, <2>3, <2>4, <2>5, <2>6, <2>7 DEF Next
<1> QED BY <1>1, <1>2, PTL DEF Spec

-----------------------------------------------------------------------------
(* The keys of the database.                                               *)

\* WriteNewInstantSendLock keeps the keys in agreement.
LEMMA WriteKeys ==
  ASSUME DbType, KeysAgree, NEW l \in ISLock, WriteNewInstantSendLock(l)
  PROVE  KeysAgree'
<1>1. TxidOf[l] \in Tx /\ Inputs(l) \subseteq Outpoint
  BY Zenon, SpendsType, InstantSendAssumption DEF Inputs
<1>2. \A t \in Tx : isTx'[t] # None => isTx'[t] \in isI' /\ TxidOf[isTx'[t]] = t
  BY ZenonT(40), <1>1 DEF WriteNewInstantSendLock, DbType, KeysAgree
<1>3. \A o \in Outpoint : isIn'[o] # None => isIn'[o] \in isI' /\ o \in Inputs(isIn'[o])
  BY Zenon, <1>1 DEF WriteNewInstantSendLock, DbType, KeysAgree
<1>4. ASSUME LocksDisjoint, NEW k \in isI'
      PROVE  isTx'[TxidOf[k]] = k /\ \A o \in Inputs(k) : isIn'[o] = k
  <2>1. k \in ISLock /\ TxidOf[k] \in Tx /\ Inputs(k) \subseteq Outpoint
    BY SpendsType, InstantSendAssumption DEF Inputs, WriteNewInstantSendLock,
       DbType
  <2>2. CASE k = l
    BY <2>1, <2>2 DEF WriteNewInstantSendLock, DbType
  <2>3. CASE k # l
    <3>1. TxidOf[k] # TxidOf[l] /\ Inputs(k) \cap Inputs(l) = {}
      BY Zenon, <1>4, <2>1, <2>3 DEF LocksDisjoint
    <3>2. isTx[TxidOf[k]] = k /\ \A o \in Inputs(k) : isIn[o] = k
      BY <1>4, <2>3 DEF KeysAgree, WriteNewInstantSendLock
    <3> QED BY <2>1, <3>1, <3>2 DEF WriteNewInstantSendLock, DbType
  <2> QED BY Zenon, <2>2, <2>3
<1>5. LocksDisjoint' = LocksDisjoint
  BY Zenon DEF LocksDisjoint, Inputs
<1> QED BY <1>2, <1>3, <1>4, <1>5 DEF KeysAgree, Inputs

\* RemoveInstantSendLock keeps the keys in agreement, whatever is removed.
LEMMA RemoveKeys ==
  ASSUME DbType, KeysAgree, NEW S, RemoveInstantSendLocks(S)
  PROVE  KeysAgree'
<1>1. \A t \in Tx : isTx'[t] # None => isTx'[t] \in isI' /\ TxidOf[isTx'[t]] = t
  BY Zenon DEF RemoveInstantSendLocks, DbType, KeysAgree
<1>2. \A o \in Outpoint : isIn'[o] # None => isIn'[o] \in isI' /\ o \in Inputs(isIn'[o])
  BY Zenon DEF RemoveInstantSendLocks, DbType, KeysAgree
<1>3. ASSUME LocksDisjoint, NEW k \in isI'
      PROVE  isTx'[TxidOf[k]] = k /\ \A o \in Inputs(k) : isIn'[o] = k
  <2>1. k \in isI /\ k \notin S /\ k \in ISLock /\ TxidOf[k] \in Tx /\ Inputs(k) \subseteq Outpoint
    BY Zenon, SpendsType, InstantSendAssumption DEF Inputs,
       RemoveInstantSendLocks, DbType
  <2>2. \A l \in S \cap isI : TxidOf[k] # TxidOf[l] /\ Inputs(k) \cap Inputs(l) = {}
    BY Zenon, <1>3, <2>1 DEF LocksDisjoint, DbType
  <2>3. isTx[TxidOf[k]] = k /\ \A o \in Inputs(k) : isIn[o] = k
    BY <1>3, <2>1 DEF KeysAgree
  <2> QED BY Zenon, <2>1, <2>2, <2>3 DEF RemoveInstantSendLocks
<1>4. LocksDisjoint' = LocksDisjoint
  BY DEF LocksDisjoint, Inputs
<1> QED BY Zenon, <1>1, <1>2, <1>3, <1>4 DEF KeysAgree, Inputs

\* In every reachable state the three kinds of keys of an ISLOCK agree: no
\* txid and no outpoint stays locked by an ISLOCK that was removed.
THEOREM Keys == Spec => []KeysAgree
<1>1. Init => KeysAgree
  BY Zenon DEF Init, KeysAgree
<1>2. TypeOK /\ KeysAgree /\ [Next]_vars => KeysAgree'
  <2> SUFFICES ASSUME TypeOK, KeysAgree, [Next]_vars PROVE KeysAgree'
    OBVIOUS
  <2>0. DbType
    BY Zenon DEF TypeOK
  <2>1. CASE UNCHANGED <<isI, isTx, isIn>>
    BY <2>1 DEF KeysAgree, LocksDisjoint, Inputs
  <2>2. ASSUME NEW b \in Block, ConnectBlock(b) PROVE KeysAgree'
    <3>1. UNCHANGED <<isI, isTx, isIn>> \/ \E S : RemoveInstantSendLocks(S)
      BY Zenon, <2>2 DEF ConnectBlock, RemoveChainLockConflictingLocks, db
    <3> QED BY Zenon, <2>0, <2>1, <3>1, RemoveKeys
  <2>3. CASE StoreLock
    BY <2>0, <2>3, WriteKeys DEF StoreLock, TypeOK, WorkType
  <2>4. CASE PruneLock
    BY Zenon, <2>0, <2>4, RemoveKeys DEF PruneLock,
       RemoveChainLockConflictingLocks
  <2>5. CASE NotifyChainLock
    BY Zenon, <2>0, <2>5, RemoveKeys DEF NotifyChainLock,
       HandleFullyConfirmedBlock
  <2>6. CASE ValidationStep
    BY Zenon, <2>1, <2>2, <2>6 DEF ValidationStep, AcceptToMemoryPool,
       AddUnchecked, ConnectTip, DisconnectTip,
       DisconnectTipNotify, SyncTransaction, SyncVote, SyncTrack, db
  <2>7. CASE WorkStep
    BY Zenon, <2>1, <2>3, <2>4, <2>7 DEF WorkStep, ProcessInstantSendLock,
       RemoveMempoolConflictsForLock, RemoveConflictedTx,
       CollectConflicts, ResolveBlockConflicts, UntrackMined, InvalidateBlock, TakeRetryTxs, RetryTx, db
  <2>8. CASE UNCHANGED vars
    BY Zenon, <2>1, <2>8 DEF vars, db
  <2> QED BY <2>1, <2>5, <2>6, <2>7, <2>8 DEF Next, NewChainLock,
             ReconsiderBlock, Restart, db
<1> QED BY <1>1, <1>2, TypeCorrect, PTL DEF Spec

-----------------------------------------------------------------------------
(* The maps of transactions that are not locked.                           *)

\* In every reachable state the maps agree: no child without its transaction,
\* no empty entry left behind, no index entry of a transaction not tracked.
THEOREM Tracked == Spec => []TrackerSound
<1>0. TrackerSound <=> Sound(trk)
  BY Zenon DEF TrackerSound, Sound
<1>1. Init => TrackerSound
  BY DEF Init, NoTxs, TrackerSound, Source
<1>2. TypeOK /\ TrackerSound /\ [Next]_vars => TrackerSound'
  <2> SUFFICES ASSUME TypeOK, TrackerSound, [Next]_vars PROVE TrackerSound'
    OBVIOUS
  <2>0. trk \in Tracker /\ Sound(trk)
    BY Zenon, <1>0 DEF TypeOK
  <2>1. TrackerSound' <=> Sound(trk')
    BY DEF TrackerSound, Sound
  <2>2. CASE UNCHANGED trk
    BY <2>0, <2>1, <2>2
  <2>3. CASE \E S : \E x \in BOOLEAN : trk' = RemoveNonLockedTxs(trk, S, x)
    BY <2>0, <2>1, <2>3, RemoveSound
  <2>4. ASSUME calls # <<>>, SyncTransaction(Head(calls)) PROVE TrackerSound'
    BY Zenon, <2>2, <2>3, <2>4 DEF SyncTransaction, RemoveConflictedTxs
  <2>5. ASSUME calls # <<>>, SyncTrack(Head(calls)) PROVE TrackerSound'
    <3>1. Head(calls) \in Call
      BY <2>5 DEF TypeOK, SyncType
    <3>2. \/ trk' = RemoveNonLockedTxs(trk, {Head(calls).tx}, TRUE)
          \/ \E t \in Tx : \E b \in Block \cup {None} : trk' = AddNonLockedTx(trk, t, b)
      BY Zenon, <2>5, <3>1 DEF SyncTrack, RemoveNonLockedTx, Call
    <3> QED BY Zenon, <2>0, <2>1, <2>3, <3>2, AddSound
  <2>6. CASE TakeRetryTxs
    <3>1. /\ trk'.entry = trk.entry /\ trk'.known = trk.known /\ trk'.children = trk.children
          /\ trk'.mined = trk.mined /\ trk'.byInputs = trk.byInputs
      BY Zenon, <2>0, <2>6 DEF TakeRetryTxs, Tracker
    <3> QED BY <2>0, <2>1, <3>1 DEF Sound
  <2>7. CASE Restart
    BY <2>7 DEF Restart, NoTxs, TrackerSound, Source
  <2>8. CASE ValidationStep
    BY Zenon, <2>2, <2>4, <2>5, <2>8 DEF ValidationStep, AcceptToMemoryPool,
       AddUnchecked, ConnectBlock, ConnectTip,
       DisconnectTip, DisconnectTipNotify, SyncVote
  <2>9. CASE WorkStep
    BY Zenon, <2>2, <2>3, <2>6, <2>9 DEF WorkStep, ProcessInstantSendLock,
       StoreLock, RemoveNonLockedTx,
       RemoveMempoolConflictsForLock, RemoveConflictedTx, RemoveConflictedTxs, CollectConflicts,
       ResolveBlockConflicts, PruneLock, UntrackMined, InvalidateBlock, RetryTx
  <2>10. CASE NotifyChainLock
    BY Zenon, <2>3, <2>10 DEF NotifyChainLock, HandleFullyConfirmedBlock
  <2>11. CASE UNCHANGED vars
    BY Zenon, <2>2, <2>11 DEF vars
  <2> QED BY <2>2, <2>7, <2>8, <2>9, <2>10, <2>11 DEF Next, NewChainLock,
             ReconsiderBlock
<1> QED BY <1>1, <1>2, TypeCorrect, PTL DEF Spec

-----------------------------------------------------------------------------
(* The blocks of transactions that are not locked.                         *)

\* A call that is still to be made will clear or set the block of t.
Pending(t, cs) == \E i \in DOMAIN cs : cs[i].tx = t /\ cs[i].notInBlock

\* The block noted for t contains it, and is in the active chain C or about to
\* be cleared by one of the calls cs.
Fresh(t, b, C, cs) == b # None => t \in TxsOf(b) /\ (b \in C \/ Pending(t, cs))

\* A call about a mined transaction names a block of the active chain C.
InChain(c, C) == ~c.notInBlock => c.pindex \in C /\ c.tx \in TxsOf(c.pindex)

\* MinedPointersFresh is not inductive.  While notifications are outstanding,
\* a block that was left may still be noted, but a call will clear it; the
\* calls are about the chain as it is; and nothing else touches the chain or
\* the calls before all are made.
FreshInv ==
  /\ \A t \in Tx : Fresh(t, trk.mined[t], Chain[tip], calls)
  /\ \A i \in DOMAIN calls : InChain(calls[i], Chain[tip])
  /\ at \in {"accept", "connect"} => calls = <<>>
  /\ at = "connect" => cur \in Block /\ Chain[tip] \subseteq Chain[cur]
  /\ at \in {"idle", "vote", "track"} => cur \in {None, tip}

\* The maps q note the block b for the transactions S, and otherwise what r does.
Notes(q, r, S, b) ==
  \A t \in Tx : /\ t \in S => q.mined[t] = b
                /\ t \notin S => q.mined[t] = r.mined[t]

LEMMA RemoveMined ==
  ASSUME NEW r, NEW S, NEW x
  PROVE  Notes(RemoveNonLockedTxs(r, S, x), r, S, None)
BY Zenon DEF RemoveNonLockedTxs, Notes

LEMMA AddMined ==
  ASSUME NEW r \in Tracker, NEW u \in Tx, NEW b
  PROVE  Notes(AddNonLockedTx(r, u, b), r, {u}, b)
BY DEF AddNonLockedTx, Tracker, Notes

LEMMA CallsForDomain ==
  ASSUME NEW s \in Seq(Tx), NEW b, NEW x
  PROVE  DOMAIN CallsFor(s, b, x) = 1 .. Len(s)
BY DEF CallsFor

CallOf(c, t, b, x) == c.tx = t /\ c.pindex = b /\ (c.notInBlock <=> x)

LEMMA CallsForAt ==
  ASSUME NEW s \in Seq(Tx), NEW b, NEW x \in BOOLEAN, NEW i \in 1 .. Len(s)
  PROVE  CallOf(CallsFor(s, b, x)[i], s[i], b, x)
<1>1. CallsFor(s, b, x)[i] = [tx |-> s[i], pindex |-> b, notInBlock |-> x]
  BY DEF CallsFor
<1> QED BY <1>1 DEF CallOf

\* The calls for the transactions of a block of C are about C, and calls
\* outside blocks are about nothing.
LEMMA CallsInChain ==
  ASSUME NEW s \in Seq(Tx), NEW b, NEW C
  PROVE  /\ \A i \in DOMAIN CallsFor(s, b, TRUE) : InChain(CallsFor(s, b, TRUE)[i], C)
         /\ b \in C /\ BlockTxs[b] = s =>
              \A i \in DOMAIN CallsFor(s, b, FALSE) : InChain(CallsFor(s, b, FALSE)[i], C)
<1>1. ASSUME NEW i \in DOMAIN CallsFor(s, b, TRUE)
      PROVE  InChain(CallsFor(s, b, TRUE)[i], C)
  <2>1. i \in 1 .. Len(s)
    BY Zenon, CallsForDomain
  <2>2. CallOf(CallsFor(s, b, TRUE)[i], s[i], b, TRUE)
    BY Zenon, <2>1, CallsForAt
  <2> QED BY Zenon, <2>2 DEF InChain, CallOf
<1>2. ASSUME b \in C, BlockTxs[b] = s, NEW i \in DOMAIN CallsFor(s, b, FALSE)
      PROVE  InChain(CallsFor(s, b, FALSE)[i], C)
  <2>1. i \in 1 .. Len(s)
    BY Zenon, CallsForDomain
  <2>2. s[i] \in TxsOf(b)
    BY <1>2, <2>1 DEF TxsOf
  <2>3. CallOf(CallsFor(s, b, FALSE)[i], s[i], b, FALSE)
    BY Zenon, <2>1, CallsForAt
  <2> QED BY Zenon, <1>2, <2>2, <2>3 DEF InChain, CallOf
<1> QED BY Zenon, <1>1, <1>2

LEMMA ConcatParts ==
  ASSUME NEW x \in Seq(Call), NEW y \in Seq(Call), NEW i \in DOMAIN (x \o y)
  PROVE  \/ i \in DOMAIN x /\ (x \o y)[i] = x[i]
         \/ i - Len(x) \in DOMAIN y /\ (x \o y)[i] = y[i - Len(x)]
OBVIOUS

LEMMA TailParts ==
  ASSUME NEW cs \in Seq(Call), cs # <<>>
  PROVE  /\ 1 \in DOMAIN cs /\ Head(cs) = cs[1]
         /\ \A i \in DOMAIN Tail(cs) : i + 1 \in DOMAIN cs /\ Tail(cs)[i] = cs[i + 1]
         /\ \A i \in DOMAIN cs : i # 1 => i - 1 \in DOMAIN Tail(cs) /\ Tail(cs)[i - 1] = cs[i]
OBVIOUS

\* Steps that leave the chain and the calls alone, and only clear blocks.
LEMMA QuietFresh ==
  ASSUME FreshInv, UNCHANGED <<tip, at, cur, calls>>,
         \A t \in Tx : trk'.mined[t] = None \/ trk'.mined[t] = trk.mined[t]
  PROVE  FreshInv'
<1>1. \A t \in Tx : Fresh(t, trk'.mined[t], Chain[tip], calls)
  BY Zenon DEF FreshInv, Fresh
<1> QED BY Zenon, <1>1 DEF FreshInv

\* Without outstanding calls, every block noted is in the active chain; it
\* stays so if the chain grows.
LEMMA GrowFresh ==
  ASSUME FreshInv, calls = <<>>, NEW C, Chain[tip] \subseteq C, NEW cs, NEW t \in Tx
  PROVE  Fresh(t, trk.mined[t], C, cs)
<1>1. ~Pending(t, calls)
  BY DEF Pending
<1> QED BY Zenon, <1>1 DEF FreshInv, Fresh

\* A call is done.
LEMMA TailFresh ==
  ASSUME FreshInv, calls \in Seq(Call), calls # <<>>, UNCHANGED <<tip, cur>>,
         calls' = Tail(calls), at \in {"idle", "track"}, at' = "idle",
         \A t \in Tx : t # Head(calls).tx =>
           trk'.mined[t] = None \/ trk'.mined[t] = trk.mined[t],
         Fresh(Head(calls).tx, trk'.mined[Head(calls).tx], Chain[tip], Tail(calls))
  PROVE  FreshInv'
<1>1. ASSUME NEW t \in Tx PROVE Fresh(t, trk'.mined[t], Chain[tip], Tail(calls))
  <2>1. CASE t = Head(calls).tx
    BY Zenon, <2>1
  <2>2. CASE t # Head(calls).tx
    <3>1. Fresh(t, trk.mined[t], Chain[tip], calls)
      BY Zenon DEF FreshInv
    <3>2. ASSUME Pending(t, calls) PROVE Pending(t, Tail(calls))
      <4>1. PICK i \in DOMAIN calls : calls[i].tx = t /\ calls[i].notInBlock
        BY Zenon, <3>2 DEF Pending
      <4>2. i # 1
        BY Zenon, <2>2, <4>1, TailParts
      <4>3. i - 1 \in DOMAIN Tail(calls) /\ Tail(calls)[i - 1] = calls[i]
        BY Zenon, <4>2, TailParts
      <4> QED BY Zenon, <4>1, <4>3 DEF Pending
    <3> QED BY Zenon, <2>2, <3>1, <3>2 DEF Fresh
  <2> QED BY Zenon, <2>1, <2>2
<1>2. ASSUME NEW i \in DOMAIN Tail(calls) PROVE InChain(Tail(calls)[i], Chain[tip])
  <2>1. i + 1 \in DOMAIN calls /\ Tail(calls)[i] = calls[i + 1]
    BY Zenon, TailParts
  <2> QED BY Zenon, <2>1 DEF FreshInv
<1>3. cur \in {None, tip}
  BY DEF FreshInv
<1>4. at' # "accept" /\ at' # "connect"
  OBVIOUS
<1> QED BY Zenon, <1>1, <1>2, <1>3, <1>4 DEF FreshInv

LEMMA FreshInit == Init => FreshInv
<1> SUFFICES ASSUME Init PROVE FreshInv
  OBVIOUS
<1>1. \A t \in Tx : trk.mined[t] = None
  BY DEF Init, NoTxs
<1>2. calls = <<>> /\ at = "idle" /\ cur = None
  BY Zenon DEF Init
<1>3. DOMAIN calls = {}
  BY <1>2
<1>4. at # "connect"
  BY <1>2
<1> QED BY Zenon, <1>1, <1>2, <1>3, <1>4 DEF FreshInv, Fresh

\* Every step of the validation thread keeps the blocks fresh.
LEMMA ValidationFresh == TypeOK /\ FreshInv /\ ValidationStep => FreshInv'
<1> SUFFICES ASSUME TypeOK, FreshInv, ValidationStep PROVE FreshInv'
  OBVIOUS
<1>0. /\ trk \in Tracker /\ calls \in Seq(Call) /\ tip \in Block
      /\ \A b \in Block : BlockTxs[b] \in Seq(Tx) /\ b \in Chain[b]
  BY Zenon, InstantSendAssumption DEF TypeOK, ChainType, SyncType
\* The calls are new, the transactions unchanged, and the thread is idle.
<1>1. ASSUME UNCHANGED trk, at' = "idle", cur' \in {None, tip'},
             \A t \in Tx : Fresh(t, trk.mined[t], Chain[tip'], calls'),
             \A i \in DOMAIN calls' : InChain(calls'[i], Chain[tip'])
      PROVE  FreshInv'
  <2>1. at' # "accept" /\ at' # "connect"
    BY <1>1
  <2> QED BY Zenon, <1>1, <2>1 DEF FreshInv
<1>2. ASSUME NEW t \in Tx, AcceptToMemoryPool(t) PROVE FreshInv'
  <2>1. /\ calls = <<>> /\ at' = "accept"
        /\ UNCHANGED <<tip, trk, calls>>
    BY Zenon, <1>2 DEF AcceptToMemoryPool, MainFree, chain
  <2>2. at' \notin {"connect", "idle", "vote", "track"}
    BY <2>1
  <2>3. at' # "connect"
    BY <2>1
  <2> QED BY Zenon, <2>1, <2>2, <2>3 DEF FreshInv
<1>3. CASE AddUnchecked
  <2>1. /\ at = "accept" /\ calls' = CallsFor(<<cur>>, None, TRUE)
        /\ at' = "idle" /\ cur' = None /\ UNCHANGED <<tip, trk>>
    BY Zenon, <1>3 DEF AddUnchecked
  <2>2. calls = <<>> /\ <<cur>> \in Seq(Tx)
    BY <2>1 DEF FreshInv, TypeOK, SyncType
  <2>3. \A i \in DOMAIN calls' : InChain(calls'[i], Chain[tip'])
    BY Zenon, <2>1, <2>2, CallsInChain
  <2>4. \A t \in Tx : Fresh(t, trk.mined[t], Chain[tip], calls')
    BY Zenon, <2>2, GrowFresh
  <2> QED BY Zenon, <1>1, <2>1, <2>3, <2>4
<1>4. ASSUME NEW b \in Block, ConnectBlock(b) PROVE FreshInv'
  <2>1. /\ calls = <<>> /\ Chain[b] \ {b} = Chain[tip]
        /\ UNCHANGED <<tip, trk, calls>>
        /\ (at' = "connect" /\ cur' = b) \/ UNCHANGED <<at, cur>>
    BY Zenon, <1>4 DEF ConnectBlock, MainFree, Connectable
  <2>2. CASE at' = "connect" /\ cur' = b
    <3>1. Chain[tip] \subseteq Chain[b]
      BY <2>1
    <3>2. at' \notin {"idle", "vote", "track"}
      BY <2>2
    <3> QED BY Zenon, <2>1, <2>2, <3>1, <3>2 DEF FreshInv
  <2>3. CASE UNCHANGED <<at, cur>>
    BY Zenon, <2>1, <2>3, QuietFresh
  <2> QED BY Zenon, <2>1, <2>2, <2>3
<1>5. CASE ConnectTip
  <2>1. /\ at = "connect" /\ tip' = cur /\ at' = "idle" /\ cur' = None
        /\ UNCHANGED trk
    BY Zenon, <1>5 DEF ConnectTip
  <2>2. PICK R \in SUBSET Tx : \E s \in Orders(R) :
           calls' = CallsFor(s, None, TRUE) \o CallsFor(BlockTxs[cur], cur, FALSE)
    BY Zenon, <1>5 DEF ConnectTip, TypeOK, ChainType
  <2>3. PICK s \in Orders(R) :
           calls' = CallsFor(s, None, TRUE) \o CallsFor(BlockTxs[cur], cur, FALSE)
    BY Zenon, <2>2
  <2>4. /\ calls = <<>> /\ cur \in Block /\ Chain[tip] \subseteq Chain[cur]
        /\ cur \in Chain[cur] /\ BlockTxs[cur] \in Seq(Tx)
    BY <1>0, <2>1 DEF FreshInv
  <2>5. s \in Seq(Tx)
    BY OrdersType
  <2> DEFINE x == CallsFor(s, None, TRUE)
             y == CallsFor(BlockTxs[cur], cur, FALSE)
  <2>6. x \in Seq(Call) /\ y \in Seq(Call)
    BY Zenon, <2>4, <2>5, CallsType
  <2>7. /\ \A i \in DOMAIN x : InChain(x[i], Chain[cur])
        /\ \A i \in DOMAIN y : InChain(y[i], Chain[cur])
    BY Zenon, <2>4, <2>5, CallsInChain
  <2>8. calls' = x \o y
    BY Zenon, <2>3
  <2> HIDE DEF x, y
  <2>9. \A i \in DOMAIN calls' : InChain(calls'[i], Chain[tip'])
    BY Zenon, <2>1, <2>6, <2>7, <2>8, ConcatParts
  <2>10. \A t \in Tx : Fresh(t, trk.mined[t], Chain[tip'], calls')
    BY Zenon, <2>1, <2>4, GrowFresh
  <2> QED BY Zenon, <1>1, <2>1, <2>9, <2>10
<1>6. CASE DisconnectTip
  <2>1. /\ at = "idle" /\ calls = <<>> /\ cur' = tip /\ UNCHANGED <<tip, at, trk>>
    BY Zenon, <1>6 DEF DisconnectTip
  <2>2. PICK R \in SUBSET Tx : \E s \in Orders(R) : calls' = CallsFor(s, None, TRUE)
    <3> DEFINE refused == {t \in TxsOf(tip) : ConflictingLocks(t) # {} \/ \E u \in mempool : Conflict(t, u)}
    <3>1. TxsOf(tip) \ WithDescendants(refused) \in SUBSET Tx
      BY <1>0 DEF TxsOf
    <3> QED BY Zenon, <1>6, <3>1 DEF DisconnectTip
  <2>3. \A i \in DOMAIN calls' : InChain(calls'[i], Chain[tip'])
    BY Zenon, <2>1, <2>2, OrdersType, CallsInChain
  <2>4. \A t \in Tx : Fresh(t, trk.mined[t], Chain[tip], calls')
    BY Zenon, <2>1, GrowFresh
  <2> QED BY Zenon, <1>1, <2>1, <2>3, <2>4
<1>7. ASSUME NEW b \in Block, DisconnectTipNotify(b) PROVE FreshInv'
  <2>1. /\ at = "idle" /\ cur # None /\ calls = <<>>
        /\ Chain[b] = Chain[tip] \ {tip} /\ tip' = b
        /\ calls' = CallsFor(BlockTxs[cur], b, TRUE)
        /\ cur' = None /\ UNCHANGED <<at, trk>>
    BY Zenon, <1>7 DEF DisconnectTipNotify
  <2>2. cur = tip /\ BlockTxs[tip] \in Seq(Tx)
    BY <1>0, <2>1 DEF FreshInv
  <2>3. \A i \in DOMAIN calls' : InChain(calls'[i], Chain[tip'])
    BY Zenon, <2>1, <2>2, CallsInChain
  <2>4. ASSUME NEW t \in Tx PROVE Fresh(t, trk.mined[t], Chain[tip'], calls')
    <3>1. Fresh(t, trk.mined[t], Chain[tip], <<>>)
      BY Zenon, <2>1 DEF FreshInv
    <3>2. ~Pending(t, <<>>)
      BY DEF Pending
    <3>3. ASSUME t \in TxsOf(tip) PROVE Pending(t, calls')
      <4>1. PICK i \in 1 .. Len(BlockTxs[tip]) : BlockTxs[tip][i] = t
        BY <2>2, <3>3 DEF TxsOf
      <4>2. i \in DOMAIN calls'
        BY Zenon, <2>1, <2>2, CallsForDomain
      <4>3. CallOf(CallsFor(BlockTxs[tip], b, TRUE)[i], BlockTxs[tip][i], b, TRUE)
        BY Zenon, <2>2, CallsForAt
      <4>4. calls'[i].tx = t /\ calls'[i].notInBlock
        BY Zenon, <2>1, <2>2, <4>1, <4>3 DEF CallOf
      <4> QED BY Zenon, <4>2, <4>4 DEF Pending
    <3> QED BY Zenon, <2>1, <3>1, <3>2, <3>3 DEF Fresh
  <2> QED BY Zenon, <1>1, <2>1, <2>3, <2>4
<1>8. ASSUME calls # <<>>, SyncTransaction(Head(calls)) PROVE FreshInv'
  <2>1. Head(calls).tx \in Tx
    <3>1. Head(calls) \in Call
      BY <1>0, <1>8
    <3> QED BY Zenon, <3>1 DEF Call
  <2>2. at = "idle" /\ UNCHANGED <<tip, cur>>
    BY Zenon, <1>8 DEF SyncTransaction, chain
  <2>3. CASE /\ trk' = RemoveConflictedTxs(trk, {Head(calls).tx})
             /\ calls' = Tail(calls) /\ UNCHANGED at
    <3>1. Notes(trk', trk, {Head(calls).tx}, None)
      BY Zenon, <2>3, RemoveMined DEF RemoveConflictedTxs
    <3>2. Fresh(Head(calls).tx, trk'.mined[Head(calls).tx], Chain[tip], Tail(calls))
      BY <2>1, <3>1 DEF Fresh, Notes
    <3>3. \A t \in Tx : trk'.mined[t] = None \/ trk'.mined[t] = trk.mined[t]
      BY <3>1 DEF Notes
    <3>4. at \in {"idle", "track"} /\ at' = "idle"
      BY <2>2, <2>3
    <3> QED BY Zenon, <1>0, <1>8, <2>2, <2>3, <3>2, <3>3, <3>4, TailFresh
  <2>4. CASE at' = "vote" /\ UNCHANGED <<trk, calls>>
    <3>1. at' \notin {"accept", "connect", "idle", "track"} /\ cur \in {None, tip}
      BY <2>2, <2>4 DEF FreshInv
    <3>2. at' # "connect" /\ at' \notin {"accept", "connect"}
      BY <2>4
    <3> QED BY Zenon, <2>2, <2>4, <3>1, <3>2 DEF FreshInv
  <2> QED BY Zenon, <1>8, <2>3, <2>4 DEF SyncTransaction
<1>9. ASSUME calls # <<>>, SyncVote(Head(calls)) PROVE FreshInv'
  <2>1. at = "vote" /\ at' = "track" /\ UNCHANGED <<tip, trk, cur, calls>>
    BY Zenon, <1>9 DEF SyncVote, chain
  <2>2. /\ at' # "connect" /\ at' \notin {"accept", "connect"}
        /\ cur \in {None, tip}
    BY <2>1 DEF FreshInv
  <2> QED BY Zenon, <2>1, <2>2 DEF FreshInv
<1>10. ASSUME calls # <<>>, SyncTrack(Head(calls)) PROVE FreshInv'
  <2> DEFINE c == Head(calls)
             b == IF c.notInBlock THEN None ELSE c.pindex
  <2>1. c.tx \in Tx
    <3>1. c \in Call
      BY <1>0, <1>10
    <3> QED BY Zenon, <3>1 DEF Call
  <2>2. InChain(c, Chain[tip])
    BY Zenon, <1>0, <1>10, TailParts DEF FreshInv
  <2>3. /\ at = "track" /\ at' = "idle" /\ calls' = Tail(calls)
        /\ UNCHANGED <<tip, cur>>
        /\ \/ trk' = RemoveNonLockedTxs(trk, {c.tx}, TRUE)
           \/ trk' = AddNonLockedTx(trk, c.tx, b)
    BY Zenon, <1>10 DEF SyncTrack, RemoveNonLockedTx, chain
  <2>4. Fresh(c.tx, None, Chain[tip], Tail(calls)) /\ Fresh(c.tx, b, Chain[tip], Tail(calls))
    BY Zenon, <2>2 DEF Fresh, InChain
  <2> HIDE DEF c, b
  <2>5. Notes(trk', trk, {c.tx}, None) \/ Notes(trk', trk, {c.tx}, b)
    <3>1. Notes(RemoveNonLockedTxs(trk, {c.tx}, TRUE), trk, {c.tx}, None)
      BY Zenon, RemoveMined
    <3>2. Notes(AddNonLockedTx(trk, c.tx, b), trk, {c.tx}, b)
      BY Zenon, <1>0, <2>1, AddMined
    <3> QED BY Zenon, <2>3, <3>1, <3>2
  <2>6. \A t \in Tx : t # c.tx => trk'.mined[t] = trk.mined[t]
    BY Zenon, <2>5 DEF Notes
  <2>7. Fresh(c.tx, trk'.mined[c.tx], Chain[tip], Tail(calls))
    BY <2>1, <2>4, <2>5 DEF Notes
  <2>8. at \in {"idle", "track"}
    BY <2>3
  <2> QED BY Zenon, <1>0, <1>10, <2>3, <2>6, <2>7, <2>8, TailFresh DEF c
<1> QED BY Zenon, <1>2, <1>3, <1>4, <1>5, <1>6, <1>7, <1>8, <1>9, <1>10
           DEF ValidationStep

\* When no notification is outstanding, the block noted for a transaction that
\* is not locked is in the active chain and contains it, for any blocks and
\* transactions (SyncTransaction).
THEOREM PointersFresh == Spec => []MinedPointersFresh
<1>1. TypeOK /\ FreshInv /\ [Next]_vars => FreshInv'
  <2> SUFFICES ASSUME TypeOK, FreshInv, [Next]_vars PROVE FreshInv'
    OBVIOUS
  <2>0. trk \in Tracker
    BY Zenon DEF TypeOK
  <2>1. CASE UNCHANGED <<tip, at, cur, calls, trk>>
    BY Zenon, <2>1, QuietFresh
  <2>2. ASSUME UNCHANGED <<tip, at, cur, calls>>,
               \E S, x : trk' = RemoveNonLockedTxs(trk, S, x)
        PROVE  FreshInv'
    <3>1. PICK S, x : trk' = RemoveNonLockedTxs(trk, S, x)
      BY Zenon, <2>2
    <3>2. Notes(trk', trk, S, None)
      BY Zenon, <3>1, RemoveMined
    <3>3. \A t \in Tx : trk'.mined[t] = None \/ trk'.mined[t] = trk.mined[t]
      BY <3>2 DEF Notes
    <3> QED BY Zenon, <2>2, <3>3, QuietFresh
  <2>3. CASE ValidationStep
    BY Zenon, <2>3, ValidationFresh
  <2>4. CASE TakeRetryTxs
    <3>1. trk'.mined = trk.mined
      BY <2>0, <2>4 DEF TakeRetryTxs, Tracker
    <3> QED BY Zenon, <2>4, <3>1, QuietFresh DEF TakeRetryTxs, chain, sync
  <2>5. CASE WorkStep
    BY Zenon, <2>1, <2>2, <2>4, <2>5 DEF WorkStep, ProcessInstantSendLock,
       StoreLock, RemoveNonLockedTx, RemoveMempoolConflictsForLock,
       RemoveConflictedTx, RemoveConflictedTxs, CollectConflicts,
       ResolveBlockConflicts, PruneLock, UntrackMined, InvalidateBlock,
       RetryTx, chain, sync
  <2>6. ASSUME NEW b \in Block, NewChainLock(b) PROVE FreshInv'
    BY Zenon, <2>1, <2>6 DEF NewChainLock, sync
  <2>7. CASE ReconsiderBlock
    BY Zenon, <2>1, <2>7 DEF ReconsiderBlock, sync
  <2>8. CASE NotifyChainLock
    BY Zenon, <2>2, <2>8 DEF NotifyChainLock, HandleFullyConfirmedBlock, sync
  <2>9. CASE Restart
    <3>1. \A t \in Tx : trk'.mined[t] = None
      BY Zenon, <2>9 DEF Restart, NoTxs
    <3> QED BY Zenon, <2>9, <3>1, QuietFresh DEF Restart, sync
  <2>10. CASE UNCHANGED vars
    BY Zenon, <2>1, <2>10 DEF vars, chain, sync
  <2> QED BY Zenon, <2>3, <2>5, <2>6, <2>7, <2>8, <2>9, <2>10 DEF Next
<1>2. FreshInv => MinedPointersFresh
  <2> SUFFICES ASSUME FreshInv, MainFree, NEW t \in Tx, trk.mined[t] # None
               PROVE  trk.mined[t] \in Chain[tip] /\ t \in TxsOf(trk.mined[t])
    BY Zenon DEF MinedPointersFresh
  <2>1. calls = <<>>
    BY Zenon DEF MainFree
  <2>2. Fresh(t, trk.mined[t], Chain[tip], calls)
    BY Zenon, <2>1, GrowFresh
  <2>3. ~Pending(t, calls)
    BY <2>1 DEF Pending
  <2> QED BY Zenon, <2>2, <2>3 DEF Fresh
<1> QED BY <1>1, <1>2, FreshInit, TypeCorrect, PTL DEF Spec
=============================================================================
