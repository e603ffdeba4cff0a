-------------------------- MODULE ChainLocksProofs --------------------------
(***************************************************************************)
(* For any tree of blocks, any CLSIGs, any superblocks and any number of   *)
(* restarts and spork changes: the types, the late header, and that the    *)
(* active chain does not leave an enforced lock.  If moreover the quorum   *)
(* signed on one chain only, no block of a locked chain is ever marked as  *)
(* conflicting or failed.                                                  *)
(***************************************************************************)
EXTENDS ChainLocks, FiniteSetTheorems, TLAPS

\* Two blocks of one chain are on the way to each other, and equal if they
\* have the same height (CBlockIndex::GetAncestor).
LEMMA SameChain ==
  ASSUME NEW b \in Block, NEW c \in Chain[b], NEW d \in Chain[b]
  PROVE  /\ c \in Block /\ d \in Block
         /\ c \in Chain[d] \/ d \in Chain[c]
         /\ Height[c] = Height[d] => c = d
<1>1. c \in Block /\ d \in Block
  BY TreeAssumption
<1>2. Height[c] \in Nat /\ Height[d] \in Nat
  BY <1>1, TreeAssumption
<1>3. Height[c] <= Height[d] => c \in Chain[d]
  BY TreeAssumption
<1>4. Height[d] <= Height[c] => d \in Chain[c]
  BY TreeAssumption
<1>5. ASSUME Height[c] = Height[d] PROVE c = d
  <2>1. c \in Chain[d]
    BY <1>2, <1>3, <1>5
  <2> QED BY <1>1, <1>5, <2>1, TreeAssumption
<1> QED BY <1>1, <1>2, <1>3, <1>4, <1>5

\* Going back along the active chain does not leave the way to a lock
\* (DisconnectTip, InvalidateBlock).
LEMMA BackStaysOnWay ==
  ASSUME NEW t \in Block, NEW l \in Block, OnWayTo(t, l), NEW n \in Chain[t]
  PROVE  OnWayTo(n, l)
<1>1. CASE t \in Chain[l]
  BY <1>1, TreeAssumption DEF OnWayTo
<1>2. CASE l \in Chain[t]
  BY <1>2, SameChain DEF OnWayTo
<1> QED BY <1>1, <1>2 DEF OnWayTo

\* A branch that forks off a chain on the way to a lock, and none of whose
\* blocks conflicts with the lock, is on the way to it too: its block at the
\* height of the lock is the lock (ConnectBlock's check).
LEMMA ForwardStaysOnWay ==
  ASSUME NEW t \in Block, NEW l \in Block, OnWayTo(t, l),
         NEW n \in Block,
         \A d \in Chain[n] \ Chain[t] : Height[d] <= Height[l] => d \in Chain[l]
  PROVE  OnWayTo(n, l)
<1> USE TreeAssumption
<1>1. Height[n] \in Nat /\ Height[l] \in Nat /\ n \in Chain[n]
  OBVIOUS
<1>2. CASE Height[n] <= Height[l]
  <2>1. CASE n \in Chain[t]
    BY <2>1, BackStaysOnWay
  <2>2. CASE n \notin Chain[t]
    BY <1>1, <1>2, <2>2 DEF OnWayTo
  <2> QED BY <2>1, <2>2
<1>3. CASE ~(Height[n] <= Height[l])
  <2>1. PICK d \in Chain[n] : Height[d] = Height[l]
    <3>1. Height[l] \in 0 .. Height[n]
      BY <1>1, <1>3
    <3> QED BY <3>1
  <2>2. d \in Chain[l] => d = l
    BY <2>1
  <2>3. CASE d \notin Chain[t]
    <3>1. d \in Chain[l]
      BY <1>1, <2>1, <2>3
    <3> QED BY <2>2, <3>1, <2>1 DEF OnWayTo
  <2>4. CASE d \in Chain[t]
    <3>1. CASE t \in Chain[l]
      BY <2>2, <2>4, <3>1 DEF OnWayTo
    <3>2. CASE l \in Chain[t]
      <4>1. d = l
        BY <2>1, <2>4, <3>2, SameChain
      <4> QED BY <4>1 DEF OnWayTo
    <3> QED BY <3>1, <3>2 DEF OnWayTo
  <2> QED BY <2>3, <2>4
<1> QED BY <1>2, <1>3

\* The chain of a block that continues a closed set is in the set, but for the
\* block itself (AcceptBlockHeader's and AcceptBlock's demand of a parent).
LEMMA ChainAbovePrev ==
  ASSUME NEW b \in Block \ {Genesis}, NEW B \in SUBSET Block, Closed(B),
         Prev(b) \in B
  PROVE  Closed(B \cup {b})
<1> USE TreeAssumption
<1>1. Height[b] \in Nat /\ Height[b] # 0
  OBVIOUS
<1>2. Prev(b) \in Chain[b] /\ Height[Prev(b)] = Height[b] - 1
  <2>1. Height[b] - 1 \in 0 .. Height[b]
    BY <1>1
  <2>2. \E p \in Chain[b] : Height[p] = Height[b] - 1
    BY <2>1
  <2> QED BY <2>2 DEF Prev
<1>3. ASSUME NEW c \in Chain[b], c # b PROVE c \in B
  <2>1. c \in Block /\ Height[c] \in Nat /\ Height[c] <= Height[b] /\ Height[c] # Height[b]
    BY <1>3
  <2>2. Height[c] <= Height[Prev(b)]
    <3> HIDE TreeAssumption
    <3> QED BY <1>1, <1>2, <2>1
  <2>3. c \in Chain[Prev(b)]
    BY <1>2, <2>2
  <2> QED BY <2>3 DEF Closed
<1> QED BY <1>3 DEF Closed

\* Every step of the threads preserves the invariant.
LEMMA InitInv == Init => Inv
<1> SUFFICES ASSUME Init PROVE Inv
  OBVIOUS
<1> USE TreeAssumption, LockAssumption DEF Init
<1>1. TypeOK
  <2>1. toggles \in 0 .. MaxToggles /\ restarts \in 0 .. MaxRestarts
    BY LockAssumption
  <2>2. sequenceId \in [Block -> Nat]
    OBVIOUS
  <2>3. pc \in [Thread -> {"idle", "verify", "commit", "activate", "enforce",
                           "invalidate", "notify", "sign", "signing"}]
    OBVIOUS
  <2>4. pindex \in [Thread -> BlockOrNone]
    BY DEF BlockOrNone
  <2> QED BY Zenon, <2>1, <2>2, <2>3, <2>4 DEF TypeOK, BlockOrNone
<1>2. Closed({Genesis})
  <2>1. \A c \in Chain[Genesis] : c = Genesis
    OBVIOUS
  <2> QED BY <2>1 DEF Closed
<1>3. IsFiniteSet({Genesis})
  BY Zenon, FS_Singleton
<1> QED BY <1>1, <1>2, <1>3 DEF Inv, LateHeaderPickedUp

LEMMA HeaderInv ==
  ASSUME Inv, NEW b \in Block, AcceptBlockHeader(b)
  PROVE  Inv'
<1> USE TreeAssumption, LockAssumption
<1> USE DEF AcceptBlockHeader, AcceptedBlockHeader, blocks, outside, active, locks
<1>1. b # Genesis /\ Closed(index')
  <2>1. b # Genesis
    BY Zenon DEF Inv, TypeOK, Closed
  <2> QED BY Zenon, <2>1, ChainAbovePrev DEF Inv, TypeOK
<1>2. TypeOK'
  BY DEF Inv, TypeOK, BlockOrNone
<1>3. CASE InternalHasConflictingChainLock(b)
  <2>1. b # best
    BY <1>3 DEF InternalHasConflictingChainLock, Inv, TypeOK
  <2> QED BY Zenon, <1>1, <1>2, <1>3, <2>1 DEF Inv, LateHeaderPickedUp,
             Closed, TypeOK
<1>4. CASE ~InternalHasConflictingChainLock(b)
  BY Zenon, <1>1, <1>2, <1>4 DEF Inv, LateHeaderPickedUp, Closed, TypeOK
<1> QED BY <1>3, <1>4

LEMMA BlockInv ==
  ASSUME Inv, NEW b \in Block, ProcessNewBlock(b)
  PROVE  Inv'
<1> USE DEF ProcessNewBlock, Goto, blocks, outside, active, locks
<1>1. b # Genesis
  BY TreeAssumption DEF Inv, TypeOK, Closed
<1>2. Closed(data') /\ IsFiniteSet(data')
  BY <1>1, ChainAbovePrev, FS_AddElement DEF Inv, TypeOK
<1>3. sequenceId' \in [Block -> Nat]
  <2>1. Cardinality(data) \in Nat
    BY FS_CardinalityType DEF Inv
  <2> QED BY <2>1 DEF Inv, TypeOK
<1>4. TypeOK'
  <2>1. pc' \in [Thread -> {"idle", "verify", "commit", "activate", "enforce",
                            "invalidate", "notify", "sign", "signing"}]
    BY DEF Inv, TypeOK, Thread
  <2> QED BY <1>3, <2>1 DEF Inv, TypeOK
<1>5. \A t \in Thread : pc'[t] \in {"verify", "commit"} => pindex'[t] \in Locked
  BY DEF Inv, TypeOK
<1> QED BY Zenon, <1>2, <1>4, <1>5 DEF Inv, LateHeaderPickedUp, Closed

\* Activation only touches blocks whose data is there (ActivateBestChain).
LEMMA ActivateInv ==
  ASSUME Inv, NEW t \in Thread, ActivateBestChain(t)
  PROVE  Inv'
<1> USE DEF blocks, outside, active, locks
<1>1. PICK c \in IF mostWork = None THEN FindMostWorkChain ELSE {mostWork} :
        IF c = tip
        THEN /\ failed' = failed \cup (IF mostWork = None THEN FailedChildren(c)
                                                          ELSE {})
             /\ activating' = None /\ mostWork' = None
             /\ AfterActivate(t)
             /\ UNCHANGED tip
        ELSE /\ ActivateBestChainStep(c)
             /\ IF tip' = c
                THEN /\ activating' = None /\ mostWork' = None
                     /\ AfterActivate(t)
                ELSE /\ activating' = t
                     /\ mostWork' = IF InvalidFound(c) THEN None ELSE c
                     /\ UNCHANGED <<pc, pindex>>
  BY Zenon DEF ActivateBestChain
<1>2. c \in data /\ Chain[c] \subseteq data
  BY <1>1 DEF Inv, TypeOK, FindMostWorkChain, Candidates, Closed
<1>3. FailedChildren(c) \subseteq data
  BY DEF FailedChildren, Branch, Candidates, Inv, Closed
<1>4. Connectable(c) \subseteq data /\ Branch(c) \subseteq data
  BY Zenon, <1>2 DEF Connectable, Branch
<1>5. tip' \in data
  BY <1>1, <1>2, <1>4
     DEF ActivateBestChainStep, Lowest, Highest, Better, Inv, TypeOK
<1>6. failed' \subseteq index
  <2>1. CASE c = tip
    BY Zenon, <1>1, <1>3, <2>1 DEF Inv, TypeOK
  <2>2. CASE c # tip
    BY Zenon, <1>1, <1>3, <1>4, <2>2 DEF ActivateBestChainStep, Lowest, Inv,
       TypeOK
  <2> QED BY Zenon, <2>1, <2>2
<1>7. activating' \in Thread \cup {None} /\ mostWork' \in data \cup {None}
  BY <1>1, <1>2
<1>8. /\ pc' \in [Thread -> {"idle", "verify", "commit", "activate", "enforce",
                             "invalidate", "notify", "sign", "signing"}]
      /\ pindex' \in [Thread -> BlockOrNone]
      /\ \A u \in Thread : pc'[u] \in {"verify", "commit"} => pindex'[u] \in Locked
  <2>1. CASE UNCHANGED <<pc, pindex>>
    BY Zenon, <2>1 DEF Inv, TypeOK
  <2>2. CASE AfterActivate(t)
    BY Zenon, <2>2 DEF AfterActivate, Goto, Return, Inv, TypeOK, BlockOrNone
  <2> QED BY <1>1, <2>1, <2>2
<1>9. UNCHANGED <<index, flagged, data, sequenceId, outside, active, locks>>
  BY DEF ActivateBestChain
<1>10. TypeOK'
  BY <1>5, <1>6, <1>7, <1>8, <1>9 DEF Inv, TypeOK
<1> QED BY <1>8, <1>9, <1>10 DEF Inv, LateHeaderPickedUp, Closed

\* The locks are handled by threads that hold CLSIGs (ProcessNewChainLock).
LEMMA ChainLockInv ==
  ASSUME Inv, NEW t \in Thread,
         \/ \E b \in Locked : ProcessNewChainLock(t, b)
         \/ VerifyRecoveredSig(t)
  PROVE  Inv'
<1> USE DEF blocks, outside, active, locks, Goto, Return
<1>1. ASSUME NEW b \in Locked, ProcessNewChainLock(t, b) PROVE Inv'
  <2>1. /\ pc' \in [Thread -> {"idle", "verify", "commit", "activate", "enforce",
                               "invalidate", "notify", "sign", "signing"}]
        /\ pindex' \in [Thread -> BlockOrNone]
        /\ \A u \in Thread : pc'[u] \in {"verify", "commit"} => pindex'[u] \in Locked
    BY Zenon, <1>1, LockAssumption DEF ProcessNewChainLock, Inv, TypeOK,
       BlockOrNone
  <2>2. TypeOK'
    BY Zenon, <1>1, <2>1 DEF ProcessNewChainLock, Inv, TypeOK
  <2> QED BY Zenon, <1>1, <2>1, <2>2 DEF ProcessNewChainLock, Inv,
             LateHeaderPickedUp, Closed
<1>2. CASE VerifyRecoveredSig(t)
  <2>1. /\ pc' \in [Thread -> {"idle", "verify", "commit", "activate", "enforce",
                               "invalidate", "notify", "sign", "signing"}]
        /\ pindex' \in [Thread -> BlockOrNone]
        /\ \A u \in Thread : pc'[u] \in {"verify", "commit"} => pindex'[u] \in Locked
    BY Zenon, <1>2, LockAssumption DEF VerifyRecoveredSig, Inv, TypeOK,
       BlockOrNone
  <2>2. TypeOK'
    BY <1>2, <2>1 DEF VerifyRecoveredSig, Inv, TypeOK
  <2> QED BY Zenon, <1>2, <2>1, <2>2 DEF VerifyRecoveredSig, Inv,
             LateHeaderPickedUp, Closed
<1> QED BY Zenon, <1>1, <1>2

\* A new best lock whose header is unknown is higher than the enforced one: it
\* does not conflict with it, and an ancestor's header would be known.
LEMMA CommitInv ==
  ASSUME Inv, NEW t \in Thread, CommitChainLock(t)
  PROVE  Inv'
<1> USE DEF blocks, outside, active, locks
<1> DEFINE b == pindex[t]
<1>1. b \in Locked /\ b \in Block
  BY Zenon, LockAssumption DEF CommitChainLock, Inv
<1>2. /\ pc' \in [Thread -> {"idle", "verify", "commit", "activate", "enforce",
                             "invalidate", "notify", "sign", "signing"}]
      /\ pindex' \in [Thread -> BlockOrNone]
      /\ \A u \in Thread : pc'[u] \in {"verify", "commit"} => pindex'[u] \in Locked
  BY Zenon DEF CommitChainLock, Goto, Return, Inv, TypeOK, BlockOrNone
<1>3. CASE InternalHasConflictingChainLock(b)
  <2>1. UNCHANGED <<best, known>>
    BY <1>3 DEF CommitChainLock
  <2>2. TypeOK'
    BY Zenon, <1>2, <2>1 DEF CommitChainLock, Inv, TypeOK
  <2> QED BY Zenon, <1>2, <2>1, <2>2 DEF CommitChainLock, Inv,
             LateHeaderPickedUp, Closed
<1>4. CASE ~InternalHasConflictingChainLock(b)
  <2>1. best' = b /\ known' = IF b \in index THEN b ELSE known
    BY Zenon, <1>4 DEF CommitChainLock
  <2>2. TypeOK'
    BY <1>1, <1>2, <2>1 DEF CommitChainLock, Inv, TypeOK
  <2>3. ASSUME isEnforced, known # None, b \notin index
        PROVE  Height[known] < Height[b]
    <3>1. known \in index /\ known \in Block
      BY Zenon, <2>3 DEF Inv, TypeOK
    <3>2. b \notin Chain[known]
      BY <2>3, <3>1 DEF Inv, Closed
    <3>3. Height[b] \in Nat /\ Height[known] \in Nat
      BY Zenon, <1>1, <3>1, TreeAssumption
    <3> QED BY <1>4, <2>3, <3>2, <3>3 DEF InternalHasConflictingChainLock
  <2>4. LateHeaderPickedUp'
    BY <2>1 DEF LateHeaderPickedUp, CommitChainLock
  <2>5. (isEnforced /\ known # None /\ best # None /\ best \notin index
          => Height[known] < Height[best])'
    BY <2>1, <2>3 DEF CommitChainLock
  <2> QED BY <1>2, <2>2, <2>4, <2>5 DEF CommitChainLock, Inv, Closed
<1> QED BY <1>3, <1>4

\* The scheduler's steps.  A reset leaves no lock behind (CheckActiveState), and
\* what enforcement marks as failed is known (EnforceBestChainLock).
LEMMA ScheduleInv ==
  ASSUME Inv,
         \/ CheckActiveState \/ EnforceBestChainLock \/ InvalidateConflicting
         \/ NotifyChainLock \/ TrySignChainTip \/ CommitSigned
  PROVE  Inv'
<1> USE DEF blocks, outside, active, locks, Goto, Return
<1> DEFINE PcOK ==
      /\ pc' \in [Thread -> {"idle", "verify", "commit", "activate", "enforce",
                             "invalidate", "notify", "sign", "signing"}]
      /\ pindex' \in [Thread -> BlockOrNone]
      /\ \A u \in Thread : pc'[u] \in {"verify", "commit"} => pindex'[u] \in Locked
<1>1. CASE CheckActiveState
  <2>1. PcOK
    BY Zenon, <1>1 DEF CheckActiveState, Inv, TypeOK
  <2>2. isSporkActive' \in BOOLEAN /\ isEnforced' \in BOOLEAN
    BY Zenon, <1>1 DEF CheckActiveState, Inv, TypeOK
  <2>3. CASE ~isEnforced /\ isEnforced'
    <3>1. best' = None /\ known' = None /\ lastNotify' = None
      BY <1>1, <2>3 DEF CheckActiveState
    <3>2. None \notin index
      BY Zenon, TreeAssumption DEF Inv, TypeOK
    <3>3. TypeOK'
      BY <1>1, <2>1, <2>2, <3>1 DEF CheckActiveState, Inv, TypeOK, BlockOrNone
    <3> QED BY Zenon, <1>1, <2>1, <3>1, <3>2, <3>3
            DEF CheckActiveState, Inv, LateHeaderPickedUp, Closed
  <2>4. CASE ~(~isEnforced /\ isEnforced')
    <3>1. UNCHANGED <<best, known, lastNotify>>
      BY Zenon, <1>1, <2>4 DEF CheckActiveState
    <3>2. TypeOK'
      BY <1>1, <2>1, <2>2, <3>1 DEF CheckActiveState, Inv, TypeOK
    <3>3. isEnforced' => isEnforced
      BY Zenon, <2>4
    <3> QED BY Zenon, <1>1, <2>1, <3>1, <3>2, <3>3
            DEF CheckActiveState, Inv, LateHeaderPickedUp, Closed
  <2> QED BY Zenon, <2>3, <2>4
<1>2. CASE EnforceBestChainLock
  <2>1. PcOK
    BY ZenonT(40), <1>2, LockAssumption DEF EnforceBestChainLock, Inv, TypeOK,
       BlockOrNone
  <2>2. TypeOK'
    BY Zenon, <1>2, <2>1 DEF EnforceBestChainLock, Inv, TypeOK
  <2> QED BY Zenon, <1>2, <2>1, <2>2 DEF EnforceBestChainLock, Inv,
             LateHeaderPickedUp, Closed
<1>3. CASE InvalidateConflicting
  <2>1. PcOK
    BY Zenon, <1>3 DEF InvalidateConflicting, Inv, TypeOK
  <2>2. tip' \in data
    BY Zenon, <1>3 DEF InvalidateConflicting, InvalidateBlocks, Highest, Inv,
       TypeOK, Closed
  <2>3. Siblings(pindex["sch"]) \subseteq index /\ Chain[tip] \subseteq index
    BY Zenon DEF Siblings, Inv, TypeOK, Closed
  <2>4. failed' \subseteq index
    BY <1>3, <2>3 DEF InvalidateConflicting, ResetBlockFailureFlags, Inv,
       TypeOK
  <2>5. TypeOK'
    BY Zenon, <1>3, <2>1, <2>2, <2>4 DEF InvalidateConflicting, Inv, TypeOK
  <2> QED BY Zenon, <1>3, <2>1, <2>5 DEF InvalidateConflicting, Inv,
             LateHeaderPickedUp, Closed
<1>4. CASE NotifyChainLock
  <2>1. PcOK /\ lastNotify' \in BlockOrNone
    BY <1>4 DEF NotifyChainLock, Inv, TypeOK, BlockOrNone, Thread
  <2>2. TypeOK'
    BY Zenon, <1>4, <2>1 DEF NotifyChainLock, Inv, TypeOK
  <2> QED BY Zenon, <1>4, <2>1, <2>2 DEF NotifyChainLock, Inv,
             LateHeaderPickedUp, Closed
<1>5. CASE TrySignChainTip
  <2>1. PcOK
    BY Zenon, <1>5 DEF TrySignChainTip, Inv, TypeOK, BlockOrNone
  <2>2. seen' \subseteq Locked
    BY Zenon, <1>5 DEF TrySignChainTip, Cleanup, Inv, TypeOK
  <2>3. TypeOK'
    BY Zenon, <1>5, <2>1, <2>2 DEF TrySignChainTip, Inv, TypeOK
  <2> QED BY Zenon, <1>5, <2>1, <2>3 DEF TrySignChainTip, Inv,
             LateHeaderPickedUp, Closed
<1>6. CASE CommitSigned
  <2>1. PcOK /\ lastSigned' \in BlockOrNone
    BY Zenon, <1>6 DEF CommitSigned, Inv, TypeOK, BlockOrNone, Thread
  <2>2. TypeOK'
    BY <1>6, <2>1 DEF CommitSigned, Inv, TypeOK
  <2> QED BY Zenon, <1>6, <2>1, <2>2 DEF CommitSigned, Inv,
             LateHeaderPickedUp, Closed
<1> QED BY <1>1, <1>2, <1>3, <1>4, <1>5, <1>6

LEMMA OutsideInv ==
  ASSUME Inv, ToggleSpork \/ TriggerArrives \/ Restart
  PROVE  Inv'
<1> USE DEF blocks, outside, active, locks
<1>1. CASE ToggleSpork
  <2>1. toggles' \in 0 .. MaxToggles /\ spork' \in BOOLEAN
    BY <1>1, LockAssumption DEF ToggleSpork, Inv, TypeOK
  <2>2. TypeOK'
    BY <1>1, <2>1 DEF ToggleSpork, Inv, TypeOK
  <2> QED BY Zenon, <1>1, <2>2 DEF ToggleSpork, Inv, LateHeaderPickedUp, Closed
<1>2. CASE TriggerArrives
  <2>1. TypeOK'
    BY Zenon, <1>2 DEF TriggerArrives, Inv, TypeOK
  <2> QED BY Zenon, <1>2, <2>1 DEF TriggerArrives, Inv, LateHeaderPickedUp,
             Closed
<1>3. CASE Restart
  <2>1. restarts' \in 0 .. MaxRestarts
    BY <1>3, LockAssumption DEF Restart, Inv, TypeOK
  <2>2. /\ pc' \in [Thread -> {"idle", "verify", "commit", "activate", "enforce",
                               "invalidate", "notify", "sign", "signing"}]
        /\ pindex' \in [Thread -> BlockOrNone]
        /\ \A u \in Thread : pc'[u] \notin {"verify", "commit"}
    BY <1>3 DEF Restart, BlockOrNone
  <2>3. sequenceId' \in [Block -> Nat]
    BY Zenon, <1>3 DEF Restart
  <2>4. TypeOK'
    BY Zenon, <1>3, <2>1, <2>2, <2>3 DEF Restart, Inv, TypeOK, BlockOrNone
  <2>5. None \notin index
    BY Zenon, TreeAssumption DEF Inv, TypeOK
  <2> QED BY Zenon, <1>3, <2>2, <2>4, <2>5 DEF Restart, Inv,
             LateHeaderPickedUp, Closed
<1> QED BY <1>1, <1>2, <1>3

LEMMA NextInv ==
  ASSUME Inv, [Next]_vars
  PROVE  Inv'
<1>1. CASE UNCHANGED vars
  BY <1>1 DEF vars, blocks, outside, active, locks, Inv, TypeOK,
              LateHeaderPickedUp, Closed
<1>2. ASSUME NEW b \in Block, ProcessMessage(b) PROVE Inv'
  BY <1>2, ChainLockInv DEF ProcessMessage, Thread
<1>3. ASSUME NEW b \in Block, HandleNewRecoveredSig(b) PROVE Inv'
  BY <1>3, ChainLockInv DEF HandleNewRecoveredSig, Thread
<1> QED BY Zenon, <1>1, <1>2, <1>3, HeaderInv, BlockInv, ActivateInv, ChainLockInv,
           CommitInv, ScheduleInv, OutsideInv DEF Next

\* The invariant holds in every reachable state.
THEOREM Invariance == Spec => []Inv
<1>1. Init => Inv
  BY InitInv
<1>2. Inv /\ [Next]_vars => Inv'
  BY NextInv
<1> QED BY <1>1, <1>2, PTL DEF Spec

\* Every variable of the node keeps its type; in particular the tip and the
\* chain being activated are blocks whose data is there.
THEOREM TypeCorrect == Spec => []TypeOK
<1>1. Inv => TypeOK
  BY DEF Inv
<1> QED BY <1>1, Invariance, PTL

\* Whether the header or the CLSIG comes first, once both are there the best
\* lock is the one to enforce (ProcessNewChainLock, AcceptedBlockHeader).
THEOREM LateHeader == Spec => []LateHeaderPickedUp
<1>1. Inv => LateHeaderPickedUp
  BY Zenon DEF Inv
<1> QED BY <1>1, Invariance, PTL

\* A round of ActivateBestChain ends on the way to the enforced lock if it
\* begins there, whatever candidate it works towards.
LEMMA ActivateStaysOnWay ==
  ASSUME Inv, NEW t \in Thread, ActivateBestChain(t),
         isEnforced, known # None, OnWayTo(tip, known)
  PROVE  OnWayTo(tip', known)
<1>1. tip \in Block /\ known \in Block
  BY LockAssumption DEF Inv, TypeOK
<1>2. CASE tip' = tip
  BY <1>2
<1>3. ASSUME NEW c \in Block, ActivateBestChainStep(c) PROVE OnWayTo(tip', known)
  <2>1. tip' \in Connectable(c) \/ tip' \in Chain[tip]
    BY <1>3 DEF ActivateBestChainStep, Lowest, Highest, Better
  <2>2. CASE tip' \in Chain[tip]
    BY <1>1, <2>2, BackStaysOnWay
  <2>3. CASE tip' \in Connectable(c)
    <3>1. tip' \in Block
      <4>1. Inv'
        BY ActivateInv
      <4> QED BY <4>1 DEF Inv, TypeOK
    <3>2. ASSUME NEW d \in Chain[tip'] \ Chain[tip], Height[d] <= Height[known]
          PROVE  d \in Chain[known]
      <4>1. d \in Branch(c)
        BY <2>3, <3>2, TreeAssumption DEF Connectable, Branch
      <4>2. ~ConnectBlockFails(d)
        BY Zenon, <2>3, <3>2, <4>1 DEF Connectable
      <4> QED BY <3>2, <4>2 DEF ConnectBlockFails,
                 InternalHasConflictingChainLock
    <3> QED BY Zenon, <1>1, <3>1, <3>2, ForwardStaysOnWay
  <2> QED BY Zenon, <2>1, <2>2, <2>3
<1>4. FindMostWorkChain \subseteq Block /\ mostWork \in Block \cup {None}
  BY DEF FindMostWorkChain, Candidates, Inv, TypeOK
<1> QED BY <1>2, <1>3, <1>4 DEF ActivateBestChain

\* The active chain never leaves the way to an enforced lock while the lock
\* stays the same (ActivateBestChain, ConnectBlock, InvalidateBlock).
THEOREM LockStays == Spec => LockHeld
<1>1. Inv /\ [Next]_vars => [LockHolds]_vars
  <2> SUFFICES ASSUME Inv, Next,
                      isEnforced, isEnforced', known # None, known' = known,
                      OnWayTo(tip, known)
               PROVE  OnWayTo(tip', known)
    BY DEF LockHolds
  <2>1. ASSUME NEW t \in Thread, ActivateBestChain(t) PROVE OnWayTo(tip', known)
    BY <2>1, ActivateStaysOnWay
  <2>2. CASE InvalidateConflicting
    <3>1. tip' \in Chain[tip]
      BY <2>2 DEF InvalidateConflicting, InvalidateBlocks, Highest
    <3>2. tip \in Block /\ known \in Block
      BY LockAssumption DEF Inv, TypeOK
    <3> QED BY Zenon, <3>1, <3>2, BackStaysOnWay
  <2>3. CASE Restart
    BY <2>3 DEF Restart
  <2>4. ASSUME ~(\E t \in Thread : ActivateBestChain(t)),
               ~InvalidateConflicting, ~Restart
        PROVE  tip' = tip
    BY Zenon, <2>4 DEF Next, AcceptBlockHeader, ProcessNewBlock,
       ProcessMessage,
                HandleNewRecoveredSig, ProcessNewChainLock, VerifyRecoveredSig,
                CommitChainLock, CheckActiveState, EnforceBestChainLock,
                NotifyChainLock, TrySignChainTip, CommitSigned, ToggleSpork,
                TriggerArrives
  <2> QED BY <2>1, <2>2, <2>3, <2>4
<1> QED BY <1>1, Invariance, PTL DEF Spec, LockHeld
-----------------------------------------------------------------------------
(***************************************************************************)
(* No harm to the locked chain.  All CLSIGs are on one chain, and no block *)
(* of it is invalid for another reason.                                    *)
(***************************************************************************)
SoundLocks ==
  /\ \A l, m \in Locked : l \in Chain[m] \/ m \in Chain[l]
  /\ \A l \in Locked : Chain[l] \cap Superblock = {}

\* A block below two locks is on the chain of both.
LEMMA BelowBoth ==
  ASSUME SoundLocks, NEW l \in Locked, NEW m \in Locked, NEW b \in Chain[l],
         Height[b] <= Height[m]
  PROVE  b \in Chain[m]
<1>1. l \in Block /\ m \in Block /\ m \in Chain[m]
  BY TreeAssumption, LockAssumption
<1>2. CASE l \in Chain[m]
  BY <1>1, <1>2, TreeAssumption
<1>3. CASE m \in Chain[l]
  BY <1>1, <1>3, TreeAssumption
<1> QED BY Zenon, <1>2, <1>3 DEF SoundLocks

\* The parent of a block is one below it.
LEMMA PrevBelow ==
  ASSUME NEW b \in Block, b # Genesis
  PROVE  Height[Prev(b)] = Height[b] - 1
<1>1. Height[b] \in Nat /\ Height[b] # 0
  BY TreeAssumption
<1>2. \E p \in Chain[b] : Height[p] = Height[b] - 1
  <2>1. Height[b] - 1 \in 0 .. Height[b]
    BY <1>1
  <2> QED BY <2>1, TreeAssumption
<1> QED BY <1>2 DEF Prev

\* A block of the locked chain conflicts with no lock and connects.
LEMMA LockedConnects ==
  ASSUME SoundLocks, TypeOK, NEW l \in Locked, NEW b \in Chain[l]
  PROVE  ~InternalHasConflictingChainLock(b) /\ ~ConnectBlockFails(b)
<1>1. known \in Locked \cup {None}
  BY Zenon DEF TypeOK
<1>2. ~InternalHasConflictingChainLock(b)
  BY <1>1, BelowBoth DEF InternalHasConflictingChainLock
<1>3. b \notin Superblock
  BY DEF SoundLocks
<1> QED BY Zenon, <1>2, <1>3 DEF ConnectBlockFails

\* What EnforceBestChainLock invalidates for a lock is not on the locked chain.
LEMMA SiblingsElsewhere ==
  ASSUME SoundLocks, TypeOK, NEW l \in Locked, NEW m \in Locked
  PROVE  Chain[l] \cap Siblings(m) = {}
<1> SUFFICES ASSUME NEW s \in Chain[l], s \in Siblings(m) PROVE FALSE
  BY Zenon
<1>1. l \in Block /\ m \in Block /\ tip \in Block
  BY LockAssumption DEF TypeOK
<1>2. PICK p \in Branch(m) : Prev(s) = Prev(p)
  BY Zenon DEF Siblings
<1>3. s \in Block /\ s # Genesis /\ s \notin Chain[m]
  BY <1>1, TreeAssumption DEF Siblings
<1>4. p \in Block /\ p \in Chain[m] /\ p # Genesis
  BY <1>1, TreeAssumption DEF Branch
<1>5. /\ Height[s] \in Nat /\ Height[p] \in Nat /\ Height[m] \in Nat
      /\ Height[p] <= Height[m]
  BY <1>1, <1>3, <1>4, TreeAssumption
<1>6. Height[s] - 1 = Height[p] - 1
  BY Zenon, <1>2, <1>3, <1>4, PrevBelow
<1>7. Height[s] <= Height[m]
  BY <1>5, <1>6
<1> QED BY Zenon, <1>3, <1>7, BelowBoth

\* An enforcement under way is one of a lock.
EnforcesLock == pc["sch"] = "invalidate" => pindex["sch"] \in Locked

LEMMA EnforcesLockNext ==
  ASSUME TypeOK, EnforcesLock, [Next]_vars
  PROVE  EnforcesLock'
<1>1. /\ pc \in [Thread -> {"idle", "verify", "commit", "activate", "enforce",
                        "invalidate", "notify", "sign", "signing"}]
      /\ pindex \in [Thread -> BlockOrNone] /\ known \in Locked \cup {None}
      /\ Thread = {"net", "work", "sch"}
  BY Zenon DEF TypeOK, Thread
<1>2. CASE EnforceBestChainLock
  BY <1>1, <1>2 DEF EnforceBestChainLock, EnforcesLock, Goto
<1>4. ASSUME pc'["sch"] # "invalidate" PROVE EnforcesLock'
  BY <1>4 DEF EnforcesLock
<1>5. ASSUME UNCHANGED <<pc, pindex>> PROVE EnforcesLock'
  BY <1>5 DEF EnforcesLock
<1>6. ASSUME NEW t \in {"net", "work"}, NEW b, ProcessNewChainLock(t, b)
      PROVE  EnforcesLock'
  BY <1>1, <1>6 DEF ProcessNewChainLock, Goto, EnforcesLock
<1>7. ASSUME NEW t \in Thread, VerifyRecoveredSig(t) PROVE EnforcesLock'
  BY <1>1, <1>7 DEF VerifyRecoveredSig, Goto, Return, EnforcesLock
<1>8. ASSUME NEW t \in Thread, CommitChainLock(t) PROVE EnforcesLock'
  BY <1>1, <1>8 DEF CommitChainLock, Goto, Return, EnforcesLock
<1>9. ASSUME NEW t \in Thread, ActivateBestChain(t) PROVE EnforcesLock'
  <2>1. UNCHANGED <<pc, pindex>> \/ AfterActivate(t)
    BY Zenon, <1>9 DEF ActivateBestChain
  <2>2. pc[t] = "activate"
    BY Zenon, <1>9 DEF ActivateBestChain
  <2>3. CASE AfterActivate(t)
    BY Zenon, <1>1, <2>2, <2>3 DEF AfterActivate, Goto, Return, EnforcesLock
  <2> QED BY <1>5, <2>1, <2>3
<1>10. CASE CheckActiveState \/ InvalidateConflicting \/ NotifyChainLock
            \/ TrySignChainTip \/ CommitSigned \/ Restart
  BY Zenon, <1>1, <1>4, <1>10 DEF CheckActiveState, InvalidateConflicting,
       NotifyChainLock, TrySignChainTip, CommitSigned, Restart, Goto, Return
<1>11. ASSUME NEW b, ProcessNewBlock(b) PROVE EnforcesLock'
  BY <1>1, <1>11 DEF ProcessNewBlock, Goto, EnforcesLock
<1>12. ASSUME NEW b, AcceptBlockHeader(b) PROVE EnforcesLock'
  BY Zenon, <1>5, <1>12 DEF AcceptBlockHeader
<1>13. CASE ToggleSpork \/ TriggerArrives \/ UNCHANGED vars
  BY Zenon, <1>5, <1>13 DEF ToggleSpork, TriggerArrives, vars
<1> QED BY Zenon, <1>2, <1>6, <1>7, <1>8, <1>9, <1>10, <1>11, <1>12, <1>13
        DEF Next, ProcessMessage, HandleNewRecoveredSig

\* A round of ActivateBestChain marks no block of the locked chain.
LEMMA ActivateHarmless ==
  ASSUME SoundLocks, TypeOK, LockedChainUnharmed, NEW t \in Thread,
         ActivateBestChain(t), NEW l \in Locked, NEW b \in Chain[l]
  PROVE  b \notin failed'
<1>1. l \in Block /\ Chain[b] \subseteq Chain[l] /\ b \notin failed
  BY LockAssumption, TreeAssumption DEF LockedChainUnharmed
<1>2. ASSUME NEW c PROVE b \notin FailedChildren(c)
  <2>1. Branch(b) \cap failed = {}
    BY Zenon, <1>1 DEF Branch, LockedChainUnharmed
  <2> QED BY Zenon, <2>1 DEF FailedChildren
<1>3. ASSUME NEW c PROVE b \notin Lowest(Branch(c) \ Connectable(c))
  <2>1. \A d \in Chain[b] : ~ConnectBlockFails(d)
    BY Zenon, <1>1, LockedConnects
  <2> QED BY Zenon, <2>1 DEF Lowest, Connectable
<1>4. \E c : failed' \subseteq failed \cup FailedChildren(c)
                                 \cup Lowest(Branch(c) \ Connectable(c))
  BY Zenon DEF ActivateBestChain, ActivateBestChainStep
<1> QED BY <1>1, <1>2, <1>3, <1>4

\* Neither does EnforceBestChainLock.
LEMMA EnforceHarmless ==
  ASSUME SoundLocks, TypeOK, EnforcesLock, LockedChainUnharmed,
         InvalidateConflicting, NEW l \in Locked, NEW b \in Chain[l]
  PROVE  b \notin failed'
<1> DEFINE m == pindex["sch"]
           Kept == {c \in Chain[tip] : Chain[c] \cap Siblings(m) = {}}
           bad == failed \cup Siblings(m) \cup (Chain[tip] \ Chain[tip'])
<1>1. m \in Locked /\ tip' \in Highest(Kept) /\ failed' \subseteq bad
  <2>1. m \in Locked
    BY Zenon DEF InvalidateConflicting, EnforcesLock
  <2>2. tip' \in Highest(Kept)
    BY Zenon DEF InvalidateConflicting, InvalidateBlocks
  <2>3. failed' \subseteq bad
    BY DEF InvalidateConflicting, ResetBlockFailureFlags
  <2> QED BY Zenon, <2>1, <2>2, <2>3
<1>2. l \in Block /\ tip \in Block /\ Chain[b] \subseteq Chain[l] /\ b \notin failed
  BY LockAssumption, TreeAssumption DEF LockedChainUnharmed, TypeOK
<1>3. Chain[l] \cap Siblings(m) = {}
  BY Zenon, <1>1, SiblingsElsewhere
<1>4. ASSUME b \in Chain[tip] PROVE b \in Chain[tip']
  <2>1. b \in Kept
    BY <1>2, <1>3, <1>4
  <2>2. Height[b] <= Height[tip'] /\ tip' \in Chain[tip]
    BY Zenon, <1>1, <2>1 DEF Highest
  <2> QED BY <1>2, <1>4, <2>2, TreeAssumption
<1> QED BY <1>1, <1>2, <1>3, <1>4

\* When all CLSIGs are on one chain and no block of it is invalid for another
\* reason, no block of it is ever marked as failed or flagged as conflicting
\* (EnforceBestChainLock, FindMostWorkChain, ConnectBlock, AcceptBlockHeader),
\* for every tree of blocks and every interleaving of the threads.
THEOREM LockedUnharmed ==
  ASSUME SoundLocks
  PROVE  Spec => []LockedChainUnharmed
<1>1. Init => LockedChainUnharmed /\ EnforcesLock
  BY DEF Init, LockedChainUnharmed, EnforcesLock, Thread
<1>2. ASSUME Inv, EnforcesLock, LockedChainUnharmed, [Next]_vars
      PROVE  LockedChainUnharmed'
  <2> SUFFICES ASSUME NEW l \in Locked, NEW b \in Chain[l]
               PROVE  b \notin failed' \cup flagged'
    BY Zenon DEF LockedChainUnharmed
  <2>1. b \notin failed \cup flagged /\ TypeOK
    BY Zenon, <1>2 DEF LockedChainUnharmed, Inv
  <2>2. b \notin failed'
    <3>1. CASE \E t \in Thread : ActivateBestChain(t)
      BY Zenon, <1>2, <2>1, <3>1, ActivateHarmless
    <3>2. CASE InvalidateConflicting
      BY Zenon, <1>2, <2>1, <3>2, EnforceHarmless
    <3>3. ASSUME ~(\E t \in Thread : ActivateBestChain(t)),
                 ~InvalidateConflicting
          PROVE  failed' = failed
      BY Zenon, <1>2, <3>3 DEF Next, AcceptBlockHeader, ProcessNewBlock,
         ProcessMessage, HandleNewRecoveredSig, ProcessNewChainLock,
         VerifyRecoveredSig, CommitChainLock, CheckActiveState,
         EnforceBestChainLock, NotifyChainLock, TrySignChainTip, CommitSigned,
         ToggleSpork, TriggerArrives, Restart, vars
    <3> QED BY <2>1, <3>1, <3>2, <3>3
  <2>3. b \notin flagged'
    <3>1. ASSUME NEW c \in Block, AcceptBlockHeader(c) PROVE b \notin flagged'
      <4>1. ~InternalHasConflictingChainLock(b)
        BY Zenon, <2>1, LockedConnects
      <4>2. flagged' \subseteq flagged \cup {c}
            /\ (flagged' # flagged => InternalHasConflictingChainLock(c))
        BY <3>1 DEF AcceptBlockHeader
      <4> QED BY <2>1, <4>1, <4>2
    <3>2. ASSUME ~(\E c \in Block : AcceptBlockHeader(c))
          PROVE  flagged' = flagged
      BY Zenon, <1>2, <3>2 DEF Next, ProcessNewBlock, ActivateBestChain,
         ProcessMessage, HandleNewRecoveredSig, ProcessNewChainLock,
         VerifyRecoveredSig, CommitChainLock, CheckActiveState,
         EnforceBestChainLock, NotifyChainLock, TrySignChainTip, CommitSigned,
         ToggleSpork, TriggerArrives, InvalidateConflicting, Restart, vars,
         blocks
    <3> QED BY <2>1, <3>1, <3>2
  <2> QED BY <2>2, <2>3
<1>3. Inv /\ EnforcesLock /\ [Next]_vars => EnforcesLock'
  BY Zenon, EnforcesLockNext DEF Inv
<1>4. Inv /\ EnforcesLock /\ LockedChainUnharmed /\ [Next]_vars
        => LockedChainUnharmed'
  BY Zenon, <1>2
<1> QED BY <1>1, <1>3, <1>4, Invariance, PTL DEF Spec
=============================================================================
