----------------------------- MODULE ChainLocks -----------------------------
(***************************************************************************)
(* CChainLocksHandler of one node, with the part of validation.cpp that    *)
(* calls it and is called by it: headers and blocks come in, the chain     *)
(* with the most work is activated, CLSIGs (signatures of a quorum on one  *)
(* block of a height) override it.                                         *)
(*                                                                         *)
(* Threads.  "net" handles messages: headers, blocks and CLSIGs.  "work"   *)
(* recovers signatures and turns them into CLSIGs.  "sch" is the scheduler *)
(* and runs CheckActiveState, EnforceBestChainLock and TrySignChainTip one *)
(* after the other, every 5 seconds and after every change of the tip: a   *)
(* pass may begin whenever the previous one is over.                       *)
(*                                                                         *)
(* An action is what a thread does under one acquisition of cs_main or cs. *)
(*                                                                         *)
(* Abstractions.  Blocks have equal work.  A CLSIG is the block it signs.  *)
(* The data of a block is processed after its parent's: an earlier arrival *)
(* has no effect until then.  setBlockIndexCandidates is the set of blocks *)
(* that could be in it.  Whether the transactions of the tip are safe is a *)
(* choice.                                                                 *)
(***************************************************************************)
EXTENDS Integers, FiniteSets

CONSTANTS
  Block,       \* the blocks of all branches
  Genesis,     \* the first block, or one that no branch replaces
  Chain,       \* Chain[b]: b and its ancestors
  Height,      \* Height[b]: nHeight
  None,        \* no block
  Locked,      \* the blocks for which a quorum has signed
  Superblock,  \* the blocks that are valid only once the trigger is known
  DIP8Height,  \* a tip of this height or above has DIP8 active
  SignOffset,  \* SIGN_HEIGHT_OFFSET
  MaxToggles,  \* bound: changes of SPORK_19_CHAINLOCKS_ENABLED
  MaxRestarts  \* bound: restarts of the node

ASSUME TreeAssumption ==
  /\ Genesis \in Block /\ None \notin Block
  /\ Chain \in [Block -> SUBSET Block]
  /\ Height \in [Block -> Nat]
  /\ \A b \in Block : b \in Chain[b] /\ Genesis \in Chain[b]
  /\ \A b \in Block : \A c \in Chain[b] : Chain[c] \subseteq Chain[b]
  /\ \A b \in Block : \A c, d \in Chain[b] :
       Height[c] <= Height[d] => c \in Chain[d]
  /\ \A b \in Block : \A c \in Chain[b] : Height[c] = Height[b] => c = b
  /\ \A b \in Block : \A c \in Chain[b] : Height[c] <= Height[b]
  /\ \A b \in Block : \A h \in 0 .. Height[b] : \E c \in Chain[b] : Height[c] = h
  /\ Height[Genesis] = 0

ASSUME LockAssumption ==
  /\ Locked \subseteq Block \ {Genesis}
  /\ Superblock \subseteq Block \ {Genesis}
  /\ DIP8Height \in Nat /\ SignOffset \in Nat
  /\ MaxToggles \in Nat /\ MaxRestarts \in Nat

VARIABLES
  \* validation.cpp
  index,       \* mapBlockIndex
  flagged,     \* blocks with BLOCK_CONFLICT_CHAINLOCK
  failed,      \* blocks with a flag of BLOCK_FAILED_MASK
  data,        \* blocks whose data and whose ancestors' data are there
  sequenceId,  \* nSequenceId
  tip,         \* chainActive.Tip()
  activating,  \* the thread that holds cs_activateBestChain
  mostWork,    \* its pindexMostWork
  \* what other parts of the node know
  spork, trigger, toggles, restarts,
  \* CChainLocksHandler
  isSporkActive, isEnforced,
  best,        \* bestChainLock
  known,       \* bestChainLockBlockIndex
  lastNotify,  \* lastNotifyChainLockBlockIndex
  seen,        \* seenChainLocks
  lastSigned,  \* lastSignedHeight and lastSignedMsgHash
  \* threads
  pc,
  pindex       \* pindex[t]: the block thread t works on

Thread == {"net", "work", "sch"}
BlockOrNone == Block \cup {None}

blocks == <<index, flagged, data, sequenceId>>
locks == <<best, known, lastNotify, seen, lastSigned>>
active == <<isSporkActive, isEnforced>>
outside == <<spork, trigger, toggles, restarts>>
vars == <<blocks, failed, tip, activating, mostWork, outside, active, locks,
          pc, pindex>>

Init ==
  /\ index = {Genesis} /\ flagged = {} /\ failed = {} /\ data = {Genesis}
  /\ sequenceId = [b \in Block |-> 0]
  /\ tip = Genesis
  /\ activating = None /\ mostWork = None
  /\ spork = TRUE /\ trigger = FALSE /\ toggles = 0 /\ restarts = 0
  /\ isSporkActive = FALSE /\ isEnforced = FALSE
  /\ best = None /\ known = None /\ lastNotify = None
  /\ seen = {} /\ lastSigned = None
  /\ pc = [t \in Thread |-> "idle"]
  /\ pindex = [t \in Thread |-> None]

Goto(t, l) == pc' = [pc EXCEPT ![t] = l]
Return(t) == Goto(t, "idle") /\ pindex' = [pindex EXCEPT ![t] = None]

Prev(b) == CHOOSE p \in Chain[b] : Height[p] = Height[b] - 1

\* The height of a lock, -1 for none.
HeightOf(b) == IF b = None THEN -1 ELSE Height[b]

\* Mutant: the ancestors of the lock are not looked at.
InternalHasConflictingChainLockExact(b) ==
  /\ isEnforced
  /\ known # None
  /\ Height[b] <= Height[known]
  /\ b # known

InternalHasConflictingChainLock(b) ==
  /\ isEnforced
  /\ known # None
  /\ Height[b] <= Height[known]
  /\ b \notin Chain[known]

-----------------------------------------------------------------------------
(* Activation of the chain with the most work.                              *)

\* CBlockIndexWorkComparator.
Worse(b, c) ==
  \/ Height[b] < Height[c]
  \/ Height[b] = Height[c] /\ sequenceId[b] > sequenceId[c]

Candidates == {b \in data \ failed : ~Worse(b, tip)}

\* The blocks to connect for c to become the tip.
Branch(c) == Chain[c] \ Chain[tip]

HasFailed(c) == Branch(c) \cap failed # {}

\* The candidates that FindMostWorkChain may return, and what it marks as
\* BLOCK_FAILED_CHILD on its way to c.
FindMostWorkChain ==
  {c \in Candidates : ~HasFailed(c) /\ \A d \in Candidates :
                                          Worse(c, d) => HasFailed(d)}

FailedChildren(c) ==
  {b \in Block : /\ Branch(b) \cap failed # {}
                 /\ \E d \in Candidates : /\ ~Worse(d, c) /\ HasFailed(d)
                                          /\ b \in Branch(d)}

\* Mutant: no ChainLock check.
ConnectBlockFailsUnchecked(b) == b \in Superblock /\ ~trigger

ConnectBlockFails(b) ==
  \/ InternalHasConflictingChainLock(b)
  \/ b \in Superblock /\ ~trigger

\* The lowest and the highest block of a set.
Lowest(B) == {b \in B : \A c \in B : Height[b] <= Height[c]}
Highest(B) == {b \in B : \A c \in B : Height[c] <= Height[b]}

\* The blocks of c's branch that connect: those below the first that fails.
Connectable(c) ==
  {b \in Branch(c) : \A d \in Chain[b] \cap Branch(c) : ~ConnectBlockFails(d)}

Better(c) == {b \in Connectable(c) : Height[b] > Height[tip]}

InvalidFound(c) == Better(c) = {} /\ c \notin Connectable(c)

\* The tip is first taken back to the fork, and then raised until it has more
\* work than before, until c is connected, or until a block fails.
ActivateBestChainStep(c) ==
  /\ tip' \in IF Better(c) # {} THEN Lowest(Better(c))
              ELSE Highest(Connectable(c) \cup (Chain[c] \cap Chain[tip]))
  /\ failed' = failed
       \cup (IF mostWork = None THEN FailedChildren(c) ELSE {})
       \cup (IF InvalidFound(c) THEN Lowest(Branch(c) \ Connectable(c)) ELSE {})

\* Where a thread goes when ActivateBestChain returns.
AfterActivate(t) == IF t = "sch" THEN Goto(t, "notify") /\ UNCHANGED pindex
                    ELSE Return(t)

\* One round of the loop.  A chain found in one round is kept for the next,
\* although cs_main is released between them.
ActivateBestChain(t) ==
  /\ pc[t] = "activate"
  /\ activating \in {None, t}
  /\ \E c \in IF mostWork = None THEN FindMostWorkChain ELSE {mostWork} :
       IF c = tip
       THEN /\ failed' = failed \cup (IF mostWork = None THEN FailedChildren(c)
                                                         ELSE {})
            /\ activating' = None /\ mostWork' = None
            /\ AfterActivate(t)
            /\ UNCHANGED tip
       ELSE /\ ActivateBestChainStep(c)
            /\ IF tip' = c
               THEN /\ activating' = None /\ mostWork' = None
                    /\ AfterActivate(t)
               ELSE /\ activating' = t
                    /\ mostWork' = IF InvalidFound(c) THEN None ELSE c
                    /\ UNCHANGED <<pc, pindex>>
  /\ UNCHANGED <<blocks, outside, active, locks>>

-----------------------------------------------------------------------------
(* Headers and blocks.                                                      *)

\* Mutant: a late header is not noticed.
AcceptedBlockHeaderForgetful(b) == b \in Block /\ UNCHANGED known

AcceptedBlockHeader(b) == known' = IF b = best THEN b ELSE known

\* A header on top of a failed or flagged one is refused.  One that conflicts
\* with the lock is added and flagged; AcceptedBlockHeader is then not called.
AcceptBlockHeader(b) ==
  /\ pc["net"] = "idle"
  /\ b \notin index /\ Prev(b) \in index
  /\ Prev(b) \notin failed \cup flagged
  /\ index' = index \cup {b}
  /\ IF InternalHasConflictingChainLock(b)
     THEN flagged' = flagged \cup {b} /\ UNCHANGED known
     ELSE AcceptedBlockHeader(b) /\ UNCHANGED flagged
  /\ UNCHANGED <<failed, data, sequenceId, tip, activating, mostWork, outside,
                 active, best, lastNotify, seen, lastSigned, pc, pindex>>

ProcessNewBlock(b) ==
  /\ pc["net"] = "idle"
  /\ b \in index \ (data \cup failed) /\ Prev(b) \in data
  /\ data' = data \cup {b}
  /\ sequenceId' = [sequenceId EXCEPT ![b] = Cardinality(data)]
  /\ Goto("net", "activate")
  /\ UNCHANGED <<index, flagged, failed, tip, activating, mostWork, outside,
                 active, locks, pindex>>

-----------------------------------------------------------------------------
(* CLSIGs.                                                                  *)

\* A CLSIG is marked as seen before anything else is known about it.
ProcessNewChainLock(t, b) ==
  /\ pc[t] = "idle"
  /\ b \notin seen
  /\ seen' = seen \cup {b}
  /\ IF Height[b] <= HeightOf(best)
     THEN UNCHANGED <<pc, pindex>>
     ELSE Goto(t, "verify") /\ pindex' = [pindex EXCEPT ![t] = b]
  /\ UNCHANGED <<blocks, failed, tip, activating, mostWork, outside, active,
                 best, known, lastNotify, lastSigned>>

ProcessMessage(b) == b \in Locked /\ ProcessNewChainLock("net", b)

HandleNewRecoveredSig(b) ==
  /\ b \in Locked
  /\ isSporkActive
  /\ b = lastSigned
  /\ HeightOf(best) < Height[b]
  /\ ProcessNewChainLock("work", b)

\* VerifyRecoveredSig fails when the chain does not reach the height at which
\* the quorum is looked up; the CLSIG stays in seenChainLocks.
VerifyRecoveredSig(t) ==
  /\ pc[t] = "verify"
  /\ IF Height[pindex[t]] - SignOffset > Height[tip]
     THEN Return(t)
     ELSE Goto(t, "commit") /\ UNCHANGED pindex
  /\ UNCHANGED <<blocks, failed, tip, activating, mostWork, outside, active,
                 locks>>

\* Mutant: the block need not be known.
CommitChainLockUnknown(t) ==
  /\ pc[t] = "commit"
  /\ Return(t)
  /\ IF InternalHasConflictingChainLock(pindex[t])
     THEN UNCHANGED <<best, known>>
     ELSE best' = pindex[t] /\ known' = pindex[t]
  /\ UNCHANGED <<blocks, failed, tip, activating, mostWork, outside, active,
                 lastNotify, seen, lastSigned>>

\* The second half of ProcessNewChainLock.
CommitChainLock(t) ==
  /\ pc[t] = "commit"
  /\ Return(t)
  /\ LET b == pindex[t]
     IN IF InternalHasConflictingChainLock(b)
        THEN UNCHANGED <<best, known>>
        ELSE best' = b /\ known' = IF b \in index THEN b ELSE known
  /\ UNCHANGED <<blocks, failed, tip, activating, mostWork, outside, active,
                 lastNotify, seen, lastSigned>>

-----------------------------------------------------------------------------
(* The scheduler's pass.                                                    *)

CheckActiveState ==
  /\ pc["sch"] = "idle"
  /\ Goto("sch", "enforce")
  /\ isSporkActive' = spork
  /\ isEnforced' = (spork /\ Height[tip] >= DIP8Height)
  /\ IF ~isEnforced /\ isEnforced'
     THEN best' = None /\ known' = None /\ lastNotify' = None
     ELSE UNCHANGED <<best, known, lastNotify>>
  /\ UNCHANGED <<blocks, failed, tip, activating, mostWork, outside, seen,
                 lastSigned, pindex>>

EnforceBestChainLock ==
  /\ pc["sch"] = "enforce"
  /\ IF isEnforced /\ known # None
     THEN Goto("sch", "invalidate") /\ pindex' = [pindex EXCEPT !["sch"] = known]
     ELSE Goto("sch", "sign") /\ UNCHANGED pindex
  /\ UNCHANGED <<blocks, failed, tip, activating, mostWork, outside, active,
                 locks>>

\* The known siblings of the blocks that the active chain lacks to reach b.
Siblings(b) ==
  {s \in index \ Chain[b] : s # Genesis /\ \E p \in Branch(b) : Prev(s) = Prev(p)}

\* InvalidateBlock: the active chain loses a block of B that it contains, with
\* everything above it.
InvalidateBlocks(B) == tip' \in Highest({c \in Chain[tip] : Chain[c] \cap B = {}})

IsValid(b, bad) == b \in data \ bad

\* Mutant: the ancestors keep their flags.
ResetBlockFailureFlagsUp(b, bad) == bad \ {c \in Block : b \in Chain[c]}

ResetBlockFailureFlags(b, bad) == bad \ {c \in Block : c \in Chain[b] \/ b \in Chain[c]}

\* Only the block itself, not its ancestors, is examined for a failure.
InvalidateConflicting ==
  /\ pc["sch"] = "invalidate"
  /\ InvalidateBlocks(Siblings(pindex["sch"]))
  /\ LET b == pindex["sch"]
         bad == failed \cup Siblings(b) \cup (Chain[tip] \ Chain[tip'])
     IN /\ failed' = IF IsValid(b, bad) THEN bad ELSE ResetBlockFailureFlags(b, bad)
        /\ Goto("sch", IF b \in Chain[tip'] THEN "notify" ELSE "activate")
  /\ UNCHANGED <<blocks, activating, mostWork, outside, active, locks, pindex>>

NotifyChainLock ==
  /\ pc["sch"] = "notify"
  /\ Goto("sch", "sign")
  /\ lastNotify' = IF pindex["sch"] \in Chain[tip] THEN pindex["sch"]
                   ELSE lastNotify
  /\ pindex' = [pindex EXCEPT !["sch"] = None]
  /\ UNCHANGED <<blocks, failed, tip, activating, mostWork, outside, active,
                 best, known, seen, lastSigned>>

\* CLSIGs are dropped from seenChainLocks after a day.
Cleanup == \E keep \in SUBSET seen : seen' = keep

\* The pass ends here if the node is no masternode, if the tip needs no
\* signature, or if one of its transactions is not safe yet.
TrySignChainTip ==
  /\ pc["sch"] = "sign"
  /\ Cleanup
  /\ \/ Return("sch")
     \/ /\ tip # Genesis
        /\ isSporkActive
        /\ HeightOf(lastSigned) # Height[tip]
        /\ HeightOf(best) < Height[tip]
        /\ ~InternalHasConflictingChainLock(tip)
        /\ Goto("sch", "signing")
        /\ pindex' = [pindex EXCEPT !["sch"] = tip]
  /\ UNCHANGED <<blocks, failed, tip, activating, mostWork, outside, active,
                 best, known, lastNotify, lastSigned>>

\* AsyncSignIfMember follows.
CommitSigned ==
  /\ pc["sch"] = "signing"
  /\ Return("sch")
  /\ lastSigned' = IF HeightOf(best) < Height[pindex["sch"]] THEN pindex["sch"]
                   ELSE lastSigned
  /\ UNCHANGED <<blocks, failed, tip, activating, mostWork, outside, active,
                 best, known, lastNotify, seen>>

-----------------------------------------------------------------------------
(* The rest of the node.                                                    *)

ToggleSpork ==
  /\ toggles < MaxToggles
  /\ spork' = ~spork /\ toggles' = toggles + 1
  /\ UNCHANGED <<blocks, failed, tip, activating, mostWork, trigger, restarts,
                 active, locks, pc, pindex>>

TriggerArrives ==
  /\ Superblock # {} /\ ~trigger
  /\ trigger' = TRUE
  /\ UNCHANGED <<blocks, failed, tip, activating, mostWork, spork, toggles,
                 restarts, active, locks, pc, pindex>>

\* The block index and the chain are on disk; sequence ids and everything of
\* CChainLocksHandler are not.
Restart ==
  /\ restarts < MaxRestarts
  /\ restarts' = restarts + 1
  /\ sequenceId' = [b \in Block |-> 0]
  /\ activating' = None /\ mostWork' = None
  /\ isSporkActive' = FALSE /\ isEnforced' = FALSE
  /\ best' = None /\ known' = None /\ lastNotify' = None
  /\ seen' = {} /\ lastSigned' = None
  /\ pc' = [t \in Thread |-> "idle"]
  /\ pindex' = [t \in Thread |-> None]
  /\ UNCHANGED <<index, flagged, failed, data, tip, spork, trigger, toggles>>

Next ==
  \/ \E b \in Block : AcceptBlockHeader(b)
  \/ \E b \in Block : ProcessNewBlock(b)
  \/ \E b \in Block : ProcessMessage(b)
  \/ \E b \in Block : HandleNewRecoveredSig(b)
  \/ \E t \in Thread : VerifyRecoveredSig(t)
  \/ \E t \in Thread : CommitChainLock(t)
  \/ \E t \in Thread : ActivateBestChain(t)
  \/ CheckActiveState
  \/ EnforceBestChainLock
  \/ InvalidateConflicting
  \/ NotifyChainLock
  \/ TrySignChainTip
  \/ CommitSigned
  \/ ToggleSpork
  \/ TriggerArrives
  \/ Restart

Spec == Init /\ [][Next]_vars

\* The scheduler and the message thread keep running; peers keep offering the
\* headers that the node lacks; the trigger is broadcast until it is there.
Fairness ==
  /\ WF_vars(CheckActiveState) /\ WF_vars(EnforceBestChainLock)
  /\ WF_vars(InvalidateConflicting) /\ WF_vars(NotifyChainLock)
  /\ WF_vars(TrySignChainTip) /\ WF_vars(CommitSigned)
  /\ \A t \in Thread : /\ WF_vars(ActivateBestChain(t))
                       /\ WF_vars(VerifyRecoveredSig(t))
                       /\ WF_vars(CommitChainLock(t))
  /\ \A b \in Block : WF_vars(AcceptBlockHeader(b))
  /\ WF_vars(TriggerArrives)

FairSpec == Spec /\ Fairness

-----------------------------------------------------------------------------
(* Properties.                                                              *)

\* Types; data is there only for known headers, and the active chain and the
\* chain in work are made of blocks whose data is there.
TypeOK ==
  /\ index \subseteq Block /\ flagged \subseteq index /\ failed \subseteq index
  /\ data \subseteq index
  /\ sequenceId \in [Block -> Nat]
  /\ tip \in data
  /\ activating \in Thread \cup {None} /\ mostWork \in data \cup {None}
  /\ spork \in BOOLEAN /\ trigger \in BOOLEAN
  /\ toggles \in 0 .. MaxToggles /\ restarts \in 0 .. MaxRestarts
  /\ isSporkActive \in BOOLEAN /\ isEnforced \in BOOLEAN
  /\ best \in Locked \cup {None} /\ known \in (Locked \cap index) \cup {None}
  /\ lastNotify \in BlockOrNone /\ lastSigned \in BlockOrNone
  /\ seen \subseteq Locked
  /\ pc \in [Thread -> {"idle", "verify", "commit", "activate", "enforce",
                        "invalidate", "notify", "sign", "signing"}]
  /\ pindex \in [Thread -> BlockOrNone]

\* The active chain does not leave an enforced lock for another branch: while
\* the lock stays the same and the chain is on the way to the locked block or
\* past it, no step makes it continue elsewhere, whichever thread activates a
\* chain, with whatever candidate it chose before the lock was there
\* (ActivateBestChain, ConnectBlock, InvalidateBlock).
OnWayTo(t, l) == t \in Chain[l] \/ l \in Chain[t]

LockHolds ==
  (/\ isEnforced /\ isEnforced' /\ known # None /\ known' = known
   /\ OnWayTo(tip, known))
    => OnWayTo(tip', known)

LockHeld == [][LockHolds]_vars

\* The header of the best lock's block is never known without the lock being
\* the one to enforce, whether header or CLSIG came first
\* (ProcessNewChainLock, AcceptedBlockHeader).
LateHeaderPickedUp == best \in index => known = best

\* The inductive invariant behind TypeOK and LateHeaderPickedUp: known headers
\* and data are closed under ancestors, the data is finite, a thread handles a CLSIG that exists,
\* and an enforced lock that is replaced by one without a known header is lower.
Closed(B) == \A b \in B : Chain[b] \subseteq B

Inv ==
  /\ TypeOK
  /\ Closed(index) /\ Closed(data) /\ IsFiniteSet(data)
  /\ \A t \in Thread : pc[t] \in {"verify", "commit"} => pindex[t] \in Locked
  /\ LateHeaderPickedUp
  /\ isEnforced /\ known # None /\ best # None /\ best \notin index
       => Height[known] < Height[best]

\* When all CLSIGs are on one chain and no block of it is invalid for another
\* reason, no block of it is ever marked as failed or flagged as conflicting:
\* an enforcement that began for an older lock, or a reorganisation under way,
\* harms only other branches (EnforceBestChainLock, AcceptBlockHeader).
LockedChainUnharmed == \A l \in Locked : Chain[l] \cap (failed \cup flagged) = {}

\* An enforced lock whose blocks are all there, and valid, ends up in the
\* active chain, unless another lock replaces it or ChainLocks are switched
\* off: no matter which branch was active, and also if a block of it had been
\* rejected before its trigger was known ("this should bring us to the correct
\* chain eventually").
Enforceable(l) ==
  known = l /\ isEnforced /\ l \in data /\ (trigger \/ Chain[l] \cap Superblock = {})

LockEnforced ==
  \A l \in Locked : Enforceable(l) ~> (l \in Chain[tip] \/ known # l \/ ~isEnforced)
=============================================================================
