------------------------------ MODULE Signing ------------------------------
(***************************************************************************)
(* Threshold signing by long-living masternode quorums: CSigningManager    *)
(* and the signing half of CSigSharesManager, on every masternode.         *)
(*                                                                         *)
(* A caller (ChainLocks, InstantSend) asks for the request id to be signed *)
(* for a msgHash.  The masternode records its one vote for that id in the  *)
(* LLMQ database, selects the quorum at its own tip height and signs a     *)
(* share.  Shares travel between members; who holds Threshold shares of a  *)
(* session recovers the signature and announces it.                        *)
(*                                                                         *)
(* Abstractions.  One LLMQ type.  BLS is ideal: a share or a recovered     *)
(* signature is the record of what it signs and by whom.  The network is   *)
(* the set of what was ever sent, so a message may be lost, delayed,       *)
(* duplicated and reordered.  The announce / request exchange that moves   *)
(* shares, and the queues between the message thread and the worker, are   *)
(* folded into that set.  Ages and timeouts are nondeterministic (any      *)
(* vote, session or recovered signature may turn out to be old).           *)
(***************************************************************************)
EXTENDS Integers, FiniteSets

CONSTANTS
  Node,             \* masternodes
  Id, Msg,          \* request ids and message hashes
  NoMsg,            \* not a Msg: no vote
  NoSig,            \* not a recovered signature
  Quorum,           \* quorums that get mined
  Members,          \* Members[q]: all members of the final commitment
  ValidMembers,     \* ValidMembers[q]: those set in qc.validMembers
  Keyed,            \* Keyed[q]: members holding the vvec and their skShare
  Threshold,        \* params.threshold
  MinedAt,          \* MinedAt[q]: height of the block that mined q
  Score,            \* Score[q][i]: rank of H(llmqType, quorumHash, id)
  PoolSize,         \* params.signingActiveQuorumCount
  SignHeightOffset, \* SIGN_HEIGHT_OFFSET
  MaxHeight,        \* bound: highest tip explored
  ReSigning,        \* bound: nodes that are asked to sign again (allowReSign)
  Aging,            \* bound: nodes whose votes and recovered sigs get old
  Crashing          \* bound: nodes that restart or whose sessions time out

Height == 0 .. MaxHeight
Session == [q : Quorum, id : Id, msg : Msg]
SigShare == [q : Quorum, id : Id, msg : Msg, m : Node]
RecSig == Session

SessionOf(s) == [q |-> s.q, id |-> s.id, msg |-> s.msg]

ASSUME SigningAssumption ==
  /\ NoMsg \notin Msg
  /\ NoSig \notin RecSig
  /\ Members \in [Quorum -> SUBSET Node]
  /\ ValidMembers \in [Quorum -> SUBSET Node]
  /\ Keyed \in [Quorum -> SUBSET Node]
  /\ \A q \in Quorum : /\ ValidMembers[q] \subseteq Members[q]
                       /\ IsFiniteSet(Members[q])
  /\ Threshold \in Nat \ {0}
  /\ MinedAt \in [Quorum -> Nat]
  /\ Score \in [Quorum -> [Id -> Nat]]
  /\ \A p, q \in Quorum, i \in Id : Score[p][i] = Score[q][i] => p = q
  /\ PoolSize \in Nat \ {0}
  /\ SignHeightOffset \in Nat
  /\ MaxHeight \in Nat

VARIABLES
  tip,          \* tip[n]: chainActive.Height()
  vote,         \* vote[n][i]: the rs_v key, persistent
  calls,        \* calls[n]: AsyncSignIfMember calls between their two halves
  pendingSigns, \* pendingSigns[n]: sessions handed to the signing worker
  sigShares,    \* sigShares[n]: verified shares held
  recSig,       \* recSig[n][i]: the rs_r key, persistent
  sentShares,   \* every share ever signed and stored: the network may carry it
  sentRec,      \* every recovered signature ever announced
  forgot        \* history: <<n, i>> such that n's vote on i was cleaned up

vars == <<tip, vote, calls, pendingSigns, sigShares, recSig,
          sentShares, sentRec, forgot>>

-----------------------------------------------------------------------------
(* Selection of the quorum that signs or verifies.                         *)

\* quorumManager->ScanQuorums: the newest cnt quorums mined at or below h.
ScanQuorums(h, cnt) ==
  {q \in Quorum :
     /\ MinedAt[q] <= h
     /\ Cardinality({p \in Quorum : MinedAt[p] <= h /\ MinedAt[p] > MinedAt[q]}) < cnt}

GetActiveQuorumSet(h) == ScanQuorums(h - SignHeightOffset, PoolSize)

\* The member of the active set with the lowest score; a set of at most one.
SelectQuorumForSigning(h, i) ==
  {q \in GetActiveQuorumSet(h) :
     \A p \in GetActiveQuorumSet(h) : Score[q][i] <= Score[p][i]}

IsQuorumActive(n, q) == q \in ScanQuorums(tip[n], PoolSize + 1)

HasVotedOnId(n, i) == vote[n][i] # NoMsg
HasRecoveredSigForId(n, i) == recSig[n][i] # NoSig

Init ==
  /\ tip \in [Node -> Height]
  /\ vote = [n \in Node |-> [i \in Id |-> NoMsg]]
  /\ calls = [n \in Node |-> {}]
  /\ pendingSigns = [n \in Node |-> {}]
  /\ sigShares = [n \in Node |-> {}]
  /\ recSig = [n \in Node |-> [i \in Id |-> NoSig]]
  /\ sentShares = {}
  /\ sentRec = {}
  /\ forgot = {}

-----------------------------------------------------------------------------
(* Asking for a signature.                                                 *)

\* Mutant: the vote of the database is not consulted.
AsyncSignIfMemberUnchecked(n, i, msg, allowReSign) ==
  /\ ~ HasRecoveredSigForId(n, i)
  /\ vote' = [vote EXCEPT ![n][i] = msg]
  /\ calls' = [calls EXCEPT ![n] = @ \cup {[id |-> i, msg |-> msg]}]
  /\ UNCHANGED <<tip, pendingSigns, sigShares, recSig, sentShares, sentRec, forgot>>

\* First half of AsyncSignIfMember, under CSigningManager::cs.  The early
\* returns (voted otherwise, voted and not re-signing, already recovered)
\* change nothing and are the negation of the guard.
AsyncSignIfMember(n, i, msg, allowReSign) ==
  /\ HasVotedOnId(n, i) => vote[n][i] = msg /\ allowReSign
  /\ ~ HasRecoveredSigForId(n, i)
  /\ vote' = [vote EXCEPT ![n][i] = msg]
  /\ calls' = [calls EXCEPT ![n] = @ \cup {[id |-> i, msg |-> msg]}]
  /\ UNCHANGED <<tip, pendingSigns, sigShares, recSig, sentShares, sentRec, forgot>>

\* Second half: the tip is read under cs_main, the quorum selected, and the
\* session handed to the worker when this node is a valid member.
SelectAndSign(n, c) ==
  /\ c \in calls[n]
  /\ calls' = [calls EXCEPT ![n] = @ \ {c}]
  /\ pendingSigns' = [pendingSigns EXCEPT ![n] = @ \cup
       {[q |-> q, id |-> c.id, msg |-> c.msg] :
          q \in {p \in SelectQuorumForSigning(tip[n], c.id) : n \in ValidMembers[p]}}]
  /\ UNCHANGED <<tip, vote, sigShares, recSig, sentShares, sentRec, forgot>>

-----------------------------------------------------------------------------
(* The worker thread of CSigSharesManager.                                 *)

SharesOf(ss, r) == {s \in ss : SessionOf(s) = r}

\* Mutant: a later signature overwrites the stored one.
ProcessRecoveredSigOverwrite(n, r, shares) ==
  /\ recSig' = [recSig EXCEPT ![n][r.id] = r]
  /\ sentRec' = sentRec \cup {r}
  /\ sigShares' = [sigShares EXCEPT ![n] = shares \ SharesOf(shares, r)]

\* ProcessRecoveredSig on node n, which holds shares: the first signature of
\* an id is kept and announced, and the listener HandleNewRecoveredSig removes
\* the session's shares.
ProcessRecoveredSig(n, r, shares) ==
  IF HasRecoveredSigForId(n, r.id)
    THEN /\ sigShares' = [sigShares EXCEPT ![n] = shares]
         /\ UNCHANGED <<recSig, sentRec>>
    ELSE /\ recSig' = [recSig EXCEPT ![n][r.id] = r]
         /\ sentRec' = sentRec \cup {r}
         /\ sigShares' = [sigShares EXCEPT ![n] = shares \ SharesOf(shares, r)]

\* Mutant: recovery is tried one share too early.
ProcessSigShareEarly(n, s) ==
  LET shares == sigShares[n] \cup {s}
  IN IF HasRecoveredSigForId(n, s.id) \/ s \in sigShares[n]
       THEN UNCHANGED <<sigShares, recSig, sentRec>>
       ELSE IF Cardinality(SharesOf(shares, SessionOf(s))) >= Threshold - 1
         THEN ProcessRecoveredSig(n, SessionOf(s), shares)
         ELSE /\ sigShares' = [sigShares EXCEPT ![n] = shares]
              /\ UNCHANGED <<recSig, sentRec>>

\* ProcessSigShare and TryRecoverSig: node n stores the verified share s and
\* recovers the signature once it holds Threshold shares of the session.
ProcessSigShare(n, s) ==
  LET shares == sigShares[n] \cup {s}
  IN IF HasRecoveredSigForId(n, s.id) \/ s \in sigShares[n]
       THEN UNCHANGED <<sigShares, recSig, sentRec>>
       ELSE IF Cardinality(SharesOf(shares, SessionOf(s))) >= Threshold
         THEN ProcessRecoveredSig(n, SessionOf(s), shares)
         ELSE /\ sigShares' = [sigShares EXCEPT ![n] = shares]
              /\ UNCHANGED <<recSig, sentRec>>

\* SignPendingSigShares / Sign: sign one queued session; the share of an id
\* that is already recovered is dropped by ProcessSigShare.
Sign(n, p) ==
  LET s == [q |-> p.q, id |-> p.id, msg |-> p.msg, m |-> n]
  IN /\ p \in pendingSigns[n]
     /\ pendingSigns' = [pendingSigns EXCEPT ![n] = @ \ {p}]
     /\ IF n \in ValidMembers[p.q] /\ n \in Keyed[p.q]
          THEN /\ ProcessSigShare(n, s)
               /\ sentShares' = IF HasRecoveredSigForId(n, p.id)
                                  THEN sentShares ELSE sentShares \cup {s}
          ELSE UNCHANGED <<sigShares, recSig, sentRec, sentShares>>
     /\ UNCHANGED <<tip, vote, calls, forgot>>

\* ProcessMessageBatchedSigShares and ProcessPendingSigShares: a share reaches
\* node n and is verified and processed.
ReceiveSigShare(n, s) ==
  /\ s \in sentShares
  /\ IsQuorumActive(n, s.q)
  /\ n \in Members[s.q] /\ n \in Keyed[s.q]
  /\ s.m \in ValidMembers[s.q]
  /\ ProcessSigShare(n, s)
  /\ UNCHANGED <<tip, vote, calls, pendingSigns, sentShares, forgot>>

\* ProcessMessageRecoveredSig and ProcessPendingRecoveredSigs for a signature
\* that another node announced.  A signature rebuilt from an ISLOCK or CLSIG
\* (PushReconstructedRecoveredSig) comes without the check of its quorum.
ReceiveRecoveredSig(n, r, rebuilt) ==
  /\ r \in sentRec
  /\ rebuilt \/ IsQuorumActive(n, r.q)
  /\ ProcessRecoveredSig(n, r, sigShares[n])
  /\ UNCHANGED <<tip, vote, calls, pendingSigns, sentShares, forgot>>

-----------------------------------------------------------------------------
(* Cleanup, restart and the chain.                                         *)

\* CSigSharesManager::Cleanup: a session timed out, was recovered, or its
\* quorum became inactive; RemoveSigSharesForSession.
RemoveSigSharesForSession(n, r) ==
  /\ n \in Crashing
  /\ SharesOf(sigShares[n], r) # {}
  /\ sigShares' = [sigShares EXCEPT ![n] = @ \ SharesOf(@, r)]
  /\ UNCHANGED <<tip, vote, calls, pendingSigns, recSig, sentShares, sentRec, forgot>>

\* CleanupOldVotes, worker thread.
CleanupOldVotes(n, i) ==
  /\ n \in Aging
  /\ HasVotedOnId(n, i)
  /\ vote' = [vote EXCEPT ![n][i] = NoMsg]
  /\ forgot' = forgot \cup {<<n, i>>}
  /\ UNCHANGED <<tip, calls, pendingSigns, sigShares, recSig,
                 sentShares, sentRec>>

\* CleanupOldRecoveredSigs, or RemoveRecoveredSig called by InstantSend.
RemoveRecoveredSig(n, i) ==
  /\ n \in Aging
  /\ HasRecoveredSigForId(n, i)
  /\ recSig' = [recSig EXCEPT ![n][i] = NoSig]
  /\ UNCHANGED <<tip, vote, calls, pendingSigns, sigShares, sentShares, sentRec, forgot>>

\* The process stops and starts again: only the database survives.
Restart(n) ==
  /\ n \in Crashing
  /\ calls' = [calls EXCEPT ![n] = {}]
  /\ pendingSigns' = [pendingSigns EXCEPT ![n] = {}]
  /\ sigShares' = [sigShares EXCEPT ![n] = {}]
  /\ UNCHANGED <<tip, vote, recSig, sentShares, sentRec, forgot>>

\* The active chain moves: a block is connected, or disconnected by a reorg.
TipChanged(n, h) ==
  /\ h \in {tip[n] - 1, tip[n] + 1} \cap Height
  /\ tip' = [tip EXCEPT ![n] = h]
  /\ UNCHANGED <<vote, calls, pendingSigns, sigShares, recSig,
                 sentShares, sentRec, forgot>>

Next ==
  \E n \in Node :
    \/ \E i \in Id, msg \in Msg, allowReSign \in {r \in BOOLEAN : r => n \in ReSigning} :
         AsyncSignIfMember(n, i, msg, allowReSign)
    \/ \E c \in calls[n] : SelectAndSign(n, c)
    \/ \E p \in pendingSigns[n] : Sign(n, p)
    \/ \E s \in sentShares : ReceiveSigShare(n, s)
    \/ \E r \in sentRec, rebuilt \in BOOLEAN : ReceiveRecoveredSig(n, r, rebuilt)
    \/ \E r \in Session : RemoveSigSharesForSession(n, r)
    \/ \E i \in Id : CleanupOldVotes(n, i)
    \/ \E i \in Id : RemoveRecoveredSig(n, i)
    \/ Restart(n)
    \/ \E h \in Height : TipChanged(n, h)

Spec == Init /\ [][Next]_vars

-----------------------------------------------------------------------------
(* Properties.                                                             *)

\* Type invariant.
TypeOK ==
  /\ tip \in [Node -> Height]
  /\ vote \in [Node -> [Id -> Msg \cup {NoMsg}]]
  /\ calls \in [Node -> SUBSET [id : Id, msg : Msg]]
  /\ pendingSigns \in [Node -> SUBSET Session]
  /\ sigShares \in [Node -> SUBSET SigShare]
  /\ recSig \in [Node -> [Id -> RecSig \cup {NoSig}]]
  /\ sentShares \subseteq SigShare
  /\ sentRec \subseteq RecSig
  /\ forgot \subseteq Node \X Id

\* The members whose share for session r was signed.
Signers(r) == {m \in Node : [q |-> r.q, id |-> r.id, msg |-> r.msg, m |-> m] \in sentShares}

Forgotten(i) == \E n \in Node : <<n, i>> \in forgot

\* Any Threshold valid members of p and any Threshold valid members of q have
\* one in common.  It holds for p = q when 2 * Threshold exceeds the quorum's
\* size, as in every LLMQ type of chainparams.cpp.
Intersecting(p, q) ==
  Cardinality(ValidMembers[p] \cup ValidMembers[q]) < 2 * Threshold

\* A masternode never signs two msgHashes for one request id, not even across
\* a restart or a change of the selected quorum (AsyncSignIfMember: "already
\* voted ... Not voting on conflicting msgHash"), unless its vote was cleaned.
OneVotePerId ==
  \A s, t \in sentShares :
    s.m = t.m /\ s.id = t.id /\ <<s.m, s.id>> \notin forgot => s.msg = t.msg

\* Every recovered signature that a node stores, queues or announces was
\* really signed by Threshold valid members of its quorum (TryRecoverSig).
RecoveredByThreshold ==
  \A r \in RecSig :
    r \in sentRec \/ (\E n \in Node : recSig[n][r.id] = r) =>
      /\ Signers(r) \subseteq ValidMembers[r.q]
      /\ Cardinality(Signers(r)) >= Threshold

\* No two conflicting recovered signatures exist for one request id whenever
\* the two quorums involved cannot both have a majority, whatever the tips of
\* the members were (ProcessRecoveredSig: "a majority is only possible on one
\* quorum and one msgHash per id").
NoConflictingRecoveredSigs ==
  \A r, t \in sentRec :
    r.id = t.id /\ Intersecting(r.q, t.q) /\ ~ Forgotten(r.id) => r.msg = t.msg

\* A stored recovered signature is never replaced by another one: the first
\* is kept until it is removed (ProcessRecoveredSig returns early).
FirstRecoveredSigStays ==
  [][\A n \in Node, i \in Id :
       recSig[n][i] # NoSig => recSig'[n][i] \in {recSig[n][i], NoSig}]_vars

\* The inductive invariant behind the three properties above: what a node
\* signs, or is about to sign, is bound by its vote; shares held were signed;
\* recovered signatures are backed by Threshold signers.
Bound(n, i, msg) == vote[n][i] = msg \/ <<n, i>> \in forgot

Inv ==
  /\ TypeOK
  /\ \A n \in Node : \A c \in calls[n] : Bound(n, c.id, c.msg)
  /\ \A n \in Node : \A p \in pendingSigns[n] : Bound(n, p.id, p.msg)
  /\ \A s \in sentShares : Bound(s.m, s.id, s.msg) /\ s.m \in ValidMembers[s.q]
  /\ \A n \in Node : sigShares[n] \subseteq sentShares
  /\ \A n \in Node, i \in Id : recSig[n][i] # NoSig =>
       recSig[n][i] \in sentRec /\ recSig[n][i].id = i
  /\ \A r \in sentRec : Cardinality(Signers(r)) >= Threshold

\* Refinement: when no two quorums can both have a majority, the signatures
\* announced by all nodes together behave as SignedOnce says.
SignedMsgs == [i \in Id |-> {r.msg : r \in {t \in sentRec : t.id = i}}]
ExpiredIds == {i \in Id : Forgotten(i)}
Abstract == INSTANCE SignedOnce WITH signed <- SignedMsgs, expired <- ExpiredIds
ImplementsSignedOnce == Abstract!Spec

=============================================================================
