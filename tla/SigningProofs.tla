--------------------------- MODULE SigningProofs ---------------------------
(***************************************************************************)
(* Proofs about Signing, for any number of masternodes, quorums, ids and   *)
(* message hashes.                                                         *)
(***************************************************************************)
EXTENDS Signing, FiniteSetTheorems, TLAPS

-----------------------------------------------------------------------------
(* Cardinalities.                                                          *)

\* Two sets of at least k elements inside A and B meet when A \cup B has fewer
\* than 2k elements: a masternode common to both majorities.
LEMMA MajoritiesMeet ==
  ASSUME NEW A, NEW B, IsFiniteSet(A), IsFiniteSet(B),
         NEW S \in SUBSET A, NEW T \in SUBSET B, NEW k \in Nat,
         Cardinality(A \cup B) < 2 * k,
         Cardinality(S) >= k, Cardinality(T) >= k
  PROVE  \E m \in S : m \in T
<1>1. IsFiniteSet(S) /\ IsFiniteSet(T)
  BY FS_Subset
<1>2. /\ IsFiniteSet(S \cup T) /\ IsFiniteSet(S \cap T)
      /\ Cardinality(S \cup T) = Cardinality(S) + Cardinality(T) - Cardinality(S \cap T)
  BY Zenon, <1>1, FS_Union, FS_Subset
<1>3. Cardinality(S \cup T) <= Cardinality(A \cup B)
  <2>1. IsFiniteSet(A \cup B)
    BY Zenon, FS_Union
  <2>2. S \cup T \in SUBSET (A \cup B)
    OBVIOUS
  <2> QED
    BY <2>1, <2>2, FS_Subset
<1>4. /\ Cardinality(S) \in Nat /\ Cardinality(T) \in Nat
      /\ Cardinality(S \cap T) \in Nat /\ Cardinality(A \cup B) \in Nat
  BY Zenon, <1>1, <1>2, FS_CardinalityType, FS_Union
<1>5. Cardinality(S \cap T) # 0
  BY <1>2, <1>3, <1>4
<1>6. S \cap T # {}
  BY <1>5, FS_EmptySet
<1> QED
  BY <1>6

\* The valid members of a quorum are finitely many.
LEMMA ValidMembersFinite ==
  ASSUME NEW q \in Quorum
  PROVE  /\ IsFiniteSet(ValidMembers[q])
         /\ ValidMembers[q] \in SUBSET Members[q]
<1>1. ValidMembers[q] \in SUBSET Members[q] /\ IsFiniteSet(Members[q])
  BY SigningAssumption
<1> QED
  BY <1>1, FS_Subset

\* A set of shares of one session has no more elements than the session has
\* signers: what CountForSignHash counts are distinct members.
LEMMA SharesCountSigners ==
  ASSUME NEW ss \in SUBSET SigShare, NEW r \in Session,
         NEW M, IsFiniteSet(M),
         \A s \in ss : SessionOf(s) = r => s.m \in M
  PROVE  /\ IsFiniteSet(SharesOf(ss, r))
         /\ Cardinality(SharesOf(ss, r)) <= Cardinality(M)
<1> DEFINE f == [s \in SharesOf(ss, r) |-> s.m]
<1>1. f \in [SharesOf(ss, r) -> M]
  BY DEF SharesOf
<1>2. ASSUME NEW s \in SharesOf(ss, r), NEW t \in SharesOf(ss, r), f[s] = f[t]
      PROVE  s = t
  <2>1. /\ s \in SigShare /\ t \in SigShare
        /\ s.m = t.m /\ SessionOf(s) = SessionOf(t)
    BY <1>2 DEF SharesOf
  <2>2. s.q = t.q /\ s.id = t.id /\ s.msg = t.msg
    BY <2>1 DEF SessionOf, SigShare
  <2> QED
    BY <2>1, <2>2 DEF SigShare
<1>3. f \in Injection(SharesOf(ss, r), M)
  BY <1>1, <1>2 DEF Injection, IsInjective
<1> QED
  BY <1>3, FS_Injection

-----------------------------------------------------------------------------
(* Steps of the worker thread, shared by several actions.                  *)

\* Shares are only ever added, and only by valid members.
SharesGrow ==
  /\ sentShares \subseteq sentShares'
  /\ sentShares' \subseteq SigShare
  /\ \A s \in sentShares' : s.m \in ValidMembers[s.q]

\* A session that had Threshold signers keeps them, and the signers of a
\* session are finitely many valid members.
LEMMA SignersGrow ==
  ASSUME SharesGrow, NEW r \in Session
  PROVE  /\ Signers(r)' \subseteq ValidMembers[r.q]
         /\ IsFiniteSet(Signers(r)')
         /\ Cardinality(Signers(r)') \in Nat
         /\ Cardinality(Signers(r)) >= Threshold => Cardinality(Signers(r)') >= Threshold
<1>1. Signers(r)' \subseteq ValidMembers[r.q]
  BY DEF SharesGrow, Signers, SigShare, Session
<1>2. IsFiniteSet(Signers(r)')
  BY Zenon, <1>1, ValidMembersFinite, FS_Subset DEF Session
<1>3. Signers(r) \subseteq Signers(r)'
  BY DEF SharesGrow, Signers
<1>4. /\ Cardinality(Signers(r)') \in Nat /\ Cardinality(Signers(r)) \in Nat
      /\ Cardinality(Signers(r)) <= Cardinality(Signers(r)')
  BY <1>2, <1>3, FS_Subset, FS_CardinalityType
<1> QED
  BY <1>1, <1>2, <1>4, SigningAssumption

\* What ProcessRecoveredSig keeps true of the share and signature stores.
Stores ==
  /\ sigShares \in [Node -> SUBSET SigShare]
  /\ recSig \in [Node -> [Id -> RecSig \cup {NoSig}]]
  /\ sentRec \subseteq RecSig
  /\ \A n \in Node : sigShares[n] \subseteq sentShares
  /\ \A n \in Node, i \in Id : recSig[n][i] # NoSig =>
       recSig[n][i] \in sentRec /\ recSig[n][i].id = i
  /\ \A r \in sentRec : Cardinality(Signers(r)) >= Threshold

\* The stores are untouched.
LEMMA StoresUnchanged ==
  ASSUME Stores, SharesGrow, UNCHANGED <<sigShares, recSig, sentRec>>
  PROVE  Stores'
<1>1. \A r \in sentRec' : Cardinality(Signers(r)') >= Threshold
  BY SignersGrow DEF Stores, RecSig
<1> QED
  BY <1>1 DEF Stores, SharesGrow

\* The signature r, backed by Threshold signers, is processed.
LEMMA ProcessRecoveredSigStores ==
  ASSUME Stores, SharesGrow, NEW n \in Node, NEW r \in Session,
         NEW shares \in SUBSET SigShare, shares \subseteq sentShares',
         Cardinality(Signers(r)') >= Threshold,
         ProcessRecoveredSig(n, r, shares)
  PROVE  Stores'
<1>1. \A t \in sentRec' : Cardinality(Signers(t)') >= Threshold
  <2>1. sentRec' \subseteq sentRec \cup {r}
    BY DEF ProcessRecoveredSig
  <2>2. \A t \in sentRec : Cardinality(Signers(t)') >= Threshold
    BY SignersGrow DEF Stores, RecSig
  <2> QED
    BY <2>1, <2>2
<1>2. /\ sigShares' \in [Node -> SUBSET SigShare]
      /\ \A m \in Node : sigShares'[m] \subseteq sentShares'
  BY DEF ProcessRecoveredSig, Stores, SharesGrow
<1>3. /\ recSig' \in [Node -> [Id -> RecSig \cup {NoSig}]]
      /\ sentRec' \subseteq RecSig
  <2>1. CASE HasRecoveredSigForId(n, r.id)
    BY <2>1 DEF ProcessRecoveredSig, Stores
  <2>2. CASE ~ HasRecoveredSigForId(n, r.id)
    <3>1. r \in RecSig /\ r.id \in Id
      BY DEF RecSig, Session
    <3>2. [recSig[n] EXCEPT ![r.id] = r] \in [Id -> RecSig \cup {NoSig}]
      BY <3>1 DEF Stores
    <3>3. /\ recSig' = [recSig EXCEPT ![n] = [recSig[n] EXCEPT ![r.id] = r]]
          /\ sentRec' = sentRec \cup {r}
      BY <2>2 DEF ProcessRecoveredSig
    <3> QED
      BY <3>1, <3>2, <3>3 DEF Stores
  <2> QED
    BY <2>1, <2>2
<1>4. \A m \in Node, i \in Id : recSig'[m][i] # NoSig =>
        recSig'[m][i] \in sentRec' /\ recSig'[m][i].id = i
  BY DEF ProcessRecoveredSig, Stores, RecSig, Session
<1> QED
  BY <1>1, <1>2, <1>3, <1>4 DEF Stores

\* A verified share s, signed by a valid member, is processed.
LEMMA ProcessSigShareStores ==
  ASSUME Stores, SharesGrow, NEW n \in Node, NEW s \in sentShares',
         ProcessSigShare(n, s)
  PROVE  Stores'
<1> DEFINE shares == sigShares[n] \cup {s}
           r == SessionOf(s)
<1>1. /\ s \in SigShare /\ r \in Session
      /\ shares \in SUBSET SigShare /\ shares \subseteq sentShares'
  BY DEF SharesGrow, Stores, SessionOf, SigShare, Session
<1>2. CASE HasRecoveredSigForId(n, s.id) \/ s \in sigShares[n]
  BY <1>2, StoresUnchanged DEF ProcessSigShare
<1>3. CASE /\ ~ (HasRecoveredSigForId(n, s.id) \/ s \in sigShares[n])
           /\ ~ Cardinality(SharesOf(shares, r)) >= Threshold
  <2>1. /\ sigShares' = [sigShares EXCEPT ![n] = shares]
        /\ UNCHANGED <<recSig, sentRec>>
    BY <1>3 DEF ProcessSigShare
  <2>2. \A t \in sentRec' : Cardinality(Signers(t)') >= Threshold
    BY <2>1, SignersGrow DEF Stores, RecSig
  <2> QED
    BY <1>1, <2>1, <2>2 DEF Stores, SharesGrow
<1>4. CASE /\ ~ (HasRecoveredSigForId(n, s.id) \/ s \in sigShares[n])
           /\ Cardinality(SharesOf(shares, r)) >= Threshold
  <2>1. ProcessRecoveredSig(n, r, shares)
    BY <1>4 DEF ProcessSigShare
  <2>2. \A t \in shares : SessionOf(t) = r => t.m \in Signers(r)'
    BY <1>1 DEF Signers, SessionOf, SigShare
  <2>3. Cardinality(SharesOf(shares, r)) <= Cardinality(Signers(r)')
    BY <1>1, <2>2, SharesCountSigners, SignersGrow
  <2>4. Cardinality(SharesOf(shares, r)) \in Nat
    <3>1. IsFiniteSet(SharesOf(shares, r))
      BY <1>1, <2>2, SharesCountSigners, SignersGrow
    <3> QED
      BY <3>1, FS_CardinalityType
  <2>5. Cardinality(Signers(r)') >= Threshold
    BY <1>1, <1>4, <2>3, <2>4, SignersGrow, SigningAssumption
  <2> QED
    BY <1>1, <2>1, <2>5, ProcessRecoveredSigStores
<1> QED
  BY <1>2, <1>3, <1>4

-----------------------------------------------------------------------------
(* The inductive invariant, as its vote half and its store half.           *)

Votes ==
  /\ tip \in [Node -> Height]
  /\ vote \in [Node -> [Id -> Msg \cup {NoMsg}]]
  /\ calls \in [Node -> SUBSET [id : Id, msg : Msg]]
  /\ pendingSigns \in [Node -> SUBSET Session]
  /\ sentShares \subseteq SigShare
  /\ forgot \subseteq Node \X Id
  /\ \A n \in Node : \A c \in calls[n] : Bound(n, c.id, c.msg)
  /\ \A n \in Node : \A p \in pendingSigns[n] : Bound(n, p.id, p.msg)
  /\ \A s \in sentShares : Bound(s.m, s.id, s.msg) /\ s.m \in ValidMembers[s.q]

LEMMA InvSplit == Inv <=> Votes /\ Stores
BY DEF Inv, TypeOK, Votes, Stores

LEMMA InitInv == Init => Inv
<1> SUFFICES ASSUME Init PROVE Inv
  OBVIOUS
<1>1. Votes
  BY DEF Init, Votes
<1>2. Stores
  BY Zenon DEF Init, Stores
<1> QED
  BY <1>1, <1>2, InvSplit

\* The first half of AsyncSignIfMember binds the node to msg and breaks no
\* earlier binding, because a recorded vote is never changed.
LEMMA AsyncSignVotes ==
  ASSUME Votes, NEW n \in Node, NEW i \in Id, NEW msg \in Msg,
         NEW allowReSign \in BOOLEAN, AsyncSignIfMember(n, i, msg, allowReSign)
  PROVE  Votes'
<1>1. vote[n][i] \in {msg, NoMsg}
  BY Zenon DEF AsyncSignIfMember, HasVotedOnId
<1>2. vote' \in [Node -> [Id -> Msg \cup {NoMsg}]]
  <2>1. [vote[n] EXCEPT ![i] = msg] \in [Id -> Msg \cup {NoMsg}]
    BY DEF Votes
  <2>2. vote' = [vote EXCEPT ![n] = [vote[n] EXCEPT ![i] = msg]]
    BY DEF AsyncSignIfMember
  <2> QED
    BY <2>1, <2>2 DEF Votes
<1>3. ASSUME NEW m \in Node, NEW j \in Id, NEW x \in Msg, Bound(m, j, x)
      PROVE  Bound(m, j, x)'
  <2>1. x # NoMsg
    BY Zenon, SigningAssumption
  <2> QED
    BY <1>1, <1>3, <2>1 DEF AsyncSignIfMember, Votes, Bound
<1>4. Bound(n, i, msg)'
  BY Zenon DEF AsyncSignIfMember, Votes, Bound
<1>5. calls' \in [Node -> SUBSET [id : Id, msg : Msg]]
  BY DEF AsyncSignIfMember, Votes
<1>6. \A m \in Node : \A c \in calls'[m] : Bound(m, c.id, c.msg)'
  <2> SUFFICES ASSUME NEW m \in Node, NEW c \in calls'[m]
               PROVE  Bound(m, c.id, c.msg)'
    OBVIOUS
  <2>1. CASE c \in calls[m]
    BY <1>3, <2>1 DEF Votes
  <2>2. CASE c \notin calls[m]
    <3>1. m = n /\ c = [id |-> i, msg |-> msg]
      BY Zenon, <2>2 DEF AsyncSignIfMember, Votes
    <3> QED
      BY Zenon, <1>4, <3>1
  <2> QED
    BY <2>1, <2>2
<1>7. \A m \in Node : \A p \in pendingSigns'[m] : Bound(m, p.id, p.msg)'
  BY <1>3 DEF AsyncSignIfMember, Votes, Session
<1>8. \A s \in sentShares' : Bound(s.m, s.id, s.msg)' /\ s.m \in ValidMembers[s.q]
  BY Zenon, <1>3 DEF AsyncSignIfMember, Votes, SigShare
<1> QED
  BY <1>2, <1>5, <1>6, <1>7, <1>8 DEF AsyncSignIfMember, Votes

\* The second half queues a session for the same msgHash.
LEMMA SelectAndSignVotes ==
  ASSUME Votes, NEW n \in Node, NEW c \in calls[n], SelectAndSign(n, c)
  PROVE  Votes'
<1> DEFINE new == {[q |-> q, id |-> c.id, msg |-> c.msg] :
              q \in {p \in SelectQuorumForSigning(tip[n], c.id) : n \in ValidMembers[p]}}
<1>1. c \in [id : Id, msg : Msg] /\ Bound(n, c.id, c.msg)
  BY Zenon DEF Votes
<1>2. new \subseteq Session
  <2>1. SelectQuorumForSigning(tip[n], c.id) \subseteq Quorum
    BY DEF SelectQuorumForSigning, GetActiveQuorumSet, ScanQuorums
  <2> HIDE DEF SelectQuorumForSigning
  <2> QED
    BY <1>1, <2>1 DEF Session
<1>3. \A p \in new : p.id = c.id /\ p.msg = c.msg
  OBVIOUS
<1>4. /\ pendingSigns' = [pendingSigns EXCEPT ![n] = @ \cup new]
      /\ calls' = [calls EXCEPT ![n] = @ \ {c}]
      /\ UNCHANGED <<tip, vote, sentShares, forgot>>
  BY DEF SelectAndSign
<1> HIDE DEF new
<1>5. \A m \in Node : \A p \in pendingSigns'[m] : Bound(m, p.id, p.msg)'
  BY Zenon, <1>1, <1>3, <1>4 DEF Votes, Bound
<1> QED
  BY Zenon, <1>2, <1>4, <1>5 DEF Votes, Bound

\* Sign adds a share of a session that was bound, by a valid member.
LEMMA SignVotes ==
  ASSUME Votes, NEW n \in Node, NEW p \in pendingSigns[n], Sign(n, p)
  PROVE  Votes' /\ SharesGrow
<1> DEFINE s == [q |-> p.q, id |-> p.id, msg |-> p.msg, m |-> n]
<1>1. p \in Session /\ s \in SigShare /\ Bound(n, p.id, p.msg)
  BY DEF Votes, Session, SigShare
<1>2. /\ pendingSigns' = [pendingSigns EXCEPT ![n] = @ \ {p}]
      /\ UNCHANGED <<tip, vote, calls, forgot>>
      /\ sentShares' = sentShares \/ (sentShares' = sentShares \cup {s} /\ n \in ValidMembers[p.q])
  <2>1. CASE n \in ValidMembers[p.q] /\ n \in Keyed[p.q]
    BY <2>1 DEF Sign
  <2>2. CASE ~ (n \in ValidMembers[p.q] /\ n \in Keyed[p.q])
    BY <2>2 DEF Sign
  <2> QED
    BY <2>1, <2>2
<1>3. \A t \in sentShares' : Bound(t.m, t.id, t.msg)' /\ t.m \in ValidMembers[t.q]
  <2>1. s.q = p.q /\ s.id = p.id /\ s.msg = p.msg /\ s.m = n
    OBVIOUS
  <2> HIDE DEF s
  <2>2. \A t \in sentShares : Bound(t.m, t.id, t.msg)' /\ t.m \in ValidMembers[t.q]
    BY Zenon, <1>2 DEF Votes, Bound
  <2>3. n \in ValidMembers[p.q] => Bound(s.m, s.id, s.msg)' /\ s.m \in ValidMembers[s.q]
    BY Zenon, <1>1, <1>2, <2>1 DEF Bound
  <2> QED
    BY <1>2, <2>2, <2>3
<1>4. sentShares \subseteq sentShares' /\ sentShares' \subseteq SigShare
  BY Zenon, <1>1, <1>2 DEF Votes
<1> QED
  BY Zenon, <1>2, <1>3, <1>4 DEF Votes, Bound, SharesGrow

\* A forgotten vote binds nothing any more.
LEMMA CleanupOldVotesVotes ==
  ASSUME Votes, NEW n \in Node, NEW i \in Id, CleanupOldVotes(n, i)
  PROVE  Votes'
<1>1. ASSUME NEW m \in Node, NEW j \in Id, NEW x \in Msg, Bound(m, j, x)
      PROVE  Bound(m, j, x)'
  BY Zenon, <1>1 DEF CleanupOldVotes, Votes, Bound
<1>2. vote' \in [Node -> [Id -> Msg \cup {NoMsg}]] /\ forgot' \subseteq Node \X Id
  <2>1. [vote[n] EXCEPT ![i] = NoMsg] \in [Id -> Msg \cup {NoMsg}]
    BY DEF Votes
  <2>2. vote' = [vote EXCEPT ![n] = [vote[n] EXCEPT ![i] = NoMsg]]
    BY Zenon DEF CleanupOldVotes
  <2> QED
    BY <2>1, <2>2 DEF Votes, CleanupOldVotes
<1>3. \A m \in Node : \A c \in calls'[m] : Bound(m, c.id, c.msg)'
  BY <1>1 DEF CleanupOldVotes, Votes
<1>4. \A m \in Node : \A p \in pendingSigns'[m] : Bound(m, p.id, p.msg)'
  BY <1>1 DEF CleanupOldVotes, Votes, Session
<1>5. \A s \in sentShares' : Bound(s.m, s.id, s.msg)' /\ s.m \in ValidMembers[s.q]
  BY Zenon, <1>1 DEF CleanupOldVotes, Votes, SigShare
<1> QED
  BY Zenon, <1>2, <1>3, <1>4, <1>5 DEF CleanupOldVotes, Votes

\* Steps that leave votes, queues and signed shares alone, or empty a queue.
LEMMA QuietVotes ==
  ASSUME Votes, UNCHANGED <<vote, sentShares, forgot>>,
         tip' \in [Node -> Height],
         calls' \in [Node -> SUBSET [id : Id, msg : Msg]],
         pendingSigns' \in [Node -> SUBSET Session],
         \A n \in Node : calls'[n] \subseteq calls[n],
         \A n \in Node : pendingSigns'[n] \subseteq pendingSigns[n]
  PROVE  Votes' /\ SharesGrow
BY Zenon DEF Votes, Bound, SharesGrow

\* Inv is inductive.
LEMMA NextInv == Inv /\ [Next]_vars => Inv'
<1> SUFFICES ASSUME Votes, Stores, [Next]_vars
             PROVE  Votes' /\ Stores'
  BY Zenon, InvSplit DEF Inv, TypeOK, Votes, Stores
<1>0. CASE UNCHANGED vars
  BY <1>0, QuietVotes, StoresUnchanged DEF vars, Votes
<1>1. ASSUME NEW n \in Node, NEW i \in Id, NEW msg \in Msg, NEW allowReSign \in BOOLEAN,
             AsyncSignIfMember(n, i, msg, allowReSign)
      PROVE  Votes' /\ Stores'
  <2>2. Votes'
    BY Zenon, <1>1, AsyncSignVotes
  <2>3. SharesGrow /\ UNCHANGED <<sigShares, recSig, sentRec>>
    BY <1>1 DEF AsyncSignIfMember, SharesGrow, Votes
  <2> QED
    BY <2>2, <2>3, StoresUnchanged
<1>2. ASSUME NEW n \in Node, NEW c \in calls[n],
             SelectAndSign(n, c)
      PROVE  Votes' /\ Stores'
  <2>2. Votes'
    BY Zenon, <1>2, SelectAndSignVotes
  <2>3. SharesGrow /\ UNCHANGED <<sigShares, recSig, sentRec>>
    BY Zenon, <1>2 DEF SelectAndSign, SharesGrow, Votes
  <2> QED
    BY <2>2, <2>3, StoresUnchanged
<1>3. ASSUME NEW n \in Node, NEW p \in pendingSigns[n],
             Sign(n, p)
      PROVE  Votes' /\ Stores'
  <2>2. Votes' /\ SharesGrow
    BY <1>3, SignVotes
  <2> DEFINE s == [q |-> p.q, id |-> p.id, msg |-> p.msg, m |-> n]
  <2>3. CASE UNCHANGED <<sigShares, recSig, sentRec>>
    BY <2>2, <2>3, StoresUnchanged
  <2>4. CASE ProcessSigShare(n, s) /\ s \in sentShares'
    <3> HIDE DEF s
    <3> QED
      BY Zenon, <2>2, <2>4, ProcessSigShareStores
  <2>5. \/ UNCHANGED <<sigShares, recSig, sentRec>>
        \/ ProcessSigShare(n, s) /\ s \in sentShares'
    <3>1. CASE n \in ValidMembers[p.q] /\ n \in Keyed[p.q] /\ ~ HasRecoveredSigForId(n, p.id)
      BY Zenon, <1>3, <3>1 DEF Sign
    <3>2. CASE n \in ValidMembers[p.q] /\ n \in Keyed[p.q] /\ HasRecoveredSigForId(n, p.id)
      BY Zenon, <1>3, <3>2 DEF Sign, ProcessSigShare
    <3>3. CASE ~ (n \in ValidMembers[p.q] /\ n \in Keyed[p.q])
      BY Zenon, <1>3, <3>3 DEF Sign
    <3> QED
      BY Zenon, <3>1, <3>2, <3>3
  <2> QED
    BY <2>2, <2>3, <2>4, <2>5
<1>4. ASSUME NEW n \in Node, NEW s \in sentShares,
             ReceiveSigShare(n, s)
      PROVE  Votes' /\ Stores'
  <2>2. Votes' /\ SharesGrow /\ s \in sentShares'
    BY Zenon, <1>4, QuietVotes DEF ReceiveSigShare, Votes
  <2> QED
    BY <1>4, <2>2, ProcessSigShareStores DEF ReceiveSigShare
<1>5. ASSUME NEW n \in Node, NEW r \in sentRec, NEW rebuilt \in BOOLEAN,
             ReceiveRecoveredSig(n, r, rebuilt)
      PROVE  Votes' /\ Stores'
  <2>2. Votes' /\ SharesGrow
    BY Zenon, <1>5, QuietVotes DEF ReceiveRecoveredSig, Votes
  <2>3. r \in Session /\ Cardinality(Signers(r)') >= Threshold
    BY <2>2, SignersGrow DEF Stores, RecSig
  <2>4. sigShares[n] \in SUBSET SigShare /\ sigShares[n] \subseteq sentShares'
    BY Zenon, <2>2 DEF Stores, SharesGrow
  <2> QED
    BY <1>5, <2>2, <2>3, <2>4, ProcessRecoveredSigStores
       DEF ReceiveRecoveredSig
<1>6. ASSUME NEW n \in Node, NEW r \in Session,
             RemoveSigSharesForSession(n, r)
      PROVE  Votes' /\ Stores'
  <2>2. Votes' /\ SharesGrow
    BY Zenon, <1>6, QuietVotes DEF RemoveSigSharesForSession, Votes
  <2>3. \A t \in sentRec' : Cardinality(Signers(t)') >= Threshold
    BY <1>6, <2>2, SignersGrow DEF RemoveSigSharesForSession, Stores, RecSig
  <2> QED
    BY Zenon, <1>6, <2>2, <2>3 DEF RemoveSigSharesForSession, Stores
<1>7. ASSUME NEW n \in Node, NEW i \in Id,
             CleanupOldVotes(n, i)
      PROVE  Votes' /\ Stores'
  <2>2. Votes'
    BY Zenon, <1>7, CleanupOldVotesVotes
  <2>3. SharesGrow /\ UNCHANGED <<sigShares, recSig, sentRec>>
    BY Zenon, <1>7 DEF CleanupOldVotes, SharesGrow, Votes
  <2> QED
    BY <2>2, <2>3, StoresUnchanged
<1>8. ASSUME NEW n \in Node, NEW i \in Id,
             RemoveRecoveredSig(n, i)
      PROVE  Votes' /\ Stores'
  <2>2. Votes' /\ SharesGrow
    BY <1>8, QuietVotes DEF RemoveRecoveredSig, Votes
  <2>3. \A t \in sentRec' : Cardinality(Signers(t)') >= Threshold
    BY Zenon, <1>8, <2>2, SignersGrow DEF RemoveRecoveredSig, Stores, RecSig
  <2>4. recSig' \in [Node -> [Id -> RecSig \cup {NoSig}]]
    <3>1. [recSig[n] EXCEPT ![i] = NoSig] \in [Id -> RecSig \cup {NoSig}]
      BY DEF Stores
    <3>2. recSig' = [recSig EXCEPT ![n] = [recSig[n] EXCEPT ![i] = NoSig]]
      BY <1>8 DEF RemoveRecoveredSig
    <3> QED
      BY <3>1, <3>2 DEF Stores
  <2>5. \A m \in Node, j \in Id : recSig'[m][j] # NoSig =>
          recSig'[m][j] \in sentRec' /\ recSig'[m][j].id = j
    BY Zenon, <1>8 DEF RemoveRecoveredSig, Stores
  <2> QED
    BY Zenon, <1>8, <2>2, <2>3, <2>4, <2>5 DEF RemoveRecoveredSig, Stores
<1>9. ASSUME NEW n \in Node,
             Restart(n)
      PROVE  Votes' /\ Stores'
  <2>2. Votes' /\ SharesGrow
    BY Zenon, <1>9, QuietVotes DEF Restart, Votes
  <2>3. \A t \in sentRec' : Cardinality(Signers(t)') >= Threshold
    BY <1>9, <2>2, SignersGrow DEF Restart, Stores, RecSig
  <2> QED
    BY Zenon, <1>9, <2>2, <2>3 DEF Restart, Stores
<1>10. ASSUME NEW n \in Node, NEW h \in Height,
             TipChanged(n, h)
      PROVE  Votes' /\ Stores'
  <2>2. Votes' /\ SharesGrow
    BY <1>10, QuietVotes DEF TipChanged, Votes
  <2> QED
    BY Zenon, <1>10, <2>2, StoresUnchanged DEF TipChanged
<1> QED
  BY Zenon, <1>0, <1>1, <1>2, <1>3, <1>4, <1>5, <1>6, <1>7, <1>8, <1>9,
     <1>10 DEF Next

\* Inv holds in every reachable state; in particular types are respected.
THEOREM Invariance == Spec => []Inv
<1>1. Init => Inv
  BY InitInv
<1>2. Inv /\ [Next]_vars => Inv'
  BY NextInv
<1> QED
  BY <1>1, <1>2, PTL DEF Spec

\* Every variable keeps its type.
THEOREM TypeCorrect == Spec => []TypeOK
<1>1. Inv => TypeOK
  BY Zenon DEF Inv
<1> QED
  BY <1>1, Invariance, PTL

-----------------------------------------------------------------------------
(* What the invariant means.                                               *)

\* A masternode signs one msgHash per request id, across restarts, reorgs and
\* changes of the selected quorum (AsyncSignIfMember's vote in the database).
THEOREM NodeVotesOnce == Spec => []OneVotePerId
<1>1. Inv => OneVotePerId
  BY SigningAssumption DEF Inv, TypeOK, OneVotePerId, Bound, SigShare
<1> QED
  BY <1>1, Invariance, PTL

\* Inv backs a recovered signature with Threshold valid members.
LEMMA InvRecovered == Inv => RecoveredByThreshold
<1> SUFFICES ASSUME Inv, NEW r \in RecSig,
                    r \in sentRec \/ (\E n \in Node : recSig[n][r.id] = r)
             PROVE  /\ Signers(r) \subseteq ValidMembers[r.q]
                    /\ Cardinality(Signers(r)) >= Threshold
  BY DEF RecoveredByThreshold
<1>1. r \in sentRec
  <2>1. r # NoSig /\ r.id \in Id
    BY Zenon, SigningAssumption DEF RecSig, Session
  <2>2. \A n \in Node, i \in Id : recSig[n][i] # NoSig => recSig[n][i] \in sentRec
    BY Zenon DEF Inv
  <2> QED
    BY Zenon, <2>1, <2>2
<1>2. Cardinality(Signers(r)) >= Threshold
  BY Zenon, <1>1 DEF Inv
<1>3. ASSUME NEW m \in Signers(r)
      PROVE  m \in ValidMembers[r.q]
  <2> DEFINE s == [q |-> r.q, id |-> r.id, msg |-> r.msg, m |-> m]
  <2>1. s \in sentShares
    BY Zenon DEF Signers
  <2>2. s.m = m /\ s.q = r.q
    OBVIOUS
  <2> HIDE DEF s
  <2> QED
    BY Zenon, <2>1, <2>2 DEF Inv
<1> QED
  BY <1>2, <1>3

\* A recovered signature was signed by Threshold valid members of its quorum
\* (TryRecoverSig, and every path by which a recovered signature travels).
THEOREM RecoveredSigsAreBacked == Spec => []RecoveredByThreshold
BY InvRecovered, Invariance, PTL

\* Two recovered signatures of one id whose quorums intersect have a common
\* signer, and that signer voted once.
LEMMA InvAgreement == Inv => NoConflictingRecoveredSigs
<1> SUFFICES ASSUME Inv, NEW r \in sentRec, NEW t \in sentRec,
                    r.id = t.id, Intersecting(r.q, t.q), ~ Forgotten(r.id)
             PROVE  r.msg = t.msg
  BY Zenon DEF NoConflictingRecoveredSigs
<1>1. r \in RecSig /\ t \in RecSig /\ r.q \in Quorum /\ t.q \in Quorum
  BY Zenon DEF Inv, TypeOK, RecSig, Session
<1>2. /\ Signers(r) \in SUBSET ValidMembers[r.q]
      /\ Signers(t) \in SUBSET ValidMembers[t.q]
      /\ Cardinality(Signers(r)) >= Threshold
      /\ Cardinality(Signers(t)) >= Threshold
  BY Zenon, <1>1, InvRecovered DEF RecoveredByThreshold
<1>3. PICK m \in Signers(r) : m \in Signers(t)
  <2>1. IsFiniteSet(ValidMembers[r.q]) /\ IsFiniteSet(ValidMembers[t.q])
    BY Zenon, <1>1, ValidMembersFinite
  <2>2. Threshold \in Nat
    BY SigningAssumption
  <2> QED
    BY Zenon, <1>2, <2>1, <2>2, MajoritiesMeet DEF Intersecting
<1> DEFINE s1 == [q |-> r.q, id |-> r.id, msg |-> r.msg, m |-> m]
           s2 == [q |-> t.q, id |-> t.id, msg |-> t.msg, m |-> m]
<1>4. s1 \in sentShares /\ s2 \in sentShares /\ m \in Node
  BY Zenon, <1>3 DEF Signers
<1>5. s1.m = m /\ s1.id = r.id /\ s1.msg = r.msg /\ s2.m = m /\ s2.id = t.id /\ s2.msg = t.msg
  OBVIOUS
<1> HIDE DEF s1, s2
<1>6. Bound(m, r.id, r.msg) /\ Bound(m, r.id, t.msg)
  BY <1>4, <1>5 DEF Inv
<1> QED
  BY <1>4, <1>6 DEF Bound, Forgotten

\* No conflicting recovered signatures for one id, whatever the nodes' tips,
\* crashes and message orders, among quorums whose majorities intersect.
THEOREM Agreement == Spec => []NoConflictingRecoveredSigs
BY InvAgreement, Invariance, PTL

-----------------------------------------------------------------------------
(* What a step may do to recovered signatures.                             *)

KeepsFirst ==
  \A n \in Node, i \in Id :
    recSig[n][i] # NoSig => recSig'[n][i] \in {recSig[n][i], NoSig}

AnnouncesAtMostOne ==
  sentRec' = sentRec \/ \E r \in Session : sentRec' = sentRec \cup {r}

LEMMA ProcessRecoveredSigStep ==
  ASSUME TypeOK, NEW n \in Node, NEW r \in Session, NEW shares,
         ProcessRecoveredSig(n, r, shares)
  PROVE  KeepsFirst /\ AnnouncesAtMostOne
<1>1. CASE HasRecoveredSigForId(n, r.id)
  BY Zenon, <1>1 DEF ProcessRecoveredSig, KeepsFirst, AnnouncesAtMostOne
<1>2. CASE ~ HasRecoveredSigForId(n, r.id)
  <2>1. /\ recSig' = [recSig EXCEPT ![n][r.id] = r]
        /\ sentRec' = sentRec \cup {r}
        /\ recSig[n][r.id] = NoSig
    BY <1>2 DEF ProcessRecoveredSig, HasRecoveredSigForId
  <2> QED
    BY <2>1 DEF KeepsFirst, AnnouncesAtMostOne, TypeOK
<1> QED
  BY <1>1, <1>2

LEMMA ProcessSigShareStep ==
  ASSUME TypeOK, NEW n \in Node, NEW s \in SigShare, ProcessSigShare(n, s)
  PROVE  KeepsFirst /\ AnnouncesAtMostOne
<1>1. SessionOf(s) \in Session
  BY DEF SessionOf, Session, SigShare
<1>2. CASE UNCHANGED <<recSig, sentRec>>
  BY Zenon, <1>2 DEF KeepsFirst, AnnouncesAtMostOne
<1>3. CASE ProcessRecoveredSig(n, SessionOf(s), sigShares[n] \cup {s})
  BY <1>1, <1>3, ProcessRecoveredSigStep
<1> QED
  BY <1>2, <1>3 DEF ProcessSigShare

\* Every step keeps first signatures and announces at most one; only
\* CleanupOldVotes forgets a vote, and it announces nothing.
LEMMA NextStep ==
  ASSUME Inv, [Next]_vars
  PROVE  /\ KeepsFirst
         /\ \/ AnnouncesAtMostOne /\ forgot' = forgot
            \/ /\ sentRec' = sentRec
               /\ \E n \in Node, i \in Id : forgot' = forgot \cup {<<n, i>>}
<1> TypeOK
  BY DEF Inv
<1>1. ASSUME UNCHANGED <<recSig, sentRec>>
      PROVE  KeepsFirst /\ AnnouncesAtMostOne
  BY <1>1 DEF KeepsFirst, AnnouncesAtMostOne
<1>2. ASSUME NEW n \in Node, NEW p \in pendingSigns[n], Sign(n, p)
      PROVE  KeepsFirst /\ AnnouncesAtMostOne /\ forgot' = forgot
  <2> DEFINE s == [q |-> p.q, id |-> p.id, msg |-> p.msg, m |-> n]
  <2>1. s \in SigShare
    BY DEF TypeOK, Session, SigShare
  <2>2. UNCHANGED <<recSig, sentRec>> \/ ProcessSigShare(n, s)
    BY Zenon, <1>2 DEF Sign
  <2>3. forgot' = forgot
    BY Zenon, <1>2 DEF Sign
  <2> HIDE DEF s
  <2> QED
    BY Zenon, <1>1, <2>1, <2>2, <2>3, ProcessSigShareStep
<1>3. ASSUME NEW n \in Node, NEW s \in sentShares, ReceiveSigShare(n, s)
      PROVE  KeepsFirst /\ AnnouncesAtMostOne /\ forgot' = forgot
  BY Zenon, <1>3, ProcessSigShareStep DEF ReceiveSigShare, TypeOK
<1>4. ASSUME NEW n \in Node, NEW r \in sentRec, NEW rebuilt \in BOOLEAN,
             ReceiveRecoveredSig(n, r, rebuilt)
      PROVE  KeepsFirst /\ AnnouncesAtMostOne /\ forgot' = forgot
  BY <1>4, ProcessRecoveredSigStep DEF ReceiveRecoveredSig, TypeOK, RecSig
<1>5. ASSUME NEW n \in Node, NEW i \in Id, RemoveRecoveredSig(n, i)
      PROVE  KeepsFirst /\ AnnouncesAtMostOne /\ forgot' = forgot
  BY <1>5 DEF RemoveRecoveredSig, KeepsFirst, AnnouncesAtMostOne, TypeOK
<1>6. ASSUME NEW n \in Node, NEW i \in Id, CleanupOldVotes(n, i)
      PROVE  /\ KeepsFirst /\ sentRec' = sentRec
             /\ \E m \in Node, j \in Id : forgot' = forgot \cup {<<m, j>>}
  BY <1>1, <1>6 DEF CleanupOldVotes
<1>7. CASE \/ UNCHANGED vars
           \/ \E n \in Node :
                \/ \E i \in Id, msg \in Msg, allowReSign \in BOOLEAN :
                     AsyncSignIfMember(n, i, msg, allowReSign)
                \/ \E c \in calls[n] : SelectAndSign(n, c)
                \/ \E r \in Session : RemoveSigSharesForSession(n, r)
                \/ Restart(n)
                \/ \E h \in Height : TipChanged(n, h)
  <2>1. UNCHANGED <<recSig, sentRec, forgot>>
    BY <1>7 DEF vars, AsyncSignIfMember, SelectAndSign,
       RemoveSigSharesForSession,
                Restart, TipChanged
  <2> QED
    BY Zenon, <1>1, <2>1
<1> QED
  BY Zenon, <1>2, <1>3, <1>4, <1>5, <1>6, <1>7 DEF Next

\* A stored recovered signature is never replaced by a different one
\* (ProcessRecoveredSig returns early when the id has one).
THEOREM FirstStays == Spec => FirstRecoveredSigStays
<1>1. Inv /\ [Next]_vars =>
        [\A n \in Node, i \in Id :
           recSig[n][i] # NoSig => recSig'[n][i] \in {recSig[n][i], NoSig}]_vars
  BY NextStep DEF KeepsFirst
<1> QED
  BY <1>1, Invariance, PTL DEF Spec, FirstRecoveredSigStays

-----------------------------------------------------------------------------
(* Signing implements SignedOnce.                                          *)

\* The signature announced by a step decides an id that had no other msgHash.
LEMMA AnnouncementDecides ==
  ASSUME \A p, q \in Quorum : Intersecting(p, q),
         Inv, Inv', NEW r \in Session,
         sentRec' = sentRec \cup {r}, forgot' = forgot
  PROVE  Abstract!Decide(r.id, r.msg)
<1>1. r.id \in Id /\ r.msg \in Msg
  BY DEF Session
<1>2. ExpiredIds' = ExpiredIds
  BY DEF ExpiredIds, Forgotten
<1>3. SignedMsgs[r.id] \subseteq {r.msg} \/ r.id \in ExpiredIds
  <2> SUFFICES ASSUME r.id \notin ExpiredIds, NEW t \in sentRec, t.id = r.id
               PROVE  t.msg = r.msg
    BY <1>1 DEF SignedMsgs
  <2>1. NoConflictingRecoveredSigs'
    BY InvAgreement, PTL
  <2>2. r.q \in Quorum /\ t.q \in Quorum
    BY Zenon DEF Inv, TypeOK, RecSig, Session
  <2>3. ~ Forgotten(r.id)'
    BY Zenon, <1>1, <1>2 DEF ExpiredIds, Forgotten
  <2> QED
    BY Zenon, <2>1, <2>2, <2>3 DEF NoConflictingRecoveredSigs, Intersecting
<1>4. SignedMsgs' = [SignedMsgs EXCEPT ![r.id] = @ \cup {r.msg}]
  <2>1. ASSUME NEW i \in Id
        PROVE  SignedMsgs'[i] = [SignedMsgs EXCEPT ![r.id] = @ \cup {r.msg}][i]
    BY Zenon, <1>1 DEF SignedMsgs
  <2> QED
    BY Zenon, <2>1 DEF SignedMsgs
<1> QED
  BY <1>2, <1>3, <1>4 DEF Abstract!Decide

\* When no two quorums can both have a majority, the announced signatures of
\* all nodes together implement SignedOnce: one msgHash per id while the votes
\* on it are kept.
THEOREM Refinement ==
  ASSUME \A p, q \in Quorum : Intersecting(p, q)
  PROVE  Spec => ImplementsSignedOnce
<1>1. Init => Abstract!Init
  <2> SUFFICES ASSUME sentRec = {}, forgot = {}
               PROVE  Abstract!Init
    BY DEF Init
  <2>1. \A i \in Id : {r.msg : r \in {t \in sentRec : t.id = i}} = {}
    OBVIOUS
  <2>2. SignedMsgs = [i \in Id |-> {}]
    BY <2>1 DEF SignedMsgs
  <2>3. ExpiredIds = {}
    BY DEF ExpiredIds, Forgotten
  <2> QED
    BY <2>2, <2>3 DEF Abstract!Init
<1>2. Inv /\ Inv' /\ [Next]_vars => [Abstract!Next]_<<SignedMsgs, ExpiredIds>>
  <2> SUFFICES ASSUME Inv, Inv', [Next]_vars
               PROVE  Abstract!Next \/ UNCHANGED <<SignedMsgs, ExpiredIds>>
    OBVIOUS
  <2>1. CASE sentRec' = sentRec /\ forgot' = forgot
    BY <2>1 DEF SignedMsgs, ExpiredIds, Forgotten
  <2>2. ASSUME NEW r \in Session, sentRec' = sentRec \cup {r}, forgot' = forgot
        PROVE  Abstract!Next
    <3>1. Abstract!Decide(r.id, r.msg)
      BY <2>2, AnnouncementDecides
    <3> QED
      BY <3>1 DEF Abstract!Next, Session
  <2>3. ASSUME NEW n \in Node, NEW i \in Id,
               sentRec' = sentRec, forgot' = forgot \cup {<<n, i>>}
        PROVE  Abstract!Next
    <3>1. ExpiredIds' = ExpiredIds \cup {i}
      BY <2>3 DEF ExpiredIds, Forgotten
    <3>2. SignedMsgs' = SignedMsgs
      BY <2>3 DEF SignedMsgs
    <3> QED
      BY <3>1, <3>2 DEF Abstract!Next, Abstract!Expire
  <2> QED
    BY <2>1, <2>2, <2>3, NextStep DEF AnnouncesAtMostOne
<1> QED
  BY <1>1, <1>2, Invariance, PTL DEF Spec, ImplementsSignedOnce, Abstract!Spec

=============================================================================
