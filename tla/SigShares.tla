----------------------------- MODULE SigShares ------------------------------
(***************************************************************************)
(* CSigSharesManager: how the members of a quorum exchange sig shares over *)
(* their connections until one of them can recover the signature.          *)
(*                                                                         *)
(* Threads of a node.  The message thread handles what peers send.  The    *)
(* worker verifies shares, signs, sends and cleans up, one after the       *)
(* other.  A third one asks to sign, and to sign again.  Each step below   *)
(* is one section of a thread under the lock cs, or several that nothing   *)
(* of another thread can come between to any effect.                       *)
(*                                                                         *)
(* Faults.  A connection may drop, with what is on its way, and be made    *)
(* anew; a node may restart, which loses all of this state; a node's chain *)
(* may be late; the secret key share of a `Broken` member is wrong.        *)
(*                                                                         *)
(* Abstractions.  One quorum, which stays active and whose verification    *)
(* vector every member has.  A session is a signHash; every session has an *)
(* id of its own.  A member is the node that runs it.  A node state, or a  *)
(* session, that is missing and one that is new are the same: every access *)
(* creates it.  Members run this code, so no message is ill-formed (the    *)
(* checks of ProcessMessage and PreVerifyBatchedSigShares pass) and all    *)
(* copies of one share are equal (the verifier need not tell them apart).  *)
(***************************************************************************)
EXTENDS Integers, Sequences, FiniteSets, Functions

CONSTANTS
  Node,          \* the members
  Broken,        \* members whose shares do not verify
  Late,          \* members whose chain does not have the quorum yet
  Link,          \* the pairs of members that GetQuorumConnections connects
  Flaky,         \* those of them whose connections may drop
  Session,       \* signHashes
  Threshold,
  None,
  Patient,       \* bound: whether what takes long (connecting and signing
                 \* again) waits for all else
  MaxConns,      \* bound: connections over one link, one after the other
  MaxTimeouts,   \* bound: timeouts of sessions
  MaxId          \* bound: session ids of one connection

Key == Session \X Node

\* NodeId: a peer and the number of the connection with it.
Conn == Node \X (1 .. MaxConns)

NodeIds(n) == {c \in Conn : {n, c[1]} \in Link}

Id == 1 .. MaxId

\* A share: its key, and whether it verifies.
Kind == {"valid", "bad"}
Share == Session \X Node \X Kind

KeyOf(sh) == <<sh[1], sh[2]>>

Keys(shares) == {KeyOf(sh) : sh \in shares}

\* The keys, or the shares, of other sessions.
Without(s, S) == {k \in S : k[1] # s}

\* CollectSigSharesToRequest never meets its limit of 32 requests to one node.
ASSUME MemberAssumption ==
  /\ Broken \subseteq Node /\ Late \subseteq Node
  /\ None \notin Session \cup Conn
  /\ Link \subseteq {{n, p} : n \in Node, p \in Node}
  /\ \A n \in Node : {n} \notin Link
  /\ Flaky \subseteq Link
  /\ IsFiniteSet(Session) /\ IsFiniteSet(Node) /\ Cardinality(Key) <= 32
  /\ Threshold \in Nat \ {0} /\ Patient \in BOOLEAN
  /\ MaxConns \in Nat \ {0} /\ MaxTimeouts \in Nat /\ MaxId \in Nat

VARIABLES
  \* CSigSharesManager, by node
  nodeStates,          \* by connection
  sigShares,           \* the shares that the node has
  sigSharesToAnnounce, \* keys
  sigSharesRequested,  \* by key: the connection asked last, or None
  expired,             \* keys asked for SIG_SHARE_REQUEST_TIMEOUT ago or more
  pendingSigns,        \* sessions
  batch,               \* local of the message thread: a connection and its
                       \* batch between two sections of the handler, or <<>>
  \* the rest of the node, by node
  recSig,              \* by session: "no", "valid" or "wrong"
  pendingRecoveredSigs,\* by connection: pairs of a session and such a verdict,
                       \* on their way or not processed yet
  shouldBan,           \* connections for which IsBanned holds
  retryDue,            \* sessions that the node will ask to sign again
  hasQuorum,           \* the nodes for which GetQuorum finds the quorum
  \* the network
  up, conn,            \* by link: whether it is up, the number of connections
  chan,                \* by node and connection: messages on their way
  timeouts

managerVars == <<sigShares, sigSharesToAnnounce, sigSharesRequested, expired>>
recVars == <<recSig, pendingRecoveredSigs>>
linkVars == <<up, conn>>
vars == <<nodeStates, managerVars, pendingSigns, batch, recVars, shouldBan,
          retryDue, hasQuorum, linkVars, chan, timeouts>>

\* Mutant: 0, which means no session id, is given out as one.
NewStateFromZero ==
  [announced |-> {}, requested |-> {}, knows |-> {},
   sendSessionId |-> [s \in Session |-> 0],
   recvSessionId |-> [s \in Session |-> 0],
   sessionByRecvId |-> [i \in Id |-> None],
   nextSendSessionId |-> 0,
   pendingIncomingSigShares |-> {}, requestedSigShares |-> {},
   banned |-> FALSE]

\* CSigSharesNodeState, with the bits of all its sessions as sets of keys.
NewState ==
  [announced |-> {}, requested |-> {}, knows |-> {},
   sendSessionId |-> [s \in Session |-> 0],    \* 0: none
   recvSessionId |-> [s \in Session |-> 0],
   sessionByRecvId |-> [i \in Id |-> None],
   nextSendSessionId |-> 1,
   pendingIncomingSigShares |-> {}, requestedSigShares |-> {},
   banned |-> FALSE]

Peers(n) == {p \in Node : {n, p} \in Link}

\* The connections of n, as GetMasternodeQuorumNodes and vNodes give them.
Conns(n) == {<<p, conn[{n, p}]>> : p \in {x \in Peers(n) : up[{n, x}]}}

Recovered(n, s) == recSig[n][s] # "no"

Init ==
  /\ nodeStates = [n \in Node |-> [c \in NodeIds(n) |-> NewState]]
  /\ sigShares = [n \in Node |-> {}]
  /\ sigSharesToAnnounce = [n \in Node |-> {}]
  /\ sigSharesRequested = [n \in Node |-> [k \in Key |-> None]]
  /\ expired = [n \in Node |-> {}]
  /\ pendingSigns = [n \in Node |-> IF n \in Late THEN {} ELSE Session]
  /\ batch = [n \in Node |-> <<>>]
  /\ recSig = [n \in Node |-> [s \in Session |-> "no"]]
  /\ pendingRecoveredSigs = [n \in Node |-> [c \in NodeIds(n) |-> {}]]
  /\ shouldBan = [n \in Node |-> {}] /\ retryDue = [n \in Node |-> {}]
  /\ hasQuorum = Node \ Late
  /\ up = [l \in Link |-> TRUE] /\ conn = [l \in Link |-> 1]
  /\ chan = [n \in Node |-> [c \in NodeIds(n) |-> <<>>]]
  /\ timeouts = 0
-----------------------------------------------------------------------------
(***************************************************************************)
(* The message thread.  A message is [t, id, s, of]: its type, the session *)
(* id, the session that the sender means (only announcements carry it) and *)
(* members, or for a batch pairs of a member and a kind.  Each handler     *)
(* gives the new state of the connection.                                  *)
(***************************************************************************)
\* Mutant: the session's former id still stands for it.
OnSigSesAnnKeepsOld(n, st, m) ==
  IF n \notin hasQuorum THEN st
  ELSE [st EXCEPT !.sessionByRecvId[m.id] = m.s, !.recvSessionId[m.s] = m.id]

\* ProcessMessageSigSesAnn: the id stands for the session from now on, and no
\* longer for another one, nor another id for the session.
OnSigSesAnn(n, st, m) ==
  IF n \notin hasQuorum THEN st
  ELSE [st EXCEPT
          !.sessionByRecvId = [i \in Id |->
             IF i = m.id THEN m.s
             ELSE IF i = st.recvSessionId[m.s] THEN None ELSE @[i]],
          !.recvSessionId[m.s] = m.id]

\* The keys that an inventory stands for: none if the id is not known or the
\* session is done.
InvKeys(n, st, m) ==
  LET s == st.sessionByRecvId[m.id]
  IN IF s = None \/ Recovered(n, s) THEN {} ELSE {s} \X m.of

OnSigSharesInv(n, st, m) ==
  [st EXCEPT !.announced = @ \cup InvKeys(n, st, m),
             !.knows = @ \cup InvKeys(n, st, m)]

OnGetSigShares(n, st, m) ==
  [st EXCEPT !.requested = @ \cup InvKeys(n, st, m),
             !.knows = @ \cup InvKeys(n, st, m)]

\* RebuildSigShare: the shares of a batch.  One that is read as a share of
\* another session than it was made for does not verify.
Rebuild(st, m) ==
  LET s == st.sessionByRecvId[m.id]
  IN IF s = None THEN {}
     ELSE {<<s, e[1], IF m.s = s THEN e[2] ELSE "bad">> : e \in m.of}

\* ProcessMessageBatchedSigShares, to the end of its first section.
OnBatchedSigShares(st, m) ==
  [st EXCEPT !.requestedSigShares = @ \ Keys(Rebuild(st, m))]

NewInBatch(n, st, m) ==
  {sh \in Rebuild(st, m) : /\ KeyOf(sh) \notin Keys(sigShares[n])
                           /\ ~Recovered(n, sh[1])}

\* ProcessMessage, for the next message from c.
ProcessMessage(n, c) ==
  LET q == chan[c[1]][<<n, c[2]>>]
      m == Head(q)
      st == nodeStates[n][c]
      new == IF m.t = "batch" THEN NewInBatch(n, st, m) ELSE {}
  IN /\ c \in Conns(n) /\ batch[n] = <<>> /\ q # <<>>
     /\ nodeStates' = [nodeStates EXCEPT ![n][c] =
          CASE m.t = "ann"   -> OnSigSesAnn(n, st, m)
            [] m.t = "inv"   -> OnSigSharesInv(n, st, m)
            [] m.t = "get"   -> OnGetSigShares(n, st, m)
            [] m.t = "batch" -> OnBatchedSigShares(st, m)]
     /\ batch' = [batch EXCEPT ![n] = IF new = {} THEN <<>> ELSE <<c, new>>]
     /\ chan' = [chan EXCEPT ![c[1]][<<n, c[2]>>] = Tail(q)]
     /\ UNCHANGED <<managerVars, pendingSigns, recVars, shouldBan,
                    retryDue, hasQuorum, linkVars, timeouts>>

\* The last section of ProcessMessageBatchedSigShares.  Add does not replace.
AddPending(n) ==
  LET c == batch[n][1]
  IN /\ batch[n] # <<>>
     /\ nodeStates' = [nodeStates EXCEPT ![n][c].pendingIncomingSigShares =
          @ \cup {sh \in batch[n][2] : KeyOf(sh) \notin Keys(@)}]
     /\ batch' = [batch EXCEPT ![n] = <<>>]
     /\ UNCHANGED <<managerVars, pendingSigns, recVars, shouldBan,
                    retryDue, hasQuorum, linkVars, chan, timeouts>>
-----------------------------------------------------------------------------
(***************************************************************************)
(* The worker.                                                             *)
(***************************************************************************)
\* Mutant: what was requested for the sessions stays.
RemoveSessionsKeepsRequests(st, S) ==
  LET Rest(keys) == {k \in keys : k[1] \notin S}
      Kept(ids) == [s \in Session |-> IF s \in S THEN 0 ELSE ids[s]]
  IN [st EXCEPT
        !.announced = Rest(@), !.requested = Rest(@), !.knows = Rest(@),
        !.sendSessionId = Kept(@), !.recvSessionId = Kept(@),
        !.sessionByRecvId = [i \in Id |->
           IF \E s \in S : st.recvSessionId[s] = i THEN None ELSE @[i]],
        !.pendingIncomingSigShares = Rest(@)]

\* CSigSharesNodeState::RemoveSession, for all sessions of S.
RemoveSessions(st, S) ==
  LET Rest(keys) == {k \in keys : k[1] \notin S}
      Kept(ids) == [s \in Session |-> IF s \in S THEN 0 ELSE ids[s]]
  IN [st EXCEPT
        !.announced = Rest(@), !.requested = Rest(@), !.knows = Rest(@),
        !.sendSessionId = Kept(@), !.recvSessionId = Kept(@),
        !.sessionByRecvId = [i \in Id |->
           IF \E s \in S : st.recvSessionId[s] = i THEN None ELSE @[i]],
        !.pendingIncomingSigShares = Rest(@), !.requestedSigShares = Rest(@)]

\* RemoveSigSharesForSession, for all sessions of S; `states`, `shares`, `ann`
\* and `reqs` are what the caller made of the node's state before.
RemoveSigSharesForSessions(n, S, states, shares, ann, reqs) ==
  LET left == [k \in Key |-> IF k[1] \in S THEN None ELSE reqs[k]]
  IN /\ nodeStates' = [nodeStates EXCEPT ![n] =
                         [c \in NodeIds(n) |-> RemoveSessions(states[c], S)]]
     /\ sigShares' = [sigShares EXCEPT ![n] = {sh \in shares : sh[1] \notin S}]
     /\ sigSharesToAnnounce' =
          [sigSharesToAnnounce EXCEPT ![n] = {k \in ann : k[1] \notin S}]
     /\ sigSharesRequested' = [sigSharesRequested EXCEPT ![n] = left]
     /\ expired' = [expired EXCEPT ![n] = {k \in @ : left[k] # None}]

\* Mutant: the recovered signature is not announced.
RelayNothing(n, sigs, pending) == pending

\* CSigningManager::ProcessRecoveredSig relays what it is given.
Relay(n, sigs, pending) ==
  [p \in Node |-> [c \in NodeIds(p) |->
     IF c[1] = n /\ <<p, c[2]>> \in Conns(n) THEN pending[p][c] \cup sigs
     ELSE pending[p][c]]]

\* sigSharesRequested without what was asked of the connections C.
Released(n, C) ==
  [k \in Key |-> IF \E c \in C : k \in nodeStates[n][c].requestedSigShares
                 THEN None ELSE sigSharesRequested[n][k]]

\* Mutant: one share too few is enough.
TryRecoverSigEarly(H) ==
  LET good == {sh \in H : sh[3] = "valid"}
  IN IF Cardinality(H) < Threshold - 1 THEN {"no"}
     ELSE IF Cardinality(good) >= Threshold THEN {"valid"} ELSE {"wrong"}

\* TryRecoverSig, from the shares H of a session.  Any Threshold of them may
\* be used; when one of those is bad, recovery fails, or its result is found
\* to be wrong, or is not checked.
TryRecoverSig(H) ==
  LET good == {sh \in H : sh[3] = "valid"}
  IN IF Cardinality(H) < Threshold THEN {"no"}
     ELSE {v \in {"no", "valid", "wrong"} :
             IF v = "valid" THEN Cardinality(good) >= Threshold
                            ELSE good # H}

\* ProcessSigShare, for several shares, none of which the node has and of
\* which no session is done; `states` and `reqs` as above.
ProcessSigShares(n, new, states, reqs) ==
  LET have == sigShares[n] \cup new
      own == {KeyOf(sh) : sh \in {x \in new : x[2] = n}}
      pushed == [c \in NodeIds(n) |->
        IF c \in Conns(n) THEN [states[c] EXCEPT !.requested = @ \cup own,
                                                 !.knows = @ \cup own]
        ELSE states[c]]
  IN \E verdict \in [Session -> {"no", "valid", "wrong"}] :
       LET done == {s \in Session : verdict[s] # "no"}
       IN /\ \A s \in Session : verdict[s] \in
               IF \E sh \in new : sh[1] = s
               THEN TryRecoverSig({sh \in have : sh[1] = s}) ELSE {"no"}
          /\ RemoveSigSharesForSessions(n, done, pushed, have,
               sigSharesToAnnounce[n] \cup Keys(new), reqs)
          /\ recSig' = [recSig EXCEPT ![n] = [s \in Session |->
                          IF s \in done THEN verdict[s] ELSE @[s]]]
          /\ pendingRecoveredSigs' =
               Relay(n, {<<s, verdict[s]>> : s \in done}, pendingRecoveredSigs)

\* Mutant: shares of a session that is done are processed.
ToVerifyAll(n, c) ==
  {sh \in nodeStates[n][c].pendingIncomingSigShares :
     KeyOf(sh) \notin Keys(sigShares[n])}

\* CollectPendingSigSharesToVerify, and the first loop of ProcessPendingSig-
\* Shares: shares of a session that is done are not even verified.
ToVerify(n, c) ==
  {sh \in nodeStates[n][c].pendingIncomingSigShares :
     KeyOf(sh) \notin Keys(sigShares[n]) /\ ~Recovered(n, sh[1])}

\* Mutant: nobody is found out.
NoBadSources(n) == {}

\* The batch verifier's badSources.
BadSources(n) == {c \in NodeIds(n) : \E sh \in ToVerify(n, c) : sh[3] = "bad"}

\* ProcessPendingSigShares: a node that sent a bad share is banned (BanNode),
\* the shares of the others are processed.
ProcessPendingSigShares(n) ==
  LET states == [c \in NodeIds(n) |->
        LET st == [nodeStates[n][c] EXCEPT !.pendingIncomingSigShares = {}]
        IN IF c \in BadSources(n)
           THEN [st EXCEPT !.requestedSigShares = {}, !.banned = TRUE] ELSE st]
  IN /\ \E c \in NodeIds(n) : nodeStates[n][c].pendingIncomingSigShares # {}
     /\ shouldBan' = [shouldBan EXCEPT ![n] = @ \cup BadSources(n)]
     /\ ProcessSigShares(n,
          UNION {ToVerify(n, c) : c \in NodeIds(n) \ BadSources(n)},
          states, Released(n, BadSources(n)))
     /\ UNCHANGED <<pendingSigns, batch, retryDue, hasQuorum, linkVars, chan,
                    timeouts>>

\* SignPendingSigShares, Sign.
SignPendingSigShares(n) ==
  LET kind == IF n \in Broken THEN "bad" ELSE "valid"
  IN /\ pendingSigns[n] # {}
     /\ pendingSigns' = [pendingSigns EXCEPT ![n] = {}]
     /\ ProcessSigShares(n,
          {<<s, n, kind>> : s \in {x \in pendingSigns[n] :
             ~Recovered(n, x) /\ <<x, n>> \notin Keys(sigShares[n])}},
          nodeStates[n], sigSharesRequested[n])
     /\ UNCHANGED <<batch, shouldBan, retryDue, hasQuorum, linkVars, chan,
                    timeouts>>

\* CSigningManager::ProcessPendingRecoveredSigs, for one of them: HandleNew-
\* RecoveredSig removes the session; a peer that sent a wrong one is banned.
ProcessPendingRecoveredSig(n, c) ==
  /\ \E r \in pendingRecoveredSigs[n][c] :
       LET rest == [pendingRecoveredSigs EXCEPT ![n][c] = @ \ {r}]
           new == IF r[2] = "valid" /\ ~Recovered(n, r[1]) THEN {r[1]} ELSE {}
       IN /\ shouldBan' = [shouldBan EXCEPT ![n] =
               IF r[2] = "wrong" /\ ~Recovered(n, r[1])
               THEN @ \cup {c} ELSE @]
          /\ recSig' = [recSig EXCEPT ![n] = [s \in Session |->
               IF s \in new THEN "valid" ELSE @[s]]]
          /\ RemoveSigSharesForSessions(n, new, nodeStates[n], sigShares[n],
               sigSharesToAnnounce[n], sigSharesRequested[n])
          /\ pendingRecoveredSigs' = Relay(n, new \X {"valid"}, rest)
  /\ UNCHANGED <<pendingSigns, batch, retryDue, hasQuorum, linkVars, chan,
                 timeouts>>

\* CollectSigSharesToRequest.  May(c): what c announced and may be asked for.
\* `order` is how the nodes are shuffled; a key is asked of the first one.
May(n, c) ==
  {k \in nodeStates[n][c].announced :
     /\ ~nodeStates[n][c].banned /\ ~Recovered(n, k[1])
     /\ k \notin Keys(sigShares[n])
     /\ \/ sigSharesRequested[n][k] = None
        \/ k \in expired[n] /\ sigSharesRequested[n][k] # c}

ToRequest(n, order) ==
  [c \in NodeIds(n) |-> {k \in May(n, c) : \E i \in DOMAIN order :
     order[i] = c /\ \A j \in 1 .. (i - 1) : k \notin May(n, order[j])}]

\* CollectSigSharesToSend: what c requested, and what it is sent of that.
Wanted(n, c) ==
  {k \in nodeStates[n][c].requested :
     ~nodeStates[n][c].banned /\ ~Recovered(n, k[1])}

ToSend(n, c) == Wanted(n, c) \cap Keys(sigShares[n])

\* CollectSigSharesToAnnounce.
ToAnnounce(n, c) ==
  IF c \notin Conns(n) \/ nodeStates[n][c].banned THEN {}
  ELSE (sigSharesToAnnounce[n] \cap Keys(sigShares[n])) \ nodeStates[n][c].knows

SessionsIn(keys) == {k[1] : k \in keys}

\* The sequences that list a finite set, each of its elements once.
Listings(S) == Injection(1 .. Cardinality(S), S)

\* The orders in which the maps may give the sessions of a set.
Orders ==
  {f \in [SUBSET Session -> UNION {Listings(S) : S \in SUBSET Session}] :
     \A S \in SUBSET Session : f[S] \in Listings(S)}

\* Mutant: the counter is not advanced from one session to the next.
SendIdsSame(st, new) ==
  [s \in Session |->
     IF \E i \in DOMAIN new : new[i] = s THEN st.nextSendSessionId
     ELSE st.sendSessionId[s]]

\* addSigSesAnnIfNeeded: the session ids on c, given the new ones.
SendIds(st, new) ==
  [s \in Session |->
     IF \E i \in DOMAIN new : new[i] = s
     THEN st.nextSendSessionId - 1 + (CHOOSE i \in DOMAIN new : new[i] = s)
     ELSE st.sendSessionId[s]]

\* The messages of type t on a connection that tell of keys.
Messages(n, t, line, ids, keys) ==
  LET ss == line[SessionsIn(keys)]
      Of(s) == IF t = "batch"
               THEN {e \in Node \X Kind : /\ <<s, e[1]>> \in keys
                                          /\ <<s, e[1], e[2]>> \in sigShares[n]}
               ELSE {p \in Node : <<s, p>> \in keys}
  IN [i \in DOMAIN ss |->
        [t |-> t, id |-> ids[ss[i]], s |-> ss[i], of |-> Of(ss[i])]]

\* A round of SendMessages that would change nothing is left out.
SomethingToSend(n) ==
  \/ sigSharesToAnnounce[n] # {}
  \/ \E c \in NodeIds(n) :
       LET st == nodeStates[n][c]
       IN /\ ~st.banned
          /\ \/ May(n, c) # {} \/ Wanted(n, c) # {}
             \/ \E k \in st.announced \cap Keys(sigShares[n]) : ~Recovered(n, k[1])
             \/ st.requestedSigShares \cap expired[n] # {}

SendMessages(n) ==
  /\ SomethingToSend(n)
  /\ \E order \in Listings({c \in NodeIds(n) : May(n, c) # {}}),
        line \in Orders :
       LET get == ToRequest(n, order)
           asked == UNION {get[c] : c \in NodeIds(n)}
           had == {k \in Keys(sigShares[n]) : ~Recovered(n, k[1])}
           all(c) == get[c] \cup ToSend(n, c) \cup ToAnnounce(n, c)
           new == [c \in NodeIds(n) |-> line[{s \in SessionsIn(all(c)) :
             nodeStates[n][c].sendSessionId[s] = 0}]]
           ids == [c \in NodeIds(n) |-> SendIds(nodeStates[n][c], new[c])]
       IN /\ \A c \in NodeIds(n) :
               nodeStates[n][c].nextSendSessionId + Len(new[c]) <= MaxId + 1
          /\ nodeStates' = [nodeStates EXCEPT ![n] = [c \in NodeIds(n) |->
               IF nodeStates[n][c].banned THEN nodeStates[n][c]
               ELSE [nodeStates[n][c] EXCEPT
                       !.announced = @ \ (had \cup get[c]),
                       !.requestedSigShares = (@ \ expired[n]) \cup get[c],
                       !.requested = @ \ Wanted(n, c),
                       !.knows = @ \cup ToAnnounce(n, c),
                       !.sendSessionId = ids[c],
                       !.nextSendSessionId = @ + Len(new[c])]]]
          /\ sigSharesRequested' = [sigSharesRequested EXCEPT ![n] =
               [k \in Key |-> IF k \in asked
                              THEN CHOOSE c \in NodeIds(n) : k \in get[c] ELSE @[k]]]
          /\ expired' = [expired EXCEPT ![n] = @ \ asked]
          /\ sigSharesToAnnounce' = [sigSharesToAnnounce EXCEPT ![n] = {}]
          /\ chan' = [chan EXCEPT ![n] = [c \in NodeIds(n) |->
               IF c \notin Conns(n) THEN @[c]
               ELSE @[c]
                    \o [i \in DOMAIN new[c] |-> [t |-> "ann", s |-> new[c][i],
                          id |-> ids[c][new[c][i]], of |-> {}]]
                    \o Messages(n, "get", line, ids[c], get[c])
                    \o Messages(n, "batch", line, ids[c], ToSend(n, c))
                    \o Messages(n, "inv", line, ids[c], ToAnnounce(n, c))]]
  /\ UNCHANGED <<sigShares, pendingSigns, batch, recVars, shouldBan,
                 retryDue, hasQuorum, linkVars, timeouts>>

\* SIG_SHARE_REQUEST_TIMEOUT passes since k was asked for.
RequestTimeout(n, k) ==
  /\ sigSharesRequested[n][k] # None /\ k \notin expired[n]
  /\ expired' = [expired EXCEPT ![n] = @ \cup {k}]
  /\ UNCHANGED <<nodeStates, sigShares, sigSharesToAnnounce, sigSharesRequested,
                 pendingSigns, batch, recVars, shouldBan, retryDue,
                 hasQuorum, linkVars, chan, timeouts>>

\* Nothing is left to do but what takes long: see Patient.
Settled ==
  \A n \in Node :
    /\ pendingSigns[n] = {} /\ batch[n] = <<>> /\ ~SomethingToSend(n)
    /\ \A c \in NodeIds(n) : /\ chan[n][c] = <<>> /\ pendingRecoveredSigs[n][c] = {}
                       /\ nodeStates[n][c].pendingIncomingSigShares = {}

\* n and its peers will try again to get s signed.
RetryAround(n, S) ==
  [p \in Node |-> IF p = n \/ p \in Peers(n) THEN retryDue[p] \cup S
                  ELSE retryDue[p]]

\* Cleanup, when the sessions T timed out: no share of them came for
\* SESSION_NEW_SHARES_TIMEOUT.  States of connections that are gone go too.
Cleanup(n, T) ==
  LET with == {sh[1] : sh \in sigShares[n]}
      over == T \cup {s \in with : Recovered(n, s)}
      gone == NodeIds(n) \ Conns(n)
      states == [c \in NodeIds(n) |-> IF c \in gone THEN NewState
                                ELSE nodeStates[n][c]]
  IN /\ T \subseteq with
     /\ over # {} \/ \E c \in gone : nodeStates[n][c] # NewState
     /\ timeouts + Cardinality(T) <= MaxTimeouts
     /\ timeouts' = timeouts + Cardinality(T)
     /\ RemoveSigSharesForSessions(n, over, states, sigShares[n],
          sigSharesToAnnounce[n], Released(n, gone))
     /\ retryDue' = IF T = {} THEN retryDue ELSE RetryAround(n, T)
     /\ UNCHANGED <<pendingSigns, batch, recVars, shouldBan, hasQuorum,
                    linkVars, chan>>

RemoveBannedNodeStates(n) ==
  LET gone == {c \in Conns(n) : c \in shouldBan[n]}
  IN /\ gone # {}
     /\ RemoveSigSharesForSessions(n, {},
          [c \in NodeIds(n) |-> IF c \in gone THEN NewState ELSE nodeStates[n][c]],
          sigShares[n], sigSharesToAnnounce[n], Released(n, gone))
     /\ UNCHANGED <<pendingSigns, batch, recVars, shouldBan, retryDue,
                    hasQuorum, linkVars, chan, timeouts>>
-----------------------------------------------------------------------------
(***************************************************************************)
(* Signing again, and what happens around the node.                        *)
(***************************************************************************)
\* Mutant: nothing is announced again.
AsyncSignQuietly(n, s) ==
  /\ Patient => Settled
  /\ s \in retryDue[n] /\ n \in hasQuorum /\ ~Recovered(n, s)
  /\ retryDue' = [retryDue EXCEPT ![n] = @ \ {s}]
  /\ pendingSigns' = [pendingSigns EXCEPT ![n] = @ \cup {s}]
  /\ UNCHANGED <<nodeStates, managerVars, batch, recVars, shouldBan,
                 hasQuorum, linkVars, chan, timeouts>>

\* AsyncSignIfMember with allowReSign: ForceReAnnouncement, AsyncSign.
AsyncSignIfMember(n, s) ==
  /\ Patient => Settled
  /\ s \in retryDue[n] /\ n \in hasQuorum /\ ~Recovered(n, s)
  /\ retryDue' = [retryDue EXCEPT ![n] = @ \ {s}]
  /\ sigSharesToAnnounce' = [sigSharesToAnnounce EXCEPT ![n] =
       @ \cup {k \in Keys(sigShares[n]) : k[1] = s}]
  /\ nodeStates' = [nodeStates EXCEPT ![n] = [c \in NodeIds(n) |->
       [nodeStates[n][c] EXCEPT !.knows = Without(s, @), !.sendSessionId[s] = 0]]]
  /\ pendingSigns' = [pendingSigns EXCEPT ![n] = @ \cup {s}]
  /\ UNCHANGED <<sigShares, sigSharesRequested, expired, batch, recVars,
                 shouldBan, hasQuorum, linkVars, chan, timeouts>>

\* The block that holds the quorum's commitment arrives: n signs.
NewQuorum(n) ==
  /\ n \notin hasQuorum
  /\ hasQuorum' = hasQuorum \cup {n}
  /\ pendingSigns' = [pendingSigns EXCEPT ![n] = Session]
  /\ retryDue' = RetryAround(n, Session)
  /\ UNCHANGED <<nodeStates, managerVars, batch, recVars, shouldBan,
                 linkVars, chan, timeouts>>

\* f, by node and connection, with e for the connections over the links L.
Drop(L, f, e) ==
  [n \in Node |-> [c \in NodeIds(n) |-> IF {n, c[1]} \in L THEN e ELSE f[n][c]]]

Disconnect(l) ==
  /\ l \in Flaky /\ up[l] /\ conn[l] < MaxConns
  /\ up' = [up EXCEPT ![l] = FALSE]
  /\ chan' = Drop({l}, chan, <<>>)
  /\ pendingRecoveredSigs' = Drop({l}, pendingRecoveredSigs, {})
  /\ UNCHANGED <<nodeStates, managerVars, pendingSigns, batch, recSig,
                 shouldBan, retryDue, hasQuorum, conn, timeouts>>

Reconnect(l) ==
  /\ Patient => Settled
  /\ ~up[l]
  /\ up' = [up EXCEPT ![l] = TRUE] /\ conn' = [conn EXCEPT ![l] = @ + 1]
  /\ retryDue' = [n \in Node |-> IF n \in l THEN Session ELSE retryDue[n]]
  /\ UNCHANGED <<nodeStates, managerVars, pendingSigns, batch, recVars,
                 shouldBan, hasQuorum, chan, timeouts>>

\* n stops and starts again.  Recovered signatures are on disk.
Restart(n) ==
  LET L == {l \in Link : n \in l}
  IN /\ \A l \in L : l \in Flaky /\ up[l] /\ conn[l] < MaxConns
     /\ up' = [l \in Link |-> up[l] /\ l \notin L]
     /\ chan' = Drop(L, chan, <<>>)
     /\ pendingRecoveredSigs' = Drop(L, pendingRecoveredSigs, {})
     /\ nodeStates' = [nodeStates EXCEPT ![n] = [c \in NodeIds(n) |-> NewState]]
     /\ sigShares' = [sigShares EXCEPT ![n] = {}]
     /\ sigSharesToAnnounce' = [sigSharesToAnnounce EXCEPT ![n] = {}]
     /\ sigSharesRequested' =
          [sigSharesRequested EXCEPT ![n] = [k \in Key |-> None]]
     /\ expired' = [expired EXCEPT ![n] = {}]
     /\ pendingSigns' = [pendingSigns EXCEPT ![n] = {}]
     /\ batch' = [batch EXCEPT ![n] = <<>>]
     /\ UNCHANGED <<recSig, shouldBan, retryDue, hasQuorum, conn, timeouts>>
-----------------------------------------------------------------------------
MessageThread(n) == AddPending(n) \/ \E c \in NodeIds(n) : ProcessMessage(n, c)

\* WorkThreadMain.
WorkThread(n) ==
  \/ ProcessPendingSigShares(n)
  \/ SignPendingSigShares(n)
  \/ \E c \in NodeIds(n) : ProcessPendingRecoveredSig(n, c)
  \/ SendMessages(n)
  \/ \E T \in SUBSET Session : Cleanup(n, T)
  \/ RemoveBannedNodeStates(n)

SignThread(n) == \E s \in Session : AsyncSignIfMember(n, s)

\* What happens without a fault.
Progress ==
  \/ \E n \in Node :
       \/ MessageThread(n)
       \/ WorkThread(n)
       \/ SignThread(n)
       \/ \E k \in Key : RequestTimeout(n, k)
       \/ NewQuorum(n)
  \/ \E l \in Link : Reconnect(l)

Next ==
  \/ Progress
  \/ \E n \in Node : Restart(n)
  \/ \E l \in Link : Disconnect(l)

Spec == Init /\ [][Next]_vars

\* Only that not all threads, timers and connections stand still at once: each
\* has finitely much to do, so none can starve another for ever.
Fairness == WF_vars(Progress)

FairSpec == Spec /\ Fairness
-----------------------------------------------------------------------------
NodeState ==
  [announced : SUBSET Key, requested : SUBSET Key, knows : SUBSET Key,
   sendSessionId : [Session -> 0 .. MaxId],
   recvSessionId : [Session -> 0 .. MaxId],
   sessionByRecvId : [Id -> Session \cup {None}],
   nextSendSessionId : 1 .. MaxId + 1,
   pendingIncomingSigShares : SUBSET Share, requestedSigShares : SUBSET Key,
   banned : BOOLEAN]

Message ==
  [t : {"ann"}, id : Id, s : Session, of : {{}}]
  \cup [t : {"inv", "get"}, id : Id, s : Session, of : SUBSET Node]
  \cup [t : {"batch"}, id : Id, s : Session, of : SUBSET (Node \X Kind)]

\* The state is well-formed.  Session id 0 is never given out or received, and
\* what is recorded of connections is recorded of possible ones.
TypeOK ==
  /\ DOMAIN nodeStates = Node /\ DOMAIN batch = Node /\ DOMAIN chan = Node
  /\ DOMAIN pendingRecoveredSigs = Node
  /\ \A n \in Node :
       /\ nodeStates[n] \in [NodeIds(n) -> NodeState]
       /\ batch[n] \in {<<>>} \cup (NodeIds(n) \X SUBSET Share)
       /\ chan[n] \in [NodeIds(n) -> Seq(Message)]
       /\ pendingRecoveredSigs[n] \in
            [NodeIds(n) -> SUBSET (Session \X {"valid", "wrong"})]
  /\ sigShares \in [Node -> SUBSET Share]
  /\ sigSharesToAnnounce \in [Node -> SUBSET Key]
  /\ sigSharesRequested \in [Node -> [Key -> Conn \cup {None}]]
  /\ expired \in [Node -> SUBSET Key]
  /\ pendingSigns \in [Node -> SUBSET Session]
  /\ recSig \in [Node -> [Session -> {"no", "valid", "wrong"}]]
  /\ shouldBan \in [Node -> SUBSET Conn]
  /\ retryDue \in [Node -> SUBSET Session]
  /\ hasQuorum \subseteq Node
  /\ up \in [Link -> BOOLEAN] /\ conn \in [Link -> 1 .. MaxConns]
  /\ \A l \in Link : up[l] \/ conn[l] < MaxConns
  /\ timeouts \in 0 .. MaxTimeouts

\* sessionByRecvId holds pointers into sessions.  One that is there points to
\* a session that exists and that goes by this id, whatever announcements,
\* timeouts, bans and recovered signatures came before: RemoveSession, which
\* erases the id that the session has, never leaves a pointer behind.
RecvIdsLive ==
  \A n \in Node : \A c \in NodeIds(n), i \in Id :
    LET st == nodeStates[n][c]
    IN st.sessionByRecvId[i] # None => st.recvSessionId[st.sessionByRecvId[i]] = i

\* Only announcements say which session an id means.  When any other message
\* is handled, its id means to the receiver what it meant to the sender when
\* it was sent, or nothing, although both ends forget sessions and give them
\* new ids on their own.
MessagesUnderstood ==
  \A n \in Node : \A c \in Conns(n) :
    LET q == chan[c[1]][<<n, c[2]>>]
    IN q # <<>> /\ Head(q).t # "ann" =>
         nodeStates[n][c].sessionByRecvId[Head(q).id] \in {None, Head(q).s}

\* Who was asked is recorded twice, by node (requestedSigShares) and by share
\* (sigSharesRequested).  A request that the node's record still holds is the
\* one that the share's names: releasing a node's requests (BanNode, Cleanup,
\* RemoveBannedNodeStates) never releases one to another node.
RequestOwner ==
  \A n \in Node : \A c \in NodeIds(n) :
    \A k \in nodeStates[n][c].requestedSigShares : sigSharesRequested[n][k] = c

\* BanNode, and ProcessPendingRecoveredSigs, only ever ban a member whose own
\* share is wrong, none that passed on what it got.
OnlyBrokenBanned ==
  \A n \in Node : \A c \in shouldBan[n] : c[1] \in Broken

\* The shares that a node has, passes on and recovers from verify, but for a
\* broken member's own; what a member that is not broken recovers is valid.
SharesGenuine ==
  \A n \in Node : /\ \A sh \in sigShares[n] :
                       sh[3] = "valid" \/ (sh[2] = n /\ n \in Broken)
                  /\ n \notin Broken => \A s \in Session : recSig[n][s] # "wrong"

\* Once a session has its recovered signature, HandleNewRecoveredSig has
\* removed it, and no share that was on its way brings anything of it back.
DoneSessionsGone ==
  \A n \in Node, s \in Session : Recovered(n, s) =>
    /\ \A sh \in sigShares[n] : sh[1] # s
    /\ \A k \in Key : k[1] = s => sigSharesRequested[n][k] = None

\* When no thread has anything left to do and every connection is up, some
\* member has the signature: however connections dropped and nodes restarted,
\* one round of signing again after that is enough.
NoneLeftWaiting ==
  (/\ Settled /\ hasQuorum = Node /\ \A l \in Link : up[l]
   /\ \A n \in Node : \A s \in retryDue[n] : Recovered(n, s))
  => \A s \in Session : \E n \in Node \ Broken : recSig[n][s] = "valid"

\* Every member whose share is not wrong gets every signature, also when it
\* knew of the quorum late or when a session timed out.
EveryoneRecovers ==
  \A s \in Session : <>(\A n \in Node \ Broken : recSig[n][s] = "valid")
=============================================================================
