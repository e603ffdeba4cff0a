--------------------------- MODULE SigSharesSteps ---------------------------
(***************************************************************************)
(* The exchange of sig shares, step by step, for any members, links,       *)
(* sessions and bounds.  Inv: the state is well-formed, pointers by        *)
(* session id are live, requests have one owner, shares are genuine, and a *)
(* session that is done is gone.  MInv: every message means to its         *)
(* receiver what it meant to its sender, or nothing.  BInv: whatever is    *)
(* bad comes from a broken member.  What SendMessages does to them, and    *)
(* that Cleanup keeps Inv, need facts about finite sets: these, and the    *)
(* theorems, are in SigSharesProofs.                                       *)
(***************************************************************************)
EXTENDS SigShares, TLAPS

\* What holds of the state of every connection by itself: pointers by session
\* id are live, a banned node is asked for nothing, and ids given out are
\* below the next one.
GoodState ==
  {st \in NodeState :
     /\ \A i \in Id : st.sessionByRecvId[i] # None =>
          st.recvSessionId[st.sessionByRecvId[i]] = i
     /\ st.banned => st.requestedSigShares = {}
     /\ \A s \in Session : st.sendSessionId[s] < st.nextSendSessionId}

LEMMA ExceptAt ==
  ASSUME NEW S, NEW f, DOMAIN f = S, NEW x \in S, NEW e,
         NEW g, g = [f EXCEPT ![x] = e]
  PROVE  DOMAIN g = S /\ g[x] = e /\ \A y \in S : y # x => g[y] = f[y]
BY Zenon

LEMMA NewStateGood == NewState \in GoodState
<1>1. NewState \in NodeState
  BY MemberAssumption DEF NewState, NodeState, Id
<1>2. /\ \A i \in Id : NewState.sessionByRecvId[i] = None
      /\ \A s \in Session : NewState.sendSessionId[s] = 0
      /\ NewState.nextSendSessionId = 1 /\ NewState.banned = FALSE
  BY Zenon DEF NewState
<1> QED
  BY <1>1, <1>2 DEF GoodState

\* The parts of a message.
LEMMA MessageParts ==
  ASSUME NEW m \in Message
  PROVE  /\ m.id \in Id /\ m.s \in Session
         /\ m.t \in {"ann", "inv", "get", "batch"}
         /\ m.t \in {"inv", "get"} => m.of \subseteq Node
         /\ m.t = "batch" => m.of \subseteq Node \X Kind
BY DEF Message

LEMMA OnSigSesAnnGood ==
  ASSUME NEW n, NEW st \in GoodState, NEW m \in Message
  PROVE  OnSigSesAnn(n, st, m) \in GoodState
<1>1. CASE n \notin hasQuorum
  BY <1>1 DEF OnSigSesAnn
<1>2. CASE n \in hasQuorum
  <2> DEFINE map == [i \in Id |->
               IF i = m.id THEN m.s
               ELSE IF i = st.recvSessionId[m.s] THEN None
               ELSE st.sessionByRecvId[i]]
             ids == [st.recvSessionId EXCEPT ![m.s] = m.id]
             new == [st EXCEPT !.sessionByRecvId = map, !.recvSessionId = ids]
  <2>1. st \in NodeState /\ m.id \in Id /\ m.s \in Session
    BY MessageParts DEF GoodState
  <2>2. OnSigSesAnn(n, st, m) = new
    BY Zenon, <1>2, <2>1 DEF OnSigSesAnn, NodeState
  <2>3. map \in [Id -> Session \cup {None}] /\ ids \in [Session -> 0 .. MaxId]
    BY <2>1, MemberAssumption DEF NodeState, Id
  <2>4. \A i \in Id : map[i] # None => ids[map[i]] = i
    BY <2>1, MemberAssumption DEF GoodState, NodeState
  <2> HIDE DEF map, ids
  <2>5. /\ new \in NodeState
        /\ new.sessionByRecvId = map /\ new.recvSessionId = ids
        /\ new.banned = st.banned
        /\ new.requestedSigShares = st.requestedSigShares
        /\ new.sendSessionId = st.sendSessionId
        /\ new.nextSendSessionId = st.nextSendSessionId
    BY Zenon, <2>1, <2>3 DEF NodeState
  <2> HIDE DEF new
  <2> QED
    BY <2>2, <2>4, <2>5 DEF GoodState
<1> QED
  BY <1>1, <1>2

\* A change of other parts of the state.
LEMMA GoodAlso ==
  ASSUME NEW st \in GoodState, NEW new \in NodeState,
         new.sessionByRecvId = st.sessionByRecvId,
         new.recvSessionId = st.recvSessionId,
         new.sendSessionId = st.sendSessionId,
         new.nextSendSessionId = st.nextSendSessionId,
         new.banned => new.requestedSigShares = {}
  PROVE  new \in GoodState
BY Zenon DEF GoodState

\* What an inventory, or a batch, is read as.
LEMMA InvKeysType ==
  ASSUME NEW n, NEW st \in NodeState, NEW m \in Message, m.t \in {"inv", "get"}
  PROVE  InvKeys(n, st, m) \subseteq Key
<1>1. m.id \in Id /\ m.of \subseteq Node
  BY MessageParts
<1>2. st.sessionByRecvId[m.id] \in Session \cup {None}
  BY <1>1 DEF NodeState
<1> QED
  BY <1>1, <1>2 DEF InvKeys, Key

LEMMA RebuildType ==
  ASSUME NEW st \in NodeState, NEW m \in Message, m.t = "batch"
  PROVE  Rebuild(st, m) \subseteq Share
<1>1. m.id \in Id /\ m.of \subseteq Node \X Kind
  BY MessageParts
<1>2. st.sessionByRecvId[m.id] \in Session \cup {None}
  BY <1>1 DEF NodeState
<1> QED
  BY <1>1, <1>2 DEF Rebuild, Share, Kind

LEMMA OnSigSharesInvGood ==
  ASSUME NEW n, NEW st \in GoodState, NEW m \in Message, m.t \in {"inv", "get"}
  PROVE  OnSigSharesInv(n, st, m) \in GoodState /\ OnGetSigShares(n, st, m) \in GoodState
<1> DEFINE K == InvKeys(n, st, m)
<1>1. st \in NodeState
  BY DEF GoodState
<1>2. K \in SUBSET Key
  BY <1>1, InvKeysType
<1> HIDE DEF K
<1>3. /\ st.announced \cup K \in SUBSET Key /\ st.requested \cup K \in SUBSET Key
      /\ st.knows \cup K \in SUBSET Key
      /\ st.announced \in SUBSET Key /\ st.requested \in SUBSET Key
  BY <1>1, <1>2 DEF NodeState
<1>4. ASSUME NEW new \in {OnSigSharesInv(n, st, m), OnGetSigShares(n, st, m)}
      PROVE  /\ new \in NodeState
             /\ new.sessionByRecvId = st.sessionByRecvId
             /\ new.recvSessionId = st.recvSessionId
             /\ new.sendSessionId = st.sendSessionId
             /\ new.nextSendSessionId = st.nextSendSessionId
             /\ new.banned = st.banned
             /\ new.requestedSigShares = st.requestedSigShares
  BY Zenon, <1>1, <1>3 DEF OnSigSharesInv, OnGetSigShares, NodeState, K
<1>5. st.banned => st.requestedSigShares = {}
  BY DEF GoodState
<1> QED
  BY Zenon, <1>4, <1>5, GoodAlso

LEMMA OnBatchedSigSharesGood ==
  ASSUME NEW st \in GoodState, NEW m
  PROVE  OnBatchedSigShares(st, m) \in GoodState
<1> DEFINE K == Keys(Rebuild(st, m))
<1> HIDE DEF K
<1>1. st \in NodeState /\ (st.banned => st.requestedSigShares = {})
  BY DEF GoodState
<1>2. /\ st.pendingIncomingSigShares \in SUBSET Share
      /\ st.requestedSigShares \ K \in SUBSET Key
      /\ st.banned \in BOOLEAN
      /\ st.banned => st.requestedSigShares \ K = {}
  BY <1>1 DEF NodeState
<1> DEFINE new == OnBatchedSigShares(st, m)
<1>3. /\ new \in NodeState
      /\ new.sessionByRecvId = st.sessionByRecvId
      /\ new.recvSessionId = st.recvSessionId
      /\ new.sendSessionId = st.sendSessionId
      /\ new.nextSendSessionId = st.nextSendSessionId
      /\ new.banned = st.banned
      /\ new.requestedSigShares = st.requestedSigShares \ K
  BY Zenon, <1>1, <1>2 DEF OnBatchedSigShares, NodeState, K
<1> QED
  BY Zenon, <1>2, <1>3, GoodAlso

LEMMA RemoveSessionsGood ==
  ASSUME NEW st \in GoodState, NEW S \in SUBSET Session
  PROVE  RemoveSessions(st, S) \in GoodState
<1> DEFINE Rest(keys) == {k \in keys : k[1] \notin S}
           Kept(ids) == [s \in Session |-> IF s \in S THEN 0 ELSE ids[s]]
           map == [i \in Id |-> IF \E s \in S : st.recvSessionId[s] = i THEN None
                                ELSE st.sessionByRecvId[i]]
           send == Kept(st.sendSessionId)
           recv == Kept(st.recvSessionId)
           A == Rest(st.announced)
           R == Rest(st.requested)
           W == Rest(st.knows)
           P == Rest(st.pendingIncomingSigShares)
           Q == Rest(st.requestedSigShares)
           new == [st EXCEPT !.announced = A, !.requested = R, !.knows = W,
                     !.sendSessionId = send, !.recvSessionId = recv,
                     !.sessionByRecvId = map,
                     !.pendingIncomingSigShares = P, !.requestedSigShares = Q]
<1>1. st \in NodeState
  BY DEF GoodState
<1>2. RemoveSessions(st, S) = new
  BY Zenon, <1>1 DEF RemoveSessions, NodeState
<1>3. /\ A \in SUBSET Key /\ R \in SUBSET Key /\ W \in SUBSET Key
      /\ P \in SUBSET Share /\ Q \in SUBSET Key
      /\ map \in [Id -> Session \cup {None}]
  BY <1>1 DEF NodeState
<1>4. /\ send \in [Session -> 0 .. MaxId] /\ recv \in [Session -> 0 .. MaxId]
      /\ \A s \in Session : send[s] < st.nextSendSessionId
  BY <1>1, MemberAssumption DEF NodeState, GoodState
<1>5. \A i \in Id : map[i] # None => recv[map[i]] = i
  BY <1>1 DEF GoodState, NodeState
<1>6. st.banned => Q = {}
  BY DEF GoodState
<1> HIDE DEF A, R, W, P, Q, map, send, recv
<1>7. /\ new \in NodeState
      /\ new.sessionByRecvId = map /\ new.recvSessionId = recv
      /\ new.banned = st.banned /\ new.requestedSigShares = Q
      /\ new.sendSessionId = send
      /\ new.nextSendSessionId = st.nextSendSessionId
  BY Zenon, <1>1, <1>3, <1>4 DEF NodeState
<1> HIDE DEF new
<1> QED
  BY <1>2, <1>4, <1>5, <1>6, <1>7 DEF GoodState
-----------------------------------------------------------------------------
\* The types of what RemoveSigSharesForSession writes, and of the rest.
ManagerType ==
  /\ DOMAIN nodeStates = Node
  /\ \A n \in Node : nodeStates[n] \in [NodeIds(n) -> GoodState]
  /\ sigShares \in [Node -> SUBSET Share]
  /\ sigSharesToAnnounce \in [Node -> SUBSET Key]
  /\ sigSharesRequested \in [Node -> [Key -> Conn \cup {None}]]
  /\ expired \in [Node -> SUBSET Key]

RecType ==
  /\ recSig \in [Node -> [Session -> {"no", "valid", "wrong"}]]
  /\ DOMAIN pendingRecoveredSigs = Node
  /\ \A n \in Node : pendingRecoveredSigs[n] \in
       [NodeIds(n) -> SUBSET (Session \X {"valid", "wrong"})]

NetType ==
  /\ DOMAIN chan = Node
  /\ \A n \in Node : chan[n] \in [NodeIds(n) -> Seq(Message)]
  /\ up \in [Link -> BOOLEAN] /\ conn \in [Link -> 1 .. MaxConns]
  /\ \A l \in Link : up[l] \/ conn[l] < MaxConns

RestType ==
  /\ DOMAIN batch = Node
  /\ \A n \in Node : batch[n] \in {<<>>} \cup (NodeIds(n) \X SUBSET Share)
  /\ pendingSigns \in [Node -> SUBSET Session]
  /\ shouldBan \in [Node -> SUBSET Conn]
  /\ retryDue \in [Node -> SUBSET Session]
  /\ hasQuorum \subseteq Node
  /\ timeouts \in 0 .. MaxTimeouts

Typed == ManagerType /\ RecType /\ NetType /\ RestType

\* The inductive invariant.
Inv == Typed /\ RequestOwner /\ SharesGenuine /\ DoneSessionsGone

LEMMA TypedTypeOK == Typed => TypeOK /\ RecvIdsLive
<1> SUFFICES ASSUME Typed
             PROVE  TypeOK /\ RecvIdsLive
  OBVIOUS
<1>1. \A st \in GoodState : st \in NodeState
  BY DEF GoodState
<1>2. \A n \in Node : nodeStates[n] \in [NodeIds(n) -> NodeState]
  BY Zenon, <1>1 DEF Typed, ManagerType
<1>3. TypeOK
  BY Zenon, <1>2 DEF Typed, ManagerType, RecType, NetType, RestType, TypeOK
<1>4. RecvIdsLive
  BY DEF Typed, ManagerType, RecvIdsLive, GoodState
<1> QED
  BY <1>3, <1>4

LEMMA ConnsAreNodeIds ==
  ASSUME NetType, NEW n \in Node
  PROVE  Conns(n) \subseteq NodeIds(n)
<1> SUFFICES ASSUME NEW p \in Node, {n, p} \in Link
             PROVE  <<p, conn[{n, p}]>> \in NodeIds(n)
  BY Zenon DEF Conns, Peers
<1>1. conn[{n, p}] \in 1 .. MaxConns
  BY DEF NetType
<1> QED
  BY Zenon, <1>1 DEF NodeIds, Conn

\* RemoveSigSharesForSession keeps the invariants, if `states`, `shares` and
\* `reqs` have them and every session that is done is removed or gone already.
LEMMA RemoveKeeps ==
  ASSUME ManagerType, RequestOwner, SharesGenuine, DoneSessionsGone,
         NEW n \in Node, NEW S \in SUBSET Session,
         NEW states \in [NodeIds(n) -> GoodState],
         NEW shares \in SUBSET Share, NEW ann \in SUBSET Key,
         NEW reqs \in [Key -> Conn \cup {None}],
         \A c \in NodeIds(n) : \A k \in states[c].requestedSigShares : reqs[k] = c,
         \A sh \in shares : sh[3] = "valid" \/ (sh[2] = n /\ n \in Broken),
         \A p \in Node : p # n => recSig'[p] = recSig[p],
         n \notin Broken => \A s \in Session : recSig'[n][s] # "wrong",
         \A s \in Session : recSig'[n][s] # "no" =>
           \/ s \in S
           \/ /\ \A sh \in shares : sh[1] # s
              /\ \A k \in Key : k[1] = s => reqs[k] = None,
         RemoveSigSharesForSessions(n, S, states, shares, ann, reqs)
  PROVE  ManagerType' /\ RequestOwner' /\ SharesGenuine' /\ DoneSessionsGone'
<1> DEFINE left == [k \in Key |-> IF k[1] \in S THEN None ELSE reqs[k]]
           sts == [c \in NodeIds(n) |-> RemoveSessions(states[c], S)]
           shs == {sh \in shares : sh[1] \notin S}
           anns == {k \in ann : k[1] \notin S}
           exp == {k \in expired[n] : left[k] # None}
<1>1. /\ nodeStates' = [nodeStates EXCEPT ![n] = sts]
      /\ sigShares' = [sigShares EXCEPT ![n] = shs]
      /\ sigSharesToAnnounce' = [sigSharesToAnnounce EXCEPT ![n] = anns]
      /\ sigSharesRequested' = [sigSharesRequested EXCEPT ![n] = left]
      /\ expired' = [expired EXCEPT ![n] = exp]
  BY Zenon DEF RemoveSigSharesForSessions, ManagerType
<1>2. sts \in [NodeIds(n) -> GoodState]
  BY Zenon, RemoveSessionsGood
<1>3. shs \subseteq Share /\ anns \subseteq Key /\ exp \subseteq Key
  BY DEF ManagerType
<1>4. left \in [Key -> Conn \cup {None}]
  OBVIOUS
<1>5. \A c \in NodeIds(n) : \A k \in sts[c].requestedSigShares : left[k] = c
  <2> SUFFICES ASSUME NEW c \in NodeIds(n), NEW k \in sts[c].requestedSigShares
               PROVE  left[k] = c
    OBVIOUS
  <2>1. states[c] \in NodeState
    BY DEF GoodState
  <2>2. RemoveSessions(states[c], S).requestedSigShares =
          {x \in states[c].requestedSigShares : x[1] \notin S}
    BY Zenon, <2>1 DEF RemoveSessions, NodeState
  <2>3. states[c].requestedSigShares \subseteq Key
    BY Zenon, <2>1 DEF NodeState
  <2> QED
    BY <2>2, <2>3
<1>6. \A s \in Session : recSig'[n][s] # "no" =>
        /\ \A sh \in shs : sh[1] # s
        /\ \A k \in Key : k[1] = s => left[k] = None
  OBVIOUS
<1> HIDE DEF left, sts, shs, anns, exp
<1>7. /\ DOMAIN nodeStates' = Node
      /\ nodeStates'[n] = sts /\ sigShares'[n] = shs /\ sigSharesRequested'[n] = left
      /\ \A p \in Node : p # n =>
           /\ nodeStates'[p] = nodeStates[p] /\ sigShares'[p] = sigShares[p]
           /\ sigSharesRequested'[p] = sigSharesRequested[p]
  BY Zenon, <1>1 DEF ManagerType
<1>8. ManagerType'
  <2>1. \A p \in Node : nodeStates'[p] \in [NodeIds(p) -> GoodState]
    BY Zenon, <1>2, <1>7 DEF ManagerType
  <2>2. /\ sigShares' \in [Node -> SUBSET Share]
        /\ sigSharesToAnnounce' \in [Node -> SUBSET Key]
        /\ sigSharesRequested' \in [Node -> [Key -> Conn \cup {None}]]
        /\ expired' \in [Node -> SUBSET Key]
    BY <1>1, <1>3, <1>4 DEF ManagerType
  <2> QED
    BY Zenon, <1>7, <2>1, <2>2 DEF ManagerType
<1>9. RequestOwner'
  <2> SUFFICES ASSUME NEW p \in Node, NEW c \in NodeIds(p),
                      NEW k \in nodeStates'[p][c].requestedSigShares
               PROVE  sigSharesRequested'[p][k] = c
    BY Zenon DEF RequestOwner
  <2>1. CASE p = n
    BY Zenon, <2>1, <1>5, <1>7
  <2>2. CASE p # n
    BY <2>2, <1>7 DEF RequestOwner
  <2> QED
    BY <2>1, <2>2
<1>10. SharesGenuine'
  <2> SUFFICES ASSUME NEW p \in Node
               PROVE  /\ \A sh \in sigShares'[p] :
                           sh[3] = "valid" \/ (sh[2] = p /\ p \in Broken)
                      /\ p \notin Broken =>
                           \A s \in Session : recSig'[p][s] # "wrong"
    BY Zenon DEF SharesGenuine
  <2>1. CASE p = n
    BY <2>1, <1>7 DEF shs
  <2>2. CASE p # n
    BY <2>2, <1>7 DEF SharesGenuine
  <2> QED
    BY <2>1, <2>2
<1>11. DoneSessionsGone'
  <2> SUFFICES ASSUME NEW p \in Node, NEW s \in Session, recSig'[p][s] # "no"
               PROVE  /\ \A sh \in sigShares'[p] : sh[1] # s
                      /\ \A k \in Key : k[1] = s => sigSharesRequested'[p][k] = None
    BY Zenon DEF DoneSessionsGone, Recovered
  <2>1. CASE p = n
    BY Zenon, <2>1, <1>6, <1>7
  <2>2. CASE p # n
    BY <2>2, <1>7 DEF DoneSessionsGone, Recovered
  <2> QED
    BY <2>1, <2>2
<1> QED
  BY <1>8, <1>9, <1>10, <1>11

LEMMA RelayType ==
  ASSUME NEW n \in Node, NEW sigs \in SUBSET (Session \X {"valid", "wrong"}),
         NEW pending,
         \A p \in Node : pending[p] \in
           [NodeIds(p) -> SUBSET (Session \X {"valid", "wrong"})]
  PROVE  /\ DOMAIN Relay(n, sigs, pending) = Node
         /\ \A p \in Node : Relay(n, sigs, pending)[p] \in
              [NodeIds(p) -> SUBSET (Session \X {"valid", "wrong"})]
<1> DEFINE R == SUBSET (Session \X {"valid", "wrong"})
           After(p, c) == IF c[1] = n /\ <<p, c[2]>> \in Conns(n)
                          THEN pending[p][c] \cup sigs ELSE pending[p][c]
<1>1. \A p \in Node : \A c \in NodeIds(p) : After(p, c) \in R
  <2> SUFFICES ASSUME NEW p \in Node, NEW c \in NodeIds(p)
               PROVE  After(p, c) \in R
    OBVIOUS
  <2>1. pending[p][c] \in R
    BY Zenon
  <2> QED
    BY <2>1
<1>2. Relay(n, sigs, pending) = [p \in Node |-> [c \in NodeIds(p) |-> After(p, c)]]
  BY Zenon DEF Relay
<1> HIDE DEF After, R
<1>3. \A p \in Node : [c \in NodeIds(p) |-> After(p, c)] \in [NodeIds(p) -> R]
  BY Zenon, <1>1
<1>4. /\ DOMAIN Relay(n, sigs, pending) = Node
      /\ \A p \in Node : Relay(n, sigs, pending)[p] \in [NodeIds(p) -> R]
  BY Zenon, <1>2, <1>3
<1> QED
  BY Zenon, <1>4 DEF R

\* ProcessSigShare for genuine shares of sessions that are not done.
LEMMA ProcessKeeps ==
  ASSUME Inv, NEW n \in Node, NEW new \in SUBSET Share,
         NEW states \in [NodeIds(n) -> GoodState],
         NEW reqs \in [Key -> Conn \cup {None}],
         \A c \in NodeIds(n) : \A k \in states[c].requestedSigShares : reqs[k] = c,
         \A sh \in new : /\ sh[3] = "valid" \/ (sh[2] = n /\ n \in Broken)
                         /\ ~Recovered(n, sh[1]),
         \A k \in Key : Recovered(n, k[1]) => reqs[k] = None,
         ProcessSigShares(n, new, states, reqs)
  PROVE  /\ ManagerType' /\ RequestOwner' /\ SharesGenuine' /\ DoneSessionsGone'
         /\ RecType'
<1> DEFINE have == sigShares[n] \cup new
           own == {KeyOf(sh) : sh \in {x \in new : x[2] = n}}
           Pushed(st) == [st EXCEPT !.requested = @ \cup own, !.knows = @ \cup own]
           pushed == [c \in NodeIds(n) |->
             IF c \in Conns(n) THEN Pushed(states[c]) ELSE states[c]]
<1>1. PICK verdict \in [Session -> {"no", "valid", "wrong"}] :
        LET done == {s \in Session : verdict[s] # "no"}
        IN /\ \A s \in Session : verdict[s] \in
                IF \E sh \in new : sh[1] = s
                THEN TryRecoverSig({sh \in have : sh[1] = s}) ELSE {"no"}
           /\ RemoveSigSharesForSessions(n, done, pushed, have,
                sigSharesToAnnounce[n] \cup Keys(new), reqs)
           /\ recSig' = [recSig EXCEPT ![n] = [s \in Session |->
                           IF s \in done THEN verdict[s] ELSE @[s]]]
           /\ pendingRecoveredSigs' =
                Relay(n, {<<s, verdict[s]>> : s \in done}, pendingRecoveredSigs)
  BY Zenon DEF ProcessSigShares
<1> DEFINE done == {s \in Session : verdict[s] # "no"}
<1>2. have \in SUBSET Share /\ own \in SUBSET Key
      /\ sigSharesToAnnounce[n] \cup Keys(new) \in SUBSET Key
  BY DEF Inv, Typed, ManagerType, Keys, KeyOf, Share, Key
<1>3. /\ pushed \in [NodeIds(n) -> GoodState]
      /\ \A c \in NodeIds(n) : \A k \in pushed[c].requestedSigShares : reqs[k] = c
  <2> SUFFICES ASSUME NEW c \in NodeIds(n)
               PROVE  /\ pushed[c] \in GoodState
                      /\ \A k \in pushed[c].requestedSigShares : reqs[k] = c
    BY Zenon
  <2> DEFINE st == states[c]
             pu == Pushed(st)
  <2>1. st \in GoodState /\ st \in NodeState /\ (st.banned => st.requestedSigShares = {})
    BY DEF GoodState
  <2>a. st.requested \cup own \in SUBSET Key /\ st.knows \cup own \in SUBSET Key
    BY <2>1, <1>2 DEF NodeState
  <2> HIDE DEF st, own
  <2>2. /\ pu \in NodeState
        /\ pu.sessionByRecvId = st.sessionByRecvId
        /\ pu.recvSessionId = st.recvSessionId
        /\ pu.sendSessionId = st.sendSessionId
        /\ pu.nextSendSessionId = st.nextSendSessionId
        /\ pu.banned = st.banned
        /\ pu.requestedSigShares = st.requestedSigShares
    BY Zenon, <2>1, <2>a DEF NodeState
  <2> HIDE DEF pu, Pushed
  <2>3. pu \in GoodState
    BY Zenon, <2>1, <2>2, GoodAlso
  <2>4. pushed[c] = pu \/ pushed[c] = st
    BY Zenon DEF st, pu
  <2>5. \A k \in st.requestedSigShares : reqs[k] = c
    BY Zenon DEF st
  <2> HIDE DEF pushed
  <2> QED
    BY Zenon, <2>1, <2>2, <2>3, <2>4, <2>5
<1>4. \A sh \in have : sh[3] = "valid" \/ (sh[2] = n /\ n \in Broken)
  BY DEF Inv, SharesGenuine
<1>5. \A p \in Node : p # n => recSig'[p] = recSig[p]
  BY Zenon, <1>1 DEF Inv, Typed, RecType
<1>r. recSig' = [recSig EXCEPT ![n] = [s \in Session |->
                  IF s \in done THEN verdict[s] ELSE recSig[n][s]]]
  BY Zenon, <1>1
<1>6. /\ recSig' \in [Node -> [Session -> {"no", "valid", "wrong"}]]
      /\ \A s \in Session :
           recSig'[n][s] = IF s \in done THEN verdict[s] ELSE recSig[n][s]
  BY <1>r DEF Inv, Typed, RecType
<1>7. ASSUME n \notin Broken, NEW s \in Session
      PROVE  recSig'[n][s] # "wrong"
  <2> DEFINE H == {sh \in have : sh[1] = s}
  <2>1. \A sh \in H : sh[3] = "valid"
    BY <1>4, <1>7
  <2>2. {sh \in H : sh[3] = "valid"} = H
    BY Zenon, <2>1
  <2>3. verdict[s] \in {"no"} \cup TryRecoverSig(H)
    BY Zenon, <1>1
  <2>4. "wrong" \notin TryRecoverSig(H)
    <3> HIDE DEF H
    <3> QED
      BY <2>2 DEF TryRecoverSig
  <2>5. verdict[s] # "wrong"
    BY Zenon, <2>3, <2>4
  <2> QED
    BY <2>5, <1>6, <1>7 DEF Inv, SharesGenuine
<1>8. \A s \in Session : recSig'[n][s] # "no" =>
           \/ s \in done
           \/ /\ \A sh \in have : sh[1] # s
              /\ \A k \in Key : k[1] = s => reqs[k] = None
  BY <1>6 DEF Inv, DoneSessionsGone, Recovered
<1>9. RemoveSigSharesForSessions(n, done, pushed, have,
                sigSharesToAnnounce[n] \cup Keys(new), reqs)
  BY Zenon, <1>1
<1>10. done \in SUBSET Session
  OBVIOUS
<1>11. RecType'
  <2>2. {<<s, verdict[s]>> : s \in done} \in SUBSET (Session \X {"valid", "wrong"})
    OBVIOUS
  <2> DEFINE sigs == {<<s, verdict[s]>> : s \in done}
  <2>3. pendingRecoveredSigs' = Relay(n, sigs, pendingRecoveredSigs)
    BY Zenon, <1>1
  <2> HIDE DEF sigs
  <2>4. \A p \in Node : pendingRecoveredSigs[p] \in
           [NodeIds(p) -> SUBSET (Session \X {"valid", "wrong"})]
    BY Zenon DEF Inv, Typed, RecType
  <2>5. sigs \in SUBSET (Session \X {"valid", "wrong"})
    BY Zenon, <2>2 DEF sigs
  <2>6. /\ DOMAIN Relay(n, sigs, pendingRecoveredSigs) = Node
        /\ \A p \in Node : Relay(n, sigs, pendingRecoveredSigs)[p] \in
              [NodeIds(p) -> SUBSET (Session \X {"valid", "wrong"})]
    BY Zenon, <2>4, <2>5, RelayType
  <2> QED
    BY Zenon, <1>6, <2>3, <2>6 DEF RecType
<1> HIDE DEF have, own, Pushed, pushed, done
<1>12. ManagerType /\ RequestOwner /\ SharesGenuine /\ DoneSessionsGone
  BY DEF Inv, Typed
<1> QED
  BY <1>2, <1>3, <1>4, <1>5, <1>7, <1>8, <1>9, <1>10, <1>11, <1>12, RemoveKeeps
-----------------------------------------------------------------------------
\* Steps that leave some of the variables alone.
LEMMA ManagerSame ==
  ASSUME Inv, UNCHANGED <<nodeStates, managerVars, recSig>>
  PROVE  ManagerType' /\ RequestOwner' /\ SharesGenuine' /\ DoneSessionsGone'
<1>1. UNCHANGED <<nodeStates, sigShares, sigSharesToAnnounce, sigSharesRequested,
                  expired, recSig>>
  BY Zenon DEF managerVars
<1>2. ManagerType'
  BY Zenon, <1>1 DEF Inv, Typed, ManagerType
<1>3. RequestOwner' /\ SharesGenuine' /\ DoneSessionsGone'
  BY <1>1 DEF Inv, RequestOwner, SharesGenuine, DoneSessionsGone, Recovered
<1> QED
  BY <1>2, <1>3

LEMMA RecSame == ASSUME RecType, UNCHANGED recVars PROVE RecType'
BY Zenon DEF RecType, recVars

LEMMA NetSame == ASSUME NetType, UNCHANGED <<linkVars, chan>> PROVE NetType'
BY Zenon DEF NetType, linkVars

\* Steps that change the states of the connections of n only, and ask for
\* nothing.
LEMMA StatesStep ==
  ASSUME Inv, NEW n \in Node, NEW sts \in [NodeIds(n) -> GoodState],
         nodeStates' = [nodeStates EXCEPT ![n] = sts],
         \A c \in NodeIds(n) :
           sts[c].requestedSigShares \subseteq nodeStates[n][c].requestedSigShares,
         sigSharesToAnnounce' \in [Node -> SUBSET Key],
         UNCHANGED <<sigShares, sigSharesRequested, expired, recSig>>
  PROVE  ManagerType' /\ RequestOwner' /\ SharesGenuine' /\ DoneSessionsGone'
<1>1. /\ DOMAIN nodeStates' = Node /\ nodeStates'[n] = sts
      /\ \A p \in Node : p # n => nodeStates'[p] = nodeStates[p]
  BY Zenon DEF Inv, Typed, ManagerType
<1>2. \A p \in Node : nodeStates'[p] \in [NodeIds(p) -> GoodState]
  BY Zenon, <1>1 DEF Inv, Typed, ManagerType
<1>3. ManagerType'
  BY Zenon, <1>1, <1>2 DEF Inv, Typed, ManagerType
<1>4. RequestOwner'
  <2> SUFFICES ASSUME NEW p \in Node, NEW c \in NodeIds(p),
                      NEW k \in nodeStates'[p][c].requestedSigShares
               PROVE  sigSharesRequested'[p][k] = c
    BY Zenon DEF RequestOwner
  <2>1. k \in nodeStates[p][c].requestedSigShares
    BY <1>1
  <2> QED
    BY Zenon, <2>1 DEF Inv, RequestOwner
<1>5. SharesGenuine' /\ DoneSessionsGone'
  BY DEF Inv, SharesGenuine, DoneSessionsGone, Recovered
<1> QED
  BY <1>3, <1>4, <1>5

LEMMA StateStep ==
  ASSUME Inv, NEW n \in Node, NEW c \in NodeIds(n), NEW st \in GoodState,
         nodeStates' = [nodeStates EXCEPT ![n][c] = st],
         st.requestedSigShares \subseteq nodeStates[n][c].requestedSigShares,
         UNCHANGED <<managerVars, recSig>>
  PROVE  ManagerType' /\ RequestOwner' /\ SharesGenuine' /\ DoneSessionsGone'
<1> DEFINE sts == [nodeStates[n] EXCEPT ![c] = st]
<1>1. nodeStates[n] \in [NodeIds(n) -> GoodState]
  BY Zenon DEF Inv, Typed, ManagerType
<1>2. sts \in [NodeIds(n) -> GoodState]
  BY Zenon, <1>1
<1>3. \A x \in NodeIds(n) :
        sts[x].requestedSigShares \subseteq nodeStates[n][x].requestedSigShares
  BY <1>1
<1>4. nodeStates' = [nodeStates EXCEPT ![n] = sts]
  BY Zenon DEF Inv, Typed, ManagerType
<1>5. /\ sigSharesToAnnounce' \in [Node -> SUBSET Key]
      /\ UNCHANGED <<sigShares, sigSharesRequested, expired, recSig>>
  BY Zenon DEF Inv, Typed, ManagerType, managerVars
<1> HIDE DEF sts
<1> QED
  BY Zenon, <1>2, <1>3, <1>4, <1>5, StatesStep

LEMMA AddPendingInv ==
  ASSUME Inv, NEW n \in Node, AddPending(n)
  PROVE  Inv'
<1> DEFINE c == batch[n][1]
           old == nodeStates[n][c]
           P == old.pendingIncomingSigShares \cup
                  {sh \in batch[n][2] : KeyOf(sh) \notin Keys(old.pendingIncomingSigShares)}
           st == [old EXCEPT !.pendingIncomingSigShares = P]
<1>1. batch[n] \in NodeIds(n) \X SUBSET Share
  BY Zenon DEF AddPending, Inv, Typed, RestType
<1>2. c \in NodeIds(n) /\ batch[n][2] \subseteq Share
  BY <1>1
<1>3. /\ nodeStates' = [nodeStates EXCEPT ![n][c] = st]
      /\ batch' = [batch EXCEPT ![n] = <<>>]
      /\ UNCHANGED <<managerVars, pendingSigns, recVars, shouldBan,
                     retryDue, hasQuorum, linkVars, chan, timeouts>>
  BY Zenon, <1>2 DEF AddPending, Inv, Typed, ManagerType
<1>4. old \in GoodState /\ old \in NodeState /\ (old.banned => old.requestedSigShares = {})
  BY <1>2 DEF Inv, Typed, ManagerType, GoodState
<1>5. P \in SUBSET Share
  BY <1>2, <1>4 DEF NodeState
<1> HIDE DEF P, old, c
<1>6. /\ st \in NodeState
      /\ st.sessionByRecvId = old.sessionByRecvId
      /\ st.recvSessionId = old.recvSessionId
      /\ st.sendSessionId = old.sendSessionId
      /\ st.nextSendSessionId = old.nextSendSessionId
      /\ st.banned = old.banned
      /\ st.requestedSigShares = old.requestedSigShares
  BY Zenon, <1>4, <1>5 DEF NodeState
<1> HIDE DEF st
<1>7. st \in GoodState
  BY Zenon, <1>4, <1>6, GoodAlso
<1>8. st.requestedSigShares \subseteq nodeStates[n][c].requestedSigShares
  BY Zenon, <1>6 DEF old
<1>9. ManagerType' /\ RequestOwner' /\ SharesGenuine' /\ DoneSessionsGone'
  BY <1>2, <1>3, <1>7, <1>8, StateStep DEF recVars
<1>10. RecType' /\ NetType'
  BY <1>3, RecSame, NetSame DEF Inv, Typed
<1>11. RestType'
  <2>1. DOMAIN batch' = Node /\ \A p \in Node : batch'[p] = IF p = n THEN <<>> ELSE batch[p]
    BY <1>3 DEF Inv, Typed, RestType
  <2> QED
    BY Zenon, <2>1, <1>3 DEF Inv, Typed, RestType
<1> QED
  BY <1>9, <1>10, <1>11 DEF Inv, Typed

\* The other end of a connection.
LEMMA OtherEnd ==
  ASSUME NEW n \in Node, NEW c \in NodeIds(n)
  PROVE  /\ c = <<c[1], c[2]>> /\ c[1] \in Node /\ c[2] \in 1 .. MaxConns
         /\ <<n, c[2]>> \in NodeIds(c[1]) /\ {n, c[1]} \in Link
<1>1. c \in Node \X (1 .. MaxConns) /\ {n, c[1]} \in Link
  BY Zenon DEF NodeIds, Conn
<1>2. {c[1], n} = {n, c[1]}
  OBVIOUS
<1>3. c = <<c[1], c[2]>> /\ c[1] \in Node /\ c[2] \in 1 .. MaxConns
  BY <1>1
<1>4. <<n, c[2]>>[1] = n /\ <<n, c[2]>> \in Conn
  BY <1>3 DEF Conn
<1> QED
  BY Zenon, <1>1, <1>2, <1>3, <1>4 DEF NodeIds

LEMMA ChanType ==
  ASSUME NetType, NEW n \in Node, NEW c \in NodeIds(n)
  PROVE  chan[c[1]][<<n, c[2]>>] \in Seq(Message)
BY Zenon, OtherEnd DEF NetType

\* What handling a message makes of the state of the connection.
Handled(n, st, m) ==
  CASE m.t = "ann"   -> OnSigSesAnn(n, st, m)
    [] m.t = "inv"   -> OnSigSharesInv(n, st, m)
    [] m.t = "get"   -> OnGetSigShares(n, st, m)
    [] m.t = "batch" -> OnBatchedSigShares(st, m)

LEMMA HandledCases ==
  ASSUME NEW n, NEW st, NEW m \in Message
  PROVE  /\ m.t = "ann"   => Handled(n, st, m) = OnSigSesAnn(n, st, m)
         /\ m.t = "inv"   => Handled(n, st, m) = OnSigSharesInv(n, st, m)
         /\ m.t = "get"   => Handled(n, st, m) = OnGetSigShares(n, st, m)
         /\ m.t = "batch" => Handled(n, st, m) = OnBatchedSigShares(st, m)
         /\ m.t \in {"ann", "inv", "get", "batch"}
BY MessageParts DEF Handled

LEMMA HandledGood ==
  ASSUME NEW n, NEW st \in GoodState, NEW m \in Message
  PROVE  /\ Handled(n, st, m) \in GoodState
         /\ Handled(n, st, m).requestedSigShares \subseteq st.requestedSigShares
<1>1. st \in NodeState
  BY DEF GoodState
<1>2. Handled(n, st, m) \in GoodState
  <2>1. CASE m.t = "ann"
    BY <2>1, HandledCases, OnSigSesAnnGood
  <2>2. CASE m.t \in {"inv", "get"}
    BY <2>2, HandledCases, OnSigSharesInvGood
  <2>3. CASE m.t = "batch"
    BY <2>3, HandledCases, OnBatchedSigSharesGood
  <2> QED
    BY <2>1, <2>2, <2>3, HandledCases
<1>3. /\ OnSigSesAnn(n, st, m).requestedSigShares = st.requestedSigShares
      /\ OnSigSharesInv(n, st, m).requestedSigShares = st.requestedSigShares
      /\ OnGetSigShares(n, st, m).requestedSigShares = st.requestedSigShares
  BY Zenon, <1>1 DEF OnSigSesAnn, OnSigSharesInv, OnGetSigShares, NodeState
<1>4. OnBatchedSigShares(st, m).requestedSigShares
        = st.requestedSigShares \ Keys(Rebuild(st, m))
  BY Zenon, <1>1 DEF OnBatchedSigShares, NodeState
<1>5. OnBatchedSigShares(st, m).requestedSigShares \subseteq st.requestedSigShares
  BY Zenon, <1>4
<1> QED
  BY Zenon, <1>2, <1>3, <1>5, HandledCases

LEMMA ProcessMessageInv ==
  ASSUME Inv, NEW n \in Node, NEW c \in NodeIds(n), ProcessMessage(n, c)
  PROVE  Inv'
<1> DEFINE q == chan[c[1]][<<n, c[2]>>]
           m == Head(q)
           st == nodeStates[n][c]
           new == IF m.t = "batch" THEN NewInBatch(n, st, m) ELSE {}
           b == IF new = {} THEN <<>> ELSE <<c, new>>
<1>1. /\ nodeStates' = [nodeStates EXCEPT ![n][c] = Handled(n, st, m)]
      /\ batch' = [batch EXCEPT ![n] = b]
      /\ chan' = [chan EXCEPT ![c[1]][<<n, c[2]>>] = Tail(q)]
      /\ UNCHANGED <<managerVars, pendingSigns, recVars, shouldBan,
                     retryDue, hasQuorum, linkVars, timeouts>>
      /\ q # <<>>
  BY Zenon DEF ProcessMessage, Handled
<1>2. q \in Seq(Message)
  BY Zenon, ChanType DEF Inv, Typed
<1>3. m \in Message /\ Tail(q) \in Seq(Message)
  BY <1>1, <1>2
<1>4. st \in GoodState /\ st \in NodeState
  BY DEF Inv, Typed, ManagerType, GoodState
<1>5. ManagerType' /\ RequestOwner' /\ SharesGenuine' /\ DoneSessionsGone'
  <2>1. /\ Handled(n, st, m) \in GoodState
        /\ Handled(n, st, m).requestedSigShares \subseteq st.requestedSigShares
    BY Zenon, <1>3, <1>4, HandledGood
  <2> DEFINE h == Handled(n, st, m)
  <2> HIDE DEF h
  <2>2. /\ h \in GoodState
        /\ h.requestedSigShares \subseteq nodeStates[n][c].requestedSigShares
        /\ nodeStates' = [nodeStates EXCEPT ![n][c] = h]
        /\ UNCHANGED <<managerVars, recSig>>
    BY Zenon, <2>1, <1>1 DEF h, recVars
  <2> QED
    BY <2>2, StateStep
<1>6. RecType'
  BY Zenon, <1>1, RecSame DEF Inv, Typed
<1>7. NetType'
  <2> DEFINE p == c[1]
             d == <<n, c[2]>>
  <2>1. p \in Node /\ d \in NodeIds(p)
    BY Zenon, OtherEnd
  <2>2. chan' = [chan EXCEPT ![p] = [chan[p] EXCEPT ![d] = Tail(q)]]
    BY Zenon, <1>1, <2>1 DEF Inv, Typed, NetType
  <2> DEFINE t == Tail(q)
  <2> HIDE DEF p, d, q, t
  <2>3. [chan[p] EXCEPT ![d] = t] \in [NodeIds(p) -> Seq(Message)]
    BY Zenon, <1>3, <2>1 DEF Inv, Typed, NetType, t
  <2>4. /\ DOMAIN chan' = Node
        /\ \A x \in Node : chan'[x] \in [NodeIds(x) -> Seq(Message)]
    BY Zenon, <2>1, <2>2, <2>3 DEF Inv, Typed, NetType, t
  <2>5. UNCHANGED <<up, conn>>
    BY Zenon, <1>1 DEF linkVars
  <2> QED
    BY Zenon, <2>4, <2>5 DEF Inv, Typed, NetType
<1>8. RestType'
  <2>1. new \subseteq Share
    BY <1>3, <1>4, RebuildType DEF NewInBatch
  <2> HIDE DEF new
  <2>2. b \in {<<>>} \cup (NodeIds(n) \X SUBSET Share)
    BY <2>1
  <2> HIDE DEF b
  <2>3. /\ DOMAIN batch' = Node
        /\ \A p \in Node : batch'[p] \in {<<>>} \cup (NodeIds(p) \X SUBSET Share)
    BY <1>1, <2>2 DEF Inv, Typed, RestType
  <2> QED
    BY Zenon, <2>3, <1>1 DEF Inv, Typed, RestType
<1> QED
  BY <1>5, <1>6, <1>7, <1>8 DEF Inv, Typed

\* Releasing what was asked of connections keeps the records of the others in
\* step, since a request has one owner.
LEMMA ReleasedKeeps ==
  ASSUME Inv, NEW n \in Node, NEW C
  PROVE  /\ Released(n, C) \in [Key -> Conn \cup {None}]
         /\ \A c \in NodeIds(n) \ C : C \subseteq NodeIds(n) =>
              \A k \in nodeStates[n][c].requestedSigShares : Released(n, C)[k] = c
         /\ \A k \in Key : Recovered(n, k[1]) => Released(n, C)[k] = None
<1>1. sigSharesRequested[n] \in [Key -> Conn \cup {None}]
  BY Zenon DEF Inv, Typed, ManagerType
<1>2. \A k \in Key : Released(n, C)[k] =
        IF \E c \in C : k \in nodeStates[n][c].requestedSigShares
        THEN None ELSE sigSharesRequested[n][k]
  BY Zenon DEF Released
<1>3. Released(n, C) \in [Key -> Conn \cup {None}]
  BY <1>1 DEF Released
<1>4. ASSUME NEW c \in NodeIds(n) \ C, C \subseteq NodeIds(n),
             NEW k \in nodeStates[n][c].requestedSigShares
      PROVE  Released(n, C)[k] = c
  <2>1. k \in Key
    <3>1. nodeStates[n][c] \in NodeState
      BY <1>4 DEF Inv, Typed, ManagerType, GoodState
    <3> QED
      BY <3>1 DEF NodeState
  <2>2. \A d \in NodeIds(n) : k \in nodeStates[n][d].requestedSigShares =>
          sigSharesRequested[n][k] = d
    BY Zenon DEF Inv, RequestOwner
  <2> QED
    BY Zenon, <1>2, <1>4, <2>1, <2>2
<1>5. \A k \in Key : Recovered(n, k[1]) => Released(n, C)[k] = None
  <2>1. \A k \in Key : k[1] \in Session
    BY DEF Key
  <2> QED
    BY <1>2, <2>1 DEF Inv, DoneSessionsGone
<1> QED
  BY Zenon, <1>3, <1>4, <1>5

LEMMA ProcessPendingSigSharesInv ==
  ASSUME Inv, NEW n \in Node, ProcessPendingSigShares(n)
  PROVE  Inv'
<1> DEFINE B == BadSources(n)
           reqs == Released(n, B)
           Emptied(st) == [st EXCEPT !.pendingIncomingSigShares = {}]
           Banned(st) == [st EXCEPT !.requestedSigShares = {}, !.banned = TRUE]
           states == [c \in NodeIds(n) |->
             IF c \in B THEN Banned(Emptied(nodeStates[n][c]))
             ELSE Emptied(nodeStates[n][c])]
           new == UNION {ToVerify(n, c) : c \in NodeIds(n) \ B}
<1>1. /\ shouldBan' = [shouldBan EXCEPT ![n] = @ \cup B]
      /\ ProcessSigShares(n, new, states, reqs)
      /\ UNCHANGED <<pendingSigns, batch, retryDue, hasQuorum, linkVars, chan,
                     timeouts>>
  BY Zenon DEF ProcessPendingSigShares
<1>2. B \subseteq NodeIds(n)
  BY Zenon DEF BadSources
<1>3. ASSUME NEW c \in NodeIds(n)
      PROVE  /\ states[c] \in GoodState
             /\ \A k \in states[c].requestedSigShares : reqs[k] = c
  <2> DEFINE st == nodeStates[n][c]
  <2>1. st \in GoodState /\ st \in NodeState /\ (st.banned => st.requestedSigShares = {})
    BY <1>3 DEF Inv, Typed, ManagerType, GoodState
  <2> HIDE DEF st
  <2>2. CASE c \in B
    <3> DEFINE e == Banned(Emptied(st))
    <3>1. /\ e \in NodeState
          /\ e.sessionByRecvId = st.sessionByRecvId
          /\ e.recvSessionId = st.recvSessionId
          /\ e.sendSessionId = st.sendSessionId
          /\ e.nextSendSessionId = st.nextSendSessionId
          /\ e.requestedSigShares = {}
      BY Zenon, <2>1 DEF NodeState
    <3>2. states[c] = e
      BY Zenon, <1>3, <2>2 DEF st
    <3> HIDE DEF e, states
    <3>3. e \in GoodState
      BY Zenon, <2>1, <3>1, GoodAlso
    <3> QED
      BY Zenon, <3>1, <3>2, <3>3
  <2>3. CASE c \notin B
    <3> DEFINE e == Emptied(st)
    <3>1. /\ e \in NodeState
          /\ e.sessionByRecvId = st.sessionByRecvId
          /\ e.recvSessionId = st.recvSessionId
          /\ e.sendSessionId = st.sendSessionId
          /\ e.nextSendSessionId = st.nextSendSessionId
          /\ e.banned = st.banned
          /\ e.requestedSigShares = st.requestedSigShares
      BY Zenon, <2>1 DEF NodeState
    <3>2. states[c] = e
      BY Zenon, <1>3, <2>3 DEF st
    <3> HIDE DEF e, states, B
    <3>3. e \in GoodState
      BY Zenon, <2>1, <3>1, GoodAlso
    <3>4. \A k \in st.requestedSigShares : reqs[k] = c
      BY Zenon, <1>2, <1>3, <2>3, ReleasedKeeps DEF st
    <3> QED
      BY Zenon, <3>1, <3>2, <3>3, <3>4
  <2> QED
    BY Zenon, <2>2, <2>3
<1>4. states \in [NodeIds(n) -> GoodState]
  BY Zenon, <1>3
<1>5. ASSUME NEW c \in NodeIds(n), NEW sh \in ToVerify(n, c)
      PROVE  /\ sh \in Share /\ ~Recovered(n, sh[1])
             /\ c \notin B => sh[3] = "valid"
  <2>1. nodeStates[n][c] \in NodeState
    BY <1>5 DEF Inv, Typed, ManagerType, GoodState
  <2>2. sh \in nodeStates[n][c].pendingIncomingSigShares /\ ~Recovered(n, sh[1])
    BY Zenon, <1>5 DEF ToVerify
  <2>3. sh \in Share
    BY <2>1, <2>2 DEF NodeState
  <2>4. sh[3] \in {"valid", "bad"}
    BY <2>3 DEF Share, Kind
  <2> QED
    BY Zenon, <1>5, <2>2, <2>3, <2>4 DEF BadSources
<1>6. /\ new \in SUBSET Share
      /\ \A sh \in new : sh[3] = "valid" /\ ~Recovered(n, sh[1])
  BY Zenon, <1>5
<1>7. /\ reqs \in [Key -> Conn \cup {None}]
      /\ \A k \in Key : Recovered(n, k[1]) => reqs[k] = None
  BY Zenon, ReleasedKeeps
<1> HIDE DEF states, new, reqs, B
<1>8. /\ ManagerType' /\ RequestOwner' /\ SharesGenuine' /\ DoneSessionsGone'
      /\ RecType'
  BY <1>1, <1>3, <1>4, <1>6, <1>7, ProcessKeeps
<1>9. NetType'
  BY Zenon, <1>1, NetSame DEF Inv, Typed
<1>10. RestType'
  <2>1. B \subseteq Conn
    BY Zenon, <1>2 DEF NodeIds
  <2>2. shouldBan' \in [Node -> SUBSET Conn]
    BY <1>1, <2>1 DEF Inv, Typed, RestType
  <2> QED
    BY Zenon, <1>1, <2>2 DEF Inv, Typed, RestType
<1> QED
  BY <1>8, <1>9, <1>10 DEF Inv, Typed

LEMMA SignPendingSigSharesInv ==
  ASSUME Inv, NEW n \in Node, SignPendingSigShares(n)
  PROVE  Inv'
<1> DEFINE kind == IF n \in Broken THEN "bad" ELSE "valid"
           ss == {x \in pendingSigns[n] :
                    ~Recovered(n, x) /\ <<x, n>> \notin Keys(sigShares[n])}
           new == {<<s, n, kind>> : s \in ss}
<1>1. /\ pendingSigns' = [pendingSigns EXCEPT ![n] = {}]
      /\ ProcessSigShares(n, new, nodeStates[n], sigSharesRequested[n])
      /\ UNCHANGED <<batch, shouldBan, retryDue, hasQuorum, linkVars, chan,
                     timeouts>>
  BY Zenon DEF SignPendingSigShares
<1>2. ss \subseteq Session /\ \A s \in ss : ~Recovered(n, s)
  BY Zenon DEF Inv, Typed, RestType
<1> HIDE DEF ss
<1>3. /\ new \in SUBSET Share
      /\ \A sh \in new : /\ sh[3] = "valid" \/ (sh[2] = n /\ n \in Broken)
                         /\ ~Recovered(n, sh[1])
  BY <1>2 DEF Share, Kind
<1> HIDE DEF new
<1>4. /\ nodeStates[n] \in [NodeIds(n) -> GoodState]
      /\ sigSharesRequested[n] \in [Key -> Conn \cup {None}]
      /\ \A c \in NodeIds(n) : \A k \in nodeStates[n][c].requestedSigShares :
           sigSharesRequested[n][k] = c
  BY Zenon DEF Inv, Typed, ManagerType, RequestOwner
<1>5. \A k \in Key : Recovered(n, k[1]) => sigSharesRequested[n][k] = None
  <2>1. \A k \in Key : k[1] \in Session
    BY Zenon DEF Key
  <2> QED
    BY <2>1 DEF Inv, DoneSessionsGone
<1>6. /\ ManagerType' /\ RequestOwner' /\ SharesGenuine' /\ DoneSessionsGone'
      /\ RecType'
  BY <1>1, <1>3, <1>4, <1>5, ProcessKeeps
<1>7. NetType'
  BY Zenon, <1>1, NetSame DEF Inv, Typed
<1>8. RestType'
  <2>1. pendingSigns' \in [Node -> SUBSET Session]
    BY <1>1 DEF Inv, Typed, RestType
  <2> QED
    BY Zenon, <1>1, <2>1 DEF Inv, Typed, RestType
<1> QED
  BY <1>6, <1>7, <1>8 DEF Inv, Typed

LEMMA ProcessPendingRecoveredSigInv ==
  ASSUME Inv, NEW n \in Node, NEW c \in NodeIds(n), ProcessPendingRecoveredSig(n, c)
  PROVE  Inv'
<1>1. PICK r \in pendingRecoveredSigs[n][c] :
       LET rest == [pendingRecoveredSigs EXCEPT ![n][c] = @ \ {r}]
           new == IF r[2] = "valid" /\ ~Recovered(n, r[1]) THEN {r[1]} ELSE {}
       IN /\ shouldBan' = [shouldBan EXCEPT ![n] =
               IF r[2] = "wrong" /\ ~Recovered(n, r[1])
               THEN @ \cup {c} ELSE @]
          /\ recSig' = [recSig EXCEPT ![n] = [s \in Session |->
               IF s \in new THEN "valid" ELSE @[s]]]
          /\ RemoveSigSharesForSessions(n, new, nodeStates[n], sigShares[n],
               sigSharesToAnnounce[n], sigSharesRequested[n])
          /\ pendingRecoveredSigs' = Relay(n, new \X {"valid"}, rest)
  BY Zenon DEF ProcessPendingRecoveredSig
<1> DEFINE rest == [pendingRecoveredSigs EXCEPT ![n][c] = @ \ {r}]
           new == IF r[2] = "valid" /\ ~Recovered(n, r[1]) THEN {r[1]} ELSE {}
           ban == IF r[2] = "wrong" /\ ~Recovered(n, r[1])
                  THEN shouldBan[n] \cup {c} ELSE shouldBan[n]
           R == SUBSET (Session \X {"valid", "wrong"})
<1>2. /\ shouldBan' = [shouldBan EXCEPT ![n] = ban]
      /\ recSig' = [recSig EXCEPT ![n] = [s \in Session |->
               IF s \in new THEN "valid" ELSE recSig[n][s]]]
      /\ RemoveSigSharesForSessions(n, new, nodeStates[n], sigShares[n],
               sigSharesToAnnounce[n], sigSharesRequested[n])
      /\ pendingRecoveredSigs' = Relay(n, new \X {"valid"}, rest)
      /\ UNCHANGED <<pendingSigns, batch, retryDue, hasQuorum, linkVars, chan,
                     timeouts>>
  BY Zenon, <1>1 DEF ProcessPendingRecoveredSig
<1>3. pendingRecoveredSigs[n] \in [NodeIds(n) -> R]
  BY Zenon DEF Inv, Typed, RecType
<1>4. r \in Session \X {"valid", "wrong"}
  BY Zenon, <1>3
<1>5. new \in SUBSET Session
  BY <1>4
<1>6. RecType' /\ \A p \in Node : p # n => recSig'[p] = recSig[p]
  <2>1. /\ recSig' \in [Node -> [Session -> {"no", "valid", "wrong"}]]
        /\ \A p \in Node : p # n => recSig'[p] = recSig[p]
    <3> HIDE DEF new
    <3> QED
      BY <1>2 DEF Inv, Typed, RecType
  <2>2. \A p \in Node : rest[p] \in [NodeIds(p) -> R]
    <3> DEFINE f == pendingRecoveredSigs[n]
               g == [f EXCEPT ![c] = f[c] \ {r}]
    <3>1. f[c] \ {r} \in R
      BY Zenon, <1>3
    <3> HIDE DEF R
    <3>2. g \in [NodeIds(n) -> R]
      BY Zenon, <1>3, <3>1
    <3>3. rest = [pendingRecoveredSigs EXCEPT ![n] = g]
      BY Zenon DEF Inv, Typed, RecType
    <3> HIDE DEF g, rest
    <3> QED
      BY Zenon, <3>2, <3>3 DEF Inv, Typed, RecType, R
  <2>3. new \X {"valid"} \in R
    BY <1>5
  <2> DEFINE sigs == new \X {"valid"}
  <2> HIDE DEF new, rest, sigs
  <2>4. sigs \in SUBSET (Session \X {"valid", "wrong"})
    BY Zenon, <2>3 DEF sigs
  <2>5. /\ DOMAIN Relay(n, sigs, rest) = Node
        /\ \A p \in Node : Relay(n, sigs, rest)[p] \in
              [NodeIds(p) -> SUBSET (Session \X {"valid", "wrong"})]
    BY Zenon, <2>2, <2>4, RelayType
  <2>6. pendingRecoveredSigs' = Relay(n, sigs, rest)
    BY Zenon, <1>2 DEF sigs
  <2> QED
    BY Zenon, <2>1, <2>5, <2>6 DEF RecType
<1> HIDE DEF new, rest, ban
<1>7. \A s \in Session : recSig'[n][s] = IF s \in new THEN "valid" ELSE recSig[n][s]
  BY Zenon, <1>2 DEF Inv, Typed, RecType
<1>8. n \notin Broken => \A s \in Session : recSig'[n][s] # "wrong"
  BY <1>7 DEF Inv, SharesGenuine
<1>9. \A s \in Session : recSig'[n][s] # "no" =>
           \/ s \in new
           \/ /\ \A sh \in sigShares[n] : sh[1] # s
              /\ \A k \in Key : k[1] = s => sigSharesRequested[n][k] = None
  BY <1>7 DEF Inv, DoneSessionsGone, Recovered
<1>10. /\ nodeStates[n] \in [NodeIds(n) -> GoodState]
       /\ sigShares[n] \in SUBSET Share /\ sigSharesToAnnounce[n] \in SUBSET Key
       /\ sigSharesRequested[n] \in [Key -> Conn \cup {None}]
       /\ \A d \in NodeIds(n) : \A k \in nodeStates[n][d].requestedSigShares :
           sigSharesRequested[n][k] = d
       /\ \A sh \in sigShares[n] : sh[3] = "valid" \/ (sh[2] = n /\ n \in Broken)
  BY Zenon DEF Inv, Typed, ManagerType, RequestOwner, SharesGenuine
<1>11. ManagerType /\ RequestOwner /\ SharesGenuine /\ DoneSessionsGone
  BY Zenon DEF Inv, Typed
<1>12. ManagerType' /\ RequestOwner' /\ SharesGenuine' /\ DoneSessionsGone'
  BY <1>2, <1>5, <1>6, <1>8, <1>9, <1>10, <1>11, RemoveKeeps
<1>13. NetType'
  BY Zenon, <1>2, NetSame DEF Inv, Typed
<1>14. RestType'
  <2>1. ban \subseteq Conn
    BY Zenon DEF Inv, Typed, RestType, NodeIds, ban
  <2>2. shouldBan' \in [Node -> SUBSET Conn]
    BY Zenon, <1>2, <2>1 DEF Inv, Typed, RestType
  <2> QED
    BY Zenon, <1>2, <2>2 DEF Inv, Typed, RestType
<1> QED
  BY <1>6, <1>12, <1>13, <1>14 DEF Inv, Typed

\* The states of the connections `gone` are dropped, with what was asked of
\* them, and the sessions S.
LEMMA ForgetKeeps ==
  ASSUME Inv, NEW n \in Node, NEW S \in SUBSET Session,
         NEW gone \in SUBSET NodeIds(n), UNCHANGED recSig,
         RemoveSigSharesForSessions(n, S,
           [c \in NodeIds(n) |-> IF c \in gone THEN NewState ELSE nodeStates[n][c]],
           sigShares[n], sigSharesToAnnounce[n], Released(n, gone))
  PROVE  ManagerType' /\ RequestOwner' /\ SharesGenuine' /\ DoneSessionsGone'
<1> DEFINE states == [c \in NodeIds(n) |->
                        IF c \in gone THEN NewState ELSE nodeStates[n][c]]
           reqs == Released(n, gone)
<1>1. NewState.requestedSigShares = {}
  BY Zenon DEF NewState
<1>2. states \in [NodeIds(n) -> GoodState]
  BY Zenon, NewStateGood DEF Inv, Typed, ManagerType
<1>3. \A c \in NodeIds(n) : \A k \in states[c].requestedSigShares : reqs[k] = c
  <2> SUFFICES ASSUME NEW c \in NodeIds(n), NEW k \in states[c].requestedSigShares
               PROVE  reqs[k] = c
    OBVIOUS
  <2>1. c \notin gone /\ k \in nodeStates[n][c].requestedSigShares
    BY Zenon, <1>1
  <2>2. c \in NodeIds(n) \ gone /\ gone \subseteq NodeIds(n)
    BY Zenon, <2>1
  <2> QED
    BY <2>1, <2>2, ReleasedKeeps
<1>4. /\ reqs \in [Key -> Conn \cup {None}]
      /\ \A k \in Key : Recovered(n, k[1]) => reqs[k] = None
  BY ReleasedKeeps
<1>5. RemoveSigSharesForSessions(n, S, states, sigShares[n],
                                 sigSharesToAnnounce[n], reqs)
  BY Zenon
<1> HIDE DEF states, reqs
<1>6. /\ sigShares[n] \in SUBSET Share /\ sigSharesToAnnounce[n] \in SUBSET Key
      /\ \A sh \in sigShares[n] : sh[3] = "valid" \/ (sh[2] = n /\ n \in Broken)
      /\ n \notin Broken => \A s \in Session : recSig'[n][s] # "wrong"
      /\ \A p \in Node : p # n => recSig'[p] = recSig[p]
  BY Zenon DEF Inv, Typed, ManagerType, SharesGenuine
<1>7. \A s \in Session : recSig'[n][s] # "no" =>
           \/ s \in S
           \/ /\ \A sh \in sigShares[n] : sh[1] # s
              /\ \A k \in Key : k[1] = s => reqs[k] = None
  BY Zenon, <1>4 DEF Inv, DoneSessionsGone, Recovered
<1>8. ManagerType /\ RequestOwner /\ SharesGenuine /\ DoneSessionsGone
  BY DEF Inv, Typed
<1> QED
  BY <1>2, <1>3, <1>4, <1>5, <1>6, <1>7, <1>8, RemoveKeeps

LEMMA RetryAroundType ==
  ASSUME Inv, NEW n \in Node, NEW S \in SUBSET Session
  PROVE  RetryAround(n, S) \in [Node -> SUBSET Session]
<1>1. \A p \in Node : /\ retryDue[p] \in SUBSET Session
                      /\ retryDue[p] \cup S \in SUBSET Session
  BY DEF Inv, Typed, RestType
<1> QED
  BY Zenon, <1>1 DEF RetryAround

LEMMA RemoveBannedNodeStatesInv ==
  ASSUME Inv, NEW n \in Node, RemoveBannedNodeStates(n)
  PROVE  Inv'
<1> DEFINE gone == {c \in Conns(n) : c \in shouldBan[n]}
<1>1. /\ RemoveSigSharesForSessions(n, {},
           [c \in NodeIds(n) |-> IF c \in gone THEN NewState ELSE nodeStates[n][c]],
           sigShares[n], sigSharesToAnnounce[n], Released(n, gone))
      /\ UNCHANGED <<pendingSigns, batch, recVars, shouldBan, retryDue,
                     hasQuorum, linkVars, chan, timeouts>>
  BY Zenon DEF RemoveBannedNodeStates
<1>2. gone \in SUBSET NodeIds(n)
  BY ConnsAreNodeIds DEF Inv, Typed
<1> HIDE DEF gone
<1>3. UNCHANGED recSig /\ {} \in SUBSET Session
  BY Zenon, <1>1 DEF recVars
<1>4. ManagerType' /\ RequestOwner' /\ SharesGenuine' /\ DoneSessionsGone'
  BY Zenon, <1>1, <1>2, <1>3, ForgetKeeps
<1>5. RecType' /\ NetType'
  BY <1>1, RecSame, NetSame DEF Inv, Typed
<1>6. RestType'
  BY Zenon, <1>1 DEF Inv, Typed, RestType
<1> QED
  BY <1>4, <1>5, <1>6 DEF Inv, Typed

LEMMA RequestTimeoutInv ==
  ASSUME Inv, NEW n \in Node, NEW k \in Key, RequestTimeout(n, k)
  PROVE  Inv'
<1>1. /\ expired' = [expired EXCEPT ![n] = @ \cup {k}]
      /\ UNCHANGED <<nodeStates, sigShares, sigSharesToAnnounce, sigSharesRequested,
                 pendingSigns, batch, recVars, recSig, shouldBan, retryDue,
                 hasQuorum, linkVars, chan, timeouts>>
  BY Zenon DEF RequestTimeout, recVars
<1>2. expired' \in [Node -> SUBSET Key]
  BY <1>1 DEF Inv, Typed, ManagerType
<1>3. ManagerType'
  BY Zenon, <1>1, <1>2 DEF Inv, Typed, ManagerType
<1>4. RequestOwner' /\ SharesGenuine' /\ DoneSessionsGone'
  BY <1>1 DEF Inv, RequestOwner, SharesGenuine, DoneSessionsGone, Recovered
<1>5. RecType' /\ NetType'
  BY <1>1, RecSame, NetSame DEF Inv, Typed
<1>6. RestType'
  BY Zenon, <1>1 DEF Inv, Typed, RestType
<1> QED
  BY <1>3, <1>4, <1>5, <1>6 DEF Inv, Typed

LEMMA AsyncSignIfMemberInv ==
  ASSUME Inv, NEW n \in Node, NEW s \in Session, AsyncSignIfMember(n, s)
  PROVE  Inv'
<1> DEFINE sts == [c \in NodeIds(n) |->
             [nodeStates[n][c] EXCEPT !.knows = Without(s, @), !.sendSessionId[s] = 0]]
<1>1. /\ retryDue' = [retryDue EXCEPT ![n] = @ \ {s}]
      /\ sigSharesToAnnounce' = [sigSharesToAnnounce EXCEPT ![n] =
           @ \cup {k \in Keys(sigShares[n]) : k[1] = s}]
      /\ pendingSigns' = [pendingSigns EXCEPT ![n] = @ \cup {s}]
      /\ UNCHANGED <<sigShares, sigSharesRequested, expired, batch, recVars, recSig,
                     shouldBan, hasQuorum, linkVars, chan, timeouts>>
  BY Zenon DEF AsyncSignIfMember, recVars
<1>a. nodeStates' = [nodeStates EXCEPT ![n] = sts]
  BY Zenon DEF AsyncSignIfMember
<1>2. ASSUME NEW c \in NodeIds(n)
      PROVE  /\ sts[c] \in GoodState
             /\ sts[c].requestedSigShares \subseteq nodeStates[n][c].requestedSigShares
  <2> DEFINE st == nodeStates[n][c]
             W == Without(s, st.knows)
             ids == [st.sendSessionId EXCEPT ![s] = 0]
             new == [st EXCEPT !.knows = W, !.sendSessionId = ids]
  <2>1. st \in GoodState /\ st \in NodeState
    BY Zenon, <1>2 DEF Inv, Typed, ManagerType, GoodState
  <2>2. W \in SUBSET Key
    BY Zenon, <2>1 DEF Without, NodeState
  <2>3. /\ ids \in [Session -> 0 .. MaxId]
        /\ \A x \in Session : ids[x] < st.nextSendSessionId
    BY <2>1, MemberAssumption DEF NodeState, GoodState
  <2> HIDE DEF ids, W, st
  <2>4. /\ new \in NodeState
        /\ new.sessionByRecvId = st.sessionByRecvId
        /\ new.recvSessionId = st.recvSessionId
        /\ new.sendSessionId = ids
        /\ new.nextSendSessionId = st.nextSendSessionId
        /\ new.banned = st.banned
        /\ new.requestedSigShares = st.requestedSigShares
    BY Zenon, <2>1, <2>2, <2>3 DEF NodeState
  <2>5. sts[c] = new
    BY Zenon, <1>2, <2>1 DEF st, W, ids, NodeState
  <2> HIDE DEF new, sts
  <2>6. new \in GoodState
    BY <2>1, <2>3, <2>4 DEF GoodState
  <2> QED
    BY Zenon, <2>4, <2>5, <2>6 DEF st
<1>3. sts \in [NodeIds(n) -> GoodState]
  BY Zenon, <1>2
<1> HIDE DEF sts
<1>4. {k \in Keys(sigShares[n]) : k[1] = s} \subseteq Key
  <2>1. sigShares[n] \subseteq Share
    BY Zenon DEF Inv, Typed, ManagerType
  <2> QED
    BY <2>1 DEF Keys, KeyOf, Key, Share
<1>5. sigSharesToAnnounce' \in [Node -> SUBSET Key]
  BY <1>1, <1>4 DEF Inv, Typed, ManagerType
<1>6. ManagerType' /\ RequestOwner' /\ SharesGenuine' /\ DoneSessionsGone'
  BY Zenon, <1>1, <1>a, <1>2, <1>3, <1>5, StatesStep
<1>7. RecType' /\ NetType'
  BY <1>1, RecSame, NetSame DEF Inv, Typed
<1>8. RestType'
  <2>1. retryDue' \in [Node -> SUBSET Session] /\ pendingSigns' \in [Node -> SUBSET Session]
    BY <1>1 DEF Inv, Typed, RestType
  <2> QED
    BY Zenon, <1>1, <2>1 DEF Inv, Typed, RestType
<1> QED
  BY <1>6, <1>7, <1>8 DEF Inv, Typed

LEMMA NewQuorumInv ==
  ASSUME Inv, NEW n \in Node, NewQuorum(n)
  PROVE  Inv'
<1>1. UNCHANGED <<nodeStates, managerVars, recSig>>
  BY Zenon DEF NewQuorum, recVars
<1>2. UNCHANGED <<batch, recVars, shouldBan, linkVars, chan, timeouts>>
  BY Zenon DEF NewQuorum
<1>3. /\ pendingSigns' \in [Node -> SUBSET Session]
      /\ retryDue' \in [Node -> SUBSET Session]
      /\ hasQuorum' \subseteq Node
  <2>1. RetryAround(n, Session) \in [Node -> SUBSET Session]
    BY RetryAroundType
  <2>2. /\ retryDue' = RetryAround(n, Session) /\ hasQuorum' = hasQuorum \cup {n}
        /\ pendingSigns' = [pendingSigns EXCEPT ![n] = Session]
    BY Zenon DEF NewQuorum
  <2> QED
    BY <2>1, <2>2 DEF Inv, Typed, RestType
<1>4. RestType'
  BY Zenon, <1>2, <1>3 DEF Inv, Typed, RestType
<1> QED
  BY <1>1, <1>2, <1>4, ManagerSame, RecSame, NetSame DEF Inv, Typed

\* Nothing is on its way over the links L any more.
LEMMA DropType ==
  ASSUME Inv, NEW L
  PROVE  /\ DOMAIN Drop(L, chan, <<>>) = Node
         /\ \A n \in Node : Drop(L, chan, <<>>)[n] \in [NodeIds(n) -> Seq(Message)]
         /\ DOMAIN Drop(L, pendingRecoveredSigs, {}) = Node
         /\ \A n \in Node : Drop(L, pendingRecoveredSigs, {})[n] \in
              [NodeIds(n) -> SUBSET (Session \X {"valid", "wrong"})]
<1>1. \A n \in Node : \A c \in NodeIds(n) :
        /\ chan[n][c] \in Seq(Message)
        /\ pendingRecoveredSigs[n][c] \in SUBSET (Session \X {"valid", "wrong"})
  BY Zenon DEF Inv, Typed, NetType, RecType
<1>2. <<>> \in Seq(Message) /\ {} \in SUBSET (Session \X {"valid", "wrong"})
  OBVIOUS
<1> QED
  BY Zenon, <1>1, <1>2 DEF Drop

LEMMA DisconnectInv ==
  ASSUME Inv, NEW l \in Link, Disconnect(l)
  PROVE  Inv'
<1>1. UNCHANGED <<nodeStates, managerVars, recSig>>
  BY Zenon DEF Disconnect
<1>2. RecType'
  BY Zenon, DropType DEF Disconnect, RecType, Inv, Typed
<1>3. NetType'
  <2>1. /\ up' = [up EXCEPT ![l] = FALSE] /\ conn' = conn /\ conn[l] < MaxConns
        /\ chan' = Drop({l}, chan, <<>>)
    BY Zenon DEF Disconnect
  <2>2. /\ up' \in [Link -> BOOLEAN] /\ conn' \in [Link -> 1 .. MaxConns]
        /\ \A x \in Link : up'[x] \/ conn'[x] < MaxConns
    BY <2>1 DEF Inv, Typed, NetType
  <2> QED
    BY Zenon, <2>1, <2>2, DropType DEF NetType
<1>4. RestType'
  BY Zenon DEF Disconnect, Inv, Typed, RestType
<1> QED
  BY <1>1, <1>2, <1>3, <1>4, ManagerSame DEF Inv, Typed

LEMMA ReconnectInv ==
  ASSUME Inv, NEW l \in Link, Reconnect(l)
  PROVE  Inv'
<1>1. /\ UNCHANGED <<nodeStates, managerVars, recSig>>
      /\ UNCHANGED <<pendingSigns, batch, recVars, shouldBan, hasQuorum, chan, timeouts>>
  BY Zenon DEF Reconnect, recVars
<1>2. NetType'
  <2>1. /\ up' = [up EXCEPT ![l] = TRUE] /\ conn' = [conn EXCEPT ![l] = @ + 1]
        /\ ~up[l] /\ chan' = chan
    BY Zenon DEF Reconnect
  <2>2. /\ up' \in [Link -> BOOLEAN] /\ conn' \in [Link -> 1 .. MaxConns]
        /\ \A x \in Link : up'[x] \/ conn'[x] < MaxConns
    BY <2>1, MemberAssumption DEF Inv, Typed, NetType
  <2> QED
    BY Zenon, <2>1, <2>2 DEF Inv, Typed, NetType
<1>3. RestType'
  <2>1. retryDue' \in [Node -> SUBSET Session]
    BY DEF Reconnect, Inv, Typed, RestType
  <2> QED
    BY Zenon, <1>1, <2>1 DEF Inv, Typed, RestType
<1> QED
  BY <1>1, <1>2, <1>3, ManagerSame, RecSame DEF Inv, Typed

LEMMA RestartInv ==
  ASSUME Inv, NEW n \in Node, Restart(n)
  PROVE  Inv'
<1> DEFINE L == {l \in Link : n \in l}
           sts == [c \in NodeIds(n) |-> NewState]
           none == [k \in Key |-> None]
<1>1. /\ \A l \in L : l \in Flaky /\ up[l] /\ conn[l] < MaxConns
      /\ up' = [l \in Link |-> up[l] /\ l \notin L]
      /\ chan' = Drop(L, chan, <<>>)
      /\ pendingRecoveredSigs' = Drop(L, pendingRecoveredSigs, {})
      /\ UNCHANGED <<recSig, shouldBan, retryDue, hasQuorum, conn, timeouts>>
  BY Zenon DEF Restart
<1>2. /\ nodeStates' = [nodeStates EXCEPT ![n] = sts]
      /\ sigShares' = [sigShares EXCEPT ![n] = {}]
      /\ sigSharesToAnnounce' = [sigSharesToAnnounce EXCEPT ![n] = {}]
      /\ sigSharesRequested' = [sigSharesRequested EXCEPT ![n] = none]
      /\ expired' = [expired EXCEPT ![n] = {}]
      /\ pendingSigns' = [pendingSigns EXCEPT ![n] = {}]
      /\ batch' = [batch EXCEPT ![n] = <<>>]
  BY Zenon DEF Restart
<1>3. /\ sts \in [NodeIds(n) -> GoodState] /\ none \in [Key -> Conn \cup {None}]
      /\ \A c \in NodeIds(n) : sts[c].requestedSigShares = {}
      /\ \A k \in Key : none[k] = None
  BY Zenon, NewStateGood DEF NewState
<1> HIDE DEF sts, none
<1>4. /\ DOMAIN nodeStates' = Node /\ nodeStates'[n] = sts
      /\ sigShares'[n] = {} /\ sigSharesRequested'[n] = none
      /\ \A p \in Node : p # n =>
           /\ nodeStates'[p] = nodeStates[p] /\ sigShares'[p] = sigShares[p]
           /\ sigSharesRequested'[p] = sigSharesRequested[p]
  BY Zenon, <1>2 DEF Inv, Typed, ManagerType
<1>5. ManagerType'
  <2>1. \A p \in Node : nodeStates'[p] \in [NodeIds(p) -> GoodState]
    BY Zenon, <1>3, <1>4 DEF Inv, Typed, ManagerType
  <2>2. /\ sigShares' \in [Node -> SUBSET Share]
        /\ sigSharesToAnnounce' \in [Node -> SUBSET Key]
        /\ sigSharesRequested' \in [Node -> [Key -> Conn \cup {None}]]
        /\ expired' \in [Node -> SUBSET Key]
    BY Zenon, <1>2, <1>3 DEF Inv, Typed, ManagerType
  <2> QED
    BY Zenon, <1>4, <2>1, <2>2 DEF ManagerType
<1>6. RequestOwner'
  <2> SUFFICES ASSUME NEW p \in Node, NEW c \in NodeIds(p),
                      NEW k \in nodeStates'[p][c].requestedSigShares
               PROVE  sigSharesRequested'[p][k] = c
    BY Zenon DEF RequestOwner
  <2>1. p # n
    BY Zenon, <1>3, <1>4
  <2> QED
    BY <2>1, <1>4 DEF Inv, RequestOwner
<1>7. SharesGenuine'
  <2>1. \A p \in Node : sigShares'[p] \subseteq sigShares[p]
    BY Zenon, <1>4
  <2> QED
    BY <1>1, <2>1 DEF Inv, SharesGenuine
<1>8. DoneSessionsGone'
  <2>1. \A p \in Node : /\ sigShares'[p] \subseteq sigShares[p]
                        /\ \A k \in Key : sigSharesRequested'[p][k]
                             \in {None, sigSharesRequested[p][k]}
    BY <1>3, <1>4
  <2> QED
    BY <1>1, <2>1 DEF Inv, DoneSessionsGone, Recovered
<1>9. RecType'
  BY Zenon, <1>1, DropType DEF Inv, Typed, RecType
<1>10. NetType'
  <2>1. up' \in [Link -> BOOLEAN] /\ \A l \in Link : up'[l] \/ conn'[l] < MaxConns
    BY <1>1 DEF Inv, Typed, NetType
  <2> QED
    BY Zenon, <1>1, <2>1, DropType DEF Inv, Typed, NetType
<1>11. RestType'
  <2>1. /\ pendingSigns' \in [Node -> SUBSET Session]
        /\ DOMAIN batch' = Node
        /\ \A p \in Node : batch'[p] = IF p = n THEN <<>> ELSE batch[p]
    BY <1>2 DEF Inv, Typed, RestType
  <2> QED
    BY Zenon, <1>1, <2>1 DEF Inv, Typed, RestType
<1> QED
  BY <1>5, <1>6, <1>7, <1>8, <1>9, <1>10, <1>11 DEF Inv, Typed

-----------------------------------------------------------------------------
(***************************************************************************)
(* Queues of messages, and what the ids in them mean.                      *)
(***************************************************************************)
\* The message gives the id i a meaning.
Tells(m, i) == m.t = "ann" /\ m.id = i

\* Once the receiver, to whom ids now mean what `map` says, has handled what
\* comes before position j of the queue q, the id i means s to it, or nothing.
Means(q, map, j, i, s) ==
  /\ \A k \in 1 .. (j - 1) : Tells(q[k], i) /\ q[k].s # s =>
       \E l \in (k + 1) .. (j - 1) : Tells(q[l], i) /\ q[l].s = s
  /\ map[i] \in {None, s} \/ \E l \in 1 .. (j - 1) : Tells(q[l], i) /\ q[l].s = s

\* This holds of all that is in the queue, and of all that the sender may still
\* send without an announcement.
Understood(q, map, send) ==
  /\ \A j \in 1 .. Len(q) : q[j].t # "ann" => Means(q, map, j, q[j].id, q[j].s)
  /\ \A s \in Session : send[s] # 0 => Means(q, map, Len(q) + 1, send[s], s)

\* t is the messages of q and then those of r.
Joined(t, q, r) ==
  /\ t \in Seq(Message) /\ Len(t) = Len(q) + Len(r)
  /\ Len(q) \in Nat /\ Len(r) \in Nat
  /\ \A k \in 1 .. Len(q) : t[k] = q[k]
  /\ \A k \in 1 .. Len(r) : t[Len(q) + k] = r[k]
  /\ \A k \in 1 .. Len(t) : k > Len(q) =>
       k - Len(q) \in 1 .. Len(r) /\ t[k] = r[k - Len(q)]

LEMMA ConcatAt ==
  ASSUME NEW q \in Seq(Message), NEW r \in Seq(Message), NEW t, t = q \o r
  PROVE  Joined(t, q, r)
BY DEF Joined

LEMMA TailAt ==
  ASSUME NEW q \in Seq(Message), q # <<>>, NEW t, t = Tail(q)
  PROVE  /\ t \in Seq(Message) /\ Len(t) = Len(q) - 1 /\ Len(q) \in Nat \ {0}
         /\ \A k \in 1 .. Len(t) : t[k] = q[k + 1]
         /\ Head(q) = q[1]
OBVIOUS

LEMMA MeansForgets ==
  ASSUME NEW q, NEW map, NEW new, NEW j, NEW i \in Id, NEW s,
         \A x \in Id : new[x] \in {None, map[x]}, Means(q, map, j, i, s)
  PROVE  Means(q, new, j, i, s)
BY Zenon DEF Means

\* Both ends may forget: what an id means, and which id a session has.
LEMMA UnderstoodForgets ==
  ASSUME NEW q \in Seq(Message), NEW map, NEW new,
         NEW send \in [Session -> 0 .. MaxId], NEW kept,
         \A x \in Id : new[x] \in {None, map[x]},
         \A s \in Session : kept[s] \in {0, send[s]},
         Understood(q, map, send)
  PROVE  Understood(q, new, kept)
<1>1. ASSUME NEW j \in 1 .. Len(q), q[j].t # "ann"
      PROVE  Means(q, new, j, q[j].id, q[j].s)
  <2>1. q[j] \in Message
    OBVIOUS
  <2>2. q[j].id \in Id
    BY Zenon, <2>1, MessageParts
  <2>3. Means(q, map, j, q[j].id, q[j].s)
    BY Zenon, <1>1 DEF Understood
  <2> QED
    BY Zenon, <2>2, <2>3, MeansForgets
<1>2. ASSUME NEW s \in Session, kept[s] # 0
      PROVE  Means(q, new, Len(q) + 1, kept[s], s)
  <2>1. kept[s] = send[s] /\ send[s] # 0
    BY Zenon, <1>2
  <2>2. send[s] \in Id
    BY <2>1 DEF Id
  <2>3. Means(q, map, Len(q) + 1, send[s], s)
    BY Zenon, <2>1 DEF Understood
  <2> QED
    BY Zenon, <2>1, <2>2, <2>3, MeansForgets
<1> QED
  BY Zenon, <1>1, <1>2 DEF Understood

LEMMA MeansPop ==
  ASSUME NEW q \in Seq(Message), q # <<>>, NEW map, NEW new, NEW i, NEW s,
         ~Tells(Head(q), i) => new[i] \in {None, map[i]},
         Tells(Head(q), i) => new[i] \in {None, Head(q).s},
         NEW j \in 1 .. Len(q), Means(q, map, j + 1, i, s),
         NEW t, t = Tail(q)
  PROVE  Means(t, new, j, i, s)
<1>1. /\ Len(t) = Len(q) - 1 /\ Len(q) \in Nat \ {0} /\ Head(q) = q[1]
      /\ \A k \in 1 .. Len(t) : t[k] = q[k + 1]
  BY TailAt
<1>2. (j + 1) - 1 = j
  OBVIOUS
<1>3. /\ \A k \in 1 .. j : Tells(q[k], i) /\ q[k].s # s =>
           \E l \in (k + 1) .. j : Tells(q[l], i) /\ q[l].s = s
      /\ map[i] \in {None, s} \/ \E l \in 1 .. j : Tells(q[l], i) /\ q[l].s = s
  BY Zenon, <1>2 DEF Means
<1>4. \A l \in 2 .. j : l - 1 \in 1 .. (j - 1) /\ t[l - 1] = q[l]
  BY <1>1
<1>5. ASSUME NEW k \in 1 .. (j - 1), Tells(t[k], i), t[k].s # s
      PROVE  \E l \in (k + 1) .. (j - 1) : Tells(t[l], i) /\ t[l].s = s
  <2>1. k + 1 \in 1 .. j /\ t[k] = q[k + 1]
    BY <1>1
  <2>2. PICK l \in ((k + 1) + 1) .. j : Tells(q[l], i) /\ q[l].s = s
    BY Zenon, <1>3, <1>5, <2>1
  <2>3. l \in 2 .. j /\ l - 1 \in (k + 1) .. (j - 1)
    OBVIOUS
  <2> QED
    BY Zenon, <1>4, <2>2, <2>3
<1>6. CASE \E l \in 2 .. j : Tells(q[l], i) /\ q[l].s = s
  <2>1. \E l \in 1 .. (j - 1) : Tells(t[l], i) /\ t[l].s = s
    BY Zenon, <1>4, <1>6
  <2> QED
    BY Zenon, <1>5, <2>1 DEF Means
<1>7. CASE ~\E l \in 2 .. j : Tells(q[l], i) /\ q[l].s = s
  <2>1. \A l \in 1 .. j : l = 1 \/ l \in 2 .. j
    OBVIOUS
  <2>2. 1 \in 1 .. j /\ (1 + 1) .. j = 2 .. j
    OBVIOUS
  <2>3. Tells(q[1], i) => q[1].s = s
    BY Zenon, <1>3, <1>7, <2>2
  <2>4. map[i] \in {None, s} \/ Tells(q[1], i)
    BY Zenon, <1>3, <1>7, <2>1
  <2>5. new[i] \in {None, s}
    BY Zenon, <1>1, <2>3, <2>4
  <2> QED
    BY Zenon, <1>5, <2>5 DEF Means
<1> QED
  BY Zenon, <1>6, <1>7

\* The receiver handles the first message.
LEMMA UnderstoodPop ==
  ASSUME NEW q \in Seq(Message), q # <<>>, NEW map, NEW new,
         NEW send \in [Session -> 0 .. MaxId],
         \A i \in Id : /\ ~Tells(Head(q), i) => new[i] \in {None, map[i]}
                       /\ Tells(Head(q), i) => new[i] \in {None, Head(q).s},
         Understood(q, map, send), NEW t, t = Tail(q)
  PROVE  Understood(t, new, send)
<1>1. /\ t \in Seq(Message) /\ Len(t) = Len(q) - 1 /\ Len(q) \in Nat \ {0}
      /\ \A k \in 1 .. Len(t) : t[k] = q[k + 1]
  BY TailAt
<1>2. ASSUME NEW i \in Id, NEW s, NEW j \in 1 .. Len(q), Means(q, map, j + 1, i, s)
      PROVE  Means(t, new, j, i, s)
  BY Zenon, <1>2, MeansPop
<1>3. ASSUME NEW j \in 1 .. Len(t), t[j].t # "ann"
      PROVE  Means(t, new, j, t[j].id, t[j].s)
  <2>1. j \in 1 .. Len(q) /\ j + 1 \in 1 .. Len(q) /\ t[j] = q[j + 1] /\ t[j] \in Message
    BY <1>1
  <2>2. t[j].id \in Id
    BY Zenon, <2>1, MessageParts
  <2>3. Means(q, map, j + 1, t[j].id, t[j].s)
    BY Zenon, <1>3, <2>1 DEF Understood
  <2> QED
    BY Zenon, <1>2, <2>1, <2>2, <2>3
<1>4. ASSUME NEW s \in Session, send[s] # 0
      PROVE  Means(t, new, Len(t) + 1, send[s], s)
  <2>1. send[s] \in Id
    BY <1>4 DEF Id
  <2>2. Means(q, map, Len(q) + 1, send[s], s)
    BY Zenon, <1>4 DEF Understood
  <2>3. Len(q) \in 1 .. Len(q) /\ Len(t) + 1 = Len(q)
    BY <1>1
  <2>4. Means(t, new, Len(q), send[s], s)
    BY Zenon, <1>2, <2>1, <2>2, <2>3
  <2> QED
    BY Zenon, <2>3, <2>4
<1> QED
  BY Zenon, <1>3, <1>4 DEF Understood

LEMMA MeansAppend ==
  ASSUME NEW q \in Seq(Message), NEW r \in Seq(Message), NEW t, t = q \o r,
         NEW map, NEW i, NEW s, NEW j \in 1 .. Len(q) + 1, Means(q, map, j, i, s)
  PROVE  Means(t, map, j, i, s)
<1>1. \A k \in 1 .. (j - 1) : t[k] = q[k]
  BY ConcatAt DEF Joined
<1>2. \A k \in 1 .. (j - 1) : \A l \in (k + 1) .. (j - 1) : l \in 1 .. (j - 1)
  OBVIOUS
<1> QED
  BY Zenon, <1>1, <1>2 DEF Means

\* What is told of other ids does not change what i means.
LEMMA MeansPast ==
  ASSUME NEW q \in Seq(Message), NEW r \in Seq(Message), NEW t, t = q \o r,
         NEW map, NEW i, NEW s, Means(q, map, Len(q) + 1, i, s),
         \A k \in 1 .. Len(r) : ~Tells(r[k], i),
         NEW j \in Len(q) + 1 .. Len(t) + 1
  PROVE  Means(t, map, j, i, s)
<1>1. /\ Len(q) \in Nat /\ Len(r) \in Nat /\ Len(t) = Len(q) + Len(r)
      /\ \A k \in 1 .. Len(q) : t[k] = q[k]
      /\ \A k \in 1 .. Len(t) : k > Len(q) => k - Len(q) \in 1 .. Len(r)
                                              /\ t[k] = r[k - Len(q)]
  BY ConcatAt DEF Joined
<1>2. (Len(q) + 1) - 1 = Len(q)
  BY <1>1
<1>3. /\ \A k \in 1 .. Len(q) : Tells(q[k], i) /\ q[k].s # s =>
           \E l \in (k + 1) .. Len(q) : Tells(q[l], i) /\ q[l].s = s
      /\ map[i] \in {None, s} \/ \E l \in 1 .. Len(q) : Tells(q[l], i) /\ q[l].s = s
  BY Zenon, <1>2 DEF Means
<1>4. \A k \in 1 .. (j - 1) : k \in 1 .. Len(t) /\ (k \in 1 .. Len(q) \/ k > Len(q))
  BY <1>1
<1>5. \A k \in 1 .. (j - 1) : Tells(t[k], i) => k \in 1 .. Len(q)
  BY Zenon, <1>1, <1>4
<1>6. \A k \in 1 .. Len(q) : /\ k \in 1 .. (j - 1)
                             /\ \A l \in (k + 1) .. Len(q) : l \in (k + 1) .. (j - 1)
                                                             /\ l \in 1 .. Len(q)
  BY <1>1
<1>7. ASSUME NEW k \in 1 .. (j - 1), Tells(t[k], i), t[k].s # s
      PROVE  \E l \in (k + 1) .. (j - 1) : Tells(t[l], i) /\ t[l].s = s
  <2>1. k \in 1 .. Len(q) /\ t[k] = q[k]
    BY Zenon, <1>1, <1>5, <1>7
  <2>2. PICK l \in (k + 1) .. Len(q) : Tells(q[l], i) /\ q[l].s = s
    BY Zenon, <1>3, <1>7, <2>1
  <2>3. l \in (k + 1) .. (j - 1) /\ t[l] = q[l]
    BY Zenon, <1>1, <1>6, <2>1
  <2> QED
    BY Zenon, <2>2, <2>3
<1>8. map[i] \in {None, s} \/ \E l \in 1 .. (j - 1) : Tells(t[l], i) /\ t[l].s = s
  BY Zenon, <1>1, <1>3, <1>6
<1> QED
  BY Zenon, <1>7, <1>8 DEF Means

\* Messages with ids that the receiver was told of are added to the queue.
LEMMA UnderstoodMessages ==
  ASSUME NEW q \in Seq(Message), NEW ms \in Seq(Message), NEW map,
         NEW ids, Understood(q, map, ids),
         \A i \in 1 .. Len(ms) : /\ ms[i].t # "ann" /\ ms[i].id = ids[ms[i].s]
                                 /\ ids[ms[i].s] # 0,
         NEW t, t = q \o ms
  PROVE  Understood(t, map, ids)
<1>1. /\ t \in Seq(Message) /\ Len(t) = Len(q) + Len(ms)
      /\ Len(q) \in Nat /\ Len(ms) \in Nat
      /\ \A k \in 1 .. Len(q) : t[k] = q[k]
      /\ \A k \in 1 .. Len(t) : k > Len(q) => k - Len(q) \in 1 .. Len(ms)
                                              /\ t[k] = ms[k - Len(q)]
  BY ConcatAt DEF Joined
<1>2. \A i : \A k \in 1 .. Len(ms) : ~Tells(ms[k], i)
  BY Zenon DEF Tells
<1>3. ASSUME NEW s \in Session, ids[s] # 0, NEW j \in Len(q) + 1 .. Len(t) + 1
      PROVE  Means(t, map, j, ids[s], s)
  <2>1. Means(q, map, Len(q) + 1, ids[s], s)
    BY Zenon, <1>3 DEF Understood
  <2> QED
    BY Zenon, <1>2, <1>3, <2>1, MeansPast
<1>4. ASSUME NEW j \in 1 .. Len(t), t[j].t # "ann"
      PROVE  Means(t, map, j, t[j].id, t[j].s)
  <2>1. CASE j <= Len(q)
    <3>1. j \in 1 .. Len(q) /\ j \in 1 .. Len(q) + 1 /\ t[j] = q[j]
      BY <1>1, <2>1
    <3>2. Means(q, map, j, q[j].id, q[j].s)
      BY Zenon, <1>4, <3>1 DEF Understood
    <3>3. Means(t, map, j, q[j].id, q[j].s)
      BY Zenon, <3>1, <3>2, MeansAppend
    <3> QED
      BY Zenon, <3>1, <3>3
  <2>2. CASE j > Len(q)
    <3>1. j - Len(q) \in 1 .. Len(ms) /\ t[j] = ms[j - Len(q)]
      BY Zenon, <1>1, <2>2
    <3>2. t[j].id = ids[t[j].s] /\ ids[t[j].s] # 0
      BY Zenon, <3>1
    <3>3. t[j] \in Message
      BY <1>1
    <3>4. t[j].s \in Session
      BY Zenon, <3>3, MessageParts
    <3>5. j \in Len(q) + 1 .. Len(t) + 1
      BY <1>1, <2>2
    <3> QED
      BY Zenon, <1>3, <3>2, <3>4, <3>5
  <2> QED
    BY <1>1, <2>1, <2>2
<1>5. Len(t) + 1 \in Len(q) + 1 .. Len(t) + 1
  BY <1>1
<1> QED
  BY Zenon, <1>3, <1>4, <1>5 DEF Understood

\* New ids are announced.
LEMMA UnderstoodAnnouncements ==
  ASSUME NEW q \in Seq(Message), NEW st \in GoodState, NEW map,
         Understood(q, map, st.sendSessionId),
         NEW new \in Seq(Session), NEW anns \in Seq(Message), Len(anns) = Len(new),
         \A i \in 1 .. Len(new) :
           /\ anns[i].t = "ann" /\ anns[i].s = new[i]
           /\ anns[i].id = st.nextSendSessionId - 1 + i,
         NEW ids,
         \A i \in 1 .. Len(new) : ids[new[i]] = st.nextSendSessionId - 1 + i,
         \A s \in Session : (\A i \in 1 .. Len(new) : new[i] # s) =>
           ids[s] = st.sendSessionId[s],
         NEW t, t = q \o anns
  PROVE  Understood(t, map, ids)
<1> DEFINE nxt == st.nextSendSessionId
           N == Len(q)
<1>1. /\ Len(anns) = Len(new) /\ Len(new) \in Nat
      /\ \A i \in 1 .. Len(new) : /\ anns[i].t = "ann" /\ anns[i].s = new[i]
                                  /\ anns[i].id = nxt - 1 + i
  OBVIOUS
<1>2. /\ \A i \in 1 .. Len(new) : ids[new[i]] = nxt - 1 + i
      /\ \A s \in Session : (\A i \in 1 .. Len(new) : new[i] # s) =>
           ids[s] = st.sendSessionId[s]
  BY Zenon
<1>3. /\ \A s \in Session : st.sendSessionId[s] < nxt /\ st.sendSessionId[s] \in Nat
      /\ nxt \in Nat
  BY DEF GoodState, NodeState
<1>4. /\ t \in Seq(Message) /\ Len(t) = N + Len(new) /\ N \in Nat
      /\ \A k \in 1 .. N : t[k] = q[k]
      /\ \A k \in 1 .. Len(new) : t[N + k] = anns[k]
      /\ \A k \in 1 .. Len(t) : k > N => k - N \in 1 .. Len(new) /\ t[k] = anns[k - N]
  <2>1. Joined(t, q, anns)
    BY Zenon, ConcatAt
  <2> QED
    BY Zenon, <1>1, <2>1 DEF Joined
<1> HIDE DEF nxt, N
<1>5. ASSUME NEW j \in 1 .. Len(t), t[j].t # "ann"
      PROVE  Means(t, map, j, t[j].id, t[j].s)
  <2>1. ~(j > N)
    <3> SUFFICES ASSUME j > N
                 PROVE  FALSE
      OBVIOUS
    <3>1. j - N \in 1 .. Len(new) /\ t[j] = anns[j - N]
      BY Zenon, <1>4
    <3> QED
      BY Zenon, <1>1, <1>5, <3>1
  <2>2. j \in 1 .. N /\ j \in 1 .. N + 1
    BY <1>4, <2>1
  <2>3. t[j] = q[j]
    BY Zenon, <1>4, <2>2
  <2>4. Means(q, map, j, q[j].id, q[j].s)
    BY Zenon, <1>5, <2>2, <2>3 DEF Understood, N
  <2>5. Means(t, map, j, q[j].id, q[j].s)
    BY Zenon, <1>1, <2>2, <2>4, MeansAppend DEF N
  <2> QED
    BY Zenon, <2>3, <2>5
<1>6. ASSUME NEW s \in Session, ids[s] # 0
      PROVE  Means(t, map, Len(t) + 1, ids[s], s)
  <2>1. CASE \A i \in 1 .. Len(new) : new[i] # s
    <3>1. ids[s] = st.sendSessionId[s] /\ ids[s] < nxt /\ ids[s] \in Nat
      BY Zenon, <1>2, <1>3, <2>1
    <3>2. Means(q, map, N + 1, ids[s], s)
      BY Zenon, <1>6, <3>1 DEF Understood, N
    <3>3. \A k \in 1 .. Len(new) : nxt - 1 + k # ids[s]
      BY <1>1, <1>3, <3>1
    <3>4. \A k \in 1 .. Len(anns) : ~Tells(anns[k], ids[s])
      <4> SUFFICES ASSUME NEW k \in 1 .. Len(new)
                   PROVE  anns[k].id # ids[s]
        BY Zenon, <1>1 DEF Tells
      <4> QED
        BY Zenon, <1>1, <3>3
    <3>5. Len(t) + 1 \in N + 1 .. Len(t) + 1
      BY <1>1, <1>4
    <3> QED
      BY Zenon, <1>1, <3>2, <3>4, <3>5, MeansPast DEF N
  <2>2. CASE \E i \in 1 .. Len(new) : new[i] = s
    <3>1. PICK i \in 1 .. Len(new) : new[i] = s
      BY Zenon, <2>2
    <3>2. /\ ids[s] = nxt - 1 + i /\ t[N + i] = anns[i]
          /\ anns[i].t = "ann" /\ anns[i].s = s /\ anns[i].id = nxt - 1 + i
      BY Zenon, <1>1, <1>2, <1>4, <3>1
    <3>3. Tells(t[N + i], ids[s]) /\ t[N + i].s = s
      BY Zenon, <3>2 DEF Tells
    <3>4. (Len(t) + 1) - 1 = Len(t) /\ N + i \in 1 .. Len(t)
      BY <1>1, <1>4
    <3>5. ASSUME NEW k \in 1 .. Len(t), Tells(t[k], ids[s]), t[k].s # s
          PROVE  N + i \in (k + 1) .. Len(t)
      <4>1. CASE k > N
        <5>1. k - N \in 1 .. Len(new) /\ t[k] = anns[k - N]
          BY Zenon, <1>4, <4>1
        <5>2. nxt - 1 + (k - N) = nxt - 1 + i
          <6>1. anns[k - N].id = nxt - 1 + (k - N)
            BY Zenon, <1>1, <5>1
          <6>2. anns[k - N].id = ids[s]
            BY Zenon, <3>5, <5>1 DEF Tells
          <6> QED
            BY Zenon, <3>2, <6>1, <6>2
        <5>3. k - N = i
          BY <1>3, <1>4, <5>1, <5>2
        <5> QED
          BY Zenon, <3>2, <3>5, <5>1, <5>3
      <4>2. CASE ~(k > N)
        BY <1>1, <1>4, <4>2
      <4> QED
        BY <4>1, <4>2
    <3> QED
      BY Zenon, <3>3, <3>4, <3>5 DEF Means
  <2> QED
    BY Zenon, <2>1, <2>2
<1>7. N = Len(q)
  BY DEF N
<1> QED
  BY Zenon, <1>5, <1>6 DEF Understood
-----------------------------------------------------------------------------
(***************************************************************************)
(* The invariant: every queue is understood; connections not yet made have *)
(* no ids and no messages; to a node that has no quorum no id means        *)
(* anything.                                                               *)
(***************************************************************************)
AllUnderstood ==
  \A n \in Node : \A c \in Conns(n) :
    Understood(chan[n][c], nodeStates[c[1]][<<n, c[2]>>].sessionByRecvId,
               nodeStates[n][c].sendSessionId)

Unused(st) ==
  /\ \A s \in Session : st.sendSessionId[s] = 0
  /\ st.announced = {} /\ st.requested = {}

FutureUnused ==
  \A n \in Node : \A c \in NodeIds(n) : c[2] > conn[{n, c[1]}] =>
    Unused(nodeStates[n][c]) /\ chan[n][c] = <<>>

NoMeaning ==
  \A n \in Node \ hasQuorum : \A c \in NodeIds(n) : \A i \in Id :
    nodeStates[n][c].sessionByRecvId[i] = None

MInv == AllUnderstood /\ FutureUnused /\ NoMeaning

\* Conns, for given links and connections.
ConnsOf(u, k, n) == {<<p, k[{n, p}]>> : p \in {x \in Peers(n) : u[{n, x}]}}

LEMMA ConnsOfMember ==
  ASSUME NEW u \in [Link -> BOOLEAN], NEW k \in [Link -> 1 .. MaxConns],
         NEW n \in Node, NEW c
  PROVE  c \in ConnsOf(u, k, n) <=>
           c \in NodeIds(n) /\ u[{n, c[1]}] /\ c[2] = k[{n, c[1]}]
<1>1. ASSUME c \in ConnsOf(u, k, n)
      PROVE  c \in NodeIds(n) /\ u[{n, c[1]}] /\ c[2] = k[{n, c[1]}]
  <2>1. PICK p \in Node : {n, p} \in Link /\ u[{n, p}] /\ c = <<p, k[{n, p}]>>
    BY Zenon, <1>1 DEF ConnsOf, Peers
  <2>2. c[1] = p /\ c[2] = k[{n, p}] /\ k[{n, p}] \in 1 .. MaxConns
    BY <2>1
  <2>3. c \in Conn
    BY <2>1, <2>2 DEF Conn
  <2> QED
    BY Zenon, <2>1, <2>2, <2>3 DEF NodeIds
<1>2. ASSUME c \in NodeIds(n), u[{n, c[1]}], c[2] = k[{n, c[1]}]
      PROVE  c \in ConnsOf(u, k, n)
  BY Zenon, <1>2, OtherEnd DEF ConnsOf, Peers
<1> QED
  BY Zenon, <1>1, <1>2

LEMMA ConnsNow ==
  ASSUME NetType, NEW n \in Node, NEW c
  PROVE  c \in Conns(n) <=> c \in NodeIds(n) /\ up[{n, c[1]}] /\ c[2] = conn[{n, c[1]}]
<1>1. Conns(n) = ConnsOf(up, conn, n)
  BY Zenon DEF Conns, ConnsOf
<1>2. up \in [Link -> BOOLEAN] /\ conn \in [Link -> 1 .. MaxConns]
  BY Zenon DEF NetType
<1>3. c \in ConnsOf(up, conn, n) <=>
        c \in NodeIds(n) /\ up[{n, c[1]}] /\ c[2] = conn[{n, c[1]}]
  BY Zenon, <1>2, ConnsOfMember
<1> QED
  BY Zenon, <1>1, <1>3

LEMMA ConnsNext ==
  ASSUME NetType', NEW n \in Node, NEW c
  PROVE  c \in Conns(n)' <=>
           c \in NodeIds(n) /\ up'[{n, c[1]}] /\ c[2] = conn'[{n, c[1]}]
<1>1. Conns(n)' = ConnsOf(up', conn', n)
  BY Zenon DEF Conns, ConnsOf
<1>2. up' \in [Link -> BOOLEAN] /\ conn' \in [Link -> 1 .. MaxConns]
  BY Zenon DEF NetType
<1>3. c \in ConnsOf(up', conn', n) <=>
        c \in NodeIds(n) /\ up'[{n, c[1]}] /\ c[2] = conn'[{n, c[1]}]
  BY Zenon, <1>2, ConnsOfMember
<1> QED
  BY Zenon, <1>1, <1>3
-----------------------------------------------------------------------------
\* Ids and their meanings are only forgotten.
Forgets(new, old) ==
  /\ \A s \in Session : new.sendSessionId[s] \in {0, old.sendSessionId[s]}
  /\ \A i \in Id : new.sessionByRecvId[i] \in {None, old.sessionByRecvId[i]}

Quieter(new, old) ==
  new.announced \subseteq old.announced /\ new.requested \subseteq old.requested

\* A step after which connections at most drop, and states forget.
Quiet ==
  /\ \A p \in Node : \A c \in NodeIds(p) :
       /\ Forgets(nodeStates'[p][c], nodeStates[p][c])
       /\ c \notin Conns(p) => Quieter(nodeStates'[p][c], nodeStates[p][c])
       /\ chan'[p][c] \in {chan[p][c], <<>>}
       /\ up'[{p, c[1]}] => chan'[p][c] = chan[p][c] /\ up[{p, c[1]}]
  /\ conn' = conn /\ hasQuorum \subseteq hasQuorum'

LEMMA QuietStep ==
  ASSUME Inv, Inv', MInv, Quiet
  PROVE  MInv'
<1>1. NetType /\ NetType' /\ ManagerType
  BY Zenon DEF Inv, Typed
<1>2. \A p \in Node : \A c \in NodeIds(p) : /\ nodeStates[p][c] \in NodeState
                                            /\ chan[p][c] \in Seq(Message)
  BY <1>1 DEF ManagerType, NetType, GoodState
<1>3. AllUnderstood'
  <2> SUFFICES ASSUME NEW n \in Node, NEW c \in Conns(n)'
               PROVE  Understood(chan'[n][c],
                        nodeStates'[c[1]][<<n, c[2]>>].sessionByRecvId,
                        nodeStates'[n][c].sendSessionId)
    BY Zenon DEF AllUnderstood
  <2>1. c \in NodeIds(n) /\ up'[{n, c[1]}] /\ c[2] = conn'[{n, c[1]}]
    BY Zenon, <1>1, ConnsNext
  <2>2. chan'[n][c] = chan[n][c] /\ c \in Conns(n)
    BY Zenon, <1>1, <2>1, ConnsNow DEF Quiet
  <2> DEFINE d == <<n, c[2]>>
             map == nodeStates[c[1]][d].sessionByRecvId
             new == nodeStates'[c[1]][d].sessionByRecvId
             send == nodeStates[n][c].sendSessionId
             kept == nodeStates'[n][c].sendSessionId
  <2>3. c[1] \in Node /\ d \in NodeIds(c[1])
    BY Zenon, <2>1, OtherEnd
  <2>9. Forgets(nodeStates'[c[1]][d], nodeStates[c[1]][d])
    <3> HIDE DEF d
    <3> QED
      BY Zenon, <2>3 DEF Quiet
  <2>4. \A x \in Id : new[x] \in {None, map[x]}
    BY Zenon, <2>9 DEF Forgets
  <2>5. \A s \in Session : kept[s] \in {0, send[s]}
    BY Zenon, <2>1 DEF Quiet, Forgets
  <2>6. send \in [Session -> 0 .. MaxId] /\ chan[n][c] \in Seq(Message)
    BY Zenon, <1>2, <2>1 DEF NodeState
  <2>7. Understood(chan[n][c], map, send)
    BY Zenon, <2>2 DEF MInv, AllUnderstood
  <2> HIDE DEF map, new, send, kept
  <2>8. Understood(chan[n][c], new, kept)
    BY Zenon, <2>4, <2>5, <2>6, <2>7, UnderstoodForgets
  <2> QED
    BY Zenon, <2>2, <2>8 DEF new, kept
<1>4. FutureUnused'
  <2> SUFFICES ASSUME NEW n \in Node, NEW c \in NodeIds(n), c[2] > conn[{n, c[1]}]
               PROVE  Unused(nodeStates'[n][c]) /\ chan'[n][c] = <<>>
    BY Zenon DEF FutureUnused, Quiet
  <2>1. Unused(nodeStates[n][c]) /\ chan[n][c] = <<>>
    BY Zenon DEF MInv, FutureUnused
  <2>2. c \notin Conns(n)
    <3>1. c[2] # conn[{n, c[1]}]
      <4>1. {n, c[1]} \in Link
        BY Zenon, OtherEnd
      <4>2. conn[{n, c[1]}] \in 1 .. MaxConns
        BY Zenon, <1>1, <4>1 DEF NetType
      <4> QED
        BY <4>2
    <3> QED
      BY Zenon, <1>1, <3>1, ConnsNow
  <2>3. /\ Forgets(nodeStates'[n][c], nodeStates[n][c])
        /\ Quieter(nodeStates'[n][c], nodeStates[n][c])
        /\ chan'[n][c] \in {chan[n][c], <<>>}
    BY Zenon, <2>2 DEF Quiet
  <2> QED
    BY Zenon, <2>1, <2>3 DEF Unused, Forgets, Quieter
<1>5. NoMeaning'
  <2> SUFFICES ASSUME NEW n \in Node \ hasQuorum', NEW c \in NodeIds(n), NEW i \in Id
               PROVE  nodeStates'[n][c].sessionByRecvId[i] = None
    BY Zenon DEF NoMeaning
  <2>1. n \in Node \ hasQuorum
    BY Zenon DEF Quiet
  <2>2. nodeStates[n][c].sessionByRecvId[i] = None
    BY Zenon, <2>1 DEF MInv, NoMeaning
  <2>3. Forgets(nodeStates'[n][c], nodeStates[n][c])
    BY Zenon, <2>1 DEF Quiet
  <2> QED
    BY Zenon, <2>2, <2>3 DEF Forgets
<1> QED
  BY Zenon, <1>3, <1>4, <1>5 DEF MInv
-----------------------------------------------------------------------------
(***************************************************************************)
(* Whatever is bad comes from a broken member: shares that wait to be      *)
(* verified, recovered signatures that wait to be processed, shares on     *)
(* their way, and shares between the two sections of the handler.          *)
(***************************************************************************)
PendingGenuine ==
  \A n \in Node : \A c \in NodeIds(n) :
    \A sh \in nodeStates[n][c].pendingIncomingSigShares :
      sh[3] = "bad" => c[1] \in Broken

SigsGenuine ==
  \A n \in Node : \A c \in NodeIds(n) : \A r \in pendingRecoveredSigs[n][c] :
    r[2] = "wrong" => c[1] \in Broken

QueueGenuine(n, q) ==
  \A j \in DOMAIN q : q[j].t = "batch" =>
    \A e \in q[j].of : e[2] = "bad" => n \in Broken

QueuesGenuine == \A n \in Node : \A c \in NodeIds(n) : QueueGenuine(n, chan[n][c])

BatchGenuine ==
  \A n \in Node : batch[n] # <<>> =>
    \A sh \in batch[n][2] : sh[3] = "bad" => batch[n][1][1] \in Broken

BInv == /\ PendingGenuine /\ SigsGenuine /\ QueuesGenuine /\ BatchGenuine
        /\ OnlyBrokenBanned

\* A state of c that forgets, asks for nothing new but over a connection that
\* is up, and waits for no new share.
Fades(n, c, new) ==
  /\ Forgets(new, nodeStates[n][c])
  /\ c \notin Conns(n) => Quieter(new, nodeStates[n][c])
  /\ new.pendingIncomingSigShares \subseteq nodeStates[n][c].pendingIncomingSigShares

StatesFade == \A n \in Node : \A c \in NodeIds(n) : Fades(n, c, nodeStates'[n][c])

LinksFade ==
  /\ \A p \in Node : \A c \in NodeIds(p) :
       /\ chan'[p][c] \in {chan[p][c], <<>>}
       /\ up'[{p, c[1]}] => chan'[p][c] = chan[p][c] /\ up[{p, c[1]}]
  /\ conn' = conn /\ hasQuorum \subseteq hasQuorum'

LEMMA SameLinks ==
  ASSUME UNCHANGED <<linkVars, chan>>, hasQuorum \subseteq hasQuorum'
  PROVE  LinksFade
BY Zenon DEF LinksFade, linkVars

LEMMA EmptyGenuine == ASSUME NEW n PROVE QueueGenuine(n, <<>>)
BY DEF QueueGenuine

LEMMA SameFades == ASSUME NEW n, NEW c PROVE Fades(n, c, nodeStates[n][c])
BY Zenon DEF Fades, Forgets, Quieter

LEMMA CalmStep ==
  ASSUME Inv, Inv', MInv, BInv, StatesFade, LinksFade,
         \A n \in Node : batch'[n] \in {batch[n], <<>>},
         SigsGenuine', OnlyBrokenBanned'
  PROVE  MInv' /\ BInv'
<1>1. Quiet
  BY Zenon DEF Quiet, StatesFade, LinksFade, Fades
<1>2. MInv'
  BY Zenon, <1>1, QuietStep
<1>3. PendingGenuine'
  BY Zenon DEF BInv, PendingGenuine, StatesFade, Fades
<1>4. QueuesGenuine'
  <2> SUFFICES ASSUME NEW n \in Node, NEW c \in NodeIds(n)
               PROVE  QueueGenuine(n, chan'[n][c])
    BY Zenon DEF QueuesGenuine, QueueGenuine
  <2>1. QueueGenuine(n, chan[n][c]) /\ chan'[n][c] \in {chan[n][c], <<>>}
    BY Zenon DEF LinksFade, BInv, QueuesGenuine
  <2> QED
    BY Zenon, <2>1, EmptyGenuine
<1>5. BatchGenuine'
  BY Zenon DEF BInv, BatchGenuine
<1> QED
  BY Zenon, <1>2, <1>3, <1>4, <1>5 DEF BInv

LEMMA NewStateFades == ASSUME NEW n, NEW c PROVE Fades(n, c, NewState)
<1>1. /\ \A s \in Session : NewState.sendSessionId[s] = 0
      /\ \A i \in Id : NewState.sessionByRecvId[i] = None
      /\ NewState.announced = {} /\ NewState.requested = {}
      /\ NewState.pendingIncomingSigShares = {}
  BY Zenon DEF NewState
<1> QED
  BY Zenon, <1>1 DEF Fades, Forgets, Quieter

LEMMA RemoveSessionsFades ==
  ASSUME NEW n, NEW c, NEW st \in GoodState, NEW S, Fades(n, c, st)
  PROVE  Fades(n, c, RemoveSessions(st, S))
<1> DEFINE new == RemoveSessions(st, S)
           old == nodeStates[n][c]
<1>1. st \in NodeState
  BY Zenon DEF GoodState
<1>2. /\ new.announced = {k \in st.announced : k[1] \notin S}
      /\ new.requested = {k \in st.requested : k[1] \notin S}
      /\ new.pendingIncomingSigShares =
           {k \in st.pendingIncomingSigShares : k[1] \notin S}
      /\ new.sendSessionId =
           [s \in Session |-> IF s \in S THEN 0 ELSE st.sendSessionId[s]]
      /\ new.sessionByRecvId =
           [i \in Id |-> IF \E s \in S : st.recvSessionId[s] = i THEN None
                         ELSE st.sessionByRecvId[i]]
  BY Zenon, <1>1 DEF RemoveSessions, NodeState
<1> HIDE DEF new
<1>3. /\ \A s \in Session : new.sendSessionId[s] \in {0, st.sendSessionId[s]}
      /\ \A i \in Id : new.sessionByRecvId[i] \in {None, st.sessionByRecvId[i]}
      /\ new.announced \subseteq st.announced /\ new.requested \subseteq st.requested
      /\ new.pendingIncomingSigShares \subseteq st.pendingIncomingSigShares
  BY Zenon, <1>2
<1>4. Forgets(new, old)
  BY Zenon, <1>3 DEF Fades, Forgets
<1>5. c \notin Conns(n) => Quieter(new, old)
  BY Zenon, <1>3 DEF Fades, Quieter
<1>6. new.pendingIncomingSigShares \subseteq old.pendingIncomingSigShares
  BY Zenon, <1>3 DEF Fades
<1> QED
  BY Zenon, <1>4, <1>5, <1>6 DEF Fades, new

LEMMA RemoveFades ==
  ASSUME Inv, NEW n \in Node, NEW S, NEW states \in [NodeIds(n) -> GoodState],
         \A c \in NodeIds(n) : Fades(n, c, states[c]),
         NEW shares, NEW ann, NEW reqs,
         RemoveSigSharesForSessions(n, S, states, shares, ann, reqs)
  PROVE  StatesFade
<1> DEFINE sts == [c \in NodeIds(n) |-> RemoveSessions(states[c], S)]
<1>1. nodeStates' = [nodeStates EXCEPT ![n] = sts]
  BY Zenon DEF RemoveSigSharesForSessions
<1>2. \A c \in NodeIds(n) : Fades(n, c, sts[c])
  BY Zenon, RemoveSessionsFades
<1> HIDE DEF sts
<1>3. \A p \in Node : nodeStates'[p] = IF p = n THEN sts ELSE nodeStates[p]
  BY Zenon, <1>1 DEF Inv, Typed, ManagerType
<1> SUFFICES ASSUME NEW p \in Node, NEW c \in NodeIds(p)
             PROVE  Fades(p, c, nodeStates'[p][c])
  BY Zenon DEF StatesFade
<1> QED
  BY Zenon, <1>2, <1>3, SameFades

\* What is relayed is bad only if the node is broken.
LEMMA RelayGenuine ==
  ASSUME NEW n \in Node, NEW sigs, NEW pending,
         \A p \in Node : \A c \in NodeIds(p) : \A r \in pending[p][c] :
           r[2] = "wrong" => c[1] \in Broken,
         \A r \in sigs : r[2] = "wrong" => n \in Broken,
         pendingRecoveredSigs' = Relay(n, sigs, pending)
  PROVE  SigsGenuine'
<1> SUFFICES ASSUME NEW p \in Node, NEW c \in NodeIds(p),
                    NEW r \in pendingRecoveredSigs'[p][c], r[2] = "wrong"
             PROVE  c[1] \in Broken
  BY Zenon DEF SigsGenuine
<1>1. pendingRecoveredSigs'[p][c] =
        IF c[1] = n /\ <<p, c[2]>> \in Conns(n) THEN pending[p][c] \cup sigs
        ELSE pending[p][c]
  BY Zenon DEF Relay
<1> QED
  BY Zenon, <1>1

LEMMA ProcessFades ==
  ASSUME Inv, SharesGenuine', SigsGenuine, NEW n \in Node, NEW new \in SUBSET Share,
         NEW states \in [NodeIds(n) -> GoodState], NEW reqs,
         \A c \in NodeIds(n) : Fades(n, c, states[c]),
         ProcessSigShares(n, new, states, reqs)
  PROVE  StatesFade /\ SigsGenuine'
<1> DEFINE have == sigShares[n] \cup new
           own == {KeyOf(sh) : sh \in {x \in new : x[2] = n}}
           Pushed(st) == [st EXCEPT !.requested = @ \cup own, !.knows = @ \cup own]
           pushed == [c \in NodeIds(n) |->
             IF c \in Conns(n) THEN Pushed(states[c]) ELSE states[c]]
           ann == sigSharesToAnnounce[n] \cup Keys(new)
<1>1. PICK verdict \in [Session -> {"no", "valid", "wrong"}] :
        LET done == {s \in Session : verdict[s] # "no"}
        IN /\ RemoveSigSharesForSessions(n, done, pushed, have, ann, reqs)
           /\ recSig' = [recSig EXCEPT ![n] = [s \in Session |->
                           IF s \in done THEN verdict[s] ELSE @[s]]]
           /\ pendingRecoveredSigs' =
                Relay(n, {<<s, verdict[s]>> : s \in done}, pendingRecoveredSigs)
  BY Zenon DEF ProcessSigShares
<1> DEFINE done == {s \in Session : verdict[s] # "no"}
           sigs == {<<s, verdict[s]>> : s \in done}
<1>2. /\ RemoveSigSharesForSessions(n, done, pushed, have, ann, reqs)
      /\ recSig' = [recSig EXCEPT ![n] = [s \in Session |->
                      IF s \in done THEN verdict[s] ELSE recSig[n][s]]]
      /\ pendingRecoveredSigs' = Relay(n, sigs, pendingRecoveredSigs)
  BY Zenon, <1>1
<1>3. own \in SUBSET Key
  BY DEF KeyOf, Share, Key
<1> HIDE DEF own, have, ann
<1>4. ASSUME NEW c \in NodeIds(n)
      PROVE  pushed[c] \in GoodState /\ Fades(n, c, pushed[c])
  <2> DEFINE st == states[c]
             pu == Pushed(st)
  <2>1. st \in GoodState /\ st \in NodeState /\ (st.banned => st.requestedSigShares = {})
    BY <1>4 DEF GoodState
  <2>2. st.requested \cup own \in SUBSET Key /\ st.knows \cup own \in SUBSET Key
    BY <2>1, <1>3 DEF NodeState
  <2> HIDE DEF st
  <2>3. /\ pu \in NodeState
        /\ pu.sessionByRecvId = st.sessionByRecvId
        /\ pu.recvSessionId = st.recvSessionId
        /\ pu.sendSessionId = st.sendSessionId
        /\ pu.nextSendSessionId = st.nextSendSessionId
        /\ pu.banned = st.banned
        /\ pu.requestedSigShares = st.requestedSigShares
        /\ pu.pendingIncomingSigShares = st.pendingIncomingSigShares
    BY Zenon, <2>1, <2>2 DEF NodeState
  <2> HIDE DEF pu
  <2>4. pu \in GoodState
    BY Zenon, <2>1, <2>3, GoodAlso
  <2>5. Fades(n, c, st)
    BY Zenon, <1>4 DEF st
  <2>6. CASE c \in Conns(n)
    <3>1. Fades(n, c, pu)
      BY Zenon, <2>3, <2>5, <2>6 DEF Fades, Forgets
    <3>2. pushed[c] = pu
      BY Zenon, <1>4, <2>6 DEF pu, st
    <3> QED
      BY Zenon, <2>4, <3>1, <3>2
  <2>7. CASE c \notin Conns(n)
    BY Zenon, <1>4, <2>1, <2>5, <2>7 DEF st
  <2> QED
    BY Zenon, <2>6, <2>7
<1>5. pushed \in [NodeIds(n) -> GoodState]
  BY Zenon, <1>4
<1>6. \A r \in sigs : r[2] = "wrong" => n \in Broken
  <2> SUFFICES ASSUME NEW s \in Session, verdict[s] = "wrong"
               PROVE  n \in Broken
    BY DEF sigs
  <2>1. s \in done
    BY <1>1
  <2>2. recSig'[n][s] = "wrong"
    BY Zenon, <1>2, <2>1 DEF Inv, Typed, RecType
  <2> QED
    BY <2>2 DEF SharesGenuine
<1> HIDE DEF pushed, done, sigs
<1>7. StatesFade
  BY Zenon, <1>2, <1>4, <1>5, RemoveFades
<1>8. SigsGenuine'
  <2>1. \A p \in Node : \A c \in NodeIds(p) : \A r \in pendingRecoveredSigs[p][c] :
          r[2] = "wrong" => c[1] \in Broken
    BY Zenon DEF SigsGenuine
  <2> QED
    BY Zenon, <1>2, <1>6, <2>1, RelayGenuine
<1> QED
  BY Zenon, <1>7, <1>8

\* Steps that leave the recovered signatures, or the bans, alone.
LEMMA SigsSame ==
  ASSUME BInv, UNCHANGED pendingRecoveredSigs
  PROVE  SigsGenuine'
BY Zenon DEF BInv, SigsGenuine

LEMMA BansSame ==
  ASSUME BInv, UNCHANGED shouldBan
  PROVE  OnlyBrokenBanned'
BY Zenon DEF BInv, OnlyBrokenBanned

LEMMA ProcessPendingSigSharesCalm ==
  ASSUME Inv, Inv', MInv, BInv, NEW n \in Node, ProcessPendingSigShares(n)
  PROVE  MInv' /\ BInv'
<1> DEFINE B == BadSources(n)
           Emptied(st) == [st EXCEPT !.pendingIncomingSigShares = {}]
           Banned(st) == [st EXCEPT !.requestedSigShares = {}, !.banned = TRUE]
           states == [c \in NodeIds(n) |->
             IF c \in B THEN Banned(Emptied(nodeStates[n][c]))
             ELSE Emptied(nodeStates[n][c])]
           new == UNION {ToVerify(n, c) : c \in NodeIds(n) \ B}
           reqs == Released(n, B)
<1>1. /\ shouldBan' = [shouldBan EXCEPT ![n] = @ \cup B]
      /\ ProcessSigShares(n, new, states, reqs)
      /\ UNCHANGED <<batch, hasQuorum, linkVars, chan>>
  BY Zenon DEF ProcessPendingSigShares
<1>2. new \in SUBSET Share
  <2> SUFFICES ASSUME NEW c \in NodeIds(n)
               PROVE  ToVerify(n, c) \subseteq Share
    BY Zenon
  <2>1. nodeStates[n][c] \in NodeState
    BY DEF Inv, Typed, ManagerType, GoodState
  <2>2. nodeStates[n][c].pendingIncomingSigShares \subseteq Share
    BY Zenon, <2>1 DEF NodeState
  <2> QED
    BY Zenon, <2>2 DEF ToVerify
<1>3. \A c \in B : c \in NodeIds(n) /\ c[1] \in Broken
  BY Zenon DEF BadSources, ToVerify, BInv, PendingGenuine
<1>4. ASSUME NEW c \in NodeIds(n)
      PROVE  states[c] \in GoodState /\ Fades(n, c, states[c])
  <2> DEFINE st == nodeStates[n][c]
             e == Emptied(st)
             f == Banned(e)
  <2>1. st \in GoodState /\ st \in NodeState /\ (st.banned => st.requestedSigShares = {})
    BY <1>4 DEF Inv, Typed, ManagerType, GoodState
  <2> HIDE DEF st
  <2>2. /\ e \in NodeState /\ f \in NodeState
        /\ e.sessionByRecvId = st.sessionByRecvId
        /\ e.recvSessionId = st.recvSessionId
        /\ e.sendSessionId = st.sendSessionId
        /\ e.nextSendSessionId = st.nextSendSessionId
        /\ e.banned = st.banned
        /\ e.requestedSigShares = st.requestedSigShares
        /\ e.announced = st.announced /\ e.requested = st.requested
        /\ e.pendingIncomingSigShares = {}
        /\ f.sessionByRecvId = st.sessionByRecvId
        /\ f.recvSessionId = st.recvSessionId
        /\ f.sendSessionId = st.sendSessionId
        /\ f.nextSendSessionId = st.nextSendSessionId
        /\ f.requestedSigShares = {}
        /\ f.announced = st.announced /\ f.requested = st.requested
        /\ f.pendingIncomingSigShares = {}
    BY Zenon, <2>1 DEF NodeState
  <2>3. states[c] \in {e, f}
    BY Zenon, <1>4 DEF st
  <2> HIDE DEF e, f, states
  <2>4. e \in GoodState /\ f \in GoodState
    BY Zenon, <2>1, <2>2, GoodAlso
  <2>5. Fades(n, c, e) /\ Fades(n, c, f)
    BY Zenon, <2>2 DEF Fades, Forgets, Quieter, st
  <2> QED
    BY Zenon, <2>3, <2>4, <2>5
<1>5. states \in [NodeIds(n) -> GoodState]
  BY Zenon, <1>4
<1>6. SharesGenuine' /\ SigsGenuine
  BY Zenon DEF Inv, BInv
<1> HIDE DEF states, new, reqs, B
<1>7. StatesFade /\ SigsGenuine'
  BY Zenon, <1>1, <1>2, <1>4, <1>5, <1>6, ProcessFades
<1>8. OnlyBrokenBanned'
  <2>1. \A p \in Node : shouldBan'[p] = IF p = n THEN shouldBan[p] \cup B ELSE shouldBan[p]
    BY <1>1 DEF Inv, Typed, RestType
  <2> QED
    BY Zenon, <1>3, <2>1 DEF BInv, OnlyBrokenBanned
<1>9. LinksFade
  BY Zenon, <1>1, SameLinks
<1> QED
  BY Zenon, <1>1, <1>7, <1>8, <1>9, CalmStep

LEMMA SignPendingSigSharesCalm ==
  ASSUME Inv, Inv', MInv, BInv, NEW n \in Node, SignPendingSigShares(n)
  PROVE  MInv' /\ BInv'
<1> DEFINE kind == IF n \in Broken THEN "bad" ELSE "valid"
           ss == {x \in pendingSigns[n] :
                    ~Recovered(n, x) /\ <<x, n>> \notin Keys(sigShares[n])}
           new == {<<s, n, kind>> : s \in ss}
<1>1. /\ ProcessSigShares(n, new, nodeStates[n], sigSharesRequested[n])
      /\ UNCHANGED <<batch, shouldBan, hasQuorum, linkVars, chan>>
  BY Zenon DEF SignPendingSigShares
<1>2. ss \subseteq Session
  BY Zenon DEF Inv, Typed, RestType
<1> HIDE DEF ss
<1>3. new \in SUBSET Share
  BY <1>2 DEF Share, Kind
<1> HIDE DEF new
<1>4. nodeStates[n] \in [NodeIds(n) -> GoodState] /\ SharesGenuine' /\ SigsGenuine
  BY Zenon DEF Inv, Typed, ManagerType, BInv
<1>5. StatesFade /\ SigsGenuine'
  BY Zenon, <1>1, <1>3, <1>4, SameFades, ProcessFades
<1>6. LinksFade /\ OnlyBrokenBanned'
  BY Zenon, <1>1, SameLinks, BansSame
<1> QED
  BY Zenon, <1>1, <1>5, <1>6, CalmStep

LEMMA ProcessPendingRecoveredSigCalm ==
  ASSUME Inv, Inv', MInv, BInv, NEW n \in Node, NEW c \in NodeIds(n),
         ProcessPendingRecoveredSig(n, c)
  PROVE  MInv' /\ BInv'
<1>1. PICK r \in pendingRecoveredSigs[n][c] :
       LET rest == [pendingRecoveredSigs EXCEPT ![n][c] = @ \ {r}]
           new == IF r[2] = "valid" /\ ~Recovered(n, r[1]) THEN {r[1]} ELSE {}
       IN /\ shouldBan' = [shouldBan EXCEPT ![n] =
               IF r[2] = "wrong" /\ ~Recovered(n, r[1])
               THEN @ \cup {c} ELSE @]
          /\ RemoveSigSharesForSessions(n, new, nodeStates[n], sigShares[n],
               sigSharesToAnnounce[n], sigSharesRequested[n])
          /\ pendingRecoveredSigs' = Relay(n, new \X {"valid"}, rest)
  BY Zenon DEF ProcessPendingRecoveredSig
<1> DEFINE rest == [pendingRecoveredSigs EXCEPT ![n][c] = @ \ {r}]
           new == IF r[2] = "valid" /\ ~Recovered(n, r[1]) THEN {r[1]} ELSE {}
           ban == IF r[2] = "wrong" /\ ~Recovered(n, r[1])
                  THEN shouldBan[n] \cup {c} ELSE shouldBan[n]
           sigs == new \X {"valid"}
<1>2. /\ shouldBan' = [shouldBan EXCEPT ![n] = ban]
      /\ RemoveSigSharesForSessions(n, new, nodeStates[n], sigShares[n],
               sigSharesToAnnounce[n], sigSharesRequested[n])
      /\ pendingRecoveredSigs' = Relay(n, sigs, rest)
      /\ UNCHANGED <<batch, hasQuorum, linkVars, chan>>
  BY Zenon, <1>1 DEF ProcessPendingRecoveredSig
<1>3. OnlyBrokenBanned'
  <2>1. \A d \in ban : d[1] \in Broken
    BY Zenon DEF BInv, SigsGenuine, OnlyBrokenBanned
  <2> HIDE DEF ban
  <2>2. \A p \in Node : shouldBan'[p] = IF p = n THEN ban ELSE shouldBan[p]
    BY Zenon, <1>2 DEF Inv, Typed, RestType
  <2> QED
    BY Zenon, <2>1, <2>2 DEF BInv, OnlyBrokenBanned
<1>4. \A p \in Node : \A d \in NodeIds(p) : \A x \in rest[p][d] :
        x[2] = "wrong" => d[1] \in Broken
  <2> SUFFICES ASSUME NEW p \in Node, NEW d \in NodeIds(p)
               PROVE  rest[p][d] \subseteq pendingRecoveredSigs[p][d]
    BY Zenon DEF BInv, SigsGenuine
  <2>1. /\ DOMAIN pendingRecoveredSigs = Node
        /\ DOMAIN pendingRecoveredSigs[n] = NodeIds(n)
    BY Zenon DEF Inv, Typed, RecType
  <2> QED
    BY Zenon, <2>1
<1>5. \A x \in sigs : x[2] = "wrong" => n \in Broken
  <2> HIDE DEF new
  <2> QED
    OBVIOUS
<1> HIDE DEF new, rest, sigs
<1>6. SigsGenuine'
  BY Zenon, <1>2, <1>4, <1>5, RelayGenuine
<1>7. nodeStates[n] \in [NodeIds(n) -> GoodState]
  BY Zenon DEF Inv, Typed, ManagerType
<1>8. StatesFade
  BY Zenon, <1>2, <1>7, SameFades, RemoveFades
<1>9. LinksFade
  BY Zenon, <1>2, SameLinks
<1> QED
  BY Zenon, <1>2, <1>3, <1>6, <1>8, <1>9, CalmStep

\* The states of the connections `gone` are dropped, and the sessions S.
LEMMA ForgetFades ==
  ASSUME Inv, NEW n \in Node, NEW S, NEW gone, NEW reqs,
         RemoveSigSharesForSessions(n, S,
           [c \in NodeIds(n) |-> IF c \in gone THEN NewState ELSE nodeStates[n][c]],
           sigShares[n], sigSharesToAnnounce[n], reqs)
  PROVE  StatesFade
<1> DEFINE states == [c \in NodeIds(n) |->
                        IF c \in gone THEN NewState ELSE nodeStates[n][c]]
           shares == sigShares[n]
           ann == sigSharesToAnnounce[n]
<1>1. states \in [NodeIds(n) -> GoodState]
  BY Zenon, NewStateGood DEF Inv, Typed, ManagerType
<1>2. \A c \in NodeIds(n) : Fades(n, c, states[c])
  BY Zenon, NewStateFades, SameFades
<1>3. RemoveSigSharesForSessions(n, S, states, shares, ann, reqs)
  BY Zenon
<1> HIDE DEF states, shares, ann
<1> QED
  BY Zenon, <1>1, <1>2, <1>3, RemoveFades

LEMMA CleanupCalm ==
  ASSUME Inv, Inv', MInv, BInv, NEW n \in Node, NEW T \in SUBSET Session, Cleanup(n, T)
  PROVE  MInv' /\ BInv'
<1> DEFINE over == T \cup {s \in {sh[1] : sh \in sigShares[n]} : Recovered(n, s)}
           gone == NodeIds(n) \ Conns(n)
           reqs == Released(n, gone)
<1>1. /\ RemoveSigSharesForSessions(n, over,
           [c \in NodeIds(n) |-> IF c \in gone THEN NewState ELSE nodeStates[n][c]],
           sigShares[n], sigSharesToAnnounce[n], reqs)
      /\ UNCHANGED <<batch, recVars, shouldBan, hasQuorum, linkVars, chan>>
  BY Zenon DEF Cleanup
<1> HIDE DEF over, gone, reqs
<1>2. StatesFade
  BY Zenon, <1>1, ForgetFades
<1>3. LinksFade /\ SigsGenuine' /\ OnlyBrokenBanned'
  BY Zenon, <1>1, SameLinks, SigsSame, BansSame DEF recVars
<1> QED
  BY Zenon, <1>1, <1>2, <1>3, CalmStep

LEMMA RemoveBannedNodeStatesCalm ==
  ASSUME Inv, Inv', MInv, BInv, NEW n \in Node, RemoveBannedNodeStates(n)
  PROVE  MInv' /\ BInv'
<1> DEFINE gone == {c \in Conns(n) : c \in shouldBan[n]}
           reqs == Released(n, gone)
           none == {}
<1>1. /\ RemoveSigSharesForSessions(n, none,
           [c \in NodeIds(n) |-> IF c \in gone THEN NewState ELSE nodeStates[n][c]],
           sigShares[n], sigSharesToAnnounce[n], reqs)
      /\ UNCHANGED <<batch, recVars, shouldBan, hasQuorum, linkVars, chan>>
  BY Zenon DEF RemoveBannedNodeStates
<1> HIDE DEF gone, reqs, none
<1>2. StatesFade
  BY Zenon, <1>1, ForgetFades
<1>3. LinksFade /\ SigsGenuine' /\ OnlyBrokenBanned'
  BY Zenon, <1>1, SameLinks, SigsSame, BansSame DEF recVars
<1> QED
  BY Zenon, <1>1, <1>2, <1>3, CalmStep

\* RequestTimeout, NewQuorum.
LEMMA StatesSameCalm ==
  ASSUME Inv, Inv', MInv, BInv, hasQuorum \subseteq hasQuorum',
         UNCHANGED <<nodeStates, batch, recVars, shouldBan, linkVars, chan>>
  PROVE  MInv' /\ BInv'
<1>1. StatesFade
  BY Zenon, SameFades DEF StatesFade
<1>2. LinksFade /\ SigsGenuine' /\ OnlyBrokenBanned'
  BY Zenon, SameLinks, SigsSame, BansSame DEF recVars
<1> QED
  BY Zenon, <1>1, <1>2, CalmStep

LEMMA AsyncSignIfMemberCalm ==
  ASSUME Inv, Inv', MInv, BInv, NEW n \in Node, NEW s \in Session,
         AsyncSignIfMember(n, s)
  PROVE  MInv' /\ BInv'
<1> DEFINE sts == [c \in NodeIds(n) |->
             [nodeStates[n][c] EXCEPT !.knows = Without(s, @), !.sendSessionId[s] = 0]]
<1>1. /\ nodeStates' = [nodeStates EXCEPT ![n] = sts]
      /\ UNCHANGED <<batch, recVars, shouldBan, hasQuorum, linkVars, chan>>
  BY Zenon DEF AsyncSignIfMember
<1>2. ASSUME NEW c \in NodeIds(n)
      PROVE  Fades(n, c, sts[c])
  <2> DEFINE st == nodeStates[n][c]
             ids == [st.sendSessionId EXCEPT ![s] = 0]
  <2>1. st \in NodeState
    BY Zenon, <1>2 DEF Inv, Typed, ManagerType, GoodState
  <2>2. \A x \in Session : ids[x] \in {0, st.sendSessionId[x]}
    BY Zenon, <2>1 DEF NodeState
  <2>3. /\ sts[c].sessionByRecvId = st.sessionByRecvId
        /\ sts[c].sendSessionId = ids
        /\ sts[c].announced = st.announced /\ sts[c].requested = st.requested
        /\ sts[c].pendingIncomingSigShares = st.pendingIncomingSigShares
    BY Zenon, <1>2, <2>1 DEF NodeState
  <2> HIDE DEF sts, ids
  <2> QED
    BY Zenon, <2>2, <2>3 DEF Fades, Forgets, Quieter
<1> HIDE DEF sts
<1>3. \A p \in Node : nodeStates'[p] = IF p = n THEN sts ELSE nodeStates[p]
  BY Zenon, <1>1 DEF Inv, Typed, ManagerType
<1>4. StatesFade
  <2> SUFFICES ASSUME NEW p \in Node, NEW c \in NodeIds(p)
               PROVE  Fades(p, c, nodeStates'[p][c])
    BY Zenon DEF StatesFade
  <2> QED
    BY Zenon, <1>2, <1>3, SameFades
<1>5. LinksFade /\ SigsGenuine' /\ OnlyBrokenBanned'
  BY Zenon, <1>1, SameLinks, SigsSame, BansSame DEF recVars
<1> QED
  BY Zenon, <1>1, <1>4, <1>5, CalmStep

\* Nothing is on its way over the links L any more, and they are down.
LEMMA DropCalm ==
  ASSUME Inv, Inv', MInv, BInv, StatesFade, NEW L,
         \A l \in Link : up'[l] => up[l] /\ l \notin L,
         chan' = Drop(L, chan, <<>>),
         pendingRecoveredSigs' = Drop(L, pendingRecoveredSigs, {}),
         \A n \in Node : batch'[n] \in {batch[n], <<>>},
         UNCHANGED <<conn, hasQuorum, shouldBan>>
  PROVE  MInv' /\ BInv'
<1>1. LinksFade
  <2> SUFFICES ASSUME NEW p \in Node, NEW c \in NodeIds(p)
               PROVE  /\ chan'[p][c] \in {chan[p][c], <<>>}
                      /\ up'[{p, c[1]}] => chan'[p][c] = chan[p][c] /\ up[{p, c[1]}]
    BY Zenon DEF LinksFade
  <2>1. chan'[p][c] = IF {p, c[1]} \in L THEN <<>> ELSE chan[p][c]
    BY Zenon DEF Drop
  <2>2. {p, c[1]} \in Link
    BY Zenon, OtherEnd
  <2> QED
    BY Zenon, <2>1, <2>2
<1>2. SigsGenuine'
  <2> SUFFICES ASSUME NEW p \in Node, NEW c \in NodeIds(p)
               PROVE  pendingRecoveredSigs'[p][c] \subseteq pendingRecoveredSigs[p][c]
    BY Zenon DEF BInv, SigsGenuine
  <2>1. pendingRecoveredSigs'[p][c] =
          IF {p, c[1]} \in L THEN {} ELSE pendingRecoveredSigs[p][c]
    BY Zenon DEF Drop
  <2> QED
    BY Zenon, <2>1
<1> QED
  BY Zenon, <1>1, <1>2, BansSame, CalmStep

LEMMA DisconnectCalm ==
  ASSUME Inv, Inv', MInv, BInv, NEW l \in Link, Disconnect(l)
  PROVE  MInv' /\ BInv'
<1> DEFINE L == {l}
<1>1. /\ up' = [up EXCEPT ![l] = FALSE]
      /\ chan' = Drop(L, chan, <<>>)
      /\ pendingRecoveredSigs' = Drop(L, pendingRecoveredSigs, {})
      /\ UNCHANGED <<nodeStates, batch, shouldBan, hasQuorum, conn>>
  BY Zenon DEF Disconnect
<1>2. \A x \in Link : up'[x] => up[x] /\ x \notin L
  BY Zenon, <1>1 DEF Inv, Typed, NetType
<1> HIDE DEF L
<1>3. StatesFade
  BY Zenon, <1>1, SameFades DEF StatesFade
<1> QED
  BY Zenon, <1>1, <1>2, <1>3, DropCalm

LEMMA RestartCalm ==
  ASSUME Inv, Inv', MInv, BInv, NEW n \in Node, Restart(n)
  PROVE  MInv' /\ BInv'
<1> DEFINE L == {l \in Link : n \in l}
           sts == [c \in NodeIds(n) |-> NewState]
<1>1. /\ up' = [l \in Link |-> up[l] /\ l \notin L]
      /\ chan' = Drop(L, chan, <<>>)
      /\ pendingRecoveredSigs' = Drop(L, pendingRecoveredSigs, {})
      /\ nodeStates' = [nodeStates EXCEPT ![n] = sts]
      /\ batch' = [batch EXCEPT ![n] = <<>>]
      /\ UNCHANGED <<shouldBan, hasQuorum, conn>>
  BY Zenon DEF Restart
<1> HIDE DEF L
<1>2. \A x \in Link : up'[x] => up[x] /\ x \notin L
  BY Zenon, <1>1
<1>3. \A p \in Node : batch'[p] \in {batch[p], <<>>}
  BY Zenon, <1>1 DEF Inv, Typed, RestType
<1>4. StatesFade
  <2> SUFFICES ASSUME NEW p \in Node, NEW c \in NodeIds(p)
               PROVE  Fades(p, c, nodeStates'[p][c])
    BY Zenon DEF StatesFade
  <2>1. nodeStates'[p][c] \in {NewState, nodeStates[p][c]}
    BY Zenon, <1>1 DEF Inv, Typed, ManagerType
  <2> QED
    BY Zenon, <2>1, SameFades, NewStateFades
<1> QED
  BY Zenon, <1>1, <1>2, <1>3, <1>4, DropCalm

LEMMA AddPendingCalm ==
  ASSUME Inv, Inv', MInv, BInv, NEW n \in Node, AddPending(n)
  PROVE  MInv' /\ BInv'
<1> DEFINE c == batch[n][1]
           old == nodeStates[n][c]
           P == old.pendingIncomingSigShares \cup
                  {sh \in batch[n][2] : KeyOf(sh) \notin Keys(old.pendingIncomingSigShares)}
           st == [old EXCEPT !.pendingIncomingSigShares = P]
<1>1. batch[n] \in NodeIds(n) \X SUBSET Share /\ batch[n] # <<>>
  BY Zenon DEF AddPending, Inv, Typed, RestType
<1>2. c \in NodeIds(n)
  BY <1>1
<1>3. /\ nodeStates' = [nodeStates EXCEPT ![n][c] = st]
      /\ batch' = [batch EXCEPT ![n] = <<>>]
      /\ UNCHANGED <<recVars, shouldBan, hasQuorum, linkVars, chan>>
  BY Zenon, <1>2 DEF AddPending, Inv, Typed, ManagerType
<1>4. old \in NodeState
  BY <1>2 DEF Inv, Typed, ManagerType, GoodState
<1>5. \A sh \in P : sh[3] = "bad" => c[1] \in Broken
  BY Zenon, <1>1, <1>2 DEF BInv, PendingGenuine, BatchGenuine
<1> HIDE DEF P, old, c
<1>6. /\ st.sessionByRecvId = old.sessionByRecvId
      /\ st.sendSessionId = old.sendSessionId
      /\ st.announced = old.announced /\ st.requested = old.requested
      /\ st.pendingIncomingSigShares = P
  BY Zenon, <1>4 DEF NodeState
<1> HIDE DEF st
<1>7. \A p \in Node : \A d \in NodeIds(p) :
        nodeStates'[p][d] = IF p = n /\ d = c THEN st ELSE nodeStates[p][d]
  BY Zenon, <1>2, <1>3 DEF Inv, Typed, ManagerType
<1>8. Quiet
  <2> SUFFICES ASSUME NEW p \in Node, NEW d \in NodeIds(p)
               PROVE  /\ Forgets(nodeStates'[p][d], nodeStates[p][d])
                      /\ Quieter(nodeStates'[p][d], nodeStates[p][d])
    BY Zenon, <1>3 DEF Quiet, linkVars
  <2>1. Forgets(st, old) /\ Quieter(st, old)
    BY Zenon, <1>6 DEF Forgets, Quieter
  <2>2. Forgets(nodeStates[p][d], nodeStates[p][d])
        /\ Quieter(nodeStates[p][d], nodeStates[p][d])
    BY Zenon DEF Forgets, Quieter
  <2> QED
    BY Zenon, <1>7, <2>1, <2>2 DEF old
<1>9. MInv'
  BY Zenon, <1>8, QuietStep
<1>10. PendingGenuine'
  BY Zenon, <1>5, <1>6, <1>7 DEF BInv, PendingGenuine
<1>11. SigsGenuine' /\ QueuesGenuine' /\ OnlyBrokenBanned'
  BY Zenon, <1>3, SigsSame, BansSame DEF BInv, QueuesGenuine, QueueGenuine, recVars
<1>12. BatchGenuine'
  <2>1. \A p \in Node : batch'[p] \in {batch[p], <<>>}
    BY Zenon, <1>3 DEF Inv, Typed, RestType
  <2> QED
    BY Zenon, <2>1 DEF BInv, BatchGenuine
<1> QED
  BY Zenon, <1>9, <1>10, <1>11, <1>12 DEF BInv

\* The new connection is one of those that were not used so far.
LEMMA ReconnectCalm ==
  ASSUME Inv, Inv', MInv, BInv, NEW l \in Link, Reconnect(l)
  PROVE  MInv' /\ BInv'
<1>1. /\ up' = [up EXCEPT ![l] = TRUE] /\ conn' = [conn EXCEPT ![l] = @ + 1]
      /\ UNCHANGED <<nodeStates, batch, recVars, shouldBan, hasQuorum, chan>>
  BY Zenon DEF Reconnect
<1>2. NetType /\ NetType'
  BY Zenon DEF Inv, Typed
<1>3. \A x \in Link : /\ conn[x] \in Int
                      /\ conn'[x] = IF x = l THEN conn[x] + 1 ELSE conn[x]
                      /\ x # l => up'[x] = up[x]
  <2>1. up \in [Link -> BOOLEAN] /\ conn \in [Link -> 1 .. MaxConns]
    BY Zenon, <1>2 DEF NetType
  <2>2. \A x \in Link : x # l => up'[x] = up[x]
    BY Zenon, <1>1, <2>1
  <2>3. \A x \in Link : /\ conn[x] \in Int
                        /\ conn'[x] = IF x = l THEN conn[x] + 1 ELSE conn[x]
    BY <1>1, <2>1
  <2> QED
    BY Zenon, <2>2, <2>3
<1>4. AllUnderstood'
  <2> SUFFICES ASSUME NEW n \in Node, NEW c \in Conns(n)'
               PROVE  Understood(chan[n][c],
                        nodeStates[c[1]][<<n, c[2]>>].sessionByRecvId,
                        nodeStates[n][c].sendSessionId)
    BY Zenon, <1>1 DEF AllUnderstood
  <2>1. c \in NodeIds(n) /\ up'[{n, c[1]}] /\ c[2] = conn'[{n, c[1]}]
    BY Zenon, <1>2, ConnsNext
  <2>2. {n, c[1]} \in Link
    BY Zenon, <2>1, OtherEnd
  <2>3. CASE {n, c[1]} = l
    <3>1. c[2] > conn[{n, c[1]}]
      <4>1. c[2] = conn[l] + 1 /\ conn[l] \in Int
        BY Zenon, <1>3, <2>1, <2>3
      <4>2. c[2] > conn[l]
        BY <4>1
      <4> QED
        BY Zenon, <2>3, <4>2
    <3>2. Unused(nodeStates[n][c]) /\ chan[n][c] = <<>>
      BY Zenon, <2>1, <3>1 DEF MInv, FutureUnused
    <3>3. \A j \in 1 .. Len(chan[n][c]) : FALSE
      BY <3>2
    <3> QED
      BY Zenon, <3>2, <3>3 DEF Understood, Unused
  <2>4. CASE {n, c[1]} # l
    <3>1. c \in Conns(n)
      BY Zenon, <1>2, <1>3, <2>1, <2>2, <2>4, ConnsNow
    <3> QED
      BY Zenon, <3>1 DEF MInv, AllUnderstood
  <2> QED
    BY Zenon, <2>3, <2>4
<1>5. FutureUnused'
  <2> SUFFICES ASSUME NEW n \in Node, NEW c \in NodeIds(n), c[2] > conn'[{n, c[1]}]
               PROVE  Unused(nodeStates[n][c]) /\ chan[n][c] = <<>>
    BY Zenon, <1>1 DEF FutureUnused
  <2>1. {n, c[1]} \in Link /\ c[2] \in 1 .. MaxConns
    BY Zenon, OtherEnd
  <2>2. c[2] > conn[{n, c[1]}]
    BY <1>3, <2>1
  <2> QED
    BY Zenon, <2>2 DEF MInv, FutureUnused
<1>6. NoMeaning'
  BY Zenon, <1>1 DEF MInv, NoMeaning
<1>7. BInv'
  <2>1. PendingGenuine' /\ QueuesGenuine' /\ BatchGenuine'
    BY Zenon, <1>1 DEF BInv, PendingGenuine, QueuesGenuine, QueueGenuine, BatchGenuine
  <2>2. SigsGenuine' /\ OnlyBrokenBanned'
    BY Zenon, <1>1, SigsSame, BansSame DEF recVars
  <2> QED
    BY Zenon, <2>1, <2>2 DEF BInv
<1> QED
  BY Zenon, <1>4, <1>5, <1>6, <1>7 DEF MInv

\* What handling a message does to the ids and the shares that wait.
ReadAs(n, st, m, new) ==
  /\ new.sendSessionId = st.sendSessionId
  /\ new.pendingIncomingSigShares = st.pendingIncomingSigShares
  /\ m.t # "ann" \/ n \notin hasQuorum => new.sessionByRecvId = st.sessionByRecvId
  /\ m.t = "ann" /\ n \in hasQuorum =>
       \A i \in Id : new.sessionByRecvId[i] =
         IF i = m.id THEN m.s
         ELSE IF i = st.recvSessionId[m.s] THEN None ELSE st.sessionByRecvId[i]

LEMMA HandledIds ==
  ASSUME NEW n, NEW st \in NodeState, NEW m \in Message
  PROVE  ReadAs(n, st, m, Handled(n, st, m))
<1>1. /\ OnSigSesAnn(n, st, m).sendSessionId = st.sendSessionId
      /\ OnSigSharesInv(n, st, m).sendSessionId = st.sendSessionId
      /\ OnGetSigShares(n, st, m).sendSessionId = st.sendSessionId
      /\ OnBatchedSigShares(st, m).sendSessionId = st.sendSessionId
  BY Zenon DEF OnSigSesAnn, OnSigSharesInv, OnGetSigShares, OnBatchedSigShares, NodeState
<1>2. /\ OnSigSesAnn(n, st, m).pendingIncomingSigShares = st.pendingIncomingSigShares
      /\ OnSigSharesInv(n, st, m).pendingIncomingSigShares = st.pendingIncomingSigShares
      /\ OnGetSigShares(n, st, m).pendingIncomingSigShares = st.pendingIncomingSigShares
      /\ OnBatchedSigShares(st, m).pendingIncomingSigShares = st.pendingIncomingSigShares
  BY Zenon DEF OnSigSesAnn, OnSigSharesInv, OnGetSigShares, OnBatchedSigShares, NodeState
<1>3. /\ n \notin hasQuorum => OnSigSesAnn(n, st, m).sessionByRecvId = st.sessionByRecvId
      /\ OnSigSharesInv(n, st, m).sessionByRecvId = st.sessionByRecvId
      /\ OnGetSigShares(n, st, m).sessionByRecvId = st.sessionByRecvId
      /\ OnBatchedSigShares(st, m).sessionByRecvId = st.sessionByRecvId
  BY Zenon DEF OnSigSesAnn, OnSigSharesInv, OnGetSigShares, OnBatchedSigShares, NodeState
<1>4. n \in hasQuorum =>
        \A i \in Id : OnSigSesAnn(n, st, m).sessionByRecvId[i] =
          IF i = m.id THEN m.s
          ELSE IF i = st.recvSessionId[m.s] THEN None ELSE st.sessionByRecvId[i]
  BY Zenon DEF OnSigSesAnn, NodeState
<1>5. m.t \in {"ann", "inv", "get", "batch"}
  BY Zenon, HandledCases
<1>6. CASE m.t = "ann"
  <2>1. Handled(n, st, m) = OnSigSesAnn(n, st, m)
    BY Zenon, <1>6, HandledCases
  <2> QED
    BY Zenon, <1>1, <1>2, <1>3, <1>4, <1>6, <2>1 DEF ReadAs
<1>7. CASE m.t # "ann"
  <2>1. Handled(n, st, m) \in {OnSigSharesInv(n, st, m), OnGetSigShares(n, st, m),
                               OnBatchedSigShares(st, m)}
    BY Zenon, <1>5, <1>7, HandledCases
  <2> QED
    BY Zenon, <1>1, <1>2, <1>3, <1>7, <2>1 DEF ReadAs
<1> QED
  BY Zenon, <1>6, <1>7

\* A batch that is understood, and comes from no broken member, has no bad
\* share in it.
LEMMA NewInBatchGenuine ==
  ASSUME NEW n, NEW st \in NodeState, NEW m \in Message, NEW p,
         st.sessionByRecvId[m.id] \in {None, m.s},
         \A e \in m.of : e[2] = "bad" => p \in Broken,
         NEW sh, sh \in NewInBatch(n, st, m), sh[3] = "bad"
  PROVE  p \in Broken
<1>1. sh \in Rebuild(st, m)
  BY Zenon DEF NewInBatch
<1>2. PICK e \in m.of : sh = <<m.s, e[1], e[2]>>
  BY Zenon, <1>1 DEF Rebuild
<1>3. e[2] = "bad"
  BY <1>2
<1> QED
  BY Zenon, <1>2, <1>3

\* What a message is read as, when it is first in a queue that is understood.
LEMMA HeadUnderstood ==
  ASSUME NEW q \in Seq(Message), q # <<>>, Head(q).t # "ann", NEW map, NEW send,
         Understood(q, map, send)
  PROVE  map[Head(q).id] \in {None, Head(q).s}
<1>1. 1 \in 1 .. Len(q) /\ Head(q) = q[1] /\ 1 .. (1 - 1) = {}
  OBVIOUS
<1>2. Means(q, map, 1, Head(q).id, Head(q).s)
  BY Zenon, <1>1 DEF Understood
<1> QED
  BY Zenon, <1>1, <1>2 DEF Means

LEMMA ProcessMessageCalm ==
  ASSUME Inv, Inv', MInv, BInv, NEW n \in Node, NEW c \in NodeIds(n), ProcessMessage(n, c)
  PROVE  MInv' /\ BInv'
<1> DEFINE p == c[1]
           d == <<n, c[2]>>
           q == chan[p][d]
           m == Head(q)
           st == nodeStates[n][c]
           h == Handled(n, st, m)
           t == Tail(q)
           new == IF m.t = "batch" THEN NewInBatch(n, st, m) ELSE {}
           b == IF new = {} THEN <<>> ELSE <<c, new>>
<1>1. /\ nodeStates' = [nodeStates EXCEPT ![n][c] = h]
      /\ batch' = [batch EXCEPT ![n] = b]
      /\ chan' = [chan EXCEPT ![p][d] = t]
      /\ UNCHANGED <<recVars, shouldBan, hasQuorum, linkVars>>
      /\ q # <<>> /\ c \in Conns(n)
  BY Zenon DEF ProcessMessage, Handled
<1>2. NetType /\ ManagerType
  BY Zenon DEF Inv, Typed
<1>3. p \in Node /\ d \in NodeIds(p) /\ c = <<p, c[2]>> /\ {n, p} \in Link
  BY Zenon, OtherEnd
<1>4. d[1] = n /\ d[2] = c[2] /\ {p, n} = {n, p}
  BY Zenon
<1>5. q \in Seq(Message) /\ st \in NodeState
  BY <1>2, <1>3, ChanType DEF ManagerType, GoodState
<1>6. m \in Message
  BY <1>1, <1>5
<1>7. d \in Conns(p) /\ c[2] = conn[{n, p}]
  <2>1. up[{n, p}] /\ c[2] = conn[{n, p}]
    BY Zenon, <1>1, <1>2, ConnsNow
  <2> HIDE DEF d
  <2>2. d \in Conns(p) <=> d \in NodeIds(p) /\ up[{p, d[1]}] /\ d[2] = conn[{p, d[1]}]
    BY Zenon, <1>2, <1>3, ConnsNow
  <2> QED
    BY Zenon, <1>3, <1>4, <2>1, <2>2
<1>8. Understood(q, st.sessionByRecvId, nodeStates[p][d].sendSessionId)
  BY Zenon, <1>3, <1>4, <1>7 DEF MInv, AllUnderstood
<1>9. \A x \in Node : \A y \in NodeIds(x) :
        /\ nodeStates'[x][y] = IF x = n /\ y = c THEN h ELSE nodeStates[x][y]
        /\ chan'[x][y] = IF x = p /\ y = d THEN t ELSE chan[x][y]
  <2> HIDE DEF p, d, h, t
  <2> QED
    BY Zenon, <1>1, <1>2, <1>3 DEF ManagerType, NetType
<1>10. /\ h.sendSessionId = st.sendSessionId
       /\ h.pendingIncomingSigShares = st.pendingIncomingSigShares
       /\ m.t # "ann" \/ n \notin hasQuorum => h.sessionByRecvId = st.sessionByRecvId
       /\ m.t = "ann" /\ n \in hasQuorum =>
            \A i \in Id : h.sessionByRecvId[i] =
                IF i = m.id THEN m.s
                ELSE IF i = st.recvSessionId[m.s] THEN None
                ELSE st.sessionByRecvId[i]
  <2>1. ReadAs(n, st, m, h)
    BY Zenon, <1>5, <1>6, HandledIds
  <2> HIDE DEF h, st, m
  <2> QED
    BY Zenon, <2>1 DEF ReadAs
<1> HIDE DEF h, t, b, new, st
<1>11. AllUnderstood'
  <2> SUFFICES ASSUME NEW x \in Node, NEW y \in Conns(x)'
               PROVE  Understood(chan'[x][y],
                        nodeStates'[y[1]][<<x, y[2]>>].sessionByRecvId,
                        nodeStates'[x][y].sendSessionId)
    BY Zenon DEF AllUnderstood
  <2>1. y \in Conns(x) /\ y \in NodeIds(x)
    <3>1. Conns(x)' = Conns(x)
      BY Zenon, <1>1 DEF Conns, linkVars
    <3> QED
      BY Zenon, <1>2, <3>1, ConnsNow
  <2>2. nodeStates'[x][y].sendSessionId = nodeStates[x][y].sendSessionId
    BY Zenon, <1>9, <1>10, <2>1 DEF st
  <2>3. CASE x = p /\ y = d
    <3>1. \A i \in Id :
            /\ ~Tells(m, i) => h.sessionByRecvId[i] \in {None, st.sessionByRecvId[i]}
            /\ Tells(m, i) => h.sessionByRecvId[i] \in {None, m.s}
      <4>1. n \notin hasQuorum => \A i \in Id : st.sessionByRecvId[i] = None
        BY Zenon DEF MInv, NoMeaning, st
      <4> HIDE DEF m
      <4> QED
        BY Zenon, <1>10, <4>1 DEF Tells
    <3> DEFINE send == nodeStates[p][d].sendSessionId
               map == st.sessionByRecvId
               map2 == h.sessionByRecvId
    <3>2. send \in [Session -> 0 .. MaxId]
      <4>1. nodeStates[p][d] \in NodeState
        BY Zenon, <1>2, <1>3 DEF ManagerType, GoodState
      <4> QED
        BY Zenon, <4>1 DEF NodeState
    <3>3. Understood(q, map, send)
      BY Zenon, <1>8
    <3> HIDE DEF send, q
    <3>4. Understood(t, map2, send)
      <4> HIDE DEF map, map2
      <4> QED
        BY Zenon, <1>1, <1>5, <3>1, <3>2, <3>3, UnderstoodPop DEF t, m, map, map2
    <3>5. chan'[x][y] = t
      BY Zenon, <1>3, <1>9, <2>3
    <3>6. nodeStates'[y[1]][<<x, y[2]>>] = h
      BY Zenon, <1>3, <1>4, <1>9, <2>3
    <3> QED
      BY Zenon, <2>2, <2>3, <3>4, <3>5, <3>6 DEF send
  <2>4. CASE ~(x = p /\ y = d)
    <3>1. chan'[x][y] = chan[x][y]
      BY Zenon, <1>9, <2>1, <2>4
    <3> DEFINE z == <<x, y[2]>>
    <3>2. y[1] \in Node /\ z \in NodeIds(y[1]) /\ y = <<y[1], y[2]>>
      BY Zenon, <2>1, OtherEnd
    <3>3. ~(y[1] = n /\ z = c)
      <4> SUFFICES ASSUME y[1] = n, z = c
                   PROVE  FALSE
        BY Zenon
      <4>1. x = p /\ y[2] = c[2]
        BY <1>3
      <4> QED
        BY Zenon, <2>4, <3>2, <4>1
    <3> HIDE DEF z
    <3>4. nodeStates'[y[1]][z] = nodeStates[y[1]][z]
      BY Zenon, <1>9, <3>2, <3>3
    <3> QED
      BY Zenon, <2>1, <2>2, <3>1, <3>4 DEF MInv, AllUnderstood, z
  <2> QED
    BY Zenon, <2>3, <2>4
<1>12. FutureUnused'
  <2> SUFFICES ASSUME NEW x \in Node, NEW y \in NodeIds(x), y[2] > conn[{x, y[1]}]
               PROVE  Unused(nodeStates'[x][y]) /\ chan'[x][y] = <<>>
    BY Zenon, <1>1 DEF FutureUnused, linkVars
  <2>1. y[2] # conn[{x, y[1]}]
    <3>1. {x, y[1]} \in Link
      BY Zenon, OtherEnd
    <3>2. conn[{x, y[1]}] \in 1 .. MaxConns
      BY Zenon, <1>2, <3>1 DEF NetType
    <3> QED
      BY <3>2
  <2>2. ~(x = n /\ y = c) /\ ~(x = p /\ y = d)
    BY Zenon, <1>4, <1>7, <2>1
  <2>3. nodeStates'[x][y] = nodeStates[x][y] /\ chan'[x][y] = chan[x][y]
    BY Zenon, <1>9, <2>2
  <2>4. Unused(nodeStates[x][y]) /\ chan[x][y] = <<>>
    BY Zenon DEF MInv, FutureUnused
  <2> QED
    BY Zenon, <2>3, <2>4
<1>13. NoMeaning'
  <2> SUFFICES ASSUME NEW x \in Node \ hasQuorum, NEW y \in NodeIds(x), NEW i \in Id
               PROVE  nodeStates'[x][y].sessionByRecvId[i] = None
    BY Zenon, <1>1 DEF NoMeaning
  <2>1. nodeStates[x][y].sessionByRecvId[i] = None
    BY Zenon DEF MInv, NoMeaning
  <2>2. x = n /\ y = c => h.sessionByRecvId = nodeStates[x][y].sessionByRecvId
    BY Zenon, <1>10 DEF st
  <2> QED
    BY Zenon, <1>9, <2>1, <2>2
<1>14. PendingGenuine'
  <2> SUFFICES ASSUME NEW x \in Node, NEW y \in NodeIds(x)
               PROVE  nodeStates'[x][y].pendingIncomingSigShares =
                        nodeStates[x][y].pendingIncomingSigShares
    BY Zenon DEF BInv, PendingGenuine
  <2> QED
    BY Zenon, <1>9, <1>10 DEF st
<1>15. QueuesGenuine'
  <2>1. QueueGenuine(p, t)
    <3>1. QueueGenuine(p, q)
      BY Zenon, <1>3 DEF BInv, QueuesGenuine
    <3>2. \A j \in DOMAIN t : j + 1 \in DOMAIN q /\ t[j] = q[j + 1]
      <4> HIDE DEF q
      <4> QED
        BY <1>1, <1>5 DEF t
    <3> HIDE DEF q, p
    <3> QED
      BY Zenon, <3>1, <3>2 DEF QueueGenuine
  <2> SUFFICES ASSUME NEW x \in Node, NEW y \in NodeIds(x)
               PROVE  QueueGenuine(x, chan'[x][y])
    BY Zenon DEF QueuesGenuine, QueueGenuine
  <2>2. QueueGenuine(x, chan[x][y])
    BY Zenon DEF BInv, QueuesGenuine
  <2> QED
    BY Zenon, <1>9, <2>1, <2>2
<1>16. BatchGenuine'
  <2>1. ASSUME NEW sh \in new, sh[3] = "bad"
        PROVE  p \in Broken
    <3>1. m.t = "batch" /\ sh \in NewInBatch(n, st, m)
      BY Zenon, <2>1 DEF new
    <3>2. m.t # "ann"
      BY <3>1
    <3>3. st.sessionByRecvId[m.id] \in {None, m.s}
      BY Zenon, <1>1, <1>5, <1>8, <3>2, HeadUnderstood
    <3>4. \A e \in m.of : e[2] = "bad" => p \in Broken
      <4>1. QueueGenuine(p, q)
        BY Zenon, <1>3 DEF BInv, QueuesGenuine
      <4>2. 1 \in DOMAIN q /\ m = q[1]
        <5> HIDE DEF q
        <5> QED
          BY <1>1, <1>5 DEF m
      <4> QED
        BY Zenon, <3>1, <4>1, <4>2 DEF QueueGenuine
    <3> HIDE DEF m, p, q
    <3>5. st \in NodeState /\ m \in Message /\ sh[3] = "bad"
      BY Zenon, <1>5, <1>6, <2>1
    <3> QED
      BY <3>1, <3>3, <3>4, <3>5, NewInBatchGenuine
  <2>2. b = <<>> \/ (b[1] = c /\ b[2] = new)
    BY Zenon DEF b
  <2>3. \A x \in Node : batch'[x] = IF x = n THEN b ELSE batch[x]
    BY Zenon, <1>1 DEF Inv, Typed, RestType
  <2> QED
    BY Zenon, <2>1, <2>2, <2>3 DEF BInv, BatchGenuine
<1>17. SigsGenuine' /\ OnlyBrokenBanned'
  BY Zenon, <1>1, SigsSame, BansSame DEF recVars
<1> QED
  BY Zenon, <1>11, <1>12, <1>13, <1>14, <1>15, <1>16, <1>17 DEF MInv, BInv
=============================================================================
