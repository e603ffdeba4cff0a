-------------------------- MODULE SigSharesProofs ---------------------------
(***************************************************************************)
(* For any members, links, sessions and bounds: the state of the sig share *)
(* exchange is well-formed, pointers by session id are live, requests have *)
(* one owner, shares are genuine, a session that is done is gone, messages *)
(* are understood and only broken members are banned.                      *)
(***************************************************************************)
EXTENDS SigSharesSteps, FiniteSetTheorems

LEMMA CleanupInv ==
  ASSUME Inv, NEW n \in Node, NEW T \in SUBSET Session, Cleanup(n, T)
  PROVE  Inv'
<1> DEFINE over == T \cup {s \in {sh[1] : sh \in sigShares[n]} : Recovered(n, s)}
           gone == NodeIds(n) \ Conns(n)
<1>1. /\ RemoveSigSharesForSessions(n, over,
           [c \in NodeIds(n) |-> IF c \in gone THEN NewState ELSE nodeStates[n][c]],
           sigShares[n], sigSharesToAnnounce[n], Released(n, gone))
      /\ retryDue' = IF T = {} THEN retryDue ELSE RetryAround(n, T)
      /\ timeouts + Cardinality(T) <= MaxTimeouts
      /\ timeouts' = timeouts + Cardinality(T)
      /\ UNCHANGED <<pendingSigns, batch, recVars, shouldBan, hasQuorum,
                    linkVars, chan>>
  BY Zenon DEF Cleanup
<1>2. over \in SUBSET Session /\ gone \in SUBSET NodeIds(n)
  BY DEF Inv, Typed, ManagerType, Share
<1> HIDE DEF over, gone
<1>3. UNCHANGED recSig
  BY Zenon, <1>1 DEF recVars
<1>4. ManagerType' /\ RequestOwner' /\ SharesGenuine' /\ DoneSessionsGone'
  BY Zenon, <1>1, <1>2, <1>3, ForgetKeeps
<1>5. RecType' /\ NetType'
  BY <1>1, RecSame, NetSame DEF Inv, Typed
<1>6. RestType'
  <2>1. IsFiniteSet(T)
    BY MemberAssumption, FS_Subset
  <2>2. Cardinality(T) \in Nat
    BY Zenon, <2>1, FS_CardinalityType
  <2>3. timeouts' \in 0 .. MaxTimeouts
    BY <1>1, <2>2, MemberAssumption DEF Inv, Typed, RestType
  <2>4. retryDue' \in [Node -> SUBSET Session]
    <3>1. RetryAround(n, T) \in [Node -> SUBSET Session]
      BY RetryAroundType
    <3> QED
      BY <1>1, <3>1 DEF Inv, Typed, RestType
  <2> QED
    BY Zenon, <1>1, <2>3, <2>4 DEF Inv, Typed, RestType
<1> QED
  BY <1>4, <1>5, <1>6 DEF Inv, Typed

\* A set as a sequence.
LEMMA ListingsFacts ==
  ASSUME NEW S, IsFiniteSet(S), NEW f \in Listings(S)
  PROVE  /\ f \in Seq(S) /\ Len(f) \in Nat /\ DOMAIN f = 1 .. Len(f)
         /\ \A i, j \in 1 .. Len(f) : f[i] = f[j] => i = j
         /\ \A x \in S : \E i \in 1 .. Len(f) : f[i] = x
<1> DEFINE k == Cardinality(S)
<1>1. k \in Nat
  BY FS_CardinalityType
<1>2. f \in [1 .. k -> S] /\ \A i, j \in 1 .. k : f[i] = f[j] => i = j
  BY Zenon DEF Listings, Injection, IsInjective
<1> HIDE DEF k
<1>3. f \in Seq(S) /\ Len(f) = k /\ DOMAIN f = 1 .. k
  BY <1>1, <1>2
<1>4. f \in Injection(1 .. k, S)
  BY Zenon DEF Listings, k
<1>5. Cardinality(1 .. k) = k
  BY <1>1, FS_Interval
<1>6. f \in Surjection(1 .. k, S)
  BY <1>4, <1>5, FS_Injection DEF k
<1> QED
  BY <1>1, <1>2, <1>3, <1>6 DEF Surjection

LEMMA LineFacts ==
  ASSUME NEW line \in Orders, NEW S \in SUBSET Session
  PROVE  /\ line[S] \in Seq(Session) /\ Len(line[S]) \in Nat
         /\ DOMAIN line[S] = 1 .. Len(line[S])
         /\ \A i \in 1 .. Len(line[S]) : line[S][i] \in S
         /\ \A i, j \in 1 .. Len(line[S]) : line[S][i] = line[S][j] => i = j
         /\ \A x \in S : \E i \in 1 .. Len(line[S]) : line[S][i] = x
<1>1. IsFiniteSet(S)
  BY FS_Subset, MemberAssumption
<1> DEFINE f == line[S]
<1>2. f \in Listings(S)
  BY Zenon DEF Orders
<1> HIDE DEF f
<1>3. /\ f \in Seq(S) /\ Len(f) \in Nat /\ DOMAIN f = 1 .. Len(f)
      /\ \A i, j \in 1 .. Len(f) : f[i] = f[j] => i = j
      /\ \A x \in S : \E i \in 1 .. Len(f) : f[i] = x
  BY <1>1, <1>2, ListingsFacts
<1>4. f \in Seq(Session) /\ \A i \in 1 .. Len(f) : f[i] \in S
  BY <1>3
<1> QED
  BY Zenon, <1>3, <1>4 DEF f

LEMMA SendIdsFacts ==
  ASSUME NEW st \in GoodState, NEW new \in Seq(Session),
         \A i, j \in 1 .. Len(new) : new[i] = new[j] => i = j,
         st.nextSendSessionId + Len(new) <= MaxId + 1
  PROVE  /\ SendIds(st, new) \in [Session -> 0 .. MaxId]
         /\ \A s \in Session : SendIds(st, new)[s] < st.nextSendSessionId + Len(new)
         /\ \A i \in 1 .. Len(new) :
              SendIds(st, new)[new[i]] = st.nextSendSessionId - 1 + i
         /\ \A s \in Session : (\A i \in 1 .. Len(new) : new[i] # s) =>
              SendIds(st, new)[s] = st.sendSessionId[s]
<1> DEFINE nxt == st.nextSendSessionId
           old == st.sendSessionId
           ids == SendIds(st, new)
<1>1. /\ nxt \in 1 .. MaxId + 1 /\ old \in [Session -> 0 .. MaxId]
      /\ \A s \in Session : old[s] < nxt
  BY DEF GoodState, NodeState
<1>2. /\ DOMAIN new = 1 .. Len(new) /\ Len(new) \in Nat
      /\ \A i \in 1 .. Len(new) : new[i] \in Session
  OBVIOUS
<1>3. /\ ids = [s \in Session |-> ids[s]]
      /\ \A s \in Session : ids[s] =
           IF \E i \in 1 .. Len(new) : new[i] = s
           THEN nxt - 1 + (CHOOSE i \in 1 .. Len(new) : new[i] = s) ELSE old[s]
  BY Zenon, <1>2 DEF SendIds
<1> HIDE DEF nxt, old, ids
<1>4. ASSUME NEW i \in 1 .. Len(new) PROVE ids[new[i]] = nxt - 1 + i
  <2>1. (CHOOSE x \in 1 .. Len(new) : new[x] = new[i]) = i
    BY Zenon
  <2> QED
    BY Zenon, <1>2, <1>3, <2>1
<1>5. ASSUME NEW s \in Session, \A i \in 1 .. Len(new) : new[i] # s
      PROVE  ids[s] = old[s]
  BY Zenon, <1>3, <1>5
<1>6. \A s \in Session : ids[s] \in 0 .. MaxId /\ ids[s] < nxt + Len(new)
  <2> SUFFICES ASSUME NEW s \in Session
               PROVE  ids[s] \in 0 .. MaxId /\ ids[s] < nxt + Len(new)
    BY Zenon
  <2>1. CASE \E i \in 1 .. Len(new) : new[i] = s
    BY <2>1, <1>1, <1>2, <1>4, MemberAssumption DEF nxt
  <2>2. CASE \A i \in 1 .. Len(new) : new[i] # s
    BY <2>2, <1>1, <1>2, <1>5, MemberAssumption
  <2> QED
    BY <2>1, <2>2
<1>7. ids \in [Session -> 0 .. MaxId]
  BY Zenon, <1>3, <1>6
<1> QED
  BY <1>4, <1>5, <1>6, <1>7 DEF ids, nxt, old

\* The messages on a connection, which tell of keys of sessions with ids.
\* Every session of the keys has an id.
Named(ids, keys) ==
  /\ keys \in SUBSET Key /\ ids \in [Session -> 0 .. MaxId]
  /\ \A s \in SessionsIn(keys) : ids[s] # 0

\* The types of the messages that an announcement must come before.
Later == {"get", "batch", "inv"}

LEMMA MessagesFacts ==
  ASSUME NEW n, NEW t \in Later, NEW line \in Orders,
         NEW ids, NEW keys, Named(ids, keys),
         NEW ms, ms = Messages(n, t, line, ids, keys)
  PROVE  /\ ms \in Seq(Message)
         /\ \A i \in 1 .. Len(ms) : /\ ms[i].t = t /\ ms[i].id = ids[ms[i].s]
                                    /\ ms[i].s \in SessionsIn(keys)
<1> DEFINE ss == line[SessionsIn(keys)]
           Of(s) == IF t = "batch"
                    THEN {e \in Node \X Kind : /\ <<s, e[1]>> \in keys
                                               /\ <<s, e[1], e[2]>> \in sigShares[n]}
                    ELSE {p \in Node : <<s, p>> \in keys}
           Msg(i) == [t |-> t, id |-> ids[ss[i]], s |-> ss[i], of |-> Of(ss[i])]
<1>0. /\ keys \in SUBSET Key /\ ids \in [Session -> 0 .. MaxId]
      /\ \A s \in SessionsIn(keys) : ids[s] # 0
  BY Zenon DEF Named
<1>1. SessionsIn(keys) \in SUBSET Session
  BY <1>0 DEF SessionsIn, Key
<1>2. /\ ss \in Seq(Session) /\ Len(ss) \in Nat /\ DOMAIN ss = 1 .. Len(ss)
      /\ \A i \in 1 .. Len(ss) : ss[i] \in SessionsIn(keys)
  BY Zenon, <1>1, LineFacts
<1>3. ms = [i \in 1 .. Len(ss) |-> Msg(i)]
  BY Zenon, <1>2 DEF Messages
<1>4. \A i \in 1 .. Len(ss) : /\ ss[i] \in Session /\ ids[ss[i]] \in Id
                              /\ ss[i] \in SessionsIn(keys)
  BY <1>0, <1>1, <1>2, MemberAssumption DEF Id
<1>5. \A s : /\ t = "batch" => Of(s) \in SUBSET (Node \X Kind)
             /\ t # "batch" => Of(s) \in SUBSET Node
  BY Zenon
<1> HIDE DEF ss, Of
<1>6. \A i \in 1 .. Len(ss) : /\ Msg(i).t = t /\ Msg(i).id = ids[ss[i]]
                              /\ Msg(i).s = ss[i]
  BY Zenon
<1>7. \A i \in 1 .. Len(ss) : Msg(i) \in Message
  <2> SUFFICES ASSUME NEW i \in 1 .. Len(ss)
               PROVE  Msg(i) \in Message
    OBVIOUS
  <2>1. CASE t = "batch"
    BY Zenon, <2>1, <1>4, <1>5 DEF Message
  <2>2. CASE t # "batch"
    <3>1. t \in {"get", "inv"}
      BY <2>2 DEF Later
    <3> QED
      BY Zenon, <2>2, <3>1, <1>4, <1>5 DEF Message
  <2> QED
    BY Zenon, <2>1, <2>2
<1> HIDE DEF Msg
<1>8. ms \in Seq(Message) /\ Len(ms) = Len(ss)
      /\ \A i \in 1 .. Len(ss) : ms[i] = Msg(i)
  BY <1>2, <1>3, <1>7
<1>9. \A i \in 1 .. Len(ms) : ms[i].t = t /\ ms[i].id = ids[ms[i].s]
                              /\ ms[i].s \in SessionsIn(keys)
  BY <1>4, <1>6, <1>8
<1> QED
  BY Zenon, <1>8, <1>9

\* CollectSigSharesToRequest asks for a key once.
LEMMA AskedOnce ==
  ASSUME NEW n \in Node,
         NEW order \in Listings({c \in NodeIds(n) : May(n, c) # {}})
  PROVE  /\ \A c \in NodeIds(n) : ToRequest(n, order)[c] \subseteq May(n, c)
         /\ \A c, d \in NodeIds(n) : \A k \in ToRequest(n, order)[c] :
              k \in ToRequest(n, order)[d] => c = d
<1> DEFINE S == {c \in NodeIds(n) : May(n, c) # {}}
           get == ToRequest(n, order)
<1>1. IsFiniteSet(S)
  <2>1. IsFiniteSet(1 .. MaxConns)
    <3>1. 1 \in Int /\ MaxConns \in Int
      BY MemberAssumption
    <3> QED
      BY <3>1, FS_Interval
  <2>2. IsFiniteSet(Conn)
    BY <2>1, FS_Product, MemberAssumption DEF Conn
  <2>3. S \in SUBSET Conn
    BY Zenon DEF NodeIds
  <2> HIDE DEF S
  <2> QED
    BY <2>2, <2>3, FS_Subset
<1>2. Len(order) \in Nat /\ DOMAIN order = 1 .. Len(order)
  <2> HIDE DEF S
  <2>1. order \in Listings(S)
    BY Zenon DEF S
  <2> QED
    BY <1>1, <2>1, ListingsFacts
<1>3. \A c \in NodeIds(n) : get[c] =
        {k \in May(n, c) : \E i \in 1 .. Len(order) :
           order[i] = c /\ \A j \in 1 .. (i - 1) : k \notin May(n, order[j])}
  BY Zenon, <1>2 DEF ToRequest
<1>4. ASSUME NEW c \in NodeIds(n), NEW d \in NodeIds(n), NEW k \in get[c], k \in get[d]
      PROVE  c = d
  <2>1. PICK i \in 1 .. Len(order) :
          order[i] = c /\ \A j \in 1 .. (i - 1) : k \notin May(n, order[j])
    BY Zenon, <1>3
  <2>2. PICK i2 \in 1 .. Len(order) :
          order[i2] = d /\ \A j \in 1 .. (i2 - 1) : k \notin May(n, order[j])
    BY Zenon, <1>3, <1>4
  <2>3. k \in May(n, c) /\ k \in May(n, d)
    BY Zenon, <1>3, <1>4
  <2>4. ~(i < i2) /\ ~(i2 < i)
    BY <2>1, <2>2, <2>3, <1>2
  <2> QED
    BY <2>1, <2>2, <2>4, <1>2
<1> QED
  BY Zenon, <1>3, <1>4
-----------------------------------------------------------------------------
(***************************************************************************)
(* SendMessages, connection by connection.                                 *)
(***************************************************************************)
\* The sessions that get an id on c.
NewSessions(n, c, order, line) ==
  line[{s \in SessionsIn(ToRequest(n, order)[c] \cup ToSend(n, c) \cup ToAnnounce(n, c)) :
          nodeStates[n][c].sendSessionId[s] = 0}]

\* The ids on c after that.
IdsOn(n, c, order, line) ==
  SendIds(nodeStates[n][c], NewSessions(n, c, order, line))

Announcements(new, ids) ==
  [i \in DOMAIN new |-> [t |-> "ann", s |-> new[i], id |-> ids[new[i]], of |-> {}]]

StateSent(n, c, order, line) ==
  LET had == {k \in Keys(sigShares[n]) : ~Recovered(n, k[1])}
      get == ToRequest(n, order)[c]
  IN IF nodeStates[n][c].banned THEN nodeStates[n][c]
     ELSE [nodeStates[n][c] EXCEPT
             !.announced = @ \ (had \cup get),
             !.requestedSigShares = (@ \ expired[n]) \cup get,
             !.requested = @ \ Wanted(n, c),
             !.knows = @ \cup ToAnnounce(n, c),
             !.sendSessionId = IdsOn(n, c, order, line),
             !.nextSendSessionId = @ + Len(NewSessions(n, c, order, line))]

QueueSent(n, c, order, line) ==
  LET ids == IdsOn(n, c, order, line)
  IN IF c \notin Conns(n) THEN chan[n][c]
     ELSE chan[n][c] \o Announcements(NewSessions(n, c, order, line), ids)
                     \o Messages(n, "get", line, ids, ToRequest(n, order)[c])
                     \o Messages(n, "batch", line, ids, ToSend(n, c))
                     \o Messages(n, "inv", line, ids, ToAnnounce(n, c))

\* A step of SendMessages, given how the nodes and the sessions are ordered.
SendStep(n, order, line) ==
  LET get == ToRequest(n, order)
      asked == UNION {get[c] : c \in NodeIds(n)}
  IN /\ \A c \in NodeIds(n) :
          nodeStates[n][c].nextSendSessionId + Len(NewSessions(n, c, order, line))
            <= MaxId + 1
     /\ nodeStates' = [nodeStates EXCEPT ![n] =
          [c \in NodeIds(n) |-> StateSent(n, c, order, line)]]
     /\ sigSharesRequested' = [sigSharesRequested EXCEPT ![n] =
          [k \in Key |-> IF k \in asked
                         THEN CHOOSE c \in NodeIds(n) : k \in get[c]
                         ELSE sigSharesRequested[n][k]]]
     /\ expired' = [expired EXCEPT ![n] = @ \ asked]
     /\ sigSharesToAnnounce' = [sigSharesToAnnounce EXCEPT ![n] = {}]
     /\ chan' = [chan EXCEPT ![n] = [c \in NodeIds(n) |-> QueueSent(n, c, order, line)]]
     /\ UNCHANGED <<sigShares, pendingSigns, batch, recVars, shouldBan,
                    retryDue, hasQuorum, linkVars, timeouts>>

LEMMA SendMessagesStep ==
  ASSUME NEW n \in Node, SendMessages(n)
  PROVE  \E order \in Listings({c \in NodeIds(n) : May(n, c) # {}}), line \in Orders :
           SendStep(n, order, line)
<1> DEFINE had == {k \in Keys(sigShares[n]) : ~Recovered(n, k[1])}
           Get(order) == ToRequest(n, order)
           New(order, line) == [c \in NodeIds(n) |-> line[{s \in
             SessionsIn(Get(order)[c] \cup ToSend(n, c) \cup ToAnnounce(n, c)) :
               nodeStates[n][c].sendSessionId[s] = 0}]]
           Ids(order, line) == [c \in NodeIds(n) |->
             SendIds(nodeStates[n][c], New(order, line)[c])]
           State(order, line, c) ==
             IF nodeStates[n][c].banned THEN nodeStates[n][c]
             ELSE [nodeStates[n][c] EXCEPT
                     !.announced = @ \ (had \cup Get(order)[c]),
                     !.requestedSigShares = (@ \ expired[n]) \cup Get(order)[c],
                     !.requested = @ \ Wanted(n, c),
                     !.knows = @ \cup ToAnnounce(n, c),
                     !.sendSessionId = Ids(order, line)[c],
                     !.nextSendSessionId = @ + Len(New(order, line)[c])]
           Queue(order, line, c) ==
             LET new == New(order, line)
                 ids == Ids(order, line)
             IN IF c \notin Conns(n) THEN chan[n][c]
                ELSE chan[n][c]
                     \o [i \in DOMAIN new[c] |-> [t |-> "ann", s |-> new[c][i],
                          id |-> ids[c][new[c][i]], of |-> {}]]
                     \o Messages(n, "get", line, ids[c], Get(order)[c])
                     \o Messages(n, "batch", line, ids[c], ToSend(n, c))
                     \o Messages(n, "inv", line, ids[c], ToAnnounce(n, c))
           Asked(order) == UNION {Get(order)[c] : c \in NodeIds(n)}
<1>1. PICK order \in Listings({c \in NodeIds(n) : May(n, c) # {}}), line \in Orders :
        /\ \A c \in NodeIds(n) :
             nodeStates[n][c].nextSendSessionId + Len(New(order, line)[c]) <= MaxId + 1
        /\ nodeStates' = [nodeStates EXCEPT ![n] =
             [c \in NodeIds(n) |-> State(order, line, c)]]
        /\ sigSharesRequested' = [sigSharesRequested EXCEPT ![n] =
             [k \in Key |-> IF k \in Asked(order)
                            THEN CHOOSE c \in NodeIds(n) : k \in Get(order)[c]
                            ELSE sigSharesRequested[n][k]]]
        /\ expired' = [expired EXCEPT ![n] = @ \ Asked(order)]
        /\ sigSharesToAnnounce' = [sigSharesToAnnounce EXCEPT ![n] = {}]
        /\ chan' = [chan EXCEPT ![n] = [c \in NodeIds(n) |-> Queue(order, line, c)]]
        /\ UNCHANGED <<sigShares, pendingSigns, batch, recVars, shouldBan,
                    retryDue, hasQuorum, linkVars, timeouts>>
  BY Zenon DEF SendMessages
<1>2. \A c \in NodeIds(n) : /\ New(order, line)[c] = NewSessions(n, c, order, line)
                            /\ Ids(order, line)[c] = IdsOn(n, c, order, line)
  BY Zenon DEF NewSessions, IdsOn
<1> HIDE DEF New, Ids
<1>3. \A c \in NodeIds(n) : State(order, line, c) = StateSent(n, c, order, line)
  BY Zenon, <1>2 DEF StateSent
<1>4. \A c \in NodeIds(n) : Queue(order, line, c) = QueueSent(n, c, order, line)
  BY Zenon, <1>2 DEF QueueSent, Announcements
<1> HIDE DEF State, Queue
<1>5. /\ [c \in NodeIds(n) |-> State(order, line, c)]
           = [c \in NodeIds(n) |-> StateSent(n, c, order, line)]
      /\ [c \in NodeIds(n) |-> Queue(order, line, c)]
           = [c \in NodeIds(n) |-> QueueSent(n, c, order, line)]
  BY Zenon, <1>3, <1>4
<1>6. SendStep(n, order, line)
  BY Zenon, <1>1, <1>2, <1>5 DEF SendStep
<1> QED
  BY Zenon, <1>6

\* What is sent on c, and what it is sent with.
LEMMA SentFacts ==
  ASSUME Inv, NEW n \in Node, NEW c \in NodeIds(n), NEW line \in Orders,
         NEW order \in Listings({d \in NodeIds(n) : May(n, d) # {}}),
         nodeStates[n][c].nextSendSessionId + Len(NewSessions(n, c, order, line))
            <= MaxId + 1
  PROVE  LET new == NewSessions(n, c, order, line)
             ids == IdsOn(n, c, order, line)
             st == nodeStates[n][c]
         IN /\ new \in Seq(Session)
            /\ \A i, j \in 1 .. Len(new) : new[i] = new[j] => i = j
            /\ ids = SendIds(st, new)
            /\ ids \in [Session -> 0 .. MaxId]
            /\ \A keys \in {ToRequest(n, order)[c], ToSend(n, c), ToAnnounce(n, c)} :
                 Named(ids, keys)
<1> DEFINE new == NewSessions(n, c, order, line)
           ids == IdsOn(n, c, order, line)
           st == nodeStates[n][c]
           get == ToRequest(n, order)[c]
           all == get \cup ToSend(n, c) \cup ToAnnounce(n, c)
           S == {s \in SessionsIn(all) : st.sendSessionId[s] = 0}
<1>1. st \in GoodState /\ st \in NodeState
  BY DEF Inv, Typed, ManagerType, GoodState
<1>2. get \in SUBSET Key /\ ToSend(n, c) \in SUBSET Key /\ ToAnnounce(n, c) \in SUBSET Key
  <2>1. get \subseteq May(n, c)
    BY Zenon, AskedOnce
  <2>2. /\ May(n, c) \subseteq st.announced /\ Wanted(n, c) \subseteq st.requested
        /\ ToSend(n, c) \subseteq Wanted(n, c)
    BY Zenon DEF May, Wanted, ToSend
  <2>3. ToAnnounce(n, c) \subseteq sigSharesToAnnounce[n]
    BY Zenon DEF ToAnnounce
  <2>4. st.announced \subseteq Key /\ st.requested \subseteq Key
        /\ sigSharesToAnnounce[n] \subseteq Key
    BY Zenon, <1>1 DEF NodeState, Inv, Typed, ManagerType
  <2> QED
    BY Zenon, <2>1, <2>2, <2>3, <2>4
<1>3. S \in SUBSET Session
  <2> HIDE DEF get
  <2> QED
    BY <1>2 DEF SessionsIn, Key
<1>4. new = line[S]
  BY Zenon DEF NewSessions
<1> HIDE DEF S, new
<1>5. /\ new \in Seq(Session) /\ Len(new) \in Nat
      /\ \A i, j \in 1 .. Len(new) : new[i] = new[j] => i = j
      /\ \A x \in S : \E i \in 1 .. Len(new) : new[i] = x
  <2>1. /\ line[S] \in Seq(Session) /\ Len(line[S]) \in Nat
        /\ \A i, j \in 1 .. Len(line[S]) : line[S][i] = line[S][j] => i = j
        /\ \A x \in S : \E i \in 1 .. Len(line[S]) : line[S][i] = x
    BY Zenon, <1>3, LineFacts
  <2> QED
    BY <1>4, <2>1
<1>6. st.nextSendSessionId + Len(new) <= MaxId + 1
  BY Zenon DEF new
<1>7. ids = SendIds(st, new)
  BY Zenon DEF IdsOn, new
<1> HIDE DEF ids, st, get
<1>8. /\ ids \in [Session -> 0 .. MaxId]
      /\ \A i \in 1 .. Len(new) : ids[new[i]] = st.nextSendSessionId - 1 + i
      /\ \A s \in Session : (\A i \in 1 .. Len(new) : new[i] # s) =>
           ids[s] = st.sendSessionId[s]
  BY <1>1, <1>5, <1>6, <1>7, SendIdsFacts
<1>9. ASSUME NEW s \in SessionsIn(all) PROVE ids[s] # 0
  <2>1. s \in Session
    BY Zenon, <1>2 DEF SessionsIn, Key
  <2>2. CASE \E i \in 1 .. Len(new) : new[i] = s
    <3>1. st.nextSendSessionId \in Nat \ {0}
      BY <1>1, MemberAssumption DEF NodeState
    <3> QED
      BY <2>2, <3>1, <1>5, <1>8
  <2>3. CASE \A i \in 1 .. Len(new) : new[i] # s
    <3>1. s \notin S
      BY Zenon, <1>5, <2>3
    <3>2. st.sendSessionId[s] # 0
      BY Zenon, <1>9, <3>1 DEF S
    <3> QED
      BY Zenon, <1>8, <2>1, <2>3, <3>2
  <2> QED
    BY Zenon, <2>2, <2>3
<1>10. \A keys \in {get, ToSend(n, c), ToAnnounce(n, c)} :
         SessionsIn(keys) \subseteq SessionsIn(all)
  BY DEF SessionsIn
<1>11. \A keys \in {get, ToSend(n, c), ToAnnounce(n, c)} :
         Named(ids, keys)
  BY Zenon, <1>2, <1>8, <1>9, <1>10 DEF Named
<1> QED
  BY Zenon, <1>5, <1>7, <1>8, <1>11 DEF new, ids, st, get

\* What is asked of c after a round of SendMessages.
RequestsSent(n, c, order) ==
  IF nodeStates[n][c].banned THEN nodeStates[n][c].requestedSigShares
  ELSE (nodeStates[n][c].requestedSigShares \ expired[n]) \cup ToRequest(n, order)[c]

LEMMA StateSentGood ==
  ASSUME Inv, NEW n \in Node, NEW c \in NodeIds(n), NEW line \in Orders,
         NEW order \in Listings({d \in NodeIds(n) : May(n, d) # {}}),
         nodeStates[n][c].nextSendSessionId + Len(NewSessions(n, c, order, line))
            <= MaxId + 1
  PROVE  LET st == nodeStates[n][c]
             new == StateSent(n, c, order, line)
         IN /\ new \in GoodState
            /\ new.requestedSigShares = RequestsSent(n, c, order)
            /\ new.sessionByRecvId = st.sessionByRecvId
<1> DEFINE st == nodeStates[n][c]
           S == NewSessions(n, c, order, line)
           ids == IdsOn(n, c, order, line)
           get == ToRequest(n, order)[c]
           had == {k \in Keys(sigShares[n]) : ~Recovered(n, k[1])}
           A == st.announced \ (had \cup get)
           Q == (st.requestedSigShares \ expired[n]) \cup get
           R == st.requested \ Wanted(n, c)
           W == st.knows \cup ToAnnounce(n, c)
           nxt == st.nextSendSessionId + Len(S)
           new == [st EXCEPT !.announced = A, !.requestedSigShares = Q,
                             !.requested = R, !.knows = W, !.sendSessionId = ids,
                             !.nextSendSessionId = nxt]
<1>1. st \in GoodState /\ st \in NodeState
  BY DEF Inv, Typed, ManagerType, GoodState
<1>2. /\ S \in Seq(Session) /\ ids = SendIds(st, S)
      /\ \A i, j \in 1 .. Len(S) : S[i] = S[j] => i = j
      /\ get \in SUBSET Key /\ ToAnnounce(n, c) \in SUBSET Key
      /\ st.nextSendSessionId + Len(S) <= MaxId + 1
  BY Zenon, SentFacts DEF Named
<1>3. StateSent(n, c, order, line) = IF st.banned THEN st ELSE new
  BY Zenon DEF StateSent
<1> HIDE DEF st, S, ids, get
<1>4. /\ A \in SUBSET Key /\ Q \in SUBSET Key /\ R \in SUBSET Key /\ W \in SUBSET Key
  BY Zenon, <1>1, <1>2 DEF NodeState
<1>5. ids \in [Session -> 0 .. MaxId] /\ \A s \in Session : ids[s] < nxt
  BY Zenon, <1>1, <1>2, SendIdsFacts
<1>6. nxt \in 1 .. MaxId + 1
  BY <1>1, <1>2, MemberAssumption DEF NodeState
<1> HIDE DEF A, Q, R, W, nxt
<1>7. /\ new \in NodeState
      /\ new.sessionByRecvId = st.sessionByRecvId
      /\ new.recvSessionId = st.recvSessionId
      /\ new.sendSessionId = ids
      /\ new.nextSendSessionId = nxt
      /\ new.banned = st.banned
      /\ new.requestedSigShares = Q
  BY Zenon, <1>1, <1>4, <1>5, <1>6 DEF NodeState
<1> HIDE DEF new
<1>8. ~st.banned => new \in GoodState
  BY <1>1, <1>5, <1>7 DEF GoodState
<1>9. /\ StateSent(n, c, order, line) \in GoodState
      /\ StateSent(n, c, order, line).requestedSigShares
            = IF st.banned THEN st.requestedSigShares ELSE Q
      /\ StateSent(n, c, order, line).sessionByRecvId = st.sessionByRecvId
  BY Zenon, <1>1, <1>3, <1>7, <1>8
<1> QED
  BY Zenon, <1>9 DEF st, Q, get, RequestsSent

LEMMA AnnouncementsFacts ==
  ASSUME NEW st \in GoodState, NEW new \in Seq(Session),
         \A i, j \in 1 .. Len(new) : new[i] = new[j] => i = j,
         st.nextSendSessionId + Len(new) <= MaxId + 1,
         NEW anns, anns = Announcements(new, SendIds(st, new))
  PROVE  /\ anns \in Seq(Message) /\ Len(anns) = Len(new)
         /\ \A i \in 1 .. Len(new) : /\ anns[i].t = "ann" /\ anns[i].s = new[i]
                                     /\ anns[i].id = st.nextSendSessionId - 1 + i
<1> DEFINE ids == SendIds(st, new)
           Ann(i) == [t |-> "ann", s |-> new[i], id |-> ids[new[i]], of |-> {}]
<1>1. /\ DOMAIN new = 1 .. Len(new) /\ Len(new) \in Nat
      /\ \A i \in 1 .. Len(new) : new[i] \in Session
  OBVIOUS
<1>2. anns = [i \in 1 .. Len(new) |-> Ann(i)]
  BY Zenon, <1>1 DEF Announcements
<1>3. \A i \in 1 .. Len(new) : ids[new[i]] = st.nextSendSessionId - 1 + i
  BY Zenon, SendIdsFacts
<1>4. st.nextSendSessionId \in 1 .. MaxId + 1
  BY Zenon DEF GoodState, NodeState
<1>5. \A i \in 1 .. Len(new) : ids[new[i]] \in Id
  <2> HIDE DEF ids
  <2> QED
    BY <1>1, <1>3, <1>4, MemberAssumption DEF Id
<1> HIDE DEF ids
<1>6. \A i \in 1 .. Len(new) : /\ Ann(i) \in Message /\ Ann(i).t = "ann"
                               /\ Ann(i).s = new[i] /\ Ann(i).id = ids[new[i]]
  BY Zenon, <1>1, <1>5 DEF Message
<1> HIDE DEF Ann
<1>7. anns \in Seq(Message) /\ Len(anns) = Len(new)
      /\ \A i \in 1 .. Len(new) : anns[i] = Ann(i)
  BY <1>1, <1>2, <1>6
<1> QED
  BY Zenon, <1>3, <1>6, <1>7

LEMMA QueueSentType ==
  ASSUME Inv, NEW n \in Node, NEW c \in NodeIds(n), NEW line \in Orders,
         NEW order \in Listings({d \in NodeIds(n) : May(n, d) # {}}),
         nodeStates[n][c].nextSendSessionId + Len(NewSessions(n, c, order, line))
            <= MaxId + 1
  PROVE  QueueSent(n, c, order, line) \in Seq(Message)
<1> DEFINE st == nodeStates[n][c]
           new == NewSessions(n, c, order, line)
           ids == IdsOn(n, c, order, line)
           q == chan[n][c]
           a == Announcements(new, ids)
           g == Messages(n, "get", line, ids, ToRequest(n, order)[c])
           b == Messages(n, "batch", line, ids, ToSend(n, c))
           v == Messages(n, "inv", line, ids, ToAnnounce(n, c))
<1>1. QueueSent(n, c, order, line) = IF c \notin Conns(n) THEN q
                                     ELSE q \o a \o g \o b \o v
  BY Zenon DEF QueueSent
<1>2. q \in Seq(Message) /\ st \in GoodState
  BY Zenon DEF Inv, Typed, NetType, ManagerType
<1>3. /\ new \in Seq(Session) /\ ids = SendIds(st, new)
      /\ \A i, j \in 1 .. Len(new) : new[i] = new[j] => i = j
      /\ ids \in [Session -> 0 .. MaxId]
      /\ \A keys \in {ToRequest(n, order)[c], ToSend(n, c), ToAnnounce(n, c)} :
           Named(ids, keys)
      /\ st.nextSendSessionId + Len(new) <= MaxId + 1
  BY Zenon, SentFacts
<1>4. g \in Seq(Message) /\ b \in Seq(Message) /\ v \in Seq(Message)
  <2> HIDE DEF ids
  <2>1. "get" \in Later /\ "batch" \in Later /\ "inv" \in Later
    BY DEF Later
  <2>2. ASSUME NEW t \in Later, NEW keys, Named(ids, keys)
        PROVE  Messages(n, t, line, ids, keys) \in Seq(Message)
    BY Zenon, <2>2, MessagesFacts
  <2>3. /\ Named(ids, ToRequest(n, order)[c]) /\ Named(ids, ToSend(n, c))
        /\ Named(ids, ToAnnounce(n, c))
    BY Zenon, <1>3
  <2> QED
    BY Zenon, <2>1, <2>2, <2>3
<1> HIDE DEF st, new, ids, q, g, b, v
<1>5. a \in Seq(Message)
  BY Zenon, <1>2, <1>3, AnnouncementsFacts
<1> HIDE DEF a
<1> QED
  BY <1>1, <1>2, <1>4, <1>5

LEMMA SendMessagesInv ==
  ASSUME Inv, NEW n \in Node, SendMessages(n)
  PROVE  Inv'
<1>1. PICK order \in Listings({c \in NodeIds(n) : May(n, c) # {}}), line \in Orders :
        SendStep(n, order, line)
  BY Zenon, SendMessagesStep
<1> DEFINE get == ToRequest(n, order)
           asked == UNION {get[c] : c \in NodeIds(n)}
           sts == [c \in NodeIds(n) |-> StateSent(n, c, order, line)]
           qs == [c \in NodeIds(n) |-> QueueSent(n, c, order, line)]
           reqs == [k \in Key |-> IF k \in asked
                                  THEN CHOOSE c \in NodeIds(n) : k \in get[c]
                                  ELSE sigSharesRequested[n][k]]
<1>2. /\ nodeStates' = [nodeStates EXCEPT ![n] = sts]
      /\ sigSharesRequested' = [sigSharesRequested EXCEPT ![n] = reqs]
      /\ expired' = [expired EXCEPT ![n] = @ \ asked]
      /\ sigSharesToAnnounce' = [sigSharesToAnnounce EXCEPT ![n] = {}]
      /\ chan' = [chan EXCEPT ![n] = qs]
      /\ UNCHANGED <<sigShares, pendingSigns, batch, recVars, shouldBan,
                    retryDue, hasQuorum, linkVars, timeouts>>
  BY Zenon, <1>1 DEF SendStep
<1>3. \A c \in NodeIds(n) :
        nodeStates[n][c].nextSendSessionId + Len(NewSessions(n, c, order, line))
            <= MaxId + 1
  BY Zenon, <1>1 DEF SendStep
<1>4. sts \in [NodeIds(n) -> GoodState]
  BY Zenon, <1>3, StateSentGood
<1>5. qs \in [NodeIds(n) -> Seq(Message)]
  BY Zenon, <1>3, QueueSentType
<1>6. \A c \in NodeIds(n) : /\ get[c] \subseteq May(n, c)
                            /\ \A d \in NodeIds(n) : \A k \in get[c] : k \in get[d] => c = d
  BY Zenon, AskedOnce
<1>7. \A c \in NodeIds(n) : \A k \in get[c] : k \in Key /\ ~Recovered(n, k[1]) /\
        (sigSharesRequested[n][k] = None \/ k \in expired[n])
  <2> SUFFICES ASSUME NEW c \in NodeIds(n), NEW k \in May(n, c)
               PROVE  /\ k \in Key /\ ~Recovered(n, k[1])
                      /\ sigSharesRequested[n][k] = None \/ k \in expired[n]
    BY Zenon, <1>6
  <2>1. nodeStates[n][c] \in NodeState
    BY Zenon DEF Inv, Typed, ManagerType, GoodState
  <2>2. nodeStates[n][c].announced \subseteq Key
    BY <2>1 DEF NodeState
  <2> QED
    BY Zenon, <2>2 DEF May
<1> HIDE DEF get
<1>8. \A k \in Key : /\ k \in asked => \E c \in NodeIds(n) : reqs[k] = c /\ k \in get[c]
                     /\ k \notin asked => reqs[k] = sigSharesRequested[n][k]
  <2>1. ASSUME NEW k \in asked
        PROVE  \E c \in NodeIds(n) : (CHOOSE d \in NodeIds(n) : k \in get[d]) = c
                                     /\ k \in get[c]
    BY Zenon
  <2> QED
    BY Zenon, <2>1
<1>9. asked \subseteq Key
  BY Zenon, <1>7
<1>10. reqs \in [Key -> Conn \cup {None}]
  <2>1. \A c \in NodeIds(n) : c \in Conn
    BY Zenon DEF NodeIds
  <2>2. \A k \in Key : sigSharesRequested[n][k] \in Conn \cup {None}
    BY Zenon DEF Inv, Typed, ManagerType
  <2>3. \A k \in Key : reqs[k] \in Conn \cup {None}
    <3> HIDE DEF reqs, asked
    <3> QED
      BY Zenon, <1>8, <2>1, <2>2
  <2> QED
    BY Zenon, <2>3
<1>11. \A c \in NodeIds(n) : \A k \in sts[c].requestedSigShares : reqs[k] = c
  <2> SUFFICES ASSUME NEW c \in NodeIds(n), NEW k \in sts[c].requestedSigShares
               PROVE  reqs[k] = c
    BY Zenon
  <2> DEFINE st == nodeStates[n][c]
  <2>1. k \in RequestsSent(n, c, order)
    <3>1. sts[c] = StateSent(n, c, order, line)
      BY Zenon
    <3>2. StateSent(n, c, order, line).requestedSigShares = RequestsSent(n, c, order)
      BY Zenon, <1>3, StateSentGood
    <3> QED
      BY Zenon, <3>1, <3>2
  <2>2. st \in NodeState /\ (st.banned => st.requestedSigShares = {})
    BY Zenon DEF Inv, Typed, ManagerType, GoodState
  <2> HIDE DEF sts
  <2>3. ~st.banned
    BY Zenon, <2>1, <2>2 DEF RequestsSent
  <2>4. CASE k \in get[c]
    <3>1. k \in asked /\ k \in Key
      BY Zenon, <2>4, <1>7
    <3>2. PICK d \in NodeIds(n) : reqs[k] = d /\ k \in get[d]
      BY Zenon, <3>1, <1>8
    <3> QED
      BY Zenon, <3>2, <2>4, <1>6
  <2>5. CASE k \notin get[c]
    <3>1. k \in st.requestedSigShares /\ k \notin expired[n]
      BY Zenon, <2>1, <2>3, <2>5 DEF RequestsSent, get
    <3>2. k \in Key
      BY Zenon, <3>1, <2>2 DEF NodeState
    <3>3. sigSharesRequested[n][k] = c
      BY Zenon, <3>1 DEF Inv, RequestOwner
    <3>4. c # None
      <4>1. c \in Conn
        BY Zenon DEF NodeIds
      <4> QED
        BY <4>1, MemberAssumption
    <3>5. k \notin asked
      BY Zenon, <1>7, <3>1, <3>3, <3>4
    <3> QED
      BY Zenon, <1>8, <3>2, <3>3, <3>5
  <2> QED
    BY Zenon, <2>4, <2>5
<1>12. \A s \in Session : Recovered(n, s) => \A k \in Key : k[1] = s => reqs[k] = None
  <2> SUFFICES ASSUME NEW s \in Session, Recovered(n, s), NEW k \in Key, k[1] = s
               PROVE  reqs[k] = None
    BY Zenon
  <2>1. k \notin asked
    BY Zenon, <1>7
  <2> QED
    BY <1>8, <2>1 DEF Inv, DoneSessionsGone
<1> HIDE DEF sts, qs, reqs, asked
<1>13. UNCHANGED <<sigShares, recSig>>
  BY Zenon, <1>2 DEF recVars
<1>14. /\ DOMAIN nodeStates' = Node /\ nodeStates'[n] = sts
       /\ sigSharesRequested'[n] = reqs
       /\ \A p \in Node : p # n =>
            /\ nodeStates'[p] = nodeStates[p]
            /\ sigSharesRequested'[p] = sigSharesRequested[p]
  BY Zenon, <1>2 DEF Inv, Typed, ManagerType
<1>15. ManagerType'
  <2>1. \A p \in Node : nodeStates'[p] \in [NodeIds(p) -> GoodState]
    BY Zenon, <1>4, <1>14 DEF Inv, Typed, ManagerType
  <2>2. /\ sigShares' \in [Node -> SUBSET Share]
        /\ sigSharesToAnnounce' \in [Node -> SUBSET Key]
        /\ sigSharesRequested' \in [Node -> [Key -> Conn \cup {None}]]
        /\ expired' \in [Node -> SUBSET Key]
    BY Zenon, <1>2, <1>10, <1>13 DEF Inv, Typed, ManagerType
  <2> QED
    BY Zenon, <1>14, <2>1, <2>2 DEF ManagerType
<1>16. RequestOwner'
  <2> SUFFICES ASSUME NEW p \in Node, NEW c \in NodeIds(p),
                      NEW k \in nodeStates'[p][c].requestedSigShares
               PROVE  sigSharesRequested'[p][k] = c
    BY Zenon DEF RequestOwner
  <2>1. CASE p = n
    BY Zenon, <2>1, <1>11, <1>14
  <2>2. CASE p # n
    BY <2>2, <1>14 DEF Inv, RequestOwner
  <2> QED
    BY <2>1, <2>2
<1>17. SharesGenuine'
  BY Zenon, <1>13 DEF Inv, SharesGenuine
<1>18. DoneSessionsGone'
  <2> SUFFICES ASSUME NEW p \in Node, NEW s \in Session, Recovered(p, s)
               PROVE  /\ \A sh \in sigShares[p] : sh[1] # s
                      /\ \A k \in Key : k[1] = s => sigSharesRequested'[p][k] = None
    BY Zenon, <1>13 DEF DoneSessionsGone, Recovered
  <2>1. \A sh \in sigShares[p] : sh[1] # s
    BY Zenon DEF Inv, DoneSessionsGone
  <2>2. CASE p = n
    BY Zenon, <2>1, <2>2, <1>12, <1>14
  <2>3. CASE p # n
    BY <2>1, <2>3, <1>14 DEF Inv, DoneSessionsGone
  <2> QED
    BY <2>2, <2>3
<1>19. RecType'
  BY Zenon, <1>2, RecSame DEF Inv, Typed
<1>20. NetType'
  <2>1. /\ DOMAIN chan' = Node
        /\ \A p \in Node : chan'[p] \in [NodeIds(p) -> Seq(Message)]
    BY Zenon, <1>2, <1>5 DEF Inv, Typed, NetType
  <2> QED
    BY Zenon, <1>2, <2>1 DEF Inv, Typed, NetType, linkVars
<1>21. RestType'
  BY Zenon, <1>2 DEF Inv, Typed, RestType
<1> QED
  BY <1>15, <1>16, <1>17, <1>18, <1>19, <1>20, <1>21 DEF Inv, Typed
-----------------------------------------------------------------------------
LEMMA InitInv == Init => Inv
<1> SUFFICES ASSUME Init
             PROVE  Inv
  BY Zenon
<1>1. NewState.requestedSigShares = {}
  BY DEF NewState
<1>2. ManagerType
  BY Zenon, NewStateGood DEF Init, ManagerType
<1>3. RecType
  BY Zenon DEF Init, RecType
<1>4. NetType
  <2>1. /\ DOMAIN chan = Node
        /\ \A n \in Node : chan[n] \in [NodeIds(n) -> Seq(Message)]
    BY DEF Init
  <2>2. /\ up \in [Link -> BOOLEAN] /\ conn \in [Link -> 1 .. MaxConns]
        /\ \A l \in Link : up[l] \/ conn[l] < MaxConns
    BY MemberAssumption DEF Init
  <2> QED
    BY Zenon, <2>1, <2>2 DEF NetType
<1>5. RestType
  <2>1. timeouts \in 0 .. MaxTimeouts
    BY MemberAssumption DEF Init
  <2>2. hasQuorum \subseteq Node
    BY DEF Init
  <2> QED
    BY Zenon, <2>1, <2>2 DEF Init, RestType
<1>6. RequestOwner
  BY Zenon, <1>1 DEF Init, RequestOwner
<1>7. SharesGenuine
  BY DEF Init, SharesGenuine
<1>8. DoneSessionsGone
  BY Zenon DEF Init, DoneSessionsGone
<1> QED
  BY <1>2, <1>3, <1>4, <1>5, <1>6, <1>7, <1>8 DEF Inv, Typed

LEMMA ProgressInv == Inv /\ Progress => Inv'
<1> SUFFICES ASSUME Inv, Progress
             PROVE  Inv'
  OBVIOUS
<1>1. ASSUME NEW n \in Node, MessageThread(n) PROVE Inv'
  BY Zenon, <1>1, AddPendingInv, ProcessMessageInv DEF MessageThread
<1>2. ASSUME NEW n \in Node, WorkThread(n) PROVE Inv'
  <2>1. CASE ProcessPendingSigShares(n)
    BY Zenon, <2>1, ProcessPendingSigSharesInv
  <2>2. CASE SignPendingSigShares(n)
    BY Zenon, <2>2, SignPendingSigSharesInv
  <2>3. CASE \E c \in NodeIds(n) : ProcessPendingRecoveredSig(n, c)
    BY Zenon, <2>3, ProcessPendingRecoveredSigInv
  <2>4. CASE SendMessages(n)
    BY Zenon, <2>4, SendMessagesInv
  <2>5. CASE \E T \in SUBSET Session : Cleanup(n, T)
    BY Zenon, <2>5, CleanupInv
  <2>6. CASE RemoveBannedNodeStates(n)
    BY Zenon, <2>6, RemoveBannedNodeStatesInv
  <2> QED
    BY Zenon, <1>2, <2>1, <2>2, <2>3, <2>4, <2>5, <2>6 DEF WorkThread
<1>3. ASSUME NEW n \in Node, SignThread(n) PROVE Inv'
  BY Zenon, <1>3, AsyncSignIfMemberInv DEF SignThread
<1>4. ASSUME NEW n \in Node, NEW k \in Key, RequestTimeout(n, k) PROVE Inv'
  BY Zenon, <1>4, RequestTimeoutInv
<1>5. ASSUME NEW n \in Node, NewQuorum(n) PROVE Inv'
  BY Zenon, <1>5, NewQuorumInv
<1>6. ASSUME NEW l \in Link, Reconnect(l) PROVE Inv'
  BY Zenon, <1>6, ReconnectInv
<1> QED
  BY Zenon, <1>1, <1>2, <1>3, <1>4, <1>5, <1>6 DEF Progress

LEMMA NextInv == Inv /\ [Next]_vars => Inv'
<1> SUFFICES ASSUME Inv, [Next]_vars
             PROVE  Inv'
  OBVIOUS
<1>1. CASE Progress
  BY Zenon, <1>1, ProgressInv
<1>2. ASSUME NEW n \in Node, Restart(n) PROVE Inv'
  BY Zenon, <1>2, RestartInv
<1>3. ASSUME NEW l \in Link, Disconnect(l) PROVE Inv'
  BY Zenon, <1>3, DisconnectInv
<1>4. CASE UNCHANGED vars
  <2>1. UNCHANGED <<nodeStates, sigShares, sigSharesToAnnounce, sigSharesRequested,
                    expired, recSig>>
    BY Zenon, <1>4 DEF vars, managerVars, recVars
  <2>2. ManagerType'
    BY Zenon, <2>1 DEF Inv, Typed, ManagerType
  <2>3. RecType' /\ NetType'
    BY Zenon, <1>4, RecSame, NetSame DEF Inv, Typed, vars
  <2>4. RestType'
    BY Zenon, <1>4 DEF Inv, Typed, RestType, vars
  <2>5. RequestOwner' /\ SharesGenuine' /\ DoneSessionsGone'
    BY Zenon, <2>1 DEF Inv, RequestOwner, SharesGenuine, DoneSessionsGone, Recovered
  <2> QED
    BY <2>2, <2>3, <2>4, <2>5 DEF Inv, Typed
<1> QED
  BY Zenon, <1>1, <1>2, <1>3, <1>4 DEF Next

LEMMA SpecInv == Spec => []Inv
BY InitInv, NextInv, PTL DEF Spec

\* The whole state stays well-formed, for any quorum, links and faults; the
\* counters of session ids never give out 0.
THEOREM TypeCorrect == Spec => []TypeOK
<1>1. Inv => TypeOK
  BY TypedTypeOK DEF Inv
<1> QED
  BY <1>1, SpecInv, PTL

\* A pointer in sessionByRecvId always points to a session that exists and has
\* this id: ProcessMessageSigSesAnn and RemoveSession leave none dangling.
THEOREM NoDanglingSession == Spec => []RecvIdsLive
<1>1. Inv => RecvIdsLive
  BY TypedTypeOK DEF Inv
<1> QED
  BY <1>1, SpecInv, PTL

\* A request in a node's record is the one that the share's record names, so
\* that BanNode and the clean-ups only ever release the node's own requests.
THEOREM RequestsReleasedByOwner == Spec => []RequestOwner
<1>1. Inv => RequestOwner
  BY DEF Inv
<1> QED
  BY <1>1, SpecInv, PTL

\* Of the shares that a node has, only a broken member's own does not verify,
\* and a member that is not broken never has a wrong recovered signature.
THEOREM OnlyGenuineShares == Spec => []SharesGenuine
<1>1. Inv => SharesGenuine
  BY DEF Inv
<1> QED
  BY <1>1, SpecInv, PTL

\* A session that has its recovered signature never comes back: no share of it
\* is stored and none is asked for, whatever was on its way.
THEOREM DoneStaysDone == Spec => []DoneSessionsGone
<1>1. Inv => DoneSessionsGone
  BY DEF Inv
<1> QED
  BY <1>1, SpecInv, PTL
-----------------------------------------------------------------------------
(***************************************************************************)
(* SendMessages.                                                           *)
(***************************************************************************)
LEMMA MessagesGenuine ==
  ASSUME SharesGenuine, NEW n \in Node, NEW t, NEW line, NEW ids, NEW keys
  PROVE  QueueGenuine(n, Messages(n, t, line, ids, keys))
<1> DEFINE ss == line[SessionsIn(keys)]
           Of(s) == IF t = "batch"
                    THEN {e \in Node \X Kind : /\ <<s, e[1]>> \in keys
                                               /\ <<s, e[1], e[2]>> \in sigShares[n]}
                    ELSE {p \in Node : <<s, p>> \in keys}
           ms == [i \in DOMAIN ss |->
                   [t |-> t, id |-> ids[ss[i]], s |-> ss[i], of |-> Of(ss[i])]]
<1>1. Messages(n, t, line, ids, keys) = ms
  BY Zenon DEF Messages
<1>2. ASSUME NEW s, t = "batch", NEW e \in Of(s), e[2] = "bad"
      PROVE  n \in Broken
  <2> DEFINE sh == <<s, e[1], e[2]>>
  <2>1. sh \in sigShares[n]
    BY Zenon, <1>2
  <2>2. sh[3] = "bad"
    BY <1>2
  <2>3. sh[3] = "valid" \/ n \in Broken
    <3> HIDE DEF sh
    <3> QED
      BY Zenon, <2>1 DEF SharesGenuine
  <2> QED
    BY <2>2, <2>3
<1> HIDE DEF ss, Of
<1>3. \A j \in DOMAIN ms : ms[j].t = t /\ ms[j].of = Of(ss[j])
  BY Zenon
<1> HIDE DEF ms
<1>4. QueueGenuine(n, ms)
  BY Zenon, <1>2, <1>3 DEF QueueGenuine
<1> QED
  BY Zenon, <1>1, <1>4

LEMMA AnnouncementsGenuine ==
  ASSUME NEW n, NEW new, NEW ids
  PROVE  QueueGenuine(n, Announcements(new, ids))
<1> DEFINE as == Announcements(new, ids)
<1>1. \A j \in DOMAIN as : as[j].t = "ann"
  BY Zenon DEF Announcements
<1> HIDE DEF as
<1>2. QueueGenuine(n, as)
  BY <1>1 DEF QueueGenuine
<1> QED
  BY Zenon, <1>2 DEF as

LEMMA JoinedGenuine ==
  ASSUME NEW n, NEW q \in Seq(Message), NEW r \in Seq(Message),
         QueueGenuine(n, q), QueueGenuine(n, r)
  PROVE  QueueGenuine(n, q \o r) /\ q \o r \in Seq(Message)
<1> DEFINE t == q \o r
<1>1. Joined(t, q, r)
  BY Zenon, ConcatAt
<1> HIDE DEF t
<1>2. /\ t \in Seq(Message) /\ DOMAIN t = 1 .. Len(t)
      /\ DOMAIN q = 1 .. Len(q) /\ DOMAIN r = 1 .. Len(r)
      /\ \A k \in 1 .. Len(t) : \/ k \in 1 .. Len(q) /\ t[k] = q[k]
                                \/ k - Len(q) \in 1 .. Len(r) /\ t[k] = r[k - Len(q)]
  BY <1>1 DEF Joined
<1>3. QueueGenuine(n, t)
  BY Zenon, <1>2 DEF QueueGenuine
<1> QED
  BY Zenon, <1>2, <1>3 DEF t

\* Messages of ms that are not announcements, under the ids of their sessions.
Addressed(ms, ids) ==
  /\ ms \in Seq(Message)
  /\ \A i \in 1 .. Len(ms) : /\ ms[i].t # "ann" /\ ms[i].id = ids[ms[i].s]
                             /\ ids[ms[i].s] # 0

LEMMA MessagesAddressed ==
  ASSUME NEW n, NEW t \in Later, NEW line \in Orders,
         NEW ids, NEW keys, Named(ids, keys)
  PROVE  Addressed(Messages(n, t, line, ids, keys), ids)
<1> DEFINE ms == Messages(n, t, line, ids, keys)
<1> HIDE DEF ms
<1>1. ms = Messages(n, t, line, ids, keys)
  BY Zenon DEF ms
<1>2. /\ ms \in Seq(Message)
      /\ \A i \in 1 .. Len(ms) : /\ ms[i].t = t /\ ms[i].id = ids[ms[i].s]
                                 /\ ms[i].s \in SessionsIn(keys)
  BY <1>1, MessagesFacts
<1>3. t # "ann"
  BY DEF Later
<1>4. \A s \in SessionsIn(keys) : ids[s] # 0
  BY Zenon DEF Named
<1>5. Addressed(ms, ids)
  BY Zenon, <1>2, <1>3, <1>4 DEF Addressed
<1> QED
  BY Zenon, <1>1, <1>5

LEMMA AddressedUnderstood ==
  ASSUME NEW q \in Seq(Message), NEW ms, NEW map, NEW ids, Understood(q, map, ids),
         Addressed(ms, ids)
  PROVE  Understood(q \o ms, map, ids)
BY Zenon, UnderstoodMessages DEF Addressed

\* The announcements of the sessions `new`, with the ids that they get.
LEMMA NewUnderstood ==
  ASSUME NEW q \in Seq(Message), NEW st \in GoodState, NEW map,
         Understood(q, map, st.sendSessionId), NEW new \in Seq(Session),
         \A i, j \in 1 .. Len(new) : new[i] = new[j] => i = j,
         st.nextSendSessionId + Len(new) <= MaxId + 1
  PROVE  Understood(q \o Announcements(new, SendIds(st, new)), map, SendIds(st, new))
<1> DEFINE ids == SendIds(st, new)
           a == Announcements(new, ids)
           t == q \o a
<1>1. a = Announcements(new, SendIds(st, new)) /\ t = q \o a
  OBVIOUS
<1>2. /\ \A i \in 1 .. Len(new) : ids[new[i]] = st.nextSendSessionId - 1 + i
      /\ \A s \in Session : (\A i \in 1 .. Len(new) : new[i] # s) =>
           ids[s] = st.sendSessionId[s]
  BY Zenon, SendIdsFacts
<1> HIDE DEF a, t
<1>3. /\ a \in Seq(Message) /\ Len(a) = Len(new)
      /\ \A i \in 1 .. Len(new) : /\ a[i].t = "ann" /\ a[i].s = new[i]
                                  /\ a[i].id = st.nextSendSessionId - 1 + i
  BY <1>1, AnnouncementsFacts
<1> HIDE DEF ids
<1>4. Understood(t, map, ids)
  BY Zenon, <1>1, <1>2, <1>3, UnderstoodAnnouncements
<1> QED
  BY Zenon, <1>4 DEF t, a, ids

\* The bound on session ids, which SendMessages meets for every connection.
Room(n, c, order, line) ==
  nodeStates[n][c].nextSendSessionId + Len(NewSessions(n, c, order, line)) <= MaxId + 1

\* What a round adds to a queue is understood, and genuine.
LEMMA QueueSentUnderstood ==
  ASSUME Inv, NEW n \in Node, NEW c \in NodeIds(n), NEW line \in Orders,
         NEW order \in Listings({d \in NodeIds(n) : May(n, d) # {}}),
         Room(n, c, order, line), NEW map,
         c \in Conns(n) =>
           Understood(chan[n][c], map, nodeStates[n][c].sendSessionId),
         QueueGenuine(n, chan[n][c])
  PROVE  /\ c \in Conns(n) =>
              Understood(QueueSent(n, c, order, line), map, IdsOn(n, c, order, line))
         /\ QueueGenuine(n, QueueSent(n, c, order, line))
<1> DEFINE st == nodeStates[n][c]
           new == NewSessions(n, c, order, line)
           ids == IdsOn(n, c, order, line)
           q == chan[n][c]
           a == Announcements(new, ids)
           g == Messages(n, "get", line, ids, ToRequest(n, order)[c])
           b == Messages(n, "batch", line, ids, ToSend(n, c))
           v == Messages(n, "inv", line, ids, ToAnnounce(n, c))
<1>1. QueueSent(n, c, order, line) = IF c \notin Conns(n) THEN q
                                     ELSE q \o a \o g \o b \o v
  BY Zenon DEF QueueSent
<1>2. q \in Seq(Message) /\ st \in GoodState
  BY Zenon DEF Inv, Typed, NetType, ManagerType
<1>3. /\ new \in Seq(Session) /\ ids = SendIds(st, new)
      /\ \A i, j \in 1 .. Len(new) : new[i] = new[j] => i = j
      /\ ids \in [Session -> 0 .. MaxId]
      /\ \A keys \in {ToRequest(n, order)[c], ToSend(n, c), ToAnnounce(n, c)} :
           Named(ids, keys)
      /\ st.nextSendSessionId + Len(new) <= MaxId + 1
  BY Zenon, SentFacts DEF Room
<1>4. Addressed(g, ids) /\ Addressed(b, ids) /\ Addressed(v, ids)
  <2> HIDE DEF ids
  <2>1. "get" \in Later /\ "batch" \in Later /\ "inv" \in Later
    BY DEF Later
  <2>2. /\ Named(ids, ToRequest(n, order)[c]) /\ Named(ids, ToSend(n, c))
        /\ Named(ids, ToAnnounce(n, c))
    BY Zenon, <1>3
  <2> QED
    BY Zenon, <2>1, <2>2, MessagesAddressed
<1>5. QueueGenuine(n, g) /\ QueueGenuine(n, b) /\ QueueGenuine(n, v) /\ QueueGenuine(n, a)
  BY Zenon, MessagesGenuine, AnnouncementsGenuine DEF Inv
<1> HIDE DEF st, new, ids, q, g, b, v
<1>6. a \in Seq(Message)
  BY Zenon, <1>2, <1>3, AnnouncementsFacts
<1>7. Understood(q, map, st.sendSessionId) => Understood(q \o a, map, ids)
  BY Zenon, <1>2, <1>3, NewUnderstood
<1> HIDE DEF a
<1> DEFINE q1 == q \o a
           q2 == q1 \o g
           q3 == q2 \o b
           q4 == q3 \o v
<1>8. g \in Seq(Message) /\ b \in Seq(Message) /\ v \in Seq(Message)
  BY Zenon, <1>4 DEF Addressed
<1>9. QueueGenuine(n, q1) /\ q1 \in Seq(Message)
  BY Zenon, <1>2, <1>5, <1>6, JoinedGenuine DEF q
<1> HIDE DEF q1
<1>10. QueueGenuine(n, q2) /\ q2 \in Seq(Message)
  BY Zenon, <1>5, <1>8, <1>9, JoinedGenuine
<1> HIDE DEF q2
<1>11. QueueGenuine(n, q3) /\ q3 \in Seq(Message)
  BY Zenon, <1>5, <1>8, <1>10, JoinedGenuine
<1> HIDE DEF q3
<1>12. QueueGenuine(n, q4)
  BY Zenon, <1>5, <1>8, <1>11, JoinedGenuine
<1>13. ASSUME c \in Conns(n) PROVE Understood(q4, map, ids)
  <2>1. Understood(q, map, st.sendSessionId)
    BY Zenon, <1>13 DEF q, st
  <2>2. Understood(q1, map, ids)
    BY Zenon, <1>7, <2>1 DEF q1
  <2>3. Understood(q2, map, ids)
    BY Zenon, <1>4, <1>9, <2>2, AddressedUnderstood DEF q2
  <2>4. Understood(q3, map, ids)
    BY Zenon, <1>4, <1>10, <2>3, AddressedUnderstood DEF q3
  <2> QED
    BY Zenon, <1>4, <1>11, <2>4, AddressedUnderstood
<1>14. QueueSent(n, c, order, line) = IF c \notin Conns(n) THEN q ELSE q4
  BY Zenon, <1>1 DEF q1, q2, q3
<1> HIDE DEF q4
<1> QED
  BY Zenon, <1>12, <1>13, <1>14 DEF q, ids

\* A connection over which there is nothing to send gets no new id.
LEMMA NothingSent ==
  ASSUME Inv, NEW n \in Node, NEW c \in NodeIds(n), NEW line \in Orders,
         NEW order \in Listings({d \in NodeIds(n) : May(n, d) # {}}),
         Room(n, c, order, line), ToRequest(n, order)[c] = {}, ToSend(n, c) = {},
         ToAnnounce(n, c) = {}
  PROVE  \A s \in Session : IdsOn(n, c, order, line)[s] = nodeStates[n][c].sendSessionId[s]
<1> DEFINE st == nodeStates[n][c]
           new == NewSessions(n, c, order, line)
           S == {s \in SessionsIn(ToRequest(n, order)[c] \cup ToSend(n, c)
                                    \cup ToAnnounce(n, c)) : st.sendSessionId[s] = 0}
<1>1. new = line[S]
  BY Zenon DEF NewSessions
<1>2. S = {}
  BY DEF SessionsIn
<1> HIDE DEF S, st, new
<1>3. /\ line[S] \in Seq(Session)
      /\ \A i \in 1 .. Len(line[S]) : line[S][i] \in S
      /\ \A i, j \in 1 .. Len(line[S]) : line[S][i] = line[S][j] => i = j
  <2>1. S \in SUBSET Session
    BY Zenon, <1>2
  <2> QED
    BY Zenon, <2>1, LineFacts
<1>4. /\ new \in Seq(Session) /\ \A i \in 1 .. Len(new) : FALSE
      /\ \A i, j \in 1 .. Len(new) : new[i] = new[j] => i = j
  BY Zenon, <1>1, <1>2, <1>3
<1>5. st \in GoodState /\ st.nextSendSessionId + Len(new) <= MaxId + 1
  BY Zenon DEF Inv, Typed, ManagerType, Room, st, new
<1>6. \A s \in Session : (\A i \in 1 .. Len(new) : new[i] # s) =>
        SendIds(st, new)[s] = st.sendSessionId[s]
  BY Zenon, <1>4, <1>5, SendIdsFacts
<1>7. IdsOn(n, c, order, line) = SendIds(st, new)
  BY Zenon DEF IdsOn, st, new
<1> QED
  BY Zenon, <1>4, <1>6, <1>7 DEF st

\* What a round does to the state of c.
LEMMA StateSentParts ==
  ASSUME Inv, NEW n \in Node, NEW c \in NodeIds(n), NEW line \in Orders,
         NEW order \in Listings({d \in NodeIds(n) : May(n, d) # {}}),
         Room(n, c, order, line)
  PROVE  LET st == nodeStates[n][c]
             new == StateSent(n, c, order, line)
         IN /\ \A s \in Session :
                 new.sendSessionId[s] = IdsOn(n, c, order, line)[s]
            /\ new.announced \subseteq st.announced /\ new.requested \subseteq st.requested
            /\ new.pendingIncomingSigShares = st.pendingIncomingSigShares
            /\ new.sessionByRecvId = st.sessionByRecvId
<1> DEFINE st == nodeStates[n][c]
           ids == IdsOn(n, c, order, line)
           get == ToRequest(n, order)[c]
           had == {k \in Keys(sigShares[n]) : ~Recovered(n, k[1])}
           A == st.announced \ (had \cup get)
           Q == (st.requestedSigShares \ expired[n]) \cup get
           R == st.requested \ Wanted(n, c)
           W == st.knows \cup ToAnnounce(n, c)
           nxt == st.nextSendSessionId + Len(NewSessions(n, c, order, line))
           new == [st EXCEPT !.announced = A, !.requestedSigShares = Q,
                             !.requested = R, !.knows = W, !.sendSessionId = ids,
                             !.nextSendSessionId = nxt]
<1>1. st \in NodeState
  BY DEF Inv, Typed, ManagerType, GoodState
<1>2. StateSent(n, c, order, line) = IF st.banned THEN st ELSE new
  BY Zenon DEF StateSent
<1>3. st.banned => \A s \in Session : ids[s] = st.sendSessionId[s]
  <2> SUFFICES ASSUME st.banned
               PROVE  \A s \in Session : ids[s] = st.sendSessionId[s]
    BY Zenon
  <2>1. May(n, c) = {} /\ ToSend(n, c) = {} /\ ToAnnounce(n, c) = {}
    BY Zenon DEF May, ToSend, Wanted, ToAnnounce
  <2>2. ToRequest(n, order)[c] = {}
    BY Zenon, <2>1, AskedOnce
  <2> QED
    BY Zenon, <2>1, <2>2, NothingSent
<1> HIDE DEF st, ids, Q, W, nxt
<1>4. A \subseteq st.announced /\ R \subseteq st.requested
  BY Zenon
<1> HIDE DEF A, R
<1>5. /\ new.sendSessionId = ids /\ new.announced = A /\ new.requested = R
      /\ new.pendingIncomingSigShares = st.pendingIncomingSigShares
      /\ new.sessionByRecvId = st.sessionByRecvId
  BY Zenon, <1>1 DEF NodeState
<1> HIDE DEF new
<1> DEFINE t == StateSent(n, c, order, line)
<1>6. CASE st.banned
  <2>1. t = st
    BY Zenon, <1>2, <1>6
  <2> HIDE DEF t
  <2>2. /\ \A s \in Session : t.sendSessionId[s] = ids[s]
        /\ t.announced \subseteq st.announced /\ t.requested \subseteq st.requested
        /\ t.pendingIncomingSigShares = st.pendingIncomingSigShares
        /\ t.sessionByRecvId = st.sessionByRecvId
    BY Zenon, <1>3, <1>6, <2>1
  <2> QED
    BY Zenon, <2>2 DEF t, st, ids
<1>7. CASE ~st.banned
  <2>1. t = new
    BY Zenon, <1>2, <1>7
  <2> HIDE DEF t
  <2>2. /\ \A s \in Session : t.sendSessionId[s] = ids[s]
        /\ t.announced \subseteq st.announced /\ t.requested \subseteq st.requested
        /\ t.pendingIncomingSigShares = st.pendingIncomingSigShares
        /\ t.sessionByRecvId = st.sessionByRecvId
    BY Zenon, <1>4, <1>5, <2>1
  <2> QED
    BY Zenon, <2>2 DEF t, st, ids
<1> QED
  BY Zenon, <1>6, <1>7

\* A connection that was never up stays unused.
LEMMA UnusedStays ==
  ASSUME Inv, NEW n \in Node, NEW c \in NodeIds(n), NEW line \in Orders,
         NEW order \in Listings({d \in NodeIds(n) : May(n, d) # {}}),
         Room(n, c, order, line), c \notin Conns(n), Unused(nodeStates[n][c])
  PROVE  /\ Unused(StateSent(n, c, order, line))
         /\ QueueSent(n, c, order, line) = chan[n][c]
<1> DEFINE st == nodeStates[n][c]
           t == StateSent(n, c, order, line)
<1>1. /\ st.announced = {} /\ st.requested = {}
      /\ \A s \in Session : st.sendSessionId[s] = 0
  BY Zenon DEF Unused
<1>2. May(n, c) = {} /\ ToSend(n, c) = {} /\ ToAnnounce(n, c) = {}
  BY Zenon, <1>1 DEF May, ToSend, Wanted, ToAnnounce
<1>3. ToRequest(n, order)[c] = {}
  BY Zenon, <1>2, AskedOnce
<1>4. \A s \in Session : IdsOn(n, c, order, line)[s] = st.sendSessionId[s]
  BY Zenon, <1>2, <1>3, NothingSent
<1>5. /\ \A s \in Session : t.sendSessionId[s] = IdsOn(n, c, order, line)[s]
      /\ t.announced \subseteq st.announced /\ t.requested \subseteq st.requested
  BY Zenon, StateSentParts
<1> HIDE DEF t
<1>6. Unused(t)
  BY Zenon, <1>1, <1>4, <1>5 DEF Unused
<1> QED
  BY Zenon, <1>6 DEF t, QueueSent

LEMMA SendMessagesCalm ==
  ASSUME Inv, Inv', MInv, BInv, NEW n \in Node, SendMessages(n)
  PROVE  MInv' /\ BInv'
<1>1. PICK order \in Listings({c \in NodeIds(n) : May(n, c) # {}}), line \in Orders :
        SendStep(n, order, line)
  BY Zenon, SendMessagesStep
<1>2. /\ nodeStates' = [nodeStates EXCEPT ![n] =
           [c \in NodeIds(n) |-> StateSent(n, c, order, line)]]
      /\ chan' = [chan EXCEPT ![n] =
           [c \in NodeIds(n) |-> QueueSent(n, c, order, line)]]
      /\ UNCHANGED <<batch, recVars, shouldBan, hasQuorum, linkVars>>
      /\ \A c \in NodeIds(n) : Room(n, c, order, line)
  BY Zenon, <1>1 DEF SendStep, Room
<1>3. ManagerType /\ NetType /\ NetType'
  BY Zenon DEF Inv, Typed
<1>4. /\ DOMAIN nodeStates = Node /\ DOMAIN chan = Node
      /\ \A x \in Node : \A c \in NodeIds(x) : chan'[x][c] \in Seq(Message)
  BY Zenon, <1>3 DEF ManagerType, NetType
<1>5. \A x \in Node \ {n} : nodeStates'[x] = nodeStates[x] /\ chan'[x] = chan[x]
  BY Zenon, <1>2, <1>4
<1>6. \A c \in NodeIds(n) : /\ nodeStates'[n][c] = StateSent(n, c, order, line)
                            /\ chan'[n][c] = QueueSent(n, c, order, line)
  BY Zenon, <1>2, <1>4
<1>7. UNCHANGED <<up, conn>> /\ \A x \in Node : Conns(x)' = Conns(x)
  BY Zenon, <1>2 DEF linkVars, Conns, Peers
<1>8. \A c \in NodeIds(n) :
        /\ \A s \in Session :
             nodeStates'[n][c].sendSessionId[s] = IdsOn(n, c, order, line)[s]
        /\ nodeStates'[n][c].pendingIncomingSigShares
             = nodeStates[n][c].pendingIncomingSigShares
        /\ nodeStates'[n][c].sessionByRecvId = nodeStates[n][c].sessionByRecvId
  <2> SUFFICES ASSUME NEW c \in NodeIds(n)
               PROVE  /\ \A s \in Session :
                           nodeStates'[n][c].sendSessionId[s] = IdsOn(n, c, order, line)[s]
                      /\ nodeStates'[n][c].pendingIncomingSigShares
                           = nodeStates[n][c].pendingIncomingSigShares
                      /\ nodeStates'[n][c].sessionByRecvId
                           = nodeStates[n][c].sessionByRecvId
    BY Zenon
  <2> DEFINE t == StateSent(n, c, order, line)
  <2>1. Room(n, c, order, line)
    BY Zenon, <1>2
  <2>2. /\ \A s \in Session : t.sendSessionId[s] = IdsOn(n, c, order, line)[s]
        /\ t.pendingIncomingSigShares = nodeStates[n][c].pendingIncomingSigShares
        /\ t.sessionByRecvId = nodeStates[n][c].sessionByRecvId
    BY Zenon, <2>1, StateSentParts
  <2>3. nodeStates'[n][c] = t
    BY Zenon, <1>6
  <2> HIDE DEF t
  <2> QED
    BY Zenon, <2>2, <2>3
<1>9. \A x \in Node : \A c \in NodeIds(x) :
        /\ nodeStates'[x][c].pendingIncomingSigShares
             = nodeStates[x][c].pendingIncomingSigShares
        /\ nodeStates'[x][c].sessionByRecvId = nodeStates[x][c].sessionByRecvId
  BY Zenon, <1>5, <1>8
<1>10. ASSUME NEW c \in NodeIds(n)
       PROVE  /\ c \in Conns(n) =>
                   Understood(chan'[n][c], nodeStates'[c[1]][<<n, c[2]>>].sessionByRecvId,
                              IdsOn(n, c, order, line))
              /\ QueueGenuine(n, chan'[n][c])
  <2> DEFINE map == nodeStates[c[1]][<<n, c[2]>>].sessionByRecvId
  <2>1. /\ c \in Conns(n) => Understood(chan[n][c], map, nodeStates[n][c].sendSessionId)
        /\ QueueGenuine(n, chan[n][c])
    BY Zenon DEF MInv, AllUnderstood, BInv, QueuesGenuine
  <2>2. nodeStates'[c[1]][<<n, c[2]>>].sessionByRecvId = map
    BY Zenon, <1>9, OtherEnd
  <2> HIDE DEF map
  <2>3. /\ c \in Conns(n) =>
             Understood(QueueSent(n, c, order, line), map, IdsOn(n, c, order, line))
        /\ QueueGenuine(n, QueueSent(n, c, order, line))
    BY Zenon, <1>2, <2>1, QueueSentUnderstood
  <2> QED
    BY Zenon, <1>6, <2>2, <2>3
<1>11. AllUnderstood'
  <2> SUFFICES ASSUME NEW x \in Node, NEW c \in Conns(x)
               PROVE  Understood(chan'[x][c],
                        nodeStates'[c[1]][<<x, c[2]>>].sessionByRecvId,
                        nodeStates'[x][c].sendSessionId)
    BY Zenon, <1>7 DEF AllUnderstood
  <2>1. c \in NodeIds(x)
    BY Zenon, <1>3, ConnsNow
  <2>2. CASE x # n
    <3>1. nodeStates'[c[1]][<<x, c[2]>>].sessionByRecvId
            = nodeStates[c[1]][<<x, c[2]>>].sessionByRecvId
      BY Zenon, <1>9, <2>1, OtherEnd
    <3>2. nodeStates'[x][c].sendSessionId = nodeStates[x][c].sendSessionId
          /\ chan'[x][c] = chan[x][c]
      BY Zenon, <1>5, <2>2
    <3> QED
      BY Zenon, <3>1, <3>2 DEF MInv, AllUnderstood
  <2>3. CASE x = n
    <3> DEFINE map == nodeStates'[c[1]][<<n, c[2]>>].sessionByRecvId
               ids == IdsOn(n, c, order, line)
               kept == nodeStates'[n][c].sendSessionId
               q == chan'[n][c]
    <3>1. Understood(q, map, ids)
      BY Zenon, <1>10, <2>1, <2>3
    <3>2. q \in Seq(Message) /\ \A s \in Session : kept[s] = ids[s]
      BY Zenon, <1>4, <1>8, <2>1, <2>3
    <3>3. ids \in [Session -> 0 .. MaxId]
      BY Zenon, <1>2, <2>1, <2>3, SentFacts DEF Room
    <3> HIDE DEF map, ids, kept, q
    <3>4. /\ \A i \in Id : map[i] \in {None, map[i]}
          /\ \A s \in Session : kept[s] \in {0, ids[s]}
      BY Zenon, <3>2
    <3>5. Understood(q, map, kept)
      BY Zenon, <3>1, <3>2, <3>3, <3>4, UnderstoodForgets
    <3> QED
      BY Zenon, <2>3, <3>5 DEF map, kept, q
  <2> QED
    BY Zenon, <2>2, <2>3
<1>12. FutureUnused'
  <2> SUFFICES ASSUME NEW x \in Node, NEW c \in NodeIds(x), c[2] > conn[{x, c[1]}]
               PROVE  Unused(nodeStates'[x][c]) /\ chan'[x][c] = <<>>
    BY Zenon, <1>7 DEF FutureUnused, Unused
  <2>1. Unused(nodeStates[x][c]) /\ chan[x][c] = <<>>
    BY Zenon DEF MInv, FutureUnused
  <2>2. c[2] # conn[{x, c[1]}]
    <3>1. {x, c[1]} \in Link
      BY Zenon, OtherEnd
    <3>2. conn[{x, c[1]}] \in Int
      BY <1>3, <3>1 DEF NetType
    <3> QED
      BY <3>2
  <2>3. c \notin Conns(x)
    BY Zenon, <1>3, <2>2, ConnsNow
  <2>4. CASE x = n
    <3>1. c \in NodeIds(n) /\ Room(n, c, order, line) /\ c \notin Conns(n)
          /\ Unused(nodeStates[n][c])
      BY Zenon, <1>2, <2>1, <2>3, <2>4
    <3>2. /\ Unused(StateSent(n, c, order, line))
          /\ QueueSent(n, c, order, line) = chan[n][c]
      BY Zenon, <3>1, UnusedStays
    <3> QED
      BY Zenon, <1>6, <2>1, <2>4, <3>1, <3>2
  <2> QED
    BY Zenon, <1>5, <2>1, <2>4
<1>13. NoMeaning'
  <2>1. hasQuorum' = hasQuorum
    BY Zenon, <1>2
  <2> SUFFICES ASSUME NEW x \in Node \ hasQuorum, NEW c \in NodeIds(x), NEW i \in Id
               PROVE  nodeStates'[x][c].sessionByRecvId[i] = None
    BY Zenon, <2>1 DEF NoMeaning
  <2>2. nodeStates'[x][c].sessionByRecvId = nodeStates[x][c].sessionByRecvId
    BY Zenon, <1>9
  <2>3. nodeStates[x][c].sessionByRecvId[i] = None
    BY Zenon DEF MInv, NoMeaning
  <2> QED
    BY Zenon, <2>2, <2>3
<1>14. PendingGenuine' /\ BatchGenuine'
  BY Zenon, <1>2, <1>9 DEF BInv, PendingGenuine, BatchGenuine
<1>15. QueuesGenuine'
  <2> SUFFICES ASSUME NEW x \in Node, NEW c \in NodeIds(x)
               PROVE  QueueGenuine(x, chan'[x][c])
    BY Zenon DEF QueuesGenuine, QueueGenuine
  <2> QED
    BY Zenon, <1>5, <1>10 DEF BInv, QueuesGenuine
<1>16. SigsGenuine' /\ OnlyBrokenBanned'
  BY Zenon, <1>2, SigsSame, BansSame DEF recVars
<1> QED
  BY Zenon, <1>11, <1>12, <1>13, <1>14, <1>15, <1>16 DEF MInv, BInv
-----------------------------------------------------------------------------
(***************************************************************************)
(* The initial state, every step, and the two theorems.                    *)
(***************************************************************************)
LEMMA InitCalm == Init => MInv /\ BInv
<1> SUFFICES ASSUME Init
             PROVE  MInv /\ BInv
  BY Zenon
<1>1. \A n \in Node : \A c \in NodeIds(n) :
        nodeStates[n][c] = NewState /\ chan[n][c] = <<>>
  BY Zenon DEF Init
<1>2. /\ \A s \in Session : NewState.sendSessionId[s] = 0
      /\ NewState.announced = {} /\ NewState.requested = {}
      /\ \A i \in Id : NewState.sessionByRecvId[i] = None
      /\ NewState.pendingIncomingSigShares = {}
  BY DEF NewState
<1>3. NetType
  BY Zenon, InitInv DEF Inv, Typed
<1>4. AllUnderstood
  <2> SUFFICES ASSUME NEW n \in Node, NEW c \in Conns(n)
               PROVE  Understood(chan[n][c],
                        nodeStates[c[1]][<<n, c[2]>>].sessionByRecvId,
                        nodeStates[n][c].sendSessionId)
    BY Zenon DEF AllUnderstood
  <2> DEFINE map == nodeStates[c[1]][<<n, c[2]>>].sessionByRecvId
             send == nodeStates[n][c].sendSessionId
  <2>1. c \in NodeIds(n)
    BY Zenon, <1>3, ConnsNow
  <2>2. chan[n][c] = <<>> /\ \A s \in Session : send[s] = 0
    BY Zenon, <1>1, <1>2, <2>1
  <2> HIDE DEF map, send
  <2>3. Understood(<<>>, map, send)
    BY <2>2 DEF Understood
  <2> QED
    BY Zenon, <2>2, <2>3 DEF map, send
<1>5. FutureUnused
  BY Zenon, <1>1, <1>2 DEF FutureUnused, Unused
<1>6. NoMeaning
  BY Zenon, <1>1, <1>2 DEF NoMeaning
<1>7. PendingGenuine
  BY Zenon, <1>1, <1>2 DEF PendingGenuine
<1>8. QueuesGenuine
  BY Zenon, <1>1, EmptyGenuine DEF QueuesGenuine
<1>9. SigsGenuine /\ BatchGenuine /\ OnlyBrokenBanned
  BY Zenon DEF Init, SigsGenuine, BatchGenuine, OnlyBrokenBanned
<1> QED
  BY Zenon, <1>4, <1>5, <1>6, <1>7, <1>8, <1>9 DEF MInv, BInv

LEMMA ProgressCalm ==
  ASSUME Inv, Inv', MInv, BInv, Progress
  PROVE  MInv' /\ BInv'
<1>1. ASSUME NEW n \in Node, MessageThread(n) PROVE MInv' /\ BInv'
  BY Zenon, <1>1, AddPendingCalm, ProcessMessageCalm DEF MessageThread
<1>2. ASSUME NEW n \in Node, WorkThread(n) PROVE MInv' /\ BInv'
  <2>1. CASE ProcessPendingSigShares(n)
    BY Zenon, <2>1, ProcessPendingSigSharesCalm
  <2>2. CASE SignPendingSigShares(n)
    BY Zenon, <2>2, SignPendingSigSharesCalm
  <2>3. CASE \E c \in NodeIds(n) : ProcessPendingRecoveredSig(n, c)
    BY Zenon, <2>3, ProcessPendingRecoveredSigCalm
  <2>4. CASE SendMessages(n)
    BY Zenon, <2>4, SendMessagesCalm
  <2>5. CASE \E T \in SUBSET Session : Cleanup(n, T)
    BY Zenon, <2>5, CleanupCalm
  <2>6. CASE RemoveBannedNodeStates(n)
    BY Zenon, <2>6, RemoveBannedNodeStatesCalm
  <2> QED
    BY Zenon, <1>2, <2>1, <2>2, <2>3, <2>4, <2>5, <2>6 DEF WorkThread
<1>3. ASSUME NEW n \in Node, SignThread(n) PROVE MInv' /\ BInv'
  BY Zenon, <1>3, AsyncSignIfMemberCalm DEF SignThread
<1>4. ASSUME NEW n \in Node, NEW k \in Key, RequestTimeout(n, k) PROVE MInv' /\ BInv'
  BY Zenon, <1>4, StatesSameCalm DEF RequestTimeout
<1>5. ASSUME NEW n \in Node, NewQuorum(n) PROVE MInv' /\ BInv'
  <2>1. hasQuorum \subseteq hasQuorum'
    BY Zenon, <1>5 DEF NewQuorum
  <2> QED
    BY Zenon, <1>5, <2>1, StatesSameCalm DEF NewQuorum
<1>6. ASSUME NEW l \in Link, Reconnect(l) PROVE MInv' /\ BInv'
  BY Zenon, <1>6, ReconnectCalm
<1> QED
  BY Zenon, <1>1, <1>2, <1>3, <1>4, <1>5, <1>6 DEF Progress

LEMMA NextCalm == Inv /\ MInv /\ BInv /\ [Next]_vars => Inv' /\ MInv' /\ BInv'
<1> SUFFICES ASSUME Inv, MInv, BInv, [Next]_vars
             PROVE  Inv' /\ MInv' /\ BInv'
  BY Zenon
<1>1. Inv'
  BY Zenon, NextInv
<1>2. CASE Progress
  BY Zenon, <1>1, <1>2, ProgressCalm
<1>3. ASSUME NEW n \in Node, Restart(n) PROVE MInv' /\ BInv'
  BY Zenon, <1>1, <1>3, RestartCalm
<1>4. ASSUME NEW l \in Link, Disconnect(l) PROVE MInv' /\ BInv'
  BY Zenon, <1>1, <1>4, DisconnectCalm
<1>5. CASE UNCHANGED vars
  <2>1. UNCHANGED <<nodeStates, batch, recVars, shouldBan, hasQuorum, linkVars, chan>>
    BY Zenon, <1>5 DEF vars
  <2> QED
    BY Zenon, <1>1, <2>1, StatesSameCalm
<1> QED
  BY Zenon, <1>1, <1>2, <1>3, <1>4, <1>5 DEF Next

LEMMA SpecCalm == Spec => [](Inv /\ MInv /\ BInv)
BY InitInv, InitCalm, NextCalm, PTL DEF Spec

\* Whatever both ends forget, lose and number anew, the id of a message that is
\* about to be handled means to the receiver the session that the sender meant,
\* or none: GetSessionByRecvId never leads ProcessMessageSigSharesInv and the
\* like to another session.
THEOREM IdsNeverConfused == Spec => []MessagesUnderstood
<1>1. ASSUME Inv, MInv PROVE MessagesUnderstood
  <2> SUFFICES ASSUME NEW n \in Node, NEW c \in Conns(n), chan[c[1]][<<n, c[2]>>] # <<>>,
                      Head(chan[c[1]][<<n, c[2]>>]).t # "ann"
               PROVE  nodeStates[n][c].sessionByRecvId[Head(chan[c[1]][<<n, c[2]>>]).id]
                        \in {None, Head(chan[c[1]][<<n, c[2]>>]).s}
    BY Zenon DEF MessagesUnderstood
  <2> DEFINE p == c[1]
             d == <<n, c[2]>>
             q == chan[p][d]
             map == nodeStates[n][c].sessionByRecvId
             send == nodeStates[p][d].sendSessionId
  <2>1. NetType
    BY Zenon, <1>1 DEF Inv, Typed
  <2>2. c \in NodeIds(n) /\ up[{n, p}] /\ c[2] = conn[{n, p}]
    BY Zenon, <2>1, ConnsNow
  <2>3. c = <<p, c[2]>> /\ p \in Node /\ d \in NodeIds(p)
    BY Zenon, <2>2, OtherEnd
  <2>4. d[1] = n /\ d[2] = c[2] /\ {p, n} = {n, p}
    BY Zenon
  <2>5. d \in Conns(p)
    <3> HIDE DEF p, d
    <3>1. up[{p, d[1]}] /\ d[2] = conn[{p, d[1]}]
      BY Zenon, <2>2, <2>4
    <3> QED
      BY Zenon, <2>1, <2>3, <3>1, ConnsNow
  <2>6. Understood(q, map, send)
    <3>1. Understood(chan[p][d], nodeStates[d[1]][<<p, d[2]>>].sessionByRecvId,
                     nodeStates[p][d].sendSessionId)
      BY Zenon, <1>1, <2>3, <2>5 DEF MInv, AllUnderstood
    <3> QED
      BY Zenon, <2>3, <2>4, <3>1
  <2>7. q \in Seq(Message) /\ q # <<>> /\ Head(q).t # "ann"
    BY Zenon, <2>1, <2>3 DEF NetType
  <2> HIDE DEF q, map, send
  <2>8. map[Head(q).id] \in {None, Head(q).s}
    BY Zenon, <2>6, <2>7, HeadUnderstood
  <2> QED
    BY Zenon, <2>8 DEF q, map, p, d
<1> QED
  BY <1>1, SpecCalm, PTL

\* Only a member whose own share is wrong is ever banned, however its shares
\* travel: who relays, buffers, verifies late or recovers from them is not.
THEOREM BansOnlyBroken == Spec => []OnlyBrokenBanned
<1>1. BInv => OnlyBrokenBanned
  BY Zenon DEF BInv
<1> QED
  BY <1>1, SpecCalm, PTL
=============================================================================
