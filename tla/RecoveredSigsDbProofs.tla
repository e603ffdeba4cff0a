----------------------- MODULE RecoveredSigsDbProofs -----------------------
(***************************************************************************)
(* For any ids, signatures and reader threads: the keys of a stored        *)
(* recovered signature stay together, none outlives its session, every     *)
(* vote is under one time key, the caches answer for the database, and a   *)
(* known signature is not written again.                                   *)
(***************************************************************************)
EXTENDS RecoveredSigsDb, FiniteSetTheorems, TLAPS

\* Insert and Erase keep the cache's type.
LEMMA InsertType ==
  ASSUME cache \in [Key -> Answer \cup {"absent"}], NEW ks, NEW v \in Answer, Insert(ks, v)
  PROVE  cache' \in [Key -> Answer \cup {"absent"}]
BY DEF Insert, Cached

LEMMA EraseType ==
  ASSUME cache \in [Key -> Answer \cup {"absent"}], NEW ks, Erase(ks)
  PROVE  cache' \in [Key -> Answer \cup {"absent"}]
BY DEF Erase, Answer

LEMMA InitInv == Init => Inv
BY RecoveredSigsDbAssumption
   DEF Init, Inv, TypeOK, IndexesComplete, NoLook, Thread, Time, Answer, Key

\* Steps that touch neither the database nor the clock.
LEMMA QuietInv ==
  ASSUME Inv, UNCHANGED <<now, db, votes, raced>>,
         cache' \in [Key -> Answer \cup {"absent"}],
         look' \in [Thread -> [at : {"idle", "db", "insert"}, key : Key \cup {None}, ret : Answer]],
         pc' \in {"idle", "look", "get", "write", "cache", "erase", "flush", "votes", "voteflush"},
         cur' \in Sig \cup {None},
         old' \subseteq Time \X Id, dead' \subseteq Sig,
         pc' \in {"look", "get", "write", "cache"} => cur' \in Sig,
         look'[Worker].at # "idle" => pc' = "look",
         pc' = "flush" => \A e \in old' : rsR[e[2]] \in dead' \cup {None}
  PROVE  Inv'
BY DEF Inv, TypeOK, IndexesComplete, db, votes

LEMMA NextInv == Inv /\ [Next]_vars => Inv'
<1> SUFFICES ASSUME Inv, [Next]_vars
             PROVE  Inv'
  OBVIOUS
<1> USE RecoveredSigsDbAssumption
<1>0. TypeOK /\ IndexesComplete
  BY DEF Inv
<1>w. Worker \in Thread /\ look[Worker].at \in {"idle", "db", "insert"}
  BY <1>0 DEF TypeOK, Thread
<1>1. ASSUME NEW t \in Reader, NEW k \in Key, Lookup(t, k)
      PROVE  Inv'
  BY Zenon, <1>1, <1>0, QuietInv DEF Lookup, Inv, TypeOK, Thread, worker,
     Answer
<1>2. ASSUME NEW t \in Thread, LookupDb(t)
      PROVE  Inv'
  <2>1. look' \in [Thread -> [at : {"idle", "db", "insert"}, key : Key \cup {None}, ret : Answer]]
    <3> DEFINE a == IF Exists(look[t].key) THEN "yes" ELSE "no"
    <3>1. a \in Answer
      BY DEF Answer
    <3> HIDE DEF a
    <3>2. look' = [look EXCEPT ![t] = [look[t] EXCEPT !.at = "insert", !.ret = a]]
      BY Zenon, <1>2, <1>0 DEF LookupDb, TypeOK, a
    <3>3. look[t] \in [at : {"idle", "db", "insert"}, key : Key \cup {None}, ret : Answer]
      BY <1>0 DEF TypeOK
    <3>4. [look[t] EXCEPT !.at = "insert", !.ret = a]
            \in [at : {"idle", "db", "insert"}, key : Key \cup {None}, ret : Answer]
      BY Zenon, <3>1, <3>3
    <3> QED
      BY <1>0, <3>2, <3>4 DEF TypeOK
  <2>2. look'[Worker].at # "idle" => look[Worker].at # "idle"
    BY <1>2, <1>0, <1>w DEF LookupDb, TypeOK
  <2> QED
    BY <1>2, <1>0, <2>1, <2>2, QuietInv DEF LookupDb, Inv, TypeOK, worker
<1>3. ASSUME NEW t \in Thread, LookupInsert(t)
      PROVE  Inv'
  <2>1. look[t].ret \in Answer /\ look[t].at = "insert"
    BY <1>3, <1>0 DEF LookupInsert, TypeOK
  <2>2. cache' \in [Key -> Answer \cup {"absent"}]
    BY <1>3, <1>0, <2>1, InsertType DEF LookupInsert, TypeOK
  <2>3. look' \in [Thread -> [at : {"idle", "db", "insert"}, key : Key \cup {None}, ret : Answer]]
    BY Zenon, <1>3, <1>0 DEF LookupInsert, TypeOK, Answer, NoLook
  <2>4. CASE t = Worker
    <3>1. pc = "look" /\ cur \in Sig
      BY <2>1, <2>4 DEF Inv
    <3>2. pc' \in {"get", "write"} /\ look'[Worker].at = "idle"
      BY Zenon, <1>3, <1>0, <1>w, <2>4 DEF LookupInsert, TypeOK, NoLook
    <3> QED
      BY <1>3, <1>0, <2>2, <2>3, <3>1, <3>2, QuietInv DEF LookupInsert, Inv,
         TypeOK
  <2>5. CASE t # Worker
    <3>1. look'[Worker] = look[Worker] /\ pc' = pc
      BY <1>3, <1>0, <1>w, <2>5 DEF LookupInsert, TypeOK
    <3> QED
      BY <1>3, <1>0, <2>2, <2>3, <3>1, QuietInv DEF LookupInsert, Inv, TypeOK
  <2> QED
    BY <2>4, <2>5
<1>4. ASSUME NEW s \in Sig, ProcessRecoveredSig(s)
      PROVE  Inv'
  <2>1. /\ IdOf[s] \in Key /\ cur' = s
        /\ cache[IdOf[s]] \in {"yes", "no", "absent"}
    BY <1>4, <1>0 DEF ProcessRecoveredSig, Key, TypeOK, Answer
  <2>2. look[Worker].at = "idle"
    BY <1>4 DEF ProcessRecoveredSig, Inv
  <2>3. /\ pc' \in {"get", "write", "look"}
        /\ \/ look' = look
           \/ /\ pc' = "look"
              /\ look' = [look EXCEPT ![Worker] = [at |-> "db", key |-> IdOf[s], ret |-> "no"]]
    <3>2. CASE cache[IdOf[s]] = "yes"
      BY <1>4, <3>2 DEF ProcessRecoveredSig
    <3>3. CASE cache[IdOf[s]] = "no"
      BY <1>4, <3>3 DEF ProcessRecoveredSig
    <3>4. CASE cache[IdOf[s]] = "absent"
      BY <1>4, <3>4 DEF ProcessRecoveredSig
    <3> QED
      BY <2>1, <3>2, <3>3, <3>4
  <2>4. look' \in [Thread -> [at : {"idle", "db", "insert"}, key : Key \cup {None}, ret : Answer]]
    BY <1>0, <2>1, <2>3 DEF TypeOK, Answer
  <2>5. look'[Worker].at # "idle" => pc' = "look"
    BY <2>2, <2>3
  <2> QED
    BY <1>4, <1>0, <2>1, <2>3, <2>4, <2>5, QuietInv DEF ProcessRecoveredSig,
       TypeOK
<1>5. ASSUME GetRecoveredSigById
      PROVE  Inv'
  BY <1>5, <1>0, QuietInv DEF GetRecoveredSigById, Inv, TypeOK
<1>6. ASSUME WriteRecoveredSig
      PROVE  Inv'
  <2>1. cur \in Sig /\ IdOf[cur] \in Id /\ now \in Time /\ pc = "write"
    BY <1>6, <1>0 DEF WriteRecoveredSig, Inv, TypeOK
  <2>2. TypeOK'
    <3>1. /\ rsR' \in [Id -> Sig \cup {None}]
          /\ writeTime' \in [Sig -> Time \cup {None}]
      BY <1>6, <1>0, <2>1 DEF WriteRecoveredSig, TypeOK
    <3>2. rsS' \subseteq Sig /\ rsT' \subseteq Time \X Id
      BY <1>6, <1>0, <2>1 DEF WriteRecoveredSig, TypeOK
    <3>3. raced' \subseteq Key
      BY <1>6, <1>0 DEF WriteRecoveredSig, TypeOK, Overtaken
    <3> QED
      BY <1>6, <1>0, <3>1, <3>2, <3>3 DEF WriteRecoveredSig, TypeOK, votes
  <2>3. IndexesComplete'
    <3> SUFFICES ASSUME NEW j \in Id, rsR'[j] # None
                 PROVE  /\ IdOf[rsR'[j]] = j
                        /\ rsR'[j] \in rsS'
                        /\ <<writeTime'[rsR'[j]], j>> \in rsT'
      BY DEF IndexesComplete
    <3>1. CASE j = IdOf[cur]
      <4>1. rsR'[j] = cur /\ writeTime'[cur] = now
        BY <1>6, <1>0, <2>1, <3>1 DEF WriteRecoveredSig, TypeOK
      <4> QED
        BY <1>6, <3>1, <4>1 DEF WriteRecoveredSig
    <3>2. CASE j # IdOf[cur]
      <4>1. rsR'[j] = rsR[j] /\ rsR[j] \in Sig
        BY <1>6, <1>0, <3>2 DEF WriteRecoveredSig, TypeOK
      <4>2. IdOf[rsR[j]] = j /\ rsR[j] \in rsS /\ <<writeTime[rsR[j]], j>> \in rsT
        BY <1>0, <4>1 DEF IndexesComplete
      <4>3. writeTime'[rsR[j]] = writeTime[rsR[j]]
        BY Zenon, <1>6, <1>0, <3>2, <4>1, <4>2 DEF WriteRecoveredSig, TypeOK
      <4> QED
        BY <1>6, <4>1, <4>2, <4>3 DEF WriteRecoveredSig
    <3> QED
      BY <3>1, <3>2
  <2> QED
    BY <1>6, <2>1, <2>2, <2>3 DEF WriteRecoveredSig, Inv
<1>7. ASSUME CacheRecoveredSig
      PROVE  Inv'
  <2>1. cache' \in [Key -> Answer \cup {"absent"}]
    BY Zenon, <1>7, <1>0, InsertType DEF CacheRecoveredSig, TypeOK, Answer
  <2> QED
    BY <1>7, <1>0, <2>1, QuietInv DEF CacheRecoveredSig, Inv, TypeOK
<1>8. ASSUME NEW i \in Id, RemoveRecoveredSig(i)
      PROVE  Inv'
  <2>1. rsR[i] \in Sig /\ IdOf[rsR[i]] = i
    BY Zenon, <1>8, <1>0 DEF RemoveRecoveredSig, TypeOK, IndexesComplete
  <2>2. cache' \in [Key -> Answer \cup {"absent"}]
    BY Zenon, <1>8, <1>0, EraseType DEF RemoveRecoveredSig, TypeOK
  <2>3. TypeOK'
    BY Zenon, <1>8, <1>0, <2>1, <2>2 DEF RemoveRecoveredSig, TypeOK, Overtaken,
       votes, worker
  <2>4. IndexesComplete'
    <3> SUFFICES ASSUME NEW j \in Id, rsR'[j] # None
                 PROVE  /\ IdOf[rsR'[j]] = j
                        /\ rsR'[j] \in rsS'
                        /\ <<writeTime'[rsR'[j]], j>> \in rsT'
      BY DEF IndexesComplete
    <3>1. j # i /\ rsR'[j] = rsR[j] /\ rsR[j] \in Sig
      BY <1>8, <1>0 DEF RemoveRecoveredSig, TypeOK
    <3>2. rsR[j] # rsR[i]
      BY Zenon, <1>0, <2>1, <3>1 DEF IndexesComplete
    <3>3. writeTime'[rsR[j]] = writeTime[rsR[j]]
      BY <1>8, <1>0, <3>1, <3>2 DEF RemoveRecoveredSig, TypeOK
    <3> QED
      BY SMTT(40), <1>8, <1>0, <3>1, <3>2, <3>3 DEF RemoveRecoveredSig, IndexesComplete
  <2>5. \A j \in Id : rsR'[j] \in {rsR[j], None}
    BY Zenon, <1>8, <1>0 DEF RemoveRecoveredSig, TypeOK
  <2> QED
    BY <1>8, <2>3, <2>4, <2>5 DEF RemoveRecoveredSig, Inv, worker, TypeOK
<1>9. ASSUME NEW i \in Id, WriteVoteForId(i)
      PROVE  Inv'
  <2>1. cache' \in [Key -> Answer \cup {"absent"}]
    BY <1>9, <1>0, InsertType DEF WriteVoteForId, KnownUnsigned, TypeOK, Answer
  <2> QED
    BY <1>9, <1>0, <2>1 DEF WriteVoteForId, Inv, TypeOK, IndexesComplete, db,
       worker
<1>10. ASSUME CleanupScan
       PROVE  Inv'
  BY Zenon, <1>10, <1>0, QuietInv DEF CleanupScan, Expired, Inv, TypeOK
<1>11. ASSUME CleanupErase
       PROVE  Inv'
  <2>1. dead' \subseteq Sig /\ \A e \in old : rsR[e[2]] \in dead' \cup {None}
    BY <1>11, <1>0 DEF CleanupErase, TypeOK
  <2>2. cache' \in [Key -> Answer \cup {"absent"}]
    BY <1>11, <1>0, EraseType DEF CleanupErase, TypeOK
  <2> QED
    BY <1>11, <1>0, <2>1, <2>2, QuietInv DEF CleanupErase, Inv, TypeOK
<1>12. ASSUME CleanupFlush
       PROVE  Inv'
  <2>1. TypeOK'
    BY <1>12, <1>0 DEF CleanupFlush, TypeOK, Overtaken, Cached, votes
  <2>2. IndexesComplete'
    <3> SUFFICES ASSUME NEW j \in Id, rsR'[j] # None
                 PROVE  /\ IdOf[rsR'[j]] = j
                        /\ rsR'[j] \in rsS'
                        /\ <<writeTime'[rsR'[j]], j>> \in rsT'
      BY DEF IndexesComplete
    <3>1. rsR'[j] = rsR[j] /\ ~ \E s \in dead : IdOf[s] = j
      BY <1>12 DEF CleanupFlush
    <3>2. rsR[j] \in Sig /\ rsR[j] \notin dead
      BY Zenon, <1>0, <3>1 DEF TypeOK, IndexesComplete
    <3>3. writeTime'[rsR[j]] = writeTime[rsR[j]]
      BY <1>12, <3>2 DEF CleanupFlush
    <3>4. <<writeTime[rsR[j]], j>> \notin old
      BY <1>12, <3>1, <3>2 DEF CleanupFlush, Inv
    <3> QED
      BY Zenon, <1>12, <1>0, <3>1, <3>2, <3>3, <3>4 DEF CleanupFlush, IndexesComplete
  <2> QED
    BY Zenon, <1>12, <2>1, <2>2 DEF CleanupFlush, Inv
<1>13. ASSUME CleanupOldVotesScan
       PROVE  Inv'
  BY Zenon, <1>13, <1>0, QuietInv DEF CleanupOldVotesScan, Expired, Inv, TypeOK
<1>14. ASSUME CleanupOldVotesFlush
       PROVE  Inv'
  BY Zenon, <1>14, <1>0 DEF CleanupOldVotesFlush, Inv, TypeOK, IndexesComplete, db
<1>15. ASSUME Tick
       PROVE  Inv'
  BY <1>15, <1>0 DEF Tick, Inv, TypeOK, IndexesComplete, db, votes, worker,
     Time
<1>16. ASSUME Restart
       PROVE  Inv'
  <2>1. /\ cache' \in [Key -> Answer \cup {"absent"}]
        /\ look' \in [Thread -> [at : {"idle", "db", "insert"}, key : Key \cup {None}, ret : Answer]]
        /\ look'[Worker].at = "idle"
    BY Zenon, <1>16, <1>w DEF Restart, NoLook, Answer
  <2> QED
    BY <1>16, <1>0, <2>1 DEF Restart, Inv, TypeOK, IndexesComplete, db, votes
<1>17. ASSUME UNCHANGED vars
       PROVE  Inv'
  BY <1>17, <1>0, QuietInv DEF vars, worker, Inv, TypeOK
<1> QED
  BY <1>1, <1>2, <1>3, <1>4, <1>5, <1>6, <1>7, <1>8, <1>9, <1>10, <1>11, <1>12,
     <1>13, <1>14, <1>15, <1>16, <1>17 DEF Next

\* A stored signature is found by session and hash and has the time key that
\* the cleanup needs, whatever removals, cleanups, lookups and restarts are
\* interleaved with the writes.
THEOREM KeysStayTogether == Spec => []IndexesComplete
<1>1. Init => Inv
  BY InitInv
<1>2. Inv /\ [Next]_vars => Inv'
  BY NextInv
<1>3. Inv => IndexesComplete
  BY DEF Inv
<1> QED
  BY <1>1, <1>2, <1>3, PTL DEF Spec
-----------------------------------------------------------------------------
(***************************************************************************)
(* Session keys, votes and caches.                                         *)
(***************************************************************************)
LEMMA SpecInv == Spec => []Inv
BY InitInv, NextInv, PTL DEF Spec

\* The steps that write the database.
LEMMA DbStep ==
  ASSUME [Next]_vars
  PROVE  \/ UNCHANGED db
         \/ WriteRecoveredSig \/ CleanupFlush
         \/ \E i \in Id : RemoveRecoveredSig(i)
BY Zenon DEF Next, vars, Lookup, LookupDb, LookupInsert, ProcessRecoveredSig,
   GetRecoveredSigById, CacheRecoveredSig, WriteVoteForId, CleanupScan, CleanupErase,
   CleanupOldVotesScan, CleanupOldVotesFlush, Tick, Restart

LEMMA NextOrphans == Inv /\ NoOrphanedSession /\ [Next]_vars => NoOrphanedSession'
<1> SUFFICES ASSUME Inv, NoOrphanedSession, [Next]_vars,
                    \A s, t \in Sig : IdOf[s] = IdOf[t] => s = t, NEW s \in rsS'
             PROVE  rsR'[IdOf[s]] = s
  BY Zenon DEF NoOrphanedSession
<1> USE RecoveredSigsDbAssumption
<1>1. /\ rsR \in [Id -> Sig \cup {None}] /\ rsS \subseteq Sig /\ dead \subseteq Sig
      /\ \A t \in rsS : rsR[IdOf[t]] = t
  BY Zenon DEF Inv, TypeOK, NoOrphanedSession
<1>2. CASE UNCHANGED db
  BY Zenon, <1>1, <1>2 DEF db
<1>3. CASE WriteRecoveredSig
  <2>1. cur \in Sig /\ IdOf[cur] \in Id
    BY <1>3 DEF WriteRecoveredSig, Inv
  <2>2. rsR' = [rsR EXCEPT ![IdOf[cur]] = cur] /\ rsS' = rsS \cup {cur}
    BY Zenon, <1>3 DEF WriteRecoveredSig
  <2> QED
    BY Zenon, <1>1, <2>1, <2>2
<1>4. CASE CleanupFlush
  <2>1. /\ rsR' = [i \in Id |-> IF \E t \in dead : IdOf[t] = i THEN None ELSE rsR[i]]
        /\ rsS' = rsS \ dead
    BY Zenon, <1>4 DEF CleanupFlush
  <2>2. s \in rsS /\ s \in Sig /\ IdOf[s] \in Id /\ ~ \E t \in dead : IdOf[t] = IdOf[s]
    BY Zenon, <1>1, <2>1
  <2> QED
    BY Zenon, <1>1, <2>1, <2>2
<1>5. ASSUME NEW i \in Id, RemoveRecoveredSig(i)
      PROVE  rsR'[IdOf[s]] = s
  <2>1. rsR' = [rsR EXCEPT ![i] = None] /\ rsS' = rsS \ {rsR[i]}
    BY Zenon, <1>5 DEF RemoveRecoveredSig
  <2>2. s \in rsS /\ s \in Sig /\ IdOf[s] \in Id /\ IdOf[s] # i
    BY Zenon, <1>1, <2>1
  <2> QED
    BY Zenon, <1>1, <2>1, <2>2
<1> QED
  BY Zenon, DbStep, <1>2, <1>3, <1>4, <1>5

\* With one signature for each id, a session or hash key is never left behind
\* by RemoveRecoveredSig or CleanupOldRecoveredSigs, whatever they interleave
\* with.
THEOREM SessionKeysErased == Spec => []NoOrphanedSession
<1>1. Init => NoOrphanedSession
  BY Zenon DEF Init, NoOrphanedSession
<1> QED
  BY <1>1, SpecInv, NextOrphans, PTL DEF Spec

\* What VoteTimeKeys needs: votes and time keys are one to one, and the time
\* keys that CleanupOldVotes is about to erase are still there.
VotesInv ==
  /\ \A e \in rsVT : e[2] \in rsV
  /\ \A i \in rsV : \E e \in rsVT : e[2] = i
  /\ \A e, f \in rsVT : e[2] = f[2] => e = f
  /\ pc = "voteflush" => old \subseteq rsVT

LEMMA VotesSame ==
  ASSUME VotesInv, UNCHANGED votes, pc' = "voteflush" => pc = "voteflush" /\ old' = old
  PROVE  VotesInv'
BY Zenon DEF VotesInv, votes

LEMMA NextVotes == Inv /\ VotesInv /\ [Next]_vars => VotesInv'
<1> SUFFICES ASSUME Inv, VotesInv, [Next]_vars
             PROVE  VotesInv'
  BY Zenon
<1>1. ASSUME NEW i \in Id, WriteVoteForId(i)
      PROVE  VotesInv'
  <2>1. /\ i \notin rsV /\ rsV' = rsV \cup {i} /\ rsVT' = rsVT \cup {<<now, i>>}
        /\ pc' = pc /\ old' = old
    BY Zenon, <1>1 DEF WriteVoteForId, worker
  <2>2. <<now, i>>[2] = i
    BY Zenon
  <2>3. \A e \in rsVT : e[2] \in rsV /\ e[2] # i
    BY Zenon, <2>1 DEF VotesInv
  <2> DEFINE e0 == <<now, i>>
  <2> HIDE DEF e0
  <2>4. rsVT' = rsVT \cup {e0} /\ e0[2] = i
    BY Zenon, <2>1, <2>2 DEF e0
  <2>5. (\A e \in rsVT : e[2] \in rsV)'
    BY Zenon, <2>1, <2>3, <2>4
  <2>6. (\A j \in rsV : \E e \in rsVT : e[2] = j)'
    BY Zenon, <2>1, <2>4 DEF VotesInv
  <2>7. (\A e, f \in rsVT : e[2] = f[2] => e = f)'
    <3> SUFFICES ASSUME NEW e \in rsVT', NEW f \in rsVT', e[2] = f[2]
                 PROVE  e = f
      BY Zenon
    <3>1. CASE e = e0 \/ f = e0
      BY Zenon, <2>3, <2>4, <3>1
    <3>2. CASE e \in rsVT /\ f \in rsVT
      BY Zenon, <3>2 DEF VotesInv
    <3> QED
      BY Zenon, <2>4, <3>1, <3>2
  <2>8. (pc = "voteflush" => old \subseteq rsVT)'
    BY Zenon, <2>1 DEF VotesInv
  <2> QED
    BY Zenon, <2>5, <2>6, <2>7, <2>8 DEF VotesInv
<1>2. CASE CleanupOldVotesScan
  <2>1. UNCHANGED votes /\ old' \subseteq rsVT
    BY Zenon, <1>2 DEF CleanupOldVotesScan, Expired
  <2> QED
    BY Zenon, <2>1 DEF VotesInv, votes
<1>3. CASE CleanupOldVotesFlush
  <2>1. /\ rsVT' = rsVT \ old /\ rsV' = rsV \ {e[2] : e \in old} /\ old \subseteq rsVT
        /\ pc' = "idle"
    BY Zenon, <1>3 DEF CleanupOldVotesFlush, VotesInv
  <2>2. ASSUME NEW e \in rsVT' PROVE e[2] \in rsV'
    <3>1. e \in rsVT /\ e \notin old /\ e[2] \in rsV
      BY Zenon, <2>1, <2>2 DEF VotesInv
    <3>2. ASSUME NEW f \in old, f[2] = e[2] PROVE FALSE
      BY Zenon, <2>1, <3>1, <3>2 DEF VotesInv
    <3> QED
      BY Zenon, <2>1, <3>1, <3>2
  <2>3. ASSUME NEW i \in rsV' PROVE \E e \in rsVT' : e[2] = i
    <3>1. i \in rsV /\ \A e \in old : e[2] # i
      BY Zenon, <2>1, <2>3
    <3>2. PICK e \in rsVT : e[2] = i
      BY Zenon, <3>1 DEF VotesInv
    <3> QED
      BY Zenon, <2>1, <3>1, <3>2
  <2>4. (\A e, f \in rsVT : e[2] = f[2] => e = f)'
    BY Zenon, <2>1 DEF VotesInv
  <2>5. pc' # "voteflush"
    BY <2>1
  <2> QED
    BY Zenon, <2>2, <2>3, <2>4, <2>5 DEF VotesInv
<1>4. CASE CleanupScan
  BY <1>4, VotesSame DEF CleanupScan
<1>5. CASE WriteRecoveredSig \/ GetRecoveredSigById \/ CacheRecoveredSig
  BY <1>5, VotesSame DEF WriteRecoveredSig, GetRecoveredSigById, CacheRecoveredSig
<1>6. CASE CleanupErase \/ CleanupFlush \/ Tick \/ Restart
  BY <1>6, VotesSame DEF CleanupErase, CleanupFlush, Tick, Restart, worker
<1>7. ASSUME NEW i \in Id, RemoveRecoveredSig(i)
      PROVE  VotesInv'
  BY Zenon, <1>7, VotesSame DEF RemoveRecoveredSig, worker
<1>8. ASSUME NEW s \in Sig, ProcessRecoveredSig(s)
      PROVE  VotesInv'
  <2>1. pc' # "voteflush" /\ UNCHANGED votes
    BY <1>8 DEF ProcessRecoveredSig
  <2> QED
    BY Zenon, <2>1, VotesSame
<1>9. ASSUME NEW t \in Reader, NEW k \in Key, Lookup(t, k)
      PROVE  VotesInv'
  BY Zenon, <1>9, VotesSame DEF Lookup, worker
<1>10. ASSUME NEW t \in Thread, LookupDb(t)
       PROVE  VotesInv'
  BY Zenon, <1>10, VotesSame DEF LookupDb, worker
<1>11. ASSUME NEW t \in Thread, LookupInsert(t)
       PROVE  VotesInv'
  <2>1. pc' = "voteflush" => pc = "voteflush"
    BY <1>11 DEF LookupInsert
  <2>2. UNCHANGED <<votes, old>>
    BY Zenon, <1>11 DEF LookupInsert
  <2> QED
    BY Zenon, <2>1, <2>2, VotesSame
<1>12. CASE UNCHANGED vars
  BY Zenon, <1>12, VotesSame DEF vars, worker
<1> QED
  BY Zenon, <1>1, <1>2, <1>3, <1>4, <1>5, <1>6, <1>7, <1>8, <1>9, <1>10, <1>11, <1>12
     DEF Next

\* Every vote on an id has exactly one time key and every time key its vote, so
\* that CleanupOldVotes, which takes no lock, erases each vote once, by its own
\* age.
THEOREM VotesExpireOnce == Spec => []VoteTimeKeys
<1>1. Init => VotesInv
  BY DEF Init, VotesInv
<1>2. Inv /\ VotesInv => VoteTimeKeys
  <2> SUFFICES ASSUME VotesInv, NEW i \in Id
               PROVE  Cardinality({e \in rsVT : e[2] = i}) = IF i \in rsV THEN 1 ELSE 0
    BY Zenon DEF VoteTimeKeys
  <2>1. CASE i \in rsV
    <3>1. PICK e \in rsVT : e[2] = i
      BY Zenon, <2>1 DEF VotesInv
    <3>2. {f \in rsVT : f[2] = i} = {e}
      BY Zenon, <3>1 DEF VotesInv
    <3>3. Cardinality({e}) = 1
      BY FS_Singleton
    <3> QED
      BY Zenon, <2>1, <3>2, <3>3
  <2>2. CASE i \notin rsV
    <3>1. {f \in rsVT : f[2] = i} = {}
      <4>1. \A f \in rsVT : f[2] \in rsV
        BY Zenon DEF VotesInv
      <4> QED
        BY <2>2, <4>1
    <3>2. Cardinality({}) = 0
      BY FS_EmptySet
    <3> QED
      BY Zenon, <2>2, <3>1, <3>2
  <2> QED
    BY Zenon, <2>1, <2>2
<1> QED
  BY <1>1, <1>2, SpecInv, NextVotes, PTL DEF Spec

\* The answer of a lookup is the truth until it is inserted, but for a key that
\* was overtaken.
LooksFresh ==
  \A t \in Thread : look[t].at # "idle" =>
    /\ look[t].key \in Key
    /\ look[t].at = "insert" /\ look[t].key \notin raced =>
         (look[t].ret = "yes" <=> Exists(look[t].key))

\* What the worker knows of its signature: the key that it looks up, that it
\* was written before the caches are told, and that it was not stored before.
WorkerKnows ==
  /\ look[Worker].at # "idle" => look[Worker].key = IdOf[cur]
  /\ pc = "cache" => \A k \in {cur, IdOf[cur]} : k \in raced \/ Exists(k)
  /\ pc = "write" /\ IdOf[cur] \notin raced => rsR[IdOf[cur]] = None

CacheInv == CacheCoherent /\ LooksFresh /\ WorkerKnows

LEMMA InsertAt ==
  ASSUME NEW ks, NEW v, Insert(ks, v), NEW k \in Key, cache'[k] # "absent"
  PROVE  \/ k \in ks /\ cache'[k] = v
         \/ k \notin ks /\ cache'[k] = cache[k] /\ cache[k] # "absent"
<1>1. PICK keep \in SUBSET Cached :
        cache' = [j \in Key |-> IF j \in ks THEN v
                                ELSE IF j \in keep THEN cache[j] ELSE "absent"]
  BY Zenon DEF Insert
<1> QED
  BY Zenon, <1>1

LEMMA EraseAt ==
  ASSUME NEW ks, Erase(ks), NEW k \in Key, cache'[k] # "absent"
  PROVE  k \notin ks /\ cache'[k] = cache[k]
BY Zenon DEF Erase

LEMMA StoredAt ==
  ASSUME NEW r, NEW ss \in SUBSET Sig
  PROVE  /\ \A i \in Id : i \in Stored(r, ss) <=> r[i] # None
         /\ \A s \in Sig : s \in Stored(r, ss) <=> s \in ss
BY RecoveredSigsDbAssumption DEF Stored

\* The database as it is: the cache has to stay true, key by key.
LEMMA SameDbCache ==
  ASSUME CacheInv, UNCHANGED <<db, raced>>, LooksFresh', WorkerKnows',
         \A k \in Key \ raced : cache'[k] # "absent" =>
           \/ cache'[k] = cache[k]
           \/ cache'[k] = "yes" <=> Exists(k),
         pc = "cache" => pc' = "cache" /\ cur' = cur
  PROVE  CacheInv'
<1>1. \A k : Exists(k)' <=> Exists(k)
  BY Zenon DEF db, Exists, Stored
<1>2. CacheCoherent'
  <2> SUFFICES ASSUME NEW k \in Key, cache'[k] # "absent", k \notin raced
               PROVE  \/ pc' = "cache" /\ k \in {cur', IdOf[cur']}
                      \/ cache'[k] = "yes" <=> Exists(k)'
    BY Zenon DEF CacheCoherent, Cached
  <2>1. CASE cache'[k] = cache[k]
    BY Zenon, <1>1, <2>1 DEF CacheInv, CacheCoherent, Cached
  <2>2. CASE cache'[k] = "yes" <=> Exists(k)
    BY Zenon, <1>1, <2>2
  <2> QED
    BY Zenon, <2>1, <2>2
<1> QED
  BY Zenon, <1>2 DEF CacheInv

\* Steps that lookups and the worker's processing do not notice.
LEMMA IdleCache ==
  ASSUME CacheInv, UNCHANGED <<db, raced, look, cur>>, pc' \in {pc, "idle", "erase", "flush", "votes", "voteflush"},
         pc = "cache" => pc' = "cache",
         \A k \in Key \ raced : cache'[k] # "absent" =>
           \/ cache'[k] = cache[k]
           \/ cache'[k] = "yes" <=> Exists(k)
  PROVE  CacheInv'
<1>1. \A k : Exists(k)' <=> Exists(k)
  BY Zenon DEF db, Exists, Stored
<1>2. LooksFresh'
  BY Zenon, <1>1 DEF CacheInv, LooksFresh
<1>3. pc' = "cache" => pc = "cache"
  OBVIOUS
<1>4. pc' = "write" => pc = "write"
  OBVIOUS
<1>5. WorkerKnows'
  BY Zenon, <1>1, <1>3, <1>4 DEF CacheInv, WorkerKnows, db
<1> QED
  BY Zenon, <1>2, <1>5, SameDbCache

\* The database changes: a lookup that is overtaken is recorded.
LEMMA NewDbCache ==
  ASSUME CacheInv, raced \cup Overtaken \subseteq raced', UNCHANGED look, WorkerKnows',
         \A k \in Key \ raced' : cache'[k] # "absent" =>
           \/ pc' = "cache" /\ k \in {cur', IdOf[cur']}
           \/ cache'[k] = cache[k] /\ (Exists(k)' <=> Exists(k)),
         pc = "cache" => pc' = "cache" /\ cur' = cur
  PROVE  CacheInv'
<1>1. LooksFresh'
  <2> SUFFICES ASSUME NEW t \in Thread, look[t].at # "idle"
               PROVE  /\ look[t].key \in Key
                      /\ look[t].at = "insert" /\ look[t].key \notin raced' =>
                           (look[t].ret = "yes" <=> Exists(look[t].key)')
    BY Zenon DEF LooksFresh
  <2> DEFINE k == look[t].key
  <2>1. k \in Key
    BY Zenon DEF CacheInv, LooksFresh
  <2>2. ASSUME look[t].at = "insert", k \notin raced'
        PROVE  look[t].ret = "yes" <=> Exists(k)'
    <3>1. k \notin Overtaken /\ k \notin raced
      BY Zenon, <2>2
    <3>2. Exists(k)' <=> Exists(k)
      BY Zenon, <2>1, <2>2, <3>1 DEF Overtaken, Exists
    <3>3. look[t].ret = "yes" <=> Exists(k)
      BY Zenon, <2>2, <3>1 DEF CacheInv, LooksFresh
    <3> QED
      BY Zenon, <3>2, <3>3
  <2> QED
    BY Zenon, <2>1, <2>2
<1>2. CacheCoherent'
  <2> SUFFICES ASSUME NEW k \in Key, cache'[k] # "absent", k \notin raced'
               PROVE  \/ pc' = "cache" /\ k \in {cur', IdOf[cur']}
                      \/ cache'[k] = "yes" <=> Exists(k)'
    BY Zenon DEF CacheCoherent, Cached
  <2>1. k \notin raced
    BY Zenon
  <2>2. CASE cache'[k] = cache[k] /\ (Exists(k)' <=> Exists(k))
    BY Zenon, <2>1, <2>2 DEF CacheInv, CacheCoherent, Cached
  <2> QED
    BY Zenon, <2>2
<1> QED
  BY Zenon, <1>1, <1>2 DEF CacheInv

LEMMA WriteRecoveredSigCache ==
  ASSUME Inv, CacheInv, WriteRecoveredSig
  PROVE  CacheInv'
<1>1. /\ pc = "write" /\ rsR' = [rsR EXCEPT ![IdOf[cur]] = cur] /\ rsS' = rsS \cup {cur}
      /\ raced' = raced \cup Overtaken /\ pc' = "cache" /\ UNCHANGED <<cache, look, cur>>
  BY Zenon DEF WriteRecoveredSig
<1>2. /\ cur \in Sig /\ IdOf[cur] \in Id /\ rsR \in [Id -> Sig \cup {None}]
      /\ rsS \in SUBSET Sig /\ rsS' \in SUBSET Sig /\ cur # None
      /\ look[Worker].at = "idle"
  BY <1>1, RecoveredSigsDbAssumption DEF Inv, TypeOK
<1>3. \A k \in Key : k \notin {cur, IdOf[cur]} => (Exists(k)' <=> Exists(k))
  <2> SUFFICES ASSUME NEW k \in Key, k # cur, k # IdOf[cur]
               PROVE  k \in Stored(rsR', rsS') <=> k \in Stored(rsR, rsS)
    BY Zenon DEF Exists
  <2>1. CASE k \in Id
    <3>1. rsR'[k] = rsR[k]
      BY <1>1, <1>2, <2>1
    <3> QED
      BY <1>2, <2>1, <3>1, StoredAt
  <2>2. CASE k \in Sig
    <3>1. k \in rsS' <=> k \in rsS
      BY <1>1
    <3> QED
      BY <1>2, <2>2, <3>1, StoredAt
  <2> QED
    BY Zenon, <2>1, <2>2 DEF Key
<1>4. Exists(cur)' /\ Exists(IdOf[cur])'
  <2>1. cur \in Stored(rsR', rsS') /\ IdOf[cur] \in Stored(rsR', rsS')
    <3>1. rsR'[IdOf[cur]] = cur /\ cur \in rsS'
      BY <1>1, <1>2
    <3> QED
      BY <1>2, <3>1, StoredAt
  <2> QED
    BY Zenon, <1>1, <2>1 DEF Exists
<1>5. WorkerKnows'
  BY <1>1, <1>2, <1>4 DEF WorkerKnows
<1>6. pc # "cache"
  BY <1>1
<1> QED
  BY Zenon, <1>1, <1>3, <1>5, <1>6, NewDbCache

LEMMA RemoveRecoveredSigCache ==
  ASSUME Inv, CacheInv, NEW i \in Id, RemoveRecoveredSig(i)
  PROVE  CacheInv'
<1> DEFINE s == rsR[i]
<1>1. /\ s # None /\ rsR' = [rsR EXCEPT ![i] = None] /\ rsS' = rsS \ {s}
      /\ Erase({i, s}) /\ raced' = raced \cup Overtaken /\ UNCHANGED <<look, pc, cur>>
  BY Zenon DEF RemoveRecoveredSig, worker
<1>2. /\ s \in Sig /\ rsR \in [Id -> Sig \cup {None}]
      /\ rsS \in SUBSET Sig /\ rsS' \in SUBSET Sig
      /\ pc \in {"look", "get", "write", "cache"} => cur \in Sig
  BY Zenon, <1>1 DEF Inv, TypeOK
<1> HIDE DEF s
<1>3. \A k \in Key : k \notin {i, s} => (Exists(k)' <=> Exists(k))
  <2> SUFFICES ASSUME NEW k \in Key, k # i, k # s
               PROVE  k \in Stored(rsR', rsS') <=> k \in Stored(rsR, rsS)
    BY Zenon DEF Exists
  <2>1. CASE k \in Id
    <3>1. rsR'[k] = rsR[k]
      BY <1>1, <1>2, <2>1
    <3> QED
      BY <1>2, <2>1, <3>1, StoredAt
  <2>2. CASE k \in Sig
    <3>1. k \in rsS' <=> k \in rsS
      BY <1>1
    <3> QED
      BY <1>2, <2>2, <3>1, StoredAt
  <2> QED
    BY Zenon, <2>1, <2>2 DEF Key
<1>4. WorkerKnows'
  <2>1. look[Worker].at # "idle" => look[Worker].key = IdOf[cur]
    BY Zenon DEF CacheInv, WorkerKnows
  <2>2. ASSUME pc = "cache", NEW k \in {cur, IdOf[cur]}, k \notin raced'
        PROVE  Exists(k)'
    <3>1. k \in Key
      BY <1>2, <2>2, RecoveredSigsDbAssumption DEF Key
    <3>2. k \notin raced /\ k \notin Overtaken
      BY Zenon, <1>1, <2>2
    <3>3. Exists(k)
      BY Zenon, <2>2, <3>2 DEF CacheInv, WorkerKnows
    <3> QED
      BY Zenon, <2>2, <3>1, <3>2, <3>3 DEF Overtaken, Exists
  <2>3. ASSUME pc = "write", IdOf[cur] \notin raced' PROVE rsR'[IdOf[cur]] = None
    <3>1. rsR[IdOf[cur]] = None
      BY Zenon, <1>1, <2>3 DEF CacheInv, WorkerKnows
    <3> QED
      BY <1>1, <1>2, <2>3, <3>1, RecoveredSigsDbAssumption
  <2> QED
    BY Zenon, <1>1, <2>1, <2>2, <2>3 DEF WorkerKnows
<1>5. \A k \in Key : cache'[k] # "absent" => k \notin {i, s} /\ cache'[k] = cache[k]
  BY Zenon, <1>1, EraseAt
<1> QED
  BY Zenon, <1>1, <1>3, <1>4, <1>5, NewDbCache

LEMMA CleanupFlushCache ==
  ASSUME Inv, CacheInv, CleanupFlush
  PROVE  CacheInv'
<1>1. /\ pc = "flush" /\ pc' = "votes" /\ UNCHANGED <<cache, look, cur>>
      /\ rsR' = [i \in Id |-> IF \E s \in dead : IdOf[s] = i THEN None ELSE rsR[i]]
      /\ rsS' = rsS \ dead
      /\ raced' = raced \cup Overtaken
                    \cup {k \in Cached : Exists(k) /\ k \notin Stored(rsR', rsS')}
  BY Zenon DEF CleanupFlush
<1>2. rsS \in SUBSET Sig /\ rsS' \in SUBSET Sig
  BY Zenon, <1>1 DEF Inv, TypeOK
<1>3. ASSUME NEW k \in Key, k \in Stored(rsR', rsS') PROVE Exists(k)
  <2>1. CASE k \in Id
    <3>1. rsR'[k] # None
      BY <1>2, <1>3, <2>1, StoredAt
    <3>2. rsR[k] # None
      BY Zenon, <1>1, <2>1, <3>1
    <3> QED
      BY <1>2, <2>1, <3>2, StoredAt DEF Exists
  <2>2. CASE k \in Sig
    <3>1. k \in rsS'
      BY <1>2, <1>3, <2>2, StoredAt
    <3>2. k \in rsS
      BY Zenon, <1>1, <3>1
    <3> QED
      BY <1>2, <2>2, <3>2, StoredAt DEF Exists
  <2> QED
    BY Zenon, <2>1, <2>2 DEF Key
<1>4. ASSUME NEW k \in Key \ raced', cache'[k] # "absent"
      PROVE  cache'[k] = cache[k] /\ (Exists(k)' <=> Exists(k))
  <2>1. k \in Cached /\ cache'[k] = cache[k]
    BY Zenon, <1>1, <1>4 DEF Cached
  <2>2. ~ (Exists(k) /\ k \notin Stored(rsR', rsS'))
    BY Zenon, <1>1, <2>1
  <2>3. Exists(k)' <=> k \in Stored(rsR', rsS')
    BY Zenon DEF Exists
  <2> QED
    BY Zenon, <1>3, <2>1, <2>2, <2>3
<1>5. pc' # "cache" /\ pc' # "write" /\ pc # "cache"
  BY <1>1
<1>6. WorkerKnows'
  BY Zenon, <1>1, <1>5 DEF CacheInv, WorkerKnows
<1>7. raced \cup Overtaken \subseteq raced'
  BY Zenon, <1>1
<1> QED
  BY Zenon, <1>1, <1>4, <1>5, <1>6, <1>7, NewDbCache

LEMMA LookupDbCache ==
  ASSUME Inv, CacheInv, NEW t \in Thread, LookupDb(t)
  PROVE  CacheInv'
<1> DEFINE a == IF Exists(look[t].key) THEN "yes" ELSE "no"
           new == [look[t] EXCEPT !.at = "insert", !.ret = a]
<1>1. /\ look[t].at = "db" /\ UNCHANGED <<db, raced, cache, pc, cur>>
      /\ look' = [look EXCEPT ![t] = new]
  BY Zenon DEF LookupDb, worker, Inv, TypeOK
<1>2. /\ look \in [Thread -> [at : {"idle", "db", "insert"}, key : Key \cup {None},
                              ret : Answer]]
      /\ Worker \in Thread /\ look[t].at # "idle"
  BY <1>1 DEF Inv, TypeOK, Thread
<1>3. \A u \in Thread : u # t => look'[u] = look[u]
  BY Zenon, <1>1, <1>2
<1>4. look'[t] = new /\ new.key = look[t].key /\ new.at = "insert" /\ new.ret = a
  BY Zenon, <1>1, <1>2
<1>5. \A k : Exists(k)' <=> Exists(k)
  BY Zenon, <1>1 DEF db, Exists, Stored
<1>6. a = "yes" <=> Exists(look[t].key)
  BY DEF a
<1>7. look[t].key \in Key
  BY Zenon, <1>2 DEF CacheInv, LooksFresh
<1> HIDE DEF a, new
<1>8. LooksFresh'
  <2> SUFFICES ASSUME NEW u \in Thread, look'[u].at # "idle"
               PROVE  /\ look'[u].key \in Key
                      /\ look'[u].at = "insert" /\ look'[u].key \notin raced =>
                           (look'[u].ret = "yes" <=> Exists(look'[u].key))
    BY Zenon, <1>1, <1>5 DEF LooksFresh
  <2>1. CASE u = t
    BY Zenon, <1>4, <1>6, <1>7, <2>1
  <2>2. CASE u # t
    BY Zenon, <1>3, <2>2 DEF CacheInv, LooksFresh
  <2> QED
    BY Zenon, <2>1, <2>2
<1>9. WorkerKnows'
  <2>1. look'[Worker].at # "idle" => look'[Worker].key = IdOf[cur]
    BY Zenon, <1>2, <1>3, <1>4 DEF CacheInv, WorkerKnows
  <2> QED
    BY Zenon, <1>1, <1>5, <2>1 DEF CacheInv, WorkerKnows, db
<1> QED
  BY Zenon, <1>1, <1>8, <1>9, SameDbCache

LEMMA LookupCache ==
  ASSUME Inv, CacheInv, NEW t \in Reader, NEW k \in Key, Lookup(t, k)
  PROVE  CacheInv'
<1> DEFINE new == [at |-> "db", key |-> k, ret |-> "no"]
<1>1. look' = [look EXCEPT ![t] = new] /\ UNCHANGED <<db, raced, cache, pc, cur>>
  BY Zenon DEF Lookup, worker
<1>2. DOMAIN look = Thread /\ t \in Thread /\ Worker \in Thread /\ t # Worker
  BY RecoveredSigsDbAssumption DEF Inv, TypeOK, Thread
<1>3. \A k1 : Exists(k1)' <=> Exists(k1)
  BY Zenon, <1>1 DEF db, Exists, Stored
<1>4. look'[t] = new /\ new.key \in Key /\ new.at # "insert"
  BY Zenon, <1>1, <1>2
<1> HIDE DEF new
<1>5. \A u \in Thread : u # t => look'[u] = look[u]
  BY Zenon, <1>1, <1>2
<1>6. LooksFresh'
  <2> SUFFICES ASSUME NEW u \in Thread, look'[u].at # "idle"
               PROVE  /\ look'[u].key \in Key
                      /\ look'[u].at = "insert" /\ look'[u].key \notin raced =>
                           (look'[u].ret = "yes" <=> Exists(look'[u].key))
    BY Zenon, <1>1, <1>3 DEF LooksFresh
  <2>1. CASE u = t
    BY Zenon, <1>4, <2>1
  <2>2. CASE u # t
    BY Zenon, <1>5, <2>2 DEF CacheInv, LooksFresh
  <2> QED
    BY Zenon, <2>1, <2>2
<1>7. WorkerKnows'
  <2>1. look'[Worker] = look[Worker]
    BY Zenon, <1>2, <1>5
  <2> QED
    BY Zenon, <1>1, <1>3, <2>1 DEF CacheInv, WorkerKnows, db
<1> QED
  BY Zenon, <1>1, <1>6, <1>7, SameDbCache

LEMMA LookupInsertCache ==
  ASSUME Inv, CacheInv, NEW t \in Thread, LookupInsert(t)
  PROVE  CacheInv'
<1> DEFINE key == look[t].key
           ret == look[t].ret
<1>1. /\ look[t].at = "insert" /\ Insert({key}, ret) /\ look' = [look EXCEPT ![t] = NoLook]
      /\ pc' = IF t # Worker THEN pc ELSE IF ret = "yes" THEN "get" ELSE "write"
      /\ UNCHANGED <<db, cur, raced>>
  BY Zenon DEF LookupInsert
<1>2. DOMAIN look = Thread /\ Worker \in Thread /\ NoLook.at = "idle" /\ rsS \in SUBSET Sig
  BY DEF Inv, TypeOK, Thread, NoLook
<1>3. look[t].at # "idle"
  BY <1>1
<1>4. key \in Key /\ (key \notin raced => (ret = "yes" <=> Exists(key)))
  BY Zenon, <1>1, <1>3 DEF CacheInv, LooksFresh
<1>5. \A k : Exists(k)' <=> Exists(k)
  BY Zenon, <1>1 DEF db, Exists, Stored
<1>6. \A k \in Key \ raced : cache'[k] # "absent" =>
        \/ cache'[k] = cache[k]
        \/ cache'[k] = "yes" <=> Exists(k)
  <2> SUFFICES ASSUME NEW k \in Key \ raced, cache'[k] # "absent"
               PROVE  cache'[k] = cache[k] \/ (cache'[k] = "yes" <=> Exists(k))
    BY Zenon
  <2>1. \/ k \in {key} /\ cache'[k] = ret
        \/ k \notin {key} /\ cache'[k] = cache[k]
    BY ZenonT(40), <1>1, InsertAt
  <2> QED
    BY Zenon, <1>4, <2>1
<1>7. look'[t].at = "idle" /\ \A u \in Thread : u # t => look'[u] = look[u]
  BY Zenon, <1>1, <1>2
<1>8. LooksFresh'
  <2> SUFFICES ASSUME NEW u \in Thread, look'[u].at # "idle"
               PROVE  /\ look'[u].key \in Key
                      /\ look'[u].at = "insert" /\ look'[u].key \notin raced =>
                           (look'[u].ret = "yes" <=> Exists(look'[u].key))
    BY Zenon, <1>1, <1>5 DEF LooksFresh
  <2>1. look'[u] = look[u]
    BY Zenon, <1>7
  <2> QED
    BY Zenon, <2>1 DEF CacheInv, LooksFresh
<1>9. CASE t = Worker
  <2>1. pc = "look" /\ cur \in Sig /\ key = IdOf[cur]
    BY Zenon, <1>3, <1>9 DEF Inv, CacheInv, WorkerKnows
  <2>2. pc' \in {"get", "write"} /\ (pc' = "write" => ret # "yes") /\ pc # "cache"
    BY <1>1, <1>9, <2>1
  <2>3. IdOf[cur] \in Id
    BY Zenon, <2>1, RecoveredSigsDbAssumption
  <2>4. pc' = "write" /\ IdOf[cur] \notin raced => rsR[IdOf[cur]] = None
    <3> SUFFICES ASSUME pc' = "write", IdOf[cur] \notin raced
                 PROVE  rsR[IdOf[cur]] = None
      BY Zenon
    <3>1. ~ Exists(IdOf[cur])
      BY Zenon, <1>4, <2>1, <2>2
    <3> QED
      BY <1>2, <2>3, <3>1, StoredAt DEF Exists
  <2>5. pc' # "cache"
    BY <2>2
  <2>6. WorkerKnows'
    BY Zenon, <1>1, <1>7, <1>9, <2>4, <2>5 DEF WorkerKnows, db
  <2> QED
    BY Zenon, <1>1, <1>6, <1>8, <2>2, <2>6, SameDbCache
<1>10. CASE t # Worker
  <2>1. look'[Worker] = look[Worker] /\ pc' = pc
    BY Zenon, <1>1, <1>2, <1>7, <1>10
  <2>2. WorkerKnows'
    BY Zenon, <1>1, <1>5, <2>1 DEF CacheInv, WorkerKnows, db
  <2> QED
    BY Zenon, <1>1, <1>6, <1>8, <2>1, <2>2, SameDbCache
<1> QED
  BY Zenon, <1>9, <1>10

LEMMA ProcessRecoveredSigCache ==
  ASSUME Inv, CacheInv, NEW s \in Sig, ProcessRecoveredSig(s)
  PROVE  CacheInv'
<1> DEFINE k == IdOf[s]
           new == [at |-> "db", key |-> k, ret |-> "no"]
<1>1. pc = "idle" /\ cur' = s /\ UNCHANGED <<db, raced, cache>>
  BY Zenon DEF ProcessRecoveredSig
<1>2. /\ k \in Id /\ k \in Key /\ DOMAIN look = Thread /\ Worker \in Thread
      /\ rsS \in SUBSET Sig /\ look[Worker].at = "idle"
      /\ cache[k] \in {"yes", "no", "absent"}
  BY Zenon, <1>1, RecoveredSigsDbAssumption DEF Inv, TypeOK, Thread, Key, Answer
<1>3. \/ cache[k] = "yes" /\ pc' = "get" /\ look' = look
      \/ cache[k] = "no" /\ pc' = "write" /\ look' = look
      \/ pc' = "look" /\ look' = [look EXCEPT ![Worker] = new]
  <2>1. CASE cache[k] = "yes"
    BY <2>1 DEF ProcessRecoveredSig
  <2>2. CASE cache[k] = "no"
    BY <2>2 DEF ProcessRecoveredSig
  <2>3. CASE cache[k] = "absent"
    BY <2>3 DEF ProcessRecoveredSig
  <2> QED
    BY <1>2, <2>1, <2>2, <2>3
<1>4. \A j : Exists(j)' <=> Exists(j)
  BY Zenon, <1>1 DEF db, Exists, Stored
<1>5. pc # "cache" /\ pc' # "cache"
  BY <1>1, <1>3
<1>6. new.at = "db" /\ new.key = k /\ new.at # "insert"
  BY Zenon
<1> HIDE DEF new
<1>7. LooksFresh'
  <2> SUFFICES ASSUME NEW u \in Thread, look'[u].at # "idle"
               PROVE  /\ look'[u].key \in Key
                      /\ look'[u].at = "insert" /\ look'[u].key \notin raced =>
                           (look'[u].ret = "yes" <=> Exists(look'[u].key))
    BY Zenon, <1>1, <1>4 DEF LooksFresh
  <2>1. look'[u] = look[u] \/ look'[u] = new
    BY Zenon, <1>2, <1>3
  <2>2. CASE look'[u] = look[u]
    BY Zenon, <2>2 DEF CacheInv, LooksFresh
  <2>3. CASE look'[u] = new
    BY Zenon, <1>2, <1>6, <2>3
  <2> QED
    BY Zenon, <2>1, <2>2, <2>3
<1>8. look'[Worker].at # "idle" => look'[Worker].key = k
  BY Zenon, <1>2, <1>3, <1>6
<1>9. ASSUME pc' = "write", k \notin raced PROVE rsR[k] = None
  <2>1. cache[k] = "no"
    BY <1>3, <1>9
  <2>2. k \in Cached /\ cache[k] # "yes"
    BY <1>2, <2>1 DEF Cached
  <2>3. ~ Exists(k)
    BY Zenon, <1>5, <1>9, <2>2 DEF CacheInv, CacheCoherent
  <2> QED
    BY Zenon, <1>2, <2>3, StoredAt DEF Exists
<1>10. WorkerKnows'
  BY Zenon, <1>1, <1>5, <1>8, <1>9 DEF WorkerKnows, db
<1> QED
  BY Zenon, <1>1, <1>5, <1>7, <1>10, SameDbCache

LEMMA CacheRecoveredSigCache ==
  ASSUME Inv, CacheInv, CacheRecoveredSig
  PROVE  CacheInv'
<1>1. /\ pc = "cache" /\ pc' = "idle" /\ Insert({cur, IdOf[cur]}, "yes")
      /\ UNCHANGED <<db, look, cur, raced>>
  BY Zenon DEF CacheRecoveredSig
<1>2. \A k : Exists(k)' <=> Exists(k)
  BY Zenon, <1>1 DEF db, Exists, Stored
<1>3. LooksFresh'
  BY Zenon, <1>1, <1>2 DEF CacheInv, LooksFresh
<1>4. pc' # "cache" /\ pc' # "write"
  BY <1>1
<1>5. WorkerKnows'
  BY Zenon, <1>1, <1>4 DEF CacheInv, WorkerKnows
<1>6. CacheCoherent'
  <2> SUFFICES ASSUME NEW k \in Key, cache'[k] # "absent", k \notin raced
               PROVE  cache'[k] = "yes" <=> Exists(k)
    BY Zenon, <1>1, <1>2 DEF CacheCoherent, Cached
  <2>1. CASE k \in {cur, IdOf[cur]}
    <3>1. cache'[k] = "yes"
      BY Zenon, <1>1, <2>1, InsertAt
    <3>2. Exists(k)
      BY Zenon, <1>1, <2>1 DEF CacheInv, WorkerKnows
    <3> QED
      BY Zenon, <3>1, <3>2
  <2>2. CASE k \notin {cur, IdOf[cur]}
    <3>1. cache'[k] = cache[k] /\ cache[k] # "absent"
      BY Zenon, <1>1, <2>2, InsertAt
    <3> QED
      BY Zenon, <2>2, <3>1 DEF CacheInv, CacheCoherent, Cached
  <2> QED
    BY Zenon, <2>1, <2>2
<1> QED
  BY Zenon, <1>3, <1>5, <1>6 DEF CacheInv

LEMMA GetRecoveredSigByIdCache ==
  ASSUME Inv, CacheInv, GetRecoveredSigById
  PROVE  CacheInv'
<1>1. /\ pc = "get" /\ pc' = IF rsR[IdOf[cur]] # None THEN "idle" ELSE "write"
      /\ UNCHANGED <<db, raced, cache, look, cur>>
  BY Zenon DEF GetRecoveredSigById
<1>2. \A k : Exists(k)' <=> Exists(k)
  BY Zenon, <1>1 DEF db, Exists, Stored
<1>3. LooksFresh'
  BY Zenon, <1>1, <1>2 DEF CacheInv, LooksFresh
<1>4. pc' # "cache" /\ pc # "cache" /\ (pc' = "write" => rsR[IdOf[cur]] = None)
  BY <1>1
<1>5. WorkerKnows'
  BY Zenon, <1>1, <1>4 DEF CacheInv, WorkerKnows, db
<1> QED
  BY Zenon, <1>1, <1>3, <1>4, <1>5, SameDbCache

LEMMA RestartCache ==
  ASSUME Inv, CacheInv, Restart
  PROVE  CacheInv'
<1>1. /\ cache' = [k \in Key |-> "absent"] /\ look' = [t \in Thread |-> NoLook]
      /\ pc' = "idle"
  BY Zenon DEF Restart
<1>2. NoLook.at = "idle" /\ Worker \in Thread /\ pc' # "cache" /\ pc' # "write"
  BY <1>1 DEF NoLook, Thread
<1>3. LooksFresh' /\ WorkerKnows'
  BY Zenon, <1>1, <1>2 DEF LooksFresh, WorkerKnows
<1>4. CacheCoherent'
  BY Zenon, <1>1 DEF CacheCoherent, Cached
<1> QED
  BY Zenon, <1>3, <1>4 DEF CacheInv

LEMMA NextCache == Inv /\ CacheInv /\ [Next]_vars => CacheInv'
<1> SUFFICES ASSUME Inv, CacheInv, [Next]_vars
             PROVE  CacheInv'
  BY Zenon
<1>1. ASSUME NEW t \in Reader, NEW k \in Key, Lookup(t, k) PROVE CacheInv'
  BY Zenon, <1>1, LookupCache
<1>2. ASSUME NEW t \in Thread, LookupDb(t) \/ LookupInsert(t) PROVE CacheInv'
  BY Zenon, <1>2, LookupDbCache, LookupInsertCache
<1>3. ASSUME NEW s \in Sig, ProcessRecoveredSig(s) PROVE CacheInv'
  BY Zenon, <1>3, ProcessRecoveredSigCache
<1>4. CASE GetRecoveredSigById \/ WriteRecoveredSig \/ CacheRecoveredSig
  BY Zenon, <1>4, GetRecoveredSigByIdCache, WriteRecoveredSigCache, CacheRecoveredSigCache
<1>5. ASSUME NEW i \in Id, RemoveRecoveredSig(i) PROVE CacheInv'
  BY Zenon, <1>5, RemoveRecoveredSigCache
<1>6. ASSUME NEW i \in Id, WriteVoteForId(i) PROVE CacheInv'
  <2>1. /\ UNCHANGED <<db, raced, look, cur, pc>>
        /\ cache' = cache \/ (~ Exists(i) /\ Insert({i}, "no"))
    <3>1. UNCHANGED <<db, raced, look, cur, pc>>
      BY <1>6 DEF WriteVoteForId, worker
    <3>2. cache' = cache \/ (~ Exists(i) /\ Insert({i}, "no"))
      BY <1>6 DEF WriteVoteForId, KnownUnsigned
    <3> QED
      BY Zenon, <3>1, <3>2
  <2>2. "no" # "yes"
    OBVIOUS
  <2>3. ASSUME NEW k \in Key, cache'[k] # "absent"
        PROVE  cache'[k] = cache[k] \/ (cache'[k] = "yes" <=> Exists(k))
    <3>1. CASE ~ Exists(i) /\ Insert({i}, "no")
      <4>1. \/ k \in {i} /\ cache'[k] = "no"
            \/ k \notin {i} /\ cache'[k] = cache[k]
        BY Zenon, <2>3, <3>1, InsertAt
      <4> QED
        BY Zenon, <2>2, <3>1, <4>1
    <3> QED
      BY Zenon, <2>1, <3>1
  <2> QED
    BY Zenon, <2>1, <2>3, IdleCache
<1>7. CASE CleanupErase
  <2>1. /\ UNCHANGED <<db, raced, look, cur>> /\ pc = "erase" /\ pc' = "flush"
        /\ Erase(dead' \cup {IdOf[s] : s \in dead'})
    BY Zenon, <1>7 DEF CleanupErase
  <2>2. \A k \in Key : cache'[k] # "absent" => cache'[k] = cache[k]
    BY Zenon, <2>1, EraseAt
  <2>3. pc # "cache" /\ pc' \in {pc, "idle", "erase", "flush", "votes", "voteflush"}
    BY <2>1
  <2> QED
    BY Zenon, <2>1, <2>2, <2>3, IdleCache
<1>8. CASE CleanupFlush
  BY Zenon, <1>8, CleanupFlushCache
<1>9. CASE CleanupScan \/ CleanupOldVotesScan \/ CleanupOldVotesFlush
  <2>1. UNCHANGED <<db, raced, look, cur, cache>>
    BY Zenon, <1>9 DEF CleanupScan, CleanupOldVotesScan, CleanupOldVotesFlush
  <2>2. pc # "cache" /\ pc' \in {pc, "idle", "erase", "flush", "votes", "voteflush"}
    BY <1>9 DEF CleanupScan, CleanupOldVotesScan, CleanupOldVotesFlush
  <2> QED
    BY Zenon, <2>1, <2>2, IdleCache
<1>10. CASE Tick \/ UNCHANGED vars
  <2>1. UNCHANGED <<db, raced, look, cur, cache, pc>>
    BY Zenon, <1>10 DEF Tick, vars, worker
  <2> QED
    BY Zenon, <2>1, IdleCache
<1>11. CASE Restart
  BY Zenon, <1>11, RestartCache
<1> QED
  BY Zenon, <1>1, <1>2, <1>3, <1>4, <1>5, <1>6, <1>7, <1>8, <1>9, <1>10, <1>11 DEF Next

LEMMA SpecCache == Spec => []CacheInv
<1>1. Init => CacheInv
  <2> SUFFICES ASSUME Init
               PROVE  CacheInv
    BY Zenon
  <2>1. /\ cache = [k \in Key |-> "absent"] /\ look = [t \in Thread |-> NoLook]
        /\ pc # "cache" /\ pc # "write"
    BY DEF Init
  <2>2. NoLook.at = "idle" /\ Worker \in Thread
    BY DEF NoLook, Thread
  <2> QED
    BY Zenon, <2>1, <2>2 DEF CacheInv, CacheCoherent, Cached, LooksFresh, WorkerKnows
<1> QED
  BY <1>1, SpecInv, NextCache, PTL DEF Spec

\* However the cache is filled, truncated and emptied by several threads, an
\* entry tells the truth about the database unless its key was overtaken in one
\* of the three windows that the lookup, WriteRecoveredSig and the cleanup
\* leave between the database and the cache.
THEOREM CachesTruthful == Spec => []CacheCoherent
<1>1. CacheInv => CacheCoherent
  BY Zenon DEF CacheInv
<1> QED
  BY <1>1, SpecCache, PTL

\* ProcessRecoveredSig writes a signature that is stored already only if the
\* lookup that denied it was overtaken.
THEOREM KnownNotRewritten == Spec => []KnownSigBailsOut
<1>1. Inv /\ CacheInv => KnownSigBailsOut
  <2> SUFFICES ASSUME Inv, CacheInv, pc = "write", IdOf[cur] \notin raced
               PROVE  rsR[IdOf[cur]] # cur
    BY Zenon DEF KnownSigBailsOut
  <2>1. rsR[IdOf[cur]] = None
    BY Zenon DEF CacheInv, WorkerKnows
  <2>2. cur \in Sig
    BY DEF Inv
  <2> QED
    BY <2>1, <2>2, RecoveredSigsDbAssumption
<1> QED
  BY <1>1, SpecInv, SpecCache, PTL
=============================================================================
