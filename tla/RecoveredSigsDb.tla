-------------------------- MODULE RecoveredSigsDb --------------------------
(***************************************************************************)
(* CRecoveredSigsDb: the keys that one masternode keeps about recovered    *)
(* signatures and votes, the caches in front of them, and the threads that *)
(* use them.                                                               *)
(*                                                                         *)
(* The worker thread of CSigSharesManager processes recovered signatures   *)
(* and runs the cleanup, InstantSend removes signatures from another       *)
(* thread, and any thread looks a key up.  A lookup reads the cache under  *)
(* cs, the database without it, and then takes cs again to fill the cache. *)
(*                                                                         *)
(* Abstractions.  One LLMQ type.  signHash and object hash are one to one  *)
(* with the signature, and the keys rs_s and rs_h (and their caches) are   *)
(* written and erased together: both are the key s \in Sig.  The flush of  *)
(* a cleanup batch that exceeds 16 MB is left out.                         *)
(***************************************************************************)
EXTENDS Integers, FiniteSets

CONSTANTS
  Id,         \* request ids
  Sig,        \* recovered signatures
  IdOf,       \* IdOf[s]: the request id of s
  None,       \* no signature, no time, no key
  Reader,     \* threads that look keys up
  Worker,     \* the worker thread of CSigSharesManager
  MaxAge,     \* -recsigsmaxage
  CacheLimit, \* truncateThreshold of unordered_lru_cache
  MaxTime     \* bound: last value of the clock

Key == Id \cup Sig
Time == 0 .. MaxTime
Thread == Reader \cup {Worker}
Answer == {"yes", "no"}

ASSUME RecoveredSigsDbAssumption ==
  /\ IdOf \in [Sig -> Id]
  /\ None \notin Sig \cup Id \cup Int
  /\ Worker \notin Reader
  /\ Id \cap Sig = {}
  /\ MaxAge \in Nat /\ CacheLimit \in Nat /\ MaxTime \in Nat

VARIABLES
  now,
  rsR,       \* rsR[i]: rs_r of the id
  writeTime, \* writeTime[s]: rs_r of id and msgHash, holding the write time
  rsS,       \* rs_s and rs_h
  rsT,       \* rs_t: pairs of time and id
  rsV,       \* rs_v: ids voted on
  rsVT,      \* rs_vt: pairs of time and id
  cache,     \* hasSigForIdCache, hasSigForSessionCache, hasSigForHashCache
  look,      \* look[t]: the lookup thread t is in
  pc, cur,   \* the worker: where it is, the signature it processes
  old, dead, \* the worker's cleanup: time keys found, signatures to erase
  raced      \* history: keys that changed under a lookup's or the cleanup's hands

db == <<rsR, writeTime, rsS, rsT>>
votes == <<rsV, rsVT>>
worker == <<pc, cur, old, dead>>
vars == <<now, db, votes, cache, look, worker, raced>>

NoLook == [at |-> "idle", key |-> None, ret |-> "no"]

Init ==
  /\ now = 0
  /\ rsR = [i \in Id |-> None]
  /\ writeTime = [s \in Sig |-> None]
  /\ rsS = {} /\ rsT = {} /\ rsV = {} /\ rsVT = {}
  /\ cache = [k \in Key |-> "absent"]
  /\ look = [t \in Thread |-> NoLook]
  /\ pc = "idle" /\ cur = None /\ old = {} /\ dead = {}
  /\ raced = {}

Stored(r, ss) == {i \in Id : r[i] # None} \cup ss
Exists(k) == k \in Stored(rsR, rsS)

\* Keys whose presence changes in this step while a lookup still holds the old
\* answer, or while WriteRecoveredSig has yet to update the caches.
Overtaken ==
  {k \in Key : /\ (k \in Stored(rsR, rsS)) # (k \in Stored(rsR', rsS'))
               /\ \/ \E t \in Thread : look[t].at = "insert" /\ look[t].key = k
                  \/ pc = "cache" /\ k \in {cur, IdOf[cur]}}

-----------------------------------------------------------------------------
(* unordered_lru_cache.  Beyond CacheLimit entries an insertion first drops *)
(* some of them.                                                            *)

Cached == {k \in Key : cache[k] # "absent"}

\* The three caches are separate; one bound serves them all.
Insert(ks, v) ==
  \E keep \in SUBSET Cached :
    /\ Cardinality(Cached) <= CacheLimit => keep = Cached
    /\ cache' = [k \in Key |-> IF k \in ks THEN v
                               ELSE IF k \in keep THEN cache[k] ELSE "absent"]

Erase(ks) == cache' = [k \in Key |-> IF k \in ks THEN "absent" ELSE cache[k]]

-----------------------------------------------------------------------------
(* HasRecoveredSigForId, HasRecoveredSigForSession, HasRecoveredSigForHash. *)

\* A reader whose key is cached returns at once; this one misses.
Lookup(t, k) ==
  /\ look[t].at = "idle"
  /\ cache[k] = "absent"
  /\ look' = [look EXCEPT ![t] = [at |-> "db", key |-> k, ret |-> "no"]]
  /\ UNCHANGED <<now, db, votes, cache, worker, raced>>

LookupDb(t) ==
  /\ look[t].at = "db"
  /\ look' = [look EXCEPT ![t].at = "insert",
                          ![t].ret = IF Exists(look[t].key) THEN "yes" ELSE "no"]
  /\ UNCHANGED <<now, db, votes, cache, worker, raced>>

\* The worker goes on with the answer; a reader is done.
LookupInsert(t) ==
  /\ look[t].at = "insert"
  /\ Insert({look[t].key}, look[t].ret)
  /\ look' = [look EXCEPT ![t] = NoLook]
  /\ pc' = IF t # Worker THEN pc ELSE IF look[t].ret = "yes" THEN "get" ELSE "write"
  /\ UNCHANGED <<now, db, votes, cur, old, dead, raced>>

-----------------------------------------------------------------------------
(* The worker: CSigningManager::ProcessRecoveredSig.                       *)

ProcessRecoveredSig(s) ==
  /\ pc = "idle"
  /\ cur' = s
  /\ LET k == IdOf[s]
     IN CASE cache[k] = "yes" -> pc' = "get" /\ UNCHANGED look
          [] cache[k] = "no" -> pc' = "write" /\ UNCHANGED look
          [] OTHER -> /\ pc' = "look"
                      /\ look' = [look EXCEPT ![Worker] = [at |-> "db", key |-> k, ret |-> "no"]]
  /\ UNCHANGED <<now, db, votes, cache, old, dead, raced>>

\* Found: return, unless it vanished, which is treated as never had.
GetRecoveredSigById ==
  /\ pc = "get"
  /\ pc' = IF rsR[IdOf[cur]] # None THEN "idle" ELSE "write"
  /\ UNCHANGED <<now, db, votes, cache, look, cur, old, dead, raced>>

\* Mutant: the time key holds the time of expiry.
WriteRecoveredSigExpiry ==
  /\ pc = "write"
  /\ rsR' = [rsR EXCEPT ![IdOf[cur]] = cur]
  /\ writeTime' = [writeTime EXCEPT ![cur] = now]
  /\ rsS' = rsS \cup {cur}
  /\ rsT' = rsT \cup {<<now + MaxAge + 1, IdOf[cur]>>}
  /\ raced' = raced \cup Overtaken
  /\ pc' = "cache"
  /\ UNCHANGED <<now, votes, cache, look, cur, old, dead>>

\* WriteRecoveredSig: the batch.
WriteRecoveredSig ==
  /\ pc = "write"
  /\ rsR' = [rsR EXCEPT ![IdOf[cur]] = cur]
  /\ writeTime' = [writeTime EXCEPT ![cur] = now]
  /\ rsS' = rsS \cup {cur}
  /\ rsT' = rsT \cup {<<now, IdOf[cur]>>}
  /\ raced' = raced \cup Overtaken
  /\ pc' = "cache"
  /\ UNCHANGED <<now, votes, cache, look, cur, old, dead>>

\* Mutant: the cache by id keeps what the worker's lookup put there.
CacheRecoveredSigNotId ==
  /\ pc = "cache"
  /\ Insert({cur}, "yes")
  /\ pc' = "idle"
  /\ UNCHANGED <<now, db, votes, look, cur, old, dead, raced>>

\* WriteRecoveredSig: the caches, under cs.
CacheRecoveredSig ==
  /\ pc = "cache"
  /\ Insert({cur, IdOf[cur]}, "yes")
  /\ pc' = "idle"
  /\ UNCHANGED <<now, db, votes, look, cur, old, dead, raced>>

-----------------------------------------------------------------------------
(* Removal and cleanup.                                                    *)

\* Mutant: the caches keep their entries.
RemoveRecoveredSigCached(i) ==
  LET s == rsR[i]
  IN /\ s # None
     /\ rsR' = [rsR EXCEPT ![i] = None]
     /\ rsS' = rsS \ {s}
     /\ rsT' = rsT \ {<<writeTime[s], i>>}
     /\ writeTime' = [writeTime EXCEPT ![s] = None]
     /\ raced' = raced \cup Overtaken
     /\ UNCHANGED <<now, votes, cache, look, worker>>

\* RemoveRecoveredSig of InstantSend, with its batch under cs.
RemoveRecoveredSig(i) ==
  LET s == rsR[i]
  IN /\ s # None
     /\ rsR' = [rsR EXCEPT ![i] = None]
     /\ rsS' = rsS \ {s}
     /\ rsT' = rsT \ {<<writeTime[s], i>>}
     /\ writeTime' = [writeTime EXCEPT ![s] = None]
     /\ Erase({i, s})
     /\ raced' = raced \cup Overtaken
     /\ UNCHANGED <<now, votes, look, worker>>

Expired(keys) == {e \in keys : e[1] < now - MaxAge}

\* CleanupOldRecoveredSigs: collect the old time keys.
CleanupScan ==
  /\ pc = "idle"
  /\ old' = Expired(rsT)
  /\ pc' = IF Expired(rsT) = {} THEN "votes" ELSE "erase"
  /\ UNCHANGED <<now, db, votes, cache, look, cur, dead, raced>>

\* Read the signatures and drop them from the caches, under cs.
CleanupErase ==
  /\ pc = "erase"
  /\ dead' = {rsR[e[2]] : e \in old} \ {None}
  /\ Erase(dead' \cup {IdOf[s] : s \in dead'})
  /\ pc' = "flush"
  /\ UNCHANGED <<now, db, votes, look, cur, old, raced>>

\* Mutant: rs_s and rs_h stay behind.
CleanupFlushKeepsIndex ==
  /\ pc = "flush"
  /\ rsR' = [i \in Id |-> IF \E s \in dead : IdOf[s] = i THEN None ELSE rsR[i]]
  /\ writeTime' = [s \in Sig |-> IF s \in dead THEN None ELSE writeTime[s]]
  /\ rsT' = rsT \ old
  /\ rsS' = rsS
  /\ raced' = raced \cup Overtaken \cup {k \in Cached : Exists(k) /\ k \notin Stored(rsR', rsS')}
  /\ old' = {} /\ dead' = {} /\ pc' = "votes"
  /\ UNCHANGED <<now, votes, cache, look, cur>>

\* The batch, written after cs was released: a lookup may meanwhile have put a
\* key back into the cache.
CleanupFlush ==
  /\ pc = "flush"
  /\ rsR' = [i \in Id |-> IF \E s \in dead : IdOf[s] = i THEN None ELSE rsR[i]]
  /\ writeTime' = [s \in Sig |-> IF s \in dead THEN None ELSE writeTime[s]]
  /\ rsS' = rsS \ dead
  /\ rsT' = rsT \ old
  /\ raced' = raced \cup Overtaken \cup {k \in Cached : Exists(k) /\ k \notin Stored(rsR', rsS')}
  /\ old' = {} /\ dead' = {} /\ pc' = "votes"
  /\ UNCHANGED <<now, votes, cache, look, cur>>

\* CleanupOldVotes: collect the old votes.
CleanupOldVotesScan ==
  /\ pc = "votes"
  /\ old' = Expired(rsVT)
  /\ pc' = IF Expired(rsVT) = {} THEN "idle" ELSE "voteflush"
  /\ UNCHANGED <<now, db, votes, cache, look, cur, dead, raced>>

CleanupOldVotesFlush ==
  /\ pc = "voteflush"
  /\ rsVT' = rsVT \ old
  /\ rsV' = rsV \ {e[2] : e \in old}
  /\ old' = {} /\ pc' = "idle"
  /\ UNCHANGED <<now, db, cache, look, cur, dead, raced>>

-----------------------------------------------------------------------------
(* Votes, the clock, restarts.                                             *)

\* HasRecoveredSigForId says no, and the cache knows.
KnownUnsigned(i) ==
  \/ cache[i] = "no" /\ UNCHANGED cache
  \/ cache[i] = "absent" /\ ~ Exists(i) /\ Insert({i}, "no")

\* Mutant: no time key for the vote.
WriteVoteForIdNoTime(i) ==
  /\ i \notin rsV
  /\ KnownUnsigned(i)
  /\ pc \notin {"look", "get", "write", "cache"}
  /\ rsV' = rsV \cup {i}
  /\ UNCHANGED <<now, db, rsVT, look, worker, raced>>

\* AsyncSignIfMember's vote, under CSigningManager::cs, which ProcessRecoveredSig
\* holds too; written when there is none and no recovered signature is known.
WriteVoteForId(i) ==
  /\ i \notin rsV
  /\ KnownUnsigned(i)
  /\ pc \notin {"look", "get", "write", "cache"}
  /\ rsV' = rsV \cup {i}
  /\ rsVT' = rsVT \cup {<<now, i>>}
  /\ UNCHANGED <<now, db, look, worker, raced>>

Tick ==
  /\ now < MaxTime
  /\ now' = now + 1
  /\ UNCHANGED <<db, votes, cache, look, worker, raced>>

\* Only the database survives.
Restart ==
  /\ cache' = [k \in Key |-> "absent"]
  /\ look' = [t \in Thread |-> NoLook]
  /\ pc' = "idle" /\ cur' = None /\ old' = {} /\ dead' = {}
  /\ raced' = {}
  /\ UNCHANGED <<now, db, votes>>

Next ==
  \/ \E t \in Reader, k \in Key : Lookup(t, k)
  \/ \E t \in Thread : LookupDb(t) \/ LookupInsert(t)
  \/ \E s \in Sig : ProcessRecoveredSig(s)
  \/ GetRecoveredSigById \/ WriteRecoveredSig \/ CacheRecoveredSig
  \/ \E i \in Id : RemoveRecoveredSig(i) \/ WriteVoteForId(i)
  \/ CleanupScan \/ CleanupErase \/ CleanupFlush
  \/ CleanupOldVotesScan \/ CleanupOldVotesFlush
  \/ Tick \/ Restart

Spec == Init /\ [][Next]_vars

-----------------------------------------------------------------------------
(* Properties.                                                             *)

\* Type invariant.
TypeOK ==
  /\ now \in Time
  /\ rsR \in [Id -> Sig \cup {None}]
  /\ writeTime \in [Sig -> Time \cup {None}]
  /\ rsS \subseteq Sig
  /\ rsT \subseteq Time \X Id
  /\ rsV \subseteq Id
  /\ rsVT \subseteq Time \X Id
  /\ cache \in [Key -> Answer \cup {"absent"}]
  /\ look \in [Thread -> [at : {"idle", "db", "insert"}, key : Key \cup {None}, ret : Answer]]
  /\ pc \in {"idle", "look", "get", "write", "cache", "erase", "flush", "votes", "voteflush"}
  /\ cur \in Sig \cup {None}
  /\ old \subseteq Time \X Id
  /\ dead \subseteq Sig
  /\ raced \subseteq Key

\* Whatever is interleaved, and wherever the process stops, a stored signature
\* has all its keys: it is found by session and by hash, and the cleanup will
\* come across it (WriteRecoveredSig, RemoveRecoveredSig, CleanupOldRecoveredSigs).
IndexesComplete ==
  \A i \in Id : rsR[i] # None =>
    /\ IdOf[rsR[i]] = i
    /\ rsR[i] \in rsS
    /\ <<writeTime[rsR[i]], i>> \in rsT

\* The inductive strengthening: the worker knows what it works on, and the
\* time keys that its cleanup is about to erase belong to signatures that the
\* same batch erases.
Inv ==
  /\ TypeOK
  /\ IndexesComplete
  /\ pc \in {"look", "get", "write", "cache"} => cur \in Sig
  /\ look[Worker].at # "idle" => pc = "look"
  /\ pc = "flush" => \A e \in old : rsR[e[2]] \in dead \cup {None}

\* No session or hash key outlives its signature, as long as an id has one
\* signature only.
NoOrphanedSession ==
  (\A s, t \in Sig : IdOf[s] = IdOf[t] => s = t) =>
    \A s \in rsS : rsR[IdOf[s]] = s

\* Every vote has exactly one time key, and a time key has its vote, though
\* CleanupOldVotes takes no lock: no vote is kept for ever, and none is erased
\* by the key of an earlier vote on the same id.
VoteTimeKeys ==
  \A i \in Id : Cardinality({e \in rsVT : e[2] = i}) = IF i \in rsV THEN 1 ELSE 0

\* A cache entry tells the truth about the database unless the key changed
\* while a lookup was between its read and its insertion, while WriteRecoveredSig
\* was between batch and caches, or while CleanupOldRecoveredSigs was between
\* the caches and its batch: no other step leaves a stale entry behind.
CacheCoherent ==
  \A k \in Cached \ raced :
    \/ pc = "cache" /\ k \in {cur, IdOf[cur]}
    \/ cache[k] = "yes" <=> Exists(k)

\* ProcessRecoveredSig, about a signature that is already known: "In this case,
\* just bail out".  It is about to write, announce and hand on one that is
\* stored only if a lookup of another thread was overtaken by the first write.
KnownSigBailsOut ==
  pc = "write" /\ IdOf[cur] \notin raced => rsR[IdOf[cur]] # cur
=============================================================================
