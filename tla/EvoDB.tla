------------------------------- MODULE EvoDB -------------------------------
(***************************************************************************)
(* CEvoDB: the database of the deterministic masternode lists and of the   *)
(* mined final commitments.  Two transactions lie over the database on     *)
(* disk: the root transaction, written to disk when the chain state is     *)
(* flushed, and the current one, which holds the changes of the block that *)
(* is being connected or disconnected.  Each layer is represented by the   *)
(* store it presents, that is by the layers below it with its own writes   *)
(* and deletions applied.                                                  *)
(*                                                                         *)
(* CEvoDB locks itself for one read or one write only: what another thread *)
(* reads is the current transaction, committed or not.                     *)
(***************************************************************************)
VARIABLES
  disk,  \* db
  root,  \* db under rootDBTransaction
  cur    \* db under rootDBTransaction and curDBTransaction

dbVars == <<disk, root, cur>>

\* CDBTransaction::IsClean of the current transaction, asserted when a
\* transaction begins and when the root transaction is written.
IsClean == cur = root

\* Writes and deletions of one step: the current transaction becomes s.
Write(s) == cur' = s /\ UNCHANGED <<disk, root>>

\* The last writes of a block, then CScopedDBTransaction::Commit.
CommitCurTransaction(s) == cur' = s /\ root' = s /\ UNCHANGED disk

\* ~CScopedDBTransaction of a transaction that was not committed.
RollbackCurTransaction == cur' = root /\ UNCHANGED <<disk, root>>

\* One WriteBatch of the database, which is atomic.
CommitRootTransaction == disk' = root /\ UNCHANGED <<root, cur>>

\* The process starts with what is on disk.
Open(s) == disk' = s /\ root' = s /\ cur' = s
=============================================================================
