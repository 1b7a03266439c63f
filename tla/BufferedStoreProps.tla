--------------------------- MODULE BufferedStoreProps ---------------------------
(***************************************************************************)
(* What the write buffer guarantees: safety, what a step may never do,     *)
(* liveness, and that it implements WriteBehind.                           *)
(***************************************************************************)
EXTENDS BufferedStore

TypeOK ==
  /\ buffer \in Seq(Stored)
  /\ batch \in [Tasks -> Seq(Ids)]
  /\ db \in Seq(Ids)
  /\ pc \in [Tasks -> HostPcs \cup LoopPcs]
  /\ \A h \in Hosts : pc[h] \in HostPcs
  /\ pc[Loop] \in LoopPcs
  /\ op \in [Tasks -> AllOps \cup {"none", "loop"}]
  /\ \A h \in Hosts : op[h] # "loop"
  /\ op[Loop] = "loop"
  /\ mutationOwner \in Tasks \cup {NoTask}
  /\ lockQueue \in Seq(Tasks)
  /\ eviction \in {"none", "running", "done"}
  /\ <<writesAllowed, backupInProgress>> \in BOOLEAN \X BOOLEAN
  /\ <<closing, initialized, closed>> \in BOOLEAN \X BOOLEAN \X BOOLEAN
  /\ accepted \in 0..N
  /\ direct \in 0..D
  /\ fate \in [Ids -> Fates]
  /\ mark \in [Tasks -> 0..N]
  /\ ambiguous \in 0..MaxAmbiguous
  /\ backupHost \in Hosts \cup {NoTask}

\* The telegrams a flush took out of the buffer and is writing.
Writing ==
  IF mutationOwner # NoTask /\ pc[mutationOwner] \in {"write", "single"}
  THEN batch[mutationOwner]
  ELSE <<>>

Pending == Writing \o buffer
-----------------------------------------------------------------------------
(* Safety.                                                                 *)

\* Only the owner of the mutation lock is inside a flush, a direct write, an eviction, a
\* clear, a VACUUM, the start of a backup or the end of close() - and an eviction task runs
\* only while its caller, cancelled or not, still holds the lock.  So the flush lock, which
\* is only taken under the mutation lock, is never contended.
MutualExclusion ==
  /\ \A t \in Tasks : pc[t] \in Critical <=> mutationOwner = t
  /\ eviction # "none" => \E h \in Hosts : pc[h] \in {"evict", "evictcancel"}
  /\ \A t \in Tasks : pc[t] \in Flushing => eviction = "none"

\* store(), and a failed flush that puts its batch back, keep at most max_buffer_size
\* telegrams.
BufferBound == Len(buffer) <= MaxBuffer

\* Every telegram store() accepted is in the buffer, in a write, or in the database, unless
\* it left through a loss the documentation names: no interleaving, failure or cancellation
\* loses one silently ("On flush failure the batch is re-prepended so no writes are lost").
NoSilentLoss ==
  \A i \in 1..accepted : i \in Held \/ fate[i] # "none"

\* The telegrams of s that went through store() are in the order of their arrival.
InOrder(s) ==
  \A p, q \in DOMAIN s : p < q /\ {s[p], s[q]} \subseteq Stored => s[p] < s[q]

\* Telegrams reach the database in the order store() took them, each once, through failed
\* flushes, the one-by-one fallback and evictions - unless a write failed after its
\* transaction had committed: then a telegram may be there once more for each such write.
InOrderOnce ==
  /\ ambiguous = 0 => InOrder(db \o Pending)
  /\ \A i \in Ids :
       Cardinality({p \in DOMAIN db : db[p] = i})
         + (IF i \in Range(Pending) THEN 1 ELSE 0) <= 1 + ambiguous

\* query(flush_first=True): when its flush has returned, every telegram stored before the
\* call is visible to the read, however long the read waits and whatever flush was running
\* when it was called, unless a loss took it.  A query during a backup promises less.
ReadYourWrites ==
  \A h \in Hosts : pc[h] = "read" =>
    \A i \in 1..mark[h] : i \in Range(db) \/ fate[i] # "none"

\* Whoever is inside the write gate found it open and it stays open until they leave: no
\* nested store_many() of a flush can wait for the end of a backup while holding the lock
\* that begin_backup() and close() need.
GateOpenInside ==
  \A t \in Tasks : pc[t] \in Critical \ {"dispose", "closebackup"} => writesAllowed

\* close() of an initialized store returns only when nothing is left to write; of any store
\* only when no telegram is left in the buffer ("close() flushes the buffer").
CloseFlushes ==
  closed => buffer = <<>> /\ Writers = {}
-----------------------------------------------------------------------------
(* What a step may never do.                                               *)

\* A telegram that was evicted, cleared, dropped or reported to its caller as failed never
\* turns up in the database later: no write in flight overtakes clear() or an eviction.
NoResurrection ==
  [][\A i \in Ids : fate[i] # "none" /\ i \notin Range(db) => i \notin Range(db')]_vars

\* From the return of begin_backup() to the call that ends the backup no row changes.
BackupQuiet == [][backupHost # NoTask => db' = db]_vars

-----------------------------------------------------------------------------
(* Liveness.                                                               *)

\* A task that can go on does: the event loop runs every ready task, every database call is
\* answered, the flush task is started, and the host that began a backup ends it.  Calls,
\* store(), cancellations and failures are never forced.
Progress(h) ==
  \/ GateOpens(h) \/ GateShut(h) \/ ReadDone(h) \/ EnterDirect(h) \/ DirectWritten(h)
  \/ EnterEvict(h) \/ EvictReturns(h) \/ EnterClear(h) \/ Cleared(h) \/ Vacuumed(h)
  \/ BackupStep(h) \/ InitReturns(h) \/ CloseEndedBackup(h) \/ LoopJoined(h)
  \/ CloseDiscards(h) \/ BackendEndedBackup(h) \/ Disposed(h)

FairSpec ==
  /\ Spec
  /\ WF_vars(Start)
  /\ WF_vars(Tick)
  /\ WF_vars(EvictionDone)
  /\ \A t \in Tasks : WF_vars(FlushStep(t))
  /\ \A h \in Hosts : WF_vars(Progress(h))

\* A database call that is made again and again succeeds in the end, and backups end.
Recovers ==
  /\ SF_vars(\E t \in Tasks : FlushWritten(t) \/ FlushDataError(t))
  /\ SF_vars(\E t \in Tasks : SingleDone(t))
  /\ []<>writesAllowed

\* The periodic flush: with a database that recovers, every accepted telegram reaches it, or is
\* lost in one of the documented ways, however flushes fail, flush() resets the timer, and
\* backups come and go - unless the host closes the store.
EventuallyStored ==
  Recovers =>
    \A i \in Stored : accepted >= i ~> (i \in Range(db) \/ fate[i] # "none" \/ closing)

\* No deadlock: every call ends, or waits at the gate for the end of a backup.  Neither the
\* re-entrant lock, nor the join of the flush task in close(), nor the shielded eviction can
\* block for good.  A call held off by backups goes on when there are no more of them.
EveryCallEnds ==
  /\ \A h \in Hosts : pc[h] \notin {"idle", "gate"} ~> pc[h] \in {"idle", "gate"}
  /\ \A h \in Hosts : <>[]writesAllowed => (pc[h] = "gate" ~> pc[h] # "gate")

\* Once closing has begun, close() completes: it stops the flush task, and disposes of the
\* backend.
CloseCompletes == closing ~> closed
-----------------------------------------------------------------------------
(* The promise.                                                            *)

WB == INSTANCE WriteBehind WITH pending <- Pending, stored <- db

\* BufferedStore, its locks, tasks, failures and backups included, is a WriteBehind.
ImplementsWriteBehind == WB!Spec
=============================================================================
