----------------------------- MODULE BufferedStore -----------------------------
(***************************************************************************)
(* The write buffer of knx-telegram-store: _BufferMixin over SqliteStore   *)
(* (buffered.py, and the backup lock and close() of backends/sqlite.py).   *)
(*                                                                         *)
(* One asyncio event loop runs the host's tasks and the periodic flush     *)
(* task.  A step of this module is what a task does between two awaits, so *)
(* store() and store_sync() are single steps, and everything that awaits   *)
(* the lock, the gate or the database is split there.  pc says at which    *)
(* await a task is suspended.  The database is a log of rows; a call to it *)
(* may fail, may be cancelled, and may have committed although it failed.  *)
(***************************************************************************)
EXTENDS Integers, Sequences, FiniteSets, Functions

CONSTANTS
  Hosts,         \* tasks of the host application
  Loop,          \* the periodic flush task
  NoTask,        \* "no task"
  Ops,           \* the operations the hosts call
  N,             \* how many telegrams store() accepts (bound of the model)
  D,             \* how many telegrams go through store_many() (bound of the model)
  MaxBuffer,     \* max_buffer_size
  Unstorable,    \* telegrams whose insert raises a data error every time
  Outdated,      \* telegrams older than the cutoff of an eviction
  Faulty,        \* whether database calls fail and the host cancels its tasks
  MaxAmbiguous   \* bound on failed writes whose transaction had committed

Tasks  == Hosts \cup {Loop}
Stored == 1..N               \* telegrams that go through store(), in arrival order
Direct == (N + 1)..(N + D)   \* telegrams that go through store_many()
Ids    == 1..(N + D)

AllOps == {"init", "flush", "query", "store_many", "optimize", "evict", "clear",
           "begin", "end", "close"}
Gated  == {"store_many", "optimize", "evict", "clear"}   \* run inside _write_gate()
Fates  == {"none", "overflow", "unstorable", "evicted", "cleared", "discarded", "raised"}

ASSUME StoreAssumption ==
  /\ Loop \notin Hosts
  /\ NoTask \notin Tasks
  /\ Ops \subseteq AllOps
  /\ N \in Nat
  /\ D \in Nat
  /\ MaxBuffer \in Nat \ {0}
  /\ Unstorable \subseteq Stored
  /\ Outdated \subseteq Ids
  /\ Faulty \in BOOLEAN
  /\ MaxAmbiguous \in Nat

VARIABLES
  buffer,           \* self._buffer
  batch,            \* per task: the telegrams its call is writing
  db,               \* the rows of the telegrams table
  pc, op,           \* per task: where it is suspended, and in which operation
  mutationOwner,    \* self._mutation_owner
  lockQueue,        \* the waiters of self._mutation_lock, first come first served
  eviction,         \* the shielded task of evict_older_than()
  writesAllowed,    \* self._writes_allowed
  backupInProgress, \* SqliteStore._backup_in_progress
  closing,          \* self._closing
  initialized,      \* self._initialized
  closed,           \* close() has returned
  \* history, read by the properties and by no guard of the code:
  accepted,         \* telegrams 1..accepted were given to store()
  direct,           \* how many telegrams were given to store_many()
  fate,             \* why a telegram left the buffer other than into the database
  mark,             \* per task: accepted when its query was called
  ambiguous,        \* failed writes that had committed so far
  backupHost        \* the host that began the backup and has yet to end it

data  == <<buffer, batch, db, fate, ambiguous>>
locks == <<mutationOwner, lockQueue, eviction>>
life  == <<closing, initialized, closed>>
gate  == <<writesAllowed, backupInProgress, backupHost>>
calls == <<accepted, direct, mark>>
vars  == <<data, pc, op, locks, life, gate, calls>>

\* At these awaits a task holds the mutation lock ...
Critical == {"write", "single", "direct", "vacuum", "evict", "evictcancel", "clear",
             "begin", "closebackup", "dispose"}
\* ... and at these the flush lock as well (the eviction task holds it for its caller).
Flushing == {"write", "single", "clear"}
HostPcs  == Critical \cup {"idle", "init", "gate", "lock", "read", "stale", "end", "closeend", "join"}
LoopPcs  == {"none", "sleep", "lock", "write", "single", "ended"}
-----------------------------------------------------------------------------
(* Operators on sequences.                                                 *)

Without(q, t) ==
  IF t \in Range(q)
  THEN LET i == CHOOSE i \in DOMAIN q : q[i] = t
       IN  SubSeq(q, 1, i - 1) \o SubSeq(q, i + 1, Len(q))
  ELSE q

Newest_All(s) == s   \* variant: a failed flush may exceed the limit

\* The newest MaxBuffer elements: s[-max_buffer_size:].
Newest(s) == IF Len(s) > MaxBuffer THEN SubSeq(s, Len(s) - MaxBuffer + 1, Len(s)) ELSE s

\* The positions of s, in order, whose element is not in drop: how a comprehension
\* [x for x in s if ...] reads s.  There is exactly one.
Keeping(s, drop) ==
  LET K == {i \in DOMAIN s : s[i] \notin drop}
  IN  {at \in [1..Cardinality(K) -> K] : \A i, j \in DOMAIN at : i < j => at[i] < at[j]}

Reading(s, at) == [i \in DOMAIN at |-> s[at[i]]]

\* What the store holds: rows, the buffer, and the batches on their way between them.
Writers  == {t \in Tasks : pc[t] \in {"write", "single"}}
InFlight == UNION {Range(batch[t]) : t \in Writers}
Held     == Range(db) \cup Range(buffer) \cup InFlight

Mark(S, why) == [i \in Ids |-> IF i \in S THEN why ELSE fate[i]]
-----------------------------------------------------------------------------
(* Waiting for the mutation lock.  A task that finds it free still takes   *)
(* two steps, Enqueue and Enter: a call that the host wraps in a task      *)
(* starts one turn of the event loop later.                                *)

Enqueue(t, q) == lockQueue' = Append(q, t)

Granted_NoLock(t) ==   \* variant: enters while another task is inside
  pc[t] = "lock" /\ lockQueue # <<>> /\ Head(lockQueue) = t

\* t is the next to hold the lock, and the lock is free.
Granted(t) ==
  /\ pc[t] = "lock"
  /\ mutationOwner = NoTask
  /\ lockQueue # <<>>
  /\ Head(lockQueue) = t

\* close() has cancelled the flush task and waits for it to end.
LoopCancelled == \E h \in Hosts : pc[h] = "join"

\* A call to the database by t may raise: it failed, or t was cancelled.
MayFail(t) == Faulty \/ (t = Loop /\ LoopCancelled)

\* A call to the database by t may succeed.
MaySucceed(t) == ~(t = Loop /\ LoopCancelled)

\* h, which does not hold the lock, returns from its call.
Idle(h) == pc' = [pc EXCEPT ![h] = "idle"] /\ op' = [op EXCEPT ![h] = "none"]

Return_Idle(t) ==   \* variant: the flush task ends like a call of a host
  /\ mutationOwner' = NoTask
  /\ pc' = [pc EXCEPT ![t] = "idle"]
  /\ op' = [op EXCEPT ![t] = "none"]

Return_LoopEnds(t) ==   \* variant: the flush task ends after one flush
  /\ mutationOwner' = NoTask
  /\ pc' = [pc EXCEPT ![t] = IF t # Loop THEN "idle" ELSE "ended"]
  /\ op' = [op EXCEPT ![t] = IF t # Loop THEN "none" ELSE "loop"]

Return_KeepsLock(t) ==   \* variant: the lock is not released when a call raises
  /\ mutationOwner' = mutationOwner
  /\ pc' = [pc EXCEPT ![t] = IF t # Loop THEN "idle" ELSE IF closing THEN "ended" ELSE "sleep"]
  /\ op' = [op EXCEPT ![t] = IF t # Loop THEN "none" ELSE "loop"]

\* t's call returns or raises, and t lets go of the lock.  _flush_loop() then sleeps again,
\* or ends: it tests _closing, and close() sets it before it cancels the loop.
Return(t) ==
  /\ mutationOwner' = NoTask
  /\ pc' = [pc EXCEPT ![t] = IF t # Loop THEN "idle" ELSE IF closing THEN "ended" ELSE "sleep"]
  /\ op' = [op EXCEPT ![t] = IF t # Loop THEN "none" ELSE "loop"]

\* flush(), after its _flush(): cancel the flush task and start a new one, which sleeps.
\* t goes on at "next"; q is the lock queue before.
ResetTimer(t, next, q) ==
  LET reset == pc[Loop] # "none" /\ ~closing
  IN  /\ pc' = [pc EXCEPT ![t] = next, ![Loop] = IF reset THEN "sleep" ELSE @]
      /\ lockQueue' = IF reset THEN Without(q, Loop) ELSE q

\* super().close(): SqliteStore.close() first ends a backup that is in progress.
CloseBackend(t) ==
  /\ mutationOwner' = t
  /\ op' = op
  /\ IF backupInProgress
     THEN /\ pc' = [pc EXCEPT ![t] = "closebackup"]
          /\ backupInProgress' = FALSE
          /\ backupHost' = NoTask
     ELSE /\ pc' = [pc EXCEPT ![t] = "dispose"]
          /\ UNCHANGED <<backupInProgress, backupHost>>
  /\ UNCHANGED writesAllowed

\* What t does when its _flush() returns, up to its next await.
AfterFlush(t, q) ==
  \/ /\ op[t] = "loop"
     /\ Return(t)
     /\ lockQueue' = q
     /\ UNCHANGED gate
  \/ /\ op[t] = "flush"
     /\ mutationOwner' = NoTask
     /\ ResetTimer(t, "idle", q)
     /\ op' = [op EXCEPT ![t] = "none"]
     /\ UNCHANGED gate
  \/ /\ op[t] = "query"
     /\ mutationOwner' = NoTask
     /\ ResetTimer(t, IF writesAllowed THEN "read" ELSE "stale", q)
     /\ UNCHANGED <<op, gate>>
  \/ /\ op[t] = "optimize"
     /\ mutationOwner' = t
     /\ ResetTimer(t, "vacuum", q)
     /\ UNCHANGED <<op, gate>>
  \/ /\ op[t] = "begin"
     /\ mutationOwner' = t
     /\ pc' = [pc EXCEPT ![t] = "begin"]
     /\ lockQueue' = q
     /\ UNCHANGED <<op, gate>>
  \/ /\ op[t] = "close"
     /\ CloseBackend(t)
     /\ lockQueue' = q
-----------------------------------------------------------------------------
Init ==
  /\ buffer = <<>>
  /\ batch = [t \in Tasks |-> <<>>]
  /\ db = <<>>
  /\ pc = [t \in Tasks |-> IF t = Loop THEN "none" ELSE "idle"]
  /\ op = [t \in Tasks |-> IF t = Loop THEN "loop" ELSE "none"]
  /\ mutationOwner = NoTask
  /\ lockQueue = <<>>
  /\ eviction = "none"
  /\ writesAllowed = TRUE
  /\ backupInProgress = FALSE
  /\ closing = FALSE
  /\ initialized = FALSE
  /\ closed = FALSE
  /\ accepted = 0
  /\ direct = 0
  /\ fate = [i \in Ids |-> "none"]
  /\ mark = [t \in Tasks |-> 0]
  /\ ambiguous = 0
  /\ backupHost = NoTask

Store_WhenClosing ==   \* variant: accepts telegrams after close()
  /\ accepted < N
  /\ Len(buffer) < MaxBuffer
  /\ accepted' = accepted + 1
  /\ buffer' = Append(buffer, accepted')
  /\ UNCHANGED <<batch, db, fate, pc, op, locks, life, gate, direct, mark, ambiguous>>

(* store() and store_sync().  Once the store is closing they drop the telegram and change   *)
(* nothing, so that call is a stuttering step.                                              *)
Store ==
  /\ ~closing
  /\ accepted < N
  /\ accepted' = accepted + 1
  /\ IF Len(buffer) >= MaxBuffer
     THEN /\ buffer' = Append(Tail(buffer), accepted')
          /\ fate' = Mark({Head(buffer)}, "overflow")
     ELSE /\ buffer' = Append(buffer, accepted')
          /\ fate' = fate
  /\ UNCHANGED <<batch, db, pc, op, locks, life, gate, direct, mark, ambiguous>>

\* start(): create the flush task, unless there is one.
Start ==
  /\ ~closing
  /\ pc[Loop] = "none"
  /\ pc' = [pc EXCEPT ![Loop] = "sleep"]
  /\ UNCHANGED <<data, op, locks, life, gate, calls>>

\* _flush_loop(): flush_interval has passed.
Tick ==
  /\ pc[Loop] = "sleep"
  /\ pc' = [pc EXCEPT ![Loop] = "lock"]
  /\ Enqueue(Loop, lockQueue)
  /\ UNCHANGED <<data, op, mutationOwner, eviction, life, gate, calls>>

(* A host calls an operation that needs the mutation lock; the gated ones wait for          *)
(* _writes_allowed first.                                                                   *)
Call(h, o) ==
  /\ pc[h] = "idle"
  /\ o \in Ops \ {"init", "end", "close"}
  /\ o = "store_many" => direct < D
  /\ op' = [op EXCEPT ![h] = o]
  /\ IF o \in Gated /\ ~writesAllowed
     THEN pc' = [pc EXCEPT ![h] = "gate"] /\ UNCHANGED lockQueue
     ELSE pc' = [pc EXCEPT ![h] = "lock"] /\ Enqueue(h, lockQueue)
  /\ IF o = "store_many"
     THEN /\ direct' = direct + 1
          /\ batch' = [batch EXCEPT ![h] = <<N + direct'>>]
     ELSE UNCHANGED <<direct, batch>>
  /\ mark' = [mark EXCEPT ![h] = IF o = "query" THEN accepted ELSE 0]
  /\ UNCHANGED <<buffer, db, fate, ambiguous, mutationOwner, eviction, life, gate, accepted>>

(* _writes_allowed.wait() returns.  (asyncio also wakes a waiter when the event is cleared  *)
(* again before it runs; that waiter goes back to the gate, as GateShut below does.)        *)
GateOpens(h) ==
  /\ pc[h] = "gate"
  /\ writesAllowed
  /\ pc' = [pc EXCEPT ![h] = "lock"]
  /\ Enqueue(h, lockQueue)
  /\ UNCHANGED <<data, op, mutationOwner, eviction, life, gate, calls>>

\* _mutation() on a closing store raises "Store is closing"; the flush loop logs it and ends.
Refuse(t) ==
  /\ Granted(t)
  /\ closing
  /\ op[t] # "close"
  /\ Return(t)
  /\ lockQueue' = Tail(lockQueue)
  /\ batch' = [batch EXCEPT ![t] = <<>>]
  /\ fate' = Mark(Range(batch[t]), "raised")
  /\ UNCHANGED <<buffer, db, ambiguous, eviction, life, gate, calls>>

\* _write_gate(): a backup began while h waited for the lock; h waits for its end.
GateShut(h) ==
  /\ Granted(h)
  /\ ~closing
  /\ op[h] \in Gated
  /\ ~writesAllowed
  /\ pc' = [pc EXCEPT ![h] = "gate"]
  /\ lockQueue' = Tail(lockQueue)
  /\ UNCHANGED <<data, op, mutationOwner, eviction, life, gate, calls>>
-----------------------------------------------------------------------------
(* _flush(): drain the buffer under the mutation lock and the flush lock.                   *)

Admitted_NoRecheck(t) ==   \* variant: the gate is not looked at again under the lock
  Granted(t) /\ (closing => op[t] = "close")

Admitted(t) ==
  /\ Granted(t)
  /\ closing => op[t] = "close"
  /\ op[t] \in Gated => writesAllowed

Flushes(t) ==
  \/ op[t] \in {"loop", "flush", "query", "optimize"}
  \/ op[t] = "begin" /\ writesAllowed
  \/ op[t] = "close" /\ initialized

\* The nested store_many() passes the gate: it is open, and the lock is t's own.
FlushBegin(t) ==
  /\ Admitted(t)
  /\ Flushes(t)
  /\ writesAllowed
  /\ buffer # <<>>
  /\ mutationOwner' = t
  /\ lockQueue' = Tail(lockQueue)
  /\ pc' = [pc EXCEPT ![t] = "write"]
  /\ batch' = [batch EXCEPT ![t] = buffer]
  /\ buffer' = <<>>
  /\ UNCHANGED <<db, fate, ambiguous, op, eviction, life, gate, calls>>

\* A backup is in progress, or there is nothing to write.
FlushNothing(t) ==
  /\ Admitted(t)
  /\ Flushes(t)
  /\ ~writesAllowed \/ buffer = <<>>
  /\ AfterFlush(t, Tail(lockQueue))
  /\ UNCHANGED <<data, eviction, life, calls>>

\* The rows of a batch are inserted in one transaction.
FlushWritten(t) ==
  /\ pc[t] = "write"
  /\ MaySucceed(t)
  /\ Range(batch[t]) \cap Unstorable = {}
  /\ db' = db \o batch[t]
  /\ batch' = [batch EXCEPT ![t] = <<>>]
  /\ AfterFlush(t, lockQueue)
  /\ UNCHANGED <<buffer, fate, ambiguous, eviction, life, calls>>

\* _data_error_cause() blames a telegram: store the batch one by one.
FlushDataError(t) ==
  /\ pc[t] = "write"
  /\ MaySucceed(t)
  /\ Range(batch[t]) \cap Unstorable # {}
  /\ pc' = [pc EXCEPT ![t] = "single"]
  /\ UNCHANGED <<data, op, locks, life, gate, calls>>

Requeue_Drops(t) ==   \* variant: a failed batch is gone
  /\ buffer' = buffer
  /\ fate' = fate
  /\ batch' = [batch EXCEPT ![t] = <<>>]

Requeue_Behind(t) ==   \* variant: the batch goes back behind the newer telegrams
  LET all == buffer \o batch[t]
  IN  /\ buffer' = Newest(all)
      /\ fate' = Mark(Range(all) \ Range(buffer'), "overflow")
      /\ batch' = [batch EXCEPT ![t] = <<>>]

\* _requeue(): what is left of the batch goes back in front of the buffer.
Requeue(t) ==
  LET all == batch[t] \o buffer
  IN  /\ buffer' = Newest(all)
      /\ fate' = Mark(Range(all) \ Range(buffer'), "overflow")
      /\ batch' = [batch EXCEPT ![t] = <<>>]

\* A failed write had committed the first n telegrams of the batch: none, or the whole
\* transaction.
Committed(t, n) ==
  /\ db' = db \o SubSeq(batch[t], 1, n)
  /\ ambiguous' = IF n = 0 THEN ambiguous ELSE ambiguous + 1
  /\ ambiguous' <= MaxAmbiguous

FlushFailed(t) ==
  /\ pc[t] = "write"
  /\ MayFail(t)
  /\ \/ Committed(t, 0)
     \/ Range(batch[t]) \cap Unstorable = {} /\ Committed(t, Len(batch[t]))
  /\ Requeue(t)
  /\ Return(t)
  /\ UNCHANGED <<lockQueue, eviction, life, gate, calls>>

\* One by one: the next telegram is stored, or dropped for good.
SingleDone(t) ==
  /\ pc[t] = "single"
  /\ MaySucceed(t)
  /\ IF Head(batch[t]) \in Unstorable
     THEN db' = db /\ fate' = Mark({Head(batch[t])}, "unstorable")
     ELSE db' = Append(db, Head(batch[t])) /\ fate' = fate
  /\ batch' = [batch EXCEPT ![t] = Tail(@)]
  /\ IF Len(batch[t]) = 1
     THEN AfterFlush(t, lockQueue)
     ELSE UNCHANGED <<pc, op, mutationOwner, lockQueue, gate>>
  /\ UNCHANGED <<buffer, ambiguous, eviction, life, calls>>

SingleFailed(t) ==
  /\ pc[t] = "single"
  /\ MayFail(t)
  /\ \/ Committed(t, 0)
     \/ Head(batch[t]) \notin Unstorable /\ Committed(t, 1)
  /\ Requeue(t)
  /\ Return(t)
  /\ UNCHANGED <<lockQueue, eviction, life, gate, calls>>

\* query(flush_first=True), get_stats() and get_last_unique_telegrams() read the database,
\* after a flush ("read") or after one that a backup held off ("stale").
ReadDone(h) ==
  /\ pc[h] \in {"read", "stale"}
  /\ Idle(h)
  /\ mark' = [mark EXCEPT ![h] = 0]
  /\ UNCHANGED <<data, locks, life, gate, accepted, direct>>
-----------------------------------------------------------------------------
(* The other holders of the mutation lock.                                                  *)

\* store_many(), evict_older_than() and clear() find the gate open.
Enter(h, o, next) ==
  /\ Admitted(h)
  /\ op[h] = o
  /\ mutationOwner' = h
  /\ lockQueue' = Tail(lockQueue)
  /\ pc' = [pc EXCEPT ![h] = next]
  /\ UNCHANGED <<op, life, gate, calls>>

EnterDirect(h) ==
  /\ Enter(h, "store_many", "direct")
  /\ UNCHANGED <<data, eviction>>

DirectWritten(h) ==
  /\ pc[h] = "direct"
  /\ db' = db \o batch[h]
  /\ batch' = [batch EXCEPT ![h] = <<>>]
  /\ Return(h)
  /\ UNCHANGED <<buffer, fate, ambiguous, lockQueue, eviction, life, gate, calls>>

\* The caller learns of the failure and keeps the telegrams.
DirectFailed(h) ==
  /\ pc[h] = "direct"
  /\ MayFail(h)
  /\ Committed(h, 0) \/ Committed(h, Len(batch[h]))
  /\ batch' = [batch EXCEPT ![h] = <<>>]
  /\ fate' = Mark(Range(batch[h]), "raised")
  /\ Return(h)
  /\ UNCHANGED <<buffer, lockQueue, eviction, life, gate, calls>>

\* evict_older_than() runs _evict_older_than() in a task of its own, shielded from the
\* cancellation of the caller, which keeps the mutation lock until that task has ended.
EnterEvict(h) ==
  /\ Enter(h, "evict", "evict")
  /\ eviction' = "running"
  /\ UNCHANGED data

\* The rows are deleted, then, before anything else runs, the buffered telegrams.
EvictionDone ==
  /\ eviction = "running"
  /\ eviction' = "done"
  /\ \E rows \in Keeping(db, Outdated), kept \in Keeping(buffer, Outdated) :
       /\ db' = Reading(db, rows)
       /\ buffer' = Reading(buffer, kept)
  /\ fate' = Mark(Held \cap Outdated, "evicted")
  /\ UNCHANGED <<batch, ambiguous, pc, op, mutationOwner, lockQueue, life, gate, calls>>

\* The backend's call raised, perhaps after the delete had committed.
EvictionFailed ==
  /\ eviction = "running"
  /\ Faulty
  /\ eviction' = "done"
  /\ \/ UNCHANGED <<db, fate>>
     \/ /\ \E rows \in Keeping(db, Outdated) : db' = Reading(db, rows)
        /\ fate' = Mark((Range(db) \ Range(buffer)) \cap Outdated, "evicted")
  /\ UNCHANGED <<buffer, batch, ambiguous, pc, op, mutationOwner, lockQueue, life, gate, calls>>

EvictCancelled_Leaves(h) ==   \* variant: the caller does not wait for its eviction task
  /\ pc[h] = "evict"
  /\ Faulty
  /\ eviction = "running"
  /\ Return(h)
  /\ UNCHANGED <<data, lockQueue, eviction, life, gate, calls>>

EvictCancelled(h) ==
  /\ pc[h] = "evict"
  /\ Faulty
  /\ eviction = "running"
  /\ pc' = [pc EXCEPT ![h] = "evictcancel"]
  /\ UNCHANGED <<data, op, locks, life, gate, calls>>

EvictReturns(h) ==
  /\ pc[h] \in {"evict", "evictcancel"}
  /\ eviction = "done"
  /\ eviction' = "none"
  /\ Return(h)
  /\ UNCHANGED <<data, lockQueue, life, gate, calls>>

\* clear(): the buffer first, then the tables.
EnterClear(h) ==
  /\ Enter(h, "clear", "clear")
  /\ buffer' = <<>>
  /\ fate' = Mark(Range(buffer) \cup InFlight, "cleared")
  /\ UNCHANGED <<batch, db, ambiguous, eviction>>

Cleared(h) ==
  /\ pc[h] = "clear"
  /\ db' = <<>>
  /\ fate' = Mark(Range(db), "cleared")
  /\ Return(h)
  /\ UNCHANGED <<buffer, batch, ambiguous, lockQueue, eviction, life, gate, calls>>

\* optimize(): VACUUM ends, or fails; it changes no row.
Vacuumed(h) ==
  /\ pc[h] = "vacuum"
  /\ Return(h)
  /\ UNCHANGED <<data, lockQueue, eviction, life, gate, calls>>

\* clear(), begin_backup() or dispose() raises: nothing changed but what is done already.
Raises(h) ==
  /\ pc[h] \in {"clear", "begin", "dispose"}
  /\ MayFail(h)
  /\ Return(h)
  /\ UNCHANGED <<data, lockQueue, eviction, life, gate, calls>>
-----------------------------------------------------------------------------
(* Backups.                                                                                 *)

\* begin_backup() during a backup raises.
BeginRefused(h) ==
  /\ Admitted(h)
  /\ op[h] = "begin"
  /\ ~writesAllowed
  /\ Return(h)
  /\ lockQueue' = Tail(lockQueue)
  /\ UNCHANGED <<data, eviction, life, gate, calls>>

\* SqliteStore.begin_backup() has the write lock; the gate shuts in the same step.
BackupBegun(h) ==
  /\ pc[h] = "begin"
  /\ backupInProgress' = TRUE
  /\ writesAllowed' = FALSE
  /\ backupHost' = h
  /\ Return(h)
  /\ UNCHANGED <<data, lockQueue, eviction, life, calls>>

\* end_backup(), called by the host that began the backup.  It takes no lock: the flag of
\* the backend falls first, the gate opens when the COMMIT has been answered, if only by an
\* error.
CallEnd(h) ==
  /\ pc[h] = "idle"
  /\ backupHost = h
  /\ backupInProgress
  /\ backupInProgress' = FALSE
  /\ backupHost' = NoTask
  /\ pc' = [pc EXCEPT ![h] = "end"]
  /\ op' = [op EXCEPT ![h] = "end"]
  /\ UNCHANGED <<data, locks, life, writesAllowed, calls>>

BackupEnded(h) ==
  /\ pc[h] = "end"
  /\ writesAllowed' = TRUE
  /\ Idle(h)
  /\ UNCHANGED <<data, locks, life, backupInProgress, backupHost, calls>>
-----------------------------------------------------------------------------
(* initialize() and close().                                                                *)

CallInit(h) ==
  /\ pc[h] = "idle"
  /\ "init" \in Ops
  /\ ~initialized
  /\ pc' = [pc EXCEPT ![h] = "init"]
  /\ op' = [op EXCEPT ![h] = "init"]
  /\ UNCHANGED <<data, locks, life, gate, calls>>

InitReturns(h) ==
  /\ pc[h] = "init"
  /\ initialized' \in {TRUE} \cup IF Faulty THEN {initialized} ELSE {}
  /\ Idle(h)
  /\ UNCHANGED <<data, locks, closing, closed, gate, calls>>

\* close(), once no backup is in progress: cancel the flush task.  One that sleeps or waits
\* for the lock ends at once; one that writes ends when its call has raised.
StopLoop(h) ==
  /\ op' = [op EXCEPT ![h] = "close"]
  /\ IF pc[Loop] \in {"write", "single"}
     THEN pc' = [pc EXCEPT ![h] = "join"] /\ UNCHANGED lockQueue
     ELSE /\ pc' = [pc EXCEPT ![h] = "lock", ![Loop] = "ended"]
          /\ Enqueue(h, Without(lockQueue, Loop))

CallClose(h) ==
  /\ pc[h] = "idle"
  /\ "close" \in Ops
  /\ ~closed
  /\ closing' = TRUE
  /\ writesAllowed
  /\ StopLoop(h)
  /\ UNCHANGED <<data, mutationOwner, eviction, initialized, closed, gate, calls>>

\* close() during a backup ends it first.
CloseEndsBackup(h) ==
  /\ pc[h] = "idle"
  /\ "close" \in Ops
  /\ ~closed
  /\ closing' = TRUE
  /\ ~writesAllowed
  /\ backupInProgress
  /\ backupInProgress' = FALSE
  /\ backupHost' = NoTask
  /\ pc' = [pc EXCEPT ![h] = "closeend"]
  /\ op' = [op EXCEPT ![h] = "close"]
  /\ UNCHANGED <<data, locks, initialized, closed, writesAllowed, calls>>

\* close() while end_backup() waits for its COMMIT: SqliteStore.end_backup() raises "No
\* backup is in progress", the gate opens on the way out, and close() has done nothing else.
CloseRaises(h) ==
  /\ pc[h] = "idle"
  /\ "close" \in Ops
  /\ ~closed
  /\ closing' = TRUE
  /\ ~writesAllowed
  /\ ~backupInProgress
  /\ writesAllowed' = TRUE
  /\ UNCHANGED <<data, pc, op, locks, initialized, closed, backupInProgress, backupHost, calls>>

CloseEndedBackup(h) ==
  /\ pc[h] = "closeend"
  /\ writesAllowed' = TRUE
  /\ StopLoop(h)
  /\ UNCHANGED <<data, mutationOwner, eviction, life, backupInProgress, backupHost, calls>>

\* The COMMIT failed, or close() was cancelled: it raises.
CloseEndFailed(h) ==
  /\ pc[h] = "closeend"
  /\ MayFail(h)
  /\ writesAllowed' = TRUE
  /\ Idle(h)
  /\ UNCHANGED <<data, locks, life, backupInProgress, backupHost, calls>>

\* A cancellation of close() is lost at this await.
LoopJoined(h) ==
  /\ pc[h] = "join"
  /\ pc[Loop] = "ended"
  /\ pc' = [pc EXCEPT ![h] = "lock"]
  /\ Enqueue(h, lockQueue)
  /\ UNCHANGED <<data, op, mutationOwner, eviction, life, gate, calls>>

\* Never initialized: the buffer is dropped.
CloseDiscards(h) ==
  /\ Granted(h)
  /\ op[h] = "close"
  /\ ~initialized
  /\ buffer' = <<>>
  /\ fate' = Mark(Range(buffer), "discarded")
  /\ lockQueue' = Tail(lockQueue)
  /\ CloseBackend(h)
  /\ UNCHANGED <<batch, db, ambiguous, eviction, life, calls>>

\* SqliteStore.close() ended the backup itself.
BackendEndedBackup(h) ==
  /\ pc[h] = "closebackup"
  /\ writesAllowed' = TRUE
  /\ \/ pc' = [pc EXCEPT ![h] = "dispose"] /\ UNCHANGED <<op, mutationOwner>>
     \/ MayFail(h) /\ Return(h)
  /\ UNCHANGED <<data, lockQueue, eviction, life, backupInProgress, backupHost, calls>>

Disposed(h) ==
  /\ pc[h] = "dispose"
  /\ closed' = TRUE
  /\ Return(h)
  /\ UNCHANGED <<data, lockQueue, eviction, closing, initialized, gate, calls>>

\* The host cancels a task that waits for the gate or for the lock.
Cancelled(h) ==
  /\ pc[h] \in {"gate", "lock"}
  /\ Faulty
  /\ Idle(h)
  /\ lockQueue' = Without(lockQueue, h)
  /\ batch' = [batch EXCEPT ![h] = <<>>]
  /\ fate' = Mark(Range(batch[h]), "raised")
  /\ UNCHANGED <<buffer, db, ambiguous, mutationOwner, eviction, life, gate, calls>>
-----------------------------------------------------------------------------
FlushStep(t) ==
  \/ FlushBegin(t) \/ FlushNothing(t) \/ FlushWritten(t) \/ FlushDataError(t)
  \/ FlushFailed(t) \/ SingleDone(t) \/ SingleFailed(t) \/ Refuse(t)

HostStep(h) ==
  \/ \E o \in AllOps : Call(h, o)
  \/ GateOpens(h) \/ GateShut(h) \/ Cancelled(h) \/ ReadDone(h)
  \/ EnterDirect(h) \/ DirectWritten(h) \/ DirectFailed(h)
  \/ EnterEvict(h) \/ EvictCancelled(h) \/ EvictReturns(h)
  \/ EnterClear(h) \/ Cleared(h) \/ Vacuumed(h) \/ Raises(h)

BackupStep(h) ==
  BeginRefused(h) \/ BackupBegun(h) \/ CallEnd(h) \/ BackupEnded(h)

CloseStep(h) ==
  \/ CallInit(h) \/ InitReturns(h)
  \/ CallClose(h) \/ CloseEndsBackup(h) \/ CloseRaises(h) \/ CloseEndedBackup(h)
  \/ CloseEndFailed(h) \/ LoopJoined(h) \/ CloseDiscards(h) \/ BackendEndedBackup(h) \/ Disposed(h)

Next ==
  \/ Store
  \/ Start
  \/ Tick
  \/ EvictionDone
  \/ EvictionFailed
  \/ \E t \in Tasks : FlushStep(t)
  \/ \E h \in Hosts : HostStep(h) \/ BackupStep(h) \/ CloseStep(h)

Spec == Init /\ [][Next]_vars
=============================================================================
