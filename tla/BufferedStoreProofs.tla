-------------------------- MODULE BufferedStoreProofs --------------------------
(***************************************************************************)
(* Proofs about BufferedStore, for every number of hosts, every buffer     *)
(* limit and every number of telegrams.                                    *)
(***************************************************************************)
EXTENDS BufferedStoreProps, SequenceTheorems, FiniteSetTheorems, TLAPS
-----------------------------------------------------------------------------
(* What the helpers on sequences return.                                   *)

\* A task that leaves the lock queue leaves a queue of tasks.
LEMMA WithoutType ==
  ASSUME NEW S, NEW q \in Seq(S), NEW t
  PROVE  Without(q, t) \in Seq(S)
<1>1. CASE t \notin Range(q)
  BY <1>1 DEF Without
<1>2. CASE t \in Range(q)
  <2> DEFINE i == CHOOSE i \in DOMAIN q : q[i] = t
  <2>1. i \in DOMAIN q
    BY <1>2 DEF Range
  <2>2. i \in 1..Len(q) /\ Len(q) \in Nat
    BY <2>1, LenProperties
  <2> HIDE DEF i
  <2>3. SubSeq(q, 1, i - 1) \in Seq(S)
    BY <2>2, SubSeqProperties
  <2>4. SubSeq(q, i + 1, Len(q)) \in Seq(S)
    BY <2>2, SubSeqProperties
  <2>5. Without(q, t) = SubSeq(q, 1, i - 1) \o SubSeq(q, i + 1, Len(q))
    BY <1>2 DEF Without, i
  <2> QED
    BY <2>3, <2>4, <2>5, ConcatProperties
<1> QED
  BY <1>1, <1>2

\* Trimming keeps at most MaxBuffer elements of the sequence.
LEMMA NewestType ==
  ASSUME NEW S, NEW s \in Seq(S)
  PROVE  Newest(s) \in Seq(S) /\ Len(Newest(s)) <= MaxBuffer
<1>1. Len(s) \in Nat /\ MaxBuffer \in Nat \ {0}
  BY LenProperties, StoreAssumption
<1>2. CASE Len(s) <= MaxBuffer
  BY <1>1, <1>2 DEF Newest
<1>3. CASE Len(s) > MaxBuffer
  <2>1. Newest(s) = SubSeq(s, Len(s) - MaxBuffer + 1, Len(s))
    BY <1>3 DEF Newest
  <2>2. Len(s) - MaxBuffer + 1 \in 1..Len(s) + 1
    BY <1>1, <1>3
  <2>3. Newest(s) \in Seq(S) /\ Len(Newest(s)) = MaxBuffer
    BY <1>1, <1>3, <2>1, <2>2, SubSeqProperties
  <2> QED
    BY <1>1, <2>3
<1> QED
  BY <1>1, <1>2, <1>3

\* A comprehension yields a sequence of elements of the one it reads, and none longer.
LEMMA ReadingType ==
  ASSUME NEW S, NEW s \in Seq(S), NEW drop, NEW at \in Keeping(s, drop)
  PROVE  Reading(s, at) \in Seq(S) /\ Len(Reading(s, at)) <= Len(s)
<1> DEFINE K == {i \in DOMAIN s : s[i] \notin drop}
<1>1. Len(s) \in Nat /\ DOMAIN s = 1..Len(s) /\ \A i \in 1..Len(s) : s[i] \in S
  BY LenProperties, ElementOfSeq
<1>2. IsFiniteSet(1..Len(s)) /\ Cardinality(1..Len(s)) = Len(s)
  <2>1. 1 \in Int /\ Len(s) \in Int
    BY <1>1
  <2>2. /\ IsFiniteSet(1..Len(s))
        /\ Cardinality(1..Len(s)) = IF 1 > Len(s) THEN 0 ELSE Len(s) - 1 + 1
    BY <2>1, FS_Interval, Zenon
  <2> QED
    BY <1>1, <2>2
<1>3. IsFiniteSet(K) /\ Cardinality(K) <= Len(s)
  <2>1. K \in SUBSET (1..Len(s))
    BY <1>1
  <2> QED
    BY <1>2, <2>1, FS_Subset
<1>4. Cardinality(K) \in Nat
  BY <1>3, FS_CardinalityType
<1>5. at \in [1..Cardinality(K) -> K]
  BY DEF Keeping
<1>6. Reading(s, at) = [i \in 1..Cardinality(K) |-> s[at[i]]]
  BY <1>5 DEF Reading
<1>7. Reading(s, at) \in [1..Cardinality(K) -> S]
  BY <1>1, <1>5, <1>6
<1>8. Reading(s, at) \in Seq(S)
  BY <1>4, <1>7, SeqDef
<1>9. Len(Reading(s, at)) = Cardinality(K)
  BY <1>4, <1>6, <1>8, LenProperties
<1> QED
  BY <1>3, <1>8, <1>9

\* ... and it loses no element but those of drop: an increasing enumeration of the kept
\* positions reaches each of them.
LEMMA ReadingKeeps ==
  ASSUME NEW S, NEW s \in Seq(S), NEW drop, NEW at \in Keeping(s, drop)
  PROVE  \A x \in Range(s) : x \in drop \/ x \in Range(Reading(s, at))
<1> DEFINE K == {i \in DOMAIN s : s[i] \notin drop}
           n == Cardinality(K)
<1>1. Len(s) \in Nat /\ DOMAIN s = 1..Len(s)
  BY LenProperties
<1>2. IsFiniteSet(1..Len(s))
  <2>1. 1 \in Int /\ Len(s) \in Int
    BY <1>1
  <2> QED
    BY <2>1, FS_Interval
<1>3. IsFiniteSet(K)
  <2>1. K \in SUBSET (1..Len(s))
    BY <1>1
  <2> QED
    BY <1>2, <2>1, FS_Subset
<1>4. n \in Nat
  BY <1>3, FS_CardinalityType
<1>5. at \in [1..n -> K] /\ \A i, j \in 1..n : i < j => at[i] < at[j]
  BY DEF Keeping
<1>6. \A i \in 1..n : at[i] \in Int
  BY <1>1, <1>5
<1>7. at \in Injection(1..n, K)
  <2>1. \A i, j \in 1..n : at[i] = at[j] => i = j
    <3> SUFFICES ASSUME NEW i \in 1..n, NEW j \in 1..n, at[i] = at[j], i # j PROVE FALSE
      OBVIOUS
    <3>1. i < j \/ j < i
      BY <1>4
    <3> HIDE DEF n
    <3> QED
      BY <1>5, <1>6, <3>1
  <2> QED
    BY <1>5, <2>1 DEF Injection, IsInjective
<1>8. IsFiniteSet(1..n) /\ Cardinality(1..n) = n
  <2>1. 1 \in Int /\ n \in Int
    BY <1>4
  <2>2. IsFiniteSet(1..n) /\ Cardinality(1..n) = IF 1 > n THEN 0 ELSE n - 1 + 1
    BY <2>1, FS_Interval, Zenon
  <2> HIDE DEF n
  <2> QED
    BY <1>4, <2>2
<1>9. at \in Surjection(1..n, K)
  BY <1>3, <1>7, <1>8, FS_Injection
<1>10. \A i \in K : \E j \in 1..n : at[j] = i
  BY <1>9 DEF Surjection
<1>11. DOMAIN at = 1..n
  BY <1>5
<1> SUFFICES ASSUME NEW x \in Range(s), x \notin drop
             PROVE  x \in Range(Reading(s, at))
  OBVIOUS
<1>12. PICK i \in DOMAIN s : s[i] = x
  BY DEF Range
<1>13. PICK j \in 1..n : at[j] = i
  BY <1>10, <1>12
<1> HIDE DEF n
<1> QED
  BY <1>11, <1>12, <1>13 DEF Reading, Range

\* The history of losses stays a function to reasons.
LEMMA MarkType ==
  ASSUME fate \in [Ids -> Fates], NEW S, NEW why \in Fates
  PROVE  Mark(S, why) \in [Ids -> Fates]
BY DEF Mark
-----------------------------------------------------------------------------
(* Who holds the lock.  The control part of the type invariant and         *)
(* MutualExclusion are inductive together: a task enters only when the     *)
(* lock is free, and the flush task is replaced or stopped only outside.   *)

ControlTypeOK ==
  /\ pc \in [Tasks -> HostPcs \cup LoopPcs]
  /\ \A h \in Hosts : pc[h] \in HostPcs
  /\ pc[Loop] \in LoopPcs
  /\ op \in [Tasks -> AllOps \cup {"none", "loop"}]
  /\ \A h \in Hosts : op[h] # "loop"
  /\ op[Loop] = "loop"
  /\ mutationOwner \in Tasks \cup {NoTask}
  /\ lockQueue \in Seq(Tasks)
  /\ eviction \in {"none", "running", "done"}
  /\ <<writesAllowed, backupInProgress>> \in BOOLEAN \X BOOLEAN
  /\ <<closing, initialized, closed>> \in BOOLEAN \X BOOLEAN \X BOOLEAN
  /\ backupHost \in Hosts \cup {NoTask}

ControlInv == ControlTypeOK /\ MutualExclusion

\* Return() from inside the lock, or by a task to which the free lock was granted.
LEMMA ReturnControl ==
  ASSUME ControlInv, NEW t \in Tasks, Return(t), mutationOwner \in {t, NoTask},
         pc[t] \notin {"evict", "evictcancel"}, eviction' = eviction
  PROVE  /\ pc' \in [Tasks -> HostPcs \cup LoopPcs]
         /\ \A h \in Hosts : pc'[h] \in HostPcs
         /\ pc'[Loop] \in LoopPcs
         /\ op' \in [Tasks -> AllOps \cup {"none", "loop"}]
         /\ \A h \in Hosts : op'[h] # "loop"
         /\ op'[Loop] = "loop"
         /\ mutationOwner' = NoTask
         /\ MutualExclusion'
<1>1. /\ pc' \in [Tasks -> HostPcs \cup LoopPcs]
      /\ \A h \in Hosts : pc'[h] \in HostPcs
      /\ pc'[Loop] \in LoopPcs
  BY StoreAssumption DEF ControlInv, ControlTypeOK, Return, Tasks, HostPcs, LoopPcs
<1>2. /\ op' \in [Tasks -> AllOps \cup {"none", "loop"}]
      /\ \A h \in Hosts : op'[h] # "loop"
      /\ op'[Loop] = "loop"
  BY StoreAssumption DEF ControlInv, ControlTypeOK, Return, Tasks
<1>3. mutationOwner' = NoTask
  BY DEF Return
<1>4. \A u \in Tasks : pc'[u] \in Critical <=> mutationOwner' = u
  BY <1>1, <1>3, StoreAssumption
  DEF ControlInv, ControlTypeOK, MutualExclusion, Return, Tasks, Critical
<1>5. eviction' # "none" => \E h \in Hosts : pc'[h] \in {"evict", "evictcancel"}
  BY <1>1 DEF ControlInv, ControlTypeOK, MutualExclusion, Return, Tasks
<1>6. \A u \in Tasks : pc'[u] \in Flushing => eviction' = "none"
  BY <1>3, <1>4, StoreAssumption DEF Flushing, Critical, Tasks
<1> QED
  BY <1>1, <1>2, <1>3, <1>4, <1>5, <1>6 DEF MutualExclusion

\* The changes of pc and mutationOwner that keep MutualExclusion: everybody but t and the
\* flush task stays where it is, and the flush task was, and is, outside unless it is t.
LEMMA MoveControl ==
  ASSUME ControlInv, NEW t \in Tasks,
         mutationOwner \in {t, NoTask}, pc[t] \notin {"evict", "evictcancel"},
         pc' \in [Tasks -> HostPcs \cup LoopPcs],
         \A u \in Tasks \ {t, Loop} : pc'[u] = pc[u],
         t # Loop => pc'[Loop] = pc[Loop] \/ pc'[Loop] \notin Critical,
         IF pc'[t] \in Critical THEN mutationOwner' = t ELSE mutationOwner' = NoTask,
         eviction' = eviction
  PROVE  MutualExclusion'
<1>1. \A u \in Tasks \ {t} : pc'[u] \notin Critical
  BY StoreAssumption DEF ControlInv, MutualExclusion, Tasks
<1>2. \A u \in Tasks : pc'[u] \in Critical <=> mutationOwner' = u
  BY <1>1, StoreAssumption DEF Tasks
<1>3. eviction = "none"
  BY StoreAssumption DEF ControlInv, MutualExclusion, Tasks, Critical
<1> QED
  BY <1>2, <1>3 DEF MutualExclusion

\* What follows a flush keeps the control invariant.
LEMMA AfterFlushControl ==
  ASSUME ControlInv, NEW t \in Tasks, NEW q \in Seq(Tasks), AfterFlush(t, q),
         mutationOwner \in {t, NoTask}, pc[t] \notin {"evict", "evictcancel"},
         UNCHANGED <<eviction, life>>
  PROVE  ControlInv'
<1>1. Without(q, Loop) \in Seq(Tasks)
  BY WithoutType
<1>2. CASE op[t] = "loop"
  <2>1. Return(t) /\ lockQueue' = q /\ UNCHANGED gate
    BY <1>2 DEF AfterFlush
  <2> QED
    BY <2>1, ReturnControl DEF ControlInv, ControlTypeOK, gate, life
<1>3. CASE op[t] \in {"flush", "query", "optimize"}
  <2>1. t \in Hosts /\ t # Loop
    BY <1>3, StoreAssumption DEF ControlInv, ControlTypeOK, Tasks
  <2>2. PICK next \in {"idle", "read", "stale", "vacuum"} :
          /\ ResetTimer(t, next, q)
          /\ mutationOwner' = IF next = "vacuum" THEN t ELSE NoTask
    BY <1>3 DEF AfterFlush
  <2>3. /\ pc' \in [Tasks -> HostPcs \cup LoopPcs]
        /\ \A h \in Hosts : pc'[h] \in HostPcs
        /\ pc'[Loop] \in LoopPcs
        /\ pc'[t] = next
        /\ \A u \in Tasks \ {t, Loop} : pc'[u] = pc[u]
        /\ pc'[Loop] \in {pc[Loop], "sleep"}
    BY <2>1, <2>2, StoreAssumption
    DEF ResetTimer, ControlInv, ControlTypeOK, Tasks, HostPcs, LoopPcs, Critical
  <2>4. pc'[t] \in Critical <=> mutationOwner' = t
    BY <2>2, <2>3, StoreAssumption DEF Critical, Tasks
  <2>5. pc'[Loop] = pc[Loop] \/ pc'[Loop] \notin Critical
    BY <2>3 DEF Critical
  <2>6. MutualExclusion'
    BY <2>2, <2>3, <2>5, MoveControl DEF Critical
  <2>7. /\ op' \in [Tasks -> AllOps \cup {"none", "loop"}]
        /\ \A h \in Hosts : op'[h] # "loop"
        /\ op'[Loop] = "loop"
    <3>1. op' = [op EXCEPT ![t] = "none"] \/ op' = op
      BY <1>3 DEF AfterFlush
    <3>2. op \in [Tasks -> AllOps \cup {"none", "loop"}] /\ t \in Tasks
      BY <2>1 DEF ControlInv, ControlTypeOK, Tasks
    <3>3. op' \in [Tasks -> AllOps \cup {"none", "loop"}]
      BY ONLY <3>1, <3>2
    <3>4. \A u \in Tasks : op'[u] = op[u] \/ (u = t /\ op'[u] = "none")
      BY ONLY <3>1, <3>2
    <3> QED
      BY <2>1, <3>3, <3>4 DEF ControlInv, ControlTypeOK, Tasks
  <2>8. lockQueue' \in Seq(Tasks)
    BY <1>1, <2>2 DEF ResetTimer
  <2>9. UNCHANGED gate
    BY <1>3 DEF AfterFlush
  <2> QED
    BY <2>2, <2>3, <2>6, <2>7, <2>8, <2>9 DEF ControlInv, ControlTypeOK, gate, life, Tasks
<1>4. CASE op[t] = "begin"
  <2>1. /\ t \in Hosts /\ t # Loop
        /\ pc' = [pc EXCEPT ![t] = "begin"]
        /\ mutationOwner' = t /\ lockQueue' = q /\ UNCHANGED <<op, gate>>
    BY <1>4, StoreAssumption DEF AfterFlush, ControlInv, ControlTypeOK, Tasks
  <2>2. MutualExclusion'
    BY <2>1, MoveControl, StoreAssumption
    DEF ControlInv, ControlTypeOK, Tasks, HostPcs, Critical
  <2> QED
    BY <2>1, <2>2, StoreAssumption
    DEF ControlInv, ControlTypeOK, gate, life, Tasks, HostPcs, Critical
<1>5. CASE op[t] = "close"
  <2>1. PICK next \in {"closebackup", "dispose"} : pc' = [pc EXCEPT ![t] = next]
    BY <1>5 DEF AfterFlush, CloseBackend
  <2>2. /\ t \in Hosts /\ t # Loop
        /\ mutationOwner' = t /\ lockQueue' = q /\ op' = op
        /\ writesAllowed' = writesAllowed
        /\ backupInProgress' \in BOOLEAN
        /\ backupHost' \in Hosts \cup {NoTask}
    BY <1>5, StoreAssumption
    DEF AfterFlush, CloseBackend, ControlInv, ControlTypeOK, Tasks
  <2>3. MutualExclusion'
    BY <2>1, <2>2, MoveControl, StoreAssumption
    DEF ControlInv, ControlTypeOK, Tasks, HostPcs, Critical
  <2> QED
    BY <2>1, <2>2, <2>3, StoreAssumption
    DEF ControlInv, ControlTypeOK, life, Tasks, HostPcs, Critical
<1> QED
  BY <1>2, <1>3, <1>4, <1>5 DEF AfterFlush

\* close() cancels the flush task only where that task holds nothing.
LEMMA StopLoopControl ==
  ASSUME ControlInv, NEW h \in Hosts, StopLoop(h), pc[h] \notin Critical,
         UNCHANGED <<mutationOwner, eviction>>
  PROVE  /\ pc' \in [Tasks -> HostPcs \cup LoopPcs]
         /\ \A g \in Hosts : pc'[g] \in HostPcs
         /\ pc'[Loop] \in LoopPcs
         /\ op' \in [Tasks -> AllOps \cup {"none", "loop"}]
         /\ \A g \in Hosts : op'[g] # "loop"
         /\ op'[Loop] = "loop"
         /\ lockQueue' \in Seq(Tasks)
         /\ MutualExclusion'
<1>1. h \in Tasks /\ Loop \in Tasks /\ h # Loop
  BY StoreAssumption DEF Tasks
<1>2. Append(Without(lockQueue, Loop), h) \in Seq(Tasks)
  BY <1>1, WithoutType, AppendProperties DEF ControlInv, ControlTypeOK
<1>3. /\ op' \in [Tasks -> AllOps \cup {"none", "loop"}]
      /\ \A g \in Hosts : op'[g] # "loop"
      /\ op'[Loop] = "loop"
  BY <1>1 DEF StopLoop, ControlInv, ControlTypeOK, Tasks, AllOps
<1>4. /\ pc' \in [Tasks -> HostPcs \cup LoopPcs]
      /\ \A g \in Hosts : pc'[g] \in HostPcs
      /\ pc'[Loop] \in LoopPcs
      /\ pc'[h] \in {"join", "lock"}
      /\ \A u \in Tasks \ {h, Loop} : pc'[u] = pc[u]
      /\ \/ pc'[Loop] = pc[Loop]
         \/ pc[Loop] \notin {"write", "single"} /\ pc'[Loop] = "ended"
  BY <1>1 DEF StopLoop, ControlInv, ControlTypeOK, Tasks, HostPcs, LoopPcs
<1>5. lockQueue' \in Seq(Tasks)
  BY <1>2 DEF StopLoop, Enqueue, ControlInv, ControlTypeOK
<1>6. pc[Loop] \in Critical <=> pc'[Loop] \in Critical
  BY <1>4 DEF ControlInv, ControlTypeOK, LoopPcs, Critical
<1>7. \A u \in Tasks : pc'[u] \in Critical <=> mutationOwner' = u
  BY <1>1, <1>4, <1>6 DEF ControlInv, MutualExclusion, Critical, Tasks
<1>8. eviction' # "none" => \E g \in Hosts : pc'[g] \in {"evict", "evictcancel"}
  <2>1. SUFFICES ASSUME eviction # "none"
                 PROVE  \E g \in Hosts : pc'[g] \in {"evict", "evictcancel"}
    OBVIOUS
  <2>2. PICK g \in Hosts : pc[g] \in {"evict", "evictcancel"}
    BY <2>1 DEF ControlInv, MutualExclusion
  <2>3. g # h /\ g # Loop /\ g \in Tasks
    BY <2>2, <1>1, StoreAssumption DEF Critical, Tasks
  <2> QED
    BY <1>4, <2>2, <2>3
<1>9. \A u \in Tasks : pc'[u] \in Flushing => eviction' = "none"
  BY <1>7, <1>8, StoreAssumption DEF Flushing, Critical, Tasks
<1> QED
  BY <1>3, <1>4, <1>5, <1>7, <1>8, <1>9 DEF MutualExclusion

LEMMA ControlInit == Init => ControlInv
<1> SUFFICES ASSUME Init PROVE ControlInv
  OBVIOUS
<1>1. ControlTypeOK
  BY StoreAssumption, EmptySeq DEF Init, ControlTypeOK, Tasks, HostPcs, LoopPcs
<1>2. MutualExclusion
  BY StoreAssumption DEF Init, MutualExclusion, Tasks, Critical, Flushing
<1> QED
  BY <1>1, <1>2 DEF ControlInv

\* Steps of the flush protocol, taken by a host or by the flush task.
LEMMA ControlFlushStep ==
  ASSUME ControlInv, NEW t \in Tasks, FlushStep(t)
  PROVE  ControlInv'
<1>1. ASSUME Granted(t)
      PROVE  /\ pc[t] = "lock" /\ mutationOwner = NoTask /\ lockQueue # <<>>
             /\ Tail(lockQueue) \in Seq(Tasks)
  BY <1>1, HeadTailProperties DEF Granted, ControlInv, ControlTypeOK
<1>2. ASSUME pc[t] \in {"write", "single"}
      PROVE  mutationOwner = t /\ pc[t] \notin {"evict", "evictcancel"}
  BY <1>2 DEF ControlInv, MutualExclusion, Critical
<1>3. CASE FlushBegin(t)
  <2>1. /\ mutationOwner = NoTask /\ pc[t] = "lock"
        /\ mutationOwner' = t /\ pc' = [pc EXCEPT ![t] = "write"]
        /\ lockQueue' \in Seq(Tasks)
        /\ UNCHANGED <<op, eviction, life, gate>>
    BY <1>1, <1>3 DEF FlushBegin, Admitted
  <2>2. MutualExclusion'
    BY <2>1, MoveControl, StoreAssumption DEF ControlInv, ControlTypeOK, Tasks, HostPcs, Critical
  <2> QED
    BY <2>1, <2>2 DEF ControlInv, ControlTypeOK, HostPcs, LoopPcs, Critical, Tasks, life, gate
<1>4. CASE FlushNothing(t)
  <2>1. Granted(t) /\ AfterFlush(t, Tail(lockQueue)) /\ UNCHANGED <<eviction, life>>
    BY <1>4 DEF FlushNothing, Admitted
  <2> QED
    BY <1>1, <2>1, AfterFlushControl
<1>5. CASE FlushWritten(t)
  <2>1. pc[t] = "write" /\ AfterFlush(t, lockQueue) /\ UNCHANGED <<eviction, life>>
    BY <1>5 DEF FlushWritten
  <2> QED
    BY <1>2, <2>1, AfterFlushControl DEF ControlInv, ControlTypeOK
<1>6. CASE FlushDataError(t)
  <2>1. /\ pc[t] = "write" /\ pc' = [pc EXCEPT ![t] = "single"]
        /\ UNCHANGED <<op, locks, life, gate>>
    BY <1>6 DEF FlushDataError
  <2>2. MutualExclusion'
    BY <1>2, <2>1, MoveControl, StoreAssumption
    DEF ControlInv, ControlTypeOK, Tasks, HostPcs, Critical, locks
  <2> QED
    BY <2>1, <2>2 DEF ControlInv, ControlTypeOK, HostPcs, LoopPcs, Critical, Tasks, life, gate, locks
<1>7. CASE FlushFailed(t) \/ SingleFailed(t)
  <2>1. /\ pc[t] \in {"write", "single"} /\ Return(t)
        /\ UNCHANGED <<lockQueue, eviction, life, gate>>
    BY <1>7 DEF FlushFailed, SingleFailed
  <2> QED
    BY <1>2, <2>1, ReturnControl DEF ControlInv, ControlTypeOK, life, gate
<1>8. CASE SingleDone(t)
  <2>1. /\ pc[t] = "single" /\ UNCHANGED <<eviction, life>>
        /\ \/ AfterFlush(t, lockQueue)
           \/ UNCHANGED <<pc, op, mutationOwner, lockQueue, gate>>
    BY <1>8 DEF SingleDone
  <2>2. CASE AfterFlush(t, lockQueue)
    BY <1>2, <2>1, <2>2, AfterFlushControl DEF ControlInv, ControlTypeOK
  <2>3. CASE UNCHANGED <<pc, op, mutationOwner, lockQueue, gate>>
    BY <2>1, <2>3 DEF ControlInv, ControlTypeOK, MutualExclusion, life, gate
  <2> QED
    BY <2>1, <2>2, <2>3
<1>9. CASE Refuse(t)
  <2>1. /\ Granted(t) /\ Return(t) /\ lockQueue' = Tail(lockQueue)
        /\ UNCHANGED <<eviction, life, gate>>
    BY <1>9 DEF Refuse
  <2> QED
    BY <1>1, <2>1, ReturnControl DEF ControlInv, ControlTypeOK, life, gate
<1> QED
  BY <1>3, <1>4, <1>5, <1>6, <1>7, <1>8, <1>9 DEF FlushStep

GateType ==
  /\ <<writesAllowed, backupInProgress>> \in BOOLEAN \X BOOLEAN
  /\ backupHost \in Hosts \cup {NoTask}

LifeType == <<closing, initialized, closed>> \in BOOLEAN \X BOOLEAN \X BOOLEAN

\* A host that moves outside of the lock disturbs nobody inside.
LEMMA OutsideControl ==
  ASSUME ControlInv, NEW h \in Hosts, pc[h] \notin Critical,
         NEW next \in HostPcs \ Critical, pc' = [pc EXCEPT ![h] = next],
         NEW o \in AllOps \cup {"none"}, op' = [op EXCEPT ![h] = o],
         lockQueue' \in Seq(Tasks), UNCHANGED <<mutationOwner, eviction>>,
         GateType', LifeType'
  PROVE  ControlInv'
<1>1. h \in Tasks /\ Loop \in Tasks /\ h # Loop /\ "loop" \notin AllOps
  BY StoreAssumption DEF Tasks, AllOps
<1>2. /\ pc' \in [Tasks -> HostPcs \cup LoopPcs]
      /\ \A g \in Hosts : pc'[g] \in HostPcs
      /\ pc'[Loop] \in LoopPcs
  BY <1>1 DEF ControlInv, ControlTypeOK, Tasks
<1>3. /\ op' \in [Tasks -> AllOps \cup {"none", "loop"}]
      /\ \A g \in Hosts : op'[g] # "loop"
      /\ op'[Loop] = "loop"
  BY <1>1 DEF ControlInv, ControlTypeOK, Tasks
<1>4. \A u \in Tasks : pc'[u] \in Critical <=> pc[u] \in Critical
  BY <1>1 DEF ControlInv, ControlTypeOK
<1>5. \A g \in Hosts : pc[g] \in {"evict", "evictcancel"} => pc'[g] = pc[g]
  BY <1>1 DEF ControlInv, ControlTypeOK, Tasks, Critical
<1>6. \A u \in Tasks : pc'[u] \in Flushing => pc[u] \in Flushing
  BY <1>1 DEF ControlInv, ControlTypeOK, Critical, Flushing
<1>7. MutualExclusion'
  BY <1>4, <1>5, <1>6 DEF ControlInv, MutualExclusion
<1> QED
  BY <1>2, <1>3, <1>7 DEF ControlInv, ControlTypeOK, GateType, LifeType

\* A host that held the lock returns.
LEMMA ReturnStep ==
  ASSUME ControlInv, NEW h \in Hosts, Return(h),
         pc[h] \in Critical \ {"evict", "evictcancel"},
         eviction' = eviction, lockQueue' = lockQueue, GateType', LifeType'
  PROVE  ControlInv'
<1>1. h \in Tasks /\ mutationOwner = h
  BY DEF ControlInv, MutualExclusion, Tasks
<1> QED
  BY <1>1, ReturnControl DEF ControlInv, ControlTypeOK, GateType, LifeType

LEMMA TypesOfControl == ControlInv => GateType /\ LifeType
BY DEF ControlInv, ControlTypeOK, GateType, LifeType

\* A host to which the free lock was granted enters.
LEMMA EnterControl ==
  ASSUME ControlInv, NEW h \in Hosts, NEW o, NEW next \in {"direct", "clear"},
         Enter(h, o, next), eviction' = eviction
  PROVE  ControlInv'
<1>1. /\ h \in Tasks /\ mutationOwner = NoTask /\ pc[h] = "lock"
      /\ lockQueue' \in Seq(Tasks)
      /\ pc' = [pc EXCEPT ![h] = next] /\ mutationOwner' = h
      /\ UNCHANGED <<op, life, gate>>
  BY HeadTailProperties DEF Enter, Admitted, Granted, ControlInv, ControlTypeOK, Tasks
<1>2. MutualExclusion'
  BY <1>1, MoveControl, StoreAssumption DEF ControlInv, ControlTypeOK, Tasks, HostPcs, Critical
<1> QED
  BY <1>1, <1>2, StoreAssumption
  DEF ControlInv, ControlTypeOK, Tasks, HostPcs, Critical, life, gate

LEMMA ControlHostStep ==
  ASSUME ControlInv, NEW h \in Hosts, HostStep(h)
  PROVE  ControlInv'
<1>1. h \in Tasks /\ Loop \in Tasks /\ h # Loop /\ NoTask \notin Tasks
  BY StoreAssumption DEF Tasks
<1>2. Append(lockQueue, h) \in Seq(Tasks) /\ Without(lockQueue, h) \in Seq(Tasks)
  BY <1>1, AppendProperties, WithoutType DEF ControlInv, ControlTypeOK
<1>3. /\ {"lock", "gate", "idle"} \subseteq HostPcs \ Critical
      /\ "none" \notin AllOps
  BY DEF HostPcs, Critical, AllOps
<1>4. GateType /\ LifeType
  BY TypesOfControl
<1>5. ASSUME UNCHANGED <<life, gate>> PROVE GateType' /\ LifeType'
  BY <1>4, <1>5 DEF GateType, LifeType, life, gate
<1>6. op = [op EXCEPT ![h] = op[h]] /\ op[h] \in AllOps \cup {"none"}
  BY <1>1 DEF ControlInv, ControlTypeOK
<1>7. ASSUME Granted(h)
      PROVE  pc[h] = "lock" /\ mutationOwner = NoTask /\ Tail(lockQueue) \in Seq(Tasks)
  BY <1>7, HeadTailProperties DEF Granted, ControlInv, ControlTypeOK
<1>10. CASE \E o \in AllOps : Call(h, o)
  <2>1. PICK o \in AllOps : Call(h, o)
    BY <1>10
  <2>2. PICK next \in {"gate", "lock"} : pc' = [pc EXCEPT ![h] = next]
    BY <2>1 DEF Call
  <2>3. /\ pc[h] = "idle" /\ op' = [op EXCEPT ![h] = o]
        /\ lockQueue' \in Seq(Tasks)
        /\ UNCHANGED <<mutationOwner, eviction, life, gate>>
    BY <2>1, <1>2 DEF Call, Enqueue, ControlInv, ControlTypeOK
  <2>4. pc[h] \notin Critical /\ next \in HostPcs \ Critical
    BY <2>3, <1>3 DEF Critical
  <2> QED
    BY <1>5, <2>2, <2>3, <2>4, OutsideControl
<1>11. CASE GateOpens(h) \/ GateShut(h)
  <2>1. PICK next \in {"gate", "lock"} : pc' = [pc EXCEPT ![h] = next]
    BY <1>11 DEF GateOpens, GateShut
  <2>2. /\ pc[h] \in {"gate", "lock"} /\ op' = op
        /\ lockQueue' \in Seq(Tasks)
        /\ UNCHANGED <<mutationOwner, eviction, life, gate>>
    BY <1>11, <1>2, <1>7 DEF GateOpens, GateShut, Enqueue
  <2>3. pc[h] \notin Critical /\ next \in HostPcs \ Critical
    BY <2>2, <1>3 DEF Critical
  <2> QED
    BY <1>5, <1>6, <2>1, <2>2, <2>3, OutsideControl
<1>12. CASE Cancelled(h) \/ ReadDone(h)
  <2>1. /\ pc[h] \in {"gate", "lock", "read", "stale"}
        /\ pc' = [pc EXCEPT ![h] = "idle"] /\ op' = [op EXCEPT ![h] = "none"]
        /\ lockQueue' \in Seq(Tasks)
        /\ UNCHANGED <<mutationOwner, eviction, life, gate>>
    BY <1>12, <1>2 DEF Cancelled, ReadDone, Idle, locks, ControlInv, ControlTypeOK
  <2>2. pc[h] \notin Critical /\ "idle" \in HostPcs \ Critical
    BY <2>1, <1>3 DEF Critical
  <2> QED
    BY <1>5, <2>1, <2>2, OutsideControl
<1>13. CASE EnterDirect(h) \/ EnterClear(h)
  BY <1>13, EnterControl DEF EnterDirect, EnterClear
<1>14. CASE DirectWritten(h) \/ DirectFailed(h) \/ Cleared(h) \/ Vacuumed(h) \/ Raises(h)
  <2>1. /\ pc[h] \in {"direct", "clear", "vacuum", "begin", "dispose"} /\ Return(h)
        /\ UNCHANGED <<lockQueue, eviction, life, gate>>
    BY <1>14 DEF DirectWritten, DirectFailed, Cleared, Vacuumed, Raises
  <2>2. pc[h] \in Critical \ {"evict", "evictcancel"}
    BY <2>1 DEF Critical
  <2> QED
    BY <1>5, <2>1, <2>2, ReturnStep
<1>15. CASE EnterEvict(h)
  <2>1. /\ mutationOwner = NoTask /\ pc[h] = "lock" /\ mutationOwner' = h
        /\ pc' = [pc EXCEPT ![h] = "evict"] /\ lockQueue' \in Seq(Tasks)
        /\ eviction' = "running" /\ UNCHANGED <<op, life, gate>>
    BY <1>7, <1>15 DEF EnterEvict, Enter, Admitted
  <2>2. pc'[h] = "evict" /\ \A u \in Tasks \ {h} : pc'[u] = pc[u] /\ pc[u] \notin Critical
    BY <1>1, <2>1 DEF ControlInv, ControlTypeOK, MutualExclusion
  <2>3. MutualExclusion'
    BY <1>1, <2>1, <2>2 DEF MutualExclusion, Critical, Flushing
  <2> QED
    BY <1>1, <2>1, <2>3 DEF ControlInv, ControlTypeOK, HostPcs, Critical, Tasks, life, gate
<1>16. CASE EvictCancelled(h)
  <2>1. /\ pc[h] = "evict" /\ pc' = [pc EXCEPT ![h] = "evictcancel"]
        /\ UNCHANGED <<op, locks, life, gate>>
    BY <1>16 DEF EvictCancelled
  <2>2. pc'[h] = "evictcancel" /\ \A u \in Tasks \ {h} : pc'[u] = pc[u]
    BY <1>1, <2>1 DEF ControlInv, ControlTypeOK
  <2>3. MutualExclusion'
    BY <1>1, <2>1, <2>2 DEF ControlInv, MutualExclusion, Critical, Flushing, locks
  <2> QED
    BY <1>1, <2>1, <2>3 DEF ControlInv, ControlTypeOK, HostPcs, Critical, Tasks, life, gate, locks
<1>17. CASE EvictReturns(h)
  <2>1. /\ pc[h] \in {"evict", "evictcancel"} /\ eviction' = "none" /\ Return(h)
        /\ UNCHANGED <<lockQueue, life, gate>>
    BY <1>17 DEF EvictReturns
  <2>2. /\ pc' = [pc EXCEPT ![h] = "idle"] /\ op' = [op EXCEPT ![h] = "none"]
        /\ mutationOwner' = NoTask
    BY <1>1, <2>1 DEF Return
  <2>3. mutationOwner = h
    BY <1>1, <2>1 DEF ControlInv, MutualExclusion, Critical
  <2>4. MutualExclusion'
    BY <1>1, <2>1, <2>2, <2>3 DEF ControlInv, ControlTypeOK, MutualExclusion, Critical, Flushing
  <2> QED
    BY <1>1, <2>1, <2>2, <2>4 DEF ControlInv, ControlTypeOK, HostPcs, Critical, Tasks, life, gate
<1> QED
  BY <1>10, <1>11, <1>12, <1>13, <1>14, <1>15, <1>16, <1>17 DEF HostStep

LEMMA ControlBackupStep ==
  ASSUME ControlInv, NEW h \in Hosts, BackupStep(h)
  PROVE  ControlInv'
<1>1. h \in Tasks /\ Loop \in Tasks /\ h # Loop /\ NoTask \notin Tasks
  BY StoreAssumption DEF Tasks
<1>2. GateType /\ LifeType
  BY TypesOfControl
<1>3. CASE BeginRefused(h)
  <2>1. /\ Granted(h) /\ Return(h) /\ lockQueue' = Tail(lockQueue)
        /\ UNCHANGED <<eviction, life, gate>>
    BY <1>3 DEF BeginRefused, Admitted
  <2>2. pc[h] = "lock" /\ mutationOwner = NoTask /\ lockQueue' \in Seq(Tasks)
    BY <2>1, HeadTailProperties DEF Granted, ControlInv, ControlTypeOK
  <2> QED
    BY <1>1, <2>1, <2>2, ReturnControl DEF ControlInv, ControlTypeOK, life, gate
<1>4. CASE BackupBegun(h)
  <2>1. /\ pc[h] = "begin" /\ Return(h) /\ UNCHANGED <<lockQueue, eviction, life>>
        /\ GateType' /\ LifeType'
    BY <1>2, <1>4 DEF BackupBegun, GateType, LifeType, life
  <2> QED
    BY <2>1, ReturnStep DEF Critical
<1>5. CASE CallEnd(h) \/ BackupEnded(h)
  <2>1. PICK next \in {"idle", "end"}, o \in {"none", "end"} :
          pc' = [pc EXCEPT ![h] = next] /\ op' = [op EXCEPT ![h] = o]
    BY <1>5 DEF CallEnd, BackupEnded, Idle
  <2>2. /\ pc[h] \in {"idle", "end"}
        /\ UNCHANGED <<mutationOwner, eviction, lockQueue>>
        /\ GateType' /\ LifeType'
    BY <1>2, <1>5 DEF CallEnd, BackupEnded, GateType, LifeType, life, locks
  <2>3. /\ pc[h] \notin Critical /\ next \in HostPcs \ Critical /\ o \in AllOps \cup {"none"}
        /\ lockQueue' \in Seq(Tasks)
    BY <2>1, <2>2 DEF HostPcs, Critical, AllOps, ControlInv, ControlTypeOK
  <2> QED
    BY <2>1, <2>2, <2>3, OutsideControl
<1> QED
  BY <1>3, <1>4, <1>5 DEF BackupStep

LEMMA ControlCloseStep ==
  ASSUME ControlInv, NEW h \in Hosts, CloseStep(h)
  PROVE  ControlInv'
<1>1. h \in Tasks /\ Loop \in Tasks /\ h # Loop /\ NoTask \notin Tasks
  BY StoreAssumption DEF Tasks
<1>2. GateType /\ LifeType /\ lockQueue \in Seq(Tasks) /\ Append(lockQueue, h) \in Seq(Tasks)
  BY <1>1, TypesOfControl, AppendProperties DEF ControlInv, ControlTypeOK
<1>3. CASE CallInit(h) \/ InitReturns(h) \/ CloseEndsBackup(h) \/ CloseEndFailed(h)
  <2>1. PICK next \in {"idle", "init", "closeend"}, o \in {"none", "init", "close"} :
          pc' = [pc EXCEPT ![h] = next] /\ op' = [op EXCEPT ![h] = o]
    BY <1>3 DEF CallInit, InitReturns, CloseEndsBackup, CloseEndFailed, Idle
  <2>2. /\ pc[h] \in {"idle", "init", "closeend"}
        /\ UNCHANGED <<mutationOwner, eviction, lockQueue>>
    BY <1>3 DEF CallInit, InitReturns, CloseEndsBackup, CloseEndFailed, locks
  <2>3. LifeType'
    BY <1>2, <1>3
    DEF CallInit, InitReturns, CloseEndsBackup, CloseEndFailed, LifeType, life
  <2>4. GateType'
    BY <1>2, <1>3
    DEF CallInit, InitReturns, CloseEndsBackup, CloseEndFailed, GateType, gate
  <2>5. /\ pc[h] \notin Critical /\ next \in HostPcs \ Critical /\ o \in AllOps \cup {"none"}
        /\ lockQueue' \in Seq(Tasks)
    BY <1>2, <2>1, <2>2 DEF HostPcs, Critical, AllOps
  <2> QED
    BY <2>1, <2>2, <2>3, <2>4, <2>5, OutsideControl
<1>4. CASE CallClose(h) \/ CloseEndedBackup(h)
  <2>1. /\ pc[h] \in {"idle", "closeend"} /\ StopLoop(h)
        /\ UNCHANGED <<mutationOwner, eviction>>
        /\ GateType' /\ LifeType'
    BY <1>2, <1>4 DEF CallClose, CloseEndedBackup, GateType, LifeType, life, gate
  <2>2. pc[h] \notin Critical
    BY <2>1 DEF Critical
  <2> QED
    BY <2>1, <2>2, StopLoopControl DEF ControlInv, ControlTypeOK, GateType, LifeType
<1>5. CASE CloseRaises(h)
  BY <1>2, <1>5 DEF CloseRaises, ControlInv, ControlTypeOK, MutualExclusion, locks
<1>6. CASE LoopJoined(h)
  <2>1. /\ pc[h] = "join" /\ pc' = [pc EXCEPT ![h] = "lock"]
        /\ op' = [op EXCEPT ![h] = op[h]] /\ op[h] \in AllOps \cup {"none"}
        /\ lockQueue' \in Seq(Tasks) /\ UNCHANGED <<mutationOwner, eviction>>
        /\ GateType' /\ LifeType'
    BY <1>1, <1>2, <1>6
    DEF LoopJoined, Enqueue, GateType, LifeType, life, gate, ControlInv, ControlTypeOK
  <2>2. pc[h] \notin Critical /\ "lock" \in HostPcs \ Critical
    BY <2>1 DEF HostPcs, Critical
  <2> QED
    BY <2>1, <2>2, OutsideControl
<1>7. CASE CloseDiscards(h)
  <2>1. /\ op[h] = "close" /\ pc[h] = "lock" /\ mutationOwner = NoTask
        /\ Tail(lockQueue) \in Seq(Tasks) /\ lockQueue' = Tail(lockQueue)
        /\ CloseBackend(h) /\ UNCHANGED <<eviction, life>>
    BY <1>2, <1>7, HeadTailProperties DEF CloseDiscards, Granted
  <2>2. AfterFlush(h, Tail(lockQueue))
    BY <2>1 DEF AfterFlush
  <2> QED
    BY <1>1, <2>1, <2>2, AfterFlushControl
<1>8. CASE BackendEndedBackup(h)
  <2>1. /\ pc[h] = "closebackup" /\ UNCHANGED <<lockQueue, eviction, life>>
        /\ GateType' /\ LifeType'
        /\ \/ Return(h)
           \/ pc' = [pc EXCEPT ![h] = "dispose"] /\ UNCHANGED <<op, mutationOwner>>
    BY <1>2, <1>8 DEF BackendEndedBackup, GateType, LifeType, life
  <2>2. CASE Return(h)
    BY <2>1, <2>2, ReturnStep DEF Critical
  <2>3. CASE pc' = [pc EXCEPT ![h] = "dispose"] /\ UNCHANGED <<op, mutationOwner>>
    <3>1. mutationOwner = h /\ pc'[h] = "dispose" /\ \A u \in Tasks \ {h} : pc'[u] = pc[u]
      BY <1>1, <2>1, <2>3 DEF ControlInv, ControlTypeOK, MutualExclusion, Critical
    <3>2. MutualExclusion'
      BY <1>1, <2>1, <2>3, <3>1 DEF ControlInv, MutualExclusion, Critical, Flushing
    <3> QED
      BY <1>1, <2>1, <2>3, <3>2
      DEF ControlInv, ControlTypeOK, HostPcs, Critical, Tasks, GateType, LifeType
  <2> QED
    BY <2>1, <2>2, <2>3
<1>9. CASE Disposed(h)
  <2>1. /\ pc[h] = "dispose" /\ Return(h) /\ UNCHANGED <<lockQueue, eviction>>
        /\ GateType' /\ LifeType'
    BY <1>2, <1>9 DEF Disposed, GateType, LifeType, gate
  <2> QED
    BY <2>1, ReturnStep DEF Critical
<1> QED
  BY <1>3, <1>4, <1>5, <1>6, <1>7, <1>8, <1>9 DEF CloseStep

LEMMA ControlStep == ControlInv /\ [Next]_vars => ControlInv'
<1> SUFFICES ASSUME ControlInv, [Next]_vars PROVE ControlInv'
  OBVIOUS
<1>1. Loop \in Tasks /\ Loop \notin Hosts /\ NoTask \notin Tasks
  BY StoreAssumption DEF Tasks
<1>2. CASE Store
  BY <1>2 DEF Store, ControlInv, ControlTypeOK, MutualExclusion, locks, life, gate
<1>3. CASE Start \/ Tick
  <2>1. PICK next \in {"sleep", "lock"} : pc' = [pc EXCEPT ![Loop] = next]
    BY <1>3 DEF Start, Tick
  <2>0. lockQueue \in Seq(Tasks) /\ Append(lockQueue, Loop) \in Seq(Tasks)
    BY <1>1, AppendProperties DEF ControlInv, ControlTypeOK
  <2>2. /\ pc[Loop] \in {"none", "sleep"} /\ lockQueue' \in Seq(Tasks)
        /\ UNCHANGED <<op, mutationOwner, eviction, life, gate>>
    BY <1>3, <2>0 DEF Start, Tick, Enqueue, locks
  <2>3. /\ \A h \in Hosts : pc'[h] = pc[h]
        /\ pc'[Loop] = next /\ pc[Loop] \notin Critical /\ next \notin Critical
        /\ next \in LoopPcs
    BY <1>1, <2>1, <2>2 DEF ControlInv, ControlTypeOK, Tasks, Critical, LoopPcs
  <2>4. MutualExclusion'
    BY <1>1, <2>2, <2>3 DEF ControlInv, MutualExclusion, Tasks, Critical, Flushing
  <2> QED
    BY <1>1, <2>1, <2>2, <2>3, <2>4 DEF ControlInv, ControlTypeOK, life, gate
<1>4. CASE EvictionDone \/ EvictionFailed
  <2>1. /\ eviction = "running" /\ eviction' = "done"
        /\ UNCHANGED <<pc, op, mutationOwner, lockQueue, life, gate>>
    BY <1>4 DEF EvictionDone, EvictionFailed
  <2> QED
    BY <2>1 DEF ControlInv, ControlTypeOK, MutualExclusion, life, gate
<1>5. ASSUME NEW t \in Tasks, FlushStep(t) PROVE ControlInv'
  BY <1>5, ControlFlushStep
<1>6. ASSUME NEW h \in Hosts, HostStep(h) \/ BackupStep(h) \/ CloseStep(h) PROVE ControlInv'
  BY <1>6, ControlHostStep, ControlBackupStep, ControlCloseStep
<1>7. CASE UNCHANGED vars
  BY <1>7 DEF vars, locks, life, gate, ControlInv, ControlTypeOK, MutualExclusion
<1> QED
  BY <1>2, <1>3, <1>4, <1>5, <1>6, <1>7 DEF Next

\* Exclusion inside the lock holds in every run: no two tasks flush, write, evict, clear or
\* take a backup at once, and a cancelled eviction keeps the lock for its shielded task.
THEOREM Exclusion == Spec => []MutualExclusion
<1>1. ControlInv => MutualExclusion
  BY DEF ControlInv
<1> QED
  BY <1>1, ControlInit, ControlStep, PTL DEF Spec
-----------------------------------------------------------------------------
(* What the store holds.  Together with the control invariant: the types   *)
(* of the data, that a flush in progress has a non-empty batch of buffered *)
(* telegrams, the bound of the buffer, and that nothing is lost silently.  *)

DataTypeOK ==
  /\ buffer \in Seq(Stored)
  /\ batch \in [Tasks -> Seq(Ids)]
  /\ db \in Seq(Ids)
  /\ accepted \in 0..N
  /\ direct \in 0..D
  /\ fate \in [Ids -> Fates]
  /\ mark \in [Tasks -> 0..N]
  /\ ambiguous \in 0..MaxAmbiguous

FlushBatch == \A t \in Writers : batch[t] \in Seq(Stored) /\ batch[t] # <<>>

DataInv == DataTypeOK /\ FlushBatch /\ BufferBound /\ NoSilentLoss

\* What was held, or lost in a documented way, still is one or the other after the step.
Keeps == \A i \in Ids : i \in Held \/ fate[i] # "none" => i \in Held' \/ fate'[i] # "none"

LEMMA KeepsEnough ==
  ASSUME DataInv, Keeps, accepted' = accepted
  PROVE  NoSilentLoss'
<1>1. 1..accepted \subseteq Ids
  BY StoreAssumption DEF DataInv, DataTypeOK, Ids
<1> QED
  BY <1>1 DEF DataInv, Keeps, NoSilentLoss

LEMMA StoredAreIds == Stored \subseteq Ids /\ Direct \subseteq Ids
BY StoreAssumption DEF Stored, Direct, Ids

\* Only the owner of the lock writes.
LEMMA WritersOwn ==
  ASSUME ControlInv
  PROVE  \A t \in Tasks : t \in Writers => mutationOwner = t
BY DEF ControlInv, MutualExclusion, Writers, Critical

\* Once the owner, or a task that enters, has left its flush, nobody writes.
LEMMA NobodyWrites ==
  ASSUME ControlInv, NEW t \in Tasks, mutationOwner \in {t, NoTask},
         Return(t) \/ \E q \in Seq(Tasks) : AfterFlush(t, q)
  PROVE  Writers' = {}
<1>1. \A u \in Tasks \ {t} : pc[u] \notin {"write", "single"}
  BY WritersOwn, StoreAssumption DEF Writers, Tasks
<1>2. Loop \in Tasks /\ pc \in [Tasks -> HostPcs \cup LoopPcs]
  BY DEF ControlInv, ControlTypeOK, Tasks
<1>3. CASE Return(t)
  BY <1>1, <1>2, <1>3 DEF Return, Writers
<1>4. ASSUME NEW q \in Seq(Tasks), AfterFlush(t, q) PROVE Writers' = {}
  <2>1. \/ Return(t)
        \/ \E next \in {"idle", "read", "stale", "vacuum"} : ResetTimer(t, next, q)
        \/ \E next \in {"begin", "closebackup", "dispose"} : pc' = [pc EXCEPT ![t] = next]
    BY <1>4 DEF AfterFlush, CloseBackend
  <2>2. ASSUME NEW next \in {"idle", "read", "stale", "vacuum"}, ResetTimer(t, next, q)
        PROVE  Writers' = {}
    <3>1. \A u \in Tasks : pc'[u] \in {next, pc[u], "sleep"} /\ (u = t => pc'[u] \in {next, "sleep"})
      BY <1>2, <2>2 DEF ResetTimer
    <3> QED
      BY <1>1, <3>1 DEF Writers
  <2>3. ASSUME NEW next \in {"begin", "closebackup", "dispose"}, pc' = [pc EXCEPT ![t] = next]
        PROVE  Writers' = {}
    BY <1>1, <1>2, <2>3 DEF Writers
  <2> QED
    BY <1>3, <2>1, <2>2, <2>3
<1> QED
  BY <1>3, <1>4

\* A step that moves tasks, but nobody in or out of a flush, and no telegram.
LEMMA SameData ==
  ASSUME DataInv, UNCHANGED <<data, accepted, direct>>, Writers' = Writers,
         mark' \in [Tasks -> 0..N]
  PROVE  DataInv'
<1>1. UNCHANGED <<buffer, batch, db, fate, ambiguous, accepted, direct>>
  BY DEF data
<1>2. Held' = Held
  BY <1>1 DEF Held, InFlight
<1> QED
  BY <1>1, <1>2 DEF DataInv, DataTypeOK, FlushBatch, BufferBound, NoSilentLoss

LEMMA DataInit == Init => DataInv
<1> SUFFICES ASSUME Init PROVE DataInv
  OBVIOUS
<1>1. DataTypeOK
  BY StoreAssumption, EmptySeq DEF Init, DataTypeOK, Fates
<1>2. Writers = {}
  BY StoreAssumption DEF Init, Writers
<1>3. BufferBound
  BY StoreAssumption, EmptySeq DEF Init, BufferBound
<1>4. NoSilentLoss
  BY DEF Init, NoSilentLoss
<1> QED
  BY <1>1, <1>2, <1>3, <1>4 DEF DataInv, FlushBatch

\* A step that leaves the buffer and the flush alone.
LEMMA OtherData ==
  ASSUME DataInv, Writers' = Writers, UNCHANGED <<buffer, accepted, ambiguous>>,
         batch' \in [Tasks -> Seq(Ids)], \A t \in Writers : batch'[t] = batch[t],
         db' \in Seq(Ids), Range(db) \subseteq Range(db'),
         fate' \in [Ids -> Fates], \A i \in Ids : fate[i] # "none" => fate'[i] # "none",
         direct' \in 0..D, mark' \in [Tasks -> 0..N]
  PROVE  DataInv'
<1>1. InFlight' = InFlight
  BY DEF InFlight
<1>2. Keeps
  BY <1>1 DEF Keeps, Held
<1>3. DataTypeOK'
  BY DEF DataInv, DataTypeOK
<1>4. FlushBatch' /\ BufferBound'
  BY DEF DataInv, FlushBatch, BufferBound
<1> QED
  BY <1>2, <1>3, <1>4, KeepsEnough DEF DataInv

\* Nobody writes before or after the step.
LEMMA QuietData ==
  ASSUME DataInv, DataTypeOK', BufferBound', Writers' = {}, accepted' = accepted,
         \A i \in Ids : i \in Held \/ fate[i] # "none" => i \in Held' \/ fate'[i] # "none"
  PROVE  DataInv'
<1>1. FlushBatch'
  BY DEF FlushBatch
<1> QED
  BY <1>1, KeepsEnough DEF DataInv, Keeps

\* A write that failed leaves the rows, and adds rows of the batch or none.
LEMMA CommittedType ==
  ASSUME db \in Seq(Ids), ambiguous \in 0..MaxAmbiguous, NEW t \in Tasks, batch[t] \in Seq(Ids),
         NEW n \in 0..Len(batch[t]), Committed(t, n)
  PROVE  /\ db' \in Seq(Ids) /\ Range(db) \subseteq Range(db')
         /\ ambiguous' \in 0..MaxAmbiguous
<1>1. SubSeq(batch[t], 1, n) \in Seq(Ids)
  BY SubSeqProperties
<1>2. db' \in Seq(Ids) /\ Range(db) \subseteq Range(db')
  <2> DEFINE rows == SubSeq(batch[t], 1, n)
  <2>1. db' = db \o rows
    BY DEF Committed
  <2>2. rows \in Seq(Ids)
    BY <1>1
  <2> HIDE DEF rows
  <2>3. Range(db \o rows) = Range(db) \cup Range(rows)
    BY <2>2, RangeConcatenation
  <2> QED
    BY <2>1, <2>2, <2>3, ConcatProperties
<1>3. ambiguous' \in 0..MaxAmbiguous
  BY StoreAssumption DEF Committed
<1> QED
  BY <1>2, <1>3

LEMMA RangeOfAppend ==
  ASSUME NEW S, NEW s \in Seq(S), NEW x \in S
  PROVE  Append(s, x) \in Seq(S) /\ Range(Append(s, x)) = Range(s) \cup {x}
<1>1. /\ Append(s, x) \in Seq(S) /\ Len(Append(s, x)) = Len(s) + 1 /\ Len(s) \in Nat
      /\ \A i \in 1..Len(s) : Append(s, x)[i] = s[i]
      /\ Append(s, x)[Len(s) + 1] = x
  BY AppendProperties, LenProperties
<1> DEFINE a == Append(s, x)
<1>2. Range(s) = {s[i] : i \in 1..Len(s)} /\ Range(a) = {a[i] : i \in 1..Len(a)}
  BY <1>1, RangeEquality
<1> HIDE DEF a
<1>3. 1..Len(s) + 1 = (1..Len(s)) \cup {Len(s) + 1}
  BY <1>1
<1> QED
  BY <1>1, <1>2, <1>3 DEF a

LEMMA RangeOfHeadTail ==
  ASSUME NEW S, NEW s \in Seq(S), s # <<>>
  PROVE  Range(s) = {Head(s)} \cup Range(Tail(s))
<1> DEFINE r == Tail(s)
<1>1. /\ r \in Seq(S) /\ Len(r) = Len(s) - 1 /\ Len(s) \in Nat \ {0} /\ Head(s) = s[1]
      /\ \A i \in 1..Len(r) : r[i] = s[i + 1]
  BY HeadTailProperties, LenProperties, EmptySeq
<1>2. Range(s) = {s[i] : i \in 1..Len(s)} /\ Range(r) = {r[i] : i \in 1..Len(r)}
  BY <1>1, RangeEquality
<1> HIDE DEF r
<1>3. {s[i] : i \in 1..Len(s)} \subseteq {s[1]} \cup {r[i] : i \in 1..Len(r)}
  <2> SUFFICES ASSUME NEW i \in 1..Len(s), i # 1
               PROVE  \E j \in 1..Len(r) : s[i] = r[j]
    OBVIOUS
  <2>1. i - 1 \in 1..Len(r) /\ (i - 1) + 1 = i
    BY <1>1
  <2> QED
    BY <1>1, <2>1
<1>4. {s[1]} \cup {r[i] : i \in 1..Len(r)} \subseteq {s[i] : i \in 1..Len(s)}
  BY <1>1
<1> QED
  BY <1>1, <1>2, <1>3, <1>4 DEF r

LEMMA DataFlushStep ==
  ASSUME ControlInv, DataInv, NEW t \in Tasks, FlushStep(t)
  PROVE  DataInv'
<1>1. /\ NoTask \notin Tasks /\ Stored \subseteq Ids /\ MaxAmbiguous \in Nat
      /\ lockQueue \in Seq(Tasks) /\ pc \in [Tasks -> HostPcs \cup LoopPcs]
  BY StoreAssumption, StoredAreIds DEF Tasks, ControlInv, ControlTypeOK
<1>2. ASSUME Granted(t)
      PROVE  /\ mutationOwner = NoTask /\ Tail(lockQueue) \in Seq(Tasks)
             /\ Writers = {} /\ InFlight = {} /\ t \notin Writers
  <2>1. mutationOwner = NoTask /\ lockQueue # <<>>
    BY <1>2 DEF Granted
  <2>2. Writers = {}
    BY <1>1, <2>1, WritersOwn DEF Writers
  <2> QED
    BY <1>1, <2>1, <2>2, HeadTailProperties DEF InFlight
<1>3. ASSUME pc[t] \in {"write", "single"}
      PROVE  /\ mutationOwner = t /\ Writers = {t} /\ InFlight = Range(batch[t])
             /\ batch[t] \in Seq(Stored) /\ batch[t] \in Seq(Ids) /\ batch[t] # <<>>
  <2>1. Writers = {t}
    BY <1>3, WritersOwn DEF Writers
  <2> QED
    BY <2>1, WritersOwn DEF InFlight, FlushBatch, DataInv, DataTypeOK
<1>4. /\ buffer \in Seq(Stored) /\ batch \in [Tasks -> Seq(Ids)] /\ db \in Seq(Ids)
      /\ fate \in [Ids -> Fates] /\ <<>> \in Seq(Ids) /\ <<>> \in Seq(Stored)
      /\ Len(<<>>) = 0 /\ buffer \in Seq(Ids)
  BY <1>1, EmptySeq DEF DataInv, DataTypeOK
<1>5. CASE FlushBegin(t)
  <2>1. /\ Granted(t) /\ buffer # <<>> /\ buffer' = <<>>
        /\ pc' = [pc EXCEPT ![t] = "write"] /\ batch' = [batch EXCEPT ![t] = buffer]
        /\ UNCHANGED <<db, fate, ambiguous, calls>>
    BY <1>5 DEF FlushBegin, Admitted
  <2>2. Writers' = {t} /\ batch'[t] = buffer
    BY <1>1, <1>2, <1>4, <2>1 DEF Writers
  <2>3. InFlight' = Range(buffer)
    BY <2>2 DEF InFlight
  <2>4. Keeps
    BY <1>2, <2>1, <2>3 DEF Keeps, Held
  <2>5. DataTypeOK'
    BY <1>4, <2>1 DEF DataInv, DataTypeOK, calls
  <2>6. FlushBatch' /\ BufferBound'
    BY <1>4, <2>1, <2>2, StoreAssumption DEF FlushBatch, BufferBound
  <2>7. accepted' = accepted
    BY <2>1 DEF calls
  <2> QED
    BY <2>4, <2>5, <2>6, <2>7, KeepsEnough DEF DataInv
<1>6. CASE FlushNothing(t)
  <2>1. /\ Granted(t) /\ AfterFlush(t, Tail(lockQueue)) /\ UNCHANGED <<data, calls>>
    BY <1>6 DEF FlushNothing, Admitted
  <2>2. Writers' = Writers
    BY <1>2, <2>1, NobodyWrites
  <2> QED
    BY <2>1, <2>2, SameData DEF calls, DataInv, DataTypeOK
<1>7. CASE FlushWritten(t)
  <2>1. /\ pc[t] = "write" /\ db' = db \o batch[t] /\ batch' = [batch EXCEPT ![t] = <<>>]
        /\ AfterFlush(t, lockQueue) /\ UNCHANGED <<buffer, fate, ambiguous, calls>>
    BY <1>7 DEF FlushWritten
  <2>2. Writers' = {}
    BY <1>1, <1>3, <2>1, NobodyWrites
  <2>3. db' \in Seq(Ids) /\ Range(db') = Range(db) \cup Range(batch[t])
    BY <1>3, <1>4, <2>1, ConcatProperties, RangeConcatenation
  <2>4. DataTypeOK' /\ BufferBound'
    BY <1>4, <2>1, <2>3 DEF DataInv, DataTypeOK, BufferBound, calls
  <2> QED
    BY <1>3, <2>1, <2>2, <2>3, <2>4, QuietData DEF Held, calls
<1>8. CASE FlushDataError(t)
  <2>1. /\ pc[t] = "write" /\ pc' = [pc EXCEPT ![t] = "single"] /\ UNCHANGED <<data, calls>>
    BY <1>8 DEF FlushDataError
  <2>2. Writers' = Writers
    BY <1>1, <2>1 DEF Writers
  <2> QED
    BY <2>1, <2>2, SameData DEF calls, DataInv, DataTypeOK
<1>9. CASE FlushFailed(t) \/ SingleFailed(t)
  <2>1. /\ pc[t] \in {"write", "single"} /\ Requeue(t) /\ Return(t) /\ UNCHANGED calls
    BY <1>9 DEF FlushFailed, SingleFailed
  <2>2. Writers' = {}
    BY <1>3, <2>1, NobodyWrites
  <2>3. /\ db' \in Seq(Ids) /\ Range(db) \subseteq Range(db')
        /\ ambiguous' \in 0..MaxAmbiguous
    <3>1. PICK n \in 0..Len(batch[t]) : Committed(t, n)
      <4>1. Len(batch[t]) \in Nat \ {0}
        BY <1>3, <2>1
      <4> QED
        BY <1>9, <4>1 DEF FlushFailed, SingleFailed
    <3> QED
      BY <1>3, <1>4, <2>1, <3>1, CommittedType DEF DataInv, DataTypeOK
  <2>4. batch[t] \o buffer \in Seq(Stored) /\ batch' \in [Tasks -> Seq(Ids)]
    BY <1>3, <1>4, <2>1, ConcatProperties DEF Requeue
  <2>5. /\ buffer' \in Seq(Stored) /\ Len(buffer') <= MaxBuffer
        /\ \A i \in Range(batch[t]) \cup Range(buffer) : i \in Range(buffer') \/ fate'[i] # "none"
        /\ \A i \in Ids : fate[i] # "none" => fate'[i] # "none"
        /\ fate' \in [Ids -> Fates]
    <3>1. /\ buffer' = Newest(batch[t] \o buffer)
          /\ fate' = Mark(Range(batch[t] \o buffer) \ Range(buffer'), "overflow")
      BY <2>1 DEF Requeue
    <3>2. Range(batch[t] \o buffer) = Range(batch[t]) \cup Range(buffer)
      BY <1>3, <1>4, <2>1, RangeConcatenation
    <3>3. Range(batch[t]) \subseteq Ids /\ Range(buffer) \subseteq Ids
      BY <1>3, <1>4, <2>1, RangeOfSeq
    <3> QED
      BY <1>4, <2>4, <3>1, <3>2, <3>3, NewestType DEF Mark, Fates
  <2>6. DataTypeOK' /\ BufferBound'
    BY <2>1, <2>3, <2>4, <2>5 DEF DataInv, DataTypeOK, BufferBound, calls
  <2> QED
    BY <1>3, <2>1, <2>2, <2>3, <2>5, <2>6, QuietData DEF Held, calls
<1>10. CASE SingleDone(t)
  <2> DEFINE i == Head(batch[t])
  <2>1. /\ pc[t] = "single" /\ batch' = [batch EXCEPT ![t] = Tail(batch[t])]
        /\ UNCHANGED <<buffer, ambiguous, calls>>
        /\ \/ Len(batch[t]) = 1 /\ AfterFlush(t, lockQueue)
           \/ Len(batch[t]) # 1 /\ pc' = pc
        /\ \/ db' = db /\ fate' = Mark({i}, "unstorable")
           \/ db' = Append(db, i) /\ fate' = fate
    BY <1>1, <1>4, <1>10 DEF SingleDone
  <2>2. /\ i \in Stored /\ i \in Ids /\ Tail(batch[t]) \in Seq(Stored)
        /\ Tail(batch[t]) \in Seq(Ids) /\ Len(Tail(batch[t])) = Len(batch[t]) - 1
        /\ Range(batch[t]) = {i} \cup Range(Tail(batch[t]))
    BY <1>1, <1>3, <2>1, HeadTailProperties, RangeOfHeadTail
  <2>9. Append(db, i) \in Seq(Ids) /\ Range(Append(db, i)) = Range(db) \cup {i}
    BY <1>4, <2>2, RangeOfAppend
  <2>3. db' \in Seq(Ids) /\ Range(db) \subseteq Range(db')
    BY <1>4, <2>1, <2>9
  <2>4. fate' \in [Ids -> Fates] /\ \A j \in Ids : fate[j] # "none" => fate'[j] # "none"
    BY <1>4, <2>1 DEF Mark, Fates
  <2>5. i \in Range(db') \/ fate'[i] # "none"
    BY <2>1, <2>2, <2>9 DEF Mark
  <2>6. DataTypeOK' /\ BufferBound'
    BY <1>4, <2>1, <2>2, <2>3, <2>4 DEF DataInv, DataTypeOK, BufferBound, calls
  <2>7. CASE Len(batch[t]) = 1
    <3>1. Writers' = {}
      BY <1>1, <1>3, <2>1, <2>7, NobodyWrites
    <3>2. Range(Tail(batch[t])) = {}
      BY <2>2, <2>7, EmptySeq DEF Range
    <3> HIDE DEF i
    <3> QED
      BY <1>3, <2>1, <2>2, <2>3, <2>4, <2>5, <2>6, <3>1, <3>2, QuietData DEF Held, calls
  <2>8. CASE Len(batch[t]) # 1
    <3>1. Writers' = {t} /\ batch'[t] = Tail(batch[t])
      BY <1>3, <1>4, <2>1, <2>8 DEF Writers
    <3>2. Tail(batch[t]) # <<>>
      <4>1. Len(Tail(batch[t])) # 0
        BY <1>3, <2>1, <2>2, <2>8, LenProperties
      <4> QED
        BY <4>1, EmptySeq
    <3>3. FlushBatch'
      BY <2>2, <3>1, <3>2 DEF FlushBatch
    <3>4. InFlight' = Range(Tail(batch[t]))
      BY <3>1 DEF InFlight
    <3> HIDE DEF i
    <3>5. Keeps
      BY <1>3, <2>1, <2>2, <2>3, <2>4, <2>5, <3>4 DEF Keeps, Held
    <3> QED
      BY <2>1, <2>6, <3>3, <3>5, KeepsEnough DEF DataInv, calls
  <2> QED
    BY <2>7, <2>8
<1>11. CASE Refuse(t)
  <2>1. /\ Granted(t) /\ Return(t) /\ batch' = [batch EXCEPT ![t] = <<>>]
        /\ fate' = Mark(Range(batch[t]), "raised")
        /\ UNCHANGED <<buffer, db, ambiguous, calls>>
    BY <1>11 DEF Refuse
  <2>2. Writers' = Writers
    BY <1>2, <2>1, NobodyWrites
  <2>3. \A u \in Writers : batch'[u] = batch[u]
    BY <1>2, <2>1
  <2>4. fate' \in [Ids -> Fates] /\ \A j \in Ids : fate[j] # "none" => fate'[j] # "none"
    BY <1>4, <2>1 DEF Mark, Fates
  <2> QED
    BY <1>4, <2>1, <2>2, <2>3, <2>4, OtherData DEF calls, DataInv, DataTypeOK
<1> QED
  BY <1>5, <1>6, <1>7, <1>8, <1>9, <1>10, <1>11 DEF FlushStep

\* Steps of a host's call: but for clear(), which empties the buffer and then the table,
\* they leave the buffer and the batch of a flush alone.
LEMMA DataHostStep ==
  ASSUME ControlInv, DataInv, NEW h \in Hosts, HostStep(h)
  PROVE  DataInv'
<1>1. /\ h \in Tasks /\ h # Loop /\ NoTask \notin Tasks /\ pc \in [Tasks -> HostPcs \cup LoopPcs]
      /\ lockQueue \in Seq(Tasks)
  BY StoreAssumption DEF Tasks, ControlInv, ControlTypeOK
<1>2. /\ buffer \in Seq(Stored) /\ batch \in [Tasks -> Seq(Ids)] /\ db \in Seq(Ids)
      /\ fate \in [Ids -> Fates] /\ mark \in [Tasks -> 0..N] /\ accepted \in 0..N
      /\ direct \in 0..D /\ ambiguous \in 0..MaxAmbiguous /\ <<>> \in Seq(Ids)
      /\ batch[h] \in Seq(Ids) /\ Range(<<>>) = {} /\ Len(<<>>) = 0 /\ <<>> \in Seq(Stored)
      /\ 0 \in 0..N /\ 0 <= MaxBuffer
  BY <1>1, EmptySeq, StoreAssumption DEF DataInv, DataTypeOK, Range
<1>3. ASSUME NEW next, next \notin {"write", "single"}, pc[h] \notin {"write", "single"},
             pc' = [pc EXCEPT ![h] = next]
      PROVE  Writers' = Writers
  BY <1>1, <1>3 DEF Writers
<1>4. ASSUME pc[h] \in Critical \ Flushing, Return(h) PROVE Writers' = {} /\ Writers = {}
  <2>1. mutationOwner = h
    BY <1>1, <1>4 DEF ControlInv, MutualExclusion
  <2>2. Writers = {}
    BY <1>4, <2>1, WritersOwn DEF Writers, Flushing
  <2> QED
    BY <1>1, <1>4, <2>1, <2>2, NobodyWrites
<1>5. ASSUME Granted(h) PROVE Writers = {} /\ InFlight = {} /\ pc[h] = "lock"
  BY <1>1, <1>5, WritersOwn DEF Granted, Writers, InFlight
<1>6. ASSUME NEW S, NEW why \in Fates \ {"none"}, fate' = Mark(S, why)
      PROVE  /\ fate' \in [Ids -> Fates]
             /\ \A i \in Ids : fate[i] # "none" \/ i \in S => fate'[i] # "none"
  BY <1>2, <1>6 DEF Mark
<1>7. {"raised", "cleared"} \subseteq Fates \ {"none"}
  BY DEF Fates
<1>8. Critical \ Flushing = {"direct", "vacuum", "evict", "evictcancel", "begin", "closebackup", "dispose"}
  BY DEF Critical, Flushing
<1>10. CASE \E o \in AllOps : Call(h, o)
  <2>1. PICK o \in AllOps : Call(h, o)
    BY <1>10
  <2>2. PICK next \in {"gate", "lock"} : pc' = [pc EXCEPT ![h] = next]
    BY <2>1 DEF Call
  <2>3. /\ pc[h] = "idle" /\ UNCHANGED <<buffer, db, fate, ambiguous, accepted>>
        /\ \E m \in 0..N : mark' = [mark EXCEPT ![h] = m]
    BY <1>2, <2>1 DEF Call
  <2>7. mark' \in [Tasks -> 0..N]
    BY <1>1, <1>2, <2>3
  <2>4. Writers' = Writers /\ h \notin Writers
    BY <1>3, <2>2, <2>3 DEF Writers
  <2>5. CASE o = "store_many"
    <3>1. direct' = direct + 1 /\ direct < D /\ batch' = [batch EXCEPT ![h] = <<N + direct'>>]
      BY <2>1, <2>5 DEF Call
    <3>2. direct' \in 0..D /\ N + direct' \in Ids
      BY <1>2, <3>1, StoreAssumption DEF Ids
    <3>3. batch' \in [Tasks -> Seq(Ids)] /\ \A t \in Writers : batch'[t] = batch[t]
      <4>1. <<N + direct'>> \in Seq(Ids)
        BY <3>2
      <4> QED
        BY <1>1, <1>2, <2>4, <3>1, <4>1
    <3> QED
      BY <1>2, <2>3, <2>4, <2>7, <3>2, <3>3, OtherData
  <2>6. CASE o # "store_many"
    <3>1. UNCHANGED <<direct, batch>>
      BY <2>1, <2>6 DEF Call
    <3> QED
      BY <2>3, <2>4, <2>7, <3>1, SameData DEF data
  <2> QED
    BY <2>5, <2>6
<1>11. CASE GateOpens(h) \/ GateShut(h) \/ EvictCancelled(h)
  <2>1. PICK next \in {"gate", "lock", "evictcancel"} : pc' = [pc EXCEPT ![h] = next]
    BY <1>11 DEF GateOpens, GateShut, EvictCancelled
  <2>2. pc[h] \in {"gate", "lock", "evict"} /\ UNCHANGED <<data, calls>>
    BY <1>11 DEF GateOpens, GateShut, EvictCancelled, Granted
  <2> QED
    BY <1>2, <1>3, <2>1, <2>2, SameData DEF calls
<1>12. CASE Cancelled(h)
  <2>1. /\ pc[h] \in {"gate", "lock"} /\ pc' = [pc EXCEPT ![h] = "idle"]
        /\ batch' = [batch EXCEPT ![h] = <<>>] /\ fate' = Mark(Range(batch[h]), "raised")
        /\ UNCHANGED <<buffer, db, ambiguous, calls>>
    BY <1>12 DEF Cancelled, Idle
  <2>2. Writers' = Writers /\ h \notin Writers
    BY <1>3, <2>1 DEF Writers
  <2>3. batch' \in [Tasks -> Seq(Ids)] /\ \A t \in Writers : batch'[t] = batch[t]
    BY <1>1, <1>2, <2>1, <2>2
  <2> QED
    BY <1>2, <1>6, <1>7, <2>1, <2>2, <2>3, OtherData DEF calls
<1>13. CASE ReadDone(h)
  <2>1. /\ pc[h] \in {"read", "stale"} /\ pc' = [pc EXCEPT ![h] = "idle"]
        /\ mark' = [mark EXCEPT ![h] = 0] /\ UNCHANGED <<data, accepted, direct>>
    BY <1>13 DEF ReadDone, Idle
  <2>2. mark' \in [Tasks -> 0..N]
    BY <1>1, <1>2, <2>1
  <2> QED
    BY <1>3, <2>1, <2>2, SameData
<1>14. CASE EnterDirect(h) \/ EnterEvict(h)
  <2>1. PICK next \in {"direct", "evict"} : pc' = [pc EXCEPT ![h] = next]
    BY <1>14 DEF EnterDirect, EnterEvict, Enter
  <2>2. Granted(h) /\ UNCHANGED <<data, calls>>
    BY <1>14 DEF EnterDirect, EnterEvict, Enter, Admitted
  <2> QED
    BY <1>2, <1>3, <1>5, <2>1, <2>2, SameData DEF calls
<1>15. CASE DirectWritten(h)
  <2>1. /\ pc[h] = "direct" /\ db' = db \o batch[h] /\ batch' = [batch EXCEPT ![h] = <<>>]
        /\ Return(h) /\ UNCHANGED <<buffer, fate, ambiguous, calls>>
    BY <1>15 DEF DirectWritten
  <2>2. Writers' = {} /\ Writers = {}
    BY <1>4, <1>8, <2>1
  <2>3. Range(db \o batch[h]) = Range(db) \cup Range(batch[h]) /\ db \o batch[h] \in Seq(Ids)
    BY <1>2, RangeConcatenation, ConcatProperties
  <2> QED
    BY <1>2, <2>1, <2>2, <2>3, OtherData DEF calls
<1>16. CASE DirectFailed(h)
  <2>1. /\ pc[h] = "direct" /\ batch' = [batch EXCEPT ![h] = <<>>]
        /\ fate' = Mark(Range(batch[h]), "raised")
        /\ Return(h) /\ UNCHANGED <<buffer, calls>>
    BY <1>16 DEF DirectFailed
  <2>2. Writers' = {} /\ Writers = {}
    BY <1>4, <1>8, <2>1
  <2>3. /\ db' \in Seq(Ids) /\ Range(db) \subseteq Range(db') /\ ambiguous' \in 0..MaxAmbiguous
    <3>1. PICK n \in 0..Len(batch[h]) : Committed(h, n)
      <4>1. Len(batch[h]) \in Nat
        BY <1>2, LenProperties
      <4> QED
        BY <1>16, <4>1 DEF DirectFailed
    <3> QED
      BY <1>1, <1>2, <3>1, CommittedType
  <2>4. fate' \in [Ids -> Fates] /\ \A i \in Ids : fate[i] # "none" => fate'[i] # "none"
    BY <1>6, <1>7, <2>1
  <2>5. DataTypeOK' /\ BufferBound'
    BY <1>2, <2>1, <2>3, <2>4 DEF DataTypeOK, BufferBound, DataInv, calls
  <2>6. Held \subseteq Held'
    BY <2>1, <2>2, <2>3 DEF Held, InFlight
  <2> QED
    BY <2>1, <2>2, <2>4, <2>5, <2>6, QuietData DEF calls
<1>17. CASE EvictReturns(h) \/ Vacuumed(h)
  <2>1. pc[h] \in {"evict", "evictcancel", "vacuum"} /\ Return(h) /\ UNCHANGED <<data, calls>>
    BY <1>17 DEF EvictReturns, Vacuumed
  <2> QED
    BY <1>2, <1>4, <1>8, <2>1, SameData DEF calls
<1>18. CASE Raises(h) \/ Cleared(h)
  <2>1. pc[h] \in {"clear", "begin", "dispose"} /\ Return(h) /\ UNCHANGED <<buffer, batch, ambiguous, calls>>
    BY <1>18 DEF Raises, Cleared, data
  <2>2. mutationOwner = h
    BY <1>1, <2>1 DEF ControlInv, MutualExclusion, Critical
  <2>3. Writers = {}
    BY <2>1, <2>2, WritersOwn DEF Writers
  <2>4. Writers' = {}
    BY <1>1, <2>1, <2>2, NobodyWrites
  <2>5. CASE Raises(h)
    BY <1>2, <2>3, <2>4, <2>5, SameData DEF Raises, calls
  <2>6. CASE Cleared(h)
    <3>1. db' = <<>> /\ fate' = Mark(Range(db), "cleared")
      BY <2>6 DEF Cleared
    <3>2. /\ fate' \in [Ids -> Fates]
          /\ \A i \in Ids : fate[i] # "none" \/ i \in Range(db) => fate'[i] # "none"
      BY <1>6, <1>7, <3>1
    <3>3. DataTypeOK' /\ BufferBound'
      BY <1>2, <2>1, <3>1, <3>2 DEF DataTypeOK, BufferBound, DataInv, calls
    <3>4. Held = Range(db) \cup Range(buffer) /\ Range(buffer) \subseteq Held'
      BY <2>1, <2>3 DEF Held, InFlight
    <3> QED
      BY <2>1, <2>4, <3>2, <3>3, <3>4, QuietData DEF calls
  <2> QED
    BY <1>18, <2>5, <2>6
<1>19. CASE EnterClear(h)
  <2>1. /\ Granted(h) /\ pc' = [pc EXCEPT ![h] = "clear"] /\ buffer' = <<>>
        /\ fate' = Mark(Range(buffer) \cup InFlight, "cleared")
        /\ UNCHANGED <<batch, db, ambiguous, calls>>
    BY <1>19 DEF EnterClear, Enter, Admitted
  <2>2. Writers = {} /\ InFlight = {} /\ Writers' = {}
    BY <1>3, <1>5, <2>1
  <2>3. /\ fate' \in [Ids -> Fates]
        /\ \A i \in Ids : fate[i] # "none" \/ i \in Range(buffer) => fate'[i] # "none"
    BY <1>6, <1>7, <2>1
  <2>4. DataTypeOK' /\ BufferBound'
    BY <1>2, <2>1, <2>3 DEF DataTypeOK, BufferBound, calls
  <2>5. Held = Range(db) \cup Range(buffer) /\ Range(db) \subseteq Held'
    BY <2>1, <2>2 DEF Held
  <2> QED
    BY <2>1, <2>2, <2>3, <2>4, <2>5, QuietData DEF calls
<1> QED
  BY <1>10, <1>11, <1>12, <1>13, <1>14, <1>15, <1>16, <1>17, <1>18, <1>19 DEF HostStep

\* store(): at the limit the oldest buffered telegram makes room, and is marked.
LEMMA DataStoreStep ==
  ASSUME DataInv, Store
  PROVE  DataInv'
<1>1. /\ buffer \in Seq(Stored) /\ db \in Seq(Ids) /\ fate \in [Ids -> Fates]
      /\ accepted \in 0..N /\ N \in Nat /\ Stored \subseteq Ids
      /\ Len(buffer) \in Nat /\ MaxBuffer \in Nat \ {0} /\ Len(buffer) <= MaxBuffer
  BY StoreAssumption, StoredAreIds, LenProperties DEF DataInv, DataTypeOK, BufferBound
<1>2. /\ accepted < N /\ accepted' = accepted + 1
      /\ UNCHANGED <<batch, db, pc, direct, mark, ambiguous>>
  BY DEF Store
<1>3. accepted' \in 0..N /\ accepted' \in Stored
  BY <1>1, <1>2 DEF Stored
<1>4. Writers' = Writers /\ InFlight' = InFlight
  BY <1>2 DEF Writers, InFlight
<1>5. /\ buffer' \in Seq(Stored) /\ Len(buffer') <= MaxBuffer
      /\ fate' \in [Ids -> Fates] /\ accepted' \in Range(buffer')
      /\ \A i \in Range(buffer) : i \in Range(buffer') \/ fate'[i] # "none"
      /\ \A i \in Ids : fate[i] # "none" => fate'[i] # "none"
  <2>1. CASE Len(buffer) >= MaxBuffer
    <3>1. /\ buffer' = Append(Tail(buffer), accepted')
          /\ fate' = Mark({Head(buffer)}, "overflow")
      BY <2>1 DEF Store
    <3>2. buffer # <<>>
      BY <1>1, <2>1, EmptySeq
    <3>3. /\ Tail(buffer) \in Seq(Stored) /\ Len(Tail(buffer)) = Len(buffer) - 1
          /\ Head(buffer) \in Stored
          /\ Range(buffer) = {Head(buffer)} \cup Range(Tail(buffer))
      BY <1>1, <3>2, HeadTailProperties, RangeOfHeadTail
    <3>4. /\ buffer' \in Seq(Stored) /\ Len(buffer') = Len(Tail(buffer)) + 1
          /\ Range(buffer') = Range(Tail(buffer)) \cup {accepted'}
      <4> DEFINE rest == Tail(buffer)
      <4>1. rest \in Seq(Stored) /\ buffer' = Append(rest, accepted')
        BY <3>1, <3>3
      <4> HIDE DEF rest
      <4>2. Len(Append(rest, accepted')) = Len(rest) + 1
        BY <1>3, <4>1, AppendProperties
      <4>3. /\ Append(rest, accepted') \in Seq(Stored)
            /\ Range(Append(rest, accepted')) = Range(rest) \cup {accepted'}
        BY <1>3, <4>1, RangeOfAppend
      <4> QED
        BY <4>1, <4>2, <4>3 DEF rest
    <3>5. /\ fate' \in [Ids -> Fates] /\ fate'[Head(buffer)] # "none"
          /\ \A i \in Ids : fate[i] # "none" => fate'[i] # "none"
      BY <1>1, <3>1, <3>3 DEF Mark, Fates
    <3> QED
      BY <1>1, <2>1, <3>3, <3>4, <3>5
  <2>2. CASE ~(Len(buffer) >= MaxBuffer)
    <3>1. buffer' = Append(buffer, accepted') /\ fate' = fate
      BY <2>2 DEF Store
    <3>2. /\ buffer' \in Seq(Stored) /\ Len(buffer') = Len(buffer) + 1
          /\ Range(buffer') = Range(buffer) \cup {accepted'}
      BY <1>1, <1>3, <3>1, AppendProperties, RangeOfAppend
    <3> QED
      BY <1>1, <2>2, <3>1, <3>2
  <2> QED
    BY <2>1, <2>2
<1>6. DataTypeOK' /\ BufferBound'
  BY <1>2, <1>3, <1>5 DEF DataInv, DataTypeOK, BufferBound
<1>7. FlushBatch'
  BY <1>2, <1>4 DEF DataInv, FlushBatch
<1>8. NoSilentLoss'
  <2> SUFFICES ASSUME NEW i \in 1..accepted' PROVE i \in Held' \/ fate'[i] # "none"
    BY DEF NoSilentLoss
  <2>1. CASE i = accepted'
    BY <1>5, <2>1 DEF Held
  <2>2. CASE i # accepted'
    <3>1. i \in 1..accepted /\ i \in Ids
      BY <1>1, <1>2, <2>2 DEF Stored
    <3>2. i \in Held \/ fate[i] # "none"
      BY <3>1 DEF DataInv, NoSilentLoss
    <3> QED
      BY <1>2, <1>4, <1>5, <3>1, <3>2 DEF Held
  <2> QED
    BY <2>1, <2>2
<1> QED
  BY <1>6, <1>7, <1>8 DEF DataInv

\* An eviction takes outdated telegrams only, and marks each one it takes.
LEMMA DataEvictionStep ==
  ASSUME ControlInv, DataInv, EvictionDone \/ EvictionFailed
  PROVE  DataInv'
<1>1. /\ buffer \in Seq(Stored) /\ db \in Seq(Ids) /\ fate \in [Ids -> Fates]
      /\ Stored \subseteq Ids /\ Len(buffer) <= MaxBuffer
      /\ Len(buffer) \in Nat /\ MaxBuffer \in Nat
  BY StoreAssumption, StoredAreIds, LenProperties DEF DataInv, DataTypeOK, BufferBound
<1>2. eviction = "running" /\ UNCHANGED <<batch, ambiguous, pc, calls>>
  BY DEF EvictionDone, EvictionFailed
<1>3. Writers = {}
  BY <1>2 DEF ControlInv, MutualExclusion, Writers, Flushing
<1>4. Writers' = {} /\ InFlight = {}
  BY <1>2, <1>3 DEF Writers, InFlight
<1>5. ASSUME NEW S, fate' = Mark(S, "evicted")
      PROVE  /\ fate' \in [Ids -> Fates]
             /\ \A i \in Ids : fate[i] # "none" \/ i \in S => fate'[i] # "none"
  BY <1>1, <1>5 DEF Mark, Fates
<1>6. CASE EvictionDone
  <2>1. PICK rows \in Keeping(db, Outdated), kept \in Keeping(buffer, Outdated) :
          db' = Reading(db, rows) /\ buffer' = Reading(buffer, kept)
    BY <1>6 DEF EvictionDone
  <2>2. fate' = Mark(Held \cap Outdated, "evicted")
    BY <1>6 DEF EvictionDone
  <2>3. db' \in Seq(Ids) /\ \A i \in Range(db) : i \in Outdated \/ i \in Range(db')
    BY <1>1, <2>1, ReadingType, ReadingKeeps
  <2>4. buffer' \in Seq(Stored) /\ Len(buffer') <= Len(buffer)
    BY <1>1, <2>1, ReadingType
  <2>5. \A i \in Range(buffer) : i \in Outdated \/ i \in Range(buffer')
    BY <1>1, <2>1, ReadingKeeps
  <2>6. /\ fate' \in [Ids -> Fates]
        /\ \A i \in Ids : fate[i] # "none" \/ i \in Held \cap Outdated => fate'[i] # "none"
    BY <1>5, <2>2
  <2>7. Len(buffer') \in Nat
    BY <2>4, LenProperties
  <2>8. DataTypeOK' /\ BufferBound'
    BY <1>1, <1>2, <2>3, <2>4, <2>6, <2>7 DEF DataInv, DataTypeOK, BufferBound, calls
  <2>9. \A i \in Held : i \in Outdated \/ i \in Held'
    BY <1>4, <2>3, <2>5 DEF Held
  <2> QED
    BY <1>2, <1>4, <2>6, <2>8, <2>9, QuietData DEF calls
<1>7. CASE EvictionFailed
  <2>1. buffer' = buffer
    BY <1>7 DEF EvictionFailed
  <2>2. CASE UNCHANGED <<db, fate>>
    BY <1>2, <1>3, <1>4, <2>1, <2>2, SameData DEF data, calls, DataInv, DataTypeOK
  <2>3. CASE ~UNCHANGED <<db, fate>>
    <3>1. PICK rows \in Keeping(db, Outdated) : db' = Reading(db, rows)
      BY <1>7, <2>3 DEF EvictionFailed
    <3>2. fate' = Mark((Range(db) \ Range(buffer)) \cap Outdated, "evicted")
      BY <1>7, <2>3 DEF EvictionFailed
    <3>3. db' \in Seq(Ids) /\ \A i \in Range(db) : i \in Outdated \/ i \in Range(db')
      BY <1>1, <3>1, ReadingType, ReadingKeeps
    <3>4. /\ fate' \in [Ids -> Fates]
          /\ \A i \in Ids : fate[i] # "none" \/ i \in (Range(db) \ Range(buffer)) \cap Outdated
               => fate'[i] # "none"
      BY <1>5, <3>2
    <3>5. DataTypeOK' /\ BufferBound'
      BY <1>1, <1>2, <2>1, <3>3, <3>4 DEF DataInv, DataTypeOK, BufferBound, calls
    <3>6. \A i \in Held : i \in (Range(db) \ Range(buffer)) \cap Outdated \/ i \in Held'
      BY <1>4, <2>1, <3>3 DEF Held
    <3> QED
      BY <1>2, <1>4, <3>4, <3>5, <3>6, QuietData DEF calls
  <2> QED
    BY <2>2, <2>3
<1> QED
  BY <1>6, <1>7

\* Backups move no telegram; close() of a store that was never initialized drops its buffer.
LEMMA DataLifeStep ==
  ASSUME ControlInv, DataInv, NEW h \in Hosts, BackupStep(h) \/ CloseStep(h)
  PROVE  DataInv'
<1>1. /\ h \in Tasks /\ h # Loop /\ NoTask \notin Tasks /\ pc \in [Tasks -> HostPcs \cup LoopPcs]
      /\ lockQueue \in Seq(Tasks) /\ Loop \in Tasks
  BY StoreAssumption DEF Tasks, ControlInv, ControlTypeOK
<1>2. /\ mark \in [Tasks -> 0..N]
     /\ (UNCHANGED calls => accepted' = accepted /\ direct' = direct /\ mark' = mark)
  BY DEF DataInv, DataTypeOK, calls
<1>3. ASSUME NEW next \in (HostPcs \cup LoopPcs) \ {"write", "single"},
             pc[h] \notin {"write", "single"}, pc' = [pc EXCEPT ![h] = next]
      PROVE  Writers' = Writers
  BY <1>1, <1>3 DEF Writers
<1>4. ASSUME pc[h] \in Critical \ {"write", "single"}, Return(h) PROVE Writers' = Writers
  <2>1. mutationOwner = h
    BY <1>1, <1>4 DEF ControlInv, MutualExclusion
  <2>2. Writers = {}
    BY <1>4, <2>1, WritersOwn DEF Writers
  <2> QED
    BY <1>1, <1>4, <2>1, <2>2, NobodyWrites
<1>5. ASSUME Granted(h) PROVE Writers = {} /\ InFlight = {} /\ pc[h] = "lock" /\ mutationOwner = NoTask
  BY <1>1, <1>5, WritersOwn DEF Granted, Writers, InFlight
<1>6. CASE BeginRefused(h)
  <2>1. Granted(h) /\ Return(h) /\ UNCHANGED <<data, calls>>
    BY <1>6 DEF BeginRefused, Admitted
  <2>2. Writers' = Writers
    BY <1>1, <1>5, <2>1, NobodyWrites
  <2> QED
    BY <1>2, <2>1, <2>2, SameData
<1>7. CASE BackupBegun(h) \/ Disposed(h)
  <2>1. pc[h] \in {"begin", "dispose"} /\ Return(h) /\ UNCHANGED <<data, calls>>
    BY <1>7 DEF BackupBegun, Disposed
  <2>2. Writers' = Writers
    BY <1>4, <2>1 DEF Critical
  <2> QED
    BY <1>2, <2>1, <2>2, SameData
<1>8. CASE \/ CallEnd(h) \/ BackupEnded(h) \/ CallInit(h) \/ InitReturns(h)
           \/ CloseEndsBackup(h) \/ CloseEndFailed(h) \/ LoopJoined(h)
  <2>1. \E next \in {"idle", "end", "init", "closeend", "lock"} : pc' = [pc EXCEPT ![h] = next]
    BY <1>8 DEF CallEnd, BackupEnded, CallInit, InitReturns, CloseEndsBackup, CloseEndFailed,
                LoopJoined, Idle
  <2>2. pc[h] \in {"idle", "end", "init", "closeend", "join"} /\ UNCHANGED <<data, calls>>
    BY <1>8 DEF CallEnd, BackupEnded, CallInit, InitReturns, CloseEndsBackup, CloseEndFailed,
                LoopJoined
  <2>3. Writers' = Writers
    BY <1>3, <2>1, <2>2 DEF HostPcs
  <2> QED
    BY <1>2, <2>2, <2>3, SameData
<1>9. CASE CallClose(h) \/ CloseEndedBackup(h)
  <2>1. StopLoop(h) /\ pc[h] \in {"idle", "closeend"} /\ UNCHANGED <<data, calls>>
    BY <1>9 DEF CallClose, CloseEndedBackup
  <2>2. Writers' = Writers
    BY <1>1, <2>1 DEF StopLoop, Writers
  <2> QED
    BY <1>2, <2>1, <2>2, SameData
<1>10. CASE CloseRaises(h)
  <2>1. UNCHANGED <<data, pc, calls>>
    BY <1>10 DEF CloseRaises
  <2> QED
    BY <1>2, <2>1, SameData DEF Writers
<1>11. CASE CloseDiscards(h)
  <2>1. /\ Granted(h) /\ buffer' = <<>> /\ fate' = Mark(Range(buffer), "discarded")
        /\ CloseBackend(h) /\ UNCHANGED <<batch, db, ambiguous, calls>>
    BY <1>11 DEF CloseDiscards
  <2>2. Writers' = {}
    BY <1>1, <1>5, <2>1 DEF CloseBackend, Writers
  <2>3. /\ fate' \in [Ids -> Fates]
        /\ \A i \in Ids : fate[i] # "none" \/ i \in Range(buffer) => fate'[i] # "none"
    BY <2>1 DEF DataInv, DataTypeOK, Mark, Fates
  <2>4. <<>> \in Seq(Stored) /\ Len(<<>>) <= MaxBuffer
    BY EmptySeq, StoreAssumption
  <2>5. DataTypeOK' /\ BufferBound'
    BY <2>1, <2>3, <2>4 DEF DataInv, DataTypeOK, BufferBound, calls
  <2>6. Held = Range(db) \cup Range(buffer) /\ Range(db) \subseteq Held'
    BY <1>5, <2>1 DEF Held
  <2> QED
    BY <1>2, <2>1, <2>2, <2>3, <2>5, <2>6, QuietData
<1>12. CASE BackendEndedBackup(h)
  <2>1. /\ pc[h] = "closebackup" /\ UNCHANGED <<data, calls>>
        /\ pc' = [pc EXCEPT ![h] = "dispose"] \/ Return(h)
    BY <1>12 DEF BackendEndedBackup
  <2>2. Writers' = Writers
    BY <1>3, <1>4, <2>1 DEF Critical, HostPcs
  <2> QED
    BY <1>2, <2>1, <2>2, SameData
<1> QED
  BY <1>6, <1>7, <1>8, <1>9, <1>10, <1>11, <1>12 DEF BackupStep, CloseStep

LEMMA DataStep == ControlInv /\ DataInv /\ [Next]_vars => DataInv'
<1> SUFFICES ASSUME ControlInv, DataInv, [Next]_vars PROVE DataInv'
  OBVIOUS
<1>1. CASE Start \/ Tick
  <2>1. \E next \in {"sleep", "lock"} : pc' = [pc EXCEPT ![Loop] = next]
    BY <1>1 DEF Start, Tick
  <2>2. pc[Loop] \in {"none", "sleep"} /\ UNCHANGED <<data, calls>>
    BY <1>1 DEF Start, Tick
  <2>3. Writers' = Writers
    BY <2>1, <2>2 DEF Writers, ControlInv, ControlTypeOK
  <2> QED
    BY <2>2, <2>3, SameData DEF calls, DataInv, DataTypeOK
<1>2. CASE UNCHANGED vars
  <2>1. UNCHANGED <<data, pc, calls>>
    BY <1>2 DEF vars
  <2> QED
    BY <2>1, SameData DEF Writers, calls, DataInv, DataTypeOK
<1> QED
  BY <1>1, <1>2, DataStoreStep, DataEvictionStep, DataFlushStep, DataHostStep, DataLifeStep DEF Next

LEMMA Inductive == Spec => [](ControlInv /\ DataInv)
<1>1. Init => ControlInv /\ DataInv
  BY ControlInit, DataInit
<1>2. ControlInv /\ DataInv /\ [Next]_vars => ControlInv' /\ DataInv'
  BY ControlStep, DataStep
<1> QED
  BY <1>1, <1>2, PTL DEF Spec

\* Every variable keeps its type: in particular the flush task is never found at an await of
\* a host's call, nor a host at one of the flush task.
THEOREM TypeCorrect == Spec => []TypeOK
<1>1. ControlInv /\ DataInv => TypeOK
  BY DEF ControlInv, ControlTypeOK, DataInv, DataTypeOK, TypeOK
<1> QED
  BY <1>1, Inductive, PTL

\* store() and a failed flush that puts its batch back never exceed max_buffer_size.
THEOREM Bounded == Spec => []BufferBound
<1>1. DataInv => BufferBound
  BY DEF DataInv
<1> QED
  BY <1>1, Inductive, PTL

\* No interleaving of flushes, failures, cancellations, evictions, clears, backups and close()
\* loses a telegram that store() accepted, except in one of the ways the documentation names.
THEOREM NothingLost == Spec => []NoSilentLoss
<1>1. DataInv => NoSilentLoss
  BY DEF DataInv
<1> QED
  BY <1>1, Inductive, PTL

-----------------------------------------------------------------------------
(* The write gate: it is open around every write, shut for as long as a    *)
(* backup lasts, and close() empties the buffer before it disposes of the  *)
(* backend.                                                                *)

\* Where the write gate must be open ...
Inside == Critical \ {"dispose", "closebackup"}
\* ... and where a host waits for the COMMIT that ends a backup.
Ends == {"end", "closeend", "closebackup"}
-----------------------------------------------------------------------------
(* The shapes a step may have.  In each, t is the task that moves: no      *)
(* other task does, but for the flush task, which is replaced or stopped.  *)

Others(t) ==
  /\ \A u \in Tasks \ {t} : op'[u] = op[u]
  /\ \A u \in Tasks \ {t} :
       pc'[u] # pc[u] => u = Loop /\ pc[u] \notin Critical /\ pc'[u] \in {"sleep", "ended"}

\* t has the lock and the open gate, or the free lock was just granted to it.
CanEnter(t) ==
  /\ pc[t] \in Inside \/ mutationOwner = NoTask
  /\ pc[t] \in Inside \/ (closing => op[t] = "close")

StaysOutside(t) ==
  /\ pc'[t] \notin Critical \cup Ends
  /\ UNCHANGED gate
  /\ closing => closing'
  /\ op'[t] = "close" => closing' \/ op[t] = "close"
  /\ op'[t] = "begin" => "begin" \in Ops \/ op[t] = "begin"

IsInside(t) ==
  /\ CanEnter(t)
  /\ pc[t] \in Inside \/ writesAllowed
  /\ pc'[t] \in Inside
  /\ pc'[t] = "begin" => op[t] = "begin"
  /\ op'[t] = op[t]
  /\ UNCHANGED <<gate, closing>>

ClosesBackend(t) ==
  /\ CanEnter(t)
  /\ op[t] = "close"
  /\ op'[t] = op[t]
  /\ UNCHANGED <<writesAllowed, closing>>
  /\ \/ pc'[t] = "dispose" /\ UNCHANGED gate
     \/ pc'[t] = "closebackup" /\ backupInProgress /\ ~backupInProgress' /\ backupHost' = NoTask

BeginsBackup(t) ==
  /\ pc[t] = "begin"
  /\ pc'[t] \notin Critical \cup Ends
  /\ backupInProgress' /\ ~writesAllowed' /\ backupHost' = t
  /\ op'[t] # "close"
  /\ UNCHANGED closing

EndsBackup(t) ==
  /\ pc[t] = "idle"
  /\ pc'[t] \in {"end", "closeend"}
  /\ backupInProgress /\ ~backupInProgress' /\ backupHost' = NoTask
  /\ UNCHANGED writesAllowed
  /\ closing => closing'
  /\ pc'[t] = "closeend" => op'[t] = "close"
  /\ op'[t] = "close" => closing'

OpensGate(t) ==
  /\ pc[t] \in Ends
  /\ \/ pc'[t] \notin Critical \cup Ends
     \/ pc[t] = "closebackup" /\ pc'[t] = "dispose" /\ op'[t] = op[t]
  /\ writesAllowed'
  /\ op'[t] = "close" => op[t] = "close" \/ pc[t] = "closeend"
  /\ UNCHANGED <<backupInProgress, backupHost, closing>>

RaisesInClose ==
  /\ UNCHANGED <<pc, op, backupInProgress, backupHost>>
  /\ ~backupInProgress
  /\ writesAllowed'
  /\ closing'

Shape(t) ==
  /\ Others(t)
  /\ \/ StaysOutside(t) \/ IsInside(t) \/ ClosesBackend(t) \/ BeginsBackup(t)
     \/ EndsBackup(t) \/ OpensGate(t)

Unmoved == UNCHANGED <<pc, op, gate, closing>> \/ RaisesInClose

\* A task that returns is outside, and closes nothing.
LEMMA ReturnShape ==
  ASSUME ControlInv, NEW t \in Tasks, Return(t)
  PROVE  Others(t) /\ pc'[t] \notin Critical \cup Ends /\ op'[t] \notin {"close", "begin"}
BY DEF ControlInv, ControlTypeOK, Return, Others, Critical, Ends

\* A task that only changes its own place and operation moves nobody else.
LEMMA OwnMove ==
  ASSUME ControlInv, NEW t \in Tasks, NEW next, NEW o,
         pc' = [pc EXCEPT ![t] = next], op' = [op EXCEPT ![t] = o]
  PROVE  Others(t) /\ pc'[t] = next /\ op'[t] = o
BY DEF ControlInv, ControlTypeOK, Others

LEMMA PcMove ==
  ASSUME ControlInv, NEW t \in Tasks, NEW next, pc' = [pc EXCEPT ![t] = next], op' = op
  PROVE  Others(t) /\ pc'[t] = next /\ op'[t] = op[t]
BY DEF ControlInv, ControlTypeOK, Others

\* A flush that returns replaces the flush task only where that task holds nothing.
LEMMA ResetMove ==
  ASSUME ControlInv, NEW t \in Tasks \ {Loop}, CanEnter(t), NEW next, NEW q,
         ResetTimer(t, next, q), \A u \in Tasks \ {t} : op'[u] = op[u]
  PROVE  Others(t) /\ pc'[t] = next
<1>1. pc'[t] = next /\ \A u \in Tasks \ {t} : pc'[u] # pc[u] => u = Loop /\ pc'[u] = "sleep"
  BY DEF ResetTimer, ControlInv, ControlTypeOK
<1>2. \A u \in Tasks \ {t} : pc[u] \notin Critical
  BY StoreAssumption DEF CanEnter, Inside, ControlInv, MutualExclusion
<1> QED
  BY <1>1, <1>2 DEF Others

LEMMA AfterFlushShape ==
  ASSUME ControlInv, NEW t \in Tasks, NEW q, AfterFlush(t, q), CanEnter(t),
         UNCHANGED closing, pc[t] \in Inside \/ (op[t] = "optimize" => writesAllowed),
         pc[t] \in Inside \/ (op[t] = "begin" => writesAllowed)
  PROVE  Shape(t)
<1>1. CASE op[t] = "loop"
  <2>1. Return(t) /\ UNCHANGED gate
    BY <1>1 DEF AfterFlush
  <2> QED
    BY <2>1, ReturnShape DEF Shape, StaysOutside
<1>2. CASE op[t] \in {"flush", "query"}
  <2>1. t # Loop
    BY <1>2 DEF ControlInv, ControlTypeOK
  <2>2. PICK next \in {"idle", "read", "stale"} : ResetTimer(t, next, q)
    BY <1>2 DEF AfterFlush
  <2>3. /\ op' \in {op, [op EXCEPT ![t] = "none"]}
        /\ UNCHANGED gate
    BY <1>2 DEF AfterFlush
  <2>4. op'[t] \notin {"close", "begin"} /\ \A u \in Tasks \ {t} : op'[u] = op[u]
    BY <1>2, <2>1, <2>3 DEF ControlInv, ControlTypeOK
  <2>5. Others(t) /\ pc'[t] = next
    BY <2>1, <2>2, <2>4, ResetMove
  <2> QED
    BY <2>3, <2>4, <2>5 DEF Shape, StaysOutside, Critical, Ends
<1>3. CASE op[t] = "optimize"
  <2>1. t # Loop
    BY <1>3 DEF ControlInv, ControlTypeOK
  <2>2. ResetTimer(t, "vacuum", q) /\ UNCHANGED <<op, gate>>
    BY <1>3 DEF AfterFlush
  <2>3. Others(t) /\ pc'[t] = "vacuum"
    BY <2>1, <2>2, ResetMove
  <2> QED
    BY <1>3, <2>2, <2>3 DEF Shape, IsInside, Inside, Critical, CanEnter
<1>4. CASE op[t] = "begin"
  <2>1. pc' = [pc EXCEPT ![t] = "begin"] /\ UNCHANGED <<op, gate>>
    BY <1>4 DEF AfterFlush
  <2>2. Others(t) /\ pc'[t] = "begin"
    BY <2>1, PcMove
  <2> QED
    BY <1>4, <2>1, <2>2 DEF Shape, IsInside, Inside, Critical
<1>5. CASE op[t] = "close"
  <2>1. CloseBackend(t) /\ op' = op /\ UNCHANGED writesAllowed
    BY <1>5 DEF AfterFlush, CloseBackend
  <2>2. CASE backupInProgress
    <3>1. pc' = [pc EXCEPT ![t] = "closebackup"] /\ ~backupInProgress' /\ backupHost' = NoTask
      BY <2>1, <2>2 DEF CloseBackend
    <3>2. Others(t) /\ pc'[t] = "closebackup"
      BY <2>1, <3>1, PcMove
    <3> QED
      BY <1>5, <2>1, <2>2, <3>1, <3>2 DEF Shape, ClosesBackend
  <2>3. CASE ~backupInProgress
    <3>1. pc' = [pc EXCEPT ![t] = "dispose"] /\ UNCHANGED gate
      BY <2>1, <2>3 DEF CloseBackend, gate
    <3>2. Others(t) /\ pc'[t] = "dispose"
      BY <2>1, <3>1, PcMove
    <3> QED
      BY <1>5, <2>1, <3>1, <3>2 DEF Shape, ClosesBackend
  <2> QED
    BY <2>2, <2>3
<1> QED
  BY <1>1, <1>2, <1>3, <1>4, <1>5 DEF AfterFlush

LEMMA FlushShape ==
  ASSUME ControlInv, NEW t \in Tasks, FlushStep(t)
  PROVE  Shape(t) \/ Unmoved
<1>1. ASSUME Admitted(t)
      PROVE  /\ mutationOwner = NoTask /\ pc[t] = "lock"
             /\ CanEnter(t) /\ (op[t] \in Gated => writesAllowed)
  BY <1>1 DEF Admitted, Granted, CanEnter
<1>2. ASSUME pc[t] \in {"write", "single"} PROVE pc[t] \in Inside /\ CanEnter(t)
  BY <1>2 DEF CanEnter, Inside, Critical
<1>3. CASE FlushBegin(t)
  <2>1. /\ CanEnter(t) /\ writesAllowed /\ pc' = [pc EXCEPT ![t] = "write"]
        /\ op' = op /\ UNCHANGED <<gate, closing>>
    BY <1>1, <1>3 DEF FlushBegin, life
  <2>2. Others(t) /\ pc'[t] = "write" /\ op'[t] = op[t]
    BY <2>1, PcMove
  <2> QED
    BY <2>1, <2>2 DEF Shape, IsInside, Inside, Critical
<1>4. CASE FlushNothing(t)
  <2>1. /\ CanEnter(t) /\ AfterFlush(t, Tail(lockQueue)) /\ UNCHANGED closing
        /\ op[t] \in {"optimize", "begin"} => writesAllowed
    BY <1>1, <1>4 DEF FlushNothing, Flushes, Gated, life
  <2> QED
    BY <2>1, AfterFlushShape
<1>5. CASE FlushWritten(t)
  BY <1>2, <1>5, AfterFlushShape DEF FlushWritten, life
<1>6. CASE FlushDataError(t)
  <2>1. /\ CanEnter(t) /\ pc[t] \in Inside /\ pc' = [pc EXCEPT ![t] = "single"]
        /\ op' = op /\ UNCHANGED <<gate, closing>>
    BY <1>2, <1>6 DEF FlushDataError, life
  <2>2. Others(t) /\ pc'[t] = "single" /\ op'[t] = op[t]
    BY <2>1, PcMove
  <2> QED
    BY <2>1, <2>2 DEF Shape, IsInside, Inside, Critical
<1>7. CASE FlushFailed(t) \/ SingleFailed(t) \/ Refuse(t)
  <2>1. Return(t) /\ UNCHANGED <<gate, closing>>
    BY <1>7 DEF FlushFailed, SingleFailed, Refuse, life
  <2> QED
    BY <2>1, ReturnShape DEF Shape, StaysOutside
<1>8. CASE SingleDone(t)
  <2>1. CASE AfterFlush(t, lockQueue)
    BY <1>2, <1>8, <2>1, AfterFlushShape DEF SingleDone, life
  <2>2. CASE UNCHANGED <<pc, op, mutationOwner, lockQueue, gate>>
    BY <1>8, <2>2 DEF SingleDone, life, Unmoved
  <2> QED
    BY <1>8, <2>1, <2>2 DEF SingleDone
<1> QED
  BY <1>3, <1>4, <1>5, <1>6, <1>7, <1>8 DEF FlushStep

LEMMA HostShape ==
  ASSUME ControlInv, NEW h \in Hosts, HostStep(h)
  PROVE  Shape(h) \/ Unmoved
<1>1. h \in Tasks
  BY DEF Tasks
<1>2. ASSUME Return(h), UNCHANGED <<gate, closing>> PROVE Shape(h)
  BY <1>1, <1>2, ReturnShape DEF Shape, StaysOutside
<1>3. CASE \E o \in AllOps : Call(h, o)
  <2>1. PICK o \in Ops \ {"close"} : Call(h, o)
    BY <1>3 DEF Call
  <2>2. PICK next \in {"gate", "lock"} : pc' = [pc EXCEPT ![h] = next]
    BY <2>1 DEF Call
  <2>3. op' = [op EXCEPT ![h] = o] /\ UNCHANGED <<gate, closing>>
    BY <2>1 DEF Call, life
  <2>4. Others(h) /\ pc'[h] = next /\ op'[h] = o
    BY <1>1, <2>2, <2>3, OwnMove
  <2> QED
    BY <2>3, <2>4 DEF Shape, StaysOutside, Critical, Ends
<1>4. CASE GateOpens(h) \/ GateShut(h)
  <2>1. PICK next \in {"gate", "lock"} : pc' = [pc EXCEPT ![h] = next]
    BY <1>4 DEF GateOpens, GateShut
  <2>2. op' = op /\ UNCHANGED <<gate, closing>>
    BY <1>4 DEF GateOpens, GateShut, life
  <2>3. Others(h) /\ pc'[h] = next /\ op'[h] = op[h]
    BY <1>1, <2>1, <2>2, PcMove
  <2> QED
    BY <2>2, <2>3 DEF Shape, StaysOutside, Critical, Ends
<1>5. CASE Cancelled(h) \/ ReadDone(h)
  <2>1. Idle(h) /\ UNCHANGED <<gate, closing>>
    BY <1>5 DEF Cancelled, ReadDone, life
  <2>2. Others(h) /\ pc'[h] = "idle" /\ op'[h] = "none"
    BY <1>1, <2>1, OwnMove DEF Idle
  <2> QED
    BY <2>1, <2>2 DEF Shape, StaysOutside, Critical, Ends
<1>6. CASE EnterDirect(h) \/ EnterEvict(h) \/ EnterClear(h)
  <2>1. PICK o \in Gated, next \in {"direct", "evict", "clear"} : Enter(h, o, next)
    BY <1>6 DEF EnterDirect, EnterEvict, EnterClear, Gated
  <2>2. /\ CanEnter(h) /\ writesAllowed /\ pc' = [pc EXCEPT ![h] = next]
        /\ op' = op /\ UNCHANGED <<gate, closing>>
    BY <2>1 DEF Enter, Admitted, Granted, CanEnter, life
  <2>3. Others(h) /\ pc'[h] = next /\ op'[h] = op[h]
    BY <1>1, <2>2, PcMove
  <2> QED
    BY <2>2, <2>3 DEF Shape, IsInside, Inside, Critical
<1>7. CASE \/ DirectWritten(h) \/ DirectFailed(h) \/ EvictReturns(h) \/ Cleared(h)
           \/ Vacuumed(h) \/ Raises(h)
  <2>1. Return(h) /\ UNCHANGED <<gate, closing>>
    BY <1>7 DEF DirectWritten, DirectFailed, EvictReturns, Cleared, Vacuumed, Raises, life
  <2> QED
    BY <1>2, <2>1
<1>8. CASE EvictCancelled(h)
  <2>1. /\ pc[h] = "evict" /\ pc' = [pc EXCEPT ![h] = "evictcancel"]
        /\ op' = op /\ UNCHANGED <<gate, closing>>
    BY <1>8 DEF EvictCancelled, life
  <2>2. Others(h) /\ pc'[h] = "evictcancel" /\ op'[h] = op[h]
    BY <1>1, <2>1, PcMove
  <2> QED
    BY <2>1, <2>2 DEF Shape, IsInside, Inside, Critical, CanEnter
<1> QED
  BY <1>3, <1>4, <1>5, <1>6, <1>7, <1>8 DEF HostStep

\* close() stops the flush task only where that task holds nothing.
LEMMA StopMove ==
  ASSUME ControlInv, NEW h \in Hosts, StopLoop(h)
  PROVE  Others(h) /\ pc'[h] \in {"join", "lock"} /\ op'[h] = "close"
<1>1. h \in Tasks /\ h # Loop
  BY StoreAssumption DEF Tasks
<1>2. /\ op'[h] = "close" /\ \A u \in Tasks \ {h} : op'[u] = op[u]
      /\ pc'[h] \in {"join", "lock"}
      /\ \A u \in Tasks \ {h} : pc'[u] # pc[u] =>
           u = Loop /\ pc[u] \notin {"write", "single"} /\ pc'[u] = "ended"
  BY <1>1 DEF StopLoop, ControlInv, ControlTypeOK
<1>3. pc[Loop] \in Critical => pc[Loop] \in {"write", "single"}
  BY DEF ControlInv, ControlTypeOK, LoopPcs, Critical
<1> QED
  BY <1>2, <1>3 DEF Others

LEMMA LifeShape ==
  ASSUME ControlInv, NEW h \in Hosts, BackupStep(h) \/ CloseStep(h)
  PROVE  Shape(h) \/ Unmoved
<1>1. h \in Tasks /\ h # Loop
  BY StoreAssumption DEF Tasks
<1>2. ASSUME Return(h) PROVE Others(h) /\ pc'[h] \notin Critical \cup Ends /\ op'[h] \notin {"close", "begin"}
  BY <1>1, <1>2, ReturnShape
<1>3. ASSUME Idle(h) PROVE Others(h) /\ pc'[h] \notin Critical \cup Ends /\ op'[h] \notin {"close", "begin"}
  <2>1. Others(h) /\ pc'[h] = "idle" /\ op'[h] = "none"
    BY <1>1, <1>3, OwnMove DEF Idle
  <2> QED
    BY <2>1 DEF Critical, Ends
<1>4. ASSUME StopLoop(h)
      PROVE  Others(h) /\ pc'[h] \notin Critical \cup Ends /\ op'[h] = "close"
  BY <1>4, StopMove DEF Critical, Ends
<1>5. CASE BeginRefused(h) \/ Disposed(h)
  <2>1. Return(h) /\ UNCHANGED <<gate, closing>>
    BY <1>5 DEF BeginRefused, Disposed, life
  <2> QED
    BY <1>2, <2>1 DEF Shape, StaysOutside
<1>6. CASE BackupBegun(h)
  <2>1. /\ pc[h] = "begin" /\ Return(h) /\ UNCHANGED closing
        /\ backupInProgress' /\ ~writesAllowed' /\ backupHost' = h
    BY <1>6 DEF BackupBegun, life
  <2> QED
    BY <1>2, <2>1 DEF Shape, BeginsBackup
<1>7. CASE CallEnd(h)
  <2>1. /\ pc[h] = "idle" /\ backupInProgress /\ ~backupInProgress' /\ backupHost' = NoTask
        /\ pc' = [pc EXCEPT ![h] = "end"] /\ op' = [op EXCEPT ![h] = "end"]
        /\ UNCHANGED <<closing, writesAllowed>>
    BY <1>7 DEF CallEnd, life
  <2>2. Others(h) /\ pc'[h] = "end" /\ op'[h] = "end"
    BY <1>1, <2>1, OwnMove
  <2> QED
    BY <2>1, <2>2 DEF Shape, EndsBackup
<1>8. CASE BackupEnded(h) \/ CloseEndFailed(h)
  <2>1. /\ pc[h] \in Ends /\ Idle(h) /\ writesAllowed'
        /\ UNCHANGED <<backupInProgress, backupHost, closing>>
    BY <1>8 DEF BackupEnded, CloseEndFailed, Ends, life
  <2> QED
    BY <1>3, <2>1 DEF Shape, OpensGate
<1>9. CASE CallInit(h)
  <2>1. /\ pc' = [pc EXCEPT ![h] = "init"] /\ op' = [op EXCEPT ![h] = "init"]
        /\ UNCHANGED <<gate, closing>>
    BY <1>9 DEF CallInit, life
  <2>2. Others(h) /\ pc'[h] = "init" /\ op'[h] = "init"
    BY <1>1, <2>1, OwnMove
  <2> QED
    BY <2>1, <2>2 DEF Shape, StaysOutside, Critical, Ends
<1>10. CASE InitReturns(h)
  <2>1. Idle(h) /\ UNCHANGED <<gate, closing>>
    BY <1>10 DEF InitReturns
  <2> QED
    BY <1>3, <2>1 DEF Shape, StaysOutside
<1>11. CASE CallClose(h)
  <2>1. closing' /\ StopLoop(h) /\ UNCHANGED gate
    BY <1>11 DEF CallClose
  <2> QED
    BY <1>4, <2>1 DEF Shape, StaysOutside
<1>12. CASE CloseEndsBackup(h)
  <2>1. /\ pc[h] = "idle" /\ backupInProgress /\ ~backupInProgress' /\ backupHost' = NoTask
        /\ pc' = [pc EXCEPT ![h] = "closeend"] /\ op' = [op EXCEPT ![h] = "close"]
        /\ closing' /\ UNCHANGED writesAllowed
    BY <1>12 DEF CloseEndsBackup
  <2>2. Others(h) /\ pc'[h] = "closeend" /\ op'[h] = "close"
    BY <1>1, <2>1, OwnMove
  <2> QED
    BY <2>1, <2>2 DEF Shape, EndsBackup
<1>13. CASE CloseRaises(h)
  BY <1>13 DEF CloseRaises, Unmoved, RaisesInClose
<1>14. CASE CloseEndedBackup(h)
  <2>1. /\ pc[h] = "closeend" /\ StopLoop(h) /\ writesAllowed'
        /\ UNCHANGED <<backupInProgress, backupHost, closing>>
    BY <1>14 DEF CloseEndedBackup, life
  <2> QED
    BY <1>4, <2>1 DEF Shape, OpensGate, Ends
<1>15. CASE LoopJoined(h)
  <2>1. pc' = [pc EXCEPT ![h] = "lock"] /\ op' = op /\ UNCHANGED <<gate, closing>>
    BY <1>15 DEF LoopJoined, life
  <2>2. Others(h) /\ pc'[h] = "lock" /\ op'[h] = op[h]
    BY <1>1, <2>1, PcMove
  <2> QED
    BY <2>1, <2>2 DEF Shape, StaysOutside, Critical, Ends
<1>16. CASE CloseDiscards(h)
  <2>1. /\ CanEnter(h) /\ op[h] = "close" /\ CloseBackend(h) /\ op' = op
        /\ UNCHANGED <<writesAllowed, closing>>
    BY <1>16 DEF CloseDiscards, Granted, CanEnter, CloseBackend, life
  <2>2. AfterFlush(h, lockQueue')
    BY <2>1 DEF AfterFlush
  <2> QED
    BY <1>1, <2>1, <2>2, AfterFlushShape
<1>17. CASE BackendEndedBackup(h)
  <2>1. /\ pc[h] = "closebackup" /\ writesAllowed'
        /\ UNCHANGED <<backupInProgress, backupHost, closing>>
    BY <1>17 DEF BackendEndedBackup, life
  <2>2. CASE Return(h)
    BY <1>2, <2>1, <2>2 DEF Shape, OpensGate, Ends
  <2>3. CASE pc' = [pc EXCEPT ![h] = "dispose"] /\ op' = op
    <3>1. Others(h) /\ pc'[h] = "dispose" /\ op'[h] = op[h]
      BY <1>1, <2>3, PcMove
    <3> QED
      BY <2>1, <3>1 DEF Shape, OpensGate, Ends
  <2> QED
    BY <1>17, <2>2, <2>3 DEF BackendEndedBackup
<1> QED
  BY <1>5, <1>6, <1>7, <1>8, <1>9, <1>10, <1>11, <1>12, <1>13, <1>14, <1>15, <1>16, <1>17
  DEF BackupStep, CloseStep

LEMMA StepShape ==
  ASSUME ControlInv, [Next]_vars
  PROVE  Unmoved \/ \E t \in Tasks : Shape(t)
<1>1. CASE Start \/ Tick
  <2>1. PICK next \in {"sleep", "lock"} : pc' = [pc EXCEPT ![Loop] = next]
    BY <1>1 DEF Start, Tick
  <2>2. op' = op /\ UNCHANGED <<gate, closing>> /\ Loop \in Tasks
    BY <1>1 DEF Start, Tick, life, Tasks
  <2>3. Others(Loop) /\ pc'[Loop] = next /\ op'[Loop] = op[Loop]
    BY <2>1, <2>2, PcMove
  <2> QED
    BY <2>2, <2>3 DEF Shape, StaysOutside, Critical, Ends
<1>2. CASE Store \/ EvictionDone \/ EvictionFailed \/ UNCHANGED vars
  BY <1>2 DEF Store, EvictionDone, EvictionFailed, vars, life, Unmoved
<1>3. \A h \in Hosts : h \in Tasks
  BY DEF Tasks
<1> QED
  BY <1>1, <1>2, <1>3, FlushShape, HostShape, LifeShape DEF Next
-----------------------------------------------------------------------------
(* The gate, the backup and close().  A host may be ending a backup while  *)
(* another one calls close(), which opens the gate early: then closing is  *)
(* set, and nobody but close() can be inside.                              *)

Ending == {h \in Tasks : pc[h] \in Ends}

OpsFit ==
  /\ \A t \in Tasks : pc[t] = "begin" => op[t] = "begin"
  /\ \A t \in Tasks : pc[t] \in {"dispose", "closebackup", "closeend"} => op[t] = "close"
  /\ \A t \in Tasks : op[t] = "close" => closing

BackupInv ==
  /\ backupInProgress <=> backupHost # NoTask
  /\ backupInProgress => ~writesAllowed
  /\ \A g, h \in Ending : g = h
  /\ Ending # {} =>
       /\ ~backupInProgress
       /\ ~writesAllowed \/ closing
       /\ \A t \in Tasks : pc[t] \in Critical => op[t] = "close"

GateInv == GateOpenInside /\ OpsFit /\ BackupInv

LEMMA GateInit == Init => GateInv
<1> SUFFICES ASSUME Init PROVE GateInv
  OBVIOUS
<1>1. /\ writesAllowed /\ ~backupInProgress /\ backupHost = NoTask
      /\ \A t \in Tasks : pc[t] \in {"none", "idle"} /\ op[t] \in {"loop", "none"}
  BY DEF Init
<1>2. Ending = {}
  BY <1>1 DEF Ending, Ends
<1>3. GateOpenInside
  BY <1>1 DEF GateOpenInside
<1>4. OpsFit
  BY <1>1 DEF OpsFit
<1>5. BackupInv
  BY <1>1, <1>2 DEF BackupInv
<1> QED
  BY <1>3, <1>4, <1>5 DEF GateInv

\* Everybody but the task that moves is inside, or ends a backup, where it was.
LEMMA OthersKeep ==
  ASSUME ControlInv, NEW t \in Tasks, Others(t)
  PROVE  /\ \A u \in Tasks \ {t} : pc'[u] \in Critical \cup Ends => pc'[u] = pc[u]
         /\ \A u \in Tasks \ {t} : pc[u] \in Critical \cup Ends => pc'[u] = pc[u]
         /\ \A u \in Tasks \ {t} : op'[u] = op[u]
         /\ \A u \in Tasks : pc[u] \in Critical => mutationOwner = u
<1>1. \A u \in Tasks \ {t} :
        /\ op'[u] = op[u]
        /\ pc'[u] # pc[u] => u = Loop /\ pc[u] \notin Critical /\ pc'[u] \in {"sleep", "ended"}
  BY DEF Others
<1>2. pc[Loop] \notin Ends
  BY DEF ControlInv, ControlTypeOK, LoopPcs, Ends
<1>3. \A u \in Tasks : pc[u] \in Critical => mutationOwner = u
  BY DEF ControlInv, MutualExclusion
<1>4. "sleep" \notin Critical \cup Ends /\ "ended" \notin Critical \cup Ends
  BY DEF Critical, Ends
<1> QED
  BY <1>1, <1>2, <1>3, <1>4

LEMMA GateShape ==
  ASSUME ControlInv, GateInv, NEW t \in Tasks, Shape(t)
  PROVE  GateInv'
<1>1. Others(t)
  BY DEF Shape
<1>2. /\ \A u \in Tasks \ {t} : pc'[u] \in Critical \cup Ends => pc'[u] = pc[u]
      /\ \A u \in Tasks \ {t} : pc[u] \in Critical \cup Ends => pc'[u] = pc[u]
      /\ \A u \in Tasks \ {t} : op'[u] = op[u]
      /\ \A u \in Tasks : pc[u] \in Critical => mutationOwner = u
  BY <1>1, OthersKeep
<1>3. t # NoTask /\ NoTask \notin Tasks
  BY StoreAssumption
<1>4. /\ Inside \subseteq Critical /\ "begin" \in Inside /\ Inside \cap Ends = {}
      /\ Critical \cap Ends = {"closebackup"} /\ "closeend" \in Ends
      /\ {"dispose", "closebackup"} \cap Inside = {} /\ "dispose" \notin Ends
      /\ {"dispose", "closebackup"} \subseteq Critical /\ "end" \in Ends
      /\ "closeend" \notin Critical /\ "end" \notin Critical
  BY DEF Inside, Critical, Ends
<1>5. \A u \in Tasks : pc[u] \in Inside => writesAllowed
  BY DEF GateInv, GateOpenInside, Inside
<1>6. SUFFICES /\ \A u \in Tasks : pc'[u] \in Inside => writesAllowed'
               /\ OpsFit' /\ BackupInv'
  BY DEF GateInv, GateOpenInside, Inside
<1>7. CASE StaysOutside(t)
  <2>1. \A u \in Tasks : pc'[u] \in Inside => writesAllowed'
    BY <1>2, <1>4, <1>5, <1>7 DEF StaysOutside, gate
  <2>2. OpsFit'
    BY <1>2, <1>4, <1>7 DEF StaysOutside, GateInv, OpsFit
  <2>3. Ending' \subseteq Ending
    BY <1>2, <1>7 DEF StaysOutside, Ending
  <2>4. BackupInv'
    BY <1>2, <1>7, <2>3 DEF StaysOutside, GateInv, BackupInv, gate
  <2> QED
    BY <2>1, <2>2, <2>4
<1>8. CASE IsInside(t)
  <2>1. writesAllowed /\ writesAllowed'
    BY <1>5, <1>8 DEF IsInside, gate
  <2>2. OpsFit'
    BY <1>2, <1>4, <1>8 DEF IsInside, GateInv, OpsFit
  <2>3. Ending' \subseteq Ending
    BY <1>2, <1>4, <1>8 DEF IsInside, Ending
  <2>4. Ending # {} => op[t] = "close"
    BY <1>4, <1>8, <2>1 DEF IsInside, CanEnter, GateInv, BackupInv
  <2>5. BackupInv'
    BY <1>2, <1>8, <2>3, <2>4 DEF IsInside, GateInv, BackupInv, gate
  <2> QED
    BY <2>1, <2>2, <2>5
<1>9. CASE ClosesBackend(t)
  <2>1. \A u \in Tasks \ {t} : pc'[u] \notin Critical
    BY <1>2, <1>3, <1>4, <1>9 DEF ClosesBackend, CanEnter
  <2>2. OpsFit' /\ closing'
    BY <1>2, <1>4, <1>9 DEF ClosesBackend, GateInv, OpsFit
  <2>3. pc'[t] \notin Inside
    BY <1>4, <1>9 DEF ClosesBackend
  <2>4. CASE pc'[t] = "dispose" /\ UNCHANGED gate
    <3>1. Ending' \subseteq Ending
      BY <1>2, <1>4, <2>4 DEF Ending
    <3> QED
      BY <1>4, <1>9, <2>1, <2>2, <2>3, <2>4, <3>1 DEF ClosesBackend, GateInv, BackupInv, gate
  <2>5. CASE pc'[t] = "closebackup" /\ backupInProgress /\ ~backupInProgress' /\ backupHost' = NoTask
    <3>1. Ending = {}
      BY <2>5 DEF GateInv, BackupInv
    <3>2. Ending' = {t}
      BY <1>2, <1>4, <2>5, <3>1 DEF Ending
    <3>3. BackupInv'
      BY <1>9, <2>1, <2>2, <2>5, <3>2 DEF ClosesBackend, BackupInv
    <3> QED
      BY <1>4, <2>1, <2>2, <2>3, <3>3
  <2> QED
    BY <1>9, <2>4, <2>5 DEF ClosesBackend
<1>10. CASE BeginsBackup(t)
  <2>1. pc[t] \in Critical /\ op[t] = "begin" /\ writesAllowed
    BY <1>4, <1>5, <1>10 DEF BeginsBackup, GateInv, OpsFit
  <2>2. \A u \in Tasks : pc'[u] \notin Critical
    BY <1>2, <1>10, <2>1 DEF BeginsBackup
  <2>3. Ending = {}
    BY <2>1 DEF GateInv, BackupInv
  <2>4. Ending' = {}
    BY <1>2, <1>10, <2>3 DEF BeginsBackup, Ending
  <2>5. OpsFit'
    BY <1>2, <1>4, <1>10 DEF BeginsBackup, GateInv, OpsFit
  <2>6. BackupInv'
    BY <1>3, <1>10, <2>4 DEF BeginsBackup, BackupInv
  <2> QED
    BY <1>4, <2>2, <2>5, <2>6
<1>11. CASE EndsBackup(t)
  <2>1. ~writesAllowed /\ Ending = {}
    BY <1>11 DEF EndsBackup, GateInv, BackupInv
  <2>2. \A u \in Tasks : pc'[u] \notin Inside
    BY <1>2, <1>4, <1>5, <1>11, <2>1 DEF EndsBackup
  <2>3. OpsFit'
    <3>1. closing => closing'
      BY <1>11 DEF EndsBackup
    <3>2. pc'[t] = "closeend" => op'[t] = "close"
      BY <1>11 DEF EndsBackup
    <3> QED
      BY <1>2, <1>4, <1>11, <3>1, <3>2 DEF EndsBackup, GateInv, OpsFit
  <2>4. Ending' = {t}
    BY <1>2, <1>4, <1>11, <2>1 DEF EndsBackup, Ending
  <2>5. \A u \in Tasks : pc'[u] \in Critical => op'[u] = "close"
    <3> SUFFICES ASSUME NEW u \in Tasks, pc'[u] \in Critical PROVE op'[u] = "close"
      OBVIOUS
    <3>1. u # t /\ pc'[u] = pc[u] /\ op'[u] = op[u]
      BY <1>2, <1>4, <1>11 DEF EndsBackup
    <3>2. pc[u] \notin Inside
      BY <2>2, <3>1
    <3> QED
      BY <3>1, <3>2 DEF Inside, GateInv, OpsFit
  <2>6. BackupInv'
    BY <1>11, <2>1, <2>4, <2>5 DEF EndsBackup, BackupInv
  <2> QED
    BY <2>2, <2>3, <2>6
<1>12. CASE OpensGate(t)
  <2>1. t \in Ending /\ Ending = {t} /\ ~backupInProgress
    BY <1>12 DEF OpensGate, GateInv, BackupInv, Ending
  <2>2. Ending' = {}
    BY <1>2, <1>4, <1>12, <2>1 DEF OpensGate, Ending
  <2>3. OpsFit'
    BY <1>2, <1>4, <1>12 DEF OpensGate, GateInv, OpsFit
  <2>4. BackupInv'
    BY <1>12, <2>1, <2>2 DEF OpensGate, GateInv, BackupInv
  <2> QED
    BY <1>12, <2>3, <2>4 DEF OpensGate
<1> QED
  BY <1>7, <1>8, <1>9, <1>10, <1>11, <1>12 DEF Shape

LEMMA GateStep == ControlInv /\ GateInv /\ [Next]_vars => GateInv'
<1> SUFFICES ASSUME ControlInv, GateInv, [Next]_vars PROVE GateInv'
  OBVIOUS
<1>1. CASE UNCHANGED <<pc, op, gate, closing>>
  BY <1>1 DEF gate, GateInv, GateOpenInside, OpsFit, BackupInv, Ending
<1>2. CASE RaisesInClose
  BY <1>2 DEF RaisesInClose, GateInv, GateOpenInside, OpsFit, BackupInv, Ending
<1> QED
  BY <1>1, <1>2, GateShape, StepShape DEF Unmoved

LEMMA GateInductive == Spec => [](ControlInv /\ GateInv)
<1>1. Init => ControlInv /\ GateInv
  BY ControlInit, GateInit
<1>2. ControlInv /\ GateInv /\ [Next]_vars => ControlInv' /\ GateInv'
  BY ControlStep, GateStep
<1> QED
  BY <1>1, <1>2, PTL DEF Spec

\* Whoever is inside the write gate found it open and it stays open until they leave: so the
\* nested store_many() of a flush never waits, with the lock, for the end of a backup.
THEOREM GateStaysOpen == Spec => []GateOpenInside
<1>1. GateInv => GateOpenInside
  BY DEF GateInv
<1> QED
  BY <1>1, GateInductive, PTL

\* Rows change only in steps of a task that is inside the gate.
LEMMA RowsChangeInside ==
  ASSUME ControlInv, GateInv, [Next]_vars, db' # db
  PROVE  writesAllowed
<1>1. \A t \in Tasks : pc[t] \in Inside => writesAllowed
  BY DEF GateInv, GateOpenInside, Inside
<1>2. CASE EvictionDone \/ EvictionFailed
  <2>1. PICK h \in Hosts : pc[h] \in {"evict", "evictcancel"}
    BY <1>2 DEF EvictionDone, EvictionFailed, ControlInv, MutualExclusion
  <2> QED
    BY <1>1, <2>1 DEF Inside, Critical, Tasks
<1>3. ASSUME NEW t \in Tasks, FlushStep(t) PROVE writesAllowed
  <2>1. pc[t] \in {"write", "single"}
    BY <1>3
    DEF FlushStep, FlushBegin, FlushNothing, FlushWritten, FlushDataError, FlushFailed,
        SingleDone, SingleFailed, Refuse, data
  <2> QED
    BY <1>1, <2>1 DEF Inside, Critical
<1>4. ASSUME NEW h \in Hosts, HostStep(h) PROVE writesAllowed
  <2>1. pc[h] \in {"direct", "clear"}
    BY <1>4
    DEF HostStep, Call, GateOpens, GateShut, Cancelled, ReadDone, EnterDirect, DirectWritten,
        DirectFailed, EnterEvict, EvictCancelled, EvictReturns, EnterClear, Cleared, Vacuumed,
        Raises, data
  <2> QED
    BY <1>1, <2>1 DEF Inside, Critical, Tasks
<1>5. ASSUME NEW h \in Hosts, BackupStep(h) \/ CloseStep(h) PROVE FALSE
  BY <1>5
  DEF BackupStep, CloseStep, BeginRefused, BackupBegun, CallEnd, BackupEnded, CallInit,
      InitReturns, CallClose, CloseEndsBackup, CloseRaises, CloseEndedBackup, CloseEndFailed,
      LoopJoined, CloseDiscards, BackendEndedBackup, Disposed, data
<1>6. CASE Store \/ Start \/ Tick \/ UNCHANGED vars
  BY <1>6 DEF Store, Start, Tick, vars, data
<1> QED
  BY <1>2, <1>3, <1>4, <1>5, <1>6 DEF Next

\* From the return of begin_backup() to the call that ends the backup no row changes, whoever
\* writes, evicts, clears or closes meanwhile.
THEOREM BackupsAreQuiet == Spec => BackupQuiet
<1>1. ControlInv /\ GateInv /\ [Next]_vars => [backupHost # NoTask => db' = db]_vars
  BY RowsChangeInside DEF GateInv, BackupInv
<1> QED
  BY <1>1, GateInductive, PTL DEF Spec, BackupQuiet
-----------------------------------------------------------------------------
(* close().  A backup that begins, or ends, while close() waits can let it *)
(* pass its flush; without backups close() leaves nothing behind: once it  *)
(* has taken the buffer, no telegram is accepted any more, and a batch     *)
(* that fails ends the close() instead of coming back behind it.           *)

NoBackups ==
  /\ writesAllowed /\ ~backupInProgress
  /\ \A t \in Tasks : pc[t] \notin Ends \cup {"begin"} /\ op[t] # "begin"

Disposing == \E t \in Tasks : pc[t] = "dispose"

CloseInv ==
  /\ closed \/ Disposing => closing /\ buffer = <<>> /\ Writers = {}
  /\ \A t \in Writers : op[t] = "close" => buffer = <<>>

\* A host begins a backup only if that is among the operations.
LEMMA NoBackupStep ==
  ASSUME "begin" \notin Ops, ControlInv, GateInv, NoBackups, [Next]_vars
  PROVE  NoBackups'
<1>1. CASE Unmoved
  <2>1. UNCHANGED <<pc, op, backupInProgress>> /\ (writesAllowed => writesAllowed')
    BY <1>1 DEF Unmoved, RaisesInClose, gate
  <2> QED
    BY <2>1 DEF NoBackups
<1>2. ASSUME NEW t \in Tasks, Shape(t) PROVE NoBackups'
  <2>1. /\ \A u \in Tasks \ {t} : pc'[u] \in Critical \cup Ends => pc'[u] = pc[u]
        /\ \A u \in Tasks \ {t} : op'[u] = op[u]
    BY <1>2, OthersKeep DEF Shape
  <2>2. "begin" \in Critical /\ "begin" \in Inside /\ "closebackup" \in Ends /\ "dispose" \notin Ends
    BY DEF Critical, Inside, Ends
  <2>3. \A u \in Tasks \ {t} : pc'[u] \notin Ends \cup {"begin"} /\ op'[u] # "begin"
    BY <2>1, <2>2 DEF NoBackups
  <2>4. CASE StaysOutside(t)
    BY <2>2, <2>3, <2>4 DEF StaysOutside, NoBackups, gate
  <2>5. CASE IsInside(t)
    <3>1. pc'[t] \notin Ends
      BY <2>5 DEF IsInside, Inside, Critical, Ends
    <3> QED
      BY <2>3, <2>5, <3>1 DEF IsInside, NoBackups, gate
  <2>6. CASE ClosesBackend(t)
    BY <2>2, <2>3, <2>6 DEF ClosesBackend, NoBackups, gate
  <2>7. ~(BeginsBackup(t) \/ EndsBackup(t) \/ OpensGate(t))
    BY DEF BeginsBackup, EndsBackup, OpensGate, NoBackups
  <2> QED
    BY <1>2, <2>4, <2>5, <2>6, <2>7 DEF Shape
<1> QED
  BY <1>1, <1>2, StepShape

\* Steps that neither fill the buffer nor start to write or to dispose.
LEMMA CalmClose ==
  ASSUME GateInv, CloseInv,
         buffer' \in {buffer, <<>>}, closing => closing', closed' => closed \/ Disposing,
         Disposing' => Disposing, Writers' \subseteq Writers,
         \A t \in Writers' : op'[t] = "close" => op[t] = "close"
  PROVE  CloseInv'
BY DEF CloseInv

\* A task that moves on its own to a place where it neither writes nor disposes.
LEMMA CalmMove ==
  ASSUME ControlInv, NEW t \in Tasks, Others(t),
         pc'[t] \notin {"write", "single", "dispose"}
  PROVE  /\ Disposing' => Disposing
         /\ Writers' \subseteq Writers
         /\ \A u \in Writers' : op'[u] = "close" => op[u] = "close"
BY DEF Others, Disposing, Writers

LEMMA CloseFlushStep ==
  ASSUME ControlInv, DataInv, GateInv, NoBackups, CloseInv, NEW t \in Tasks, FlushStep(t)
  PROVE  CloseInv'
<1>1. ASSUME Granted(t) PROVE pc[t] = "lock" /\ mutationOwner = NoTask /\ Writers = {}
  <2>1. pc[t] = "lock" /\ mutationOwner = NoTask
    BY <1>1 DEF Granted
  <2>2. \A u \in Tasks : pc[u] \notin Critical
    BY <2>1, StoreAssumption DEF ControlInv, MutualExclusion
  <2> QED
    BY <2>1, <2>2 DEF Writers, Critical
<1>2. ASSUME pc[t] \in {"write", "single"}
      PROVE  t \in Writers /\ mutationOwner = t /\ Writers = {t} /\ ~closed /\ ~Disposing
  <2>1. t \in Writers /\ mutationOwner = t
    BY <1>2 DEF Writers, ControlInv, MutualExclusion, Critical
  <2>2. Writers = {t}
    BY <2>1 DEF Writers, ControlInv, MutualExclusion, Critical
  <2> QED
    BY <2>1, <2>2 DEF CloseInv
<1>3. op[t] = "close" => closing
  BY DEF GateInv, OpsFit
<1>4. ASSUME AfterFlush(t, lockQueue) \/ AfterFlush(t, Tail(lockQueue)),
             CanEnter(t), pc[t] \in Inside \/ mutationOwner = NoTask, UNCHANGED <<buffer, life>>,
             op[t] = "close" => buffer = <<>>, Writers \subseteq {t}
      PROVE  CloseInv'
  <2>1. Shape(t) /\ closing' = closing /\ closed' = closed
    BY <1>4, AfterFlushShape DEF NoBackups, life
  <2>2. Others(t)
    BY <2>1 DEF Shape
  <2>3. pc'[t] \notin {"write", "single"}
    BY <1>4 DEF AfterFlush, Return, ResetTimer, CloseBackend, ControlInv, ControlTypeOK
  <2>4. Writers' = {}
    BY <1>4, <2>2, <2>3 DEF Others, Writers
  <2>5. CASE op[t] = "close"
    BY <1>3, <1>4, <2>1, <2>4, <2>5 DEF CloseInv
  <2>6. CASE op[t] # "close"
    <3>1. pc'[t] # "dispose"
      BY <2>1, <2>6
      DEF Shape, StaysOutside, IsInside, ClosesBackend, BeginsBackup, EndsBackup, OpensGate,
          Inside, Critical, NoBackups
    <3>2. Disposing' => Disposing
      BY <2>2, <2>3, <3>1, CalmMove
    <3> QED
      BY <1>4, <2>1, <2>4, <3>2, CalmClose
  <2> QED
    BY <2>5, <2>6
<1>5. CASE FlushBegin(t)
  <2>1. /\ Granted(t) /\ buffer # <<>> /\ buffer' = <<>>
        /\ pc' = [pc EXCEPT ![t] = "write"] /\ closed' = closed
    BY <1>5 DEF FlushBegin, Admitted, life
  <2>2. ~closed /\ ~Disposing
    BY <2>1 DEF CloseInv
  <2>3. ~Disposing'
    BY <2>1, <2>2 DEF Disposing, ControlInv, ControlTypeOK
  <2> QED
    BY <2>1, <2>2, <2>3 DEF CloseInv
<1>6. CASE FlushNothing(t)
  <2>1. /\ Granted(t) /\ AfterFlush(t, Tail(lockQueue)) /\ UNCHANGED <<buffer, life>>
        /\ buffer = <<>> /\ (closing => op[t] = "close")
    BY <1>6 DEF FlushNothing, Admitted, NoBackups, data
  <2> QED
    BY <1>1, <1>4, <2>1 DEF CanEnter
<1>7. CASE FlushWritten(t)
  <2>1. pc[t] = "write" /\ AfterFlush(t, lockQueue) /\ UNCHANGED <<buffer, life>>
    BY <1>7 DEF FlushWritten
  <2>2. op[t] = "close" => buffer = <<>>
    BY <1>2, <2>1 DEF CloseInv
  <2> QED
    BY <1>2, <1>4, <2>1, <2>2 DEF CanEnter, Inside, Critical
<1>8. CASE SingleDone(t)
  <2>1. pc[t] = "single" /\ UNCHANGED <<buffer, life>>
    BY <1>8 DEF SingleDone
  <2>2. op[t] = "close" => buffer = <<>>
    BY <1>2, <2>1 DEF CloseInv
  <2>3. CASE AfterFlush(t, lockQueue)
    BY <1>2, <1>4, <2>1, <2>2, <2>3 DEF CanEnter, Inside, Critical
  <2>4. CASE UNCHANGED <<pc, op>>
    BY <2>1, <2>4, CalmClose DEF Disposing, Writers, life
  <2> QED
    BY <1>8, <2>3, <2>4 DEF SingleDone
<1>9. CASE FlushDataError(t)
  <2>1. /\ pc[t] = "write" /\ pc' = [pc EXCEPT ![t] = "single"]
        /\ UNCHANGED <<buffer, op, closing, closed>>
    BY <1>9 DEF FlushDataError, data, life
  <2>2. Writers' \subseteq Writers /\ (Disposing' => Disposing)
    BY <2>1 DEF Writers, Disposing, ControlInv, ControlTypeOK
  <2> QED
    BY <2>1, <2>2, CalmClose
<1>10. CASE FlushFailed(t) \/ SingleFailed(t)
  <2>1. pc[t] \in {"write", "single"} /\ Return(t) /\ closed' = closed
    BY <1>10 DEF FlushFailed, SingleFailed, life
  <2>2. Others(t) /\ pc'[t] \notin {"write", "single", "dispose"}
    BY <2>1, ReturnShape DEF Critical
  <2>3. ~Disposing' /\ Writers' = {}
    BY <1>2, <2>1, <2>2, CalmMove DEF Writers
  <2> QED
    BY <1>2, <2>1, <2>3 DEF CloseInv
<1>11. CASE Refuse(t)
  <2>1. Return(t) /\ UNCHANGED <<buffer, closing, closed>>
    BY <1>11 DEF Refuse, life
  <2>2. Others(t) /\ pc'[t] \notin {"write", "single", "dispose"}
    BY <2>1, ReturnShape DEF Critical
  <2> QED
    BY <2>1, <2>2, CalmMove, CalmClose
<1> QED
  BY <1>5, <1>6, <1>7, <1>8, <1>9, <1>10, <1>11 DEF FlushStep

LEMMA CloseHostStep ==
  ASSUME ControlInv, GateInv, NoBackups, CloseInv, NEW h \in Hosts,
         HostStep(h) \/ BackupStep(h) \/ CloseStep(h)
  PROVE  CloseInv'
<1>1. h \in Tasks /\ h # Loop
  BY StoreAssumption DEF Tasks
<1>2. ASSUME Others(h), pc'[h] \notin {"write", "single", "dispose"},
             buffer' \in {buffer, <<>>}, closing => closing', closed' => closed \/ Disposing
      PROVE  CloseInv'
  BY <1>1, <1>2, CalmMove, CalmClose
<1>3. ASSUME Return(h) \/ Idle(h), buffer' \in {buffer, <<>>}, closing => closing',
             closed' => closed \/ Disposing
      PROVE  CloseInv'
  <2>1. CASE Return(h)
    BY <1>1, <1>2, <1>3, <2>1, ReturnShape DEF Critical
  <2>2. CASE Idle(h)
    <3>1. Others(h) /\ pc'[h] = "idle"
      BY <1>1, <2>2, OwnMove DEF Idle
    <3> QED
      BY <1>2, <1>3, <3>1
  <2> QED
    BY <1>3, <2>1, <2>2
<1>4. CASE HostStep(h)
  <2>1. buffer' \in {buffer, <<>>} /\ UNCHANGED <<closing, closed>>
    BY <1>4
    DEF HostStep, Call, GateOpens, GateShut, Cancelled, ReadDone, EnterDirect, DirectWritten,
        DirectFailed, EnterEvict, EvictCancelled, EvictReturns, EnterClear, Cleared, Vacuumed,
        Raises, Enter, data, life
  <2>2. CASE Return(h) \/ Idle(h)
    BY <1>3, <2>1, <2>2
  <2>3. CASE ~(Return(h) \/ Idle(h))
    <3>1. PICK next \in {"gate", "lock", "direct", "evict", "clear", "evictcancel"} :
            pc' = [pc EXCEPT ![h] = next]
      BY <1>4, <2>3
      DEF HostStep, Call, GateOpens, GateShut, Cancelled, ReadDone, EnterDirect, DirectWritten,
          DirectFailed, EnterEvict, EvictCancelled, EvictReturns, EnterClear, Cleared, Vacuumed,
          Raises, Enter
    <3>2. \E o \in AllOps : op' \in {op, [op EXCEPT ![h] = o]}
      BY <1>4, <2>3
      DEF HostStep, Call, GateOpens, GateShut, Cancelled, ReadDone, EnterDirect, DirectWritten,
          DirectFailed, EnterEvict, EvictCancelled, EvictReturns, EnterClear, Cleared, Vacuumed,
          Raises, Enter, AllOps
    <3>3. Others(h) /\ pc'[h] = next
      BY <1>1, <3>1, <3>2 DEF Others, ControlInv, ControlTypeOK
    <3> QED
      BY <1>2, <2>1, <3>3
  <2> QED
    BY <2>2, <2>3
<1>5. CASE BackupStep(h)
  <2>1. BeginRefused(h)
    BY <1>1, <1>5 DEF BackupStep, BackupBegun, CallEnd, BackupEnded, NoBackups, Ends
  <2>2. Return(h) /\ UNCHANGED <<buffer, closing, closed>>
    BY <2>1 DEF BeginRefused, data, life
  <2> QED
    BY <1>3, <2>2
<1>6. CASE CallInit(h) \/ LoopJoined(h)
  <2>1. PICK next \in {"init", "lock"} : pc' = [pc EXCEPT ![h] = next]
    BY <1>6 DEF CallInit, LoopJoined
  <2>2. op' \in {op, [op EXCEPT ![h] = "init"]} /\ UNCHANGED <<buffer, closing, closed>>
    BY <1>6 DEF CallInit, LoopJoined, data, life
  <2>3. Others(h) /\ pc'[h] = next
    BY <1>1, <2>1, <2>2 DEF Others, ControlInv, ControlTypeOK
  <2> QED
    BY <1>2, <2>2, <2>3
<1>7. CASE InitReturns(h)
  BY <1>3, <1>7 DEF InitReturns, data
<1>8. CASE CallClose(h)
  <2>1. StopLoop(h) /\ closing' /\ UNCHANGED <<buffer, closed>>
    BY <1>8 DEF CallClose, data
  <2>2. Others(h) /\ pc'[h] \in {"join", "lock"}
    BY <2>1, StopMove
  <2> QED
    BY <1>2, <2>1, <2>2
<1>9. ~(\/ CloseEndsBackup(h) \/ CloseRaises(h) \/ CloseEndedBackup(h) \/ CloseEndFailed(h)
        \/ BackendEndedBackup(h))
  BY <1>1
  DEF CloseEndsBackup, CloseRaises, CloseEndedBackup, CloseEndFailed, BackendEndedBackup,
      NoBackups, Ends
<1>10. CASE CloseDiscards(h)
  <2>1. /\ Granted(h) /\ op[h] = "close" /\ buffer' = <<>> /\ UNCHANGED closing
        /\ pc' = [pc EXCEPT ![h] = "dispose"]
    BY <1>10 DEF CloseDiscards, CloseBackend, NoBackups, life
  <2>2. \A u \in Tasks : pc[u] \notin Critical
    BY <2>1, StoreAssumption DEF Granted, ControlInv, MutualExclusion
  <2>3. Writers' = {}
    BY <1>1, <2>1, <2>2 DEF Writers, Critical, ControlInv, ControlTypeOK
  <2>4. closing'
    BY <1>1, <2>1 DEF GateInv, OpsFit
  <2> QED
    BY <2>1, <2>3, <2>4 DEF CloseInv
<1>11. CASE Disposed(h)
  <2>1. Disposing /\ Return(h) /\ UNCHANGED <<buffer, closing>>
    BY <1>1, <1>11 DEF Disposed, Disposing, data
  <2> QED
    BY <1>3, <2>1
<1> QED
  BY <1>4, <1>5, <1>6, <1>7, <1>8, <1>9, <1>10, <1>11 DEF CloseStep

LEMMA CloseInvStep ==
  ASSUME ControlInv, DataInv, GateInv, NoBackups, CloseInv, [Next]_vars
  PROVE  CloseInv'
<1>1. CASE Store
  <2>1. ~closing /\ UNCHANGED <<pc, op, closing, closed>>
    BY <1>1 DEF Store, life
  <2>2. ~closed /\ ~Disposing /\ \A t \in Tasks : op[t] # "close"
    BY <2>1 DEF CloseInv, GateInv, OpsFit
  <2> QED
    BY <2>1, <2>2 DEF CloseInv, Disposing, Writers
<1>2. CASE Start \/ Tick
  <2>1. PICK next \in {"sleep", "lock"} : pc' = [pc EXCEPT ![Loop] = next]
    BY <1>2 DEF Start, Tick
  <2>2. op' = op /\ UNCHANGED <<buffer, closing, closed>> /\ Loop \in Tasks
    BY <1>2 DEF Start, Tick, data, life, Tasks
  <2>3. Others(Loop) /\ pc'[Loop] = next
    BY <2>1, <2>2, PcMove
  <2> QED
    BY <2>2, <2>3, CalmMove, CalmClose
<1>3. CASE EvictionDone \/ EvictionFailed
  <2>1. UNCHANGED <<pc, op, closing, closed>>
    BY <1>3 DEF EvictionDone, EvictionFailed, life
  <2>2. buffer = <<>> => buffer' = <<>>
    <3>1. CASE EvictionFailed
      BY <3>1 DEF EvictionFailed
    <3>2. CASE EvictionDone
      <4>1. PICK kept \in Keeping(buffer, Outdated) : buffer' = Reading(buffer, kept)
        BY <3>2 DEF EvictionDone
      <4>2. buffer' \in Seq(Stored) /\ Len(buffer') <= Len(buffer)
        BY <4>1, ReadingType DEF DataInv, DataTypeOK
      <4>3. ASSUME buffer = <<>> PROVE Len(buffer') = 0
        BY <4>2, <4>3, LenProperties, EmptySeq
      <4> QED
        BY <4>2, <4>3, EmptySeq
    <3> QED
      BY <1>3, <3>1, <3>2
  <2> QED
    BY <2>1, <2>2 DEF CloseInv, Disposing, Writers
<1>4. CASE UNCHANGED vars
  BY <1>4 DEF vars, data, life, CloseInv, Disposing, Writers
<1> QED
  BY <1>1, <1>2, <1>3, <1>4, CloseFlushStep, CloseHostStep DEF Next

\* close() flushes the buffer: when it has returned there is nothing left in it, and nothing
\* on its way, whatever fails or is cancelled - in a store whose host makes no backups.  (A
\* backup that begins while close() waits is what the run close_during_begin shows.)
THEOREM CloseLeavesNothing ==
  ASSUME "begin" \notin Ops
  PROVE  Spec => []CloseFlushes
<1>1. Init => ControlInv /\ DataInv /\ GateInv /\ NoBackups /\ CloseInv
  <2>1. Init => NoBackups
    BY DEF Init, NoBackups, Ends
  <2>2. Init => CloseInv
    BY DEF Init, CloseInv, Disposing, Writers
  <2> QED
    BY <2>1, <2>2, ControlInit, DataInit, GateInit
<1>2. /\ ControlInv /\ DataInv /\ GateInv /\ NoBackups /\ CloseInv /\ [Next]_vars
      => ControlInv' /\ DataInv' /\ GateInv' /\ NoBackups' /\ CloseInv'
  BY ControlStep, DataStep, GateStep, NoBackupStep, CloseInvStep
<1>3. CloseInv => CloseFlushes
  BY DEF CloseInv, CloseFlushes
<1> QED
  BY <1>1, <1>2, <1>3, PTL DEF Spec
=============================================================================
