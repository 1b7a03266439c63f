------------------------ MODULE BufferedStoreDataProofs ------------------------
(***************************************************************************)
(* Proofs about the telegrams of BufferedStore: every step has one of a    *)
(* few effects on the queue, the rows and the losses, and from these       *)
(* follow the order of the rows, that nothing lost comes back, what a      *)
(* query sees, and the refinement of WriteBehind.                          *)
(***************************************************************************)
EXTENDS BufferedStoreProofs
-----------------------------------------------------------------------------
(* The batches of the callers of store_many(), and who clears.             *)

Sent     == UNION {Range(batch[t]) : t \in Tasks \ Writers}
Clearing == {t \in Tasks : pc[t] = "clear"}

\* A caller of store_many(), and nobody else, has a telegram of its own until it returns.
SendInv ==
  /\ \A t \in Tasks : op[t] = "store_many" =>
       pc[t] \in {"gate", "lock", "direct"} /\ \E n \in N + 1 .. N + direct : batch[t] = <<n>>
  /\ \A t \in Tasks \ Writers : op[t] # "store_many" => batch[t] = <<>>
  /\ \A t \in Tasks : pc[t] = "direct" => op[t] = "store_many"
  /\ \A t, u \in Tasks \ Writers : t # u => Range(batch[t]) \cap Range(batch[u]) = {}
-----------------------------------------------------------------------------
(* The effects.  Writing is the batch of the flush in progress.            *)

Still == Writing' = Writing /\ UNCHANGED <<buffer, db, fate, ambiguous, accepted>>

Rests == Still /\ direct' = direct /\ Sent' = Sent /\ Clearing' \subseteq Clearing

Sends ==
  /\ Still
  /\ direct' = direct + 1
  /\ direct < D
  /\ Sent' = Sent \cup {N + direct'}
  /\ Clearing' \subseteq Clearing

Takes == Store /\ Writing' = Writing /\ Sent' = Sent /\ Clearing' = Clearing

\* The steps of a flush ...
Drains ==
  /\ Writing = <<>> /\ buffer # <<>>
  /\ Writing' = buffer /\ buffer' = <<>>
  /\ UNCHANGED <<db, fate, ambiguous>>

Inserts ==
  /\ Writing # <<>>
  /\ Writing' = <<>>
  /\ db' = db \o Writing
  /\ UNCHANGED <<buffer, fate, ambiguous>>

InsertsOne ==
  /\ Writing # <<>>
  /\ Writing' = Tail(Writing)
  /\ db' = Append(db, Head(Writing))
  /\ UNCHANGED <<buffer, fate, ambiguous>>

Rejects ==
  /\ Writing # <<>>
  /\ Head(Writing) \in Unstorable
  /\ Writing' = Tail(Writing)
  /\ fate' = Mark({Head(Writing)}, "unstorable")
  /\ UNCHANGED <<buffer, db, ambiguous>>

Fails(n) ==
  /\ Writing # <<>>
  /\ Writing' = <<>>
  /\ db' = db \o SubSeq(Writing, 1, n)
  /\ ambiguous' = IF n = 0 THEN ambiguous ELSE ambiguous + 1
  /\ buffer' = Newest(Writing \o buffer)
  /\ fate' = Mark(Range(Writing \o buffer) \ Range(buffer'), "overflow")

Writes ==
  /\ Drains \/ Inserts \/ InsertsOne \/ Rejects \/ \E n \in 0..Len(Writing) : Fails(n)
  /\ UNCHANGED <<accepted, direct>>
  /\ Sent' = Sent
  /\ Clearing = {} /\ Clearing' = {}

\* ... and of the others who have the lock to themselves.
EvictsBoth ==
  /\ \E rows \in Keeping(db, Outdated), kept \in Keeping(buffer, Outdated) :
       db' = Reading(db, rows) /\ buffer' = Reading(buffer, kept)
  /\ fate' = Mark((Range(db) \cup Range(buffer)) \cap Outdated, "evicted")
  /\ Clearing' = {}

EvictsRows ==
  /\ \E rows \in Keeping(db, Outdated) : db' = Reading(db, rows)
  /\ buffer' = buffer
  /\ fate' = Mark((Range(db) \ Range(buffer)) \cap Outdated, "evicted")
  /\ Clearing' = {}

Empties ==
  /\ buffer' = <<>>
  /\ db' = db
  /\ \E why \in {"cleared", "discarded"} : fate' = Mark(Range(buffer), why)

Wipes ==
  /\ db' = <<>>
  /\ buffer' = buffer
  /\ fate' = Mark(Range(db), "cleared")
  /\ Clearing # {} /\ Clearing' = {}

Alone ==
  /\ EvictsBoth \/ EvictsRows \/ Empties \/ Wipes
  /\ Writing = <<>> /\ Writing' = <<>>
  /\ UNCHANGED <<accepted, direct, ambiguous>>
  /\ Sent' = Sent

StoresDirect(n) ==
  /\ db' = Append(db, n)
  /\ UNCHANGED <<fate, ambiguous>>
  /\ Clearing' = {}

GivesUp(n) ==
  /\ fate' = Mark({n}, "raised")
  /\ \/ UNCHANGED <<db, ambiguous>> /\ Clearing' \subseteq Clearing
     \/ db' = Append(db, n) /\ ambiguous' = ambiguous + 1 /\ Clearing' = {}

Returns ==
  /\ \E n \in Sent : (StoresDirect(n) \/ GivesUp(n)) /\ Sent' = Sent \ {n}
  /\ Writing' = Writing
  /\ UNCHANGED <<buffer, accepted, direct>>

Effect == Rests \/ Sends \/ Takes \/ Writes \/ Alone \/ Returns
-----------------------------------------------------------------------------
(* Every step has one of these effects.                                    *)

LEMMA WritingIs ==
  ASSUME ControlInv
  PROVE  /\ Writers = {} => Writing = <<>>
         /\ \A t \in Writers : Writing = batch[t] /\ Writers = {t}
<1>1. \A t \in Tasks : pc[t] \in Critical <=> mutationOwner = t
  BY DEF ControlInv, MutualExclusion
<1>2. NoTask \notin Tasks /\ mutationOwner \in Tasks \cup {NoTask}
  BY StoreAssumption DEF ControlInv, ControlTypeOK
<1> QED
  BY <1>1, <1>2 DEF Writing, Writers, Critical

LEMMA WritingBecomes ==
  ASSUME ControlInv'
  PROVE  /\ Writers' = {} => Writing' = <<>>
         /\ \A t \in Writers' : Writing' = batch'[t] /\ Writers' = {t}
<1>1. \A t \in Tasks : pc'[t] \in Critical <=> mutationOwner' = t
  BY DEF ControlInv, MutualExclusion
<1>2. NoTask \notin Tasks /\ mutationOwner' \in Tasks \cup {NoTask}
  BY StoreAssumption DEF ControlInv, ControlTypeOK
<1> QED
  BY <1>1, <1>2 DEF Writing, Writers, Critical

\* Whoever moves, the others write and clear as before.
LEMMA OthersWrite ==
  ASSUME ControlInv, NEW t \in Tasks, Others(t)
  PROVE  /\ \A u \in Tasks \ {t} : u \in Writers' <=> u \in Writers
         /\ \A u \in Tasks \ {t} : u \in Clearing' <=> u \in Clearing
BY OthersKeep DEF Writers, Clearing, Critical

\* A task that holds the lock, or to which it was just granted, is alone inside.
LEMMA AloneInside ==
  ASSUME ControlInv, NEW t \in Tasks, pc[t] \in Critical \/ mutationOwner = NoTask
  PROVE  Writers \subseteq {t} /\ Clearing \subseteq {t}
BY StoreAssumption DEF ControlInv, MutualExclusion, Writers, Clearing, Critical

\* A step in which nobody starts or ends a write, and no telegram moves.
LEMMA RestsWhen ==
  ASSUME ControlInv, ControlInv', UNCHANGED <<data, accepted, direct>>,
         Writers' = Writers, Clearing' \subseteq Clearing
  PROVE  Rests
<1>1. UNCHANGED <<buffer, batch, db, fate, ambiguous, accepted, direct>>
  BY DEF data
<1>2. Sent' = Sent
  BY <1>1 DEF Sent
<1>3. Writing' = Writing
  BY <1>1, WritingIs, WritingBecomes
<1> QED
  BY <1>1, <1>2, <1>3 DEF Rests, Still

LEMMA MoveRests ==
  ASSUME ControlInv, ControlInv', NEW t \in Tasks, Others(t),
         pc[t] \notin {"write", "single"}, pc'[t] \notin {"write", "single", "clear"},
         UNCHANGED <<data, accepted, direct>>
  PROVE  Rests
<1>1. Writers' = Writers
  BY OthersWrite DEF Writers
<1>2. Clearing' \subseteq Clearing
  BY OthersWrite DEF Clearing
<1> QED
  BY <1>1, <1>2, RestsWhen

\* The one inside moves, and is no caller of store_many(): their telegrams stay theirs.
LEMMA SentStays ==
  ASSUME NEW t \in Tasks, Writers \subseteq {t}, Writers' \subseteq {t},
         \A u \in Tasks \ {t} : batch'[u] = batch[u],
         t \in Writers \/ batch[t] = <<>>,
         t \in Writers' \/ batch'[t] = <<>>
  PROVE  Sent' = Sent
<1>1. Range(<<>>) = {}
  BY EmptySeq DEF Range
<1> QED
  BY <1>1 DEF Sent

\* Callers that are not writing have telegrams of their own, or none.
LEMMA SentOf ==
  ASSUME SendInv, NEW t \in Tasks \ Writers
  PROVE  batch[t] = <<>> \/ \E n \in N + 1 .. N + direct : batch[t] = <<n>> /\ n \in Sent
<1>1. CASE op[t] = "store_many"
  <2>1. PICK n \in N + 1 .. N + direct : batch[t] = <<n>>
    BY <1>1 DEF SendInv
  <2>2. n \in Range(batch[t])
    BY <2>1 DEF Range
  <2> QED
    BY <2>1, <2>2 DEF Sent
<1> QED
  BY <1>1 DEF SendInv

LEMMA SentWith ==
  ASSUME NEW t \in Tasks \ Writers, NEW n, batch[t] = <<>>, Writers' = Writers,
         batch'[t] = <<n>>, \A u \in Tasks \ {t} : batch'[u] = batch[u]
  PROVE  Sent' = Sent \cup {n}
<1>1. Range(batch[t]) = {} /\ Range(batch'[t]) = {n}
  BY EmptySeq DEF Range
<1>2. \A u \in Tasks \ Writers : u # t => Range(batch'[u]) = Range(batch[u])
  OBVIOUS
<1>3. Sent' = UNION {Range(batch'[u]) : u \in Tasks \ Writers}
  BY DEF Sent
<1>4. ASSUME NEW i PROVE i \in Sent' <=> \E u \in Tasks \ Writers : i \in Range(batch'[u])
  BY <1>3
<1>5. ASSUME NEW i PROVE i \in Sent <=> \E u \in Tasks \ Writers : i \in Range(batch[u])
  BY DEF Sent
<1>6. ASSUME NEW i PROVE i \in Sent' <=> i \in Sent \/ i = n
  BY <1>1, <1>2, <1>4, <1>5
<1> QED
  BY <1>6

LEMMA SentWithout ==
  ASSUME SendInv, NEW t \in Tasks \ Writers, NEW n, batch[t] = <<n>>, Writers' = Writers,
         batch'[t] = <<>>, \A u \in Tasks \ {t} : batch'[u] = batch[u]
  PROVE  Sent' = Sent \ {n}
<1>1. Range(batch[t]) = {n} /\ Range(batch'[t]) = {}
  BY EmptySeq DEF Range
<1>2. \A u \in (Tasks \ Writers) \ {t} : n \notin Range(batch[u])
  BY <1>1 DEF SendInv
<1> QED
  BY <1>1, <1>2 DEF Sent

\* A caller that is refused or cancelled keeps its telegram, if it has one.
LEMMA DropsSent ==
  ASSUME ControlInv, ControlInv', DataInv, SendInv, NEW t \in Tasks \ Writers,
         Writers' = Writers, Clearing' \subseteq Clearing,
         batch' = [batch EXCEPT ![t] = <<>>], fate' = Mark(Range(batch[t]), "raised"),
         UNCHANGED <<buffer, db, ambiguous, accepted, direct>>
  PROVE  Rests \/ Returns
<1>1. batch \in [Tasks -> Seq(Ids)] /\ fate \in [Ids -> Fates]
  BY DEF DataInv, DataTypeOK
<1>2. batch'[t] = <<>> /\ \A u \in Tasks \ {t} : batch'[u] = batch[u]
  BY <1>1
<1>3. Writing' = Writing
  BY <1>2, WritingIs, WritingBecomes
<1>4. CASE batch[t] = <<>>
  <2>1. batch' = batch
    BY <1>1, <1>4
  <2>2. fate' = fate
    <3>1. Range(batch[t]) = {}
      BY <1>4, EmptySeq DEF Range
    <3> QED
      BY <1>1, <3>1 DEF Mark
  <2>3. Sent' = Sent
    BY <2>1 DEF Sent
  <2> QED
    BY <1>3, <2>2, <2>3 DEF Rests, Still
<1>5. CASE batch[t] # <<>>
  <2>1. PICK n \in N + 1 .. N + direct : batch[t] = <<n>> /\ n \in Sent
    BY <1>5, SentOf
  <2>2. Range(batch[t]) = {n}
    BY <2>1 DEF Range
  <2>3. Sent' = Sent \ {n}
    BY <1>2, <2>1, SentWithout
  <2> QED
    BY <1>3, <2>1, <2>2, <2>3 DEF Returns, GivesUp
<1> QED
  BY <1>4, <1>5

\* A task of the flush protocol leaves the flush with an empty batch, or never was in it.
LEMMA LeavesFlush ==
  ASSUME ControlInv, ControlInv', SendInv, NEW t \in Tasks, Others(t),
         pc[t] \in Critical \/ mutationOwner = NoTask, op[t] # "store_many",
         pc'[t] \notin {"write", "single", "clear"}, batch'[t] = <<>>,
         \A u \in Tasks \ {t} : batch'[u] = batch[u]
  PROVE  Writers' = {} /\ Writing' = <<>> /\ Sent' = Sent /\ Clearing' = {}
<1>1. Writers \subseteq {t} /\ Clearing \subseteq {t}
  BY AloneInside
<1>2. Writers' = {} /\ Clearing' = {}
  <2>1. \A u \in Tasks \ {t} : u \notin Writers' /\ u \notin Clearing'
    BY <1>1, OthersWrite
  <2> QED
    BY <2>1 DEF Writers, Clearing
<1>3. t \in Writers \/ batch[t] = <<>>
  BY DEF SendInv
<1>4. Sent' = Sent
  BY <1>1, <1>2, <1>3, SentStays
<1> QED
  BY <1>2, <1>4, WritingBecomes

LEMMA FlushEffect ==
  ASSUME ControlInv, ControlInv', DataInv, SendInv, NEW t \in Tasks, FlushStep(t)
  PROVE  Effect
<1>1. /\ buffer \in Seq(Stored) /\ batch \in [Tasks -> Seq(Ids)] /\ db \in Seq(Ids)
      /\ fate \in [Ids -> Fates]
  BY DEF DataInv, DataTypeOK
<1>2. ASSUME Granted(t)
      PROVE  /\ mutationOwner = NoTask /\ pc[t] = "lock" /\ t \notin Writers
             /\ Writers = {} /\ Writing = <<>> /\ Clearing = {}
  <2>1. mutationOwner = NoTask /\ pc[t] = "lock" /\ t \notin Writers /\ t \notin Clearing
    BY <1>2 DEF Granted, Writers, Clearing
  <2>2. Writers = {} /\ Clearing = {}
    BY <2>1, AloneInside
  <2> QED
    BY <2>1, <2>2, WritingIs
<1>3. ASSUME pc[t] \in {"write", "single"}
      PROVE  /\ t \in Writers /\ Writing = batch[t] /\ Writers = {t} /\ Clearing = {}
             /\ batch[t] \in Seq(Stored) /\ Writing # <<>>
             /\ op[t] # "store_many" /\ pc[t] \in Critical /\ CanEnter(t)
  <2>1. t \in Writers /\ t \notin Clearing /\ pc[t] \in Critical /\ CanEnter(t)
    BY <1>3 DEF Writers, Clearing, Critical, CanEnter, Inside
  <2>2. Clearing = {}
    BY <2>1, AloneInside
  <2>3. op[t] # "store_many"
    BY <1>3 DEF SendInv
  <2> QED
    BY <2>1, <2>2, <2>3, WritingIs DEF DataInv, FlushBatch
<1>4. ASSUME NEW q, AfterFlush(t, q), pc[t] \in {"write", "single"}, UNCHANGED life
      PROVE  Others(t) /\ pc'[t] \notin {"write", "single", "clear"}
  <2>1. Shape(t)
    BY <1>3, <1>4, AfterFlushShape DEF Inside, Critical, life
  <2>2. pc'[t] \notin {"write", "single", "clear"}
    BY <1>4 DEF AfterFlush, Return, ResetTimer, CloseBackend, ControlInv, ControlTypeOK
  <2> QED
    BY <2>1, <2>2 DEF Shape
<1>5. CASE FlushBegin(t)
  <2>1. /\ Granted(t) /\ buffer # <<>> /\ buffer' = <<>> /\ op' = op
        /\ pc' = [pc EXCEPT ![t] = "write"] /\ batch' = [batch EXCEPT ![t] = buffer]
        /\ UNCHANGED <<db, fate, ambiguous, accepted, direct>>
        /\ op[t] # "store_many"
    BY <1>5 DEF FlushBegin, Admitted, Flushes, calls
  <2>2. Others(t) /\ pc'[t] = "write" /\ op'[t] = op[t]
    BY <2>1, PcMove
  <2>3. t \in Writers' /\ t \notin Clearing'
    BY <2>2 DEF Writers, Clearing
  <2>4. Writing' = batch'[t] /\ Writers' = {t}
    BY <2>3, WritingBecomes
  <2>5. batch'[t] = buffer /\ \A u \in Tasks \ {t} : batch'[u] = batch[u]
    BY <1>1, <2>1
  <2>6. Clearing' = {}
    BY <1>2, <2>1, <2>2, <2>3, OthersWrite DEF Clearing
  <2>7. batch[t] = <<>>
    BY <1>2, <2>1 DEF SendInv
  <2>8. Sent' = Sent
    BY <1>2, <2>1, <2>3, <2>4, <2>5, <2>7, SentStays
  <2> QED
    BY <1>2, <2>1, <2>4, <2>5, <2>6, <2>8 DEF Effect, Writes, Drains
<1>6. CASE FlushNothing(t)
  <2>1. /\ Granted(t) /\ AfterFlush(t, Tail(lockQueue)) /\ UNCHANGED <<data, life, calls>>
        /\ op[t] \in {"optimize", "begin"} => writesAllowed
        /\ closing => op[t] = "close"
    BY <1>6 DEF FlushNothing, Admitted, Flushes, Gated
  <2>2. Shape(t)
    BY <1>2, <2>1, AfterFlushShape DEF CanEnter, life
  <2>3. pc'[t] \notin {"write", "single", "clear"}
    BY <2>1 DEF AfterFlush, Return, ResetTimer, CloseBackend, ControlInv, ControlTypeOK
  <2> QED
    BY <1>2, <2>1, <2>2, <2>3, MoveRests DEF Shape, calls, Effect
<1>7. CASE FlushWritten(t)
  <2>1. /\ pc[t] = "write" /\ db' = db \o batch[t] /\ batch' = [batch EXCEPT ![t] = <<>>]
        /\ AfterFlush(t, lockQueue)
        /\ UNCHANGED <<buffer, fate, ambiguous, life, accepted, direct>>
    BY <1>7 DEF FlushWritten, calls
  <2>2. batch'[t] = <<>> /\ \A u \in Tasks \ {t} : batch'[u] = batch[u]
    BY <1>1, <2>1
  <2>3. Writing' = <<>> /\ Sent' = Sent /\ Clearing' = {}
    BY <1>3, <1>4, <2>1, <2>2, LeavesFlush
  <2> QED
    BY <1>3, <2>1, <2>3 DEF Effect, Writes, Inserts
<1>8. CASE FlushDataError(t)
  <2>1. /\ pc[t] = "write" /\ pc' = [pc EXCEPT ![t] = "single"] /\ op' = op
        /\ UNCHANGED <<data, accepted, direct>>
    BY <1>8 DEF FlushDataError, calls
  <2>2. Writers' = Writers /\ Clearing' \subseteq Clearing
    BY <2>1 DEF Writers, Clearing, ControlInv, ControlTypeOK
  <2> QED
    BY <2>1, <2>2, RestsWhen DEF Effect
<1>9. CASE FlushFailed(t) \/ SingleFailed(t)
  <2>1. /\ pc[t] \in {"write", "single"} /\ Return(t) /\ Requeue(t)
        /\ UNCHANGED <<accepted, direct>>
    BY <1>9 DEF FlushFailed, SingleFailed, calls
  <2>2. Len(batch[t]) \in Nat \ {0}
    BY <1>3, <2>1, EmptySeq
  <2>3. PICK n \in 0..Len(batch[t]) : Committed(t, n)
    BY <1>9, <2>2 DEF FlushFailed, SingleFailed
  <2>4. batch'[t] = <<>> /\ \A u \in Tasks \ {t} : batch'[u] = batch[u]
    BY <1>1, <2>1 DEF Requeue
  <2>5. Others(t) /\ pc'[t] \notin {"write", "single", "clear"}
    BY <2>1, ReturnShape DEF Critical
  <2>6. Writing' = <<>> /\ Sent' = Sent /\ Clearing' = {}
    BY <1>3, <2>1, <2>4, <2>5, LeavesFlush
  <2>7. Fails(n) /\ n \in 0..Len(Writing)
    BY <1>3, <2>1, <2>3, <2>6 DEF Fails, Committed, Requeue
  <2> QED
    BY <1>3, <2>1, <2>6, <2>7 DEF Effect, Writes
<1>10. CASE SingleDone(t)
  <2>1. /\ pc[t] = "single" /\ batch' = [batch EXCEPT ![t] = Tail(@)]
        /\ UNCHANGED <<buffer, ambiguous, life, accepted, direct>>
    BY <1>10 DEF SingleDone, calls
  <2>2. batch'[t] = Tail(batch[t]) /\ \A u \in Tasks \ {t} : batch'[u] = batch[u]
    BY <1>1, <2>1
  <2>3. /\ Tail(batch[t]) \in Seq(Stored) /\ Len(Tail(batch[t])) = Len(batch[t]) - 1
        /\ Len(batch[t]) \in Nat
    BY <1>3, <2>1, HeadTailProperties, LenProperties
  <2>4. Writing' = Tail(Writing) /\ Sent' = Sent /\ Clearing' = {}
    <3>1. CASE Len(batch[t]) = 1
      <4>1. Tail(batch[t]) = <<>>
        <5> DEFINE rest == Tail(batch[t])
        <5>1. rest \in Seq(Stored) /\ Len(rest) = 0
          BY <2>3, <3>1
        <5> HIDE DEF rest
        <5>2. rest = <<>>
          BY <5>1, EmptySeq
        <5> QED
          BY <5>2 DEF rest
      <4>2. AfterFlush(t, lockQueue)
        BY <1>10, <3>1 DEF SingleDone
      <4>3. Writing' = <<>> /\ Sent' = Sent /\ Clearing' = {}
        BY <1>3, <1>4, <2>1, <2>2, <4>1, <4>2, LeavesFlush
      <4> QED
        BY <1>3, <2>1, <4>1, <4>3
    <3>2. CASE Len(batch[t]) # 1
      <4>1. UNCHANGED <<pc, op, mutationOwner>>
        BY <1>10, <3>2 DEF SingleDone
      <4>2. Writers' = {t} /\ Clearing' = {}
        BY <1>3, <2>1, <4>1 DEF Writers, Clearing
      <4>3. Writing' = batch'[t]
        BY <4>2, WritingBecomes
      <4>4. Sent' = Sent
        BY <1>3, <2>1, <2>2, <4>2, SentStays
      <4> QED
        BY <1>3, <2>1, <2>2, <4>2, <4>3, <4>4
    <3> QED
      BY <3>1, <3>2
  <2>5. CASE Head(batch[t]) \in Unstorable
    <3>1. db' = db /\ fate' = Mark({Head(batch[t])}, "unstorable")
      BY <1>10, <2>5 DEF SingleDone
    <3> QED
      BY <1>3, <2>1, <2>4, <2>5, <3>1 DEF Effect, Writes, Rejects
  <2>6. CASE Head(batch[t]) \notin Unstorable
    <3>1. db' = Append(db, Head(batch[t])) /\ fate' = fate
      BY <1>10, <2>6 DEF SingleDone
    <3> QED
      BY <1>3, <2>1, <2>4, <3>1 DEF Effect, Writes, InsertsOne
  <2> QED
    BY <2>5, <2>6
<1>11. CASE Refuse(t)
  <2>1. Granted(t) /\ Return(t)
    BY <1>11 DEF Refuse
  <2>2. /\ batch' = [batch EXCEPT ![t] = <<>>] /\ fate' = Mark(Range(batch[t]), "raised")
        /\ UNCHANGED <<buffer, db, ambiguous, accepted, direct>>
    BY <1>11 DEF Refuse, calls
  <2>3. Others(t) /\ pc'[t] \notin {"write", "single", "clear"}
    BY <2>1, ReturnShape DEF Critical
  <2>4. t \notin Writers /\ Writers' = Writers /\ Clearing' \subseteq Clearing
    BY <1>2, <2>1, <2>3, OthersWrite DEF Writers, Clearing
  <2> QED
    BY <2>2, <2>4, DropsSent DEF Effect
<1> QED
  BY <1>5, <1>6, <1>7, <1>8, <1>9, <1>10, <1>11 DEF FlushStep

LEMMA HostEffect ==
  ASSUME ControlInv, ControlInv', DataInv, SendInv, NEW h \in Hosts, HostStep(h)
  PROVE  Effect
<1>1. /\ h \in Tasks /\ h # Loop
      /\ buffer \in Seq(Stored) /\ batch \in [Tasks -> Seq(Ids)] /\ db \in Seq(Ids)
      /\ fate \in [Ids -> Fates] /\ D \in Nat /\ direct \in 0..D
  BY StoreAssumption DEF Tasks, DataInv, DataTypeOK
<1>2. ASSUME Others(h), pc[h] \notin {"write", "single"}, pc'[h] \notin {"write", "single", "clear"},
             UNCHANGED <<data, accepted, direct>>
      PROVE  Effect
  BY <1>1, <1>2, MoveRests DEF Effect
<1>3. ASSUME Idle(h) PROVE Others(h) /\ pc'[h] = "idle"
  BY <1>1, <1>3, OwnMove DEF Idle
<1>4. ASSUME Return(h) PROVE Others(h) /\ pc'[h] \notin {"write", "single", "clear"}
  BY <1>1, <1>4, ReturnShape DEF Critical
<1>5. CASE \E o \in AllOps : Call(h, o)
  <2>1. PICK o \in AllOps : Call(h, o)
    BY <1>5
  <2>2. PICK next \in {"gate", "lock"} : pc' = [pc EXCEPT ![h] = next]
    BY <2>1 DEF Call
  <2>3. /\ pc[h] = "idle" /\ op' = [op EXCEPT ![h] = o]
        /\ UNCHANGED <<buffer, db, fate, ambiguous, accepted>>
    BY <2>1 DEF Call
  <2>4. Others(h) /\ pc'[h] = next
    BY <1>1, <2>2, <2>3, OwnMove
  <2>5. CASE o = "store_many"
    <3>1. /\ direct < D /\ direct' = direct + 1
          /\ batch' = [batch EXCEPT ![h] = <<N + direct'>>]
      BY <2>1, <2>5 DEF Call
    <3>2. batch'[h] = <<N + direct'>> /\ \A u \in Tasks \ {h} : batch'[u] = batch[u]
      BY <1>1, <3>1
    <3>3. h \notin Writers /\ Writers' = Writers /\ Clearing' \subseteq Clearing
      BY <1>1, <2>2, <2>3, <2>4, OthersWrite DEF Writers, Clearing
    <3>4. batch[h] = <<>>
      BY <1>1, <2>3, <3>3 DEF SendInv
    <3>6. Sent' = Sent \cup {N + direct'}
      BY <1>1, <3>2, <3>3, <3>4, SentWith
    <3>5. \A u \in Writers : batch'[u] = batch[u]
      BY <3>2, <3>3 DEF Writers
    <3>7. Writing' = Writing
      BY <3>3, <3>5, WritingIs, WritingBecomes
    <3> QED
      BY <2>3, <3>1, <3>3, <3>6, <3>7 DEF Effect, Sends, Still
  <2>6. CASE o # "store_many"
    <3>1. UNCHANGED <<data, accepted, direct>>
      BY <2>1, <2>3, <2>6 DEF Call, data
    <3> QED
      BY <1>2, <2>2, <2>3, <2>4, <3>1
  <2> QED
    BY <2>5, <2>6
<1>6. CASE GateOpens(h) \/ GateShut(h)
  <2>1. PICK next \in {"gate", "lock"} : pc' = [pc EXCEPT ![h] = next]
    BY <1>6 DEF GateOpens, GateShut
  <2>2. pc[h] \in {"gate", "lock"} /\ op' = op /\ UNCHANGED <<data, accepted, direct>>
    BY <1>6 DEF GateOpens, GateShut, Granted, calls
  <2>3. Others(h) /\ pc'[h] = next
    BY <1>1, <2>1, <2>2, PcMove
  <2> QED
    BY <1>2, <2>1, <2>2, <2>3
<1>7. CASE Cancelled(h)
  <2>1. /\ pc[h] \in {"gate", "lock"} /\ Idle(h)
        /\ batch' = [batch EXCEPT ![h] = <<>>] /\ fate' = Mark(Range(batch[h]), "raised")
        /\ UNCHANGED <<buffer, db, ambiguous, accepted, direct>>
    BY <1>7 DEF Cancelled, calls
  <2>2. h \notin Writers /\ Writers' = Writers /\ Clearing' \subseteq Clearing
    BY <1>1, <1>3, <2>1, OthersWrite DEF Writers, Clearing
  <2> QED
    BY <1>1, <2>1, <2>2, DropsSent DEF Effect
<1>8. CASE ReadDone(h)
  <2>1. pc[h] \in {"read", "stale"} /\ Idle(h) /\ UNCHANGED <<data, accepted, direct>>
    BY <1>8 DEF ReadDone
  <2> QED
    BY <1>2, <1>3, <2>1
<1>9. ASSUME NEW o, NEW next \in {"direct", "evict", "clear"}, Enter(h, o, next)
      PROVE  /\ Others(h) /\ pc'[h] = next /\ pc[h] = "lock" /\ op[h] = o
             /\ Writers = {} /\ Writing = <<>> /\ Writers' = {} /\ Writing' = <<>>
             /\ UNCHANGED <<accepted, direct>>
  <2>1. /\ pc[h] = "lock" /\ mutationOwner = NoTask /\ op[h] = o
        /\ pc' = [pc EXCEPT ![h] = next] /\ op' = op /\ UNCHANGED <<accepted, direct>>
    BY <1>9 DEF Enter, Admitted, Granted, calls
  <2>2. Others(h) /\ pc'[h] = next
    BY <1>1, <2>1, PcMove
  <2>3. Writers = {}
    BY <1>1, <2>1, AloneInside DEF Writers
  <2>4. Writers' = {}
    BY <1>1, <2>2, <2>3, OthersWrite DEF Writers
  <2> QED
    BY <2>1, <2>2, <2>3, <2>4, WritingIs, WritingBecomes
<1>10. CASE EnterDirect(h) \/ EnterEvict(h)
  <2>1. PICK o, next : next \in {"direct", "evict"} /\ Enter(h, o, next)
    BY <1>10 DEF EnterDirect, EnterEvict
  <2>2. UNCHANGED <<data, accepted, direct>>
    BY <1>10 DEF EnterDirect, EnterEvict, Enter, calls
  <2>3. Others(h) /\ pc'[h] = next /\ pc[h] = "lock"
    BY <1>9, <2>1, Zenon
  <2> QED
    BY <1>2, <2>1, <2>2, <2>3
<1>11. CASE EnterClear(h)
  <2>1. /\ Enter(h, "clear", "clear") /\ buffer' = <<>>
        /\ fate' = Mark(Range(buffer) \cup InFlight, "cleared")
        /\ UNCHANGED <<batch, db, ambiguous>>
    BY <1>11 DEF EnterClear
  <2>2. /\ Writers = {} /\ Writing = <<>> /\ Writers' = {} /\ Writing' = <<>>
        /\ UNCHANGED <<accepted, direct>>
    BY <1>9, <2>1
  <2>3. Range(buffer) \cup InFlight = Range(buffer)
    BY <2>2 DEF InFlight
  <2>4. Sent' = Sent
    BY <2>1, <2>2 DEF Sent
  <2> QED
    BY <2>1, <2>2, <2>3, <2>4 DEF Effect, Alone, Empties
<1>12. ASSUME pc[h] \in Critical \ {"write", "single"}, Return(h)
       PROVE  /\ h \in Tasks \ Writers /\ Writers = {} /\ Writing = <<>>
              /\ Writers' = {} /\ Writing' = <<>> /\ Clearing' = {}
              /\ Clearing = IF pc[h] = "clear" THEN {h} ELSE {}
  <2>1. Writers = {} /\ Clearing \subseteq {h}
    BY <1>1, <1>12, AloneInside DEF Writers
  <2>2. Others(h) /\ pc'[h] \notin {"write", "single", "clear"}
    BY <1>4, <1>12
  <2>3. Writers' = {} /\ Clearing' = {}
    <3>1. \A u \in Tasks \ {h} : u \notin Writers' /\ u \notin Clearing'
      BY <1>1, <2>1, <2>2, OthersWrite
    <3> QED
      BY <2>2, <3>1 DEF Writers, Clearing
  <2>4. Clearing = IF pc[h] = "clear" THEN {h} ELSE {}
    BY <1>1, <2>1 DEF Clearing
  <2> QED
    BY <1>1, <2>1, <2>3, <2>4, WritingIs, WritingBecomes
<1>13. CASE DirectWritten(h) \/ DirectFailed(h)
  <2>1. /\ pc[h] = "direct" /\ Return(h) /\ batch' = [batch EXCEPT ![h] = <<>>]
        /\ UNCHANGED <<buffer, accepted, direct>>
    BY <1>13 DEF DirectWritten, DirectFailed, calls
  <2>2. /\ h \in Tasks \ Writers /\ Writers = {} /\ Writing = <<>>
        /\ Writers' = {} /\ Writing' = <<>> /\ Clearing' = {} /\ Clearing = {}
    BY <1>12, <2>1 DEF Critical
  <2>3. PICK n \in N + 1 .. N + direct : batch[h] = <<n>> /\ n \in Sent
    BY <1>1, <2>1, <2>2, SentOf DEF SendInv
  <2>4. batch'[h] = <<>> /\ \A u \in Tasks \ {h} : batch'[u] = batch[u]
    BY <1>1, <2>1
  <2>5. Sent' = Sent \ {n}
    BY <2>2, <2>3, <2>4, SentWithout
  <2>6. n \in Ids
    BY <1>1, <2>3, StoreAssumption DEF Ids
  <2>7. db \o batch[h] = Append(db, n)
    BY <1>1, <2>3, <2>6, AppendIsConcat
  <2>8. CASE DirectWritten(h)
    <3>1. StoresDirect(n)
      BY <2>2, <2>7, <2>8 DEF DirectWritten, StoresDirect
    <3> QED
      BY <2>1, <2>2, <2>3, <2>5, <3>1 DEF Effect, Returns
  <2>9. CASE DirectFailed(h)
    <3>1. Len(batch[h]) = 1 /\ Range(batch[h]) = {n}
      BY <2>3 DEF Range
    <3>2. fate' = Mark({n}, "raised")
      BY <2>9, <3>1 DEF DirectFailed
    <3>3. CASE Committed(h, 0)
      <4>1. SubSeq(batch[h], 1, 0) = <<>>
        BY SubSeqEmpty
      <4>2. db' = db /\ ambiguous' = ambiguous
        BY <1>1, <3>3, <4>1, ConcatEmptySeq DEF Committed
      <4>3. GivesUp(n)
        BY <2>2, <3>2, <4>2 DEF GivesUp
      <4> QED
        BY <2>1, <2>2, <2>3, <2>5, <4>3 DEF Effect, Returns
    <3>4. CASE Committed(h, Len(batch[h]))
      <4>1. SubSeq(batch[h], 1, Len(batch[h])) = batch[h]
        BY <1>1, SubSeqFull
      <4>2. db' = Append(db, n) /\ ambiguous' = ambiguous + 1
        BY <2>7, <3>1, <3>4, <4>1 DEF Committed
      <4>3. GivesUp(n)
        BY <2>2, <3>2, <4>2 DEF GivesUp
      <4> QED
        BY <2>1, <2>2, <2>3, <2>5, <4>3 DEF Effect, Returns
    <3> QED
      BY <2>9, <3>3, <3>4 DEF DirectFailed
  <2> QED
    BY <1>13, <2>8, <2>9
<1>14. CASE EvictReturns(h) \/ Vacuumed(h) \/ Raises(h)
  <2>1. /\ pc[h] \in {"evict", "evictcancel", "vacuum", "clear", "begin", "dispose"} /\ Return(h)
        /\ UNCHANGED <<data, accepted, direct>>
    BY <1>14 DEF EvictReturns, Vacuumed, Raises, calls
  <2> QED
    BY <1>2, <1>4, <2>1
<1>15. CASE EvictCancelled(h)
  <2>1. /\ pc[h] = "evict" /\ pc' = [pc EXCEPT ![h] = "evictcancel"] /\ op' = op
        /\ UNCHANGED <<data, accepted, direct>>
    BY <1>15 DEF EvictCancelled, calls
  <2>2. Others(h) /\ pc'[h] = "evictcancel"
    BY <1>1, <2>1, PcMove
  <2> QED
    BY <1>2, <2>1, <2>2
<1>16. CASE Cleared(h)
  <2>1. /\ pc[h] = "clear" /\ Return(h) /\ db' = <<>> /\ fate' = Mark(Range(db), "cleared")
        /\ UNCHANGED <<buffer, batch, ambiguous, accepted, direct>>
    BY <1>16 DEF Cleared, calls
  <2>2. /\ Writers = {} /\ Writing = <<>> /\ Writers' = {} /\ Writing' = <<>>
        /\ Clearing # {} /\ Clearing' = {}
    BY <1>12, <2>1 DEF Critical
  <2>3. Sent' = Sent
    BY <2>1, <2>2 DEF Sent
  <2> QED
    BY <2>1, <2>2, <2>3 DEF Effect, Alone, Wipes
<1> QED
  BY <1>5, <1>6, <1>7, <1>8, <1>10, <1>11, <1>13, <1>14, <1>15, <1>16 DEF HostStep

LEMMA LifeEffect ==
  ASSUME ControlInv, ControlInv', DataInv, SendInv, NEW h \in Hosts, BackupStep(h) \/ CloseStep(h)
  PROVE  Effect
<1>1. h \in Tasks /\ h # Loop
  BY StoreAssumption DEF Tasks
<1>2. ASSUME Others(h), pc[h] \notin {"write", "single"}, pc'[h] \notin {"write", "single", "clear"},
             UNCHANGED <<data, accepted, direct>>
      PROVE  Effect
  BY <1>1, <1>2, MoveRests DEF Effect
<1>3. ASSUME Idle(h) \/ Return(h) PROVE Others(h) /\ pc'[h] \notin {"write", "single", "clear"}
  <2>1. CASE Return(h)
    BY <1>1, <2>1, ReturnShape DEF Critical
  <2>2. CASE Idle(h)
    <3>1. Others(h) /\ pc'[h] = "idle"
      BY <1>1, <2>2, OwnMove DEF Idle
    <3> QED
      BY <3>1
  <2> QED
    BY <1>3, <2>1, <2>2
<1>4. CASE BeginRefused(h) \/ BackupBegun(h) \/ Disposed(h)
  <2>1. /\ pc[h] \in {"lock", "begin", "dispose"} /\ Return(h)
        /\ UNCHANGED <<data, accepted, direct>>
    BY <1>4 DEF BeginRefused, BackupBegun, Disposed, Admitted, Granted, calls
  <2> QED
    BY <1>2, <1>3, <2>1
<1>5. CASE BackupEnded(h) \/ InitReturns(h) \/ CloseEndFailed(h)
  <2>1. pc[h] \in {"end", "init", "closeend"} /\ Idle(h) /\ UNCHANGED <<data, accepted, direct>>
    BY <1>5 DEF BackupEnded, InitReturns, CloseEndFailed, calls
  <2> QED
    BY <1>2, <1>3, <2>1
<1>6. CASE CallEnd(h) \/ CallInit(h) \/ CloseEndsBackup(h)
  <2>1. PICK next \in {"end", "init", "closeend"} : pc' = [pc EXCEPT ![h] = next]
    BY <1>6 DEF CallEnd, CallInit, CloseEndsBackup
  <2>2. PICK o \in {"end", "init", "close"} : op' = [op EXCEPT ![h] = o]
    BY <1>6 DEF CallEnd, CallInit, CloseEndsBackup
  <2>3. pc[h] = "idle" /\ UNCHANGED <<data, accepted, direct>>
    BY <1>6 DEF CallEnd, CallInit, CloseEndsBackup, calls
  <2>4. Others(h) /\ pc'[h] = next
    BY <1>1, <2>1, <2>2, OwnMove
  <2> QED
    BY <1>2, <2>1, <2>3, <2>4
<1>7. CASE CallClose(h) \/ CloseEndedBackup(h)
  <2>1. pc[h] \in {"idle", "closeend"} /\ StopLoop(h) /\ UNCHANGED <<data, accepted, direct>>
    BY <1>7 DEF CallClose, CloseEndedBackup, calls
  <2>2. Others(h) /\ pc'[h] \in {"join", "lock"}
    BY <2>1, StopMove
  <2> QED
    BY <1>2, <2>1, <2>2
<1>8. CASE CloseRaises(h)
  <2>1. UNCHANGED <<data, pc, accepted, direct>>
    BY <1>8 DEF CloseRaises, calls
  <2> QED
    BY <2>1, RestsWhen DEF Effect, Writers, Clearing
<1>9. CASE LoopJoined(h)
  <2>1. /\ pc[h] = "join" /\ pc' = [pc EXCEPT ![h] = "lock"] /\ op' = op
        /\ UNCHANGED <<data, accepted, direct>>
    BY <1>9 DEF LoopJoined, calls
  <2>2. Others(h) /\ pc'[h] = "lock"
    BY <1>1, <2>1, PcMove
  <2> QED
    BY <1>2, <2>1, <2>2
<1>10. CASE CloseDiscards(h)
  <2>1. /\ pc[h] = "lock" /\ mutationOwner = NoTask
        /\ buffer' = <<>> /\ fate' = Mark(Range(buffer), "discarded")
        /\ CloseBackend(h) /\ UNCHANGED <<batch, db, ambiguous, accepted, direct>>
    BY <1>10 DEF CloseDiscards, Granted, calls
  <2>2. Writers = {}
    BY <1>1, <2>1, AloneInside DEF Writers
  <2>3. \E next \in {"closebackup", "dispose"} : pc' = [pc EXCEPT ![h] = next]
    BY <2>1 DEF CloseBackend
  <2>4. Writers' = {}
    BY <1>1, <2>2, <2>3 DEF Writers, ControlInv, ControlTypeOK
  <2>5. Writing = <<>> /\ Writing' = <<>>
    BY <2>2, <2>4, WritingIs, WritingBecomes
  <2>6. Sent' = Sent
    BY <2>1, <2>2, <2>4 DEF Sent
  <2> QED
    BY <2>1, <2>5, <2>6 DEF Effect, Alone, Empties
<1>11. CASE BackendEndedBackup(h)
  <2>1. pc[h] = "closebackup" /\ UNCHANGED <<data, accepted, direct>>
    BY <1>11 DEF BackendEndedBackup, calls
  <2>2. CASE Return(h)
    BY <1>2, <1>3, <2>1, <2>2
  <2>3. CASE pc' = [pc EXCEPT ![h] = "dispose"] /\ op' = op
    <3>1. Others(h) /\ pc'[h] = "dispose"
      BY <1>1, <2>3, PcMove
    <3> QED
      BY <1>2, <2>1, <3>1
  <2> QED
    BY <1>11, <2>2, <2>3 DEF BackendEndedBackup
<1> QED
  BY <1>4, <1>5, <1>6, <1>7, <1>8, <1>9, <1>10, <1>11 DEF BackupStep, CloseStep

LEMMA StepEffect ==
  ASSUME ControlInv, ControlInv', DataInv, SendInv, [Next]_vars
  PROVE  Effect
<1>1. CASE Store
  <2>1. UNCHANGED <<batch, pc>>
    BY <1>1 DEF Store
  <2>2. Writers' = Writers /\ Clearing' = Clearing /\ Sent' = Sent
    BY <2>1 DEF Writers, Clearing, Sent
  <2>3. Writing' = Writing
    BY <2>1, <2>2, WritingIs, WritingBecomes
  <2> QED
    BY <1>1, <2>2, <2>3 DEF Effect, Takes
<1>2. CASE Start \/ Tick
  <2>1. PICK next \in {"sleep", "lock"} : pc' = [pc EXCEPT ![Loop] = next]
    BY <1>2 DEF Start, Tick
  <2>2. /\ pc[Loop] \in {"none", "sleep"} /\ op' = op /\ Loop \in Tasks
        /\ UNCHANGED <<data, accepted, direct>>
    BY <1>2 DEF Start, Tick, Tasks, calls
  <2>3. Others(Loop) /\ pc'[Loop] = next
    BY <2>1, <2>2, PcMove
  <2> QED
    BY <2>1, <2>2, <2>3, MoveRests DEF Effect
<1>3. CASE EvictionDone \/ EvictionFailed
  <2>1. eviction = "running" /\ UNCHANGED <<batch, ambiguous, pc, accepted, direct>>
    BY <1>3 DEF EvictionDone, EvictionFailed, calls
  <2>2. Writers = {} /\ Clearing = {}
    BY <2>1 DEF ControlInv, MutualExclusion, Writers, Clearing, Flushing
  <2>3. Writers' = {} /\ Clearing' = {} /\ Sent' = Sent
    BY <2>1, <2>2 DEF Writers, Clearing, Sent
  <2>4. Writing = <<>> /\ Writing' = <<>>
    BY <2>2, <2>3, WritingIs, WritingBecomes
  <2>5. CASE EvictionDone
    <3>1. Held = Range(db) \cup Range(buffer)
      BY <2>2 DEF Held, InFlight
    <3>2. EvictsBoth
      BY <2>3, <2>5, <3>1 DEF EvictionDone, EvictsBoth
    <3> QED
      BY <2>1, <2>3, <2>4, <3>2 DEF Effect, Alone
  <2>6. CASE EvictionFailed
    <3>1. CASE UNCHANGED <<db, fate>>
      <4>1. buffer' = buffer
        BY <2>6 DEF EvictionFailed
      <4> QED
        BY <2>1, <2>3, <2>4, <3>1, <4>1 DEF Effect, Rests, Still
    <3>2. CASE ~UNCHANGED <<db, fate>>
      <4>1. EvictsRows
        BY <2>3, <2>6, <3>2 DEF EvictionFailed, EvictsRows
      <4> QED
        BY <2>1, <2>3, <2>4, <4>1 DEF Effect, Alone
    <3> QED
      BY <3>1, <3>2
  <2> QED
    BY <1>3, <2>5, <2>6
<1>4. CASE UNCHANGED vars
  <2>1. UNCHANGED <<data, pc, accepted, direct>>
    BY <1>4 DEF vars, calls
  <2> QED
    BY <2>1, RestsWhen DEF Effect, Writers, Clearing
<1> QED
  BY <1>1, <1>2, <1>3, <1>4, FlushEffect, HostEffect, LifeEffect DEF Next
-----------------------------------------------------------------------------
(* The callers of store_many() keep their telegrams.                       *)

\* Only t moves, and is then no caller of store_many(), or still the same.
LEMMA SendMove ==
  ASSUME ControlInv, SendInv, NEW t \in Tasks, Others(t), direct' = direct, direct \in Nat,
         \A u \in Tasks \ {t} : batch'[u] = batch[u],
         \/ op'[t] # "store_many" /\ pc'[t] # "direct" /\ (t \in Writers' \/ batch'[t] = <<>>)
         \/ op[t] = "store_many" /\ op'[t] = op[t] /\ batch'[t] = batch[t]
            /\ pc'[t] \in {"gate", "lock", "direct"}
  PROVE  SendInv'
<1>1. /\ \A u \in Tasks \ {t} : u \in Writers' <=> u \in Writers
      /\ \A u \in Tasks \ {t} : op'[u] = op[u]
      /\ \A u \in Tasks \ {t} : pc'[u] # pc[u] => u = Loop /\ pc'[u] \in {"sleep", "ended"}
  BY OthersWrite DEF Others
<1>2. op[Loop] # "store_many"
  BY DEF ControlInv, ControlTypeOK
<1>3. op'[t] = "store_many" => t \in Tasks \ Writers
  BY DEF SendInv, Writers
<1>4. op'[t] = "store_many" => t \notin Writers'
  BY DEF Writers
<1>5. \A u \in Tasks : op'[u] = "store_many" =>
        pc'[u] \in {"gate", "lock", "direct"} /\ \E n \in N + 1 .. N + direct' : batch'[u] = <<n>>
  <2> SUFFICES ASSUME NEW u \in Tasks, op'[u] = "store_many"
               PROVE  /\ pc'[u] \in {"gate", "lock", "direct"}
                      /\ \E n \in N + 1 .. N + direct : batch'[u] = <<n>>
    OBVIOUS
  <2>1. CASE u = t
    BY <2>1 DEF SendInv
  <2>2. CASE u # t
    BY <1>1, <1>2, <2>2 DEF SendInv
  <2> QED
    BY <2>1, <2>2
<1>6. \A u \in Tasks \ Writers' : op'[u] # "store_many" => batch'[u] = <<>>
  BY <1>1 DEF SendInv
<1>7. \A u \in Tasks : pc'[u] = "direct" => op'[u] = "store_many"
  BY <1>1 DEF SendInv
<1>8. ASSUME NEW u \in Tasks \ Writers', NEW v \in Tasks \ Writers', u # v
      PROVE  Range(batch'[u]) \cap Range(batch'[v]) = {}
  <2>1. Range(<<>>) = {}
    BY EmptySeq DEF Range
  <2>2. CASE u # t /\ v # t
    BY <1>1, <1>8, <2>2 DEF SendInv
  <2>3. CASE batch'[t] = <<>> /\ (u = t \/ v = t)
    BY <2>1, <2>3
  <2>4. CASE op'[t] = "store_many" /\ (u = t \/ v = t)
    <3>1. batch'[u] = batch[u] /\ batch'[v] = batch[v] /\ u \notin Writers /\ v \notin Writers
      BY <1>1, <1>3, <1>8, <2>4
    <3> QED
      BY <1>8, <3>1 DEF SendInv
  <2> QED
    BY <1>8, <2>2, <2>3, <2>4
<1> QED
  BY <1>5, <1>6, <1>7, <1>8 DEF SendInv

\* ... which is what happens when t does nothing with store_many().
LEMMA SendQuiet ==
  ASSUME ControlInv, DataInv, SendInv, NEW t \in Tasks, Others(t), UNCHANGED <<batch, direct>>,
         pc[t] \notin {"gate", "lock", "direct", "write", "single"} \/ op[t] # "store_many",
         pc[t] \notin {"write", "single"}, op'[t] # "store_many", pc'[t] # "direct"
  PROVE  SendInv'
<1>1. batch[t] = <<>> /\ direct \in Nat
  BY DEF SendInv, Writers, DataInv, DataTypeOK
<1> QED
  BY <1>1, SendMove

\* A new call of store_many() has a telegram of its own.
LEMMA SendNew ==
  ASSUME ControlInv, DataInv, SendInv, NEW t \in Tasks, Others(t), direct' = direct + 1,
         \A u \in Tasks \ {t} : batch'[u] = batch[u], batch'[t] = <<N + direct'>>,
         op'[t] = "store_many", pc'[t] \in {"gate", "lock"}
  PROVE  SendInv'
<1>1. /\ \A u \in Tasks \ {t} : u \in Writers' <=> u \in Writers
      /\ \A u \in Tasks \ {t} : op'[u] = op[u]
      /\ \A u \in Tasks \ {t} : pc'[u] # pc[u] => u = Loop /\ pc'[u] \in {"sleep", "ended"}
  BY OthersWrite DEF Others
<1>2. op[Loop] # "store_many" /\ direct \in Nat /\ N \in Nat
  BY StoreAssumption DEF ControlInv, ControlTypeOK, DataInv, DataTypeOK
<1>3. N + direct' \in N + 1 .. N + direct' /\ N + 1 .. N + direct \subseteq N + 1 .. N + direct'
      /\ N + direct' \notin N + 1 .. N + direct
  BY <1>2
<1>4. \A u \in Tasks : op'[u] = "store_many" =>
        pc'[u] \in {"gate", "lock", "direct"} /\ \E n \in N + 1 .. N + direct' : batch'[u] = <<n>>
  <2> SUFFICES ASSUME NEW u \in Tasks, op'[u] = "store_many"
               PROVE  /\ pc'[u] \in {"gate", "lock", "direct"}
                      /\ \E n \in N + 1 .. N + direct' : batch'[u] = <<n>>
    OBVIOUS
  <2>1. CASE u = t
    BY <1>3, <2>1
  <2>2. CASE u # t
    <3>1. /\ pc'[u] \in {"gate", "lock", "direct"}
          /\ \E n \in N + 1 .. N + direct : batch[u] = <<n>>
      BY <1>1, <1>2, <2>2 DEF SendInv
    <3> QED
      BY <1>3, <2>2, <3>1, Zenon
  <2> QED
    BY <2>1, <2>2
<1>5. \A u \in Tasks \ Writers' : op'[u] # "store_many" => batch'[u] = <<>>
  BY <1>1 DEF SendInv
<1>6. \A u \in Tasks : pc'[u] = "direct" => op'[u] = "store_many"
  BY <1>1 DEF SendInv
<1>7. ASSUME NEW u \in (Tasks \ Writers) \ {t} PROVE N + direct' \notin Range(batch[u])
  <2>1. CASE batch[u] = <<>>
    BY <2>1, EmptySeq DEF Range
  <2>2. CASE \E n \in N + 1 .. N + direct : batch[u] = <<n>>
    BY <1>3, <2>2 DEF Range
  <2> QED
    BY <2>1, <2>2 DEF SendInv
<1>8. ASSUME NEW u \in Tasks \ Writers', NEW v \in Tasks \ Writers', u # v
      PROVE  Range(batch'[u]) \cap Range(batch'[v]) = {}
  <2>1. Range(batch'[t]) = {N + direct'}
    BY DEF Range
  <2>2. CASE u # t /\ v # t
    BY <1>1, <1>8, <2>2 DEF SendInv
  <2>3. CASE u = t \/ v = t
    BY <1>1, <1>7, <1>8, <2>1, <2>3
  <2> QED
    BY <2>2, <2>3
<1> QED
  BY <1>4, <1>5, <1>6, <1>8 DEF SendInv

LEMMA SendFlushStep ==
  ASSUME ControlInv, ControlInv', DataInv, SendInv, NEW t \in Tasks, FlushStep(t)
  PROVE  SendInv'
<1>1. batch \in [Tasks -> Seq(Ids)] /\ direct \in Nat
  BY DEF DataInv, DataTypeOK
<1>2. ASSUME pc[t] \in {"write", "single"}
      PROVE  op[t] # "store_many" /\ pc[t] \in Inside /\ CanEnter(t)
  BY <1>2 DEF SendInv, CanEnter, Inside, Critical
<1>3. ASSUME NEW q, AfterFlush(t, q), op[t] # "store_many"
      PROVE  op'[t] # "store_many" /\ pc'[t] # "direct"
  BY <1>3 DEF AfterFlush, Return, ResetTimer, CloseBackend, ControlInv, ControlTypeOK
<1>4. CASE FlushBegin(t)
  <2>1. /\ op[t] # "store_many" /\ op' = op /\ pc' = [pc EXCEPT ![t] = "write"]
        /\ batch' = [batch EXCEPT ![t] = buffer] /\ direct' = direct
    BY <1>4 DEF FlushBegin, Flushes, calls
  <2>2. Others(t) /\ pc'[t] = "write" /\ op'[t] = op[t]
    BY <2>1, PcMove
  <2>3. t \in Writers' /\ \A u \in Tasks \ {t} : batch'[u] = batch[u]
    BY <1>1, <2>1, <2>2 DEF Writers
  <2> QED
    BY <1>1, <2>1, <2>2, <2>3, SendMove
<1>5. CASE FlushNothing(t)
  <2>1. /\ pc[t] = "lock" /\ op[t] # "store_many" /\ AfterFlush(t, Tail(lockQueue))
        /\ UNCHANGED <<batch, direct, closing>>
        /\ op[t] \in {"optimize", "begin"} => writesAllowed
        /\ CanEnter(t)
    BY <1>5 DEF FlushNothing, Admitted, Granted, Flushes, Gated, CanEnter, data, calls, life
  <2>2. Others(t)
    BY <2>1, AfterFlushShape DEF Shape
  <2> QED
    BY <1>3, <2>1, <2>2, SendQuiet
<1>6. CASE FlushWritten(t)
  <2>1. /\ pc[t] = "write" /\ batch' = [batch EXCEPT ![t] = <<>>] /\ direct' = direct
        /\ AfterFlush(t, lockQueue) /\ UNCHANGED closing
    BY <1>6 DEF FlushWritten, calls, life
  <2>2. Others(t)
    BY <1>2, <2>1, AfterFlushShape DEF Shape
  <2>3. batch'[t] = <<>> /\ \A u \in Tasks \ {t} : batch'[u] = batch[u]
    BY <1>1, <2>1
  <2> QED
    BY <1>1, <1>2, <1>3, <2>1, <2>2, <2>3, SendMove
<1>7. CASE FlushDataError(t)
  <2>1. /\ pc[t] = "write" /\ pc' = [pc EXCEPT ![t] = "single"] /\ op' = op
        /\ UNCHANGED <<batch, direct>>
    BY <1>7 DEF FlushDataError, data, calls
  <2>2. Others(t) /\ pc'[t] = "single" /\ op'[t] = op[t]
    BY <2>1, PcMove
  <2>3. t \in Writers'
    BY <2>2 DEF Writers
  <2> QED
    BY <1>1, <1>2, <2>1, <2>2, <2>3, SendMove
<1>8. CASE FlushFailed(t) \/ SingleFailed(t) \/ Refuse(t)
  <2>1. Return(t) /\ direct' = direct /\ batch' = [batch EXCEPT ![t] = <<>>]
    BY <1>8 DEF FlushFailed, SingleFailed, Refuse, Requeue, calls
  <2>2. Others(t) /\ pc'[t] # "direct"
    BY <2>1, ReturnShape DEF Critical
  <2>3. op'[t] # "store_many"
    BY <2>1 DEF Return, ControlInv, ControlTypeOK
  <2>4. batch'[t] = <<>> /\ \A u \in Tasks \ {t} : batch'[u] = batch[u]
    BY <1>1, <2>1
  <2> QED
    BY <1>1, <2>1, <2>2, <2>3, <2>4, SendMove
<1>9. CASE SingleDone(t)
  <2>1. /\ pc[t] = "single" /\ batch' = [batch EXCEPT ![t] = Tail(@)] /\ direct' = direct
        /\ UNCHANGED closing
    BY <1>9 DEF SingleDone, calls, life
  <2>2. batch'[t] = Tail(batch[t]) /\ \A u \in Tasks \ {t} : batch'[u] = batch[u]
    BY <1>1, <2>1
  <2>3. CASE Len(batch[t]) = 1
    <3>1. AfterFlush(t, lockQueue)
      BY <1>9, <2>3 DEF SingleDone
    <3>2. Others(t)
      BY <1>2, <2>1, <3>1, AfterFlushShape DEF Shape
    <3>3. Tail(batch[t]) = <<>>
      <4>1. batch[t] \in Seq(Ids) /\ batch[t] # <<>>
        BY <1>1, <2>1 DEF DataInv, FlushBatch, Writers
      <4> DEFINE rest == Tail(batch[t])
      <4>2. rest \in Seq(Ids) /\ Len(rest) = 0
        BY <2>3, <4>1, HeadTailProperties
      <4> HIDE DEF rest
      <4>3. rest = <<>>
        BY <4>2, EmptySeq
      <4> QED
        BY <4>3 DEF rest
    <3> QED
      BY <1>1, <1>2, <1>3, <2>1, <2>2, <3>1, <3>2, <3>3, SendMove
  <2>4. CASE Len(batch[t]) # 1
    <3>1. UNCHANGED <<pc, op>>
      BY <1>9, <2>4 DEF SingleDone
    <3>2. t \in Writers' /\ Others(t) /\ pc'[t] # "direct" /\ op'[t] = op[t]
      BY <2>1, <3>1 DEF Writers, Others
    <3> QED
      BY <1>1, <1>2, <2>1, <2>2, <3>2, SendMove
  <2> QED
    BY <2>3, <2>4
<1> QED
  BY <1>4, <1>5, <1>6, <1>7, <1>8, <1>9 DEF FlushStep

LEMMA SendHostStep ==
  ASSUME ControlInv, ControlInv', DataInv, SendInv, NEW h \in Hosts, HostStep(h)
  PROVE  SendInv'
<1>1. h \in Tasks /\ h # Loop /\ batch \in [Tasks -> Seq(Ids)] /\ direct \in Nat
  BY StoreAssumption DEF Tasks, DataInv, DataTypeOK
<1>2. ASSUME Return(h) \/ Idle(h)
      PROVE  Others(h) /\ pc'[h] # "direct" /\ op'[h] # "store_many"
  <2>1. CASE Return(h)
    BY <1>1, <2>1, ReturnShape DEF Critical, Return, ControlInv, ControlTypeOK
  <2>2. CASE Idle(h)
    <3>1. Others(h) /\ pc'[h] = "idle" /\ op'[h] = "none"
      BY <1>1, <2>2, OwnMove DEF Idle
    <3> QED
      BY <3>1
  <2> QED
    BY <1>2, <2>1, <2>2
<1>3. CASE \E o \in AllOps : Call(h, o)
  <2>1. PICK o \in AllOps : Call(h, o)
    BY <1>3
  <2>2. PICK next \in {"gate", "lock"} : pc' = [pc EXCEPT ![h] = next]
    BY <2>1 DEF Call
  <2>3. pc[h] = "idle" /\ op' = [op EXCEPT ![h] = o]
    BY <2>1 DEF Call
  <2>4. Others(h) /\ pc'[h] = next /\ op'[h] = o
    BY <1>1, <2>2, <2>3, OwnMove
  <2>5. CASE o = "store_many"
    <3>1. direct' = direct + 1 /\ batch' = [batch EXCEPT ![h] = <<N + direct'>>]
      BY <2>1, <2>5 DEF Call
    <3>2. batch'[h] = <<N + direct'>> /\ \A u \in Tasks \ {h} : batch'[u] = batch[u]
      BY <1>1, <3>1
    <3> QED
      BY <1>1, <2>2, <2>4, <2>5, <3>1, <3>2, SendNew
  <2>6. CASE o # "store_many"
    <3>1. UNCHANGED <<batch, direct>>
      BY <2>1, <2>6 DEF Call
    <3> QED
      BY <1>1, <2>2, <2>3, <2>4, <2>6, <3>1, SendQuiet
  <2> QED
    BY <2>5, <2>6
<1>4. CASE GateOpens(h) \/ GateShut(h) \/ EnterDirect(h)
  <2>1. PICK next \in {"gate", "lock", "direct"} : pc' = [pc EXCEPT ![h] = next]
    BY <1>4 DEF GateOpens, GateShut, EnterDirect, Enter
  <2>2. /\ pc[h] \in {"gate", "lock"} /\ op' = op /\ UNCHANGED <<batch, direct>>
        /\ next = "direct" => op[h] = "store_many"
    BY <1>4, <2>1
    DEF GateOpens, GateShut, EnterDirect, Enter, Admitted, Granted, data, calls, ControlInv, ControlTypeOK
  <2>3. Others(h) /\ pc'[h] = next /\ op'[h] = op[h]
    BY <1>1, <2>1, <2>2, PcMove
  <2>4. CASE op[h] = "store_many"
    BY <1>1, <2>1, <2>2, <2>3, <2>4, SendMove
  <2>5. CASE op[h] # "store_many"
    BY <1>1, <2>1, <2>2, <2>3, <2>5, SendQuiet
  <2> QED
    BY <2>4, <2>5
<1>5. CASE EnterEvict(h) \/ EnterClear(h) \/ EvictCancelled(h)
  <2>1. PICK next \in {"evict", "clear", "evictcancel"} : pc' = [pc EXCEPT ![h] = next]
    BY <1>5 DEF EnterEvict, EnterClear, EvictCancelled, Enter
  <2>2. pc[h] \in {"lock", "evict"} /\ op' = op /\ UNCHANGED <<batch, direct>>
    BY <1>5 DEF EnterEvict, EnterClear, EvictCancelled, Enter, Admitted, Granted, data, calls
  <2>3. op[h] # "store_many"
    <3>1. CASE pc[h] = "evict"
      BY <1>1, <3>1 DEF SendInv
    <3>2. CASE pc[h] # "evict"
      BY <1>5, <3>2 DEF EnterEvict, EnterClear, EvictCancelled, Enter
    <3> QED
      BY <3>1, <3>2
  <2>4. Others(h) /\ pc'[h] = next /\ op'[h] = op[h]
    BY <1>1, <2>1, <2>2, PcMove
  <2> QED
    BY <1>1, <2>1, <2>2, <2>3, <2>4, SendQuiet
<1>6. CASE Cancelled(h) \/ DirectWritten(h) \/ DirectFailed(h)
  <2>1. /\ Idle(h) \/ Return(h)
        /\ batch' = [batch EXCEPT ![h] = <<>>] /\ direct' = direct
    BY <1>6 DEF Cancelled, DirectWritten, DirectFailed, calls
  <2>2. batch'[h] = <<>> /\ \A u \in Tasks \ {h} : batch'[u] = batch[u]
    BY <1>1, <2>1
  <2> QED
    BY <1>1, <1>2, <2>1, <2>2, SendMove
<1>7. CASE ReadDone(h) \/ EvictReturns(h) \/ Cleared(h) \/ Vacuumed(h) \/ Raises(h)
  <2>1. /\ pc[h] \in {"read", "stale", "evict", "evictcancel", "clear", "vacuum", "begin", "dispose"}
        /\ Idle(h) \/ Return(h)
        /\ UNCHANGED <<batch, direct>>
    BY <1>7 DEF ReadDone, EvictReturns, Cleared, Vacuumed, Raises, data, calls
  <2> QED
    BY <1>1, <1>2, <2>1, SendQuiet
<1> QED
  BY <1>3, <1>4, <1>5, <1>6, <1>7 DEF HostStep

LEMMA SendLifeStep ==
  ASSUME ControlInv, ControlInv', DataInv, SendInv, NEW h \in Hosts, BackupStep(h) \/ CloseStep(h)
  PROVE  SendInv'
<1>1. h \in Tasks /\ h # Loop /\ UNCHANGED <<batch, direct>>
  BY StoreAssumption
  DEF Tasks, data, calls, BackupStep, CloseStep, BeginRefused, BackupBegun, CallEnd, BackupEnded,
      CallInit, InitReturns, CallClose, CloseEndsBackup, CloseRaises, CloseEndedBackup,
      CloseEndFailed, LoopJoined, CloseDiscards, BackendEndedBackup, Disposed
<1>2. ASSUME Return(h) \/ Idle(h)
      PROVE  Others(h) /\ pc'[h] # "direct" /\ op'[h] # "store_many"
  <2>1. CASE Return(h)
    BY <1>1, <2>1, ReturnShape DEF Critical, Return, ControlInv, ControlTypeOK
  <2>2. CASE Idle(h)
    <3>1. Others(h) /\ pc'[h] = "idle" /\ op'[h] = "none"
      BY <1>1, <2>2, OwnMove DEF Idle
    <3> QED
      BY <3>1
  <2> QED
    BY <1>2, <2>1, <2>2
<1>3. CASE BeginRefused(h) \/ CloseDiscards(h)
  <2>1. op[h] \in {"begin", "close"} /\ pc[h] = "lock"
    BY <1>3 DEF BeginRefused, CloseDiscards, Admitted, Granted
  <2>2. CASE BeginRefused(h)
    BY <1>1, <1>2, <2>1, <2>2, SendQuiet DEF BeginRefused
  <2>3. CASE CloseDiscards(h)
    <3>1. PICK next \in {"closebackup", "dispose"} : pc' = [pc EXCEPT ![h] = next] /\ op' = op
      BY <2>3 DEF CloseDiscards, CloseBackend
    <3>2. Others(h) /\ pc'[h] = next /\ op'[h] = op[h]
      BY <1>1, <3>1, PcMove
    <3> QED
      BY <1>1, <2>1, <3>1, <3>2, SendQuiet
  <2> QED
    BY <1>3, <2>2, <2>3
<1>4. CASE \/ BackupBegun(h) \/ BackupEnded(h) \/ InitReturns(h) \/ CloseEndFailed(h)
           \/ Disposed(h)
  <2>1. /\ pc[h] \in {"begin", "end", "init", "closeend", "dispose"}
        /\ Return(h) \/ Idle(h)
    BY <1>4 DEF BackupBegun, BackupEnded, InitReturns, CloseEndFailed, Disposed
  <2> QED
    BY <1>1, <1>2, <2>1, SendQuiet
<1>5. CASE CallEnd(h) \/ CallInit(h) \/ CloseEndsBackup(h)
  <2>1. PICK next \in {"end", "init", "closeend"} : pc' = [pc EXCEPT ![h] = next]
    BY <1>5 DEF CallEnd, CallInit, CloseEndsBackup
  <2>2. PICK o \in {"end", "init", "close"} : op' = [op EXCEPT ![h] = o]
    BY <1>5 DEF CallEnd, CallInit, CloseEndsBackup
  <2>3. pc[h] = "idle"
    BY <1>5 DEF CallEnd, CallInit, CloseEndsBackup
  <2>4. Others(h) /\ pc'[h] = next /\ op'[h] = o
    BY <1>1, <2>1, <2>2, OwnMove
  <2> QED
    BY <1>1, <2>1, <2>2, <2>3, <2>4, SendQuiet
<1>6. CASE CallClose(h) \/ CloseEndedBackup(h)
  <2>1. pc[h] \in {"idle", "closeend"} /\ StopLoop(h)
    BY <1>6 DEF CallClose, CloseEndedBackup
  <2>2. Others(h) /\ pc'[h] \in {"join", "lock"}
    BY <2>1, StopMove
  <2>3. op'[h] = "close"
    BY <1>1, <2>1 DEF StopLoop, ControlInv, ControlTypeOK
  <2> QED
    BY <1>1, <2>1, <2>2, <2>3, SendQuiet
<1>7. CASE CloseRaises(h)
  BY <1>1, <1>7 DEF CloseRaises, SendInv, Writers
<1>8. CASE LoopJoined(h) \/ BackendEndedBackup(h)
  <2>1. pc[h] \in {"join", "closebackup"}
    BY <1>8 DEF LoopJoined, BackendEndedBackup
  <2>2. op[h] # "store_many"
    BY <1>1, <2>1 DEF SendInv
  <2>3. CASE Return(h)
    BY <1>1, <1>2, <2>1, <2>3, SendQuiet
  <2>4. CASE \E next \in {"lock", "dispose"} : pc' = [pc EXCEPT ![h] = next] /\ op' = op
    <3>1. PICK next \in {"lock", "dispose"} : pc' = [pc EXCEPT ![h] = next] /\ op' = op
      BY <2>4
    <3>2. Others(h) /\ pc'[h] = next /\ op'[h] = op[h]
      BY <1>1, <3>1, PcMove
    <3> QED
      BY <1>1, <2>1, <2>2, <3>1, <3>2, SendQuiet
  <2> QED
    BY <1>8, <2>3, <2>4 DEF LoopJoined, BackendEndedBackup
<1> QED
  BY <1>3, <1>4, <1>5, <1>6, <1>7, <1>8 DEF BackupStep, CloseStep

LEMMA SendStep ==
  ASSUME ControlInv, ControlInv', DataInv, SendInv, [Next]_vars
  PROVE  SendInv'
<1>1. CASE Store \/ EvictionDone \/ EvictionFailed \/ UNCHANGED vars
  <2>1. UNCHANGED <<pc, op, batch, direct>>
    BY <1>1 DEF Store, EvictionDone, EvictionFailed, vars, data, calls
  <2> QED
    BY <2>1 DEF SendInv, Writers
<1>2. CASE Start \/ Tick
  <2>1. PICK next \in {"sleep", "lock"} : pc' = [pc EXCEPT ![Loop] = next]
    BY <1>2 DEF Start, Tick
  <2>2. pc[Loop] \in {"none", "sleep"} /\ op' = op /\ Loop \in Tasks /\ UNCHANGED <<batch, direct>>
    BY <1>2 DEF Start, Tick, Tasks, data, calls
  <2>3. Others(Loop) /\ pc'[Loop] = next /\ op'[Loop] = op[Loop] /\ op[Loop] = "loop"
    BY <2>1, <2>2, PcMove DEF ControlInv, ControlTypeOK
  <2> QED
    BY <2>1, <2>2, <2>3, SendQuiet
<1> QED
  BY <1>1, <1>2, SendFlushStep, SendHostStep, SendLifeStep DEF Next

LEMMA SendInit == Init => SendInv
<1> SUFFICES ASSUME Init PROVE SendInv
  OBVIOUS
<1>1. \A t \in Tasks : batch[t] = <<>> /\ pc[t] \in {"none", "idle"} /\ op[t] \in {"none", "loop"}
  BY DEF Init
<1>2. Range(<<>>) = {}
  BY EmptySeq DEF Range
<1> QED
  BY <1>1, <1>2 DEF SendInv
-----------------------------------------------------------------------------
(* Sequences in which what went through store() is in the order of its     *)
(* arrival.                                                                *)

LEMMA InOrderConcat ==
  ASSUME NEW s \in Seq(Ids), NEW r \in Seq(Ids)
  PROVE  InOrder(s \o r) <=>
           /\ InOrder(s) /\ InOrder(r)
           /\ \A i \in Range(s) \cap Stored, j \in Range(r) \cap Stored : i < j
<1>1. /\ DOMAIN s = 1..Len(s) /\ DOMAIN r = 1..Len(r) /\ Len(s) \in Nat /\ Len(r) \in Nat
      /\ Range(s) = {s[i] : i \in 1..Len(s)} /\ Range(r) = {r[i] : i \in 1..Len(r)}
  BY LenProperties, RangeEquality
<1> DEFINE a == s \o r
<1>2. /\ a \in Seq(Ids) /\ Len(a) = Len(s) + Len(r)
      /\ \A i \in 1..Len(s) + Len(r) : a[i] = IF i <= Len(s) THEN s[i] ELSE r[i - Len(s)]
  BY ConcatProperties
<1>3. DOMAIN a = 1..Len(s) + Len(r)
  BY <1>2, LenProperties
<1> HIDE DEF a
<1>4. /\ \A i \in 1..Len(s) : i \in DOMAIN a /\ a[i] = s[i]
      /\ \A i \in 1..Len(r) : Len(s) + i \in DOMAIN a /\ a[Len(s) + i] = r[i]
  <2>1. ASSUME NEW i \in 1..Len(r) PROVE Len(s) + i \in DOMAIN a /\ a[Len(s) + i] = r[i]
    <3> DEFINE k == Len(s) + i
    <3>1. k \in 1..Len(s) + Len(r) /\ ~(k <= Len(s)) /\ k - Len(s) = i
      BY <1>1
    <3> HIDE DEF k
    <3>2. k \in DOMAIN a /\ a[k] = r[i]
      BY <1>2, <1>3, <3>1
    <3> QED
      BY <3>2 DEF k
  <2> QED
    BY <1>1, <1>2, <1>3, <2>1
<1>5. ASSUME InOrder(a) PROVE InOrder(s)
  BY <1>1, <1>4, <1>5 DEF InOrder
<1>6. ASSUME InOrder(a) PROVE InOrder(r)
  <2> SUFFICES ASSUME NEW p \in 1..Len(r), NEW q \in 1..Len(r), p < q, {r[p], r[q]} \subseteq Stored
               PROVE  r[p] < r[q]
    BY <1>1 DEF InOrder
  <2>1. Len(s) + p < Len(s) + q
    BY <1>1
  <2>2. /\ Len(s) + p \in DOMAIN a /\ a[Len(s) + p] = r[p]
        /\ Len(s) + q \in DOMAIN a /\ a[Len(s) + q] = r[q]
    BY <1>4
  <2>3. a[Len(s) + p] < a[Len(s) + q]
    BY <1>6, <2>1, <2>2, Zenon DEF InOrder
  <2> QED
    BY <2>2, <2>3
<1>7. ASSUME InOrder(a), NEW i \in Range(s) \cap Stored, NEW j \in Range(r) \cap Stored
      PROVE  i < j
  <2>1. PICK p \in 1..Len(s) : s[p] = i
    BY <1>1
  <2>2. PICK q \in 1..Len(r) : r[q] = j
    BY <1>1
  <2>3. p < Len(s) + q
    BY <1>1
  <2> QED
    BY <1>4, <1>7, <2>1, <2>2, <2>3 DEF InOrder
<1>8. ASSUME InOrder(s), InOrder(r),
             \A i \in Range(s) \cap Stored, j \in Range(r) \cap Stored : i < j
      PROVE  InOrder(a)
  <2> SUFFICES ASSUME NEW p \in DOMAIN a, NEW q \in DOMAIN a, p < q, {a[p], a[q]} \subseteq Stored
               PROVE  a[p] < a[q]
    BY DEF InOrder
  <2>1. p \in 1..Len(s) + Len(r) /\ q \in 1..Len(s) + Len(r)
    BY <1>3
  <2>2. CASE q <= Len(s)
    <3>1. p \in 1..Len(s) /\ q \in 1..Len(s) /\ a[p] = s[p] /\ a[q] = s[q]
      BY <1>1, <1>2, <2>1, <2>2
    <3> QED
      BY <1>1, <1>8, <3>1 DEF InOrder
  <2>3. CASE p > Len(s)
    <3>1. /\ p - Len(s) \in 1..Len(r) /\ q - Len(s) \in 1..Len(r) /\ p - Len(s) < q - Len(s)
          /\ a[p] = r[p - Len(s)] /\ a[q] = r[q - Len(s)]
      BY <1>1, <1>2, <2>1, <2>3
    <3> QED
      BY <1>1, <1>8, <3>1 DEF InOrder
  <2>4. CASE p <= Len(s) /\ q > Len(s)
    <3>1. p \in 1..Len(s) /\ q - Len(s) \in 1..Len(r) /\ a[p] = s[p] /\ a[q] = r[q - Len(s)]
      BY <1>1, <1>2, <2>1, <2>4
    <3>2. a[p] \in Range(s) /\ a[q] \in Range(r)
      BY <1>1, <3>1
    <3> QED
      BY <1>8, <3>2
  <2> QED
    BY <1>1, <2>1, <2>2, <2>3, <2>4
<1> QED
  BY <1>5, <1>6, <1>7, <1>8 DEF a

LEMMA RangeOfSubSeq ==
  ASSUME NEW S, NEW s \in Seq(S), NEW m \in Nat \ {0}, NEW n \in 0..Len(s)
  PROVE  /\ SubSeq(s, m, n) \in Seq(S)
         /\ Range(SubSeq(s, m, n)) \subseteq Range(s)
         /\ InOrder(s) => InOrder(SubSeq(s, m, n))
<1> DEFINE r == SubSeq(s, m, n)
<1>1. Len(s) \in Nat /\ DOMAIN s = 1..Len(s) /\ n \in Nat /\ m \in Int /\ n \in Int
  BY LenProperties
<1>2. \A i \in m..n : s[i] \in S
  BY <1>1, ElementOfSeq
<1>3. /\ r \in Seq(S) /\ Len(r) = IF m <= n THEN n - m + 1 ELSE 0
      /\ \A i \in 1..n - m + 1 : r[i] = s[m + i - 1]
  BY <1>1, <1>2, SubSeqProperties
<1>4. DOMAIN r = 1..Len(r)
  BY <1>3, LenProperties
<1> HIDE DEF r
<1>5. \A i \in DOMAIN r : i \in Int /\ m + i - 1 \in DOMAIN s /\ r[i] = s[m + i - 1]
  BY <1>1, <1>3, <1>4
<1>6. Range(r) \subseteq Range(s)
  BY <1>5 DEF Range
<1>7. ASSUME InOrder(s) PROVE InOrder(r)
  <2> SUFFICES ASSUME NEW p \in DOMAIN r, NEW q \in DOMAIN r, p < q, {r[p], r[q]} \subseteq Stored
               PROVE  r[p] < r[q]
    BY DEF InOrder
  <2>1. m + p - 1 < m + q - 1
    BY <1>1, <1>5
  <2> QED
    BY <1>5, <1>7, <2>1 DEF InOrder
<1> QED
  BY <1>3, <1>6, <1>7 DEF r

\* The telegram at the front is the oldest.
LEMMA HeadFirst ==
  ASSUME NEW s \in Seq(Stored), s # <<>>
  PROVE  /\ Head(s) \in Stored /\ Tail(s) \in Seq(Stored)
         /\ Range(s) = {Head(s)} \cup Range(Tail(s))
         /\ InOrder(s) => /\ InOrder(Tail(s)) /\ Head(s) \notin Range(Tail(s))
                           /\ \A i \in Range(Tail(s)) : Head(s) < i
<1> DEFINE r == Tail(s)
<1>1. /\ r \in Seq(Stored) /\ Len(r) = Len(s) - 1 /\ Len(s) \in Nat \ {0}
      /\ Head(s) = s[1] /\ Head(s) \in Stored
      /\ \A i \in 1..Len(r) : r[i] = s[i + 1]
  BY HeadTailProperties, EmptySeq
<1>2. DOMAIN s = 1..Len(s) /\ DOMAIN r = 1..Len(r) /\ Range(r) = {r[i] : i \in 1..Len(r)}
  <2> HIDE DEF r
  <2>1. DOMAIN s = 1..Len(s)
    BY ONLY s \in Seq(Stored), LenProperties
  <2>2. DOMAIN r = 1..Len(r)
    BY ONLY <1>1, LenProperties
  <2>3. Range(r) = {r[i] : i \in 1..Len(r)}
    BY ONLY <1>1, RangeEquality
  <2> QED BY <2>1, <2>2, <2>3
<1>3. Range(s) = {Head(s)} \cup Range(Tail(s))
  BY RangeOfHeadTail
<1> HIDE DEF r
<1>4. \A i \in 1..Len(r) : r[i] \in Stored /\ i + 1 \in DOMAIN s /\ r[i] = s[i + 1] /\ 1 < i + 1
                           /\ 1 \in DOMAIN s
  BY <1>1, <1>2, ElementOfSeq
<1>5. ASSUME InOrder(s) PROVE InOrder(r)
  <2> SUFFICES ASSUME NEW p \in 1..Len(r), NEW q \in 1..Len(r), p < q
               PROVE  r[p] < r[q]
    BY <1>2 DEF InOrder
  <2>1. p + 1 < q + 1
    OBVIOUS
  <2> QED
    BY <1>4, <1>5, <2>1 DEF InOrder
<1>6. ASSUME InOrder(s), NEW i \in Range(r) PROVE Head(s) < i
  BY <1>1, <1>2, <1>4, <1>6 DEF InOrder
<1>7. Head(s) \in Int
  BY <1>1 DEF Stored
<1>8. InOrder(s) => Head(s) \notin Range(r)
  BY <1>6, <1>7
<1> QED
  BY <1>1, <1>3, <1>5, <1>6, <1>8, Zenon DEF r

\* What a comprehension reads is in order, and nothing of drop.
LEMMA ReadingOrder ==
  ASSUME NEW S, NEW s \in Seq(S), NEW drop, NEW at \in Keeping(s, drop)
  PROVE  /\ Reading(s, at) \in Seq(S)
         /\ Range(Reading(s, at)) = Range(s) \ drop
         /\ InOrder(s) => InOrder(Reading(s, at))
<1> DEFINE r == Reading(s, at)
<1>1. r \in Seq(S) /\ \A x \in Range(s) : x \in drop \/ x \in Range(r)
  BY ReadingType, ReadingKeeps
<1>2. /\ DOMAIN r = DOMAIN at
      /\ \A i \in DOMAIN at : r[i] = s[at[i]] /\ at[i] \in DOMAIN s /\ s[at[i]] \notin drop
      /\ \A i, j \in DOMAIN at : i < j => at[i] < at[j]
  BY DEF Reading, Keeping
<1> HIDE DEF r
<1>3. \A x \in Range(r) : x \in Range(s) \ drop
  BY <1>2 DEF Range
<1>4. InOrder(s) => InOrder(r)
  BY <1>2 DEF InOrder
<1> QED
  BY <1>1, <1>3, <1>4 DEF r
-----------------------------------------------------------------------------
(* The queue: what is being written and what is buffered, in the order of  *)
(* arrival.                                                                *)

Typed ==
  /\ Writing \in Seq(Stored) /\ buffer \in Seq(Stored)
  /\ db \in Seq(Ids)
  /\ accepted \in 0..N /\ direct \in 0..D
  /\ fate \in [Ids -> Fates]
  /\ ambiguous \in Nat

QueueInv == InOrder(Pending) /\ Range(Pending) \subseteq 1..accepted

LEMMA TypedIs ==
  ASSUME ControlInv, DataInv
  PROVE  Typed
<1>1. Writing \in Seq(Stored)
  BY WritingIs, EmptySeq DEF DataInv, FlushBatch
<1>2. ambiguous \in Nat
  BY StoreAssumption DEF DataInv, DataTypeOK
<1> QED
  BY <1>1, <1>2 DEF DataInv, DataTypeOK, Typed

LEMMA TypedBecomes ==
  ASSUME ControlInv', DataInv'
  PROVE  Typed'
<1>1. Writing' \in Seq(Stored)
  BY WritingBecomes, EmptySeq DEF DataInv, FlushBatch
<1>2. ambiguous' \in Nat
  BY StoreAssumption DEF DataInv, DataTypeOK
<1> QED
  BY <1>1, <1>2 DEF DataInv, DataTypeOK, Typed

LEMMA StoredTypes ==
  /\ \A s \in Seq(Stored) : s \in Seq(Ids) /\ Range(s) \subseteq Stored
  /\ Stored \subseteq Ids /\ Stored \subseteq Int /\ Ids \subseteq Int
<1>1. Stored \subseteq Ids /\ Stored \subseteq Int /\ Ids \subseteq Int
  BY StoredAreIds DEF Stored, Ids
<1>2. \A s \in Seq(Stored) : s \in Seq(Ids) /\ Range(s) \subseteq Stored
  BY <1>1, SeqMonotonic, RangeOfSeq
<1> QED
  BY <1>1, <1>2

LEMMA QueueOf ==
  ASSUME NEW s \in Seq(Stored), NEW r \in Seq(Stored)
  PROVE  /\ s \o r \in Seq(Stored)
         /\ Range(s \o r) = Range(s) \cup Range(r)
         /\ InOrder(s \o r) <=>
              InOrder(s) /\ InOrder(r) /\ \A i \in Range(s), j \in Range(r) : i < j
<1>1. s \o r \in Seq(Stored) /\ Range(s \o r) = Range(s) \cup Range(r)
  BY ConcatProperties, RangeConcatenation
<1>2. /\ s \in Seq(Ids) /\ r \in Seq(Ids)
      /\ Range(s) \cap Stored = Range(s) /\ Range(r) \cap Stored = Range(r)
  BY StoredTypes
<1>3. InOrder(s \o r) <=> /\ InOrder(s) /\ InOrder(r)
                          /\ \A i \in Range(s) \cap Stored, j \in Range(r) \cap Stored : i < j
  BY <1>2, InOrderConcat
<1> QED
  BY <1>1, <1>2, <1>3

LEMMA EmptyOrder == InOrder(<<>>) /\ Range(<<>>) = {}
BY EmptySeq DEF InOrder, Range

LEMMA NewestOrder ==
  ASSUME NEW s \in Seq(Stored)
  PROVE  /\ Newest(s) \in Seq(Stored)
         /\ Range(Newest(s)) \subseteq Range(s)
         /\ InOrder(s) => InOrder(Newest(s))
<1>1. Len(s) \in Nat /\ MaxBuffer \in Nat \ {0}
  BY LenProperties, StoreAssumption
<1>2. CASE Len(s) > MaxBuffer
  <2>1. Len(s) - MaxBuffer + 1 \in Nat \ {0} /\ Len(s) \in 0..Len(s)
    BY <1>1, <1>2
  <2> QED
    BY <1>2, <2>1, RangeOfSubSeq DEF Newest
<1>3. CASE ~(Len(s) > MaxBuffer)
  BY <1>3 DEF Newest
<1> QED
  BY <1>2, <1>3

\* The two parts of the queue.
LEMMA QueueParts ==
  ASSUME Typed, QueueInv
  PROVE  /\ InOrder(Writing) /\ InOrder(buffer)
         /\ \A i \in Range(Writing), j \in Range(buffer) : i < j
         /\ Range(Pending) = Range(Writing) \cup Range(buffer)
         /\ Range(Writing) \cap Range(buffer) = {}
         /\ Range(Writing) \subseteq 1..accepted /\ Range(buffer) \subseteq 1..accepted
<1>1. /\ InOrder(Writing) /\ InOrder(buffer)
      /\ \A i \in Range(Writing), j \in Range(buffer) : i < j
      /\ Range(Pending) = Range(Writing) \cup Range(buffer)
  BY QueueOf DEF Typed, QueueInv, Pending
<1>2. Range(Writing) \cap Range(buffer) = {}
  <2> SUFFICES ASSUME NEW i \in Range(Writing) \cap Range(buffer) PROVE FALSE
    OBVIOUS
  <2>1. i < i /\ i \in Int
    BY <1>1, StoredTypes DEF Typed
  <2> QED
    BY <2>1
<1> QED
  BY <1>1, <1>2 DEF QueueInv

\* The parts of the queue after a step make a queue.
LEMMA QueueMade ==
  ASSUME Typed', InOrder(Writing'), InOrder(buffer'),
         \A i \in Range(Writing'), j \in Range(buffer') : i < j,
         Range(Writing') \subseteq 1..accepted', Range(buffer') \subseteq 1..accepted'
  PROVE  QueueInv'
<1>1. Writing' \in Seq(Stored) /\ buffer' \in Seq(Stored)
  BY DEF Typed
<1>2. /\ InOrder(Writing' \o buffer')
      /\ Range(Writing' \o buffer') = Range(Writing') \cup Range(buffer')
  BY <1>1, QueueOf
<1> QED
  BY <1>2 DEF QueueInv, Pending, InOrder, Range

\* What store() does to the buffer.
LEMMA TakesLast ==
  ASSUME Typed, QueueInv, Store
  PROVE  \E b \in Seq(Stored) :
           /\ buffer' = Append(b, accepted') /\ InOrder(b) /\ Range(b) \subseteq Range(buffer)
           /\ \/ b = buffer /\ fate' = fate
              \/ Len(buffer) >= MaxBuffer /\ buffer # <<>> /\ b = Tail(buffer)
                 /\ fate' = Mark({Head(buffer)}, "overflow")
                 /\ Range(buffer) = {Head(buffer)} \cup Range(b) /\ Head(buffer) \notin Range(b)
<1>1. buffer \in Seq(Stored) /\ InOrder(buffer)
  BY QueueParts DEF Typed
<1>2. CASE Len(buffer) >= MaxBuffer
  <2>1. buffer # <<>>
    BY <1>2, EmptySeq, StoreAssumption
  <2>2. /\ Head(buffer) \in Stored /\ Tail(buffer) \in Seq(Stored)
        /\ Range(buffer) = {Head(buffer)} \cup Range(Tail(buffer))
        /\ InOrder(Tail(buffer)) /\ Head(buffer) \notin Range(Tail(buffer))
    BY <1>1, <2>1, HeadFirst
  <2>4. buffer' = Append(Tail(buffer), accepted') /\ fate' = Mark({Head(buffer)}, "overflow")
    BY <1>2 DEF Store
  <2> QED
    BY <1>2, <2>1, <2>2, <2>4, Zenon
<1>3. CASE ~(Len(buffer) >= MaxBuffer)
  <2>1. buffer' = Append(buffer, accepted') /\ fate' = fate
    BY <1>3 DEF Store
  <2> QED
    BY <1>1, <2>1
<1> QED
  BY <1>2, <1>3

LEMMA QueueStep ==
  ASSUME Typed, Typed', QueueInv, Effect
  PROVE  QueueInv'
<1>1. /\ Writing \in Seq(Stored) /\ buffer \in Seq(Stored) /\ db \in Seq(Ids)
      /\ accepted \in Nat /\ accepted' \in 0..N
      /\ Writing' \in Seq(Stored) /\ buffer' \in Seq(Stored)
  BY DEF Typed
<1>2. /\ InOrder(Writing) /\ InOrder(buffer)
      /\ \A i \in Range(Writing), j \in Range(buffer) : i < j
      /\ Range(Writing) \subseteq 1..accepted /\ Range(buffer) \subseteq 1..accepted
  BY QueueParts
<1>3. CASE Rests \/ Sends \/ Returns
  <2>1. UNCHANGED <<Writing, buffer, accepted>>
    BY <1>3 DEF Rests, Sends, Returns, Still
  <2> QED
    BY <1>2, <2>1, QueueMade
<1>4. CASE Takes
  <2>1. accepted' = accepted + 1 /\ Writing' = Writing /\ Store
    BY <1>4 DEF Takes, Store
  <2>2. PICK b \in Seq(Stored) :
          buffer' = Append(b, accepted') /\ InOrder(b) /\ Range(b) \subseteq Range(buffer)
    BY <2>1, TakesLast
  <2> DEFINE a == accepted'
  <2>3. a \in Stored /\ a = accepted + 1
    BY <1>1, <2>1 DEF Stored
  <2> HIDE DEF a
  <2>4. buffer' = b \o <<a>> /\ <<a>> \in Seq(Stored)
    BY <2>2, <2>3, AppendIsConcat DEF a
  <2>5. InOrder(<<a>>) /\ Range(<<a>>) = {a}
    BY DEF InOrder, Range
  <2>6. \A i \in 1..accepted : i < a /\ i \in 1..a
    BY <1>1, <2>3
  <2>6a. a \in 1..a
    BY <1>1, <2>3
  <2>7. \A i \in Range(b), j \in Range(<<a>>) : i < j
    BY <1>2, <2>2, <2>5, <2>6
  <2>8. InOrder(buffer') /\ Range(buffer') = Range(b) \cup {a}
    <3> DEFINE last == <<a>>
    <3>1. last \in Seq(Stored) /\ buffer' = b \o last /\ InOrder(last) /\ Range(last) = {a}
      BY <2>4, <2>5
    <3>2. \A i \in Range(b), j \in Range(last) : i < j
      BY <2>7
    <3> HIDE DEF last
    <3>3. /\ Range(b \o last) = Range(b) \cup Range(last)
          /\ InOrder(b \o last) <=>
               InOrder(b) /\ InOrder(last) /\ \A i \in Range(b), j \in Range(last) : i < j
      BY ONLY <2>2, <3>1, QueueOf, Zenon
    <3> QED BY ONLY <2>2, <3>1, <3>2, <3>3
  <2>9. Range(Writing) \subseteq 1..a /\ Range(buffer') \subseteq 1..a
    BY <1>2, <2>2, <2>6, <2>6a, <2>8
  <2>10. \A i \in Range(Writing), j \in Range(buffer') : i < j
    BY <1>2, <2>2, <2>6, <2>8
  <2>11. a = accepted'
    BY DEF a
  <2> QED
    BY <1>2, <2>1, <2>8, <2>9, <2>10, <2>11, QueueMade
<1>5. ASSUME Writing # <<>>, Writing' = Tail(Writing), buffer' = buffer, accepted' = accepted
      PROVE  QueueInv'
  <2>1. InOrder(Tail(Writing)) /\ Range(Tail(Writing)) \subseteq Range(Writing)
    BY <1>1, <1>2, <1>5, HeadFirst
  <2> QED
    BY <1>2, <1>5, <2>1, QueueMade
<1>6. CASE Writes
  <2>1. accepted' = accepted
    BY <1>6 DEF Writes
  <2>2. CASE Drains
    BY <1>2, <2>1, <2>2, EmptyOrder, QueueMade DEF Drains
  <2>3. CASE Inserts
    BY <1>2, <2>1, <2>3, EmptyOrder, QueueMade DEF Inserts
  <2>4. CASE InsertsOne \/ Rejects
    BY <1>5, <2>1, <2>4 DEF InsertsOne, Rejects
  <2>5. ASSUME NEW n \in 0..Len(Writing), Fails(n) PROVE QueueInv'
    <3> DEFINE all == Writing \o buffer
    <3>1. /\ all \in Seq(Stored) /\ InOrder(all)
          /\ Range(all) \subseteq 1..accepted
      BY <1>1, <1>2, QueueOf
    <3>2. Writing' = <<>> /\ buffer' = Newest(all)
      BY <2>5 DEF Fails
    <3> HIDE DEF all
    <3>3. InOrder(buffer') /\ Range(buffer') \subseteq Range(all)
      BY <3>1, <3>2, NewestOrder
    <3> QED
      BY <2>1, <3>1, <3>2, <3>3, EmptyOrder, QueueMade
  <2> QED
    BY <1>6, <2>2, <2>3, <2>4, <2>5 DEF Writes
<1>7. CASE Alone
  <2>1. accepted' = accepted /\ Writing' = <<>>
    BY <1>7 DEF Alone
  <2>2. InOrder(buffer') /\ Range(buffer') \subseteq Range(buffer)
    <3>1. CASE EvictsBoth
      BY <1>1, <1>2, <3>1, ReadingOrder DEF EvictsBoth
    <3>2. CASE Empties
      BY <3>2, EmptyOrder DEF Empties
    <3>3. CASE EvictsRows \/ Wipes
      BY <1>2, <3>3 DEF EvictsRows, Wipes
    <3> QED
      BY <1>7, <3>1, <3>2, <3>3 DEF Alone
  <2> QED
    BY <1>2, <2>1, <2>2, EmptyOrder, QueueMade
<1> QED
  BY <1>3, <1>4, <1>6, <1>7 DEF Effect
-----------------------------------------------------------------------------
(* What is lost stays lost.  A telegram is known once store() or           *)
(* store_many() was called with it; one that was lost is nowhere any more  *)
(* from where it could get into the database.                              *)

Known == 1..accepted \cup (N + 1)..(N + direct)

KnownInv ==
  /\ Range(db) \subseteq Known
  /\ Range(db) \cap Sent = {}
  /\ Sent \subseteq (N + 1)..(N + direct)
  /\ \A i \in Ids : fate[i] # "none" => i \in Known /\ i \notin Range(Pending) /\ i \notin Sent
  /\ Clearing # {} => Range(db) \cap Range(buffer) = {}

\* Telegrams of store_many() are none of the queue.
LEMMA SentApart ==
  ASSUME Typed, QueueInv, KnownInv
  PROVE  /\ Sent \cap Range(Pending) = {} /\ Sent \subseteq Known
         /\ Range(Pending) \subseteq Known
         /\ Sent \cap Range(Writing) = {} /\ Sent \cap Range(buffer) = {}
         /\ Range(Pending) = Range(Writing) \cup Range(buffer)
<1>1. Range(Pending) \subseteq 1..accepted /\ Sent \subseteq (N + 1)..(N + direct)
  BY DEF QueueInv, KnownInv
<1>2. (1..accepted) \cap ((N + 1)..(N + direct)) = {}
  BY StoreAssumption DEF Typed
<1>3. Range(Pending) = Range(Writing) \cup Range(buffer)
  BY QueueParts
<1> QED
  BY <1>1, <1>2, <1>3 DEF Known

LEMMA PendingBecomes ==
  ASSUME Typed'
  PROVE  Range(Pending') = Range(Writing') \cup Range(buffer')
<1>1. Writing' \in Seq(Stored) /\ buffer' \in Seq(Stored)
  BY DEF Typed
<1>2. Range(Writing' \o buffer') = Range(Writing') \cup Range(buffer')
  BY <1>1, QueueOf
<1> QED
  BY <1>2 DEF Pending

\* A step that takes in nothing new, and loses X.
LEMMA KnownKept ==
  ASSUME KnownInv, UNCHANGED <<accepted, direct>>, NEW X,
         Range(db') \subseteq Known, Range(db') \cap Sent' = {},
         Sent' \subseteq Sent, Range(Pending') \subseteq Range(Pending),
         X \subseteq Known, X \cap Range(Pending') = {}, X \cap Sent' = {},
         \A i \in Ids : fate'[i] # "none" => i \in X \/ fate[i] # "none",
         Clearing' # {} => Range(db') \cap Range(buffer') = {}
  PROVE  KnownInv'
<1>1. Known' = Known
  BY DEF Known
<1>2. \A i \in Ids : fate'[i] # "none" =>
        i \in Known' /\ i \notin Range(Pending') /\ i \notin Sent'
  BY <1>1 DEF KnownInv
<1>3. Sent' \subseteq (N + 1)..(N + direct')
  BY DEF KnownInv
<1> QED
  BY <1>1, <1>2, <1>3 DEF KnownInv

LEMMA MarkedIn ==
  ASSUME NEW X, NEW why, fate' = Mark(X, why)
  PROVE  \A i \in Ids : fate'[i] # "none" => i \in X \/ fate[i] # "none"
BY DEF Mark

LEMMA KnownWrites ==
  ASSUME Typed, Typed', QueueInv, KnownInv, Writes
  PROVE  KnownInv'
<1>1. /\ Writing \in Seq(Stored) /\ buffer \in Seq(Stored) /\ db \in Seq(Ids)
      /\ Writing \in Seq(Ids)
  BY StoredTypes DEF Typed
<1>2. /\ InOrder(Writing)
      /\ Range(Writing) \cap Range(buffer) = {}
      /\ Sent \cap Range(Writing) = {} /\ Sent \cap Range(buffer) = {}
      /\ Range(Pending) \subseteq Known /\ Range(Pending) = Range(Writing) \cup Range(buffer)
      /\ Range(Pending') = Range(Writing') \cup Range(buffer')
  BY QueueParts, SentApart, PendingBecomes
<1>3. UNCHANGED <<accepted, direct>> /\ Sent' = Sent /\ Clearing' = {}
  BY DEF Writes
<1>4. Range(db) \subseteq Known /\ Range(db) \cap Sent = {}
  BY DEF KnownInv
<1>5. ASSUME NEW X, X \subseteq Range(Pending), X \cap Range(Pending') = {},
             \A i \in Ids : fate'[i] # "none" => i \in X \/ fate[i] # "none",
             Range(db') \subseteq Range(db) \cup Range(Writing),
             Range(Pending') \subseteq Range(Pending)
      PROVE  KnownInv'
  <2>1. Range(db') \subseteq Known /\ Range(db') \cap Sent' = {}
    BY <1>2, <1>3, <1>4, <1>5
  <2>2. X \subseteq Known /\ X \cap Sent' = {}
    BY <1>2, <1>3, <1>5
  <2> QED
    BY <1>3, <1>5, <2>1, <2>2, KnownKept, Zenon
<1>12. ASSUME fate' = fate, Range(db') \subseteq Range(db) \cup Range(Writing),
              Range(Pending') \subseteq Range(Pending)
       PROVE  KnownInv'
  <2>1. {} \subseteq Range(Pending) /\ {} \cap Range(Pending') = {}
    OBVIOUS
  <2>2. \A i \in Ids : fate'[i] # "none" => i \in {} \/ fate[i] # "none"
    BY <1>12
  <2> QED
    BY <1>5, <1>12, <2>1, <2>2, Zenon
<1>6. CASE Drains
  <2>1. Range(Pending') = Range(Pending) /\ fate' = fate /\ db' = db
    BY <1>2, <1>6, EmptyOrder DEF Drains
  <2>2. /\ Range(db') \subseteq Range(db) \cup Range(Writing)
        /\ Range(Pending') \subseteq Range(Pending)
    BY <2>1
  <2> QED
    BY <1>12, <2>1, <2>2
<1>7. CASE Inserts
  <2>1. Range(db') = Range(db) \cup Range(Writing)
    BY <1>1, <1>7, RangeConcatenation DEF Inserts
  <2>2. Range(Pending') = Range(buffer) /\ fate' = fate
    BY <1>2, <1>7, EmptyOrder DEF Inserts
  <2> QED
    BY <1>2, <1>12, <2>1, <2>2
<1>8. ASSUME Writing # <<>>, Writing' = Tail(Writing), buffer' = buffer
      PROVE  /\ Head(Writing) \in Ids /\ Head(Writing) \in Range(Writing)
             /\ Head(Writing) \notin Range(Pending')
             /\ Range(Pending') \subseteq Range(Pending)
  <2>1. /\ Head(Writing) \in Stored
        /\ Range(Writing) = {Head(Writing)} \cup Range(Writing')
        /\ Head(Writing) \notin Range(Writing')
    BY <1>1, <1>2, <1>8, HeadFirst
  <2> QED
    BY <1>2, <1>8, <2>1, StoredTypes
<1>9. CASE InsertsOne
  <2>1. /\ Writing # <<>> /\ Writing' = Tail(Writing) /\ buffer' = buffer
        /\ db' = Append(db, Head(Writing)) /\ fate' = fate
    BY <1>9 DEF InsertsOne
  <2>2. Range(db') = Range(db) \cup {Head(Writing)}
    BY <1>1, <1>8, <2>1, RangeOfAppend
  <2>3. Range(db') \subseteq Range(db) \cup Range(Writing) /\ Range(Pending') \subseteq Range(Pending)
    BY <1>8, <2>1, <2>2
  <2> QED
    BY <1>12, <2>1, <2>3
<1>10. CASE Rejects
  <2>1. /\ Writing # <<>> /\ Writing' = Tail(Writing) /\ buffer' = buffer
        /\ db' = db /\ fate' = Mark({Head(Writing)}, "unstorable")
    BY <1>10 DEF Rejects
  <2>2. {Head(Writing)} \subseteq Range(Pending) /\ {Head(Writing)} \cap Range(Pending') = {}
    BY <1>2, <1>8, <2>1
  <2>3. \A i \in Ids : fate'[i] # "none" => i \in {Head(Writing)} \/ fate[i] # "none"
    BY <2>1, MarkedIn
  <2>4. Range(db') \subseteq Range(db) \cup Range(Writing)
    BY <2>1
  <2> QED
    BY <1>5, <1>8, <2>1, <2>2, <2>3, <2>4
<1>11. ASSUME NEW n \in 0..Len(Writing), Fails(n) PROVE KnownInv'
  <2> DEFINE rows == SubSeq(Writing, 1, n)
             all  == Writing \o buffer
             X    == Range(all) \ Range(buffer')
  <2>1. /\ Writing' = <<>> /\ db' = db \o rows /\ buffer' = Newest(all)
        /\ fate' = Mark(X, "overflow")
    BY <1>11 DEF Fails
  <2>2. rows \in Seq(Ids) /\ Range(rows) \subseteq Range(Writing)
    BY <1>1, RangeOfSubSeq
  <2>3. all \in Seq(Stored) /\ Range(all) = Range(Pending)
    BY <1>1, QueueOf DEF Pending
  <2> HIDE DEF rows, all
  <2>4. Range(db') \subseteq Range(db) \cup Range(Writing)
    BY <1>1, <2>1, <2>2, RangeConcatenation
  <2>5. Range(Pending') = Range(buffer') /\ Range(buffer') \subseteq Range(Pending)
    BY <1>2, <2>1, <2>3, NewestOrder, EmptyOrder
  <2>6. \A i \in Ids : fate'[i] # "none" => i \in X \/ fate[i] # "none"
    BY <2>1, MarkedIn
  <2>7. X \subseteq Range(Pending) /\ X \cap Range(Pending') = {}
    BY <2>3, <2>5
  <2> HIDE DEF X
  <2> QED
    BY <1>5, <2>4, <2>5, <2>6, <2>7
<1> QED
  BY <1>6, <1>7, <1>9, <1>10, <1>11 DEF Writes

LEMMA KnownAlone ==
  ASSUME Typed, Typed', QueueInv, KnownInv, Alone
  PROVE  KnownInv'
<1>1. buffer \in Seq(Stored) /\ db \in Seq(Ids)
  BY DEF Typed
<1>2. /\ UNCHANGED <<accepted, direct>> /\ Sent' = Sent
      /\ Range(Pending) = Range(buffer) /\ Range(Pending') = Range(buffer')
      /\ Sent \cap Range(buffer) = {} /\ Range(Pending) \subseteq Known
  BY QueueParts, SentApart, PendingBecomes, EmptyOrder DEF Alone
<1>3. Range(db) \subseteq Known /\ Range(db) \cap Sent = {}
  BY DEF KnownInv
<1>4. ASSUME NEW X, X \subseteq Range(db) \cup Range(buffer), X \cap Range(buffer') = {},
             \A i \in Ids : fate'[i] # "none" => i \in X \/ fate[i] # "none",
             Range(db') \subseteq Range(db), Range(buffer') \subseteq Range(buffer),
             Clearing' # {} => Range(db') \cap Range(buffer') = {}
      PROVE  KnownInv'
  <2>1. Range(db') \subseteq Known /\ Range(db') \cap Sent' = {}
    BY <1>2, <1>3, <1>4
  <2>2. X \subseteq Known /\ X \cap Sent' = {} /\ X \cap Range(Pending') = {}
    BY <1>2, <1>3, <1>4
  <2>3. Range(Pending') \subseteq Range(Pending) /\ Sent' \subseteq Sent
    BY <1>2, <1>4
  <2> QED
    BY <1>2, <1>4, <2>1, <2>2, <2>3, KnownKept, Zenon
<1>5. CASE EvictsBoth
  <2> DEFINE X == (Range(db) \cup Range(buffer)) \cap Outdated
  <2>1. /\ Range(db') = Range(db) \ Outdated /\ Range(buffer') = Range(buffer) \ Outdated
        /\ Clearing' = {} /\ fate' = Mark(X, "evicted")
    BY <1>1, <1>5, ReadingOrder DEF EvictsBoth
  <2>2. \A i \in Ids : fate'[i] # "none" => i \in X \/ fate[i] # "none"
    BY <2>1, MarkedIn
  <2>3. X \subseteq Range(db) \cup Range(buffer) /\ X \cap Range(buffer') = {}
    BY <2>1
  <2> HIDE DEF X
  <2> QED
    BY <1>4, <2>1, <2>2, <2>3
<1>6. CASE EvictsRows
  <2> DEFINE X == (Range(db) \ Range(buffer)) \cap Outdated
  <2>1. /\ Range(db') = Range(db) \ Outdated /\ buffer' = buffer
        /\ Clearing' = {} /\ fate' = Mark(X, "evicted")
    BY <1>1, <1>6, ReadingOrder DEF EvictsRows
  <2>2. \A i \in Ids : fate'[i] # "none" => i \in X \/ fate[i] # "none"
    BY <2>1, MarkedIn
  <2>3. X \subseteq Range(db) \cup Range(buffer) /\ X \cap Range(buffer') = {}
    BY <2>1
  <2> HIDE DEF X
  <2> QED
    BY <1>4, <2>1, <2>2, <2>3
<1>7. CASE Empties
  <2>1. db' = db /\ Range(buffer') = {}
    BY <1>7, EmptyOrder DEF Empties
  <2>2. \A i \in Ids : fate'[i] # "none" => i \in Range(buffer) \/ fate[i] # "none"
    BY <1>7, MarkedIn DEF Empties
  <2> QED
    BY <1>4, <2>1, <2>2
<1>8. CASE Wipes
  <2>1. Range(db') = {} /\ buffer' = buffer /\ Clearing # {}
    BY <1>8, EmptyOrder DEF Wipes
  <2>2. \A i \in Ids : fate'[i] # "none" => i \in Range(db) \/ fate[i] # "none"
    BY <1>8, MarkedIn DEF Wipes
  <2>3. Range(db) \cap Range(buffer) = {}
    BY <2>1 DEF KnownInv
  <2> QED
    BY <1>4, <2>1, <2>2, <2>3
<1> QED
  BY <1>5, <1>6, <1>7, <1>8 DEF Alone

LEMMA KnownReturns ==
  ASSUME Typed, Typed', QueueInv, KnownInv, Returns
  PROVE  KnownInv'
<1>1. PICK n \in Sent : (StoresDirect(n) \/ GivesUp(n)) /\ Sent' = Sent \ {n}
  BY DEF Returns
<1>2. /\ UNCHANGED <<accepted, direct, buffer, Writing>>
      /\ Pending' = Pending
  BY DEF Returns, Pending
<1>3. /\ Sent \cap Range(Pending) = {} /\ Sent \subseteq Known
      /\ Range(db) \subseteq Known /\ Range(db) \cap Sent = {}
  BY SentApart DEF KnownInv
<1>4. db \in Seq(Ids) /\ n \in Ids
  BY StoreAssumption DEF Typed, KnownInv, Ids
<1>5. Range(db') \subseteq Range(db) \cup {n}
  <2>1. db' = db \/ db' = Append(db, n)
    BY <1>1 DEF StoresDirect, GivesUp
  <2>2. Range(Append(db, n)) = Range(db) \cup {n}
    BY <1>4, RangeOfAppend
  <2> QED
    BY <2>1, <2>2
<1>6. \A i \in Ids : fate'[i] # "none" => i \in {n} \/ fate[i] # "none"
  BY <1>1, MarkedIn DEF StoresDirect, GivesUp
<1>7. Range(db') \subseteq Known /\ Range(db') \cap Sent' = {}
  BY <1>1, <1>3, <1>5
<1>8. {n} \subseteq Known /\ {n} \cap Range(Pending') = {} /\ {n} \cap Sent' = {}
  BY <1>1, <1>2, <1>3
<1>9. Clearing' # {} => Range(db') \cap Range(buffer') = {}
  BY <1>1, <1>2 DEF StoresDirect, GivesUp, KnownInv
<1>10. Sent' \subseteq Sent /\ Range(Pending') \subseteq Range(Pending)
  BY <1>1, <1>2
<1> QED
  BY <1>2, <1>6, <1>7, <1>8, <1>9, <1>10, KnownKept, Zenon

LEMMA KnownStep ==
  ASSUME Typed, Typed', QueueInv, KnownInv, Effect
  PROVE  KnownInv'
<1>1. /\ accepted \in Nat /\ direct \in Nat /\ N \in Nat /\ accepted <= N
      /\ accepted' \in 0..N
  BY StoreAssumption DEF Typed
<1>2. CASE Rests
  <2>1. /\ UNCHANGED <<Writing, buffer, db, fate, accepted, direct, Sent>> /\ Clearing' \subseteq Clearing
        /\ Pending' = Pending
    BY <1>2 DEF Rests, Still, Pending
  <2> QED
    BY <2>1 DEF KnownInv, Known
<1>3. CASE Sends
  <2> DEFINE n == N + direct'
  <2>1. /\ UNCHANGED <<Writing, buffer, db, fate, accepted>> /\ Clearing' \subseteq Clearing
        /\ direct' = direct + 1 /\ Sent' = Sent \cup {n} /\ Pending' = Pending
    BY <1>3 DEF Sends, Still, Pending
  <2>2. n \notin Known /\ Known \subseteq Known' /\ n \in (N + 1)..(N + direct')
        /\ (N + 1)..(N + direct) \subseteq (N + 1)..(N + direct')
    BY <1>1, <2>1 DEF Known
  <2> HIDE DEF n
  <2>3. Range(db') \subseteq Known' /\ Range(db') \cap Sent' = {}
    BY <2>1, <2>2 DEF KnownInv
  <2>4. Sent' \subseteq (N + 1)..(N + direct')
    BY <2>1, <2>2 DEF KnownInv
  <2>5. \A i \in Ids : fate'[i] # "none" => i \in Known' /\ i \notin Range(Pending') /\ i \notin Sent'
    BY <2>1, <2>2 DEF KnownInv
  <2>6. Clearing' # {} => Range(db') \cap Range(buffer') = {}
    BY <2>1 DEF KnownInv
  <2> QED
    BY <2>3, <2>4, <2>5, <2>6 DEF KnownInv
<1>4. CASE Takes
  <2> DEFINE a == accepted'
  <2>1. /\ accepted' = accepted + 1 /\ Store /\ UNCHANGED <<Writing, db, direct, Sent, Clearing>>
    BY <1>4 DEF Takes, Store
  <2>2. a \notin Known /\ Known \subseteq Known' /\ a \in Stored /\ a \notin Sent
    BY <1>1, <2>1 DEF Known, Stored, KnownInv
  <2>3. PICK b \in Seq(Stored) :
          /\ buffer' = Append(b, accepted') /\ Range(b) \subseteq Range(buffer)
          /\ \/ fate' = fate
             \/ /\ fate' = Mark({Head(buffer)}, "overflow")
                /\ Range(buffer) = {Head(buffer)} \cup Range(b) /\ Head(buffer) \notin Range(b)
    BY <2>1, TakesLast, Zenon
  <2>4. Range(buffer') = Range(b) \cup {a}
    BY <2>2, <2>3, RangeOfAppend
  <2> HIDE DEF a
  <2>5. /\ Range(Writing) \cap Range(buffer) = {} /\ Sent \cap Range(buffer) = {}
        /\ Range(Pending) \subseteq Known /\ Range(Pending) = Range(Writing) \cup Range(buffer)
        /\ Range(Pending') = Range(Writing) \cup Range(b) \cup {a}
    BY <2>1, <2>4, QueueParts, SentApart, PendingBecomes
  <2>6. ASSUME NEW i \in Ids, fate'[i] # "none"
        PROVE  i \in Known' /\ i \notin Range(Pending') /\ i \notin Sent'
    <3>1. CASE fate[i] # "none"
      BY <2>1, <2>2, <2>3, <2>5, <3>1 DEF KnownInv
    <3>2. CASE fate[i] = "none"
      <4>1. /\ fate' = Mark({Head(buffer)}, "overflow")
            /\ Range(buffer) = {Head(buffer)} \cup Range(b) /\ Head(buffer) \notin Range(b)
        BY <2>3, <2>6, <3>2
      <4>2. i = Head(buffer)
        BY <2>6, <3>2, <4>1, MarkedIn
      <4>3. i \in Range(buffer) /\ i \notin Range(b)
        BY <4>1, <4>2
      <4> QED
        BY <2>1, <2>2, <2>5, <4>3
    <3> QED
      BY <3>1, <3>2
  <2>7. Range(db') \subseteq Known' /\ Range(db') \cap Sent' = {}
        /\ Sent' \subseteq (N + 1)..(N + direct')
    BY <2>1, <2>2 DEF KnownInv
  <2>8. Clearing' # {} => Range(db') \cap Range(buffer') = {}
    BY <2>1, <2>2, <2>3, <2>4 DEF KnownInv
  <2> QED
    BY <2>6, <2>7, <2>8 DEF KnownInv
<1> QED
  BY <1>2, <1>3, <1>4, KnownWrites, KnownAlone, KnownReturns DEF Effect

\* Only what waits, or is sent, gets into the database.
LEMMA RowsCome ==
  ASSUME Typed, QueueInv, KnownInv, Effect
  PROVE  Range(db') \subseteq Range(db) \cup Range(Pending) \cup Sent
<1>1. /\ Writing \in Seq(Stored) /\ Writing \in Seq(Ids) /\ db \in Seq(Ids)
      /\ Range(Pending) = Range(Writing) \cup Range(buffer)
  BY StoredTypes, QueueParts DEF Typed
<1>2. CASE Rests \/ Sends \/ Takes
  BY <1>2 DEF Rests, Sends, Takes, Still, Store
<1>3. CASE Writes
  <2>1. CASE Drains \/ Rejects
    BY <2>1 DEF Drains, Rejects
  <2>2. CASE Inserts
    BY <1>1, <2>2, RangeConcatenation DEF Inserts
  <2>3. CASE InsertsOne
    <3>1. Head(Writing) \in Range(Writing) /\ Head(Writing) \in Ids
      BY <1>1, <2>3, HeadFirst, StoredTypes DEF InsertsOne
    <3>2. Range(db') = Range(db) \cup {Head(Writing)}
      BY <1>1, <2>3, <3>1, RangeOfAppend DEF InsertsOne
    <3> QED
      BY <1>1, <3>1, <3>2
  <2>4. ASSUME NEW n \in 0..Len(Writing), Fails(n)
        PROVE  Range(db') \subseteq Range(db) \cup Range(Pending) \cup Sent
    <3> DEFINE rows == SubSeq(Writing, 1, n)
    <3>1. db' = db \o rows
      BY <2>4 DEF Fails
    <3>2. rows \in Seq(Ids) /\ Range(rows) \subseteq Range(Writing)
      BY <1>1, RangeOfSubSeq
    <3> HIDE DEF rows
    <3> QED
      BY <1>1, <3>1, <3>2, RangeConcatenation
  <2> QED
    BY <1>3, <2>1, <2>2, <2>3, <2>4 DEF Writes
<1>4. CASE Alone
  <2>1. CASE EvictsBoth \/ EvictsRows
    BY <1>1, <2>1, ReadingOrder DEF EvictsBoth, EvictsRows
  <2>2. CASE Empties
    BY <2>2 DEF Empties
  <2>3. CASE Wipes
    BY <2>3, EmptyOrder DEF Wipes
  <2> QED
    BY <1>4, <2>1, <2>2, <2>3 DEF Alone
<1>5. CASE Returns
  <2>1. PICK n \in Sent : StoresDirect(n) \/ GivesUp(n)
    BY <1>5 DEF Returns
  <2>2. n \in Ids
    BY StoreAssumption DEF Typed, KnownInv, Ids
  <2>3. db' = db \/ db' = Append(db, n)
    BY <2>1 DEF StoresDirect, GivesUp
  <2>4. Range(Append(db, n)) = Range(db) \cup {n}
    BY <1>1, <2>2, RangeOfAppend
  <2> QED
    BY <2>1, <2>3, <2>4
<1> QED
  BY <1>2, <1>3, <1>4, <1>5 DEF Effect
-----------------------------------------------------------------------------
(* The invariant of the telegrams.                                         *)

StoreInv == ControlInv /\ DataInv /\ SendInv /\ QueueInv /\ KnownInv

LEMMA StoreInvInit == Init => StoreInv
<1> SUFFICES ASSUME Init PROVE StoreInv
  OBVIOUS
<1>1. ControlInv /\ DataInv /\ SendInv
  BY ControlInit, DataInit, SendInit
<1>2. buffer = <<>> /\ db = <<>> /\ Writing = <<>>
  BY DEF Init, Writing
<1>3. Pending = <<>>
  BY <1>2, EmptySeq, ConcatEmptySeq DEF Pending
<1>4. Sent = {} /\ Clearing = {}
  <2>1. \A t \in Tasks : batch[t] = <<>> /\ pc[t] # "clear"
    BY DEF Init
  <2> QED
    BY <2>1, EmptyOrder DEF Sent, Clearing
<1>5. QueueInv
  BY <1>3, EmptyOrder DEF QueueInv
<1>6. KnownInv
  BY <1>2, <1>3, <1>4, EmptyOrder DEF KnownInv, Init
<1> QED
  BY <1>1, <1>5, <1>6 DEF StoreInv

LEMMA StoreInvStep ==
  ASSUME StoreInv, [Next]_vars
  PROVE  StoreInv' /\ Effect /\ Typed /\ Typed'
<1>1. ControlInv /\ DataInv /\ SendInv /\ QueueInv /\ KnownInv
  BY DEF StoreInv
<1>2. ControlInv' /\ DataInv'
  BY <1>1, ControlStep, DataStep
<1>3. SendInv' /\ Effect /\ Typed /\ Typed'
  BY <1>1, <1>2, SendStep, StepEffect, TypedIs, TypedBecomes
<1>4. QueueInv' /\ KnownInv'
  BY <1>1, <1>3, QueueStep, KnownStep
<1> QED
  BY <1>2, <1>3, <1>4 DEF StoreInv

LEMMA StoreInductive == Spec => []StoreInv
<1>1. StoreInv /\ [Next]_vars => StoreInv'
  BY StoreInvStep
<1> QED
  BY <1>1, StoreInvInit, PTL DEF Spec

\* A telegram that was evicted, cleared, dropped, rejected by the database or reported to the
\* caller of store_many() as failed never turns up in the database later, whatever writes were
\* in flight: what is lost is neither in the buffer, nor in a batch, nor in a caller's hand.
THEOREM LostStaysLost == Spec => NoResurrection
<1>1. ASSUME StoreInv, [Next]_vars, NEW i \in Ids, fate[i] # "none", i \notin Range(db)
      PROVE  i \notin Range(db')
  <2>1. QueueInv /\ KnownInv /\ Typed /\ Effect
    BY <1>1, StoreInvStep DEF StoreInv
  <2>2. i \notin Range(Pending) /\ i \notin Sent
    BY <1>1, <2>1 DEF KnownInv
  <2> QED
    BY <1>1, <2>1, <2>2, RowsCome
<1>2. StoreInv /\ [Next]_vars =>
        [\A i \in Ids : fate[i] # "none" /\ i \notin Range(db) => i \notin Range(db')]_vars
  BY <1>1
<1> QED
  BY <1>2, StoreInductive, PTL DEF Spec, NoResurrection
-----------------------------------------------------------------------------
(* What a query sees.  From the moment its flush has started, everything   *)
(* in the buffer is newer than the call, and from the moment it reads,     *)
(* everything in the queue is.                                             *)

ReadInv ==
  /\ \A t \in Tasks : mark[t] <= accepted
  /\ \A t \in Writers : op[t] = "query" => \A i \in Range(buffer) : mark[t] < i
  /\ \A t \in Tasks : pc[t] = "read" => \A i \in Range(Pending) : mark[t] < i

\* What a step may do with a task that writes or reads after it.
Elsewhere(t)   == pc'[t] \notin {"write", "single", "read"}
Stays(t)       == pc'[t] = pc[t] /\ op'[t] = op[t] /\ mark'[t] = mark[t]
StillWrites(t) == t \in Writers /\ t \in Writers' /\ op'[t] = op[t] /\ mark'[t] = mark[t]
StartsWrite(t) == t \in Writers' /\ buffer' = <<>>
StartsRead(t)  ==
  /\ pc'[t] = "read" /\ op[t] = "query" /\ mark'[t] = mark[t]
  /\ Writers' = {} /\ buffer' = buffer
  /\ t \in Writers \/ buffer = <<>>

ReadMove(t) == Elsewhere(t) \/ Stays(t) \/ StillWrites(t) \/ StartsWrite(t) \/ StartsRead(t)

\* The others go on as before.
LEMMA OthersRead ==
  ASSUME NEW t \in Tasks, Others(t), ReadMove(t), \A u \in Tasks \ {t} : mark'[u] = mark[u]
  PROVE  \A u \in Tasks : ReadMove(u)
<1>1. ASSUME NEW u \in Tasks \ {t} PROVE ReadMove(u)
  BY DEF Others, ReadMove, Elsewhere, Stays
<1> QED
  BY <1>1

LEMMA FlushReads ==
  ASSUME ControlInv, DataInv, NEW t \in Tasks, FlushStep(t)
  PROVE  \A u \in Tasks : ReadMove(u)
<1>1. mark' = mark
  BY DEF FlushStep, FlushBegin, FlushNothing, FlushWritten, FlushDataError, FlushFailed,
         SingleDone, SingleFailed, Refuse, calls
<1>2. ASSUME Others(t), ReadMove(t) PROVE \A u \in Tasks : ReadMove(u)
  BY <1>1, <1>2, OthersRead
<1>3. ASSUME NEW q \in Seq(Tasks), AfterFlush(t, q), buffer' = buffer, Others(t),
             mutationOwner \in {t, NoTask}, t \in Writers \/ (writesAllowed => buffer = <<>>)
      PROVE  ReadMove(t)
  <2>1. Writers' = {}
    BY <1>3, NobodyWrites
  <2>2. pc'[t] \notin {"write", "single"}
    BY <2>1 DEF Writers
  <2>3. pc'[t] = "read" => op[t] = "query" /\ writesAllowed
    BY <1>3 DEF AfterFlush, Return, ResetTimer, CloseBackend, ControlInv, ControlTypeOK
  <2> QED
    BY <1>1, <1>3, <2>1, <2>2, <2>3 DEF ReadMove, Elsewhere, StartsRead
<1>4. lockQueue \in Seq(Tasks)
  BY DEF ControlInv, ControlTypeOK
<1>5. ASSUME pc[t] \in {"write", "single"}
      PROVE  /\ t \in Writers /\ mutationOwner = t /\ pc[t] \in Inside /\ CanEnter(t)
  BY <1>5, WritersOwn DEF Writers, CanEnter, Inside, Critical
<1>6. CASE FlushBegin(t)
  <2>1. /\ op' = op /\ pc' = [pc EXCEPT ![t] = "write"] /\ buffer' = <<>>
    BY <1>6 DEF FlushBegin
  <2>2. Others(t) /\ pc'[t] = "write"
    BY <2>1, PcMove
  <2> QED
    BY <1>2, <2>1, <2>2 DEF ReadMove, StartsWrite, Writers
<1>7. CASE FlushNothing(t)
  <2>1. /\ mutationOwner = NoTask /\ AfterFlush(t, Tail(lockQueue))
        /\ buffer' = buffer /\ UNCHANGED closing
        /\ op[t] \in {"optimize", "begin"} => writesAllowed
        /\ CanEnter(t) /\ lockQueue # <<>>
        /\ writesAllowed => buffer = <<>>
    BY <1>7 DEF FlushNothing, Admitted, Granted, Flushes, Gated, CanEnter, data, life
  <2>2. Others(t)
    BY <2>1, AfterFlushShape DEF Shape
  <2>3. Tail(lockQueue) \in Seq(Tasks)
    BY <1>4, <2>1, HeadTailProperties
  <2>4. ReadMove(t)
    BY <1>3, <2>1, <2>2, <2>3
  <2> QED
    BY <1>2, <2>2, <2>4
<1>8. CASE FlushWritten(t) \/ (SingleDone(t) /\ AfterFlush(t, lockQueue))
  <2>1. pc[t] \in {"write", "single"} /\ AfterFlush(t, lockQueue) /\ buffer' = buffer /\ UNCHANGED closing
    BY <1>8 DEF FlushWritten, SingleDone, life
  <2>2. Others(t)
    BY <1>5, <2>1, AfterFlushShape DEF Shape
  <2>3. ReadMove(t)
    BY <1>3, <1>4, <1>5, <2>1, <2>2
  <2> QED
    BY <1>2, <2>2, <2>3
<1>9. CASE FlushDataError(t)
  <2>1. pc[t] = "write" /\ pc' = [pc EXCEPT ![t] = "single"] /\ op' = op
    BY <1>9 DEF FlushDataError
  <2>2. Others(t) /\ pc'[t] = "single" /\ op'[t] = op[t]
    BY <2>1, PcMove
  <2> QED
    BY <1>1, <1>2, <1>5, <2>1, <2>2 DEF ReadMove, StillWrites, Writers
<1>10. CASE FlushFailed(t) \/ SingleFailed(t) \/ Refuse(t)
  <2>1. Return(t)
    BY <1>10 DEF FlushFailed, SingleFailed, Refuse
  <2>2. Others(t) /\ pc'[t] \notin {"write", "single"}
    BY <2>1, ReturnShape DEF Critical
  <2>3. pc'[t] # "read"
    BY <2>1 DEF Return, ControlInv, ControlTypeOK
  <2> QED
    BY <1>2, <2>2, <2>3 DEF ReadMove, Elsewhere
<1>11. CASE SingleDone(t) /\ UNCHANGED <<pc, op>>
  BY <1>1, <1>11 DEF ReadMove, Stays
<1>12. SingleDone(t) => AfterFlush(t, lockQueue) \/ UNCHANGED <<pc, op>>
  BY DEF SingleDone
<1> QED
  BY <1>6, <1>7, <1>8, <1>9, <1>10, <1>11, <1>12 DEF FlushStep

LEMMA HostReads ==
  ASSUME ControlInv, DataInv, NEW h \in Hosts, HostStep(h) \/ BackupStep(h) \/ CloseStep(h)
  PROVE  /\ \A u \in Tasks : ReadMove(u)
         /\ mark' = mark \/ \E m \in {0, accepted} : mark' = [mark EXCEPT ![h] = m]
<1>1. h \in Tasks /\ h # Loop /\ mark \in [Tasks -> 0..N]
  BY StoreAssumption DEF Tasks, DataInv, DataTypeOK
<1>2. mark' = mark \/ \E m \in {0, accepted} : mark' = [mark EXCEPT ![h] = m]
  <2>1. CASE \E o \in AllOps : Call(h, o)
    BY <2>1 DEF Call
  <2>2. CASE ReadDone(h)
    BY <2>2 DEF ReadDone
  <2>3. CASE ~(\E o \in AllOps : Call(h, o)) /\ ~ReadDone(h)
    BY <2>3
    DEF HostStep, BackupStep, CloseStep, calls, GateOpens, GateShut, Cancelled, EnterDirect,
        DirectWritten, DirectFailed, EnterEvict, EvictCancelled, EvictReturns, EnterClear, Enter,
        Cleared, Vacuumed, Raises, BeginRefused, BackupBegun, CallEnd, BackupEnded, CallInit,
        InitReturns, CallClose, CloseEndsBackup, CloseRaises, CloseEndedBackup, CloseEndFailed,
        LoopJoined, CloseDiscards, BackendEndedBackup, Disposed
  <2> QED
    BY <2>1, <2>2, <2>3
<1>3. \A u \in Tasks \ {h} : mark'[u] = mark[u]
  BY <1>1, <1>2
<1>4. ASSUME Others(h), pc'[h] \notin {"write", "single", "read"}
      PROVE  \A u \in Tasks : ReadMove(u)
  BY <1>1, <1>3, <1>4, OthersRead DEF ReadMove, Elsewhere
<1>5. ASSUME Return(h) PROVE \A u \in Tasks : ReadMove(u)
  <2>1. Others(h) /\ pc'[h] = "idle"
    BY <1>1, <1>5, ReturnShape DEF Return, ControlInv, ControlTypeOK
  <2> QED
    BY <1>4, <2>1
<1>6. ASSUME Idle(h) PROVE \A u \in Tasks : ReadMove(u)
  <2>1. Others(h) /\ pc'[h] = "idle"
    BY <1>1, <1>6, OwnMove DEF Idle
  <2> QED
    BY <1>4, <2>1
<1>7. ASSUME HostStep(h) PROVE \A u \in Tasks : ReadMove(u)
  <2>1. CASE \E o \in AllOps : Call(h, o)
    <3>1. PICK o \in AllOps : Call(h, o)
      BY <2>1
    <3>2. PICK next \in {"gate", "lock"} : pc' = [pc EXCEPT ![h] = next]
      BY <3>1 DEF Call
    <3>3. op' = [op EXCEPT ![h] = o]
      BY <3>1 DEF Call
    <3>4. Others(h) /\ pc'[h] = next
      BY <1>1, <3>2, <3>3, OwnMove
    <3> QED
      BY <1>4, <3>2, <3>4
  <2>2. CASE \/ GateOpens(h) \/ GateShut(h) \/ EnterDirect(h) \/ EnterEvict(h)
             \/ EnterClear(h) \/ EvictCancelled(h)
    <3>1. PICK next \in {"gate", "lock", "direct", "evict", "clear", "evictcancel"} :
            pc' = [pc EXCEPT ![h] = next]
      BY <2>2 DEF GateOpens, GateShut, EnterDirect, EnterEvict, EnterClear, EvictCancelled, Enter
    <3>2. op' = op
      BY <2>2 DEF GateOpens, GateShut, EnterDirect, EnterEvict, EnterClear, EvictCancelled, Enter
    <3>3. Others(h) /\ pc'[h] = next
      BY <1>1, <3>1, <3>2, PcMove
    <3> QED
      BY <1>4, <3>1, <3>3
  <2>3. CASE ReadDone(h) \/ Cancelled(h)
    BY <1>6, <2>3 DEF ReadDone, Cancelled
  <2>4. CASE \/ DirectWritten(h) \/ DirectFailed(h) \/ EvictReturns(h) \/ Cleared(h)
             \/ Vacuumed(h) \/ Raises(h)
    BY <1>5, <2>4 DEF DirectWritten, DirectFailed, EvictReturns, Cleared, Vacuumed, Raises
  <2> QED
    BY <1>7, <2>1, <2>2, <2>3, <2>4 DEF HostStep
<1>8. ASSUME BackupStep(h) \/ CloseStep(h) PROVE \A u \in Tasks : ReadMove(u)
  <2>1. CASE BeginRefused(h) \/ BackupBegun(h) \/ Disposed(h)
    BY <1>5, <2>1 DEF BeginRefused, BackupBegun, Disposed
  <2>2. CASE BackupEnded(h) \/ InitReturns(h) \/ CloseEndFailed(h)
    BY <1>6, <2>2 DEF BackupEnded, InitReturns, CloseEndFailed
  <2>3. CASE CallEnd(h) \/ CallInit(h) \/ CloseEndsBackup(h)
    <3>1. PICK next \in {"end", "init", "closeend"} : pc' = [pc EXCEPT ![h] = next]
      BY <2>3 DEF CallEnd, CallInit, CloseEndsBackup
    <3>2. PICK o \in {"end", "init", "close"} : op' = [op EXCEPT ![h] = o]
      BY <2>3 DEF CallEnd, CallInit, CloseEndsBackup
    <3>3. Others(h) /\ pc'[h] = next
      BY <1>1, <3>1, <3>2, OwnMove
    <3> QED
      BY <1>4, <3>1, <3>3
  <2>4. CASE CallClose(h) \/ CloseEndedBackup(h)
    <3>1. StopLoop(h)
      BY <2>4 DEF CallClose, CloseEndedBackup
    <3>2. Others(h) /\ pc'[h] \in {"join", "lock"}
      BY <3>1, StopMove
    <3> QED
      BY <1>4, <3>2
  <2>5. CASE CloseRaises(h)
    BY <2>5 DEF CloseRaises, calls, ReadMove, Stays
  <2>6. CASE LoopJoined(h) \/ CloseDiscards(h) \/ BackendEndedBackup(h)
    <3>1. CASE Return(h)
      BY <1>5, <3>1
    <3>2. CASE ~Return(h)
      <4>1. PICK next \in {"lock", "closebackup", "dispose"} : pc' = [pc EXCEPT ![h] = next]
        BY <2>6, <3>2 DEF LoopJoined, CloseDiscards, CloseBackend, BackendEndedBackup
      <4>2. op' = op
        BY <2>6, <3>2 DEF LoopJoined, CloseDiscards, CloseBackend, BackendEndedBackup
      <4>3. Others(h) /\ pc'[h] = next
        BY <1>1, <4>1, <4>2, PcMove
      <4> QED
        BY <1>4, <4>1, <4>3
    <3> QED
      BY <3>1, <3>2
  <2> QED
    BY <1>8, <2>1, <2>2, <2>3, <2>4, <2>5, <2>6 DEF BackupStep, CloseStep
<1> QED
  BY <1>2, <1>7, <1>8

LEMMA ReadMoves ==
  ASSUME ControlInv, DataInv, [Next]_vars
  PROVE  /\ \A t \in Tasks : ReadMove(t)
         /\ mark' = mark \/ \E h \in Hosts, m \in {0, accepted} : mark' = [mark EXCEPT ![h] = m]
<1>1. CASE Store \/ EvictionDone \/ EvictionFailed \/ UNCHANGED vars
  <2>1. UNCHANGED <<pc, op, mark>>
    BY <1>1 DEF Store, EvictionDone, EvictionFailed, vars, calls
  <2> QED
    BY <2>1 DEF ReadMove, Stays
<1>2. CASE Start \/ Tick
  <2>1. PICK next \in {"sleep", "lock"} : pc' = [pc EXCEPT ![Loop] = next]
    BY <1>2 DEF Start, Tick
  <2>2. op' = op /\ mark' = mark /\ Loop \in Tasks
    BY <1>2 DEF Start, Tick, calls, Tasks
  <2>3. Others(Loop) /\ pc'[Loop] = next
    BY <2>1, <2>2, PcMove
  <2>4. ReadMove(Loop)
    BY <2>1, <2>3 DEF ReadMove, Elsewhere
  <2> QED
    BY <2>2, <2>3, <2>4, OthersRead
<1>3. ASSUME NEW t \in Tasks, FlushStep(t) PROVE mark' = mark
  BY <1>3 DEF FlushStep, FlushBegin, FlushNothing, FlushWritten, FlushDataError, FlushFailed,
              SingleDone, SingleFailed, Refuse, calls
<1> QED
  BY <1>1, <1>2, <1>3, FlushReads, HostReads DEF Next

\* What comes into the queue is newer than all that was called before.
LEMMA QueueNews ==
  ASSUME Typed, Typed', QueueInv, Effect
  PROVE  /\ accepted <= accepted'
         /\ \A i \in Range(Pending') : i \in Range(Pending) \/ accepted < i
         /\ Writing # <<>> /\ Writing' # <<>> =>
              \A i \in Range(buffer') : i \in Range(buffer) \/ accepted < i
<1>1. /\ Writing \in Seq(Stored) /\ buffer \in Seq(Stored)
      /\ accepted \in Nat /\ accepted' \in Nat
      /\ Range(Pending) = Range(Writing) \cup Range(buffer)
      /\ Range(Pending') = Range(Writing') \cup Range(buffer')
  BY QueueParts, PendingBecomes DEF Typed
<1>2. CASE Rests \/ Sends \/ Returns
  BY <1>1, <1>2 DEF Rests, Sends, Returns, Still
<1>3. CASE Takes
  <2> DEFINE a == accepted'
  <2>1. a = accepted + 1 /\ Writing' = Writing /\ Store /\ a \in Stored
    BY <1>1, <1>3 DEF Takes, Store, Typed, Stored
  <2>2. PICK b \in Seq(Stored) : buffer' = Append(b, a) /\ Range(b) \subseteq Range(buffer)
    BY <2>1, TakesLast
  <2> HIDE DEF a
  <2>3. Range(buffer') = Range(b) \cup {a}
    BY <2>1, <2>2, RangeOfAppend
  <2>4. accepted < a
    BY <1>1, <2>1
  <2>5. a = accepted'
    BY DEF a
  <2> QED
    BY <1>1, <2>1, <2>2, <2>3, <2>4, <2>5
<1>4. CASE Writes
  <2>1. accepted' = accepted
    BY <1>4 DEF Writes
  <2>2. CASE Drains
    BY <1>1, <2>1, <2>2, EmptyOrder DEF Drains
  <2>3. CASE Inserts
    BY <1>1, <2>1, <2>3, EmptyOrder DEF Inserts
  <2>4. CASE InsertsOne \/ Rejects
    <3>1. Writing # <<>> /\ Writing' = Tail(Writing) /\ buffer' = buffer
      BY <2>4 DEF InsertsOne, Rejects
    <3>2. Range(Writing') \subseteq Range(Writing)
      BY <1>1, <3>1, HeadFirst
    <3> QED
      BY <1>1, <2>1, <3>1, <3>2
  <2>5. ASSUME NEW n \in 0..Len(Writing), Fails(n)
        PROVE  Writing' = <<>> /\ Range(buffer') \subseteq Range(Pending)
    <3>1. Writing' = <<>> /\ buffer' = Newest(Pending)
      BY <2>5 DEF Fails, Pending
    <3>2. Pending \in Seq(Stored)
      BY <1>1, QueueOf DEF Pending
    <3> QED
      BY <3>1, <3>2, NewestOrder
  <2> QED
    BY <1>1, <1>4, <2>1, <2>2, <2>3, <2>4, <2>5, EmptyOrder DEF Writes
<1>5. CASE Alone
  <2>1. Range(buffer') \subseteq Range(buffer) /\ Writing' = <<>> /\ accepted' = accepted
    <3>1. CASE EvictsBoth
      BY <1>1, <1>5, <3>1, ReadingOrder DEF Alone, EvictsBoth
    <3>2. CASE Empties
      BY <1>5, <3>2, EmptyOrder DEF Alone, Empties
    <3>3. CASE EvictsRows \/ Wipes
      BY <1>5, <3>3 DEF Alone, EvictsRows, Wipes
    <3> QED
      BY <1>5, <3>1, <3>2, <3>3 DEF Alone
  <2> QED
    BY <1>1, <2>1, EmptyOrder
<1> QED
  BY <1>2, <1>3, <1>4, <1>5 DEF Effect

LEMMA ReadStep ==
  ASSUME StoreInv, ReadInv, [Next]_vars
  PROVE  ReadInv'
<1>1. /\ ControlInv /\ DataInv /\ QueueInv /\ Typed /\ Effect
      /\ ControlInv' /\ DataInv' /\ Typed'
  BY StoreInvStep DEF StoreInv
<1>2. /\ \A t \in Tasks : ReadMove(t)
      /\ mark' = mark \/ \E h \in Hosts, m \in {0, accepted} : mark' = [mark EXCEPT ![h] = m]
  BY <1>1, ReadMoves
<1>3. /\ accepted <= accepted'
      /\ \A i \in Range(Pending') : i \in Range(Pending) \/ accepted < i
      /\ Writing # <<>> /\ Writing' # <<>> =>
           \A i \in Range(buffer') : i \in Range(buffer) \/ accepted < i
  BY <1>1, QueueNews
<1>4. /\ accepted \in Nat /\ accepted' \in Nat /\ mark \in [Tasks -> 0..N]
      /\ mark' \in [Tasks -> 0..N] /\ N \in Nat
  BY <1>1, StoreAssumption DEF Typed, DataInv, DataTypeOK
<1>5. ASSUME NEW t \in Tasks PROVE mark'[t] <= accepted'
  <2>1. mark'[t] \in {mark[t], 0, accepted}
    BY <1>2, <1>4
  <2>2. mark[t] <= accepted /\ mark[t] \in Nat
    BY <1>4 DEF ReadInv
  <2> QED
    BY <1>3, <1>4, <2>1, <2>2
<1>6. /\ \A t \in Writers : Writing # <<>>
      /\ \A t \in Writers' : Writing' # <<>>
      /\ Writers' = {} => Writing' = <<>>
  BY <1>1, WritingIs, WritingBecomes DEF DataInv, FlushBatch
<1>7. /\ Range(Pending) = Range(Writing) \cup Range(buffer)
      /\ Range(Pending') = Range(Writing') \cup Range(buffer')
      /\ Range(Pending) \subseteq Int /\ Range(Pending') \subseteq Int
  <2>1. /\ Range(Pending) = Range(Writing) \cup Range(buffer)
        /\ Range(Pending') = Range(Writing') \cup Range(buffer')
    BY <1>1, QueueParts, PendingBecomes
  <2>2. /\ Writing \in Seq(Stored) /\ buffer \in Seq(Stored)
        /\ Writing' \in Seq(Stored) /\ buffer' \in Seq(Stored)
    BY <1>1 DEF Typed
  <2> QED
    BY <2>1, <2>2, StoredTypes
<1>8. ASSUME NEW t \in Writers', op'[t] = "query", NEW i \in Range(buffer')
      PROVE  mark'[t] < i
  <2>1. t \in Tasks /\ ~Elsewhere(t) /\ ~StartsRead(t)
    BY <1>8 DEF Writers, Elsewhere, StartsRead
  <2>2. CASE StartsWrite(t)
    BY <1>8, <2>2, EmptyOrder DEF StartsWrite
  <2>3. CASE Stays(t) \/ StillWrites(t)
    <3>1. t \in Writers /\ op[t] = "query" /\ mark'[t] = mark[t]
      BY <1>8, <2>3 DEF Stays, StillWrites, Writers
    <3>2. i \in Range(buffer) \/ accepted < i
      BY <1>3, <1>6, <1>8, <3>1
    <3>3. mark[t] \in Nat /\ mark[t] <= accepted /\ i \in Int
      BY <1>4, <1>7, <1>8, <2>1 DEF ReadInv
    <3>4. i \in Range(buffer) => mark[t] < i
      BY <3>1 DEF ReadInv
    <3> QED
      BY <1>4, <3>1, <3>2, <3>3, <3>4
  <2> QED
    BY <1>2, <2>1, <2>2, <2>3 DEF ReadMove
<1>9. ASSUME NEW t \in Tasks, pc'[t] = "read", NEW i \in Range(Pending')
      PROVE  mark'[t] < i
  <2>1. ~Elsewhere(t) /\ ~StillWrites(t) /\ ~StartsWrite(t)
    BY <1>9 DEF Writers, Elsewhere, StillWrites, StartsWrite
  <2>2. CASE Stays(t)
    <3>1. pc[t] = "read" /\ mark'[t] = mark[t]
      BY <1>9, <2>2 DEF Stays
    <3>2. mark[t] \in Nat /\ mark[t] <= accepted /\ i \in Int
      BY <1>4, <1>7, <1>9 DEF ReadInv
    <3>3. i \in Range(Pending) => mark[t] < i
      BY <3>1 DEF ReadInv
    <3> QED
      BY <1>3, <1>4, <1>9, <3>1, <3>2, <3>3
  <2>3. CASE StartsRead(t)
    <3>1. i \in Range(buffer) /\ mark'[t] = mark[t] /\ t \in Writers /\ op[t] = "query"
      BY <1>6, <1>7, <1>9, <2>3, EmptyOrder DEF StartsRead
    <3> QED
      BY <3>1 DEF ReadInv
  <2> QED
    BY <1>2, <2>1, <2>2, <2>3 DEF ReadMove
<1> QED
  BY <1>5, <1>8, <1>9 DEF ReadInv

\* A query, get_stats() or get_last_unique_telegrams() that flushes first finds every telegram
\* that store() had accepted when it was called, unless a documented loss took it - however
\* long the read waits, whatever flush it waited for, and whatever fails in the meantime.
THEOREM QueriesSeeWrites == Spec => []ReadYourWrites
<1>1. Init => ReadInv
  <2> SUFFICES ASSUME Init PROVE ReadInv
    OBVIOUS
  <2>1. \A t \in Tasks : mark[t] = 0 /\ pc[t] \in {"none", "idle"}
    BY DEF Init
  <2>2. accepted = 0
    BY DEF Init
  <2> QED
    BY <2>1, <2>2 DEF ReadInv, Writers
<1>2. StoreInv /\ ReadInv /\ [Next]_vars => ReadInv'
  BY ReadStep
<1>3. StoreInv /\ ReadInv => ReadYourWrites
  <2> SUFFICES ASSUME StoreInv, ReadInv, NEW h \in Hosts, pc[h] = "read", NEW i \in 1..mark[h],
                      fate[i] = "none"
               PROVE  i \in Range(db)
    BY DEF ReadYourWrites
  <2>1. ControlInv /\ DataInv /\ QueueInv /\ Typed /\ h \in Tasks
    BY TypedIs DEF StoreInv, Tasks
  <2>2. mark[h] \in Nat /\ mark[h] <= accepted /\ accepted \in Nat
    BY <2>1 DEF ReadInv, DataInv, DataTypeOK
  <2>3. i \in Held
    BY <2>1, <2>2 DEF DataInv, NoSilentLoss
  <2>4. InFlight = Range(Writing)
    <3>1. CASE Writers = {}
      BY <2>1, <3>1, WritingIs, EmptyOrder DEF InFlight
    <3>2. ASSUME NEW t \in Writers PROVE InFlight = Range(Writing)
      <4>1. Writing = batch[t] /\ Writers = {t}
        BY <2>1, WritingIs
      <4> QED
        BY <4>1 DEF InFlight
    <3> QED
      BY <3>1, <3>2
  <2>5. i \notin Range(Pending)
    BY <2>1, <2>2 DEF ReadInv
  <2>6. Range(Pending) = Range(Writing) \cup Range(buffer)
    BY <2>1, QueueParts
  <2> QED
    BY <2>3, <2>4, <2>5, <2>6 DEF Held
<1> QED
  BY <1>1, <1>2, <1>3, StoreInductive, PTL DEF Spec
-----------------------------------------------------------------------------
(* How often a telegram is in the database.                                *)

Places(s, i) == {p \in DOMAIN s : s[p] = i}
Times(s, i)  == Cardinality(Places(s, i))

LEMMA PlacesFinite ==
  ASSUME NEW S, NEW s \in Seq(S), NEW i
  PROVE  IsFiniteSet(Places(s, i)) /\ Times(s, i) \in Nat /\ (i \notin Range(s) => Times(s, i) = 0)
<1>1. Len(s) \in Nat /\ DOMAIN s = 1..Len(s)
  BY LenProperties
<1>2. IsFiniteSet(1..Len(s))
  <2>1. 1 \in Int /\ Len(s) \in Int
    BY <1>1
  <2> QED
    BY <2>1, FS_Interval
<1>3. Places(s, i) \in SUBSET (1..Len(s))
  BY <1>1 DEF Places
<1>4. IsFiniteSet(Places(s, i))
  BY <1>2, <1>3, FS_Subset
<1>5. i \notin Range(s) => Places(s, i) = {}
  BY DEF Places, Range
<1> QED
  BY <1>4, <1>5, FS_CardinalityType, FS_EmptySet DEF Times

\* A comprehension repeats nothing.
LEMMA TimesReading ==
  ASSUME NEW S, NEW s \in Seq(S), NEW drop, NEW at \in Keeping(s, drop), NEW i
  PROVE  Times(Reading(s, at), i) <= Times(s, i)
<1> DEFINE r == Reading(s, at)
           f == [p \in Places(r, i) |-> at[p]]
<1>1. /\ DOMAIN r = DOMAIN at
      /\ \A p \in DOMAIN at : r[p] = s[at[p]] /\ at[p] \in DOMAIN s
      /\ \A p, q \in DOMAIN at : p < q => at[p] < at[q]
  BY DEF Reading, Keeping
<1>2. DOMAIN s \subseteq Int /\ DOMAIN r \subseteq Int
  <2>1. r \in Seq(S)
    BY ReadingType
  <2>2. DOMAIN r = 1..Len(r) /\ DOMAIN s = 1..Len(s)
    BY <2>1, LenProperties
  <2> QED
    BY <2>2
<1> HIDE DEF r
<1>3. \A p \in Places(r, i) : p \in DOMAIN at /\ at[p] \in Places(s, i)
  BY <1>1 DEF Places
<1>4. \A p, q \in Places(r, i) : at[p] = at[q] => p = q
  <2> SUFFICES ASSUME NEW p \in Places(r, i), NEW q \in Places(r, i), at[p] = at[q], p # q
               PROVE  FALSE
    OBVIOUS
  <2>1. p \in Int /\ q \in Int /\ at[p] \in Int /\ p \in DOMAIN at /\ q \in DOMAIN at
    BY <1>1, <1>2, <1>3
  <2>2. p < q \/ q < p
    BY <2>1
  <2> QED
    BY <1>1, <2>1, <2>2
<1>5. f \in Injection(Places(r, i), Places(s, i))
  BY <1>3, <1>4 DEF Injection, IsInjective
<1> HIDE DEF f
<1> QED
  BY <1>5, PlacesFinite, FS_Injection DEF Times, r

\* Rows without duplicates add at most one of each.
LEMMA TimesConcat ==
  ASSUME NEW S, NEW s \in Seq(S), NEW r \in Seq(S), NEW i,
         \A p, q \in DOMAIN r : r[p] = r[q] => p = q
  PROVE  Times(s \o r, i) <= Times(s, i) + (IF i \in Range(r) THEN 1 ELSE 0)
<1> DEFINE a == s \o r
<1>1. /\ a \in Seq(S) /\ Len(a) = Len(s) + Len(r) /\ Len(s) \in Nat /\ Len(r) \in Nat
      /\ DOMAIN s = 1..Len(s) /\ DOMAIN r = 1..Len(r) /\ DOMAIN a = 1..Len(a)
      /\ \A p \in 1..Len(s) + Len(r) : a[p] = IF p <= Len(s) THEN s[p] ELSE r[p - Len(s)]
  BY ConcatProperties, LenProperties
<1> HIDE DEF a
<1>2. /\ IsFiniteSet(Places(s, i)) /\ Times(s, i) \in Nat
      /\ IsFiniteSet(Places(a, i)) /\ Times(a, i) \in Nat
  BY <1>1, PlacesFinite
<1>3. \A p \in Places(a, i) : p \in Places(s, i) \/ (p - Len(s) \in Places(r, i) /\ p \in Int)
  BY <1>1 DEF Places
<1>4. CASE i \notin Range(r)
  <2>1. Places(r, i) = {}
    BY <1>4 DEF Places, Range
  <2>2. Places(a, i) \in SUBSET Places(s, i)
    BY <1>3, <2>1
  <2>3. Times(a, i) <= Times(s, i)
    BY <1>2, <2>2, FS_Subset DEF Times
  <2> QED
    BY <1>2, <1>4, <2>3 DEF a
<1>5. CASE i \in Range(r)
  <2>1. PICK k \in DOMAIN r : r[k] = i
    BY <1>5 DEF Range
  <2> DEFINE x == Len(s) + k
  <2>2. \A p \in Places(r, i) : p = k
    BY <2>1 DEF Places
  <2>3. \A p \in Places(a, i) : p \in Places(s, i) \/ p = x
    BY <1>1, <1>3, <2>2
  <2> HIDE DEF x
  <2>4. Places(a, i) \in SUBSET (Places(s, i) \cup {x})
    BY <2>3
  <2>5. /\ IsFiniteSet(Places(s, i) \cup {x})
        /\ Cardinality(Places(s, i) \cup {x}) <= Times(s, i) + 1
        /\ Cardinality(Places(s, i) \cup {x}) \in Nat
    <3> DEFINE P == Places(s, i)
    <3>1. IsFiniteSet(P) /\ Cardinality(P) = Times(s, i)
      BY <1>2 DEF Times
    <3> HIDE DEF P
    <3>2. /\ IsFiniteSet(P \cup {x})
          /\ Cardinality(P \cup {x}) = IF x \in P THEN Cardinality(P) ELSE Cardinality(P) + 1
      BY <3>1, FS_AddElement
    <3>3. /\ Cardinality(P \cup {x}) <= Times(s, i) + 1
          /\ Cardinality(P \cup {x}) \in Nat
      BY <1>2, <3>1, <3>2
    <3> QED
      BY <3>2, <3>3 DEF P
  <2>6. Times(a, i) <= Cardinality(Places(s, i) \cup {x})
    BY <2>4, <2>5, FS_Subset DEF Times
  <2>7. Times(a, i) <= Times(s, i) + 1
    BY <1>2, <2>5, <2>6
  <2> QED
    BY <1>5, <2>7 DEF a
<1> QED
  BY <1>4, <1>5

\* What is in order has no duplicates.
LEMMA OrderOnce ==
  ASSUME NEW s \in Seq(Stored), InOrder(s)
  PROVE  \A p, q \in DOMAIN s : s[p] = s[q] => p = q
<1>1. /\ Len(s) \in Nat /\ DOMAIN s = 1..Len(s)
      /\ \A p \in DOMAIN s : p \in Int /\ s[p] \in Stored /\ s[p] \in Int
  <2>1. Len(s) \in Nat /\ DOMAIN s = 1..Len(s) /\ s \in [1..Len(s) -> Stored]
    BY LenProperties
  <2>2. \A p \in DOMAIN s : p \in Int /\ s[p] \in Stored
    BY <2>1
  <2> QED
    BY <2>1, <2>2 DEF Stored
<1> SUFFICES ASSUME NEW p \in DOMAIN s, NEW q \in DOMAIN s, s[p] = s[q], p # q
             PROVE  FALSE
  OBVIOUS
<1>2. p < q \/ q < p
  BY <1>1
<1> QED
  BY <1>1, <1>2 DEF InOrder
-----------------------------------------------------------------------------
(* Rows are in the order of arrival, each once.                            *)

LEMMA OrderOf ==
  ASSUME NEW d \in Seq(Ids), NEW p \in Seq(Stored)
  PROVE  InOrder(d \o p) <=>
           InOrder(d) /\ InOrder(p) /\ \A i \in Range(d) \cap Stored, j \in Range(p) : i < j
<1>1. p \in Seq(Ids) /\ Range(p) \cap Stored = Range(p)
  BY StoredTypes
<1> QED
  BY <1>1, InOrderConcat

LEMMA PendingTypes ==
  /\ Typed => Pending \in Seq(Stored)
  /\ Typed' => Pending' \in Seq(Stored)
<1>1. Typed => Pending \in Seq(Stored)
  BY QueueOf DEF Typed, Pending
<1>2. ASSUME Typed' PROVE Pending' \in Seq(Stored)
  <2>1. Writing' \in Seq(Stored) /\ buffer' \in Seq(Stored)
    BY <1>2 DEF Typed
  <2>2. Writing' \o buffer' \in Seq(Stored)
    BY <2>1, QueueOf
  <2> QED
    BY <2>2 DEF Pending
<1> QED
  BY <1>1, <1>2

\* What both parts of the order say, in the words of the proof.
Waits(i) == IF i \in Range(Pending) THEN 1 ELSE 0

LEMMA OnceNow ==
  ASSUME Typed, InOrderOnce
  PROVE  /\ ambiguous = 0 => InOrder(db) /\ \A i \in Range(db) \cap Stored, j \in Range(Pending) : i < j
         /\ \A i \in Ids : Times(db, i) + Waits(i) <= 1 + ambiguous
<1>1. db \in Seq(Ids) /\ Pending \in Seq(Stored)
  BY PendingTypes DEF Typed
<1> QED
  BY <1>1, OrderOf DEF InOrderOnce, Times, Places, Waits

LEMMA OnceThen ==
  ASSUME Typed', QueueInv',
         ambiguous' = 0 => InOrder(db') /\ \A i \in Range(db') \cap Stored, j \in Range(Pending') : i < j,
         \A i \in Ids : Times(db', i) + (IF i \in Range(Pending') THEN 1 ELSE 0) <= 1 + ambiguous'
  PROVE  InOrderOnce'
<1>1. db' \in Seq(Ids) /\ Pending' \in Seq(Stored) /\ InOrder(Pending')
  BY PendingTypes DEF Typed, QueueInv, InOrder
<1>2. ambiguous' = 0 => InOrder(db' \o Pending')
  BY <1>1, OrderOf
<1>3. \A i \in Ids : Cardinality({p \in DOMAIN db' : db'[p] = i})
                       + (IF i \in Range(Pending') THEN 1 ELSE 0) <= 1 + ambiguous'
  BY DEF Times, Places
<1>4. (ambiguous' = 0 => InOrder(db' \o Pending')) <=> (ambiguous = 0 => InOrder(db \o Pending))'
  BY DEF InOrder
<1> QED
  BY <1>2, <1>3, <1>4 DEF InOrderOnce, Range

\* Rows went away, or stayed; what is new in the queue is newer than all rows.
LEMMA OrderKept ==
  ASSUME StoreInv, InOrderOnce, Typed, Typed', QueueInv', ambiguous' = ambiguous,
         \A i \in Range(Pending') : i \in Range(Pending) \/ accepted < i,
         InOrder(db) => InOrder(db'), Range(db') \subseteq Range(db),
         \A i \in Ids : Times(db', i) <= Times(db, i)
  PROVE  InOrderOnce'
<1>1. /\ db \in Seq(Ids) /\ db' \in Seq(Ids) /\ ambiguous \in Nat /\ accepted \in Nat
      /\ direct \in Nat /\ N \in Nat /\ accepted <= N
  BY StoreAssumption DEF Typed
<1>2. \A i \in Ids : Times(db, i) \in Nat /\ Times(db', i) \in Nat
                     /\ (i \notin Range(db) => Times(db, i) = 0)
  BY <1>1, PlacesFinite
<1>3. \A i \in Range(db) : i \in Stored => i <= accepted
  BY <1>1 DEF StoreInv, KnownInv, Known, Stored
<1>4. Range(Pending') \subseteq Stored /\ Stored \subseteq Int /\ Stored \subseteq Ids
  BY PendingTypes, StoredTypes
<1>5. ASSUME ambiguous = 0, NEW i \in Range(db') \cap Stored, NEW j \in Range(Pending')
      PROVE  i < j
  <2>1. i \in Range(db) /\ i \in Int /\ j \in Int /\ i <= accepted
    BY <1>3, <1>4
  <2>2. j \in Range(Pending) => i < j
    BY <1>5, <2>1, OnceNow
  <2> QED
    BY <1>1, <2>1, <2>2
<1>6. ASSUME NEW i \in Ids
      PROVE  Times(db', i) + (IF i \in Range(Pending') THEN 1 ELSE 0) <= 1 + ambiguous
  <2>1. Times(db, i) + Waits(i) <= 1 + ambiguous
    BY OnceNow
  <2>2. CASE i \in Range(Pending) \/ i \notin Range(Pending')
    BY <1>1, <1>2, <2>1, <2>2 DEF Waits
  <2>3. CASE i \in Range(Pending') /\ accepted < i
    <3>1. i \notin Range(db)
      BY <1>1, <1>3, <1>4, <2>3
    <3> QED
      BY <1>1, <1>2, <2>3, <3>1
  <2> QED
    BY <2>2, <2>3
<1>7. ambiguous' = 0 => InOrder(db')
  BY OnceNow
<1> QED
  BY <1>5, <1>6, <1>7, OnceThen

\* The front of the queue became rows.
LEMMA OrderMoved ==
  ASSUME StoreInv, InOrderOnce, Typed, Typed', QueueInv', ambiguous' = ambiguous,
         NEW r \in Seq(Stored), db' = db \o r, InOrder(r),
         Range(r) \subseteq Range(Pending), Range(Pending') \subseteq Range(Pending),
         \A i \in Range(r), j \in Range(Pending') : i < j
  PROVE  InOrderOnce'
<1>1. db \in Seq(Ids) /\ db' \in Seq(Ids) /\ r \in Seq(Ids) /\ ambiguous \in Nat
  BY StoredTypes DEF Typed
<1>2. Range(r) \subseteq Stored /\ Stored \subseteq Int /\ Range(db') = Range(db) \cup Range(r)
  BY <1>1, StoredTypes, RangeConcatenation
<1>3. ambiguous = 0 => InOrder(db')
  <2>1. InOrder(db \o r) <=>
          InOrder(db) /\ InOrder(r) /\ \A i \in Range(db) \cap Stored, j \in Range(r) : i < j
    BY <1>1, OrderOf
  <2> QED
    BY <2>1, OnceNow
<1>4. ambiguous = 0 => \A i \in Range(db') \cap Stored, j \in Range(Pending') : i < j
  BY <1>2, OnceNow
<1>5. ASSUME NEW i \in Ids
      PROVE  Times(db', i) + (IF i \in Range(Pending') THEN 1 ELSE 0) <= 1 + ambiguous
  <2>1. Times(db, i) + Waits(i) <= 1 + ambiguous
    BY OnceNow
  <2>2. Times(db, i) \in Nat /\ Times(db', i) \in Nat
    BY <1>1, PlacesFinite
  <2>3. Times(db', i) <= Times(db, i) + (IF i \in Range(r) THEN 1 ELSE 0)
    BY <1>1, OrderOnce, TimesConcat
  <2>4. ~(i \in Range(r) /\ i \in Range(Pending'))
    <3>1. i \in Range(r) /\ i \in Range(Pending') => i < i /\ i \in Int
      BY <1>2
    <3> QED
      BY <3>1
  <2> QED
    BY <1>1, <2>1, <2>2, <2>3, <2>4 DEF Waits
<1> QED
  BY <1>3, <1>4, <1>5, OnceThen

\* An effect on the queue and on the rows, as far as their order goes.
LEMMA OrderWrites ==
  ASSUME StoreInv, InOrderOnce, Typed, Typed', QueueInv', Writes,
         \A i \in Range(Pending') : i \in Range(Pending) \/ accepted < i
  PROVE  InOrderOnce'
<1>1. /\ Writing \in Seq(Stored) /\ Writing \in Seq(Ids) /\ buffer \in Seq(Stored)
      /\ db \in Seq(Ids) /\ db' \in Seq(Ids) /\ ambiguous \in Nat
  BY StoredTypes DEF Typed
<1>2. /\ InOrder(Writing) /\ \A i \in Range(Writing), j \in Range(buffer) : i < j
      /\ Range(Pending) = Range(Writing) \cup Range(buffer)
      /\ Range(Pending') = Range(Writing') \cup Range(buffer')
  BY QueueParts, PendingBecomes DEF StoreInv
<1>3. ASSUME db' = db, ambiguous' = ambiguous PROVE InOrderOnce'
  <2>1. \A i \in Ids : Times(db', i) <= Times(db, i)
    BY <1>1, <1>3, PlacesFinite
  <2>2. (InOrder(db) => InOrder(db')) /\ Range(db') \subseteq Range(db)
    BY <1>3
  <2> QED
    BY <1>3, <2>1, <2>2, OrderKept
<1>4. CASE Drains \/ Rejects
  BY <1>3, <1>4 DEF Drains, Rejects
<1>5. CASE Inserts
  <2>1. db' = db \o Writing /\ ambiguous' = ambiguous /\ Range(Pending') = Range(buffer)
    BY <1>2, <1>5, EmptyOrder DEF Inserts
  <2>2. /\ Range(Writing) \subseteq Range(Pending) /\ Range(Pending') \subseteq Range(Pending)
        /\ \A i \in Range(Writing), j \in Range(Pending') : i < j
    BY <1>2, <2>1
  <2> QED
    BY <1>1, <1>2, <2>1, <2>2, OrderMoved
<1>6. CASE InsertsOne
  <2> DEFINE x == Head(Writing)
             r == <<x>>
  <2>1. /\ Writing # <<>> /\ Writing' = Tail(Writing) /\ buffer' = buffer
        /\ db' = Append(db, x) /\ ambiguous' = ambiguous
    BY <1>6 DEF InsertsOne
  <2>2. /\ x \in Stored /\ Range(Writing) = {x} \cup Range(Writing')
        /\ \A i \in Range(Writing') : x < i
    BY <1>1, <1>2, <2>1, HeadFirst
  <2> HIDE DEF x
  <2>3. r \in Seq(Stored) /\ InOrder(r) /\ Range(r) = {x}
    BY <2>2 DEF InOrder, Range
  <2>4. db' = db \o r
    BY <1>1, <2>1, <2>2, StoredTypes, AppendIsConcat
  <2> HIDE DEF r
  <2>5. Range(r) \subseteq Range(Pending) /\ Range(Pending') \subseteq Range(Pending)
    BY <1>2, <2>1, <2>2, <2>3
  <2>6. \A i \in Range(r), j \in Range(Pending') : i < j
    BY <1>2, <2>1, <2>2, <2>3
  <2> QED
    BY <2>1, <2>3, <2>4, <2>5, <2>6, OrderMoved
<1>7. ASSUME NEW n \in 0..Len(Writing), Fails(n) PROVE InOrderOnce'
  <2> DEFINE r == SubSeq(Writing, 1, n)
  <2>1. /\ db' = db \o r /\ ambiguous' = IF n = 0 THEN ambiguous ELSE ambiguous + 1
        /\ Writing' = <<>> /\ buffer' = Newest(Pending)
    BY <1>7 DEF Fails, Pending
  <2>2. r \in Seq(Stored) /\ Range(r) \subseteq Range(Writing) /\ InOrder(r)
    BY <1>1, <1>2, RangeOfSubSeq
  <2>3. Range(Pending') \subseteq Range(Pending)
    BY <1>2, <2>1, PendingTypes, NewestOrder, EmptyOrder
  <2>4. n = 0 => db' = db
    <3>1. n = 0 => r = <<>>
      BY <1>1, SubSeqEmpty
    <3> QED
      BY <1>1, <2>1, <3>1, ConcatEmptySeq
  <2> HIDE DEF r
  <2>5. CASE n = 0
    BY <1>3, <2>1, <2>4, <2>5
  <2>6. CASE n # 0
    <3>1. ambiguous' = ambiguous + 1 /\ r \in Seq(Ids)
      BY <2>1, <2>2, <2>6, StoredTypes
    <3>2. ASSUME NEW i \in Ids
          PROVE  Times(db', i) + (IF i \in Range(Pending') THEN 1 ELSE 0) <= 1 + ambiguous'
      <4>1. Times(db, i) + Waits(i) <= 1 + ambiguous
        BY OnceNow
      <4>2. Times(db, i) \in Nat /\ Times(db', i) \in Nat
        BY <1>1, PlacesFinite
      <4>3. Times(db', i) <= Times(db, i) + (IF i \in Range(r) THEN 1 ELSE 0)
        BY <1>1, <2>1, <2>2, <3>1, OrderOnce, TimesConcat
      <4>4. i \in Range(r) \/ i \in Range(Pending') => i \in Range(Pending)
        BY <1>2, <2>2, <2>3
      <4> QED
        BY <1>1, <3>1, <4>1, <4>2, <4>3, <4>4 DEF Waits
    <3>3. ambiguous' # 0
      BY <1>1, <3>1
    <3> QED
      BY <3>2, <3>3, OnceThen
  <2> QED
    BY <2>5, <2>6
<1> QED
  BY <1>4, <1>5, <1>6, <1>7 DEF Writes

LEMMA OrderAlone ==
  ASSUME StoreInv, InOrderOnce, Typed, Typed', QueueInv', Alone,
         \A i \in Range(Pending') : i \in Range(Pending) \/ accepted < i
  PROVE  InOrderOnce'
<1>1. db \in Seq(Ids) /\ db' \in Seq(Ids) /\ ambiguous' = ambiguous
  BY DEF Typed, Alone
<1>2. \A i \in Ids : Times(db, i) \in Nat
  BY <1>1, PlacesFinite
<1>3. CASE EvictsBoth \/ EvictsRows
  <2>1. PICK at \in Keeping(db, Outdated) : db' = Reading(db, at)
    BY <1>3 DEF EvictsBoth, EvictsRows
  <2>2. \A i \in Ids : Times(db', i) <= Times(db, i)
    BY <1>1, <2>1, TimesReading
  <2>3. (InOrder(db) => InOrder(db')) /\ Range(db') \subseteq Range(db)
    BY <1>1, <2>1, ReadingOrder
  <2> QED
    BY <1>1, <2>2, <2>3, OrderKept
<1>4. CASE Empties
  <2>1. db' = db
    BY <1>4 DEF Empties
  <2>2. \A i \in Ids : Times(db', i) <= Times(db, i)
    BY <1>2, <2>1
  <2> QED
    BY <1>1, <2>1, <2>2, OrderKept
<1>5. CASE Wipes
  <2>1. db' = <<>>
    BY <1>5 DEF Wipes
  <2>2. InOrder(db') /\ Range(db') = {}
    BY <2>1, EmptyOrder
  <2>3. \A i \in Ids : Times(db', i) = 0
    BY <1>1, <2>2, PlacesFinite
  <2>4. \A i \in Ids : Times(db', i) <= Times(db, i)
    BY <1>2, <2>3
  <2> QED
    BY <1>1, <2>2, <2>4, OrderKept
<1> QED
  BY <1>3, <1>4, <1>5 DEF Alone

LEMMA OrderReturns ==
  ASSUME StoreInv, InOrderOnce, Typed, Typed', QueueInv', Returns
  PROVE  InOrderOnce'
<1>1. PICK n \in Sent : StoresDirect(n) \/ GivesUp(n)
  BY DEF Returns
<1>2. Pending' = Pending /\ db \in Seq(Ids) /\ db' \in Seq(Ids) /\ ambiguous \in Nat
  BY DEF Returns, Pending, Typed
<1>3. n \in Ids /\ n \notin Stored /\ n \notin Range(db) /\ n \notin Range(Pending)
  <2>1. n \in N + 1 .. N + direct /\ n \notin Range(db)
    BY DEF StoreInv, KnownInv
  <2>2. n \notin Range(Pending)
    BY SentApart DEF StoreInv
  <2> QED
    BY <2>1, <2>2, StoreAssumption DEF Typed, Ids, Stored
<1>4. \A i \in Ids : Times(db, i) \in Nat /\ Times(db', i) \in Nat
  BY <1>2, PlacesFinite
<1>5. CASE db' = db /\ ambiguous' = ambiguous
  <2>1. (InOrder(db) => InOrder(db')) /\ Range(db') \subseteq Range(db)
    BY <1>5
  <2>2. \A i \in Ids : Times(db', i) <= Times(db, i)
    BY <1>4, <1>5
  <2>3. \A i \in Range(Pending') : i \in Range(Pending) \/ accepted < i
    BY <1>2
  <2> QED
    BY <1>5, <2>1, <2>2, <2>3, OrderKept
<1>6. CASE db' = Append(db, n) /\ ambiguous' \in {ambiguous, ambiguous + 1}
  <2> DEFINE r == <<n>>
  <2>1. /\ r \in Seq(Ids) /\ Range(r) = {n} /\ InOrder(r)
        /\ \A p, q \in DOMAIN r : r[p] = r[q] => p = q
    BY <1>3 DEF InOrder, Range
  <2>2. db' = db \o r
    BY <1>2, <1>3, <1>6, AppendIsConcat
  <2> HIDE DEF r
  <2>3. Range(db') = Range(db) \cup {n}
    BY <1>2, <2>1, <2>2, RangeConcatenation
  <2>4. ambiguous' = 0 => ambiguous = 0
    BY <1>2, <1>6
  <2>5. ambiguous = 0 => InOrder(db')
    <3>1. InOrder(db \o r) <=>
            /\ InOrder(db) /\ InOrder(r)
            /\ \A i \in Range(db) \cap Stored, j \in Range(r) \cap Stored : i < j
      BY <1>2, <2>1, InOrderConcat
    <3>2. Range(r) \cap Stored = {}
      BY <1>3, <2>1
    <3> QED
      BY <2>1, <2>2, <3>1, <3>2, OnceNow
  <2>6. ambiguous = 0 => \A i \in Range(db') \cap Stored, j \in Range(Pending') : i < j
    BY <1>2, <1>3, <2>3, OnceNow
  <2>7. ASSUME NEW i \in Ids
        PROVE  Times(db', i) + (IF i \in Range(Pending') THEN 1 ELSE 0) <= 1 + ambiguous'
    <3>1. Times(db, i) + Waits(i) <= 1 + ambiguous
      BY OnceNow
    <3>2. Times(db', i) <= Times(db, i) + (IF i = n THEN 1 ELSE 0)
      BY <1>2, <2>1, <2>2, TimesConcat
    <3>3. Times(db, n) = 0
      BY <1>2, <1>3, PlacesFinite
    <3>4. Range(Pending') = Range(Pending)
      BY <1>2
    <3>5. CASE i = n
      BY <1>2, <1>3, <1>4, <1>6, <3>2, <3>3, <3>4, <3>5
    <3>6. CASE i # n
      BY <1>2, <1>4, <1>6, <3>1, <3>2, <3>4, <3>6 DEF Waits
    <3> QED
      BY <3>5, <3>6
  <2> QED
    BY <2>4, <2>5, <2>6, <2>7, OnceThen
<1> QED
  BY <1>1, <1>5, <1>6 DEF StoresDirect, GivesUp

LEMMA OrderStep ==
  ASSUME StoreInv, InOrderOnce, [Next]_vars
  PROVE  InOrderOnce'
<1>1. StoreInv' /\ Effect /\ Typed /\ Typed' /\ QueueInv /\ QueueInv'
  BY StoreInvStep DEF StoreInv
<1>2. \A i \in Range(Pending') : i \in Range(Pending) \/ accepted < i
  BY <1>1, QueueNews
<1>3. CASE Rests \/ Sends \/ Takes
  <2>1. db' = db /\ ambiguous' = ambiguous /\ db \in Seq(Ids)
    BY <1>1, <1>3 DEF Rests, Sends, Takes, Still, Store, Typed
  <2>2. (InOrder(db) => InOrder(db')) /\ Range(db') \subseteq Range(db)
    BY <2>1
  <2>3. \A i \in Ids : Times(db', i) <= Times(db, i)
    BY <2>1, PlacesFinite
  <2> QED
    BY <1>1, <1>2, <2>1, <2>2, <2>3, OrderKept
<1> QED
  BY <1>1, <1>2, <1>3, OrderWrites, OrderAlone, OrderReturns DEF Effect

\* Telegrams reach the database in the order store() took them, each once, through failed
\* flushes, the fallback to single writes, evictions and cancellations, for every buffer size
\* and number of tasks; every write whose outcome was unknown costs at most one duplicate.
THEOREM RowsInOrder == Spec => []InOrderOnce
<1>1. ASSUME Init PROVE InOrderOnce
  <2>1. db = <<>> /\ Pending = <<>> /\ ambiguous = 0
    <3>1. buffer = <<>> /\ Writing = <<>> /\ db = <<>> /\ ambiguous = 0
      BY <1>1 DEF Init, Writing
    <3> QED
      BY <3>1, EmptySeq, ConcatEmptySeq DEF Pending
  <2>2. InOrder(db \o Pending)
    BY <2>1, EmptySeq, ConcatEmptySeq, EmptyOrder
  <2>3. \A i \in Ids : Times(db, i) = 0
    BY <2>1, EmptySeq, EmptyOrder, PlacesFinite
  <2>4. \A i \in Ids : Times(db, i) + (IF i \in Range(Pending) THEN 1 ELSE 0) <= 1 + ambiguous
    BY <2>1, <2>3, EmptyOrder
  <2> QED
    BY <2>2, <2>4 DEF InOrderOnce, Times, Places
<1>2. StoreInv /\ InOrderOnce /\ [Next]_vars => InOrderOnce'
  BY OrderStep
<1> QED
  BY <1>1, <1>2, StoreInductive, PTL DEF Spec
-----------------------------------------------------------------------------
(* The write buffer implements WriteBehind.                                *)

\* Where the queue is cut in two.
LEMMA Cut ==
  ASSUME NEW s \in Seq(Stored), NEW t \in Seq(Stored), Pending = s \o t
  PROVE  /\ Len(Pending) = Len(s) + Len(t) /\ Len(s) \in 0..Len(Pending)
         /\ WB!Front(Len(s)) = s /\ WB!From(Len(s) + 1) = t
         /\ s # <<>> => Len(s) \in DOMAIN Pending
<1> DEFINE a == s \o t
           f == SubSeq(a, 1, Len(s))
           r == SubSeq(a, Len(s) + 1, Len(a))
<1>1. /\ a \in Seq(Stored) /\ Len(a) = Len(s) + Len(t)
      /\ Len(s) \in Nat /\ Len(t) \in Nat /\ DOMAIN a = 1..Len(a)
      /\ s \in [1..Len(s) -> Stored] /\ t \in [1..Len(t) -> Stored]
      /\ \A i \in 1..Len(s) + Len(t) : a[i] = IF i <= Len(s) THEN s[i] ELSE t[i - Len(s)]
  BY ConcatProperties, LenProperties
<1>2. a = Pending
  OBVIOUS
<1> HIDE DEF a
<1>3. \A i \in 1..Len(a) : a[i] \in Stored
  BY <1>1, ElementOfSeq
<1>4. /\ f \in Seq(Stored) /\ Len(f) = Len(s)
      /\ \A i \in 1..Len(s) : f[i] = s[i]
  <2>1. \A i \in 1..Len(s) : a[i] \in Stored /\ a[i] = s[i]
    BY <1>1, <1>3
  <2>2. /\ f \in Seq(Stored) /\ Len(f) = IF 1 <= Len(s) THEN Len(s) - 1 + 1 ELSE 0
        /\ \A i \in 1..Len(s) - 1 + 1 : f[i] = a[1 + i - 1]
    BY <1>1, <2>1, SubSeqProperties
  <2> QED
    BY <1>1, <2>1, <2>2
<1>5. /\ r \in Seq(Stored) /\ Len(r) = Len(t)
      /\ \A i \in 1..Len(t) : r[i] = t[i]
  <2>1. \A i \in Len(s) + 1 .. Len(a) : a[i] \in Stored
    BY <1>1, <1>3
  <2>2. /\ r \in Seq(Stored)
        /\ Len(r) = IF Len(s) + 1 <= Len(a) THEN Len(a) - (Len(s) + 1) + 1 ELSE 0
        /\ \A i \in 1..Len(a) - (Len(s) + 1) + 1 : r[i] = a[(Len(s) + 1) + i - 1]
    <3>1. Len(s) + 1 \in Int /\ Len(a) \in Int
      BY <1>1
    <3> QED
      BY <2>1, <3>1, SubSeqProperties
  <2>3. ASSUME NEW i \in 1..Len(t) PROVE r[i] = t[i]
    <3>1. r[i] = a[(Len(s) + 1) + i - 1]
      BY <1>1, <2>2
    <3> DEFINE k == (Len(s) + 1) + i - 1
    <3>2. k \in 1..Len(s) + Len(t) /\ ~(k <= Len(s)) /\ k - Len(s) = i
      BY <1>1
    <3>3. r[i] = a[k]
      BY <3>1
    <3> HIDE DEF k
    <3> QED
      BY <1>1, <3>2, <3>3
  <2> QED
    BY <1>1, <2>2, <2>3
<1>6. f = s /\ r = t
  BY <1>4, <1>5, SeqEqual
<1>7. WB!Front(Len(s)) = f /\ WB!From(Len(s) + 1) = r
  BY <1>2 DEF WB!Front, WB!From
<1>8. s # <<>> => Len(s) \in 1..Len(a)
  BY <1>1, EmptySeq
<1>9. Len(a) = Len(s) + Len(t) /\ Len(s) \in 0..Len(a) /\ (s # <<>> => Len(s) \in DOMAIN a)
  BY <1>1, <1>8
<1> HIDE DEF f, r
<1> QED
  BY <1>2, <1>6, <1>7, <1>9

\* The front of a sequence and the rest.
LEMMA HeadTailIsConcat ==
  ASSUME NEW S, NEW s \in Seq(S), s # <<>>
  PROVE  s = <<Head(s)>> \o Tail(s)
<1>1. Len(s) \in Nat \ {0} /\ Head(s) = s[1]
  BY EmptySeq
<1>2. 1 \in 1..Len(s) /\ Len(s) \in 1..Len(s)
  BY <1>1
<1>3. SubSeq(s, 1, Len(s)) = <<s[1]>> \o SubSeq(s, 1 + 1, Len(s))
  BY <1>2, SubSeqRecursiveFirst
<1>4. SubSeq(s, 1, Len(s)) = s /\ Tail(s) = SubSeq(s, 2, Len(s)) /\ 1 + 1 = 2
  BY SubSeqFull, TailIsSubSeq
<1> QED
  BY <1>1, <1>3, <1>4

LEMMA HeadTailOfConcat ==
  ASSUME NEW S, NEW x \in S, NEW t \in Seq(S)
  PROVE  <<x>> \o t # <<>> /\ Head(<<x>> \o t) = x /\ Tail(<<x>> \o t) = t
<1> DEFINE s == <<x>>
           a == s \o t
           r == Tail(a)
<1>1. s \in Seq(S) /\ Len(s) = 1 /\ s[1] = x
  OBVIOUS
<1> HIDE DEF s
<1>2. /\ a \in Seq(S) /\ Len(a) = 1 + Len(t) /\ Len(t) \in Nat
      /\ \A i \in 1..1 + Len(t) : a[i] = IF i <= 1 THEN s[i] ELSE t[i - 1]
  <2>1. Len(t) \in Nat
    BY LenProperties
  <2>2. /\ a \in Seq(S) /\ Len(a) = Len(s) + Len(t)
        /\ \A i \in 1..Len(s) + Len(t) : a[i] = IF i <= Len(s) THEN s[i] ELSE t[i - Len(s)]
    BY <1>1, ConcatProperties, Zenon
  <2> HIDE DEF a
  <2> QED
    BY <1>1, <2>1, <2>2
<1> HIDE DEF a
<1>3. a # <<>>
  BY <1>2, EmptySeq
<1>4. Head(a) = a[1]
  BY <1>3
<1>5. a[1] = x
  BY <1>1, <1>2
<1>6. r \in Seq(S) /\ Len(r) = Len(a) - 1 /\ \A i \in 1..Len(r) : r[i] = a[i + 1]
  BY <1>2, <1>3, HeadTailProperties
<1> HIDE DEF r
<1>7. Len(r) = Len(t)
  BY <1>2, <1>6
<1>8. ASSUME NEW i \in 1..Len(t) PROVE r[i] = t[i]
  <2> DEFINE k == i + 1
  <2>1. k \in 1..1 + Len(t) /\ ~(k <= 1) /\ k - 1 = i /\ r[i] = a[k]
    BY <1>2, <1>6, <1>7
  <2> HIDE DEF k
  <2> QED
    BY <1>2, <2>1
<1>9. r = t
  BY <1>6, <1>7, <1>8, SeqEqual
<1> QED
  BY <1>3, <1>4, <1>5, <1>9 DEF s, a, r

LEMMA ReadingRetains ==
  ASSUME NEW S, NEW s \in Seq(S), NEW drop, NEW at \in Keeping(s, drop)
  PROVE  WB!Retains(Reading(s, at), s, drop)
<1> DEFINE K == {i \in DOMAIN s : s[i] \notin drop}
           n == Cardinality(K)
<1>1. Len(s) \in Nat /\ DOMAIN s = 1..Len(s)
  BY LenProperties
<1>2. IsFiniteSet(K)
  <2>1. 1 \in Int /\ Len(s) \in Int
    BY <1>1
  <2>2. IsFiniteSet(1..Len(s)) /\ K \in SUBSET (1..Len(s))
    BY <1>1, <2>1, FS_Interval
  <2> QED
    BY <2>2, FS_Subset
<1>3. n \in Nat
  BY <1>2, FS_CardinalityType
<1>4. at \in [1..n -> K] /\ \A i, j \in 1..n : i < j => at[i] < at[j]
  BY DEF Keeping
<1>5. \A i \in 1..n : at[i] \in Int
  BY <1>1, <1>4
<1>6. Range(at) = K
  <2>1. at \in Injection(1..n, K)
    <3>1. \A i, j \in 1..n : at[i] = at[j] => i = j
      <4> SUFFICES ASSUME NEW i \in 1..n, NEW j \in 1..n, at[i] = at[j], i # j PROVE FALSE
        OBVIOUS
      <4>1. i < j \/ j < i
        BY <1>3
      <4> HIDE DEF n
      <4> QED
        BY <1>4, <1>5, <4>1
    <3> QED
      BY <1>4, <3>1 DEF Injection, IsInjective
  <2>2. IsFiniteSet(1..n) /\ Cardinality(1..n) = n
    <3>1. 1 \in Int /\ n \in Int
      BY <1>3
    <3>2. /\ IsFiniteSet(1..n)
          /\ Cardinality(1..n) = IF 1 > n THEN 0 ELSE n - 1 + 1
      BY <3>1, FS_Interval, Zenon
    <3> QED
      BY <1>3, <3>2
  <2>3. at \in Surjection(1..n, K)
    BY <1>2, <2>1, <2>2, FS_Injection
  <2> QED
    BY <1>4, <2>3 DEF Surjection, Range
<1>7. DOMAIN Reading(s, at) = 1..n /\ DOMAIN at = 1..n
      /\ \A i \in 1..n : Reading(s, at)[i] = s[at[i]]
  BY <1>4 DEF Reading
<1>8. at \in [DOMAIN Reading(s, at) -> DOMAIN s]
  BY <1>4, <1>7
<1> HIDE DEF n
<1> QED
  BY <1>4, <1>6, <1>7, <1>8 DEF WB!Retains, WB!Range, Range

\* A queue step, seen in WriteBehind.
LEMMA AcceptsBehind ==
  ASSUME Typed, QueueInv, accepted' = accepted + 1, Takes
  PROVE  WB!Accept
<1> DEFINE a == accepted'
<1>1. /\ Writing \in Seq(Stored) /\ buffer \in Seq(Stored)
      /\ Writing' = Writing /\ db' = db /\ Store /\ a \in Stored
  BY StoreAssumption DEF Typed, Takes, Store, Stored
<1>2. PICK b \in Seq(Stored) :
        /\ buffer' = Append(b, a)
        /\ b = buffer \/ (Len(buffer) >= MaxBuffer /\ buffer # <<>> /\ b = Tail(buffer))
  BY <1>1, TakesLast, Zenon
<1> HIDE DEF a
<1>3. Pending' = Append(Writing \o b, a)
  <2>1. b \o <<a>> = Append(b, a) /\ <<a>> \in Seq(Stored)
    BY <1>1, <1>2, AppendIsConcat
  <2>2. (Writing \o b) \o <<a>> = Writing \o (b \o <<a>>) /\ Writing \o b \in Seq(Stored)
    BY <1>1, <1>2, <2>1, ConcatAssociative, ConcatProperties
  <2>3. Append(Writing \o b, a) = (Writing \o b) \o <<a>>
    BY <1>1, <2>2, AppendIsConcat
  <2>4. Pending' = Writing \o Append(b, a)
    BY <1>1, <1>2 DEF Pending
  <2> QED
    BY <2>1, <2>2, <2>3, <2>4
<1>4. CASE b = buffer
  <2>1. Pending' = Append(Pending, a)
    BY <1>3, <1>4 DEF Pending
  <2> QED
    BY <1>1, <2>1 DEF WB!Accept, a
<1>5. CASE Len(buffer) >= MaxBuffer /\ buffer # <<>> /\ b = Tail(buffer)
  <2> DEFINE x == Head(buffer)
             s == Writing \o <<x>>
             k == Len(Writing) + 1
  <2>1. x \in Stored /\ buffer = <<x>> \o b /\ <<x>> \in Seq(Stored)
    BY <1>1, <1>2, <1>5, HeadTailProperties, HeadTailIsConcat
  <2> HIDE DEF x
  <2>2. /\ s \in Seq(Stored) /\ Len(s) = k /\ s # <<>>
        /\ Pending = s \o b
    <3>1. s \in Seq(Stored) /\ Len(s) = Len(Writing) + Len(<<x>>) /\ Len(Writing) \in Nat
      BY <1>1, <2>1, ConcatProperties, LenProperties
    <3>2. Pending = s \o b
      BY <1>1, <1>2, <2>1, ConcatAssociative DEF Pending
    <3>3. Len(<<x>>) = 1
      OBVIOUS
    <3> HIDE DEF s
    <3> QED
      BY <3>1, <3>2, <3>3, EmptySeq
  <2>3. Pending = Writing \o buffer /\ Len(Writing) \in Nat
    BY <1>1, LenProperties DEF Pending
  <2>4. WB!Front(Len(Writing)) = Writing /\ Len(Pending) = Len(Writing) + Len(buffer)
    BY <1>1, <2>3, Cut
  <2>5. WB!From(Len(s) + 1) = b /\ Len(s) \in DOMAIN Pending
    BY <1>2, <2>2, Cut
  <2>6. WB!From(k + 1) = b /\ k \in DOMAIN Pending
    BY <2>2, <2>5
  <2>7. k - 1 = Len(Writing)
    BY <2>3
  <2> HIDE DEF s, k
  <2>8. WB!Except(k) = Writing \o b
    BY <2>4, <2>6, <2>7 DEF WB!Except
  <2>9. Len(Pending) >= MaxBuffer
    BY <1>1, <1>5, <2>3, <2>4, LenProperties, StoreAssumption
  <2>10. Pending' = Append(WB!Except(k), accepted')
    BY <1>3, <2>8 DEF a
  <2> QED
    BY <1>1, <2>6, <2>9, <2>10 DEF WB!Accept
<1> QED
  BY <1>2, <1>4, <1>5

LEMMA WritesBehind ==
  ASSUME Typed, Typed', QueueInv, Writes
  PROVE  WB!Next \/ UNCHANGED WB!vars
<1>1. /\ Writing \in Seq(Stored) /\ buffer \in Seq(Stored) /\ db \in Seq(Ids)
      /\ accepted' = accepted /\ Pending = Writing \o buffer
      /\ Len(Writing) \in Nat /\ Len(buffer) \in Nat
  BY LenProperties DEF Typed, Pending, Writes
<1>2. \A b \in Seq(Stored) : <<>> \o b = b /\ b \o <<>> = b
  BY ConcatEmptySeq
<1>3. CASE Drains
  <2>1. Pending' = <<>> \o Pending' /\ Writing = <<>> /\ Writing' = buffer /\ buffer' = <<>> /\ db' = db
    BY <1>2, <1>3, PendingTypes DEF Drains
  <2>2. Pending = buffer
    BY <1>1, <1>2, <2>1
  <2>3. Pending' = buffer
    <3>1. Pending' = buffer \o <<>>
      BY <2>1 DEF Pending
    <3> QED
      BY <1>1, <1>2, <3>1
  <2> QED
    BY <1>1, <2>1, <2>2, <2>3 DEF WB!vars
<1>4. CASE Inserts
  <2>1. Writing # <<>> /\ Writing' = <<>> /\ db' = db \o Writing /\ buffer' = buffer
    BY <1>4 DEF Inserts
  <2>2. Pending' = buffer
    <3>1. Pending' = <<>> \o buffer
      BY <2>1 DEF Pending
    <3> QED
      BY <1>1, <1>2, <3>1
  <2>3. /\ WB!Front(Len(Writing)) = Writing /\ WB!From(Len(Writing) + 1) = buffer
        /\ Len(Writing) \in DOMAIN Pending
    BY <1>1, <2>1, Cut
  <2>4. WB!Persist
    BY <1>1, <2>1, <2>2, <2>3 DEF WB!Persist
  <2> QED
    BY <2>4 DEF WB!Next
<1>5. ASSUME Writing # <<>>, Writing' = Tail(Writing), buffer' = buffer
      PROVE  /\ Head(Writing) \in Stored /\ <<Head(Writing)>> \in Seq(Stored)
             /\ Pending' \in Seq(Stored) /\ Pending = <<Head(Writing)>> \o Pending'
  <2> DEFINE x == Head(Writing)
             t == Tail(Writing)
  <2>1. x \in Stored /\ t \in Seq(Stored) /\ Writing = <<x>> \o t
    BY <1>1, <1>5, HeadTailProperties, HeadTailIsConcat
  <2>2. Pending' = t \o buffer
    BY <1>5 DEF Pending
  <2> HIDE DEF x, t
  <2>3. <<x>> \in Seq(Stored)
    BY <2>1
  <2>4. Pending = <<x>> \o (t \o buffer)
    BY <1>1, <2>1, <2>3, ConcatAssociative
  <2> QED
    BY <2>1, <2>2, <2>3, <2>4, PendingTypes DEF x
<1>6. CASE InsertsOne
  <2> DEFINE x == Head(Writing)
             s == <<x>>
  <2>1. Writing # <<>> /\ Writing' = Tail(Writing) /\ buffer' = buffer /\ db' = Append(db, x)
    BY <1>6 DEF InsertsOne
  <2>2. s \in Seq(Stored) /\ Pending' \in Seq(Stored) /\ Pending = s \o Pending' /\ x \in Stored
    BY <1>5, <2>1
  <2>3. Len(s) = 1 /\ s # <<>>
    BY EmptySeq
  <2> HIDE DEF x
  <2>4. db' = db \o s
    BY <1>1, <2>1, <2>2, StoredTypes, AppendIsConcat
  <2> HIDE DEF s
  <2>5. /\ WB!Front(Len(s)) = s /\ WB!From(Len(s) + 1) = Pending'
        /\ Len(s) \in DOMAIN Pending
    BY <2>2, <2>3, Cut
  <2>6. WB!Persist
    BY <1>1, <2>4, <2>5 DEF WB!Persist
  <2> QED
    BY <2>6 DEF WB!Next
<1>7. CASE Rejects
  <2> DEFINE x == Head(Writing)
  <2>1. /\ Writing # <<>> /\ Writing' = Tail(Writing) /\ buffer' = buffer
        /\ x \in Unstorable /\ db' = db
    BY <1>7 DEF Rejects
  <2>2. /\ <<x>> \in Seq(Stored) /\ Pending' \in Seq(Stored) /\ Pending = <<x>> \o Pending'
        /\ x \in Stored
    BY <1>5, <2>1
  <2> HIDE DEF x
  <2>3. Head(Pending) = x /\ Tail(Pending) = Pending' /\ Pending # <<>>
    BY <2>2, HeadTailOfConcat
  <2>4. WB!Reject
    BY <1>1, <2>1, <2>3 DEF WB!Reject
  <2> QED
    BY <2>4 DEF WB!Next
<1>8. ASSUME NEW n \in 0..Len(Writing), Fails(n) PROVE WB!Retry
  <2>1. /\ db' = db \o SubSeq(Writing, 1, n) /\ Writing' = <<>> /\ buffer' = Newest(Pending)
    BY <1>8 DEF Fails, Pending
  <2>2. Pending' = Newest(Pending)
    <3>1. Newest(Pending) \in Seq(Stored)
      BY PendingTypes, NewestOrder
    <3>2. Pending' = <<>> \o Newest(Pending)
      BY <2>1 DEF Pending
    <3> QED
      BY <1>2, <3>1, <3>2
  <2>3. WB!Front(n) = SubSeq(Writing, 1, n) /\ n \in 0..Len(Pending)
    <3>1. n \in Int /\ 1 \in Int /\ Len(Pending) = Len(Writing) + Len(buffer)
      BY <1>1, ConcatProperties
    <3>2. WB!Front(n) = SubSeq(Writing \o buffer, 1, n)
      BY <1>1 DEF WB!Front
    <3>3. CASE n < 1
      BY <1>1, <3>1, <3>2, <3>3, SubSeqEmpty
    <3>4. CASE ~(n < 1)
      <4>1. 1 \in 1..Len(Writing) /\ n \in 1..Len(Writing)
        BY <1>1, <3>1, <3>4
      <4> QED
        BY <1>1, <3>1, <3>2, <4>1, SubSeqOfConcat1
    <3> QED
      BY <3>3, <3>4
  <2>4. \/ Pending' = Pending
        \/ Len(Pending) > MaxBuffer /\ Pending' = WB!From(Len(Pending) - MaxBuffer + 1)
    BY <2>2 DEF Newest, WB!From
  <2> QED
    BY <1>1, <2>1, <2>3, <2>4 DEF WB!Retry
<1> QED
  BY <1>3, <1>4, <1>6, <1>7, <1>8 DEF Writes, WB!Next

LEMMA AloneBehind ==
  ASSUME Typed, Typed', QueueInv, Alone
  PROVE  WB!Next
<1>1. /\ buffer \in Seq(Stored) /\ buffer' \in Seq(Stored) /\ db \in Seq(Ids)
      /\ accepted' = accepted /\ Pending = buffer
      /\ Pending' = buffer'
  <2>1. buffer \in Seq(Stored) /\ buffer' \in Seq(Stored) /\ db \in Seq(Ids)
    BY DEF Typed
  <2>2. Pending = <<>> \o buffer /\ Pending' = <<>> \o buffer' /\ accepted' = accepted
    BY DEF Alone, Pending
  <2> QED
    BY <2>1, <2>2, ConcatEmptySeq
<1>2. CASE EvictsBoth
  <2>1. PICK rows \in Keeping(db, Outdated), kept \in Keeping(buffer, Outdated) :
          db' = Reading(db, rows) /\ buffer' = Reading(buffer, kept)
    BY <1>2 DEF EvictsBoth
  <2>2. WB!Retains(db', db, Outdated) /\ WB!Retains(Pending', Pending, Outdated)
    BY <1>1, <2>1, ReadingRetains
  <2>3. WB!Evict
    BY <1>1, <2>2 DEF WB!Evict
  <2> QED
    BY <2>3 DEF WB!Next
<1>3. CASE EvictsRows
  <2>1. PICK rows \in Keeping(db, Outdated) : db' = Reading(db, rows)
    BY <1>3 DEF EvictsRows
  <2>2. WB!Retains(db', db, Outdated) /\ Pending' = Pending
    BY <1>1, <1>3, <2>1, ReadingRetains DEF EvictsRows
  <2>3. WB!Evict
    BY <1>1, <2>2 DEF WB!Evict
  <2> QED
    BY <2>3 DEF WB!Next
<1>4. CASE Empties
  <2>1. WB!Drop
    BY <1>1, <1>4 DEF Empties, WB!Drop
  <2> QED
    BY <2>1 DEF WB!Next
<1>5. CASE Wipes
  <2>1. WB!Wipe
    BY <1>1, <1>5 DEF Wipes, WB!Wipe
  <2> QED
    BY <2>1 DEF WB!Next
<1> QED
  BY <1>2, <1>3, <1>4, <1>5 DEF Alone

\* BufferedStore - its locks, tasks, retries, failures, cancellations, backups and close
\* included - implements WriteBehind for every buffer size and any number of hosts: every step
\* is a step of the bounded queue in front of the log, or leaves both as they are.
THEOREM StoreIsWriteBehind == Spec => ImplementsWriteBehind
<1>1. ASSUME Init PROVE WB!Init
  <2>1. buffer = <<>> /\ Writing = <<>> /\ db = <<>> /\ accepted = 0
    BY <1>1 DEF Init, Writing
  <2>2. Pending = <<>>
    BY <2>1, EmptySeq, ConcatEmptySeq DEF Pending
  <2> QED
    BY <2>1, <2>2 DEF WB!Init
<1>2. ASSUME StoreInv, [Next]_vars PROVE [WB!Next]_(WB!vars)
  <2>1. Effect /\ Typed /\ Typed' /\ QueueInv /\ KnownInv
    BY <1>2, StoreInvStep DEF StoreInv
  <2>2. CASE Rests \/ Sends
    <3>1. UNCHANGED <<Writing, buffer, db, accepted>>
      BY <2>2 DEF Rests, Sends, Still
    <3> QED
      BY <3>1 DEF WB!vars, Pending
  <2>3. CASE Takes
    <3>1. accepted' = accepted + 1
      BY <2>3 DEF Takes, Store
    <3> QED
      BY <2>1, <2>3, <3>1, AcceptsBehind DEF WB!Next
  <2>4. CASE Returns
    <3>1. PICK n \in Sent : StoresDirect(n) \/ GivesUp(n)
      BY <2>4 DEF Returns
    <3>2. Pending' = Pending /\ accepted' = accepted
      BY <2>4 DEF Returns, Pending
    <3>3. n \in Direct
      BY <2>1, StoreAssumption DEF KnownInv, Typed, Direct
    <3>4. db' = db \/ db' = Append(db, n)
      BY <3>1 DEF StoresDirect, GivesUp
    <3> QED
      BY <3>2, <3>3, <3>4 DEF WB!vars, WB!Next, WB!WriteDirect
  <2> QED
    BY <2>1, <2>2, <2>3, <2>4, WritesBehind, AloneBehind DEF Effect
<1> QED
  BY <1>1, <1>2, StoreInductive, PTL DEF Spec, ImplementsWriteBehind, WB!Spec
=============================================================================
