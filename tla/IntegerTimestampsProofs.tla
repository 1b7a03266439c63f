------------------------ MODULE IntegerTimestampsProofs ------------------------
(***************************************************************************)
(* The conversion's safety, for every number of rows, group addresses,     *)
(* batches and cut-offs.  The inductive invariant follows the conversion   *)
(* through the file: the rows behind low are integers (Progress), what     *)
(* reconciled says of the last values (Covered), and what a query under    *)
(* way knows of the file (Calm).                                           *)
(***************************************************************************)
EXTENDS IntegerTimestampsProps, TLAPS

AfterFlag  == {"indexes", "fits", "vacuum", "unflag", "warm", "ready"}
AfterIndex == {"fits", "vacuum", "unflag", "warm", "ready"}

\* How far the owner has come, by its phase.
Progress ==
  /\ phase = "batch" /\ table = "telegrams" =>
       \A i \in DOMAIN telegrams : i <= low => telegrams[i].kind = "integer"
  /\ phase = "batch" /\ table = "last" =>
       /\ AllInteger(telegrams)
       /\ \A d \in DOMAIN last : d <= low => last[d].kind = "integer"
  /\ phase = "flag" => AllInteger(telegrams) /\ AllInteger(last)
  /\ phase \in AfterFlag => integerFlag
  /\ phase \in AfterIndex => index
  /\ phase = "ready" => reconciled

Newest ==
  \A i \in DOMAIN telegrams :
    /\ telegrams[i].dest \in DOMAIN last
    /\ telegrams[i].at <= last[telegrams[i].dest].at

\* Once repaired, the last values stay the newest, through conversion, writes and evictions.
Covered == reconciled => Newest

\* What a query knows while no step has changed the format since its probe.
Calm ==
  /\ seen => integerFlag
  /\ asking /\ calm /\ textBounds =>
       ~integerFlag /\ \A i \in DOMAIN telegrams : telegrams[i].kind = "text"
  /\ asking /\ calm /\ ~textBounds => integerFlag
  /\ ~asking => ~calm

Inv == TypeOK /\ FormatsFollowFlag /\ Progress /\ Covered /\ Calm /\ ReaderExact

-----------------------------------------------------------------------------
(* Lemmas on single operations.                                                             *)

\* A batch rewrites kinds only, and leaves integers behind its end.
LEMMA RewrittenKeeps ==
  ASSUME NEW t, NEW D, NEW S, t \in [D -> S], S = Rows \/ S = Values,
         low \in Nat, BatchRows \in Nat, D \subseteq Nat
  PROVE  /\ Rewritten(t) \in [D -> S]
         /\ \A i \in D : /\ Rewritten(t)[i].at = t[i].at
                         /\ S = Rows => Rewritten(t)[i].dest = t[i].dest
                         /\ t[i].kind = "integer" => Rewritten(t)[i].kind = "integer"
                         /\ low < i /\ i <= low + BatchRows => Rewritten(t)[i].kind = "integer"
                         /\ ~(low < i /\ i <= low + BatchRows) => Rewritten(t)[i] = t[i]
  <1>1. CASE S = Rows
    BY <1>1 DEF Rewritten, Rows, Kinds
  <1>2. CASE S = Values
    BY <1>2 DEF Rewritten, Values, Kinds
  <1> QED BY <1>1, <1>2
-----------------------------------------------------------------------------
(* Every step keeps the types.                                                              *)

LEMMA InitTypes ==
  Init => TypeOK
  <1> SUFFICES ASSUME Init PROVE TypeOK
    OBVIOUS
  <1>1. PICK n \in 0..Legacy : telegrams \in [1..n -> {r \in Rows : r.kind = "text"}]
    BY DEF Init
  <1>2. PICK D \in SUBSET Dests : last \in [D -> {v \in Values : v.kind = "text"}]
    BY DEF Init
  <1>3. RowTypes
    BY <1>1, <1>2, TimestampsAssumption DEF RowTypes
  <1>4. FlagTypes
    BY DEF Init, FlagTypes
  <1>5. StepTypes
    BY TimestampsAssumption DEF Init, StepTypes, Space, Phases
  <1> QED BY <1>3, <1>4, <1>5 DEF TypeOK

LEMMA NextTypes ==
  ASSUME TypeOK, [Next]_vars
  PROVE  TypeOK'
  <1>1. CASE Start
    <2>1. RowTypes'
      BY <1>1 DEF TypeOK, RowTypes, Start, vars, file, meta, pages, startup, reader
    <2>2. FlagTypes'
      BY <1>1 DEF TypeOK, FlagTypes, Start, NeedsMigration, PendingStartupWork, StatisticsDue,
             ReconcileDue, HasRows, vars, file, meta, pages, startup, reader
    <2>3. StepTypes'
      BY <1>1, TimestampsAssumption
         DEF TypeOK, StepTypes, Start, Phases, Space, vars, file, meta, pages, startup, reader
    <2> QED BY <2>1, <2>2, <2>3 DEF TypeOK
  <1>2. CASE Probe
    <2>1. RowTypes'
      BY <1>2 DEF TypeOK, RowTypes, Probe, vars, file, meta, pages, startup, reader
    <2>2. FlagTypes'
      BY <1>2 DEF TypeOK, FlagTypes, Probe, HasText, AllInteger, vars, file, meta, pages, startup, reader
    <2>3. StepTypes'
      BY <1>2, TimestampsAssumption
         DEF TypeOK, StepTypes, Probe, Phases, Space, vars, file, meta, pages, startup, reader
    <2> QED BY <2>1, <2>2, <2>3 DEF TypeOK
  <1>3. CASE DropIndex
    <2>1. RowTypes'
      BY <1>3 DEF TypeOK, RowTypes, DropIndex, vars, file, meta, pages, startup, reader
    <2>2. FlagTypes'
      BY <1>3 DEF TypeOK, FlagTypes, DropIndex, vars, file, meta, pages, startup, reader
    <2>3. StepTypes'
      BY <1>3, TimestampsAssumption
         DEF TypeOK, StepTypes, DropIndex, Phases, Space, vars, file, meta, pages, startup, reader
    <2> QED BY <2>1, <2>2, <2>3 DEF TypeOK
  <1>4. CASE TableDone
    <2>1. RowTypes'
      BY <1>4 DEF TypeOK, RowTypes, TableDone, vars, file, meta, pages, startup, reader
    <2>2. FlagTypes'
      BY <1>4 DEF TypeOK, FlagTypes, TableDone, vars, file, meta, pages, startup, reader
    <2>3. StepTypes'
      BY <1>4, TimestampsAssumption
         DEF TypeOK, StepTypes, TableDone, Phases, Space, vars, file, meta, pages, startup, reader
    <2> QED BY <2>1, <2>2, <2>3 DEF TypeOK
  <1>5. CASE SetFlag
    <2>1. RowTypes'
      BY <1>5 DEF TypeOK, RowTypes, SetFlag, vars, file, meta, pages, startup, reader
    <2>2. FlagTypes'
      BY <1>5 DEF TypeOK, FlagTypes, SetFlag, vars, file, meta, pages, startup, reader
    <2>3. StepTypes'
      BY <1>5, TimestampsAssumption
         DEF TypeOK, StepTypes, SetFlag, Phases, Space, vars, file, meta, pages, startup, reader
    <2> QED BY <2>1, <2>2, <2>3 DEF TypeOK
  <1>6. CASE Indexes
    <2>1. RowTypes'
      BY <1>6 DEF TypeOK, RowTypes, Indexes, vars, file, meta, pages, startup, reader
    <2>2. FlagTypes'
      BY <1>6 DEF TypeOK, FlagTypes, Indexes, vars, file, meta, pages, startup, reader
    <2>3. StepTypes'
      BY <1>6, TimestampsAssumption
         DEF TypeOK, StepTypes, Indexes, Phases, Space, vars, file, meta, pages, startup, reader
    <2> QED BY <2>1, <2>2, <2>3 DEF TypeOK
  <1>7. CASE VacuumFits
    <2>1. RowTypes'
      BY <1>7 DEF TypeOK, RowTypes, VacuumFits, vars, file, meta, pages, startup, reader
    <2>2. FlagTypes'
      <3>1. vacuumPending' \in BOOLEAN
        BY <1>7, Zenon DEF TypeOK, FlagTypes, VacuumFits
      <3>2. UNCHANGED <<integerFlag, reconciled, converted, reported, pages, reader, calm>>
        BY <1>7 DEF VacuumFits
      <3> QED BY <3>1, <3>2, Zenon DEF TypeOK, FlagTypes, pages, reader
    <2>3. StepTypes'
      BY <1>7, TimestampsAssumption
         DEF TypeOK, StepTypes, VacuumFits, Phases, Space, vars, file, meta, pages, startup, reader
    <2> QED BY <2>1, <2>2, <2>3 DEF TypeOK
  <1>8. CASE Vacuum
    <2>1. RowTypes'
      BY <1>8 DEF TypeOK, RowTypes, Vacuum, vars, file, meta, pages, startup, reader
    <2>2. FlagTypes'
      BY <1>8 DEF TypeOK, FlagTypes, Vacuum, vars, file, meta, pages, startup, reader
    <2>3. StepTypes'
      BY <1>8, TimestampsAssumption
         DEF TypeOK, StepTypes, Vacuum, Phases, Space, vars, file, meta, pages, startup, reader
    <2> QED BY <2>1, <2>2, <2>3 DEF TypeOK
  <1>9. CASE VacuumDone
    <2>1. RowTypes'
      BY <1>9 DEF TypeOK, RowTypes, VacuumDone, vars, file, meta, pages, startup, reader
    <2>2. FlagTypes'
      BY <1>9 DEF TypeOK, FlagTypes, VacuumDone, vars, file, meta, pages, startup, reader
    <2>3. StepTypes'
      BY <1>9, TimestampsAssumption
         DEF TypeOK, StepTypes, VacuumDone, Phases, Space, vars, file, meta, pages, startup, reader
    <2> QED BY <2>1, <2>2, <2>3 DEF TypeOK
  <1>10. CASE NoRoom
    <2>1. RowTypes'
      BY <1>10 DEF TypeOK, RowTypes, NoRoom, vars, file, meta, pages, startup, reader
    <2>2. FlagTypes'
      BY <1>10 DEF TypeOK, FlagTypes, NoRoom, vars, file, meta, pages, startup, reader
    <2>3. StepTypes'
      BY <1>10, TimestampsAssumption
         DEF TypeOK, StepTypes, NoRoom, Phases, Space, vars, file, meta, pages, startup, reader
    <2> QED BY <2>1, <2>2, <2>3 DEF TypeOK
  <1>11. CASE CutOff
    <2>1. RowTypes'
      BY <1>11 DEF TypeOK, RowTypes, CutOff, vars, file, meta, pages, startup, reader
    <2>2. FlagTypes'
      BY <1>11 DEF TypeOK, FlagTypes, CutOff, vars, file, meta, pages, startup, reader
    <2>3. StepTypes'
      BY <1>11, TimestampsAssumption
         DEF TypeOK, StepTypes, CutOff, Phases, Space, vars, file, meta, pages, startup, reader
    <2> QED BY <2>1, <2>2, <2>3 DEF TypeOK
  <1>12. CASE Close
    <2>1. RowTypes'
      BY <1>12 DEF TypeOK, RowTypes, Close, vars, file, meta, pages, startup, reader
    <2>2. FlagTypes'
      BY <1>12 DEF TypeOK, FlagTypes, Close, vars, file, meta, pages, startup, reader
    <2>3. StepTypes'
      BY <1>12, TimestampsAssumption
         DEF TypeOK, StepTypes, Close, Phases, Space, vars, file, meta, pages, startup, reader
    <2> QED BY <2>1, <2>2, <2>3 DEF TypeOK
  <1>13. CASE Optimize
    <2>1. RowTypes'
      BY <1>13 DEF TypeOK, RowTypes, Optimize, vars, file, meta, pages, startup, reader
    <2>2. FlagTypes'
      BY <1>13 DEF TypeOK, FlagTypes, Optimize, vars, file, meta, pages, startup, reader
    <2>3. StepTypes'
      BY <1>13, TimestampsAssumption
         DEF TypeOK, StepTypes, Optimize, Phases, Space, vars, file, meta, pages, startup, reader
    <2> QED BY <2>1, <2>2, <2>3 DEF TypeOK
  <1>14. CASE ReadProbe
    <2>1. RowTypes'
      BY <1>14 DEF TypeOK, RowTypes, ReadProbe, vars, file, meta, pages, startup, reader
    <2>2. FlagTypes'
      BY <1>14 DEF TypeOK, FlagTypes, ReadProbe, vars, file, meta, pages, startup, reader
    <2>3. StepTypes'
      BY <1>14, TimestampsAssumption
         DEF TypeOK, StepTypes, ReadProbe, Phases, Space, vars, file, meta, pages, startup, reader
    <2> QED BY <2>1, <2>2, <2>3 DEF TypeOK
  <1>15. CASE SpaceChanges
    <2>1. RowTypes'
      BY <1>15 DEF TypeOK, RowTypes, SpaceChanges, vars, file, meta, pages, startup, reader
    <2>2. FlagTypes'
      BY <1>15 DEF TypeOK, FlagTypes, SpaceChanges, vars, file, meta, pages, startup, reader
    <2>3. StepTypes'
      BY <1>15, TimestampsAssumption
         DEF TypeOK, StepTypes, SpaceChanges, Phases, Space, vars, file, meta, pages, startup, reader
    <2> QED BY <2>1, <2>2, <2>3 DEF TypeOK
  <1>16. CASE Batch
    <2>1. FlagTypes'
      BY <1>16 DEF TypeOK, FlagTypes, Batch, vars, file, meta, pages, startup, reader
    <2>2. CASE table = "telegrams"
      <3>1. telegrams' = Rewritten(telegrams) /\ UNCHANGED last
        BY <1>16, <2>2 DEF Batch
      <3>2. telegrams' \in [DOMAIN telegrams -> Rows]
        BY <3>1, RewrittenKeeps, TimestampsAssumption DEF TypeOK, RowTypes, StepTypes
      <3>3. RowTypes'
        BY <3>1, <3>2 DEF TypeOK, RowTypes
      <3>4. PICK i \in DOMAIN telegrams : i > low
        BY <1>16, <2>2 DEF Batch, RowsLeft
      <3>5. low' \in Nat /\ low' < BatchRows + MaxRow
        BY <1>16, <3>4, TimestampsAssumption DEF Batch, TypeOK, RowTypes, StepTypes
      <3>6. StepTypes'
        BY <1>16, <3>5 DEF Batch, TypeOK, StepTypes, vars, file, meta, pages, startup, reader
      <3> QED BY <2>1, <3>3, <3>6 DEF TypeOK
    <2>3. CASE table = "last"
      <3>1. last' = Rewritten(last) /\ UNCHANGED telegrams
        BY <1>16, <2>3 DEF Batch
      <3>2. last' \in [DOMAIN last -> Values]
        BY <3>1, RewrittenKeeps, TimestampsAssumption DEF TypeOK, RowTypes, StepTypes, Dests
      <3>3. RowTypes'
        BY <3>1, <3>2 DEF TypeOK, RowTypes
      <3>4. PICK i \in DOMAIN last : i > low
        BY <1>16, <2>3 DEF Batch, RowsLeft
      <3>5. low' \in Nat /\ low' < BatchRows + K
        BY <1>16, <3>4, TimestampsAssumption DEF Batch, TypeOK, RowTypes, StepTypes, Dests
      <3>6. StepTypes'
        BY <1>16, <3>5 DEF Batch, TypeOK, StepTypes, vars, file, meta, pages, startup, reader
      <3> QED BY <2>1, <3>3, <3>6 DEF TypeOK
    <2> QED BY <2>2, <2>3 DEF TypeOK, StepTypes
  <1>17. CASE Warm
    <2>1. FlagTypes'
      <3>1. reconciled' \in BOOLEAN
        BY <1>17, Zenon DEF TypeOK, FlagTypes, Warm
      <3>2. UNCHANGED <<integerFlag, vacuumPending, converted, reported, pages, reader, calm>>
        BY <1>17 DEF Warm
      <3> QED BY <3>1, <3>2, Zenon DEF TypeOK, FlagTypes, pages, reader
    <2>2. StepTypes'
      BY <1>17 DEF TypeOK, StepTypes, Warm, Phases, vars, file, meta, pages, startup, reader
    <2>3. CASE UNCHANGED last
      BY <1>17, <2>1, <2>2, <2>3 DEF TypeOK, RowTypes, Warm
    <2> DEFINE D == (DOMAIN last \ Stale) \cup {telegrams[i].dest : i \in DOMAIN telegrams}
    <2>4. CASE last' \in [D -> Values]
      <3>1. D \subseteq Dests
        BY DEF TypeOK, RowTypes, Rows
      <3>2. DOMAIN last' \subseteq Dests /\ last' \in [DOMAIN last' -> Values]
        BY <2>4, <3>1
      <3> QED BY <1>17, <2>1, <2>2, <3>2 DEF TypeOK, RowTypes, Warm
    <2> QED BY <1>17, <2>3, <2>4 DEF Warm
  <1>18. CASE \E d \in Dests, m \in Moments : Write(d, m)
    <2> PICK d \in Dests, m \in Moments : Write(d, m)
      BY <1>18
    <2>1. DOMAIN telegrams' \subseteq 1..MaxRow /\ telegrams' \in [DOMAIN telegrams' -> Rows]
      BY DEF Write, TypeOK, RowTypes, Rows, Kinds
    <2>2. DOMAIN last' \subseteq Dests /\ last' \in [DOMAIN last' -> Values]
      BY DEF Write, TypeOK, RowTypes, Values, Kinds
    <2>3. FlagTypes'
      BY DEF Write, TypeOK, FlagTypes, vars, file, meta, pages, startup, reader
    <2>4. StepTypes'
      BY DEF Write, TypeOK, StepTypes, vars, file, meta, pages, startup, reader
    <2> QED BY <2>1, <2>2, <2>3, <2>4 DEF TypeOK, RowTypes
  <1>19. CASE \E m \in Moments : Evict(m)
    <2> PICK m \in Moments : Evict(m)
      BY <1>19
    <2>1. RowTypes'
      BY DEF Evict, TypeOK, RowTypes
    <2>2. FlagTypes'
      BY DEF Evict, TypeOK, FlagTypes, vars, file, meta, pages, startup, reader
    <2>3. StepTypes'
      BY DEF Evict, TypeOK, StepTypes, vars, file, meta, pages, startup, reader
    <2> QED BY <2>1, <2>2, <2>3 DEF TypeOK
  <1>20. CASE \E from, to \in Moments \cup {Open} : ReadRows(from, to)
    <2> PICK from \in Moments \cup {Open}, to \in Moments \cup {Open} : ReadRows(from, to)
      BY <1>20
    <2>1. RowTypes'
      BY DEF ReadRows, TypeOK, RowTypes, file
    <2>2. FlagTypes'
      BY DEF ReadRows, TypeOK, FlagTypes, vars, file, meta, pages, startup, reader
    <2>3. StepTypes'
      BY DEF ReadRows, TypeOK, FlagTypes, StepTypes, vars, file, meta, pages, startup, reader
    <2> QED BY <2>1, <2>2, <2>3 DEF TypeOK
  <1>21. CASE UNCHANGED vars
    BY <1>21 DEF TypeOK, RowTypes, FlagTypes, StepTypes, vars, file, meta, pages, startup, reader
  <1> QED BY <1>1, <1>2, <1>3, <1>4, <1>5, <1>6, <1>7, <1>8, <1>9,
            <1>10, <1>11, <1>12, <1>13, <1>14, <1>15, <1>16, <1>17, <1>18, <1>19, <1>20, <1>21
          DEF Next, Initialize

-----------------------------------------------------------------------------
(* The formats follow the conversion.                                                      *)

LEMMA FormatStep ==
  ASSUME TypeOK, FormatsFollowFlag, Progress, [Next]_vars
  PROVE  FormatsFollowFlag' /\ Progress'
  <1> USE DEF FormatsFollowFlag, Progress, HasText, AllInteger, AfterFlag, AfterIndex
  <1>1. CASE Start
    BY <1>1 DEF Start, vars, file, meta, pages, startup, reader
  <1>2. CASE Probe
    BY <1>2 DEF Probe, vars, file, meta, pages, startup, reader
  <1>3. CASE DropIndex
    BY <1>3 DEF DropIndex, TypeOK, RowTypes, Dests, vars, file, meta, pages, startup, reader
  <1>4. CASE TableDone
    BY <1>4 DEF TableDone, RowsLeft, TypeOK, RowTypes, StepTypes, Dests, vars, file, meta, pages,
           startup, reader
  <1>5. CASE SetFlag
    BY <1>5 DEF SetFlag, vars, file, meta, pages, startup, reader
  <1>6. CASE Indexes
    BY <1>6 DEF Indexes, vars, file, meta, pages, startup, reader
  <1>7. CASE VacuumFits
    BY <1>7 DEF VacuumFits, vars, file, meta, pages, startup, reader
  <1>8. CASE Vacuum
    BY <1>8 DEF Vacuum, vars, file, meta, pages, startup, reader
  <1>9. CASE VacuumDone
    BY <1>9 DEF VacuumDone, vars, file, meta, pages, startup, reader
  <1>10. CASE NoRoom
    BY <1>10 DEF NoRoom, vars, file, meta, pages, startup, reader
  <1>11. CASE CutOff
    BY <1>11 DEF CutOff, vars, file, meta, pages, startup, reader
  <1>12. CASE Close
    BY <1>12 DEF Close, vars, file, meta, pages, startup, reader
  <1>13. CASE Optimize
    BY <1>13 DEF Optimize, vars, file, meta, pages, startup, reader
  <1>14. CASE ReadProbe
    BY <1>14 DEF ReadProbe, vars, file, meta, pages, startup, reader
  <1>15. CASE SpaceChanges
    BY <1>15 DEF SpaceChanges, vars, file, meta, pages, startup, reader
  <1>16. CASE Batch
    <2>1. UNCHANGED <<integerFlag, phase, table, index, reconciled>> /\ low' = low + BatchRows
      BY <1>16 DEF Batch, vars, file, meta, pages, startup, reader
    <2>2. CASE table = "telegrams"
      <3>1. telegrams' = Rewritten(telegrams) /\ UNCHANGED last
        BY <1>16, <2>2 DEF Batch
      <3>2. DOMAIN telegrams' = DOMAIN telegrams
        BY <3>1 DEF Rewritten
      <3>3. \A i \in DOMAIN telegrams :
              /\ telegrams[i].kind = "integer" => telegrams'[i].kind = "integer"
              /\ low < i /\ i <= low + BatchRows => telegrams'[i].kind = "integer"
        BY <3>1, RewrittenKeeps, TimestampsAssumption DEF TypeOK, RowTypes, StepTypes
      <3>4. \A i \in DOMAIN telegrams : i <= low + BatchRows => telegrams'[i].kind = "integer"
        BY <1>16, <2>2, <3>3, TimestampsAssumption DEF Batch, TypeOK, RowTypes, StepTypes
      <3> QED BY <1>16, <2>1, <2>2, <3>1, <3>2, <3>3, <3>4 DEF Batch
    <2>3. CASE table = "last"
      <3>1. last' = Rewritten(last) /\ UNCHANGED telegrams
        BY <1>16, <2>3 DEF Batch
      <3>2. DOMAIN last' = DOMAIN last
        BY <3>1 DEF Rewritten
      <3>3. \A d \in DOMAIN last :
              /\ last[d].kind = "integer" => last'[d].kind = "integer"
              /\ low < d /\ d <= low + BatchRows => last'[d].kind = "integer"
        <4>1. DOMAIN last \subseteq Nat /\ last \in [DOMAIN last -> Values] /\ low \in Nat
          BY TimestampsAssumption DEF TypeOK, RowTypes, StepTypes, Dests
        <4> HIDE DEF AllInteger, HasText, FormatsFollowFlag, Progress
        <4> QED BY <3>1, <4>1, RewrittenKeeps, TimestampsAssumption
      <3>4. \A d \in DOMAIN last : d <= low + BatchRows => last'[d].kind = "integer"
        BY <1>16, <2>3, <3>3, TimestampsAssumption DEF Batch, TypeOK, RowTypes, StepTypes, Dests
      <3> QED BY <1>16, <2>1, <2>3, <3>1, <3>2, <3>3, <3>4 DEF Batch
    <2> QED BY <2>2, <2>3 DEF TypeOK, StepTypes
  <1>17. CASE Warm
    <2>1. /\ integerFlag /\ index
          /\ UNCHANGED <<telegrams, integerFlag, index>>
          /\ phase' = "ready"
          /\ reconciled'
      BY <1>17 DEF Warm, vars, file, meta, pages, startup, reader
    <2>2. AllInteger(telegrams) /\ AllInteger(last)
      BY <2>1
    <2> DEFINE D == {telegrams[i].dest : i \in DOMAIN telegrams}
               kept == DOMAIN last \ Stale
    <2>3. CASE UNCHANGED last
      BY <2>1, <2>2, <2>3
    <2>4. CASE /\ last' \in [kept \cup D -> Values]
               /\ \A d \in kept : last'[d] = last[d]
               /\ \A d \in D \ kept : last'[d] \in ValuesOf(d)
      <3>1. \A d \in D : \A v \in ValuesOf(d) : v.kind = "integer"
        BY <2>2 DEF ValuesOf, Value
      <3>2. AllInteger(last')
        BY <2>2, <2>4, <3>1
      <3> QED BY <2>1, <2>2, <3>2
    <2> QED BY <1>17, <2>3, <2>4 DEF Warm
  <1>18. CASE \E d \in Dests, m \in Moments : Write(d, m)
    <2> PICK d \in Dests, m \in Moments : Write(d, m)
      BY <1>18
    <2>1. integerFlag /\ AllInteger(telegrams) /\ AllInteger(last)
      BY DEF Write
    <2>2. AllInteger(telegrams')
      BY <2>1 DEF Write
    <2>3. AllInteger(last')
      BY <2>1 DEF Write
    <2> QED BY <2>1, <2>2, <2>3 DEF Write, vars, file, meta, pages, startup, reader
  <1>19. CASE \E m \in Moments : Evict(m)
    BY <1>19 DEF Evict, vars, file, meta, pages, startup, reader
  <1>20. CASE \E from, to \in Moments \cup {Open} : ReadRows(from, to)
    BY <1>20 DEF ReadRows, vars, file, meta, pages, startup, reader
  <1>21. CASE UNCHANGED vars
    BY <1>21 DEF vars, file, meta, pages, startup, reader
  <1> QED BY <1>1, <1>2, <1>3, <1>4, <1>5, <1>6, <1>7, <1>8, <1>9,
            <1>10, <1>11, <1>12, <1>13, <1>14, <1>15, <1>16, <1>17, <1>18, <1>19, <1>20, <1>21
          DEF Next, Initialize

-----------------------------------------------------------------------------
(* The last values stay the newest.                                                       *)

LEMMA CoveredStep ==
  ASSUME TypeOK, FormatsFollowFlag, Progress, Covered, [Next]_vars
  PROVE  Covered'
  <1> USE DEF Covered, Newest
  <1>1. CASE UNCHANGED <<telegrams, last, reconciled>>
    BY <1>1
  <1>2. CASE Batch
    <2>1. UNCHANGED reconciled
      BY <1>2 DEF Batch, meta
    <2>2. CASE table = "telegrams"
      <3>1. telegrams' = Rewritten(telegrams) /\ UNCHANGED last
        BY <1>2, <2>2 DEF Batch
      <3>2. /\ DOMAIN telegrams' = DOMAIN telegrams
            /\ \A i \in DOMAIN telegrams : /\ telegrams'[i].at = telegrams[i].at
                                          /\ telegrams'[i].dest = telegrams[i].dest
        BY <3>1, RewrittenKeeps, TimestampsAssumption DEF TypeOK, RowTypes, StepTypes, Rewritten
      <3> QED BY <2>1, <3>1, <3>2
    <2>3. CASE table = "last"
      <3>1. last' = Rewritten(last) /\ UNCHANGED telegrams
        BY <1>2, <2>3 DEF Batch
      <3>2. DOMAIN last \subseteq Nat /\ last \in [DOMAIN last -> Values] /\ low \in Nat
        BY TimestampsAssumption DEF TypeOK, RowTypes, StepTypes, Dests
      <3>3. /\ DOMAIN last' = DOMAIN last
            /\ \A d \in DOMAIN last : last'[d].at = last[d].at
        BY <3>1, <3>2, RewrittenKeeps, TimestampsAssumption DEF Rewritten
      <3> QED BY <2>1, <3>1, <3>3
    <2> QED BY <2>2, <2>3 DEF TypeOK, StepTypes
  <1>3. CASE Warm
    <2> DEFINE D == {telegrams[i].dest : i \in DOMAIN telegrams}
               kept == DOMAIN last \ Stale
    <2>1. /\ UNCHANGED telegrams
          /\ \/ reconciled /\ UNCHANGED last
             \/ /\ last' \in [kept \cup D -> Values]
                /\ \A d \in kept : last'[d] = last[d]
                /\ \A d \in D \ kept :
                     last'[d] \in ValuesOf(d) /\ \A v \in ValuesOf(d) : AtMost(v, last'[d])
      BY <1>3 DEF Warm
    <2>2. AllInteger(telegrams) /\ AllInteger(last)
      BY <1>3 DEF Warm, Progress, AfterFlag, FormatsFollowFlag, HasText
    <2>3. SUFFICES ASSUME ~(reconciled /\ UNCHANGED last), NEW i \in DOMAIN telegrams
                   PROVE  /\ telegrams[i].dest \in DOMAIN last'
                          /\ telegrams[i].at <= last'[telegrams[i].dest].at
      BY <2>1
    <2> DEFINE d == telegrams[i].dest
    <2>4. d \in D /\ Value(telegrams[i]) \in ValuesOf(d)
      BY DEF ValuesOf
    <2>5. d \in DOMAIN last'
      BY <2>1, <2>3, <2>4
    <2>6. AtMost(Value(telegrams[i]), last'[d]) /\ last'[d].kind = "integer"
      <3>1. CASE d \in kept
        BY <2>1, <2>2, <2>3, <2>4, <3>1 DEF Stale, AllInteger
      <3>2. CASE d \notin kept
        BY <2>1, <2>2, <2>3, <2>4, <3>2 DEF AllInteger, ValuesOf, Value
      <3> QED BY <3>1, <3>2
    <2> QED BY <2>5, <2>6 DEF AtMost, Value
  <1>4. CASE \E d \in Dests, m \in Moments : Write(d, m)
    <2> PICK d \in Dests, m \in Moments : Write(d, m)
      BY <1>4
    <2>1. AllInteger(telegrams) /\ AllInteger(last) /\ reconciled
      BY DEF Write, Progress, AfterFlag, FormatsFollowFlag, HasText
    <2> DEFINE value == [at |-> m, kind |-> "integer"]
    <2>2. PICK n \in 1..MaxRow :
            telegrams' = [i \in DOMAIN telegrams \cup {n} |->
              IF i = n THEN [dest |-> d, at |-> m, kind |-> "integer"] ELSE telegrams[i]]
      BY DEF Write
    <2>3. last' = [e \in DOMAIN last \cup {d} |->
            IF e = d /\ (d \in DOMAIN last => ~AtMost(value, last[d])) THEN value ELSE last[e]]
      BY DEF Write
    <2>4. m <= last'[d].at /\ \A e \in DOMAIN last : last[e].at <= last'[e].at
      BY <2>1, <2>3, TimestampsAssumption DEF AtMost, AllInteger, TypeOK, RowTypes, Values
    <2>5. \A e \in DOMAIN last' : last'[e].at \in Nat
      BY <2>3, TimestampsAssumption DEF TypeOK, RowTypes, Values
    <2>6. \A i \in DOMAIN telegrams : telegrams[i].at \in Nat
      BY TimestampsAssumption DEF TypeOK, RowTypes, Rows
    <2>7. \A e \in DOMAIN last : last[e].at \in Nat
      BY TimestampsAssumption DEF TypeOK, RowTypes, Values
    <2>8. ASSUME NEW i \in DOMAIN telegrams'
          PROVE  /\ telegrams'[i].dest \in DOMAIN last'
                 /\ telegrams'[i].at <= last'[telegrams'[i].dest].at
      <3>1. CASE i = n
        BY <2>2, <2>3, <2>4, <3>1
      <3>2. CASE i # n
        <4>1. i \in DOMAIN telegrams /\ telegrams'[i] = telegrams[i]
          BY <2>2, <3>2
        <4>2. telegrams[i].dest \in DOMAIN last /\ telegrams[i].at <= last[telegrams[i].dest].at
          BY <2>1, <4>1
        <4> DEFINE e == telegrams[i].dest
        <4>3. e \in DOMAIN last' /\ last[e].at <= last'[e].at
          BY <2>3, <2>4, <4>2
        <4>4. telegrams[i].at <= last'[e].at
          BY <2>5, <2>6, <2>7, <4>1, <4>2, <4>3
        <4> QED BY <4>1, <4>3, <4>4
      <3> QED BY <3>1, <3>2
    <2> QED BY <2>8
  <1>5. CASE \E m \in Moments : Evict(m)
    BY <1>5 DEF Evict, meta
  <1> QED BY <1>1, <1>2, <1>3, <1>4, <1>5
      DEF Next, Initialize, Start, Probe, DropIndex, TableDone, SetFlag, Indexes, VacuumFits,
             Vacuum, VacuumDone, NoRoom,
             CutOff, Close, Optimize, ReadProbe, ReadRows, SpaceChanges, vars, file, meta

-----------------------------------------------------------------------------
(* A query that no format change overtakes.                                                 *)

LEMMA CalmStep ==
  ASSUME TypeOK, FormatsFollowFlag, Progress, Calm, ReaderExact, [Next]_vars
  PROVE  Calm' /\ ReaderExact'
  <1> USE DEF Calm, ReaderExact
  <1>1. CASE UNCHANGED <<telegrams, integerFlag, seen, asking, calm, textBounds, answer>>
    BY <1>1
  <1>2. CASE Batch
    BY <1>2 DEF Batch, meta, reader
  <1>3. CASE SetFlag
    BY <1>3 DEF SetFlag, reader
  <1>4. CASE \E d \in Dests, m \in Moments : Write(d, m)
    BY <1>4 DEF Write, Progress, AfterFlag, meta, reader
  <1>5. CASE \E m \in Moments : Evict(m)
    BY <1>5 DEF Evict, meta, reader
  <1>6. CASE ReadProbe
    BY <1>6 DEF ReadProbe, file, meta
  <1>7. CASE \E from, to \in Moments \cup {Open} : ReadRows(from, to)
    <2> PICK from \in Moments \cup {Open}, to \in Moments \cup {Open} : ReadRows(from, to)
      BY <1>7
    <2>1. Calm'
      BY DEF ReadRows, file, meta
    <2> DEFINE bound(m) == [at |-> m, kind |-> IF textBounds THEN "text" ELSE "integer"]
               found == {i \in DOMAIN telegrams : /\ from = Open \/ AtMost(bound(from), telegrams[i])
                                                  /\ to = Open \/ AtMost(telegrams[i], bound(to))}
               right == {i \in DOMAIN telegrams : /\ from = Open \/ from <= telegrams[i].at
                                                  /\ to = Open \/ telegrams[i].at <= to}
    <2>2. calm => \A i \in DOMAIN telegrams :
                    telegrams[i].kind = IF textBounds THEN "text" ELSE "integer"
      BY DEF ReadRows, FormatsFollowFlag, HasText, AllInteger
    <2>3. calm => found = right
      BY <2>2 DEF AtMost
    <2>4. answer' = [calm |-> calm, exact |-> found = right]
      BY DEF ReadRows
    <2> HIDE DEF found, right
    <2>5. answer'.calm => answer'.exact
      BY <2>3, <2>4, Zenon
    <2>6. ReaderExact'
      BY <2>5, Zenon
    <2> HIDE DEF Calm, ReaderExact
    <2> QED BY <2>1, <2>6
  <1>8. CASE \/ Start \/ Probe \/ DropIndex \/ TableDone \/ Indexes \/ VacuumFits \/ Vacuum \/ VacuumDone
             \/ Warm \/ NoRoom \/ CutOff \/ Close \/ Optimize \/ SpaceChanges \/ UNCHANGED vars
    <2>1. UNCHANGED <<telegrams, integerFlag, reader, calm>>
      BY <1>8 DEF Start, Probe, DropIndex, TableDone, Indexes, VacuumFits, Vacuum, VacuumDone, Warm, NoRoom,
                  CutOff, Close, Optimize, SpaceChanges, vars, file, meta
    <2> QED BY <1>1, <2>1 DEF reader
  <1> QED BY <1>2, <1>3, <1>4, <1>5, <1>6, <1>7, <1>8 DEF Next, Initialize

-----------------------------------------------------------------------------
(* The theorems.                                                                            *)

LEMMA InitInv ==
  Init => Inv
  <1> SUFFICES ASSUME Init PROVE Inv
    OBVIOUS
  <1>1. FormatsFollowFlag /\ Progress
    BY DEF Init, FormatsFollowFlag, Progress, AfterFlag, AfterIndex
  <1>2. Covered
    <2>1. PICK n \in 0..Legacy : telegrams \in [1..n -> {r \in Rows : r.kind = "text"}]
      BY DEF Init
    <2>2. PICK D \in SUBSET Dests : last \in [D -> {v \in Values : v.kind = "text"}]
      BY DEF Init
    <2> QED BY <2>1, <2>2 DEF Init, Covered, Newest, AtMost
  <1>3. Calm /\ ReaderExact
    BY DEF Init, Calm, ReaderExact
  <1> QED BY InitTypes, <1>1, <1>2, <1>3 DEF Inv

LEMMA NextInv ==
  Inv /\ [Next]_vars => Inv'
  BY NextTypes, FormatStep, CoveredStep, CalmStep DEF Inv

LEMMA InvHolds ==
  Spec => []Inv
  BY InitInv, NextInv, PTL DEF Spec

\* The file, the owner and the reader keep their types, and the conversion its place.
THEOREM TypeCorrect == Spec => []TypeOK
  <1>1. Inv => TypeOK
    BY DEF Inv
  <1> QED BY <1>1, InvHolds, PTL

\* The flag never claims integers for a file that still has a text timestamp, in whatever batches
\* and however often cut off the conversion ran.
THEOREM FlagIsTrue == Spec => []FormatsFollowFlag
  <1>1. Inv => FormatsFollowFlag
    BY DEF Inv
  <1> QED BY <1>1, InvHolds, PTL

\* A start that ends leaves no pass of the conversion behind, its index included.
THEOREM ReadyComplete == Spec => []ReadyIsComplete
  <1>1. Inv => ReadyIsComplete
    BY DEF Inv, ReadyIsComplete, Progress, AfterFlag, AfterIndex
  <1> QED BY <1>1, InvHolds, PTL

\* A store that is in use returns the newest telegram of every group address.
THEOREM LastValues == Spec => []LastValueNewest
  <1>1. Inv => LastValueNewest
    BY DEF Inv, LastValueNewest, Progress, Covered, Newest
  <1> QED BY <1>1, InvHolds, PTL

\* A query that is not overtaken by the conversion is exact, on either format.
THEOREM CalmReadsExact == Spec => []ReaderExact
  <1>1. Inv => ReaderExact
    BY DEF Inv
  <1> QED BY <1>1, InvHolds, PTL
-----------------------------------------------------------------------------
(* A start that was promised to be quick.                                                   *)

\* What needs_migration() did not find does not come up until the start has ended: there is nothing
\* to convert, to index or to repair, and a VACUUM comes from an earlier start only.
Promised ==
  ~reported /\ phase \notin {"down", "ready"} =>
    /\ phase \notin {"drop", "batch"}
    /\ integerFlag \/ ~HasRows
    /\ index
    /\ ~StatisticsDue
    /\ ~ReconcileDue
    /\ phase # "probe" => ~converted
    /\ phase \in {"fits", "vacuum"} => vacuumPending

\* A repair with nothing to repair leaves the last values alone, missing and stale ones included.
LEMMA WarmRepairsNothing ==
  ASSUME TypeOK, Warm, ~ReconcileDue
  PROVE  last' = last
  <1>1. CASE DOMAIN last # {} /\ reconciled
    BY <1>1 DEF Warm
  <1>2. CASE DOMAIN last = {} \/ ~reconciled
    <2>1. DOMAIN telegrams = {}
      BY <1>2 DEF ReconcileDue
    <2>2. \A d : ValuesOf(d) = {}
      BY <2>1 DEF ValuesOf
    <2>3. Stale = {}
      BY <2>2 DEF Stale
    <2>4. {telegrams[i].dest : i \in DOMAIN telegrams} = {}
      BY <2>1
    <2>5. last' \in [DOMAIN last -> Values] /\ \A d \in DOMAIN last : last'[d] = last[d]
      BY <1>2, <2>3, <2>4 DEF Warm
    <2>6. last \in [DOMAIN last -> Values]
      BY DEF TypeOK, RowTypes
    <2> QED BY <2>5, <2>6
  <1> QED BY <1>1, <1>2

LEMMA PromisedStep ==
  ASSUME TypeOK, Promised, [Next]_vars
  PROVE  Promised'
  <1> USE DEF Promised
  <1>1. CASE Start
    <2>1. /\ phase' = "probe" /\ reported' = NeedsMigration
          /\ UNCHANGED <<telegrams, last, integerFlag, vacuumPending, reconciled, index, statistics>>
      BY <1>1 DEF Start, file, meta, pages
    <2> QED BY <2>1 DEF NeedsMigration, PendingStartupWork, StatisticsDue, ReconcileDue, HasRows
  <1>2. CASE Probe
    <2>1. /\ phase = "probe" /\ converted' = (~integerFlag /\ HasText)
          /\ UNCHANGED <<telegrams, last, integerFlag, vacuumPending, reconciled, index, statistics, reported>>
          /\ \/ integerFlag /\ phase' = "indexes"
             \/ ~integerFlag /\ ~HasText /\ phase' = "flag"
             \/ ~integerFlag /\ HasText /\ phase' = "drop"
      BY <1>2 DEF Probe, file, meta, pages
    <2>2. ~reported => integerFlag \/ ~HasText
      BY <2>1 DEF HasRows, HasText, AllInteger
    <2> QED BY <2>1, <2>2 DEF StatisticsDue, ReconcileDue, HasRows
  <1>3. CASE DropIndex \/ Batch \/ TableDone
    <2>1. phase \in {"drop", "batch"} /\ reported' = reported
      BY <1>3 DEF DropIndex, Batch, TableDone
    <2> QED BY <2>1
  <1>4. CASE SetFlag
    BY <1>4 DEF SetFlag, pages, StatisticsDue, ReconcileDue
  <1>5. CASE Indexes
    <2>1. /\ phase = "indexes" /\ index' = TRUE /\ (statistics => statistics')
          /\ UNCHANGED <<telegrams, last, integerFlag, vacuumPending, reconciled, converted, reported>>
          /\ phase' = IF converted \/ vacuumPending THEN "fits" ELSE "warm"
      BY <1>5 DEF Indexes, meta
    <2> QED BY <2>1 DEF StatisticsDue, ReconcileDue, HasRows
  <1>6. CASE VacuumFits \/ Vacuum \/ VacuumDone
    <2>1. /\ phase \in {"fits", "vacuum", "unflag"} /\ phase' \in {"vacuum", "unflag", "warm"}
          /\ UNCHANGED <<telegrams, last, integerFlag, reconciled, index, statistics, converted, reported>>
          /\ phase' = "vacuum" => phase = "fits" /\ UNCHANGED vacuumPending
      BY <1>6 DEF VacuumFits, Vacuum, VacuumDone, pages, meta
    <2> QED BY <2>1 DEF StatisticsDue, ReconcileDue, HasRows
  <1>7. CASE Warm \/ NoRoom \/ CutOff \/ Close
    BY <1>7 DEF Warm, NoRoom, CutOff, Close
  <1>8. CASE \/ \E d \in Dests, m \in Moments : Write(d, m)
             \/ \E m \in Moments : Evict(m)
             \/ Optimize
    BY <1>8 DEF Write, Evict, Optimize, startup
  <1>9. CASE \/ ReadProbe \/ SpaceChanges \/ UNCHANGED vars
             \/ \E from, to \in Moments \cup {Open} : ReadRows(from, to)
    <2>1. UNCHANGED <<file, startup>>
      BY <1>9 DEF ReadProbe, SpaceChanges, ReadRows, vars
    <2> QED BY <2>1 DEF file, meta, pages, startup, StatisticsDue, ReconcileDue, HasRows
  <1> QED BY <1>1, <1>2, <1>3, <1>4, <1>5, <1>6, <1>7, <1>8, <1>9 DEF Next, Initialize

\* needs_migration() answered False: the start that follows rewrites no row, builds no index, analyses no
\* large table and repairs no last value, and compacts the file only if that was left over, whatever the
\* volume has done in between (base_sql.py:270-273).
THEOREM PromiseKept == Spec => QuickWhenPromised
  <1>1. Init => Promised
    BY DEF Init, Promised
  <1>2. Inv /\ Promised /\ [Next]_vars => Promised'
    BY PromisedStep DEF Inv
  <1>3. Inv /\ Promised /\ [Next]_vars
        => [ \/ phase = "batch" /\ <<telegrams, last>>' # <<telegrams, last>>
             \/ ~index /\ index' /\ DOMAIN telegrams # {}
             \/ phase = "indexes" /\ StatisticsDue /\ statistics'
             \/ phase = "vacuum" /\ phase' = "unflag" /\ ~vacuumPending
             \/ phase = "warm" /\ last' # last
             => reported ]_vars
    <2> SUFFICES ASSUME Inv, Promised, [Next]_vars, ~reported
                 PROVE  /\ phase # "batch"
                        /\ ~index => ~index'
                        /\ phase = "indexes" => ~StatisticsDue
                        /\ phase = "vacuum" => vacuumPending
                        /\ phase = "warm" => last' = last
      OBVIOUS
    <2>1. phase \notin {"drop", "batch"}
      BY DEF Promised
    <2>2. ASSUME ~index PROVE ~index'
      <3>1. phase # "indexes"
        BY <2>2 DEF Promised
      <3>2. ~Indexes
        BY <3>1 DEF Indexes
      <3> QED
        BY <2>2, <3>2 DEF Next, Initialize, Start, Probe, DropIndex, Batch, TableDone, SetFlag, VacuumFits, Vacuum,
           VacuumDone, Warm, NoRoom, CutOff, Close, Write, Evict, Optimize, ReadProbe, ReadRows, SpaceChanges,
           vars, file, pages
    <2>3. ASSUME phase = "warm" PROVE last' = last
      <3>1. CASE Warm
        BY <2>3, <3>1, WarmRepairsNothing DEF Promised, Inv
      <3>2. CASE ~Warm
        BY <2>3, <3>2 DEF Next, Initialize, Start, Probe, DropIndex, Batch, TableDone, SetFlag, Indexes, VacuumFits,
           Vacuum, VacuumDone, NoRoom, CutOff, Close, Write, Evict, Optimize, ReadProbe, ReadRows, SpaceChanges,
           vars, file
      <3> QED BY <3>1, <3>2
    <2> QED BY <2>1, <2>2, <2>3 DEF Promised
  <1> QED BY <1>1, <1>2, <1>3, InitInv, NextInv, PTL DEF Spec, QuickWhenPromised
=============================================================================
