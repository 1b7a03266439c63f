--------------------------- MODULE IntegerTimestamps ---------------------------
(***************************************************************************)
(* SqliteStore.initialize() on a file of a version before 0.15, whose      *)
(* timestamps are text: the rewrite to integer microseconds, in batches    *)
(* that commit on their own, with the index dropped and rebuilt, the       *)
(* statistics, the VACUUM at the end, the repair of the last values, and   *)
(* the flags in store_metadata that tell a later start, needs_migration()  *)
(* and read-only stores in other processes how far the file has come       *)
(* (backends/sqlite.py, backends/base_sql.py).                             *)
(*                                                                         *)
(* One process owns the file; it is cut off and started again at any       *)
(* point, and each of its steps is one transaction.  A read-only store of  *)
(* another process queries the file meanwhile.                             *)
(***************************************************************************)
EXTENDS Integers, FiniteSets

CONSTANTS
  Moments,    \* the instants telegrams carry
  K,          \* group addresses are 1..K, which are also the rowids of last_ga_telegrams
  Legacy,     \* how many telegrams the old file holds at most
  MaxRow,     \* bound on rowids of telegrams
  BatchRows,  \* _CONVERSION_BATCH_ROWS
  ReportRows, \* _STATISTICS_REPORT_ROWS
  MaxCuts,    \* bound on how often the owner is cut off
  ReaderOpen  \* another process has the file open with a read-only store

ASSUME TimestampsAssumption ==
  /\ Moments \subseteq Nat \ {0}
  /\ K \in Nat
  /\ MaxRow \in Nat
  /\ Legacy \in 0..MaxRow
  /\ BatchRows \in Nat \ {0}
  /\ ReportRows \in Nat \ {0}
  /\ MaxCuts \in Nat
  /\ ReaderOpen \in BOOLEAN

Dests  == 1..K
Kinds  == {"text", "integer"}
Rows   == [dest : Dests, at : Moments, kind : Kinds]
Values == [at : Moments, kind : Kinds]
Open   == 0   \* a query without this bound

\* Free disk space: less than half the file, less than the file, or enough for a copy of it.
Space == {"short", "half", "copy"}

\* The next step of initialize(), or where the owner is otherwise.
Phases == {"down", "probe", "drop", "batch", "flag", "indexes", "fits", "vacuum", "unflag", "warm",
           "ready"}

VARIABLES
  \* the file:
  telegrams,      \* rowid -> row, over the rowids in use
  last,           \* last_ga_telegrams: group address -> its newest telegram
  integerFlag,    \* store_metadata: timestamps_integer
  vacuumPending,  \* store_metadata: vacuum_pending
  reconciled,     \* store_metadata: last_ga_telegrams was repaired
  index,          \* ix_telegrams_timestamp exists
  statistics,     \* sqlite_stat1 knows that index
  bloated,        \* the pages the rewrite freed are still in the file
  space,          \* of its volume
  \* the process that owns the file:
  phase,
  table, low,     \* the conversion is at the rows of table behind low
  converted,      \* the conversion of this start found rows to rewrite
  cuts,           \* how often it was cut off
  reported,       \* what needs_migration() answered before this start
  \* a read-only store:
  asking,         \* a query looked the flag up and did not read its rows yet
  textBounds,     \* that query binds its range as text
  seen,           \* _integer_timestamps_seen
  \* history, which only the properties read:
  calm,           \* the file was in one format when the query began, and still is
  answer          \* the last query was calm, and found the rows in its range

meta    == <<integerFlag, vacuumPending, reconciled>>
pages   == <<index, statistics, bloated>>
file    == <<telegrams, last, meta, pages>>
startup == <<phase, table, low, converted, reported>>
reader  == <<asking, textBounds, seen, answer>>
vars    == <<file, space, startup, cuts, reader, calm>>
-----------------------------------------------------------------------------
\* SQLite's order of timestamps: integers come before text.
AtMost(a, b) ==
  \/ a.kind = b.kind /\ a.at <= b.at
  \/ a.kind = "integer" /\ b.kind = "text"

Value(t)    == [at |-> t.at, kind |-> t.kind]
ValuesOf(d) == {Value(telegrams[i]) : i \in {j \in DOMAIN telegrams : telegrams[j].dest = d}}

AllInteger(t) == \A i \in DOMAIN t : t[i].kind = "integer"

HasText == ~AllInteger(telegrams) \/ ~AllInteger(last)
HasRows == DOMAIN telegrams # {} \/ DOMAIN last # {}

StatisticsDue == ~statistics /\ Cardinality(DOMAIN telegrams) >= ReportRows
ReconcileDue  == (~reconciled \/ DOMAIN last = {}) /\ DOMAIN telegrams # {}

PendingStartupWork_Rows == ReconcileDue   \* variant: a missing index is not looked for

\* What the backends have in common: a missing index, last values to repair.
PendingStartupWork == ~index \/ ReconcileDue

\* needs_migration(): False promises that initialize() is quick.
NeedsMigration ==
  \/ StatisticsDue
  \/ ~integerFlag /\ HasRows
  \/ vacuumPending /\ space = "copy"
  \/ PendingStartupWork

RoomForIndex_Copy == space = "copy"   \* variant: asks for room for the whole file

\* The index rebuilt after the conversion is about half the file.
RoomForIndex == space # "short"
-----------------------------------------------------------------------------
(* An empty file, or one that 0.14 wrote: its last values, if they were not repaired yet,   *)
(* may be missing or stale, and outlive the telegrams retention has removed.                *)
Init ==
  /\ \E n \in 0..Legacy : telegrams \in [1..n -> {r \in Rows : r.kind = "text"}]
  /\ \E D \in SUBSET Dests : last \in [D -> {v \in Values : v.kind = "text"}]
  /\ reconciled \in BOOLEAN
  /\ reconciled => \A i \in DOMAIN telegrams :
       telegrams[i].dest \in DOMAIN last /\ AtMost(telegrams[i], last[telegrams[i].dest])
  /\ integerFlag = FALSE
  /\ vacuumPending = FALSE
  /\ index = TRUE
  /\ statistics \in BOOLEAN
  /\ bloated = FALSE
  /\ space \in Space
  /\ phase = "down"
  /\ table = "telegrams"
  /\ low = 0
  /\ converted = FALSE
  /\ cuts = 0
  /\ reported = FALSE
  /\ asking = FALSE
  /\ textBounds = FALSE
  /\ seen = FALSE
  /\ calm = FALSE
  /\ answer = [calm |-> TRUE, exact |-> TRUE]

-----------------------------------------------------------------------------
(* The owner.                                                                               *)

\* The host asks needs_migration() and calls initialize().
Start ==
  /\ phase = "down"
  /\ reported' = NeedsMigration
  /\ phase' = "probe"
  /\ UNCHANGED <<file, space, table, low, converted, cuts, reader, calm>>

\* Is there something to convert?  Then the volume must have room for the index.
Probe ==
  /\ phase = "probe"
  /\ converted' = (~integerFlag /\ HasText)
  /\ \/ integerFlag /\ phase' = "indexes"
     \/ ~integerFlag /\ ~HasText /\ phase' = "flag"
     \/ ~integerFlag /\ HasText /\ RoomForIndex /\ phase' = "drop"
  /\ UNCHANGED <<file, space, table, low, reported, cuts, reader, calm>>

DropIndex ==
  /\ phase = "drop"
  /\ index' = FALSE
  /\ statistics' = FALSE
  /\ phase' = "batch"
  /\ table' = "telegrams"
  /\ low' = 0
  /\ UNCHANGED <<telegrams, last, meta, bloated, space, converted, reported, cuts, reader, calm>>

Rewritten_OffByOne(t) ==   \* variant: the end of a range is left to the next one
  [i \in DOMAIN t |->
     IF low < i /\ i < low + BatchRows THEN [t[i] EXCEPT !.kind = "integer"] ELSE t[i]]

\* UPDATE ... WHERE typeof(timestamp) = 'text' AND rowid > low AND rowid <= high.
Rewritten(t) ==
  [i \in DOMAIN t |->
     IF low < i /\ i <= low + BatchRows THEN [t[i] EXCEPT !.kind = "integer"] ELSE t[i]]

RowsLeft_Always == low >= 0   \* variant: the ranges do not end at the last row

\* Rows of the table are left behind low.
RowsLeft ==
  \E i \in IF table = "telegrams" THEN DOMAIN telegrams ELSE DOMAIN last : i > low

\* One range of rows, a transaction of its own.
Batch ==
  /\ phase = "batch"
  /\ RowsLeft
  /\ \/ table = "telegrams" /\ telegrams' = Rewritten(telegrams) /\ UNCHANGED last
     \/ table = "last" /\ last' = Rewritten(last) /\ UNCHANGED telegrams
  /\ low' = low + BatchRows
  /\ bloated' = (bloated \/ telegrams' # telegrams \/ last' # last)
  /\ calm' = FALSE
  /\ UNCHANGED <<meta, index, statistics, space, phase, table, converted, reported, cuts, reader>>

\* The other table, or done.
TableDone ==
  /\ phase = "batch"
  /\ ~RowsLeft
  /\ \/ table = "telegrams" /\ table' = "last" /\ low' = 0 /\ UNCHANGED phase
     \/ table = "last" /\ phase' = "flag" /\ UNCHANGED <<table, low>>
  /\ UNCHANGED <<file, space, converted, reported, cuts, reader, calm>>

SetFlag ==
  /\ phase = "flag"
  /\ integerFlag' = TRUE
  /\ phase' = "indexes"
  /\ calm' = FALSE
  /\ UNCHANGED <<telegrams, last, vacuumPending, reconciled, pages, space, table, low, converted,
                 reported, cuts, reader>>

Indexes_Converted ==   \* variant: only the start that converted builds the index
  /\ phase = "indexes"
  /\ index \/ RoomForIndex
  /\ index' = (index \/ converted)
  /\ statistics' = (statistics \/ DOMAIN telegrams # {})
  /\ phase' = IF converted \/ vacuumPending THEN "fits" ELSE "warm"
  /\ UNCHANGED <<telegrams, last, meta, bloated, space, table, low, converted, reported, cuts,
                 reader, calm>>

Indexes_Forgets ==   \* variant: a skipped VACUUM is not taken up again
  /\ phase = "indexes"
  /\ index \/ RoomForIndex
  /\ index' = TRUE
  /\ statistics' = (statistics \/ DOMAIN telegrams # {})
  /\ phase' = IF converted THEN "fits" ELSE "warm"
  /\ UNCHANGED <<telegrams, last, meta, bloated, space, table, low, converted, reported, cuts,
                 reader, calm>>

\* The missing index, and with rows the missing statistics.  Is a VACUUM due?
Indexes ==
  /\ phase = "indexes"
  /\ index \/ RoomForIndex
  /\ index' = TRUE
  /\ statistics' = (statistics \/ DOMAIN telegrams # {})
  /\ phase' = IF converted \/ vacuumPending THEN "fits" ELSE "warm"
  /\ UNCHANGED <<telegrams, last, meta, bloated, space, table, low, converted, reported, cuts,
                 reader, calm>>

\* _vacuum_when_room(): without room the VACUUM waits for a later start.
VacuumFits ==
  /\ phase = "fits"
  /\ \/ space = "copy" /\ phase' = "vacuum" /\ UNCHANGED vacuumPending
     \/ space # "copy" /\ phase' = "warm" /\ vacuumPending' = TRUE
  /\ UNCHANGED <<telegrams, last, integerFlag, reconciled, pages, space, table, low, converted,
                 reported, cuts, reader, calm>>

Vacuum ==
  /\ phase = "vacuum"
  /\ space = "copy"
  /\ bloated' = FALSE
  /\ phase' = "unflag"
  /\ UNCHANGED <<telegrams, last, meta, index, statistics, space, table, low, converted, reported,
                 cuts, reader, calm>>

VacuumDone ==
  /\ phase = "unflag"
  /\ vacuumPending' = FALSE
  /\ phase' = "warm"
  /\ UNCHANGED <<telegrams, last, integerFlag, reconciled, pages, space, table, low, converted,
                 reported, cuts, reader, calm>>

NoneStale == {}   \* variant: rows that exist are left as they are

\* Last values that a telegram of theirs is newer than.
Stale == {d \in DOMAIN last : \E v \in ValuesOf(d) : ~AtMost(v, last[d])}

\* The cache is warmed, and last_ga_telegrams repaired once.
Warm ==
  /\ phase = "warm"
  /\ phase' = "ready"
  /\ \/ DOMAIN last # {} /\ reconciled /\ UNCHANGED <<last, reconciled>>
     \/ /\ DOMAIN last = {} \/ ~reconciled
        /\ LET kept == DOMAIN last \ Stale
               seenDests == {telegrams[i].dest : i \in DOMAIN telegrams}
           IN /\ last' \in [kept \cup seenDests -> Values]
              /\ \A d \in kept : last'[d] = last[d]
              /\ \A d \in seenDests \ kept :
                   last'[d] \in ValuesOf(d) /\ \A v \in ValuesOf(d) : AtMost(v, last'[d])
        /\ reconciled' = TRUE
  /\ UNCHANGED <<telegrams, integerFlag, vacuumPending, pages, space, table, low, converted,
                 reported, cuts, reader, calm>>

\* initialize() raises: the volume has become too full for the step that is next.
NoRoom ==
  /\ \/ phase = "probe" /\ ~integerFlag /\ HasText /\ ~RoomForIndex
     \/ phase = "indexes" /\ ~index /\ ~RoomForIndex
     \/ phase = "vacuum" /\ space # "copy"
  /\ phase' = "down"
  /\ UNCHANGED <<file, space, table, low, converted, reported, cuts, reader, calm>>

\* The process is killed, or the host cancels initialize().
CutOff ==
  /\ phase # "down"
  /\ cuts < MaxCuts
  /\ phase' = "down"
  /\ cuts' = cuts + 1
  /\ UNCHANGED <<file, space, table, low, converted, reported, reader, calm>>

Close ==
  /\ phase = "ready"
  /\ phase' = "down"
  /\ UNCHANGED <<file, space, table, low, converted, reported, cuts, reader, calm>>

\* store_many() of one telegram: appended, and the last value unless that is newer.
Write(d, m) ==
  LET value == [at |-> m, kind |-> "integer"]
  IN /\ phase = "ready"
     /\ \E n \in 1..MaxRow :
          /\ \A i \in DOMAIN telegrams : i < n
          /\ n = 1 \/ n - 1 \in DOMAIN telegrams
          /\ telegrams' = [i \in DOMAIN telegrams \cup {n} |->
               IF i = n THEN [dest |-> d, at |-> m, kind |-> "integer"] ELSE telegrams[i]]
     /\ last' = [e \in DOMAIN last \cup {d} |->
          IF e = d /\ (d \in DOMAIN last => ~AtMost(value, last[d])) THEN value ELSE last[e]]
     /\ UNCHANGED <<meta, pages, space, startup, cuts, reader, calm>>

\* evict_older_than(): the last values stay, stale statistics are refreshed.
Evict(m) ==
  LET kept == {i \in DOMAIN telegrams : AtMost([at |-> m, kind |-> "integer"], telegrams[i])}
  IN /\ phase = "ready"
     /\ telegrams' = [i \in kept |-> telegrams[i]]
     /\ statistics' = (statistics \/ kept # {})
     /\ UNCHANGED <<last, meta, index, bloated, space, startup, cuts, reader, calm>>

\* optimize() by the host.
Optimize ==
  /\ phase = "ready"
  /\ space = "copy"
  /\ bloated' = FALSE
  /\ UNCHANGED <<telegrams, last, meta, index, statistics, space, startup, cuts, reader, calm>>

-----------------------------------------------------------------------------
(* The read-only store, and the volume.                                                     *)

ReadProbe_Integer ==   \* variant: bounds are integers whatever the file holds
  /\ ReaderOpen
  /\ ~asking
  /\ asking' = TRUE
  /\ textBounds' = FALSE
  /\ seen' = (seen \/ integerFlag)
  /\ calm' = (integerFlag \/ \A i \in DOMAIN telegrams : telegrams[i].kind = "text")
  /\ UNCHANGED <<file, space, startup, cuts, answer>>

\* _text_timestamps(): the flag is looked up in a connection of its own, until it is seen.
ReadProbe ==
  /\ ReaderOpen
  /\ ~asking
  /\ asking' = TRUE
  /\ textBounds' = (~seen /\ ~integerFlag)
  /\ seen' = (seen \/ integerFlag)
  /\ calm' = (integerFlag \/ \A i \in DOMAIN telegrams : telegrams[i].kind = "text")
  /\ UNCHANGED <<file, space, startup, cuts, answer>>

\* The rows from one instant to another, as SQLite compares them with the bounds bound.
ReadRows(from, to) ==
  LET bound(m) == [at |-> m, kind |-> IF textBounds THEN "text" ELSE "integer"]
      found == {i \in DOMAIN telegrams : /\ from = Open \/ AtMost(bound(from), telegrams[i])
                                         /\ to = Open \/ AtMost(telegrams[i], bound(to))}
      right == {i \in DOMAIN telegrams : /\ from = Open \/ from <= telegrams[i].at
                                         /\ to = Open \/ telegrams[i].at <= to}
  IN /\ asking
     /\ asking' = FALSE
     /\ textBounds' = FALSE
     /\ calm' = FALSE
     /\ answer' = [calm |-> calm, exact |-> found = right]
     /\ UNCHANGED <<file, space, startup, cuts, seen>>

\* Other files come and go on the volume.
SpaceChanges ==
  /\ space' \in Space \ {space}
  /\ UNCHANGED <<file, startup, cuts, reader, calm>>

-----------------------------------------------------------------------------
Initialize == \/ Start \/ Probe \/ DropIndex \/ Batch \/ TableDone \/ SetFlag \/ Indexes
              \/ VacuumFits \/ Vacuum \/ VacuumDone \/ Warm \/ NoRoom

Next ==
  \/ Initialize
  \/ CutOff
  \/ Close
  \/ \E d \in Dests, m \in Moments : Write(d, m)
  \/ \E m \in Moments : Evict(m)
  \/ Optimize
  \/ ReadProbe
  \/ \E from, to \in Moments \cup {Open} : ReadRows(from, to)
  \/ SpaceChanges

Spec == Init /\ [][Next]_vars

\* The host starts the store again after a failed start, and initialize() goes on while it is not
\* cut off; the volume, the host's use and the reader are left free.
FairSpec == Spec /\ WF_vars(Initialize)
=============================================================================
