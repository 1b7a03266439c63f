----------------------------- MODULE UtcTimestamps -----------------------------
(***************************************************************************)
(* The conversion of an old SQLite file from local wall-clock digits to    *)
(* UTC (backends/sqlite.py): its classification at the first start, the    *)
(* boundary instant and the last rowid that tell old rows from new ones,   *)
(* and the one UPDATE per table, with the use of the store, retention and  *)
(* restarts in between.                                                    *)
(*                                                                         *)
(* Time is counted in units of which Hour make an hour. A row carries its  *)
(* instant `at`, which only properties read, and the digits the file       *)
(* holds: at + offset if a version before UTC wrote it (era "legacy"), at  *)
(* if this one did.                                                        *)
(***************************************************************************)
EXTENDS Integers, FiniteSets

CONSTANTS
  Dests,    \* group addresses
  Zones,    \* zones that may have written the file: offset `before` up to the instant `at`, `after` from it on
  Hour,     \* units of time in an hour
  Moments,  \* instants of the rows an old file may hold
  Legacy,   \* how many telegrams it holds at most
  Upgrade,  \* the time of the first start of this version
  MaxClock, \* bound on the time
  MaxRow,   \* bound on rowids
  Delay     \* how old a telegram may be when it is written

ASSUME UtcAssumption ==
  /\ Hour \in Nat \ {0} /\ Upgrade \in Nat /\ MaxClock \in Nat /\ MaxRow \in Nat /\ Delay \in Nat
  /\ Legacy \in 0..MaxRow
  /\ Moments \subseteq 0..(Upgrade - 1)
  /\ Zones \subseteq [at : Int, before : Int, after : Int]
  /\ IsFiniteSet(Dests)

VARIABLES
  zone,       \* the zone that wrote the file
  clock,      \* now, in UTC
  telegrams,  \* rowid -> row
  last,       \* last_ga_telegrams: destination -> row
  utcFlag,    \* timestamps_utc
  boundary,   \* timestamps_utc_from
  marker,     \* timestamps_legacy_max_rowid
  phase,      \* the next transaction of initialize(), or "ready", or "down"
  configured, \* the host passed legacy_timestamp_timezone
  reported,   \* needs_migration() before this start (history)
  lost        \* "no", "top" if the row of the marker was deleted, "all" if telegrams was emptied (history)

markers == <<utcFlag, boundary, marker>>
host == <<phase, configured, reported>>
vars == <<zone, clock, telegrams, last, markers, host, lost>>

None == -1 \* no value: instants of the boundary and rowids are natural numbers
Newest(S) == CHOOSE x \in S : \A y \in S : y <= x
Oldest(S) == CHOOSE x \in S : \A y \in S : x <= y

-----------------------------------------------------------------------------
(* Zones and offset intervals *)

UtcOffset(i) == IF i < zone.at THEN zone.before ELSE zone.after
Local(i) == i + UtcOffset(i)

\* fold=0: a repeated hour is its first pass, a gap has the offset before it.
OffsetAt(d) ==
  IF d < zone.at + Newest({zone.before, zone.after}) THEN zone.before ELSE zone.after

\* Bisects (before, after] for the first moment without the offset of `before`.
TransitionBetween(before, after) ==
  LET first[range \in Int \X Int] ==
        LET lo == range[1]
            hi == range[2]
            middle == (lo + hi) \div 2
        IN IF hi - lo <= 1 THEN hi
           ELSE first[IF OffsetAt(middle) = OffsetAt(before) THEN <<middle, hi>> ELSE <<lo, middle>>]
  IN first[<<before, after>>]

HourOf(d) == d - (d % Hour)

\* Where the offset changes, found by an hourly walk from the hour of the oldest row.
Boundaries(oldest, newest) ==
  LET start == HourOf(oldest)
      hours == {c \in start..(newest + Hour) : (c - start) % Hour = 0}
  IN {TransitionBetween(c - Hour, c) : c \in {h \in hours \ {start} : OffsetAt(h - Hour) # OffsetAt(h)}}

\* The CASE of the UPDATE: one branch per interval, the last one open.
OffsetIn(oldest, newest, d) ==
  LET passed == {b \in Boundaries(oldest, newest) : b <= d} IN
  OffsetAt(IF passed = {} THEN HourOf(oldest) ELSE Newest(passed))

-----------------------------------------------------------------------------
(* Probe and classification *)

\* The part of needs_migration() about this conversion; asked before initialize().
NeedsMigration_Telegrams(zoneGiven) == zoneGiven /\ ~utcFlag /\ telegrams # <<>>
NeedsMigration(zoneGiven) ==
  zoneGiven /\ ~utcFlag /\ (telegrams # <<>> \/ last # <<>>)

Rowids == DOMAIN telegrams
MaxRowid == IF Rowids = {} THEN 0 ELSE Newest(Rowids)

LegacyRow(d, i) == [dest |-> d, at |-> i, digits |-> Local(i), era |-> "legacy"]

\* Any file of a version before UTC: last values are the newest by their digits, retention may have
\* deleted telegrams and left last values.
Init ==
  /\ zone \in Zones
  /\ clock = Upgrade
  /\ telegrams \in UNION {[1..n -> {LegacyRow(d, i) : d \in Dests, i \in Moments}] : n \in 0..Legacy}
  /\ last \in UNION {{f \in [D -> {LegacyRow(d, i) : d \in Dests, i \in Moments}] : \A d \in D : f[d].dest = d} :
                     D \in SUBSET Dests}
  /\ \A i \in Rowids : telegrams[i].dest \in DOMAIN last /\ telegrams[i].digits <= last[telegrams[i].dest].digits
  /\ utcFlag = FALSE /\ boundary = None /\ marker = None
  /\ phase = "down" /\ configured = FALSE /\ reported = FALSE
  /\ lost = "no"

Start(zoneGiven) ==
  /\ phase = "down"
  /\ phase' = "classify"
  /\ configured' = zoneGiven
  /\ reported' = NeedsMigration(zoneGiven)
  /\ UNCHANGED <<zone, clock, telegrams, last, markers, lost>>

\* Nothing is recorded when the conversion follows at once: no row has been written since.
Mark ==
  IF boundary = None /\ ~configured
  THEN boundary' = clock /\ marker' = MaxRowid
  ELSE UNCHANGED <<boundary, marker>>

Classify ==
  /\ phase = "classify"
  /\ phase' = IF configured THEN "convert" ELSE "ready"
  /\ IF utcFlag THEN UNCHANGED markers
     ELSE IF telegrams = <<>> /\ last = <<>>
     THEN utcFlag' = TRUE /\ UNCHANGED <<boundary, marker>>
     ELSE Mark /\ UNCHANGED utcFlag
  /\ UNCHANGED <<zone, clock, telegrams, last, configured, reported, lost>>

-----------------------------------------------------------------------------
(* migrate_timestamps_to_utc() *)

\* The rowid tells the populations apart unless retention took the marked row; the boundary is read
\* in the frame of the old rows.
TelegramScope_Digits ==
  IF boundary = None THEN Rowids ELSE {i \in Rowids : telegrams[i].digits < Local(boundary)}
TelegramScope_Utc ==
  IF boundary = None THEN Rowids
  ELSE {i \in Rowids : (MaxRowid >= marker => i <= marker) /\ telegrams[i].digits < boundary}
TelegramScope ==
  IF boundary = None THEN Rowids
  ELSE IF MaxRowid >= marker
  THEN {i \in Rowids : i <= marker /\ telegrams[i].digits < Local(boundary)}
  ELSE {i \in Rowids : telegrams[i].digits < boundary}

\* Upserted in place, so only the boundary is left, and it is compared conservatively.
LastScope ==
  IF boundary = None THEN DOMAIN last ELSE {d \in DOMAIN last : last[d].digits < boundary}

\* One UPDATE: every row of the scope is read once and written once.
Converted_Statements(rows, scope) == \* one statement per interval, each reading what the last one wrote
  LET digits == {rows[k].digits : k \in scope}
      Shift(row, low, high) ==
        IF low <= row.digits /\ row.digits < high THEN [row EXCEPT !.digits = @ - OffsetAt(low)] ELSE row
  IN IF scope = {} THEN rows
     ELSE LET low == Oldest(digits) - Hour
              high == Newest(digits) + Hour
              cuts == Boundaries(Oldest(digits), Newest(digits))
              cut == IF cuts = {} THEN high ELSE Newest(cuts)
          IN [k \in DOMAIN rows |->
                IF k \in scope THEN Shift(Shift(rows[k], low, cut), cut, high) ELSE rows[k]]
Converted(rows, scope) ==
  LET digits == {rows[k].digits : k \in scope}
  IN [k \in DOMAIN rows |->
        IF k \in scope
        THEN [rows[k] EXCEPT !.digits = @ - OffsetIn(Oldest(digits), Newest(digits), @)]
        ELSE rows[k]]

MigrateTimestampsToUtc ==
  IF utcFlag THEN UNCHANGED <<telegrams, last, utcFlag>>
  ELSE /\ telegrams' = Converted(telegrams, TelegramScope)
       /\ last' = Converted(last, LastScope)
       /\ utcFlag' = TRUE

\* initialize() converts before the store is used.
Convert ==
  /\ phase = "convert"
  /\ phase' = "ready"
  /\ MigrateTimestampsToUtc
  /\ UNCHANGED <<zone, clock, boundary, marker, configured, reported, lost>>

\* The host calls it on a store in use.
MigrateCall ==
  /\ phase = "ready"
  /\ ~utcFlag
  /\ MigrateTimestampsToUtc
  /\ UNCHANGED <<zone, clock, boundary, marker, host, lost>>

\* InsufficientDiskSpaceError, a failed statement, or the process is killed: the transaction is rolled back.
CutOff ==
  /\ phase # "down"
  /\ phase' = "down"
  /\ UNCHANGED <<zone, clock, telegrams, last, markers, configured, reported, lost>>

-----------------------------------------------------------------------------
(* The store in use *)

Tick ==
  /\ clock < MaxClock
  /\ clock' = clock + 1
  /\ UNCHANGED <<zone, telegrams, last, markers, host, lost>>

\* store_many(): SQLite gives the next rowid after the largest there is.
Write(d, i) ==
  LET row == [dest |-> d, at |-> i, digits |-> i, era |-> "utc"] IN
  /\ phase = "ready"
  /\ MaxRowid < MaxRow
  /\ telegrams' = [k \in Rowids \cup {MaxRowid + 1} |-> IF k \in Rowids THEN telegrams[k] ELSE row]
  /\ last' = IF d \in DOMAIN last /\ row.digits <= last[d].digits
             THEN last
             ELSE [k \in DOMAIN last \cup {d} |-> IF k = d THEN row ELSE last[k]]
  /\ UNCHANGED <<zone, clock, markers, host, lost>>

\* What the marker is worth once `rest` is left of the telegrams.
Lost(rest) ==
  IF marker = None \/ marker = 0 THEN lost
  ELSE IF rest = {} THEN "all"
  ELSE IF lost = "no" /\ Newest(rest) < marker THEN "top"
  ELSE lost

Delete(rest) ==
  /\ telegrams' = [i \in rest |-> telegrams[i]]
  /\ lost' = Lost(rest)

\* Retention compares digits and leaves last values alone.
Evict(cutoff) ==
  LET rest == {i \in Rowids : telegrams[i].digits >= cutoff} IN
  /\ phase = "ready"
  /\ rest # Rowids
  /\ Delete(rest)
  /\ UNCHANGED <<zone, clock, last, markers, host>>

Clear ==
  /\ phase = "ready"
  /\ Delete({})
  /\ last' = <<>>
  /\ UNCHANGED <<zone, clock, markers, host>>

Next ==
  \/ \E zoneGiven \in BOOLEAN : Start(zoneGiven)
  \/ Classify
  \/ Convert
  \/ MigrateCall
  \/ CutOff
  \/ Tick
  \/ \E d \in Dests, i \in (clock - Delay)..clock : Write(d, i)
  \/ \E cutoff \in 0..clock : Evict(cutoff)
  \/ Clear

Spec == Init /\ [][Next]_vars

-----------------------------------------------------------------------------
(* What it promises *)

InUtc(row) == row.digits = row.at
Shifted(row) == row.digits = Local(row.at) - OffsetAt(Local(row.at))

\* A row this version wrote is never shifted, however often the store is started, with or without a
\* zone, and whatever retention deletes: telegrams as long as the marked row is there, last values
\* if their telegram is not older than the boundary (sqlite.py:695-716).
UtcRowsKept ==
  /\ lost = "no" => \A i \in Rowids : telegrams[i].era = "utc" => InUtc(telegrams[i])
  /\ \A d \in DOMAIN last :
       last[d].era = "utc" /\ (boundary = None \/ last[d].at >= boundary) => InUtc(last[d])

\* An old row holds its local digits, or has been shifted once, by the offset of its own local time,
\* though a table with a change of offset in it is shifted by intervals (sqlite.py:756-760).
LegacyShiftedOnce ==
  /\ \A i \in Rowids : telegrams[i].era = "legacy" => telegrams[i].digits = Local(telegrams[i].at) \/ Shifted(telegrams[i])
  /\ \A d \in DOMAIN last : last[d].era = "legacy" => last[d].digits = Local(last[d].at) \/ Shifted(last[d])

\* The boundary fell into the second pass of a repeated hour: a row of the first may have later digits.
SecondPass(i) == zone.at <= i /\ i < zone.at + (zone.before - zone.after)

\* Once the file is flagged, no old telegram has kept its local digits, and no old last value that the
\* conservative bound takes in (sqlite.py:646-689).
FlagMeansConverted ==
  utcFlag =>
    /\ lost = "no" /\ (boundary = None \/ ~SecondPass(boundary)) =>
         \A i \in Rowids : telegrams[i].era = "legacy" => Shifted(telegrams[i])
    /\ \A d \in DOMAIN last :
         last[d].era = "legacy" /\ (boundary = None \/ Local(last[d].at) < boundary) => Shifted(last[d])

\* needs_migration() answered False: the start that follows shifts no row (base_sql.py:270-273).
QuickWhenPromised ==
  [][phase = "convert" /\ <<telegrams, last>>' # <<telegrams, last>> => reported]_vars
=============================================================================
