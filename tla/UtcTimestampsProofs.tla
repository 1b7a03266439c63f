--------------------------- MODULE UtcTimestampsProofs ---------------------------
(***************************************************************************)
(* What the conversion to UTC promises, for every zone with one change of  *)
(* offset, every length of an hour, every file of an earlier version, and  *)
(* every sequence of starts, writes, evictions and cut-offs.               *)
(*                                                                         *)
(* The first part is about arithmetic alone: the hourly walk with its      *)
(* bisection finds the offset of every row (OffsetFound). The second part  *)
(* is an invariant about which rows are in the file when.                  *)
(***************************************************************************)
EXTENDS UtcTimestamps, OrderLemmas

-----------------------------------------------------------------------------
(* Finite sets of numbers *)

\* Oldest and Newest of a finite set of numbers are what they say.
LEMMA ChosenIs ==
  ASSUME NEW S \in SUBSET Int, IsFiniteSet(S), S # {}
  PROVE  /\ Oldest(S) \in S /\ \A y \in S : Oldest(S) <= y
         /\ Newest(S) \in S /\ \A y \in S : y <= Newest(S)
  BY LeastAndGreatest DEF Oldest, Newest

-----------------------------------------------------------------------------
(* The offset of a row *)

Zoned == zone \in [at : Int, before : Int, after : Int]

\* From these digits on, the zone has its later offset.
Switch == zone.at + Newest({zone.before, zone.after})

LEMMA SwitchIs ==
  ASSUME Zoned
  PROVE  /\ Switch \in Int /\ zone.before \in Int /\ zone.after \in Int /\ zone.at \in Int
         /\ \A d \in Int : OffsetAt(d) = IF d < Switch THEN zone.before ELSE zone.after
  <1> DEFINE S == {zone.before, zone.after}
  <1>1. S \in SUBSET Int /\ S # {} /\ zone.before \in Int /\ zone.after \in Int /\ zone.at \in Int
    BY DEF Zoned
  <1>2. IsFiniteSet(S)
    <2>1. IsFiniteSet({zone.before}) /\ S = {zone.before} \cup {zone.after}
      BY FS_Singleton
    <2> QED
      BY <2>1, FS_AddElement
  <1>3. Newest(S) \in Int
    BY <1>1, <1>2, ChosenIs
  <1> QED
    BY <1>1, <1>3 DEF Switch, OffsetAt

\* The bisection, a recursive function of an interval, halves the interval around the change of offset
\* until it is at the end of it: the shortest interval for which it did not would have a half for which it
\* does not either.
LEMMA TransitionIs ==
  ASSUME Zoned, NEW lo \in Int, NEW hi \in Int, lo < hi, OffsetAt(lo) # OffsetAt(hi)
  PROVE  TransitionBetween(lo, hi) = Switch
  <1> DEFINE Middle(r) == (r[1] + r[2]) \div 2
             Half(r) == IF OffsetAt(Middle(r)) = OffsetAt(lo) THEN <<Middle(r), r[2]>> ELSE <<r[1], Middle(r)>>
             Bisect(f) == [r \in Int \X Int |-> IF r[2] - r[1] <= 1 THEN r[2] ELSE f[Half(r)]]
             first == CHOOSE f : f = Bisect(f)
             End(r) == IF r[2] - r[1] <= 1 THEN r[2]
                       ELSE IF Switch <= r[1] THEN r[1] + 1 ELSE IF Switch <= r[2] THEN Switch ELSE r[2]
             ends == [r \in Int \X Int |-> End(r)]
  <1>1. TransitionBetween(lo, hi) = first[<<lo, hi>>]
    BY Zenon DEF TransitionBetween
  <1>2. /\ Switch \in Int /\ lo < Switch /\ Switch <= hi
        /\ \A d \in Int : OffsetAt(d) = OffsetAt(lo) <=> d < Switch
    BY SwitchIs
  <1>3. ASSUME NEW r \in Int \X Int, r[2] - r[1] > 1
        PROVE  /\ Middle(r) \in Int /\ r[1] < Middle(r) /\ Middle(r) < r[2]
               /\ Half(r) = IF Middle(r) < Switch THEN <<Middle(r), r[2]>> ELSE <<r[1], Middle(r)>>
               /\ Half(r) \in Int \X Int
    <2>1. Middle(r) \in Int /\ r[1] < Middle(r) /\ Middle(r) < r[2]
      BY <1>3
    <2> HIDE DEF Middle
    <2> QED
      BY <1>2, <2>1
  <1> HIDE DEF Half, Middle
  <1>4. ends = Bisect(ends)
    <2>1. ASSUME NEW r \in Int \X Int, r[2] - r[1] > 1
          PROVE  End(r) = End(Half(r)) /\ ends[Half(r)] = End(Half(r))
      <3>1. Half(r) \in Int \X Int
        BY <1>3, <2>1
      <3>2. CASE Middle(r) < Switch
        <4>1. Half(r)[1] = Middle(r) /\ Half(r)[2] = r[2]
          BY <1>3, <2>1, <3>2
        <4> QED
          BY <1>2, <1>3, <2>1, <3>1, <3>2, <4>1
      <3>3. CASE ~(Middle(r) < Switch)
        <4>1. Half(r)[1] = r[1] /\ Half(r)[2] = Middle(r)
          BY <1>3, <2>1, <3>3
        <4> QED
          BY <1>2, <1>3, <2>1, <3>1, <3>3, <4>1
      <3> QED
        BY <3>2, <3>3
    <2>2. ASSUME NEW r \in Int \X Int
          PROVE  End(r) = IF r[2] - r[1] <= 1 THEN r[2] ELSE ends[Half(r)]
      BY <2>1
    <2> HIDE DEF End
    <2> QED
      BY <2>2
  <1> HIDE DEF ends
  <1>5. first = Bisect(first)
    <2> HIDE DEF Bisect
    <2> QED
      BY <1>4, Zenon
  <1> HIDE DEF first
  <1>6. \A r \in Int \X Int : first[r] = IF r[2] - r[1] <= 1 THEN r[2] ELSE first[Half(r)]
    BY <1>5
  <1> HIDE DEF Bisect
  <1> DEFINE Missed(n) == \E r \in Int \X Int : n = r[2] - r[1] /\ r[1] < Switch /\ Switch <= r[2] /\ first[r] # Switch
             Lengths == {n \in Nat : Missed(n)}
  <1>7. Lengths = {}
    <2> SUFFICES ASSUME Lengths # {} PROVE FALSE
      OBVIOUS
    <2>1. PICK n \in Lengths : \A m \in Lengths : n <= m
      <3> HIDE DEF Missed
      <3> QED
        BY LeastNatural
    <2>2. PICK r \in Int \X Int : n = r[2] - r[1] /\ r[1] < Switch /\ Switch <= r[2] /\ first[r] # Switch
      OBVIOUS
    <2>3. r[2] - r[1] > 1
      BY <1>2, <1>6, <2>2
    <2>4. first[r] = first[Half(r)] /\ Half(r) \in Int \X Int
      BY <1>3, <1>6, <2>3
    <2>5. Half(r)[1] < Switch /\ Switch <= Half(r)[2] /\ Half(r)[2] - Half(r)[1] < n /\ Half(r)[2] - Half(r)[1] \in Nat
      BY <1>2, <1>3, <2>2, <2>3
    <2>6. Half(r)[2] - Half(r)[1] \in Lengths
      BY <2>2, <2>4, <2>5
    <2>7. n \in Nat
      OBVIOUS
    <2> HIDE DEF Lengths
    <2> QED
      BY <2>1, <2>5, <2>6, <2>7
  <1>8. hi - lo \in Nat /\ hi - lo \notin Lengths
    BY <1>7
  <1>9. <<lo, hi>> \in Int \X Int /\ <<lo, hi>>[1] = lo /\ <<lo, hi>>[2] = hi
    OBVIOUS
  <1> QED
    BY <1>1, <1>2, <1>8, <1>9
\* Of the hours from a row's on there is one that ends the interval of a change of offset, wherever it is.
LEMMA HourAround ==
  ASSUME NEW start \in Int, NEW moment \in Int, start < moment
  PROVE  \E c \in Int : (c - start) % Hour = 0 /\ c - Hour < moment /\ moment <= c /\ start < c
  <1> DEFINE q == (moment - start - 1) \div Hour
             c == start + Hour * (q + 1)
  <1>1. Hour \in Nat \ {0}
    BY UtcAssumption
  <1>2. /\ q \in Int /\ moment - start - 1 = Hour * q + ((moment - start - 1) % Hour)
        /\ 0 <= (moment - start - 1) % Hour /\ (moment - start - 1) % Hour < Hour
    BY <1>1
  <1> HIDE DEF q
  <1>3. Hour * (q + 1) = Hour * q + Hour /\ Hour * q \in Int
    BY <1>1, <1>2
  <1>4. (Hour * (q + 1)) % Hour = 0
    BY <1>1, <1>2
  <1>5. c \in Int /\ c - start = Hour * (q + 1) /\ c - Hour < moment /\ moment <= c
    BY <1>1, <1>2, <1>3
  <1> HIDE DEF c
  <1> QED
    BY <1>4, <1>5

\* The hourly walk over the rows finds the change of offset if one of them is behind it, and no other.
LEMMA BoundariesAre ==
  ASSUME Zoned, NEW oldest \in Int, NEW newest \in Int, oldest <= newest
  PROVE  /\ Boundaries(oldest, newest) \subseteq {Switch}
         /\ HourOf(oldest) < Switch /\ Switch <= newest /\ zone.before # zone.after => Switch \in Boundaries(oldest, newest)
         /\ HourOf(oldest) \in Int /\ HourOf(oldest) <= oldest
  <1> DEFINE start == HourOf(oldest)
             hours == {c \in start..(newest + Hour) : (c - start) % Hour = 0}
             crossed == {h \in hours \ {start} : OffsetAt(h - Hour) # OffsetAt(h)}
  <1>1. Hour \in Nat \ {0}
    BY UtcAssumption
  <1>2. start \in Int /\ start <= oldest
    BY <1>1 DEF HourOf
  <1>3. Boundaries(oldest, newest) = {TransitionBetween(c - Hour, c) : c \in crossed}
    BY DEF Boundaries
  <1>4. \A c \in crossed : TransitionBetween(c - Hour, c) = Switch
    <2> TAKE c \in crossed
    <2>1. c \in Int /\ c - Hour \in Int /\ c - Hour < c /\ OffsetAt(c - Hour) # OffsetAt(c)
      BY <1>1, <1>2
    <2> QED
      BY <2>1, TransitionIs
  <1>5. ASSUME start < Switch, Switch <= newest, zone.before # zone.after
        PROVE  Switch \in Boundaries(oldest, newest)
    <2>1. Switch \in Int
      BY SwitchIs
    <2>2. PICK c \in Int : (c - start) % Hour = 0 /\ c - Hour < Switch /\ Switch <= c /\ start < c
      BY <1>2, <1>5, <2>1, HourAround
    <2>3. OffsetAt(c - Hour) = zone.before /\ OffsetAt(c) = zone.after
      BY <1>1, <2>1, <2>2, SwitchIs
    <2>4. c \in crossed
      BY <1>1, <1>2, <1>5, <2>1, <2>2, <2>3
    <2> HIDE DEF crossed
    <2> QED
      BY <1>3, <1>4, <2>4
  <1> HIDE DEF crossed
  <1> QED
    BY <1>2, <1>3, <1>4, <1>5

\* Whatever the interval, a row among its rows gets the offset of its own digits.
LEMMA OffsetFound ==
  ASSUME Zoned, NEW oldest \in Int, NEW newest \in Int, NEW d \in Int, oldest <= d, d <= newest
  PROVE  OffsetIn(oldest, newest, d) = OffsetAt(d)
  <1> DEFINE passed == {b \in Boundaries(oldest, newest) : b <= d}
             start == HourOf(oldest)
  <1>1. OffsetIn(oldest, newest, d) = OffsetAt(IF passed = {} THEN start ELSE Newest(passed))
    BY DEF OffsetIn
  <1>2. /\ Boundaries(oldest, newest) \subseteq {Switch} /\ start \in Int /\ start <= oldest
        /\ start < Switch /\ Switch <= newest /\ zone.before # zone.after => Switch \in Boundaries(oldest, newest)
    BY BoundariesAre
  <1>3. Switch \in Int /\ \A e \in Int : OffsetAt(e) = IF e < Switch THEN zone.before ELSE zone.after
    BY SwitchIs
  <1> HIDE DEF start
  <1>4. CASE passed = {}
    <2>1. OffsetAt(start) = OffsetAt(d)
      BY <1>2, <1>3, <1>4
    <2> QED
      BY <1>1, <1>4, <2>1
  <1>5. CASE passed # {}
    <2>1. passed = {Switch} /\ Switch <= d
      BY <1>2, <1>5
    <2>2. Newest(passed) = Switch
      BY <1>3, <2>1 DEF Newest
    <2>3. OffsetAt(Switch) = OffsetAt(d)
      BY <1>3, <2>1
    <2> HIDE DEF passed
    <2> QED
      BY <1>1, <1>5, <2>2, <2>3
  <1> QED
    BY <1>4, <1>5
-----------------------------------------------------------------------------
(* The invariant *)

Row == [dest : Dests, at : Int, digits : Int, era : {"legacy", "utc"}]

Types ==
  /\ Zoned
  /\ clock \in Nat /\ Upgrade <= clock
  /\ DOMAIN telegrams \subseteq 1..MaxRow /\ telegrams \in [DOMAIN telegrams -> Row]
  /\ DOMAIN last \subseteq Dests /\ last \in [DOMAIN last -> Row]
  /\ utcFlag \in BOOLEAN
  /\ boundary \in Nat \cup {None} /\ marker \in Nat \cup {None}
  /\ boundary = None <=> marker = None
  /\ boundary # None => Upgrade <= boundary
  /\ phase \in {"down", "classify", "convert", "ready"}
  /\ configured \in BOOLEAN /\ reported \in BOOLEAN
  /\ lost \in {"no", "top", "all"}

\* An old row is older than the first start of this version, and has local digits until the conversion.
Old(row) ==
  row.era = "legacy" => row.at < Upgrade /\ (row.digits = Local(row.at) \/ (utcFlag /\ Shifted(row)))
OldRows == (\A i \in DOMAIN telegrams : Old(telegrams[i])) /\ (\A d \in DOMAIN last : Old(last[d]))

\* Before the file is marked or flagged the store has not been in use, and no row of this version is there.
Unmarked ==
  ~utcFlag /\ boundary = None =>
    /\ phase # "ready"
    /\ \A i \in DOMAIN telegrams : telegrams[i].era = "legacy"
    /\ \A d \in DOMAIN last : last[d].era = "legacy"

\* As long as the marked row, or a later one, is there, rowids tell old rows from new ones.
Apart ==
  boundary # None /\ lost = "no" =>
    /\ marker <= MaxRowid
    /\ \A i \in DOMAIN telegrams : telegrams[i].era = "legacy" <=> i <= marker

\* A start that was promised to be quick finds the file flagged or empty.
Promised ==
  /\ phase = "convert" => configured
  /\ phase \in {"classify", "convert"} /\ configured /\ ~reported =>
       utcFlag \/ (DOMAIN telegrams = {} /\ DOMAIN last = {})

Inv == Types /\ OldRows /\ Unmarked /\ Apart /\ UtcRowsKept /\ FlagMeansConverted /\ Promised

\* The largest of some rowids, or 0.
LEMMA LargestRowid ==
  ASSUME NEW S \in SUBSET (1..MaxRow), NEW m, m = IF S = {} THEN 0 ELSE Newest(S)
  PROVE  /\ IsFiniteSet(S) /\ S \in SUBSET Int
         /\ m \in Nat /\ (\A i \in S : i <= m) /\ (S # {} => m \in S)
  <1>1. MaxRow \in Int
    BY UtcAssumption
  <1>2. IsFiniteSet(1..MaxRow)
    BY <1>1, 1 \in Int, FS_Interval
  <1>3. IsFiniteSet(S)
    BY <1>2, FS_Subset, Zenon
  <1>4. S \in SUBSET Int /\ \A i \in S : i \in Nat
    BY <1>1
  <1>5. CASE S = {}
    BY <1>3, <1>4, <1>5
  <1>6. CASE S # {}
    <2>1. Newest(S) \in S /\ \A y \in S : y <= Newest(S)
      BY <1>3, <1>4, <1>6, ChosenIs
    <2>2. m = Newest(S)
      BY <1>6
    <2> QED
      BY <1>3, <1>4, <2>1, <2>2
  <1> QED
    BY <1>5, <1>6

\* Later instants have later digits, but for those in the second pass of a repeated hour.
LEMMA LocalOrder ==
  ASSUME Zoned, NEW i \in Int, NEW b \in Int, i < b, ~SecondPass(b)
  PROVE  Local(i) < Local(b)
  BY SwitchIs DEF Local, UtcOffset, SecondPass

LEMMA LocalType == ASSUME Zoned, NEW i \in Int PROVE Local(i) \in Int
  BY SwitchIs DEF Local, UtcOffset

\* The conversion takes its own offset off every row of the scope, and changes nothing else.
LEMMA ConvertedRows ==
  ASSUME Zoned, NEW rows, rows \in [DOMAIN rows -> Row], NEW scope \in SUBSET DOMAIN rows, IsFiniteSet(scope)
  PROVE  /\ DOMAIN Converted(rows, scope) = DOMAIN rows
         /\ Converted(rows, scope) \in [DOMAIN rows -> Row]
         /\ \A k \in DOMAIN rows :
              /\ k \notin scope => Converted(rows, scope)[k] = rows[k]
              /\ k \in scope => Converted(rows, scope)[k].digits = rows[k].digits - OffsetAt(rows[k].digits)
              /\ Converted(rows, scope)[k].at = rows[k].at /\ Converted(rows, scope)[k].era = rows[k].era
  <1> DEFINE digits == {rows[k].digits : k \in scope}
             new == Converted(rows, scope)
  <1>1. DOMAIN new = DOMAIN rows
    BY DEF Converted
  <1>2. ASSUME NEW k \in scope
        PROVE  new[k] = [rows[k] EXCEPT !.digits = rows[k].digits - OffsetAt(rows[k].digits)]
               /\ rows[k].digits - OffsetAt(rows[k].digits) \in Int
    <2>1. digits \in SUBSET Int /\ digits # {} /\ rows[k].digits \in digits
      BY DEF Row
    <2>2. IsFiniteSet(digits)
      <3> DEFINE digitsOf == [j \in scope |-> rows[j].digits]
      <3>1. digitsOf \in Surjection(scope, digits)
        BY DEF Surjection
      <3> QED
        BY <3>1, FS_Surjection
    <2> HIDE DEF digits
    <2>3. Oldest(digits) \in Int /\ Newest(digits) \in Int /\ rows[k].digits \in Int
          /\ Oldest(digits) <= rows[k].digits /\ rows[k].digits <= Newest(digits)
      BY <2>1, <2>2, ChosenIs
    <2>4. OffsetIn(Oldest(digits), Newest(digits), rows[k].digits) = OffsetAt(rows[k].digits)
      BY <2>3, OffsetFound
    <2>5. OffsetAt(rows[k].digits) \in Int
      BY <2>3, SwitchIs
    <2>6. new[k] = [rows[k] EXCEPT !.digits = rows[k].digits - OffsetIn(Oldest(digits), Newest(digits), rows[k].digits)]
      BY DEF Converted, digits
    <2> QED
      BY <2>3, <2>4, <2>5, <2>6
  <1>3. ASSUME NEW k \in DOMAIN rows, k \notin scope
        PROVE  new[k] = rows[k]
    BY <1>3 DEF Converted
  <1> HIDE DEF new
  <1>4. ASSUME NEW k \in DOMAIN rows
        PROVE  /\ new[k] \in Row /\ new[k].at = rows[k].at /\ new[k].era = rows[k].era
               /\ k \in scope => new[k].digits = rows[k].digits - OffsetAt(rows[k].digits)
    <2>1. CASE k \in scope
      BY <1>2, <2>1 DEF Row
    <2>2. CASE k \notin scope
      BY <1>3, <2>2
    <2> QED
      BY <2>1, <2>2
  <1>5. new = [k \in DOMAIN new |-> new[k]]
    BY DEF new, Converted
  <1>6. new \in [DOMAIN rows -> Row]
    BY <1>1, <1>4, <1>5
  <1> QED
    BY <1>1, <1>3, <1>4, <1>6 DEF new
-----------------------------------------------------------------------------
(* The invariant holds *)

LEMMA InvInit == Init => Inv
  <1> SUFFICES ASSUME Init PROVE Inv
    OBVIOUS
  <1>1. Zoned /\ clock = Upgrade /\ Upgrade \in Nat /\ Legacy \in 0..MaxRow /\ MaxRow \in Nat
        /\ utcFlag = FALSE /\ boundary = None /\ marker = None
        /\ phase = "down" /\ configured = FALSE /\ reported = FALSE /\ lost = "no"
    BY UtcAssumption DEF Init, Zoned
  <1> DEFINE OldRow == {LegacyRow(d, i) : d \in Dests, i \in Moments}
  <1>2. \A row \in OldRow : row \in Row /\ row.era = "legacy" /\ row.at < Upgrade /\ row.digits = Local(row.at)
    <2> SUFFICES ASSUME NEW d \in Dests, NEW i \in Moments
                 PROVE  LET row == LegacyRow(d, i)
                        IN row \in Row /\ row.era = "legacy" /\ row.at < Upgrade /\ row.digits = Local(row.at)
      OBVIOUS
    <2>1. i \in Int /\ i < Upgrade
      BY UtcAssumption
    <2>2. Local(i) \in Int
      BY <1>1, <2>1, LocalType
    <2> QED
      BY <2>1, <2>2 DEF LegacyRow, Row
  <1>3. DOMAIN telegrams \subseteq 1..MaxRow /\ telegrams \in [DOMAIN telegrams -> OldRow]
    <2>1. PICK n \in 0..Legacy : telegrams \in [1..n -> OldRow]
      BY DEF Init
    <2> HIDE DEF OldRow
    <2> QED
      BY <1>1, <2>1
  <1>4. DOMAIN last \subseteq Dests /\ last \in [DOMAIN last -> OldRow]
    <2>1. PICK D \in SUBSET Dests : last \in {f \in [D -> OldRow] : \A d \in D : f[d].dest = d}
      BY DEF Init
    <2> HIDE DEF OldRow
    <2> QED
      BY <2>1
  <1> HIDE DEF OldRow
  <1>5. /\ \A i \in DOMAIN telegrams : telegrams[i] \in OldRow
        /\ \A d \in DOMAIN last : last[d] \in OldRow
    BY <1>3, <1>4
  <1>6. Types
    <2>1. telegrams \in [DOMAIN telegrams -> Row] /\ last \in [DOMAIN last -> Row]
      BY <1>2, <1>3, <1>4
    <2>2. clock \in Nat /\ Upgrade <= clock /\ boundary \in Nat \cup {None} /\ marker \in Nat \cup {None}
      BY <1>1
    <2>3. utcFlag \in BOOLEAN /\ configured \in BOOLEAN /\ reported \in BOOLEAN
      BY <1>1, Zenon
    <2> QED
      BY <1>1, <1>3, <1>4, <2>1, <2>2, <2>3, Zenon DEF Types
  <1>7. OldRows
    BY <1>2, <1>5 DEF OldRows, Old
  <1>8. Unmarked /\ Apart /\ Promised /\ FlagMeansConverted
    BY <1>1, <1>2, <1>5 DEF Unmarked, Apart, Promised, FlagMeansConverted
  <1>9. UtcRowsKept
    BY <1>2, <1>5 DEF UtcRowsKept, Rowids
  <1> QED
    BY <1>6, <1>7, <1>8, <1>9 DEF Inv

\* A start begins: what needs_migration() answered is what the file needs.
LEMMA InvStart ==
  ASSUME Inv, NEW zoneGiven \in BOOLEAN, Start(zoneGiven)
  PROVE  Inv'
  <1> USE DEF Start, Inv
  <1>1. Types'
    BY DEF Types, Zoned, NeedsMigration, markers
  <1>2. OldRows' /\ UtcRowsKept' /\ FlagMeansConverted'
    BY DEF OldRows, Old, UtcRowsKept, FlagMeansConverted, markers, Rowids, InUtc, Shifted, Local, UtcOffset, OffsetAt, SecondPass
  <1>3. Unmarked' /\ Apart'
    BY DEF Unmarked, Apart, MaxRowid, Rowids, markers
  <1>4. Promised'
    <2>1. ASSUME zoneGiven, ~NeedsMigration(zoneGiven)
          PROVE  utcFlag \/ (DOMAIN telegrams = {} /\ DOMAIN last = {})
      <3>1. utcFlag \/ (telegrams = << >> /\ last = << >>)
        BY <2>1, Zenon DEF NeedsMigration
      <3>2. DOMAIN << >> = {}
        OBVIOUS
      <3> QED
        BY <3>1, <3>2, Zenon
    <2> QED
      BY <2>1, Zenon DEF Promised, markers
  <1> QED
    BY <1>1, <1>2, <1>3, <1>4

\* The file is flagged if it is empty, and else, without a zone, marked with its largest rowid.
LEMMA InvClassify ==
  ASSUME Inv, Classify
  PROVE  Inv'
  <1>1. Types /\ OldRows /\ Unmarked /\ Apart /\ UtcRowsKept /\ FlagMeansConverted /\ Promised
    BY DEF Inv
  <1>2. UNCHANGED <<zone, clock, telegrams, last, configured, reported, lost>>
    BY DEF Classify
  <1>3. MaxRowid \in Nat /\ \A i \in Rowids : i <= MaxRowid
    BY <1>1, LargestRowid DEF Types, Rowids, MaxRowid
  <1>4. phase' \in {"convert", "ready"} /\ (phase' = "convert" <=> configured) /\ phase = "classify"
    BY <1>1 DEF Classify, Types
  <1>5. \/ UNCHANGED markers
        \/ ~utcFlag /\ utcFlag' = TRUE /\ UNCHANGED <<boundary, marker>> /\ DOMAIN telegrams = {} /\ DOMAIN last = {}
        \/ ~utcFlag /\ utcFlag' = utcFlag /\ boundary = None /\ boundary' = clock /\ marker' = MaxRowid
    <2>1. DOMAIN << >> = {}
      OBVIOUS
    <2> QED
      BY <2>1, Zenon DEF Classify, Mark, markers
  <1>6. utcFlag' \/ boundary' # None \/ configured
    <2>1. clock # None
      BY <1>1 DEF Types, None
    <2> QED
      BY <2>1, <1>1 DEF Classify, Mark, markers, Types
  <1>7. \A i : Local(i)' = Local(i) /\ OffsetAt(i)' = OffsetAt(i) /\ SecondPass(i)' = SecondPass(i)
    BY <1>2 DEF Local, UtcOffset, OffsetAt, SecondPass
  <1>8. Types'
    <2>1. utcFlag' \in BOOLEAN /\ configured' \in BOOLEAN /\ reported' \in BOOLEAN
      BY <1>1, <1>2, <1>5, Zenon DEF Types, markers
    <2>2. boundary' \in Nat \cup {None} /\ marker' \in Nat \cup {None}
          /\ (boundary' = None <=> marker' = None) /\ (boundary' # None => Upgrade <= boundary')
      BY <1>1, <1>3, <1>5 DEF Types, markers, None
    <2>3. Zoned' /\ clock' \in Nat /\ Upgrade <= clock' /\ lost' \in {"no", "top", "all"}
      BY <1>1, <1>2 DEF Types, Zoned
    <2>4. /\ (DOMAIN telegrams \subseteq 1..MaxRow /\ telegrams \in [DOMAIN telegrams -> Row])'
          /\ (DOMAIN last \subseteq Dests /\ last \in [DOMAIN last -> Row])'
      BY <1>1, <1>2 DEF Types
    <2>5. phase' \in {"down", "classify", "convert", "ready"}
      BY <1>4
    <2> QED
      BY <2>1, <2>2, <2>3, <2>4, <2>5, Zenon DEF Types
  <1>9. OldRows'
    BY <1>1, <1>2, <1>5, <1>7 DEF OldRows, Old, Shifted, markers
  <1>10. Unmarked'
    BY <1>1, <1>2, <1>4, <1>5, <1>6 DEF Unmarked, markers
  <1>11. Apart'
    <2>1. (Rowids)' = Rowids /\ MaxRowid' = MaxRowid
      BY <1>2 DEF Rowids, MaxRowid
    <2>2. CASE UNCHANGED <<boundary, marker>>
      BY <1>1, <1>2, <2>1, <2>2 DEF Apart
    <2>3. CASE ~utcFlag /\ boundary = None /\ boundary' = clock /\ marker' = MaxRowid
      BY <1>1, <1>2, <1>3, <2>1, <2>3 DEF Apart, Unmarked, Rowids
    <2> QED
      BY <1>5, <2>2, <2>3 DEF markers
  <1>12. UtcRowsKept'
    BY <1>1, <1>2, <1>5 DEF UtcRowsKept, Unmarked, InUtc, Rowids, markers
  <1>13. FlagMeansConverted'
    BY <1>1, <1>2, <1>5, <1>7 DEF FlagMeansConverted, Shifted, Rowids, markers
  <1>14. Promised'
    BY <1>1, <1>2, <1>4, <1>5 DEF Promised, markers
  <1> QED
    BY <1>8, <1>9, <1>10, <1>11, <1>12, <1>13, <1>14 DEF Inv
\* A conversion shifts every old row it must, and no row of this version.
LEMMA InvConvert ==
  ASSUME Inv, ~utcFlag, MigrateTimestampsToUtc,
         UNCHANGED <<zone, clock, boundary, marker, configured, reported, lost>>, phase' = "ready"
  PROVE  Inv'
  <1>1. Types /\ OldRows /\ Unmarked /\ Apart /\ UtcRowsKept /\ FlagMeansConverted /\ Promised
    BY DEF Inv
  <1>2. telegrams' = Converted(telegrams, TelegramScope) /\ last' = Converted(last, LastScope) /\ utcFlag' = TRUE
    BY DEF MigrateTimestampsToUtc
  <1>3. \A i : Local(i)' = Local(i) /\ OffsetAt(i)' = OffsetAt(i) /\ SecondPass(i)' = SecondPass(i)
    BY DEF Local, UtcOffset, OffsetAt, SecondPass
  <1>4. IsFiniteSet(Rowids) /\ Rowids \in SUBSET Int /\ MaxRowid \in Nat /\ \A i \in Rowids : i <= MaxRowid
    BY <1>1, LargestRowid DEF Types, Rowids, MaxRowid
  <1>5. TelegramScope \in SUBSET Rowids /\ LastScope \in SUBSET DOMAIN last
    BY DEF TelegramScope, LastScope
  <1>6. IsFiniteSet(TelegramScope)
    BY <1>4, <1>5, FS_Subset, Zenon
  <1>7. IsFiniteSet(LastScope)
    <2>1. IsFiniteSet(Dests) /\ LastScope \in SUBSET Dests
      BY <1>1, <1>5, UtcAssumption DEF Types
    <2> QED
      BY <2>1, FS_Subset, Zenon
  <1> DEFINE Kept(rows, new, scope) ==
        /\ DOMAIN new = DOMAIN rows
        /\ new \in [DOMAIN rows -> Row]
        /\ \A k \in DOMAIN rows :
             /\ k \notin scope => new[k] = rows[k]
             /\ k \in scope => new[k].digits = rows[k].digits - OffsetAt(rows[k].digits)
             /\ new[k].at = rows[k].at /\ new[k].era = rows[k].era
  <1>8. Kept(telegrams, telegrams', TelegramScope)
    <2>1. Zoned /\ telegrams \in [DOMAIN telegrams -> Row] /\ TelegramScope \in SUBSET DOMAIN telegrams
      BY <1>1, <1>5 DEF Types, Rowids
    <2> QED
      BY <1>2, <1>6, <2>1, ConvertedRows, Zenon
  <1>9. Kept(last, last', LastScope)
    <2>1. Zoned /\ last \in [DOMAIN last -> Row]
      BY <1>1 DEF Types
    <2> QED
      BY <1>2, <1>5, <1>7, <2>1, ConvertedRows, Zenon
  \* what the scopes are
  <1>10. ASSUME NEW i \in Rowids, telegrams[i].era = "utc", lost = "no"
         PROVE  i \notin TelegramScope
    <2>1. boundary # None
      BY <1>1, <1>10 DEF Unmarked, Rowids
    <2>2. marker <= MaxRowid /\ ~(i <= marker)
      BY <1>1, <1>10, <2>1 DEF Apart, Rowids
    <2>3. marker \in Nat
      BY <1>1, <2>1 DEF Types
    <2> QED
      BY <1>4, <2>1, <2>2, <2>3 DEF TelegramScope
  <1>11. ASSUME NEW i \in Rowids, telegrams[i].era = "legacy", lost = "no", boundary = None \/ ~SecondPass(boundary)
         PROVE  i \in TelegramScope
    <2>1. CASE boundary = None
      BY <2>1 DEF TelegramScope
    <2>2. CASE boundary # None
      <3>1. marker <= MaxRowid /\ i <= marker /\ marker \in Nat
        BY <1>1, <1>11, <2>2 DEF Apart, Types, Rowids
      <3>2. telegrams[i].at \in Int /\ telegrams[i].at < Upgrade /\ telegrams[i].digits = Local(telegrams[i].at)
        BY <1>1, <1>11 DEF OldRows, Old, Types, Row, Rowids
      <3>3. boundary \in Int /\ telegrams[i].at < boundary
        BY <1>1, <2>2, <3>2, UtcAssumption DEF Types
      <3>4. telegrams[i].digits < Local(boundary)
        BY <1>1, <1>11, <2>2, <3>2, <3>3, LocalOrder DEF Types
      <3> QED
        BY <1>4, <2>2, <3>1, <3>4 DEF TelegramScope
    <2> QED
      BY <2>1, <2>2
  <1>12. ASSUME NEW d \in DOMAIN last, last[d].era = "utc", boundary = None \/ last[d].at >= boundary
         PROVE  d \notin LastScope
    <2>1. boundary # None
      BY <1>1, <1>12 DEF Unmarked
    <2>2. last[d].digits = last[d].at /\ last[d].at \in Int /\ boundary \in Nat
      BY <1>1, <1>12, <2>1 DEF UtcRowsKept, InUtc, Types, Row
    <2> QED
      BY <1>12, <2>1, <2>2 DEF LastScope
  <1>13. ASSUME NEW d \in DOMAIN last, last[d].era = "legacy", boundary = None \/ Local(last[d].at) < boundary
         PROVE  d \in LastScope
    BY <1>1, <1>13 DEF LastScope, OldRows, Old
  \* and what that means
  <1>14. DOMAIN telegrams' = Rowids /\ DOMAIN last' = DOMAIN last
    BY <1>8, <1>9 DEF Rowids
  <1>15. ASSUME NEW i \in Rowids
         PROVE  /\ telegrams'[i].at = telegrams[i].at /\ telegrams'[i].era = telegrams[i].era
                /\ i \notin TelegramScope => telegrams'[i] = telegrams[i]
                /\ i \in TelegramScope => telegrams'[i].digits = telegrams[i].digits - OffsetAt(telegrams[i].digits)
    BY <1>8 DEF Rowids
  <1>16. ASSUME NEW d \in DOMAIN last
         PROVE  /\ last'[d].at = last[d].at /\ last'[d].era = last[d].era
                /\ d \notin LastScope => last'[d] = last[d]
                /\ d \in LastScope => last'[d].digits = last[d].digits - OffsetAt(last[d].digits)
    BY <1>9
  <1>17. Types'
    <2>1. telegrams' \in [DOMAIN telegrams' -> Row] /\ last' \in [DOMAIN last' -> Row]
      BY <1>8, <1>9
    <2> HIDE DEF Kept
    <2>2. utcFlag' \in BOOLEAN /\ configured' \in BOOLEAN /\ reported' \in BOOLEAN
      BY <1>1, <1>2, Zenon DEF Types
    <2>3. DOMAIN telegrams' \subseteq 1..MaxRow /\ DOMAIN last' \subseteq Dests
      BY <1>1, <1>14 DEF Types, Rowids
    <2>4. Zoned' /\ (clock \in Nat /\ Upgrade <= clock)' /\ (lost \in {"no", "top", "all"})'
          /\ (boundary \in Nat \cup {None} /\ marker \in Nat \cup {None})'
          /\ (boundary = None <=> marker = None)' /\ (boundary # None => Upgrade <= boundary)'
      BY <1>1 DEF Types, Zoned, None
    <2> QED
      BY <2>1, <2>2, <2>3, <2>4, Zenon DEF Types
  <1> HIDE DEF Kept
  <1>18. OldRows'
    <2>1. ASSUME NEW i \in Rowids, telegrams[i].era = "legacy"
          PROVE  telegrams'[i].at < Upgrade
                 /\ (telegrams'[i].digits = Local(telegrams'[i].at)
                     \/ telegrams'[i].digits = Local(telegrams'[i].at) - OffsetAt(Local(telegrams'[i].at)))
      BY <1>1, <1>15, <2>1 DEF OldRows, Old, Rowids
    <2>2. ASSUME NEW d \in DOMAIN last, last[d].era = "legacy"
          PROVE  last'[d].at < Upgrade
                 /\ (last'[d].digits = Local(last'[d].at)
                     \/ last'[d].digits = Local(last'[d].at) - OffsetAt(Local(last'[d].at)))
      BY <1>1, <1>16, <2>2 DEF OldRows, Old
    <2> QED
      BY <1>2, <1>3, <1>14, <1>15, <1>16, <2>1, <2>2 DEF OldRows, Old, Shifted
  <1>19. Unmarked' /\ Promised'
    BY <1>2 DEF Unmarked, Promised
  <1>20. Apart'
    <2>1. MaxRowid' = MaxRowid
      BY <1>14 DEF MaxRowid, Rowids
    <2> QED
      BY <1>1, <1>14, <1>15, <2>1 DEF Apart, Rowids
  <1>21. UtcRowsKept'
    <2>1. ASSUME NEW i \in Rowids, lost = "no", telegrams[i].era = "utc"
          PROVE  telegrams'[i].digits = telegrams'[i].at
      BY <1>1, <1>10, <1>15, <2>1 DEF UtcRowsKept, InUtc
    <2>2. ASSUME NEW d \in DOMAIN last, last[d].era = "utc", boundary = None \/ last[d].at >= boundary
          PROVE  last'[d].digits = last'[d].at
      BY <1>1, <1>12, <1>16, <2>2 DEF UtcRowsKept, InUtc
    <2> QED
      BY <1>14, <1>15, <1>16, <2>1, <2>2 DEF UtcRowsKept, InUtc, Rowids
  <1>22. FlagMeansConverted'
    <2>1. ASSUME NEW i \in Rowids, lost = "no", boundary = None \/ ~SecondPass(boundary), telegrams[i].era = "legacy"
          PROVE  telegrams'[i].digits = Local(telegrams'[i].at) - OffsetAt(Local(telegrams'[i].at))
      BY <1>1, <1>11, <1>15, <2>1 DEF OldRows, Old, Rowids
    <2>2. ASSUME NEW d \in DOMAIN last, last[d].era = "legacy", boundary = None \/ Local(last[d].at) < boundary
          PROVE  last'[d].digits = Local(last'[d].at) - OffsetAt(Local(last'[d].at))
      BY <1>1, <1>13, <1>16, <2>2 DEF OldRows, Old
    <2> QED
      BY <1>3, <1>14, <1>15, <1>16, <2>1, <2>2 DEF FlagMeansConverted, Shifted, Rowids
  <1> QED
    BY <1>17, <1>18, <1>19, <1>20, <1>21, <1>22 DEF Inv
\* Steps that change no row, no flag and no mark.
LEMMA InvQuiet ==
  ASSUME Inv, UNCHANGED <<zone, telegrams, last, markers, configured, reported, lost>>,
         clock' \in Nat /\ clock <= clock',
         phase' = phase \/ phase' = "down" \/ (phase' = "ready" /\ utcFlag)
  PROVE  Inv'
  <1>1. Types /\ OldRows /\ Unmarked /\ Apart /\ UtcRowsKept /\ FlagMeansConverted /\ Promised
    BY DEF Inv
  <1>2. \A i : Local(i)' = Local(i) /\ OffsetAt(i)' = OffsetAt(i) /\ SecondPass(i)' = SecondPass(i)
    BY DEF Local, UtcOffset, OffsetAt, SecondPass
  <1>3. Types'
    <2>1. phase' \in {"down", "classify", "convert", "ready"}
      BY <1>1 DEF Types
    <2>2. clock' \in Nat /\ Upgrade <= clock'
      BY <1>1, UtcAssumption DEF Types
    <2>3. Zoned'
      BY <1>1 DEF Types, Zoned
    <2> QED
      BY <1>1, <2>1, <2>2, <2>3, Zenon DEF Types, markers
  <1>4. OldRows'
    BY <1>1, <1>2 DEF OldRows, Old, Shifted, markers
  <1>5. Unmarked'
    BY <1>1 DEF Unmarked, markers
  <1>6. Apart'
    BY <1>1 DEF Apart, MaxRowid, Rowids, markers
  <1>7. UtcRowsKept' /\ FlagMeansConverted'
    BY <1>1, <1>2 DEF UtcRowsKept, FlagMeansConverted, InUtc, Shifted, Rowids, markers
  <1>8. Promised'
    BY <1>1 DEF Promised, markers
  <1> QED
    BY <1>3, <1>4, <1>5, <1>6, <1>7, <1>8 DEF Inv

\* A new telegram gets a rowid above the mark.
LEMMA InvWrite ==
  ASSUME Inv, NEW d \in Dests, NEW i \in Int, Write(d, i)
  PROVE  Inv'
  <1> DEFINE row == [dest |-> d, at |-> i, digits |-> i, era |-> "utc"]
  <1>1. Types /\ OldRows /\ Unmarked /\ Apart /\ UtcRowsKept /\ FlagMeansConverted /\ Promised
    BY DEF Inv
  <1>2. UNCHANGED <<zone, clock, markers, phase, configured, reported, lost>> /\ phase = "ready" /\ MaxRowid < MaxRow
    BY DEF Write, host
  <1>3. \A k : Local(k)' = Local(k) /\ OffsetAt(k)' = OffsetAt(k) /\ SecondPass(k)' = SecondPass(k)
    BY <1>2 DEF Local, UtcOffset, OffsetAt, SecondPass
  <1>4. MaxRowid \in Nat /\ \A k \in Rowids : k \in Int /\ k <= MaxRowid
    BY <1>1, LargestRowid DEF Types, Rowids, MaxRowid
  <1>5. row \in Row /\ row.era = "utc" /\ row.digits = row.at /\ row.at = i
    BY DEF Row
  <1>6. /\ DOMAIN telegrams' = Rowids \cup {MaxRowid + 1}
        /\ \A k \in Rowids : telegrams'[k] = telegrams[k]
        /\ telegrams'[MaxRowid + 1] = row
        /\ telegrams' = [k \in DOMAIN telegrams' |-> telegrams'[k]]
    BY <1>4 DEF Write
  <1>7. /\ DOMAIN last' \subseteq DOMAIN last \cup {d}
        /\ \A k \in DOMAIN last' : last'[k] = row \/ (k \in DOMAIN last /\ last'[k] = last[k])
        /\ last' = [k \in DOMAIN last' |-> last'[k]]
    <2>1. CASE last' = last
      BY <1>1, <2>1 DEF Types
    <2>2. CASE last' = [k \in DOMAIN last \cup {d} |-> IF k = d THEN row ELSE last[k]]
      BY <2>2
    <2> QED
      BY <2>1, <2>2 DEF Write
  <1> HIDE DEF row
  <1>8. Types'
    <2>1. DOMAIN telegrams' \subseteq 1..MaxRow
      BY <1>1, <1>2, <1>4, <1>6, UtcAssumption DEF Types, Rowids
    <2>2. telegrams' \in [DOMAIN telegrams' -> Row]
      BY <1>1, <1>5, <1>6 DEF Types, Rowids
    <2>3. DOMAIN last' \subseteq Dests /\ last' \in [DOMAIN last' -> Row]
      BY <1>1, <1>5, <1>7 DEF Types
    <2>4. Zoned'
      BY <1>1, <1>2 DEF Types, Zoned
    <2> QED
      BY <1>1, <1>2, <2>1, <2>2, <2>3, <2>4, Zenon DEF Types, markers
  <1>9. OldRows'
    <2>1. \A k \in DOMAIN telegrams' : telegrams'[k].era = "legacy" => k \in Rowids /\ telegrams'[k] = telegrams[k]
      BY <1>5, <1>6
    <2>2. \A k \in DOMAIN last' : last'[k].era = "legacy" => k \in DOMAIN last /\ last'[k] = last[k]
      BY <1>5, <1>7
    <2> QED
      BY <1>1, <1>2, <1>3, <2>1, <2>2 DEF OldRows, Old, Shifted, Rowids, markers
  <1>10. Unmarked' /\ Promised'
    BY <1>1, <1>2 DEF Unmarked, Promised, markers
  <1>11. Apart'
    <2>1. MaxRowid + 1 <= MaxRowid' /\ MaxRowid' \in Nat
      <3>1. (DOMAIN telegrams \subseteq 1..MaxRow)' /\ MaxRowid' = IF (DOMAIN telegrams)' = {} THEN 0 ELSE Newest((DOMAIN telegrams)')
        BY <1>8 DEF Types, MaxRowid, Rowids
      <3>2. MaxRowid' \in Nat /\ \A k \in DOMAIN telegrams' : k <= MaxRowid'
        BY <3>1, LargestRowid
      <3> QED
        BY <1>6, <3>2
    <2>2. SUFFICES ASSUME boundary # None, lost = "no"
                   PROVE  marker <= MaxRowid' /\ \A k \in DOMAIN telegrams' : telegrams'[k].era = "legacy" <=> k <= marker
      BY <1>2 DEF Apart, markers
    <2>3. marker \in Nat /\ marker <= MaxRowid /\ \A k \in Rowids : telegrams[k].era = "legacy" <=> k <= marker
      BY <1>1, <2>2 DEF Apart, Types, Rowids
    <2>4. \A k \in Rowids : telegrams'[k].era = "legacy" <=> k <= marker
      BY <1>6, <2>3
    <2>5. telegrams'[MaxRowid + 1].era # "legacy" /\ ~(MaxRowid + 1 <= marker)
      BY <1>4, <1>5, <1>6, <2>3
    <2>6. marker <= MaxRowid'
      BY <1>4, <2>1, <2>3
    <2> QED
      BY <1>6, <2>4, <2>5, <2>6
  <1>12. UtcRowsKept'
    <2>1. lost = "no" => \A k \in DOMAIN telegrams' : telegrams'[k].era = "utc" => telegrams'[k].digits = telegrams'[k].at
      BY <1>1, <1>5, <1>6 DEF UtcRowsKept, InUtc, Rowids
    <2>2. \A k \in DOMAIN last' :
            last'[k].era = "utc" /\ (boundary = None \/ last'[k].at >= boundary) => last'[k].digits = last'[k].at
      BY <1>1, <1>5, <1>7 DEF UtcRowsKept, InUtc
    <2> QED
      BY <1>2, <2>1, <2>2 DEF UtcRowsKept, InUtc, Rowids, markers
  <1>13. FlagMeansConverted'
    <2>1. \A k \in DOMAIN telegrams' : telegrams'[k].era = "legacy" => k \in Rowids /\ telegrams'[k] = telegrams[k]
      BY <1>5, <1>6
    <2>2. \A k \in DOMAIN last' : last'[k].era = "legacy" => k \in DOMAIN last /\ last'[k] = last[k]
      BY <1>5, <1>7
    <2> QED
      BY <1>1, <1>2, <1>3, <2>1, <2>2 DEF FlagMeansConverted, Shifted, Rowids, markers
  <1> QED
    BY <1>8, <1>9, <1>10, <1>11, <1>12, <1>13 DEF Inv

\* Rows are deleted: what is left is as old as it was, and the mark is void once its row is gone.
LEMMA InvDelete ==
  ASSUME Inv, NEW rest \in SUBSET Rowids, Delete(rest),
         last' = last \/ last' = << >>,
         UNCHANGED <<zone, clock, markers, host>>
  PROVE  Inv'
  <1>1. Types /\ OldRows /\ Unmarked /\ Apart /\ UtcRowsKept /\ FlagMeansConverted /\ Promised
    BY DEF Inv
  <1>2. \A k : Local(k)' = Local(k) /\ OffsetAt(k)' = OffsetAt(k) /\ SecondPass(k)' = SecondPass(k)
    BY DEF Local, UtcOffset, OffsetAt, SecondPass
  <1>3. /\ DOMAIN telegrams' = rest /\ telegrams' = [k \in rest |-> telegrams[k]]
        /\ \A k \in DOMAIN telegrams' : k \in DOMAIN telegrams /\ telegrams'[k] = telegrams[k]
    BY DEF Delete, Rowids
  <1>4. /\ \A k \in DOMAIN last' : k \in DOMAIN last /\ last'[k] = last[k]
        /\ DOMAIN last' \subseteq DOMAIN last
        /\ last' \in [DOMAIN last' -> Row]
    <2>1. CASE last' = last
      BY <1>1, <2>1 DEF Types
    <2>2. CASE last' = << >>
      <3>1. DOMAIN last' = {}
        BY <2>2
      <3>2. last' \in [{} -> Row]
        BY <2>2
      <3> QED
        BY <3>1, <3>2
    <2> QED
      BY <2>1, <2>2
  <1>5. rest \in SUBSET (1..MaxRow)
    BY <1>1 DEF Types, Rowids
  <1>6. lost' \in {"no", "top", "all"} /\ (lost' = "no" => lost = "no")
    BY <1>1 DEF Delete, Lost, Types
  <1>7. Types'
    <2>1. telegrams' \in [DOMAIN telegrams' -> Row] /\ DOMAIN telegrams' \subseteq 1..MaxRow
      BY <1>1, <1>3, <1>5 DEF Types
    <2>2. DOMAIN last' \subseteq Dests
      BY <1>1, <1>4 DEF Types
    <2>3. Zoned'
      BY <1>1 DEF Types, Zoned
    <2> QED
      BY <1>1, <1>4, <1>6, <2>1, <2>2, <2>3, Zenon DEF Types, markers, host
  <1>8. OldRows'
    BY <1>1, <1>2, <1>3, <1>4 DEF OldRows, Old, Shifted, markers
  <1>9. Unmarked' /\ Promised'
    <2>1. Unmarked'
      BY <1>1, <1>3, <1>4 DEF Unmarked, markers, host
    <2>2. Promised'
      <3>1. DOMAIN telegrams = {} => DOMAIN telegrams' = {}
        BY <1>3
      <3>2. DOMAIN last = {} => DOMAIN last' = {}
        BY <1>4
      <3> QED
        BY <1>1, <3>1, <3>2 DEF Promised, markers, host
    <2> QED
      BY <2>1, <2>2
  <1>10. Apart'
    <2>1. SUFFICES ASSUME boundary # None, lost' = "no"
                   PROVE  marker <= MaxRowid' /\ \A k \in DOMAIN telegrams' : telegrams'[k].era = "legacy" <=> k <= marker
      BY DEF Apart, markers
    <2>2. marker \in Nat /\ \A k \in DOMAIN telegrams : telegrams[k].era = "legacy" <=> k <= marker
      BY <1>1, <1>6, <2>1 DEF Apart, Types
    <2>3. MaxRowid' = IF rest = {} THEN 0 ELSE Newest(rest)
      BY <1>3 DEF MaxRowid, Rowids
    <2>4. MaxRowid' \in Nat
      BY <1>5, <2>3, LargestRowid
    <2>5. marker # None
      BY <2>2 DEF None
    <2>6. marker = 0 \/ (rest # {} /\ ~(Newest(rest) < marker))
      BY <1>6, <2>1, <2>5 DEF Delete, Lost
    <2>7. marker <= MaxRowid'
      BY <2>2, <2>3, <2>4, <2>6
    <2> QED
      BY <1>3, <2>2, <2>7
  <1>11. UtcRowsKept' /\ FlagMeansConverted'
    BY <1>1, <1>2, <1>3, <1>4, <1>6 DEF UtcRowsKept, FlagMeansConverted, InUtc, Shifted, Rowids, markers
  <1> QED
    BY <1>7, <1>8, <1>9, <1>10, <1>11 DEF Inv

LEMMA InvStep ==
  ASSUME Inv, [Next]_vars
  PROVE  Inv'
  <1>1. clock \in Nat /\ Delay \in Nat
    BY UtcAssumption DEF Inv, Types
  <1>2. ASSUME NEW zoneGiven \in BOOLEAN, Start(zoneGiven) PROVE Inv'
    BY <1>2, InvStart
  <1>3. ASSUME Classify PROVE Inv'
    BY <1>3, InvClassify
  <1>4. ASSUME Convert PROVE Inv'
    <2>1. CASE utcFlag
      BY <1>1, <1>4, <2>1, InvQuiet DEF Convert, MigrateTimestampsToUtc, markers
    <2>2. CASE ~utcFlag
      BY <1>4, <2>2, InvConvert DEF Convert
    <2> QED
      BY <2>1, <2>2
  <1>5. ASSUME MigrateCall PROVE Inv'
    BY <1>5, InvConvert DEF MigrateCall, host
  <1>6. ASSUME CutOff PROVE Inv'
    BY <1>1, <1>6, InvQuiet DEF CutOff
  <1>7. ASSUME Tick PROVE Inv'
    BY <1>1, <1>7, InvQuiet DEF Tick, host
  <1>8. ASSUME NEW d \in Dests, NEW i \in (clock - Delay)..clock, Write(d, i) PROVE Inv'
    <2>1. i \in Int
      BY <1>1
    <2> QED
      BY <1>8, <2>1, InvWrite
  <1>9. ASSUME NEW cutoff \in 0..clock, Evict(cutoff) PROVE Inv'
    <2> DEFINE rest == {i \in Rowids : telegrams[i].digits >= cutoff}
    <2>1. rest \in SUBSET Rowids /\ Delete(rest) /\ last' = last /\ UNCHANGED <<zone, clock, markers, host>>
      BY <1>9 DEF Evict
    <2> QED
      BY <2>1, InvDelete, Zenon
  <1>10. ASSUME Clear PROVE Inv'
    <2>1. {} \in SUBSET Rowids
      OBVIOUS
    <2> QED
      BY <1>10, <2>1, InvDelete DEF Clear
  <1>11. ASSUME UNCHANGED vars PROVE Inv'
    <2>1. UNCHANGED <<zone, clock, telegrams, last, markers, phase, configured, reported, lost>> /\ clock <= clock'
      BY <1>1, <1>11 DEF vars, host
    <2> QED
      BY <1>1, <2>1, InvQuiet
  <1> QED
    BY <1>2, <1>3, <1>4, <1>5, <1>6, <1>7, <1>8, <1>9, <1>10, <1>11, Zenon DEF Next

LEMMA Invariant == Spec => []Inv
  <1>1. Inv /\ [Next]_vars => Inv'
    BY InvStep
  <1> QED
    BY <1>1, InvInit, PTL DEF Spec

-----------------------------------------------------------------------------
(* What it promises *)

\* Whatever happens to the store, a row this version wrote keeps its UTC digits: a telegram as long as
\* the marked row is there, a last value that is not older than the boundary (_telegram_scope and
\* _last_scope of migrate_timestamps_to_utc).
THEOREM UtcRowsStay == Spec => []UtcRowsKept
  BY Invariant, PTL DEF Inv

\* A row of an earlier version holds its local digits or has lost the offset of its own local time, once:
\* never twice, and never the offset of another interval of the CASE.
THEOREM ShiftedOnce == Spec => []LegacyShiftedOnce
  <1>1. Inv => LegacyShiftedOnce
    BY DEF Inv, OldRows, Old, LegacyShiftedOnce, Rowids
  <1> QED
    BY <1>1, Invariant, PTL

\* Once timestamps_utc is set no old telegram is left unconverted, unless the mark was lost or fell into
\* the second pass of a repeated hour, and no old last value below the boundary.
THEOREM FlagIsConverted == Spec => []FlagMeansConverted
  BY Invariant, PTL DEF Inv

\* A start for which needs_migration() answered False shifts no row.
THEOREM PromiseKept == Spec => QuickWhenPromised
  <1>1. ASSUME Inv, [Next]_vars, phase = "convert", <<telegrams, last>>' # <<telegrams, last>>
        PROVE  reported
    <2>1. Convert
      BY <1>1 DEF Next, Start, Classify, MigrateCall, CutOff, Tick, Write, Evict, Clear, vars
    <2>2. ~utcFlag
      BY <1>1, <2>1 DEF Convert, MigrateTimestampsToUtc
    <2>3. SUFFICES ASSUME ~reported PROVE FALSE
      OBVIOUS
    <2>4. DOMAIN telegrams = {} /\ DOMAIN last = {}
      BY <1>1, <2>2, <2>3 DEF Inv, Promised
    <2>5. \A rows, scope : rows \in [{} -> Row] => Converted(rows, scope) = rows
      BY DEF Converted
    <2>6. telegrams \in [{} -> Row] /\ last \in [{} -> Row]
      BY <1>1, <2>4 DEF Inv, Types
    <2> QED
      BY <1>1, <2>1, <2>2, <2>5, <2>6 DEF Convert, MigrateTimestampsToUtc
  <1>2. Inv /\ [Next]_vars => [phase = "convert" /\ <<telegrams, last>>' # <<telegrams, last>> => reported]_vars
    BY <1>1
  <1> QED
    BY <1>2, Invariant, PTL DEF Spec, QuickWhenPromised
=============================================================================
