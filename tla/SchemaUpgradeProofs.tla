-------------------------- MODULE SchemaUpgradeProofs --------------------------
(***************************************************************************)
(* Values and flags of the upgrade, for every number of processes and      *)
(* rows. Control says who may be where: what a start knows of the flags is *)
(* not stale while it holds its table lock, and no flag is set before the  *)
(* columns are done. Contents says what the rows may hold meanwhile.       *)
(***************************************************************************)
EXTENDS SchemaUpgradeProps, FiniteSetTheorems, TLAPS

Flags == {Unwrapping, Recovery}
SqlitePhases == {"tables", "columns", "rename", "create", "copy", "passes"}
PostgresPhases == {"inspect", "alter", "backfill", "lock", "work"}

Types ==
  /\ backend \in {"sqlite", "postgres"}
  /\ schema \in Schemas
  /\ flags \subseteq Flags
  /\ phase \in [Processes -> SqlitePhases \cup PostgresPhases \cup {"ready", "down"}]
  /\ known \in [Processes -> SUBSET Flags]
  /\ columns \in [Processes -> Schemas]
  /\ locks \in [Holders -> Modes]
  /\ torn \in BOOLEAN

\* The columns are those of this version.
Settled == schema.layout = "current" /\ schema.value = "json" /\ schema.numeric = TRUE

Backed ==
  /\ \A p \in Processes : phase[p] \in SqlitePhases => backend = "sqlite"
  /\ \A p \in Processes : phase[p] \in PostgresPhases => backend = "postgres"
  /\ locks["before"] # "none" => backend = "postgres" /\ Settled
  /\ torn => backend = "sqlite"

OneOwner ==
  backend = "sqlite" => \A p, q \in Processes : phase[p] # "down" /\ phase[q] # "down" => p = q

OneBackfill == \A p \in Processes : phase[p] \in {"lock", "work"} => advisory = {p}

\* Whoever is about to unwrap holds the lock under which nobody else can.
Known ==
  \A p \in Processes :
    /\ known[p] \subseteq flags
    /\ phase[p] = "work" /\ Unwrapping \in flags => Unwrapping \in known[p]
    /\ phase[p] = "work" /\ Unwrapping \notin known[p] => locks[p] = "access exclusive"

ColumnsFirst ==
  /\ flags # {} => Settled
  /\ \A p \in Processes : phase[p] \in {"backfill", "lock", "work"} => Settled
  /\ \A p \in Processes : phase[p] \in {"rename", "create", "copy"} => flags = {}
  /\ \A p \in Processes : phase[p] = "rename" => schema.layout # "current"

Control == Types /\ Backed /\ OneOwner /\ OneBackfill /\ Known /\ ColumnsFirst

-----------------------------------------------------------------------------
(* Who may be where *)

\* Nothing of telegrams' columns is pending exactly if they are settled.
LEMMA SettledColumns == schema \in Schemas => (ColumnsPending <=> ~Settled)
  <1> SUFFICES ASSUME schema \in Schemas PROVE ColumnsPending <=> ~Settled
    OBVIOUS
  <1> DEFINE s == [schema EXCEPT !.float = FALSE]
  <1>1. /\ s \in Schemas /\ Current \in Schemas
        /\ s.layout = schema.layout /\ s.value = schema.value /\ s.numeric = schema.numeric /\ s.float = FALSE
        /\ Current.layout = "current" /\ Current.value = "json" /\ Current.numeric = TRUE /\ Current.float = FALSE
    BY DEF Schemas, Current, Layouts
  <1> HIDE DEF s
  <1>2. s = Current <=> /\ s.layout = Current.layout /\ s.value = Current.value
                        /\ s.numeric = Current.numeric /\ s.float = Current.float
    BY <1>1 DEF Schemas
  <1> QED
    BY <1>1, <1>2 DEF ColumnsPending, Settled, s

\* The columns of this version are settled.
LEMMA CurrentSchema ==
  /\ Current \in Schemas
  /\ Current.layout = "current" /\ Current.value = "json" /\ Current.numeric = TRUE
  BY DEF Current, Schemas, Layouts

\* A database of an earlier version has no flag, no lock and no start under way.
LEMMA ControlInit == Init => Control
  <1> SUFFICES ASSUME Init PROVE Control
    OBVIOUS
  <1>1. backend \in {"sqlite", "postgres"}
    BY UpgradeAssumption DEF Init
  <1>2. Types
    BY <1>1, CurrentSchema DEF Init, Types, Flags, Modes, SqlitePhases
  <1>3. Backed /\ OneOwner /\ OneBackfill /\ Known /\ ColumnsFirst
    BY DEF Init, Backed, OneOwner, OneBackfill, Known, ColumnsFirst, SqlitePhases, PostgresPhases, Holders, Sessions
  <1> QED
    BY <1>2, <1>3 DEF Control

\* A start begins, and reads no more than whether something is pending.
LEMMA ControlStart ==
  ASSUME Control, NEW p \in Processes, Start(p)
  PROVE  Control'
  <1> USE DEF Control
  <1>1. /\ UNCHANGED <<backend, schema, flags, columns, known, locks, advisory, torn>>
        /\ phase[p] = "down" /\ backend = "sqlite" => \A q \in Processes : phase[q] = "down"
        /\ phase' = [phase EXCEPT ![p] = IF backend = "sqlite" THEN "tables" ELSE "inspect"]
    BY DEF Start, Go, data, seen, pg
  <1>2. Types'
    BY <1>1 DEF Types, SqlitePhases, PostgresPhases
  <1>3. Backed' /\ OneOwner'
    BY <1>1 DEF Types, Backed, OneOwner, SqlitePhases, PostgresPhases, Settled
  <1>4. OneBackfill' /\ Known' /\ ColumnsFirst'
    BY <1>1 DEF Types, OneBackfill, Known, ColumnsFirst, Settled
  <1> QED
    BY <1>2, <1>3, <1>4

\* The columns of a SQLite file change before any flag is set.
LEMMA ControlColumns ==
  ASSUME Control, NEW p \in Processes, CreateAll(p) \/ AddColumn(p) \/ Rename(p) \/ Create(p)
  PROVE  Control'
  <1> USE DEF Control
  <1>1. /\ UNCHANGED <<backend, flags, columns, known, locks, advisory, torn>>
        /\ phase[p] \in SqlitePhases
        /\ \E next \in SqlitePhases :
             /\ phase' = [phase EXCEPT ![p] = next]
             /\ next = "rename" => phase[p] = "rename" \/ (schema' = schema /\ schema.layout # "current" /\ ~Settled)
             /\ next = "create" => phase[p] \in {"rename", "create"}
             /\ next = "copy" => phase[p] \in {"create", "copy"}
        /\ schema' \in Schemas
        /\ Settled => Settled'
        /\ schema' = schema \/ phase[p] # "rename"
    <2>1. CASE CreateAll(p)
      BY <2>1, CurrentSchema DEF CreateAll, Go, seen, pg, Types, Settled, SqlitePhases
    <2>2. CASE AddColumn(p)
      <3>1. schema' \in Schemas /\ (Settled => Settled')
        BY <2>2 DEF AddColumn, Types, Settled, Schemas
      <3> QED
        BY <2>2, <3>1 DEF AddColumn, Go, seen, pg, Types, Settled, SqlitePhases
    <2>3. CASE Rename(p)
      BY <2>3 DEF Rename, Go, seen, pg, Types, Settled, SqlitePhases
    <2>4. CASE Create(p)
      BY <2>4, CurrentSchema DEF Create, Go, seen, pg, Types, Settled, SqlitePhases
    <2> QED
      BY <2>1, <2>2, <2>3, <2>4
  <1>2. backend = "sqlite" /\ \A q \in Processes \ {p} : phase[q] = "down"
    BY <1>1 DEF Backed, OneOwner, Types, SqlitePhases
  <1>3. Types'
    BY <1>1 DEF Types, SqlitePhases
  <1>4. Backed' /\ OneOwner'
    BY <1>1, <1>2 DEF Types, Backed, OneOwner, SqlitePhases, PostgresPhases
  <1>5. OneBackfill' /\ Known'
    BY <1>1 DEF Types, OneBackfill, Known, SqlitePhases
  <1>6. ColumnsFirst'
    BY <1>1, <1>2 DEF Types, ColumnsFirst, SqlitePhases
  <1> QED
    BY <1>3, <1>4, <1>5, <1>6

\* The passes of a SQLite start end it, with the columns of this version.
LEMMA ControlPasses ==
  ASSUME Control, NEW p \in Processes, NEW S, NEW whole \in BOOLEAN, Passes(p, S, whole)
  PROVE  Control'
  <1> USE DEF Control
  <1>1. /\ UNCHANGED <<backend, locks, advisory>>
        /\ phase[p] \in {"copy", "passes"}
        /\ phase' = [phase EXCEPT ![p] = "ready"]
        /\ columns' = [columns EXCEPT ![p] = Current]
        /\ known' = [known EXCEPT ![p] = {}]
        /\ schema' = Current
        /\ flags \subseteq flags' /\ flags' \subseteq Flags
        /\ torn' = (torn \/ ~whole)
    BY DEF Passes, Leave, Go, pg, Types, Flags
  <1>2. backend = "sqlite" /\ \A q \in Processes \ {p} : phase[q] = "down"
    BY <1>1 DEF Backed, OneOwner, Types, SqlitePhases
  <1>3. Settled'
    BY <1>1, CurrentSchema DEF Settled
  <1>4. Types'
    BY <1>1, CurrentSchema DEF Types
  <1>5. Backed' /\ OneOwner'
    BY <1>1, <1>2, <1>3 DEF Types, Backed, OneOwner, SqlitePhases, PostgresPhases
  <1>6. OneBackfill' /\ Known'
    BY <1>1, <1>2 DEF Types, OneBackfill, Known
  <1>7. ColumnsFirst'
    BY <1>1, <1>2, <1>3 DEF Types, ColumnsFirst
  <1> QED
    BY <1>4, <1>5, <1>6, <1>7

\* A start on PostgreSQL reads the columns and changes them.
LEMMA ControlAlter ==
  ASSUME Control, NEW p \in Processes, Inspect(p) \/ Alter(p)
  PROVE  Control'
  <1> USE DEF Control
  <1>1. /\ UNCHANGED <<backend, flags, locks, advisory, torn>>
        /\ phase[p] \in {"inspect", "alter"}
        /\ \E next \in {"alter", "backfill", "down"} :
             phase' = [phase EXCEPT ![p] = next] /\ (next = "backfill" => Settled')
        /\ columns' \in [Processes -> Schemas]
        /\ known' = known \/ known' = [known EXCEPT ![p] = {}]
        /\ schema' \in Schemas
        /\ Settled => Settled'
    <2>1. CASE Inspect(p)
      BY <2>1 DEF Inspect, Go, data, pg, Types, Settled
    <2>2. CASE Alter(p)
      <3> DEFINE new == [Current EXCEPT !.float = schema.float \/ (schema.value = "float" /\ schema.numeric)]
      <3>1. new \in Schemas /\ new.layout = "current" /\ new.value = "json" /\ new.numeric = TRUE
        BY DEF Current, Schemas, Layouts, Types
      <3>2. schema' = schema \/ schema' = new
        BY <2>2 DEF Alter
      <3>3. schema' \in Schemas /\ (Settled => Settled')
        BY <3>1, <3>2 DEF Settled, Types
      <3>4. \/ /\ phase' = [phase EXCEPT ![p] = "backfill"] /\ UNCHANGED seen
               /\ schema' = new \/ (schema' = schema /\ ~ColumnsPending)
            \/ Leave(p, "down")
        BY <2>2 DEF Alter, Go, ColumnsPending
      <3>5. phase' = [phase EXCEPT ![p] = "backfill"] /\ UNCHANGED seen => Settled'
        BY <3>1, <3>4, SettledColumns DEF Settled, Types, Leave, Go
      <3> QED
        BY <2>2, <3>3, <3>4, <3>5, CurrentSchema DEF Alter, Leave, Go, seen, pg, Types
    <2> QED
      BY <2>1, <2>2
  <1>2. backend = "postgres"
    BY <1>1 DEF Backed, PostgresPhases
  <1>3. Types'
    BY <1>1 DEF Types, PostgresPhases
  <1>4. Backed' /\ OneOwner'
    BY <1>1, <1>2 DEF Types, Backed, OneOwner, SqlitePhases, PostgresPhases
  <1>5. OneBackfill' /\ Known'
    BY <1>1 DEF Types, OneBackfill, Known
  <1>6. ColumnsFirst'
    BY <1>1, <1>2 DEF Types, ColumnsFirst, Backed, SqlitePhases
  <1> QED
    BY <1>3, <1>4, <1>5, <1>6

\* One start at a time gets to the backfill; another one is turned away.
LEMMA ControlBegin ==
  ASSUME Control, NEW p \in Processes, BackfillBegin(p)
  PROVE  Control'
  <1> USE DEF Control
  <1>1. /\ UNCHANGED <<backend, schema, flags, locks, torn>> /\ phase[p] = "backfill"
        /\ columns' = columns \/ columns' = [columns EXCEPT ![p] = Current]
        /\ \/ /\ phase' = [phase EXCEPT ![p] = "ready"] /\ known' = [known EXCEPT ![p] = {}]
              /\ UNCHANGED advisory
           \/ /\ phase' = [phase EXCEPT ![p] = "lock"] /\ known' = [known EXCEPT ![p] = flags]
              /\ advisory = {} /\ advisory' = {p}
    BY DEF BackfillBegin, Leave, Go, data
  <1>2. backend = "postgres" /\ Settled
    BY <1>1 DEF Backed, PostgresPhases, ColumnsFirst
  <1>3. Types'
    BY <1>1, CurrentSchema DEF Types, PostgresPhases
  <1>4. Backed' /\ OneOwner'
    BY <1>1, <1>2 DEF Types, Backed, OneOwner, SqlitePhases, PostgresPhases, Settled
  <1>5. OneBackfill' /\ Known'
    BY <1>1 DEF Types, OneBackfill, Known
  <1>6. ColumnsFirst'
    BY <1>1, <1>2 DEF Types, ColumnsFirst, Settled
  <1> QED
    BY <1>3, <1>4, <1>5, <1>6

\* It takes the lock its flags call for, and reads them again under the lock.
LEMMA ControlLock ==
  ASSUME Control, NEW p \in Processes, BackfillLock(p)
  PROVE  Control'
  <1> USE DEF Control
  <1> DEFINE mode == LockMode(known[p])
  <1>1. mode \in Modes /\ (Unwrapping \notin known[p] => mode = "access exclusive")
        /\ (mode = "none" => Unwrapping \in known[p])
    BY DEF LockMode, Modes
  <1>2. /\ UNCHANGED <<backend, schema, flags, torn>> /\ phase[p] = "lock"
        /\ columns' = columns \/ columns' = [columns EXCEPT ![p] = Current]
        /\ \/ /\ phase' = [phase EXCEPT ![p] = "ready"] /\ known' = [known EXCEPT ![p] = {}]
              /\ locks' = [locks EXCEPT ![p] = "none"] /\ advisory' = advisory \ {p}
           \/ /\ phase' = [phase EXCEPT ![p] = "work"] /\ UNCHANGED advisory
              /\ known' = [known EXCEPT ![p] = IF mode = "none" THEN known[p] ELSE flags]
              /\ locks' = [locks EXCEPT ![p] = mode]
    BY DEF BackfillLock, Skip, Leave, Go, data, seen
  <1> HIDE DEF mode
  <1>3. backend = "postgres" /\ Settled /\ advisory = {p} /\ known[p] \subseteq flags /\ p \in Holders
        /\ p # "before"
    BY <1>2, UpgradeAssumption DEF Backed, PostgresPhases, ColumnsFirst, OneBackfill, Known, Holders
  <1>4. Types'
    <2>1. phase' \in [Processes -> SqlitePhases \cup PostgresPhases \cup {"ready", "down"}]
      BY <1>2 DEF Types, PostgresPhases
    <2>2. known' \in [Processes -> SUBSET Flags] /\ columns' \in [Processes -> Schemas]
      BY <1>2, CurrentSchema DEF Types
    <2>3. locks' \in [Holders -> Modes]
      BY <1>1, <1>2 DEF Types, Modes
    <2> QED
      BY <1>2, <2>1, <2>2, <2>3 DEF Types
  <1>5. Backed' /\ OneOwner'
    BY <1>2, <1>3 DEF Types, Backed, OneOwner, SqlitePhases, PostgresPhases, Settled
  <1>6. OneBackfill'
    BY <1>2, <1>3 DEF Types, OneBackfill
  <1>7. Known'
    <2>1. ASSUME NEW q \in Processes \ {p}
          PROVE  phase'[q] = phase[q] /\ known'[q] = known[q] /\ locks'[q] = locks[q]
      BY <1>2 DEF Types, Holders
    <2>2. known'[p] \subseteq flags
      BY <1>2, <1>3 DEF Types
    <2>3. phase'[p] = "work" => known'[p] = (IF mode = "none" THEN known[p] ELSE flags) /\ locks'[p] = mode
      BY <1>2, <1>3 DEF Types
    <2>4. phase'[p] = "work" /\ Unwrapping \in flags => Unwrapping \in known'[p]
      BY <1>1, <2>3
    <2>5. phase'[p] = "work" /\ Unwrapping \notin known'[p] => locks'[p] = "access exclusive"
      BY <1>1, <1>3, <2>3
    <2> QED
      BY <1>2, <2>1, <2>2, <2>4, <2>5 DEF Known
  <1>8. ColumnsFirst'
    BY <1>2, <1>3 DEF Types, ColumnsFirst, Settled
  <1> QED
    BY <1>4, <1>5, <1>6, <1>7, <1>8

\* The passes on PostgreSQL: nobody else is about to, and the flags are set with them.
LEMMA ControlBackfill ==
  ASSUME Control, NEW p \in Processes, Backfill(p) \/ BackfillFails(p)
  PROVE  Control'
  <1> USE DEF Control
  <1>1. /\ UNCHANGED <<backend, schema, torn>> /\ phase[p] = "work"
        /\ flags \subseteq flags' /\ flags' \subseteq Flags
        /\ columns' = [columns EXCEPT ![p] = Current]
        /\ phase' = [phase EXCEPT ![p] = "ready"] /\ known' = [known EXCEPT ![p] = {}]
        /\ locks' = [locks EXCEPT ![p] = "none"] /\ advisory' = advisory \ {p}
    BY DEF Backfill, BackfillFails, Skip, Leave, Go, data, Types, Flags
  <1>2. backend = "postgres" /\ Settled /\ advisory = {p} /\ p \in Holders /\ p # "before"
    BY <1>1, UpgradeAssumption DEF Backed, PostgresPhases, ColumnsFirst, OneBackfill, Holders
  <1>3. \A q \in Processes \ {p} : phase[q] \notin {"lock", "work"} \cup SqlitePhases
    BY <1>2 DEF OneBackfill, Backed
  <1>4. Types'
    BY <1>1, CurrentSchema DEF Types, PostgresPhases, Modes
  <1>5. Backed' /\ OneOwner'
    BY <1>1, <1>2 DEF Types, Backed, OneOwner, SqlitePhases, PostgresPhases, Settled
  <1>6. OneBackfill'
    BY <1>1, <1>3 DEF Types, OneBackfill
  <1>7. Known'
    BY <1>1, <1>3 DEF Types, Known
  <1>8. ColumnsFirst'
    BY <1>1, <1>2, <1>3 DEF Types, ColumnsFirst, Settled, SqlitePhases
  <1> QED
    BY <1>4, <1>5, <1>6, <1>7, <1>8

\* A start that is cut off leaves no lock.
LEMMA ControlCrash ==
  ASSUME Control, NEW p \in Processes, Crash(p)
  PROVE  Control'
  <1> USE DEF Control
  <1>1. /\ UNCHANGED <<backend, schema, flags, torn>>
        /\ columns' = [columns EXCEPT ![p] = Current]
        /\ phase' = [phase EXCEPT ![p] = "down"] /\ known' = [known EXCEPT ![p] = {}]
        /\ locks' = [locks EXCEPT ![p] = "none"] /\ advisory' = advisory \ {p}
    BY DEF Crash, Leave, Go, data
  <1>2. p \in Holders /\ p # "before"
    BY UpgradeAssumption DEF Holders
  <1>3. Types'
    BY <1>1, CurrentSchema DEF Types, Modes
  <1>4. Backed' /\ OneOwner'
    BY <1>1, <1>2 DEF Types, Backed, OneOwner, SqlitePhases, PostgresPhases, Settled
  <1>5. ASSUME NEW q \in Processes \ {p}
        PROVE  phase'[q] = phase[q] /\ known'[q] = known[q] /\ locks'[q] = locks[q]
    BY <1>1 DEF Types, Holders
  <1>6. phase'[p] = "down" /\ known'[p] = {}
    BY <1>1 DEF Types
  <1>7. OneBackfill'
    BY <1>1, <1>5, <1>6 DEF OneBackfill
  <1>8. Known'
    BY <1>1, <1>5, <1>6 DEF Known
  <1>9. ColumnsFirst'
    BY <1>1, <1>5, <1>6 DEF ColumnsFirst, Settled
  <1> QED
    BY <1>3, <1>4, <1>7, <1>8, <1>9

\* Others take and give up locks; the version before sets the flag of the unwrapping only when no backfill
\* is about to unwrap.
LEMMA ControlOthers ==
  ASSUME Control, Others
  PROVE  Control'
  <1> USE DEF Control
  <1>1. CASE \E value \in 0..1 : Write(value)
    <2>1. UNCHANGED <<backend, schema, flags, phase, known, columns, locks, advisory, torn>>
      BY <1>1 DEF Write, seen, pg
    <2> QED
      BY <2>1 DEF Types, Backed, OneOwner, OneBackfill, Known, ColumnsFirst, Settled
  <1>2. CASE (\E mode \in {"access share", "row exclusive"} : ClientBegins(mode)) \/ ClientEnds
    <2>1. /\ UNCHANGED <<backend, schema, flags, phase, known, columns, advisory, torn>>
          /\ \E mode \in Modes : locks' = [locks EXCEPT !["client"] = mode]
      BY <1>2 DEF ClientBegins, ClientEnds, data, seen, Modes
    <2>2. "client" \notin Processes
      BY UpgradeAssumption
    <2>3. Types'
      BY <2>1 DEF Types
    <2>4. \A h \in Holders \ {"client"} : locks'[h] = locks[h]
      BY <2>1 DEF Types
    <2>5. "before" \in Holders /\ Processes \subseteq Holders
      BY DEF Holders, Sessions
    <2>6. Known' /\ Backed'
      BY <2>1, <2>2, <2>4, <2>5 DEF Known, Backed, Settled
    <2> QED
      BY <2>1, <2>3, <2>6 DEF OneOwner, OneBackfill, ColumnsFirst, Settled
  <1>3. CASE BeforeReads
    <2>1. /\ UNCHANGED <<backend, schema, flags, phase, known, columns, advisory, torn>>
          /\ backend = "postgres" /\ ~ColumnsPending
          /\ locks' = [locks EXCEPT !["before"] = "access share"]
      BY <1>3 DEF BeforeReads, data, seen
    <2>2. "before" \notin Processes /\ Settled
      BY <2>1, UpgradeAssumption, SettledColumns DEF Types
    <2>3. Types'
      BY <2>1 DEF Types, Modes
    <2>4. \A h \in Processes : locks'[h] = locks[h]
      BY <2>1, <2>2 DEF Types, Holders
    <2>5. Known' /\ Backed'
      BY <2>1, <2>2, <2>4 DEF Known, Backed, Settled
    <2> QED
      BY <2>1, <2>3, <2>5 DEF OneOwner, OneBackfill, ColumnsFirst, Settled
  <1>4. CASE BeforeWrites
    <2>1. /\ UNCHANGED <<backend, schema, phase, known, columns, advisory, torn>>
          /\ locks["before"] # "none"
          /\ Free("before", "row exclusive")
          /\ flags' = flags \cup {Unwrapping}
          /\ locks' = [locks EXCEPT !["before"] = "none"]
      BY <1>4 DEF BeforeWrites, seen
    <2>2. "before" \notin Processes /\ backend = "postgres" /\ Settled
      BY <2>1, UpgradeAssumption DEF Backed
    <2>3. Types'
      BY <2>1 DEF Types, Modes, Flags
    <2>4. \A p \in Processes : locks[p] # "access exclusive"
      BY <2>1, <2>2 DEF Free, Conflicting, Holders
    <2>5. Known'
      BY <2>1, <2>2, <2>4 DEF Types, Known
    <2>6. Backed' /\ OneOwner' /\ OneBackfill' /\ ColumnsFirst'
      BY <2>1, <2>2 DEF Types, Backed, OneOwner, OneBackfill, ColumnsFirst, Settled, SqlitePhases
    <2> QED
      BY <2>3, <2>5, <2>6
  <1> QED
    BY <1>1, <1>2, <1>3, <1>4 DEF Others

\* Control is inductive.
LEMMA ControlNext == Control /\ [Next]_vars => Control'
  <1> SUFFICES ASSUME Control, [Next]_vars PROVE Control'
    OBVIOUS
  <1>1. ASSUME NEW p \in Processes, Sqlite(p) PROVE Control'
    BY <1>1, ControlColumns, ControlPasses DEF Sqlite, Upgrade, UpgradeFails
  <1>2. ASSUME NEW p \in Processes, Postgres(p) PROVE Control'
    BY <1>2, ControlAlter, ControlBegin, ControlLock, ControlBackfill DEF Postgres
  <1>3. ASSUME NEW p \in Processes, Start(p) \/ Crash(p) PROVE Control'
    BY <1>3, ControlStart, ControlCrash
  <1>4. CASE UNCHANGED vars
    BY <1>4 DEF vars, data, seen, pg, Control, Types, Backed, OneOwner, OneBackfill, Known, ColumnsFirst, Settled
  <1> QED
    BY <1>1, <1>2, <1>3, <1>4, ControlOthers DEF Next

-----------------------------------------------------------------------------
(* What the rows hold *)

RowType == [value : Int, numeric : BOOLEAN, float : BOOLEAN, meant : Int, by : {"legacy", "early", "flagged"}]

\* A row of this version is as it was written. An old one has its value in one layer too many, exactly so
\* before the unwrapping, or lacks it, and then a value that can be recovered is a scalar.
RowFine(row) ==
  /\ row.value >= -2
  /\ row.by = "flagged" => Unwrapping \in flags /\ row.value >= 0 /\ row.value = row.meant
  /\ row.by = "legacy" =>
       /\ row.meant >= -1
       /\ row.value >= 0 => 0 <= row.meant /\ row.value <= row.meant + 1
       /\ row.value < 0 /\ (row.numeric \/ row.float \/ row.value = Float) => row.meant = 0
       /\ ~torn /\ row.value >= 0 => row.meant <= row.value
       /\ ~torn /\ row.value >= 1 /\ Unwrapping \notin flags => row.meant + 1 <= row.value

\* What the flags say of a row.
RowDone(row) ==
  row.by = "legacy" =>
    /\ Unwrapping \in flags /\ row.value >= 0 => row.value <= row.meant
    /\ Recovery \in flags => ~(row.value = Null /\ row.numeric /\ ~row.float)

Typed == telegrams \in [DOMAIN telegrams -> RowType] /\ old \in [DOMAIN old -> RowType]
TelegramsFine == \A i \in DOMAIN telegrams : RowFine(telegrams[i]) /\ RowDone(telegrams[i])
OldFine == \A i \in DOMAIN old : RowFine(old[i])

\* Ids are given one after the other, so none that the version before has read is given again.
Numbered == backend = "postgres" => old = <<>> /\ \E n \in Nat : DOMAIN telegrams = 1..n

\* The version before has read all that is wrapped, and will write it unwrapped.
Snapped ==
  /\ backend = "sqlite" => DOMAIN snapshot = {}
  /\ \A i \in DOMAIN snapshot :
       /\ i \in DOMAIN telegrams /\ telegrams[i].by # "flagged" /\ snapshot[i] \in Int /\ snapshot[i] >= 1
       /\ telegrams[i].by = "legacy" => snapshot[i] = telegrams[i].meant + 1
  /\ locks["before"] # "none" =>
       \A i \in DOMAIN telegrams :
         telegrams[i].by = "legacy" /\ telegrams[i].value >= 1 /\ i \notin DOMAIN snapshot =>
           telegrams[i].value <= telegrams[i].meant

Contents == Typed /\ TelegramsFine /\ OldFine /\ Numbered /\ Snapped

Inv == Control /\ Contents

\* A missing value that value_numeric knows is recovered as a scalar; nothing else changes.
LEMMA RecoveredRows ==
  ASSUME NEW rows, rows \in [DOMAIN rows -> RowType]
  PROVE  /\ DOMAIN Recovered(rows) = DOMAIN rows
         /\ Recovered(rows) \in [DOMAIN rows -> RowType]
         /\ \A i \in DOMAIN rows :
              /\ Recovered(rows)[i].value = IF rows[i].value = Null /\ rows[i].numeric THEN 0 ELSE rows[i].value
              /\ Recovered(rows)[i].numeric = rows[i].numeric /\ Recovered(rows)[i].float = rows[i].float
              /\ Recovered(rows)[i].meant = rows[i].meant /\ Recovered(rows)[i].by = rows[i].by
  BY DEF Recovered, RowType

\* A value of value_legacy_float is moved to value_numeric.
LEMMA FloatedRows ==
  ASSUME NEW rows, rows \in [DOMAIN rows -> RowType]
  PROVE  /\ DOMAIN Floated(rows) = DOMAIN rows
         /\ Floated(rows) \in [DOMAIN rows -> RowType]
         /\ \A i \in DOMAIN rows :
              /\ Floated(rows)[i].numeric = IF rows[i].float THEN TRUE ELSE rows[i].numeric
              /\ Floated(rows)[i].value = rows[i].value /\ Floated(rows)[i].float = rows[i].float
              /\ Floated(rows)[i].meant = rows[i].meant /\ Floated(rows)[i].by = rows[i].by
  BY DEF Floated, RowType

\* The rows of S lose a layer if they have one.
LEMMA UnwrappedRows ==
  ASSUME NEW rows, NEW S, rows \in [DOMAIN rows -> RowType]
  PROVE  /\ DOMAIN Unwrapped(rows, S) = DOMAIN rows
         /\ Unwrapped(rows, S) \in [DOMAIN rows -> RowType]
         /\ \A i \in DOMAIN rows :
              /\ Unwrapped(rows, S)[i].value = IF i \in S /\ rows[i].value >= 1 THEN rows[i].value - 1 ELSE rows[i].value
              /\ Unwrapped(rows, S)[i].numeric = rows[i].numeric /\ Unwrapped(rows, S)[i].float = rows[i].float
              /\ Unwrapped(rows, S)[i].meant = rows[i].meant /\ Unwrapped(rows, S)[i].by = rows[i].by
  BY DEF Unwrapped, RowType

\* A value in a column of type FLOAT goes to value_numeric or value_legacy_float.
LEMMA RenamedRows ==
  ASSUME NEW rows, rows \in [DOMAIN rows -> RowType], schema \in Schemas
  PROVE  /\ DOMAIN Renamed(rows) = DOMAIN rows
         /\ Renamed(rows) \in [DOMAIN rows -> RowType]
         /\ \A i \in DOMAIN rows :
              /\ Renamed(rows)[i].value = IF rows[i].value = Float THEN Null ELSE rows[i].value
              /\ rows[i].value # Float =>
                   Renamed(rows)[i].numeric = rows[i].numeric /\ Renamed(rows)[i].float = rows[i].float
              /\ Renamed(rows)[i].meant = rows[i].meant /\ Renamed(rows)[i].by = rows[i].by
  <1> SUFFICES ASSUME NEW i \in DOMAIN rows
               PROVE  /\ Renamed(rows)[i] \in RowType
                      /\ Renamed(rows)[i].value = IF rows[i].value = Float THEN Null ELSE rows[i].value
                      /\ rows[i].value # Float =>
                           Renamed(rows)[i].numeric = rows[i].numeric /\ Renamed(rows)[i].float = rows[i].float
                      /\ Renamed(rows)[i].meant = rows[i].meant /\ Renamed(rows)[i].by = rows[i].by
    BY DEF Renamed
  <1>1. CASE rows[i].value = Float
    <2> DEFINE numeric == rows[i].numeric \/ ~schema.numeric
    <2>1. numeric \in BOOLEAN /\ schema.numeric \in BOOLEAN /\ rows[i] \in RowType
      BY DEF Schemas
    <2>2. Renamed(rows)[i] = [rows[i] EXCEPT !.value = Null, !.numeric = numeric, !.float = schema.numeric]
      BY <1>1 DEF Renamed
    <2> HIDE DEF numeric
    <2>3. ASSUME NEW row \in RowType, NEW v \in Int, NEW a \in BOOLEAN, NEW b \in BOOLEAN
          PROVE  [row EXCEPT !.value = v, !.numeric = a, !.float = b] \in RowType
      BY Zenon DEF RowType
    <2>4. /\ Renamed(rows)[i].value = Null
          /\ Renamed(rows)[i].meant = rows[i].meant /\ Renamed(rows)[i].by = rows[i].by
      BY <2>1, <2>2 DEF RowType
    <2>5. Null \in Int
      BY DEF Null
    <2>6. [rows[i] EXCEPT !.value = Null, !.numeric = numeric, !.float = schema.numeric] \in RowType
      BY <2>1, <2>3, <2>5, Zenon
    <2>7. Renamed(rows)[i] \in RowType
      BY <2>2, <2>6, Zenon
    <2> QED
      BY <1>1, <2>4, <2>7
  <1>2. CASE rows[i].value # Float
    BY <1>2 DEF Renamed
  <1> QED
    BY <1>1, <1>2

\* What earlier versions left is as RowFine has it.
LEMMA ContentsInit == Init => Contents
  <1> SUFFICES ASSUME Init PROVE Contents
    OBVIOUS
  <1>1. PICK Written :
          /\ \E n \in 0..Legacy : telegrams \in [1..n -> Written]
          /\ \A row \in Written : row \in RowType /\ row.by = "legacy" /\ RowFine(row)
    <2> DEFINE Fine(row) == row \in RowType /\ row.by = "legacy" /\ RowFine(row)
    <2>1. schema.numeric \in BOOLEAN
      BY DEF Init, Schemas
    <2>2. /\ \A m \in 0..1 : Fine(LegacyRow(m + 1, FALSE, m))
          /\ Fine(LegacyRow(0, FALSE, 0)) /\ Fine(LegacyRow(Null, TRUE, 0)) /\ Fine(LegacyRow(Null, FALSE, Null))
          /\ Fine(LegacyRow(Float, FALSE, 0))
      BY DEF LegacyRow, RowType, RowFine, Null, Float
    <2> HIDE DEF Fine
    <2>3. CASE schema.value = "json"
      <3> DEFINE Written == {LegacyRow(m + 1, FALSE, m) : m \in 0..1}
                            \cup {LegacyRow(0, FALSE, 0), LegacyRow(Null, TRUE, 0), LegacyRow(Null, FALSE, Null)}
      <3>1. \E n \in 0..Legacy : telegrams \in [1..n -> Written]
        BY <2>3 DEF Init
      <3>2. \A row \in Written : Fine(row)
        BY <2>2
      <3> QED
        BY <3>1, <3>2 DEF Fine
    <2>4. CASE schema.value = "float"
      <3> DEFINE Written == {LegacyRow(Float, FALSE, 0)} \cup {LegacyRow(Null, n, 0) : n \in {schema.numeric} \ {FALSE}}
      <3>1. \E n \in 0..Legacy : telegrams \in [1..n -> Written]
        BY <2>4 DEF Init
      <3>2. \A row \in Written : Fine(row)
        BY <2>1, <2>2
      <3> QED
        BY <3>1, <3>2 DEF Fine
    <2>5. CASE schema.value = "none"
      <3> DEFINE Written == {LegacyRow(Null, n, IF n THEN 0 ELSE Null) : n \in {FALSE, schema.numeric}}
      <3>1. \E n \in 0..Legacy : telegrams \in [1..n -> Written]
        BY <2>5 DEF Init
      <3>2. \A row \in Written : Fine(row)
        BY <2>1, <2>2
      <3> QED
        BY <3>1, <3>2 DEF Fine
    <2> QED
      BY <2>3, <2>4, <2>5 DEF Init, Schemas
  <1>2. PICK n \in 0..Legacy : telegrams \in [1..n -> Written]
    BY <1>1
  <1>3. flags = {} /\ old = <<>> /\ snapshot = <<>> /\ DOMAIN telegrams = 1..n /\ DOMAIN <<>> = {}
    BY <1>2 DEF Init
  <1>4. Typed
    BY <1>1, <1>2, <1>3 DEF Typed
  <1>5. TelegramsFine /\ OldFine
    BY <1>1, <1>2, <1>3 DEF TelegramsFine, OldFine, RowDone
  <1>6. Numbered
    BY <1>3, UpgradeAssumption DEF Numbered
  <1>7. Snapped
    BY <1>3 DEF Snapped, Init, Holders, Sessions
  <1> QED
    BY <1>4, <1>5, <1>6, <1>7 DEF Contents

\* Most steps leave the rows, the flags and what the version before has read as they are.
LEMMA QuietContents ==
  ASSUME Contents, UNCHANGED <<backend, telegrams, old, flags, torn, snapshot>>, locks["before"]' = locks["before"]
  PROVE  Contents'
  BY DEF Contents, Typed, TelegramsFine, OldFine, RowFine, RowDone, Numbered, Snapped

\* These do: reading, changing columns of a table, taking and giving up locks.
LEMMA ContentsQuiet ==
  ASSUME Inv, NEW p \in Processes,
         \/ Start(p) \/ CreateAll(p) \/ AddColumn(p) \/ Create(p) \/ Inspect(p)
         \/ BackfillBegin(p) \/ BackfillLock(p) \/ BackfillFails(p) \/ Crash(p)
  PROVE  Contents'
  <1>1. UNCHANGED <<backend, telegrams, old, flags, torn, snapshot>>
    BY DEF Start, CreateAll, AddColumn, Create, Inspect, BackfillBegin, BackfillLock, BackfillFails, Crash, data, pg
  <1>2. p # "before" /\ "before" \in Holders
    BY UpgradeAssumption DEF Holders, Sessions
  <1>3. locks["before"]' = locks["before"]
    <2>1. locks' = locks \/ \E mode : locks' = [locks EXCEPT ![p] = mode]
      BY DEF Start, CreateAll, AddColumn, Create, Inspect, BackfillBegin, BackfillLock, BackfillFails, Crash, Skip, pg
    <2> QED
      BY <1>2, <2>1 DEF Inv, Control, Types
  <1> QED
    BY <1>1, <1>3, QuietContents DEF Inv

\* The table is set aside before any flag is set, with all of its rows.
LEMMA ContentsRename ==
  ASSUME Inv, NEW p \in Processes, Rename(p)
  PROVE  Contents'
  <1>1. /\ UNCHANGED <<backend, flags, torn, snapshot, locks>>
        /\ old' = telegrams /\ telegrams' = <<>> /\ backend = "sqlite"
    BY DEF Rename, pg, Inv, Control, Backed, SqlitePhases
  <1>2. DOMAIN telegrams' = {}
    BY <1>1
  <1>3. Typed'
    BY <1>1, <1>2 DEF Inv, Contents, Typed
  <1>4. TelegramsFine' /\ OldFine'
    BY <1>1, <1>2 DEF Inv, Contents, TelegramsFine, OldFine, RowFine
  <1>5. Numbered' /\ Snapped'
    BY <1>1, <1>2 DEF Inv, Contents, Numbered, Snapped
  <1> QED
    BY <1>3, <1>4, <1>5 DEF Contents

\* The last transaction on SQLite, whole or in part: rows of this version are not flagged before it.
LEMMA ContentsPasses ==
  ASSUME Inv, NEW p \in Processes, Upgrade(p) \/ UpgradeFails(p)
  PROVE  Contents'
  <1> DEFINE rows == IF phase[p] = "copy" THEN old ELSE telegrams
             recovered == IF Recovery \in flags THEN rows ELSE Recovered(rows)
  <1>1. PICK S \in SUBSET DOMAIN rows, whole \in BOOLEAN :
          /\ Passes(p, S, whole)
          /\ Unwrapping \in flags => S = {} /\ whole
          /\ Unwrapping \notin flags /\ whole => S = DOMAIN rows
    BY DEF Upgrade, UpgradeFails
  <1>2. /\ UNCHANGED <<backend, snapshot, locks>>
        /\ phase[p] \in {"copy", "passes"}
        /\ telegrams' = Unwrapped(recovered, S)
        /\ old' = <<>> \/ old' = old
        /\ flags' = flags \cup {Recovery} \cup (IF whole THEN {Unwrapping} ELSE {})
        /\ torn' = (torn \/ ~whole)
    BY <1>1 DEF Passes, pg
  <1>3. backend = "sqlite" /\ locks["before"] = "none" /\ DOMAIN snapshot = {}
    BY <1>2 DEF Inv, Control, Contents, Snapped, Backed, SqlitePhases
  <1>4. /\ rows \in [DOMAIN rows -> RowType]
        /\ \A i \in DOMAIN rows : RowFine(rows[i]) /\ RowDone(rows[i])
    <2>1. CASE phase[p] = "copy"
      <3>1. flags = {}
        BY <2>1 DEF Inv, Control, ColumnsFirst
      <3> QED
        BY <2>1, <3>1 DEF Inv, Contents, Typed, OldFine, RowDone
    <2>2. CASE phase[p] # "copy"
      BY <2>2 DEF Inv, Contents, Typed, TelegramsFine
    <2> QED
      BY <2>1, <2>2
  <1> HIDE DEF rows
  <1>5. /\ recovered \in [DOMAIN rows -> RowType] /\ DOMAIN recovered = DOMAIN rows
        /\ \A i \in DOMAIN rows :
             /\ recovered[i].value = IF Recovery \notin flags /\ rows[i].value = Null /\ rows[i].numeric THEN 0 ELSE rows[i].value
             /\ recovered[i].numeric = rows[i].numeric /\ recovered[i].float = rows[i].float
             /\ recovered[i].meant = rows[i].meant /\ recovered[i].by = rows[i].by
    BY <1>4, RecoveredRows
  <1> HIDE DEF recovered
  <1>6. /\ telegrams' \in [DOMAIN rows -> RowType] /\ DOMAIN telegrams' = DOMAIN rows
        /\ \A i \in DOMAIN rows :
             /\ telegrams'[i].value = IF i \in S /\ recovered[i].value >= 1 THEN recovered[i].value - 1 ELSE recovered[i].value
             /\ telegrams'[i].numeric = rows[i].numeric /\ telegrams'[i].float = rows[i].float
             /\ telegrams'[i].meant = rows[i].meant /\ telegrams'[i].by = rows[i].by
    BY <1>2, <1>5, UnwrappedRows
  <1>7. Typed'
    <2>1. old' \in [DOMAIN old' -> RowType]
      <3>1. CASE old' = <<>>
        BY <3>1
      <3>2. CASE old' = old
        BY <3>2 DEF Inv, Contents, Typed
      <3> QED
        BY <1>2, <3>1, <3>2
    <2> QED
      BY <1>6, <2>1 DEF Typed
  <1>8. ASSUME NEW i \in DOMAIN rows PROVE RowFine(telegrams[i])' /\ RowDone(telegrams[i])'
    <2>1. rows[i] \in RowType /\ recovered[i] \in RowType /\ RowFine(rows[i]) /\ RowDone(rows[i])
      BY <1>4, <1>5
    <2>2. torn \in BOOLEAN /\ Unwrapping # Recovery
      BY DEF Inv, Control, Types, Unwrapping, Recovery
    <2>3. RowFine(recovered[i]) /\ ~(recovered[i].by = "legacy" /\ recovered[i].value = Null /\ recovered[i].numeric /\ ~recovered[i].float)
      BY <1>5, <2>1 DEF RowType, RowFine, RowDone, Null, Float
    <2>4. RowDone(recovered[i])
      BY <1>5, <2>1 DEF RowType, RowFine, RowDone, Null, Float
    <2>5. RowFine(telegrams[i])'
      <3> DEFINE row == recovered[i]
                 new == telegrams'[i]
      <3>1. /\ row \in RowType /\ new \in RowType /\ RowFine(row)
            /\ new.value = IF i \in S /\ row.value >= 1 THEN row.value - 1 ELSE row.value
            /\ new.numeric = row.numeric /\ new.float = row.float /\ new.meant = row.meant /\ new.by = row.by
        BY <1>5, <1>6, <2>1, <2>3
      <3> HIDE DEF row, new
      <3>2. /\ Unwrapping \in flags => Unwrapping \in flags' /\ i \notin S
            /\ Unwrapping \notin flags /\ ~torn' => ~torn /\ i \in S /\ Unwrapping \in flags'
            /\ ~torn' => ~torn
        BY <1>1, <1>2, <2>2
      <3>3. CASE Unwrapping \in flags
        <4>1. new.value = row.value
          BY <3>1, <3>2, <3>3
        <4> QED
          BY <3>1, <3>2, <3>3, <4>1 DEF RowType, RowFine, new
      <3>4. CASE Unwrapping \notin flags
        BY <3>1, <3>2, <3>4 DEF RowType, RowFine, Float, new
      <3> QED
        BY <3>3, <3>4
    <2>6. RowDone(telegrams[i])'
      BY <1>1, <1>2, <1>5, <1>6, <2>1, <2>2, <2>3, <2>4 DEF RowType, RowFine, RowDone, Null
    <2> QED
      BY <2>5, <2>6
  <1>9. TelegramsFine'
    BY <1>6, <1>8 DEF TelegramsFine
  <1>10. OldFine'
    <2>1. CASE phase[p] = "copy"
      BY <2>1, <1>1 DEF OldFine, Passes
    <2>2. CASE phase[p] # "copy"
      <3>1. DOMAIN old' = DOMAIN old /\ old' = old
        BY <2>2, <1>1 DEF Passes
      <3>2. ASSUME NEW i \in DOMAIN old, RowFine(old[i]), old[i] \in RowType, old[i].by # "flagged" \/ Unwrapping \in flags
            PROVE  RowFine(old[i])'
        BY <1>2, <3>1, <3>2 DEF RowFine, RowType
      <3> QED
        BY <3>1, <3>2 DEF Inv, Contents, Typed, OldFine, RowFine
    <2> QED
      BY <2>1, <2>2
  <1>11. Numbered' /\ Snapped'
    BY <1>2, <1>3 DEF Numbered, Snapped
  <1> QED
    BY <1>7, <1>9, <1>10, <1>11 DEF Contents

\* Columns change on PostgreSQL before any flag is set and before the version before reads.
LEMMA ContentsAlter ==
  ASSUME Inv, NEW p \in Processes, Alter(p)
  PROVE  Contents'
  <1>1. UNCHANGED <<backend, old, flags, torn, snapshot, locks>>
    BY DEF Alter, pg
  <1>2. CASE telegrams' = telegrams
    BY <1>1, <1>2, QuietContents DEF Inv
  <1>3. CASE telegrams' # telegrams
    <2>1. telegrams' = Renamed(telegrams) /\ ColumnsPending
      BY <1>3 DEF Alter, ColumnsPending
    <2>2. ~Settled /\ flags = {} /\ locks["before"] = "none" /\ schema \in Schemas
      BY <2>1, SettledColumns DEF Inv, Control, Types, ColumnsFirst, Backed
    <2>3. telegrams \in [DOMAIN telegrams -> RowType]
      BY DEF Inv, Contents, Typed
    <2>4. /\ DOMAIN telegrams' = DOMAIN telegrams
          /\ telegrams' \in [DOMAIN telegrams -> RowType]
          /\ \A i \in DOMAIN telegrams :
               /\ telegrams'[i].value = IF telegrams[i].value = Float THEN Null ELSE telegrams[i].value
               /\ telegrams[i].value # Float =>
                    telegrams'[i].numeric = telegrams[i].numeric /\ telegrams'[i].float = telegrams[i].float
               /\ telegrams'[i].meant = telegrams[i].meant /\ telegrams'[i].by = telegrams[i].by
      BY <2>1, <2>2, <2>3, RenamedRows
    <2>5. Typed'
      BY <1>1, <2>4 DEF Inv, Contents, Typed
    <2>6. ASSUME NEW i \in DOMAIN telegrams PROVE RowFine(telegrams[i])' /\ RowDone(telegrams[i])'
      <3>1. telegrams[i] \in RowType /\ RowFine(telegrams[i])
        BY <2>3 DEF Inv, Contents, TelegramsFine
      <3>2. CASE telegrams[i].value = Float
        BY <1>1, <2>2, <2>4, <3>1, <3>2 DEF RowType, RowFine, RowDone, Float, Null
      <3>3. CASE telegrams[i].value # Float
        BY <1>1, <2>2, <2>4, <3>1, <3>3 DEF RowType, RowFine, RowDone, Float, Null
      <3> QED
        BY <3>2, <3>3
    <2>7. TelegramsFine'
      BY <2>4, <2>6 DEF TelegramsFine
    <2>8. OldFine'
      BY <1>1 DEF Inv, Contents, OldFine, RowFine
    <2>9. Numbered' /\ Snapped'
      BY <1>1, <2>2, <2>4 DEF Inv, Contents, Numbered, Snapped
    <2> QED
      BY <2>5, <2>7, <2>8, <2>9 DEF Contents
  <1> QED
    BY <1>2, <1>3

\* The passes on PostgreSQL: what the start knows of the flags is what they are.
LEMMA ContentsBackfill ==
  ASSUME Inv, NEW p \in Processes, Backfill(p)
  PROVE  Contents'
  <1> DEFINE recovered == IF Recovery \in known[p] THEN telegrams ELSE Recovered(telegrams)
             floated == IF schema.float THEN Floated(recovered) ELSE recovered
  <1>1. /\ UNCHANGED <<backend, old, torn, snapshot>> /\ phase[p] = "work"
        /\ telegrams' = IF Unwrapping \in known[p] THEN floated ELSE Unwrapped(floated, DOMAIN floated)
        /\ flags' = {Recovery, Unwrapping}
        /\ locks' = [locks EXCEPT ![p] = "none"]
    BY DEF Backfill, Backfilled, Skip, Inv, Control, Types, Flags
  <1>2. /\ backend = "postgres" /\ ~torn
        /\ Unwrapping \in flags <=> Unwrapping \in known[p]
        /\ Recovery \in known[p] => Recovery \in flags
        /\ p # "before" /\ "before" \in Holders
    BY <1>1, UpgradeAssumption DEF Inv, Control, Types, Backed, Known, PostgresPhases, Holders, Sessions
  <1>3. telegrams \in [DOMAIN telegrams -> RowType] /\ schema.float \in BOOLEAN
    BY DEF Inv, Control, Contents, Typed, Types, Schemas
  <1>4. /\ recovered \in [DOMAIN telegrams -> RowType] /\ DOMAIN recovered = DOMAIN telegrams
        /\ \A i \in DOMAIN telegrams :
             /\ recovered[i].value = IF Recovery \notin known[p] /\ telegrams[i].value = Null /\ telegrams[i].numeric
                                     THEN 0 ELSE telegrams[i].value
             /\ recovered[i].numeric = telegrams[i].numeric /\ recovered[i].float = telegrams[i].float
             /\ recovered[i].meant = telegrams[i].meant /\ recovered[i].by = telegrams[i].by
    BY <1>3, RecoveredRows
  <1> HIDE DEF recovered
  <1>5. /\ floated \in [DOMAIN telegrams -> RowType] /\ DOMAIN floated = DOMAIN telegrams
        /\ \A i \in DOMAIN telegrams :
             /\ floated[i].value = recovered[i].value /\ floated[i].float = recovered[i].float
             /\ ~recovered[i].float => floated[i].numeric = recovered[i].numeric
             /\ floated[i].meant = recovered[i].meant /\ floated[i].by = recovered[i].by
    <2>1. recovered \in [DOMAIN recovered -> RowType]
      BY <1>4
    <2>2. CASE schema.float = TRUE
      <3>1. floated = Floated(recovered)
        BY <2>2
      <3> HIDE DEF floated
      <3>2. /\ DOMAIN floated = DOMAIN recovered /\ floated \in [DOMAIN recovered -> RowType]
            /\ \A i \in DOMAIN recovered :
                 /\ floated[i].numeric = IF recovered[i].float THEN TRUE ELSE recovered[i].numeric
                 /\ floated[i].value = recovered[i].value /\ floated[i].float = recovered[i].float
                 /\ floated[i].meant = recovered[i].meant /\ floated[i].by = recovered[i].by
        BY <2>1, <3>1, FloatedRows, Zenon
      <3>3. DOMAIN recovered = DOMAIN telegrams
        BY <1>4
      <3> QED
        BY <3>2, <3>3, Zenon
    <2>3. CASE schema.float = FALSE
      BY <1>4, <2>3
    <2> QED
      BY <1>3, <2>2, <2>3
  <1> HIDE DEF floated
  <1>6. /\ telegrams' \in [DOMAIN telegrams -> RowType] /\ DOMAIN telegrams' = DOMAIN telegrams
        /\ \A i \in DOMAIN telegrams :
             /\ telegrams'[i].value = IF Unwrapping \notin flags /\ floated[i].value >= 1
                                      THEN floated[i].value - 1 ELSE floated[i].value
             /\ telegrams'[i].numeric = floated[i].numeric /\ telegrams'[i].float = floated[i].float
             /\ telegrams'[i].meant = floated[i].meant /\ telegrams'[i].by = floated[i].by
    BY <1>1, <1>2, <1>5, UnwrappedRows
  <1>7. Typed'
    BY <1>1, <1>6 DEF Inv, Contents, Typed
  <1>8. ASSUME NEW i \in DOMAIN telegrams PROVE RowFine(telegrams[i])' /\ RowDone(telegrams[i])'
    <2>1. /\ telegrams[i] \in RowType /\ recovered[i] \in RowType /\ floated[i] \in RowType /\ telegrams'[i] \in RowType
          /\ RowFine(telegrams[i]) /\ RowDone(telegrams[i])
      BY <1>3, <1>4, <1>5, <1>6 DEF Inv, Contents, TelegramsFine
    <2>2. RowFine(recovered[i]) /\ RowDone(recovered[i])
          /\ ~(recovered[i].by = "legacy" /\ recovered[i].value = Null /\ recovered[i].numeric /\ ~recovered[i].float)
      BY <1>2, <1>4, <2>1 DEF RowType, RowFine, RowDone, Null, Float
    <2>3. RowFine(floated[i]) /\ RowDone(floated[i])
          /\ ~(floated[i].by = "legacy" /\ floated[i].value = Null /\ floated[i].numeric /\ ~floated[i].float)
      BY <1>5, <2>1, <2>2 DEF RowType, RowFine, RowDone, Null, Float
    <2>4. CASE Unwrapping \in flags
      <3>1. telegrams'[i].value = floated[i].value
        BY <1>6, <2>4
      <3> QED
        BY <1>1, <1>2, <1>6, <2>1, <2>3, <2>4, <3>1 DEF RowType, RowFine, RowDone, Null, Float
    <2>5. CASE Unwrapping \notin flags
      BY <1>1, <1>2, <1>6, <2>1, <2>3, <2>5 DEF RowType, RowFine, RowDone, Null, Float
    <2> QED
      BY <2>4, <2>5
  <1>9. TelegramsFine'
    BY <1>6, <1>8 DEF TelegramsFine
  <1>10. OldFine' /\ Numbered'
    BY <1>1, <1>2, <1>6 DEF Inv, Contents, OldFine, Numbered
  <1>11. Snapped'
    <2>1. \A i \in DOMAIN telegrams : telegrams'[i].by = telegrams[i].by /\ telegrams'[i].meant = telegrams[i].meant
      BY <1>4, <1>5, <1>6
    <2>2. \A i \in DOMAIN telegrams' : telegrams'[i].by = "legacy" /\ telegrams'[i].value >= 1 =>
                                       telegrams'[i].value <= telegrams'[i].meant
      BY <1>1, <1>6, <1>9 DEF TelegramsFine, RowDone, RowType
    <2> QED
      BY <1>1, <1>2, <1>6, <2>1, <2>2 DEF Inv, Contents, Snapped
  <1> QED
    BY <1>7, <1>9, <1>10, <1>11 DEF Contents

\* A telegram gets an id that no row has, and none that the version before has read.
LEMMA ContentsWrite ==
  ASSUME Inv, NEW value \in 0..1, Write(value)
  PROVE  Contents'
  <1> DEFINE id == 1 + Cardinality(DOMAIN telegrams \cup DOMAIN old)
             row == [value |-> value, numeric |-> FALSE, float |-> FALSE, meant |-> value,
                     by |-> IF Unwrapping \in flags THEN "flagged" ELSE "early"]
  <1>1. /\ UNCHANGED <<backend, old, flags, torn, snapshot, locks>>
        /\ telegrams' = [i \in DOMAIN telegrams \cup {id} |-> IF i = id THEN row ELSE telegrams[i]]
    BY DEF Write, pg
  <1>2. row \in RowType /\ RowFine(row) /\ RowDone(row) /\ row.by # "legacy"
    BY DEF RowType, RowFine, RowDone
  <1>3. backend = "postgres" => \E n \in Nat : DOMAIN telegrams = 1..n /\ id = n + 1
    <2>1. SUFFICES ASSUME backend = "postgres" PROVE \E n \in Nat : DOMAIN telegrams = 1..n /\ id = n + 1
      OBVIOUS
    <2>2. PICK n \in Nat : DOMAIN telegrams = 1..n
      BY <2>1 DEF Inv, Contents, Numbered
    <2>3. DOMAIN telegrams \cup DOMAIN old = 1..n
      BY <2>1, <2>2 DEF Inv, Contents, Numbered
    <2>4. Cardinality(1..n) = n
      BY FS_Interval
    <2>5. id = 1 + n
      BY <2>3, <2>4, Zenon
    <2> HIDE DEF id
    <2> QED
      BY <2>2, <2>5
  <1> HIDE DEF id, row
  <1>4. DOMAIN telegrams' = DOMAIN telegrams \cup {id} /\ telegrams'[id] = row
        /\ \A i \in DOMAIN telegrams : i # id => telegrams'[i] = telegrams[i]
    BY <1>1
  <1>5. Typed'
    BY <1>1, <1>2 DEF Inv, Contents, Typed
  <1>6. TelegramsFine'
    BY <1>1, <1>2, <1>4 DEF Inv, Contents, TelegramsFine, RowFine, RowDone
  <1>7. OldFine'
    BY <1>1 DEF Inv, Contents, OldFine, RowFine
  <1>8. Numbered'
    <2>1. SUFFICES ASSUME backend = "postgres" PROVE \E n \in Nat : DOMAIN telegrams' = 1..n
      BY <1>1 DEF Inv, Contents, Numbered
    <2>2. PICK n \in Nat : DOMAIN telegrams = 1..n /\ id = n + 1
      BY <1>3, <2>1
    <2>3. DOMAIN telegrams' = 1..(n + 1)
      BY <1>4, <2>2
    <2> QED
      BY <2>3
  <1>9. Snapped'
    <2>1. CASE backend = "sqlite"
      BY <1>1, <2>1 DEF Inv, Control, Backed, Contents, Snapped
    <2>2. CASE backend = "postgres"
      <3>1. id \notin DOMAIN telegrams
        BY <1>3, <2>2
      <3>2. \A i \in DOMAIN telegrams : telegrams'[i] = telegrams[i]
        BY <1>4, <3>1
      <3> QED
        BY <1>1, <1>2, <1>4, <2>2, <3>2 DEF Inv, Contents, Snapped
    <2> QED
      BY <2>1, <2>2 DEF Inv, Control, Types
  <1> QED
    BY <1>5, <1>6, <1>7, <1>8, <1>9 DEF Contents

\* What the version before reads before the flag is set has a layer too many.
LEMMA ContentsBeforeReads ==
  ASSUME Inv, BeforeReads
  PROVE  Contents'
  <1>1. /\ UNCHANGED <<backend, telegrams, old, flags, torn>>
        /\ backend = "postgres" /\ Unwrapping \notin flags
        /\ snapshot' = [i \in {k \in DOMAIN telegrams : telegrams[k].value >= 1} |-> telegrams[i].value]
    BY DEF BeforeReads, data
  <1>2. ~torn
    BY <1>1 DEF Inv, Control, Backed
  <1>3. Typed' /\ TelegramsFine' /\ OldFine' /\ Numbered'
    BY <1>1 DEF Inv, Contents, Typed, TelegramsFine, OldFine, RowFine, RowDone, Numbered
  <1>4. ASSUME NEW i \in DOMAIN telegrams, telegrams[i].value >= 1
        PROVE  /\ telegrams[i].by # "flagged" /\ telegrams[i].value \in Int
               /\ telegrams[i].by = "legacy" => telegrams[i].value = telegrams[i].meant + 1
    <2>1. telegrams[i] \in RowType /\ RowFine(telegrams[i])
      BY DEF Inv, Contents, Typed, TelegramsFine
    <2> QED
      BY <1>1, <1>2, <1>4, <2>1 DEF RowType, RowFine
  <1>5. Snapped'
    BY <1>1, <1>4 DEF Snapped
  <1> QED
    BY <1>3, <1>5 DEF Contents

\* It writes them with one layer less, and nothing else is wrapped then.
LEMMA ContentsBeforeWrites ==
  ASSUME Inv, BeforeWrites
  PROVE  Contents'
  <1>1. /\ UNCHANGED <<backend, old, torn>> /\ locks["before"] # "none"
        /\ telegrams' = [i \in DOMAIN telegrams |->
             IF i \in DOMAIN snapshot THEN [telegrams[i] EXCEPT !.value = snapshot[i] - 1] ELSE telegrams[i]]
        /\ flags' = flags \cup {Unwrapping}
        /\ snapshot' = <<>> /\ locks' = [locks EXCEPT !["before"] = "none"]
    BY DEF BeforeWrites
  <1>2. backend = "postgres" /\ ~torn
    BY <1>1 DEF Inv, Control, Backed
  <1>3. DOMAIN telegrams' = DOMAIN telegrams /\ DOMAIN snapshot' = {}
    BY <1>1
  <1>4. ASSUME NEW i \in DOMAIN telegrams
        PROVE  telegrams'[i] \in RowType /\ RowFine(telegrams[i])' /\ RowDone(telegrams[i])'
    <2>1. telegrams[i] \in RowType /\ RowFine(telegrams[i]) /\ RowDone(telegrams[i])
      BY DEF Inv, Contents, Typed, TelegramsFine
    <2>2. CASE i \in DOMAIN snapshot
      <3>1. /\ telegrams[i].by # "flagged" /\ snapshot[i] \in Int /\ snapshot[i] >= 1
            /\ telegrams[i].by = "legacy" => snapshot[i] = telegrams[i].meant + 1
        BY <2>2 DEF Inv, Contents, Snapped
      <3>2. telegrams'[i] = [telegrams[i] EXCEPT !.value = snapshot[i] - 1]
        BY <1>1, <2>2
      <3>3. telegrams'[i] \in RowType
        BY <2>1, <3>1, <3>2 DEF RowType
      <3> QED
        BY <1>1, <1>2, <2>1, <3>1, <3>2, <3>3 DEF RowType, RowFine, RowDone, Null, Float
    <2>3. CASE i \notin DOMAIN snapshot
      <3>1. telegrams[i].by = "legacy" /\ telegrams[i].value >= 1 => telegrams[i].value <= telegrams[i].meant
        BY <1>1, <2>3 DEF Inv, Contents, Snapped
      <3>2. telegrams'[i] = telegrams[i] /\ Unwrapping # Recovery
        BY <1>1, <2>3 DEF Unwrapping, Recovery
      <3> QED
        BY <1>1, <2>1, <3>1, <3>2 DEF RowType, RowFine, RowDone, Null, Float
    <2> QED
      BY <2>2, <2>3
  <1>5. Typed' /\ TelegramsFine'
    BY <1>1, <1>3, <1>4 DEF Inv, Contents, Typed, TelegramsFine
  <1>6. OldFine' /\ Numbered'
    BY <1>1, <1>2, <1>3 DEF Inv, Contents, OldFine, Numbered
  <1>7. Snapped'
    BY <1>1, <1>2, <1>3 DEF Inv, Control, Types, Snapped, Holders, Sessions
  <1> QED
    BY <1>5, <1>6, <1>7 DEF Contents

\* Contents holds in every step from a state in which both halves do.
LEMMA ContentsNext == Inv /\ [Next]_vars => Contents'
  <1> SUFFICES ASSUME Inv, [Next]_vars PROVE Contents'
    OBVIOUS
  <1>1. ASSUME NEW p \in Processes, Start(p) \/ Sqlite(p) \/ Postgres(p) \/ Crash(p) PROVE Contents'
    BY <1>1, ContentsQuiet, ContentsRename, ContentsPasses, ContentsAlter, ContentsBackfill DEF Sqlite, Postgres
  <1>2. CASE (\E mode \in {"access share", "row exclusive"} : ClientBegins(mode)) \/ ClientEnds
    <2>1. UNCHANGED <<backend, telegrams, old, flags, torn, snapshot>>
      BY <1>2 DEF ClientBegins, ClientEnds, data
    <2>2. locks["before"]' = locks["before"]
      BY <1>2 DEF ClientBegins, ClientEnds, Inv, Control, Types, Holders, Sessions
    <2> QED
      BY <2>1, <2>2, QuietContents DEF Inv
  <1>3. CASE UNCHANGED vars
    <2>1. UNCHANGED <<backend, telegrams, old, flags, torn, snapshot>> /\ locks["before"]' = locks["before"]
      BY <1>3 DEF vars, data, pg
    <2> QED
      BY <2>1, QuietContents DEF Inv
  <1> QED
    BY <1>1, <1>2, <1>3, ContentsWrite, ContentsBeforeReads, ContentsBeforeWrites DEF Next, Others

\* The invariant, for every number of processes and rows.
LEMMA UpgradeInvariant == Spec => []Inv
  <1>1. Init => Inv
    BY ControlInit, ContentsInit DEF Inv
  <1>2. Inv /\ [Next]_vars => Inv'
    BY ControlNext, ContentsNext DEF Inv
  <1> QED
    BY <1>1, <1>2, PTL DEF Spec

\* Whoever starts when, is cut off where, or comes with the version before: no old telegram is unwrapped
\* twice, and none written under the flag at all (postgres.py:574-585, 637-641, 659, sqlite.py:907-908).
THEOREM UnwrapOnce == Spec => []UnwrappedOnce
  <1>1. Inv => UnwrappedOnce
    BY DEF Inv, Contents, TelegramsFine, RowFine, UnwrappedOnce
  <1> QED
    BY <1>1, UpgradeInvariant, PTL

\* A flag in store_metadata is the truth about the rows, so that a later start may trust it
\* (base_sql.py:270-273): with data_unwrapped no old value is wrapped, with nulls_recovered none is missing.
THEOREM FlagsAreTrue == Spec => []FlagsTell
  <1>1. Inv => FlagsTell
    <2> SUFFICES ASSUME Inv, NEW i \in DOMAIN telegrams, telegrams[i].by = "legacy"
                 PROVE  /\ Unwrapping \in flags => telegrams[i].value <= telegrams[i].meant \/ telegrams[i].value = Null
                        /\ Recovery \in flags => ~(telegrams[i].value = Null /\ telegrams[i].numeric /\ ~telegrams[i].float)
      BY DEF FlagsTell
    <2>1. telegrams[i] \in RowType /\ RowFine(telegrams[i]) /\ RowDone(telegrams[i])
      BY DEF Inv, Contents, Typed, TelegramsFine
    <2> QED
      BY <2>1 DEF RowType, RowFine, RowDone, Null
  <1> QED
    BY <1>1, UpgradeInvariant, PTL
-----------------------------------------------------------------------------
(* What a promised start finds *)

\* Until the table of a rebuild that was cut off is created again, there are no rows and no start is past
\* the creation.
Tabled ==
  /\ table \in BOOLEAN /\ reported \in [Processes -> BOOLEAN]
  /\ backend = "postgres" => table
  /\ ~table => /\ DOMAIN telegrams = {}
               /\ \A p \in Processes : phase[p] \in {"down", "tables", "create"}

\* A row of an earlier version on which the passes have nothing to do.
Quiet(row) ==
  row.by = "legacy" /\ ~row.float =>
    /\ ~(row.value = Null /\ row.numeric)
    /\ Unwrapping \notin flags => row.value < 1

\* What needs_migration() did not find does not come up until the start has ended.
Promised(p) ==
  ~reported[p] /\ phase[p] \notin {"down", "ready"} =>
    /\ Settled \/ (~table /\ phase[p] = "tables")
    /\ phase[p] \notin {"rename", "create", "copy"}
    /\ \A i \in DOMAIN telegrams : Quiet(telegrams[i])

PromiseInv == Tabled /\ \A p \in Processes : Promised(p)

\* The tables earlier versions left exist, and no start is under way.
LEMMA PromiseInit == Init => PromiseInv
  <1> SUFFICES ASSUME Init PROVE PromiseInv
    OBVIOUS
  <1>1. Tabled
    BY DEF Init, Tabled
  <1>2. ASSUME NEW p \in Processes PROVE Promised(p)
    BY DEF Init, Promised
  <1> QED
    BY <1>1, <1>2 DEF PromiseInv

\* Columns that are settled stay so.
LEMMA SettledStays == Control /\ Settled /\ [Next]_vars => Settled'
  <1> SUFFICES ASSUME Control, Settled, [Next]_vars PROVE Settled'
    OBVIOUS
  <1>1. CASE schema' = schema
    BY <1>1 DEF Settled
  <1>2. CASE schema' = Current
    BY <1>2, CurrentSchema DEF Settled
  <1>3. ASSUME NEW p \in Processes, AddColumn(p) PROVE schema' = schema
    BY <1>3 DEF AddColumn, Settled
  <1>4. ASSUME NEW p \in Processes, Alter(p) PROVE schema' = schema
    <2>1. ~ColumnsPending
      BY SettledColumns DEF Control, Types
    <2> QED
      BY <1>4, <2>1 DEF Alter, ColumnsPending
  <1>5. ASSUME NEW p \in Processes, Sqlite(p) \/ Postgres(p) \/ Start(p) \/ Crash(p)
        PROVE  schema' = schema \/ schema' = Current
    <2>1. ASSUME NEW S, NEW whole, Passes(p, S, whole) PROVE schema' = Current
      BY <2>1 DEF Passes
    <2>2. CASE Upgrade(p) \/ UpgradeFails(p)
      BY <2>1, <2>2 DEF Upgrade, UpgradeFails
    <2>3. CASE CreateAll(p) \/ AddColumn(p) \/ Rename(p) \/ Create(p)
      BY <1>3, <2>3 DEF CreateAll, Rename, Create
    <2>4. CASE Postgres(p)
      BY <1>4, <2>4 DEF Postgres, Inspect, BackfillBegin, BackfillLock, Backfill, BackfillFails, data
    <2>5. CASE Start(p) \/ Crash(p)
      BY <2>5 DEF Start, Crash, data
    <2> QED
      BY <1>5, <2>2, <2>3, <2>4, <2>5 DEF Sqlite
  <1>6. CASE Others
    BY <1>1, <1>6 DEF Others, Write, ClientBegins, ClientEnds, BeforeReads, BeforeWrites, data
  <1>7. CASE UNCHANGED vars
    BY <1>1, <1>7 DEF vars, data
  <1> QED
    BY <1>1, <1>2, <1>5, <1>6, <1>7 DEF Next


\* A start that does not take part in a step which changes neither rows nor flags is promised what it was.
LEMMA PromiseSame ==
  ASSUME NEW p \in Processes, Promised(p), Settled => Settled', UNCHANGED <<table, telegrams, flags>>,
         UNCHANGED <<phase[p], reported[p]>>
  PROVE  Promised(p)'
  BY DEF Promised, Quiet

\* A start that has ended is promised nothing.
LEMMA PromiseEnds ==
  ASSUME NEW p \in Processes, phase'[p] \in {"down", "ready"}
  PROVE  Promised(p)'
  BY DEF Promised

\* needs_migration() has looked at the columns and for both kinds of rows.
LEMMA PromiseStart ==
  ASSUME Inv, PromiseInv, NEW p \in Processes, Start(p)
  PROVE  PromiseInv'
  <1>1. /\ UNCHANGED <<backend, schema, table, telegrams, flags>>
        /\ phase[p] = "down" /\ phase' = [phase EXCEPT ![p] = IF backend = "sqlite" THEN "tables" ELSE "inspect"]
        /\ reported' = [reported EXCEPT ![p] = NeedsMigration]
    BY DEF Start, Go, data
  <1>2. NeedsMigration \in BOOLEAN /\ (table \/ backend = "sqlite")
    BY DEF NeedsMigration, PromiseInv, Tabled, ColumnsPending, HasNulls, HasWrapped, Inv, Control, Types
  <1> HIDE DEF NeedsMigration
  <1>3. /\ phase'[p] = IF backend = "sqlite" THEN "tables" ELSE "inspect"
        /\ reported'[p] = NeedsMigration
        /\ \A q \in Processes \ {p} : UNCHANGED <<phase[q], reported[q]>>
    BY <1>1 DEF PromiseInv, Tabled, Inv, Control, Types
  <1>4. Tabled'
    BY <1>1, <1>2, <1>3 DEF PromiseInv, Tabled
  <1>5. ~NeedsMigration =>
          /\ Settled \/ (~table /\ backend = "sqlite")
          /\ \A i \in DOMAIN telegrams : Quiet(telegrams[i])
    <2>1. SUFFICES ASSUME ~NeedsMigration
                   PROVE  /\ Settled \/ (~table /\ backend = "sqlite")
                          /\ \A i \in DOMAIN telegrams : Quiet(telegrams[i])
      OBVIOUS
    <2>2. CASE ~table
      BY <1>2, <2>2 DEF PromiseInv, Tabled
    <2>3. CASE table
      <3>1. Settled
        BY <2>1, <2>3, SettledColumns DEF NeedsMigration, Inv, Control, Types
      <3>2. ASSUME NEW i \in DOMAIN telegrams PROVE Quiet(telegrams[i])
        <4>1. telegrams[i] \in RowType /\ RowDone(telegrams[i])
          BY DEF Inv, Contents, Typed, TelegramsFine
        <4>2. Unwrapping \notin flags => ~(telegrams[i].value >= 1)
          BY <2>1, <2>3 DEF NeedsMigration, HasWrapped
        <4>3. Recovery \notin flags => ~(telegrams[i].value = Null /\ telegrams[i].numeric)
          BY <2>1, <2>3 DEF NeedsMigration, HasNulls
        <4> QED
          BY <4>1, <4>2, <4>3 DEF Quiet, RowDone, RowType
      <3> QED
        BY <3>1, <3>2
    <2> QED
      BY <2>2, <2>3
  <1>6. Settled' <=> Settled
    BY <1>1 DEF Settled
  <1>7. \A i \in DOMAIN telegrams : Quiet(telegrams[i]) => Quiet(telegrams[i])'
    BY <1>1 DEF Quiet
  <1>8. Promised(p)'
    BY <1>1, <1>3, <1>5, <1>6, <1>7 DEF Promised
  <1>9. ASSUME NEW q \in Processes \ {p} PROVE Promised(q)'
    BY <1>1, <1>3, <1>6, PromiseSame DEF PromiseInv
  <1> QED
    BY <1>4, <1>8, <1>9 DEF PromiseInv

\* On SQLite nobody else starts meanwhile; with settled columns no start comes to the rebuild.
LEMMA PromiseColumns ==
  ASSUME Inv, PromiseInv, NEW p \in Processes, CreateAll(p) \/ AddColumn(p) \/ Rename(p) \/ Create(p)
  PROVE  PromiseInv'
  <1>1. phase[p] \in {"tables", "columns", "rename", "create"} /\ UNCHANGED <<backend, flags, reported>>
    BY DEF CreateAll, AddColumn, Rename, Create
  <1>2. backend = "sqlite" /\ \A q \in Processes \ {p} : phase[q] = "down"
    BY <1>1 DEF Inv, Control, Backed, OneOwner, Types, SqlitePhases
  <1>3. \E next \in {"columns", "rename", "create", "copy", "passes"} : phase' = [phase EXCEPT ![p] = next]
    BY <1>1 DEF CreateAll, AddColumn, Rename, Create, Go, Inv, Control, Types
  <1>4. \A q \in Processes \ {p} : phase'[q] = "down"
    BY <1>2, <1>3 DEF Inv, Control, Types
  <1>5. Tabled'
    <2>1. CASE Rename(p)
      <3>1. phase'[p] = "create"
        BY <2>1 DEF Rename, Go, Inv, Control, Types
      <3>2. DOMAIN telegrams' = {} /\ table' = FALSE
        BY <2>1 DEF Rename
      <3> QED
        BY <1>1, <1>2, <1>4, <3>1, <3>2 DEF PromiseInv, Tabled
    <2>2. CASE ~Rename(p)
      <3>1. table' = TRUE
        BY <1>1, <2>2 DEF CreateAll, AddColumn, Create, PromiseInv, Tabled
      <3> QED
        BY <1>1, <3>1 DEF PromiseInv, Tabled
    <2> QED
      BY <2>1, <2>2
  <1>6. Promised(p)'
    <2>1. SUFFICES ASSUME ~reported[p]
                   PROVE  /\ Settled'
                          /\ phase'[p] \notin {"rename", "create", "copy"}
                          /\ \A i \in DOMAIN telegrams' : Quiet(telegrams[i])'
      BY <1>1 DEF Promised
    <2>2. /\ Settled \/ (~table /\ phase[p] = "tables")
          /\ phase[p] \in {"tables", "columns"}
          /\ \A i \in DOMAIN telegrams : Quiet(telegrams[i])
      BY <1>1, <2>1 DEF PromiseInv, Promised
    <2>3. UNCHANGED telegrams /\ (CreateAll(p) \/ AddColumn(p))
      BY <2>2 DEF CreateAll, AddColumn, Rename, Create
    <2>4. Settled' /\ phase'[p] \in {"columns", "passes"}
      <3>1. CASE CreateAll(p)
        BY <2>2, <3>1, CurrentSchema DEF CreateAll, Go, Settled, PromiseInv, Tabled, Inv, Control, Types
      <3>2. CASE AddColumn(p)
        BY <2>2, <3>2 DEF AddColumn, Go, Settled, Inv, Control, Types
      <3> QED
        BY <2>3, <3>1, <3>2
    <2> QED
      BY <1>1, <2>2, <2>3, <2>4 DEF Quiet
  <1> QED
    BY <1>4, <1>5, <1>6, PromiseEnds DEF PromiseInv

\* The passes of a SQLite start end it.
LEMMA PromisePasses ==
  ASSUME Inv, PromiseInv, NEW p \in Processes, Upgrade(p) \/ UpgradeFails(p)
  PROVE  PromiseInv'
  <1>1. PICK S, whole : Passes(p, S, whole)
    BY DEF Upgrade, UpgradeFails
  <1>2. /\ phase[p] \in {"copy", "passes"} /\ UNCHANGED <<backend, table>>
        /\ phase' = [phase EXCEPT ![p] = "ready"]
        /\ reported' = [reported EXCEPT ![p] = FALSE]
    BY <1>1 DEF Passes, Leave, Go
  <1>3. \A q \in Processes \ {p} : phase[q] = "down"
    BY <1>2 DEF Inv, Control, Backed, OneOwner, Types, SqlitePhases
  <1>4. \A q \in Processes : phase'[q] \in {"down", "ready"}
    BY <1>2, <1>3 DEF Inv, Control, Types
  <1>5. Tabled'
    BY <1>2 DEF PromiseInv, Tabled
  <1> QED
    BY <1>4, <1>5, PromiseEnds DEF PromiseInv

\* Steps of a start that change neither rows nor flags.
LEMMA PromiseQuiet ==
  ASSUME Inv, PromiseInv, [Next]_vars, NEW p \in Processes,
         Inspect(p) \/ BackfillBegin(p) \/ BackfillLock(p) \/ BackfillFails(p) \/ Crash(p)
         \/ (Alter(p) /\ telegrams' = telegrams)
  PROVE  PromiseInv'
  <1>1. UNCHANGED <<backend, table, telegrams, flags>>
    BY DEF Inspect, BackfillBegin, BackfillLock, BackfillFails, Crash, Alter, data
  <1>2. \/ /\ UNCHANGED reported /\ phase[p] \in PostgresPhases
           /\ \E next \in PostgresPhases : phase' = [phase EXCEPT ![p] = next]
        \/ /\ reported' = [reported EXCEPT ![p] = FALSE]
           /\ \E next \in {"down", "ready"} : phase' = [phase EXCEPT ![p] = next]
           /\ phase[p] \in PostgresPhases \/ phase' = [phase EXCEPT ![p] = "down"]
    BY DEF Inspect, BackfillBegin, BackfillLock, BackfillFails, Crash, Alter, Skip, Leave, Go, PostgresPhases
  <1>3. phase[p] \in PostgresPhases => backend = "postgres"
    BY DEF Inv, Control, Backed
  <1>4. Settled => Settled'
    BY SettledStays DEF Inv
  <1>5. Tabled'
    BY <1>1, <1>2, <1>3 DEF PromiseInv, Tabled, Inv, Control, Types
  <1>6. \A q \in Processes \ {p} : UNCHANGED <<phase[q], reported[q]>>
    BY <1>2 DEF PromiseInv, Tabled, Inv, Control, Types
  <1>7. ASSUME NEW q \in Processes \ {p} PROVE Promised(q)'
    BY <1>1, <1>4, <1>6, <1>7, PromiseSame DEF PromiseInv
  <1>8. Promised(p)'
    <2>1. CASE phase'[p] \in {"down", "ready"}
      BY <2>1, PromiseEnds
    <2>2. CASE phase'[p] \notin {"down", "ready"}
      <3>1. UNCHANGED reported /\ phase[p] \in PostgresPhases /\ phase'[p] \in PostgresPhases
        BY <1>2, <2>2 DEF Inv, Control, Types
      <3> QED
        BY <1>1, <1>4, <3>1 DEF PromiseInv, Promised, Quiet, PostgresPhases
    <2> QED
      BY <2>1, <2>2
  <1> QED
    BY <1>5, <1>7, <1>8 DEF PromiseInv
\* Columns that are settled are not renamed, and no start that is promised anything meets others.
LEMMA PromiseAlter ==
  ASSUME Inv, PromiseInv, [Next]_vars, NEW p \in Processes, Alter(p)
  PROVE  PromiseInv'
  <1>1. CASE telegrams' = telegrams
    BY <1>1, PromiseQuiet
  <1>2. CASE telegrams' # telegrams
    <2>1. /\ UNCHANGED <<backend, table, flags, reported>> /\ phase[p] = "alter"
          /\ ColumnsPending
          /\ telegrams' = Renamed(telegrams)
          /\ phase' = [phase EXCEPT ![p] = "backfill"]
      BY <1>2 DEF Alter, ColumnsPending, Go
    <2>2. ~Settled /\ table /\ backend = "postgres"
      BY <2>1, SettledColumns DEF Inv, Control, Types, Backed, PostgresPhases, PromiseInv, Tabled
    <2>3. Tabled'
      BY <2>1, <2>2 DEF PromiseInv, Tabled
    <2>4. ASSUME NEW q \in Processes PROVE Promised(q)'
      <3>1. reported[q] \/ phase[q] \in {"down", "ready"}
        BY <2>2 DEF PromiseInv, Promised
      <3>2. phase[p] \notin {"down", "ready"}
        BY <2>1
      <3>3. reported'[q] \/ phase'[q] \in {"down", "ready"}
        BY <2>1, <3>1, <3>2 DEF Inv, Control, Types
      <3> QED
        BY <3>3 DEF Promised
    <2> QED
      BY <2>3, <2>4 DEF PromiseInv
  <1> QED
    BY <1>1, <1>2

\* The backfill sets the flags, and leaves no old row anything to recover.
LEMMA PromiseBackfill ==
  ASSUME Inv, PromiseInv, [Next]_vars, NEW p \in Processes, Backfill(p)
  PROVE  PromiseInv'
  <1>1. /\ UNCHANGED <<backend, schema, table>> /\ phase[p] = "work"
        /\ flags' = {Recovery, Unwrapping}
        /\ phase' = [phase EXCEPT ![p] = "ready"]
        /\ reported' = [reported EXCEPT ![p] = FALSE]
    BY DEF Backfill, Skip, Leave, Go, Inv, Control, Types, Flags
  <1>2. table
    BY <1>1 DEF PromiseInv, Tabled
  <1>3. Tabled'
    BY <1>1, <1>2 DEF PromiseInv, Tabled
  <1>4. TelegramsFine' /\ Typed'
    <2>1. Contents'
      BY ContentsNext
    <2> QED
      BY <2>1 DEF Contents
  <1>5. ASSUME NEW i \in DOMAIN telegrams' PROVE Quiet(telegrams[i])'
    <2>1. RowDone(telegrams[i])' /\ telegrams'[i] \in RowType
      BY <1>4 DEF TelegramsFine, Typed
    <2> QED
      BY <1>1, <2>1 DEF Quiet, RowDone, RowType
  <1>6. ASSUME NEW q \in Processes \ {p} PROVE Promised(q)'
    <2>1. phase'[q] = phase[q] /\ reported'[q] = reported[q]
      BY <1>1 DEF PromiseInv, Tabled, Inv, Control, Types
    <2>2. Settled' <=> Settled
      BY <1>1 DEF Settled
    <2> QED
      BY <1>1, <1>5, <2>1, <2>2 DEF PromiseInv, Promised
  <1>7. Promised(p)'
    BY <1>1, PromiseEnds DEF Inv, Control, Types
  <1> QED
    BY <1>3, <1>6, <1>7 DEF PromiseInv

\* Others write rows of this version, or unwrap and set the flag.
LEMMA PromiseOthers ==
  ASSUME Inv, PromiseInv, [Next]_vars, Others
  PROVE  PromiseInv'
  <1>1. UNCHANGED <<backend, schema, table, phase, reported>>
    BY DEF Others, Write, ClientBegins, ClientEnds, BeforeReads, BeforeWrites, data
  <1>2. Tabled' /\ \A i \in DOMAIN telegrams' :
          (i \in DOMAIN telegrams => Quiet(telegrams[i])) => Quiet(telegrams[i])'
    <2>1. CASE \E value \in 0..1 : Write(value)
      <3>1. table
        BY <2>1 DEF Write, PromiseInv, Tabled
      <3>2. PICK id, value : telegrams' =
              [i \in DOMAIN telegrams \cup {id} |->
                 IF i = id THEN [value |-> value, numeric |-> FALSE, float |-> FALSE, meant |-> value,
                                 by |-> IF Unwrapping \in flags THEN "flagged" ELSE "early"]
                 ELSE telegrams[i]]
        BY <2>1 DEF Write
      <3>3. \A i \in DOMAIN telegrams' :
              telegrams'[i].by # "legacy" \/ (i \in DOMAIN telegrams /\ telegrams'[i] = telegrams[i])
        BY <3>2
      <3>4. flags' = flags
        BY <2>1 DEF Write
      <3> QED
        BY <1>1, <3>1, <3>3, <3>4 DEF PromiseInv, Tabled, Quiet
    <2>2. CASE BeforeWrites
      <3>1. backend = "postgres" /\ Unwrapping \in flags'
        BY <2>2 DEF BeforeWrites, Inv, Control, Backed
      <3>2. DOMAIN telegrams' = DOMAIN telegrams
        BY <2>2 DEF BeforeWrites
      <3>3. ASSUME NEW i \in DOMAIN telegrams, Quiet(telegrams[i]) PROVE Quiet(telegrams[i])'
        <4>1. telegrams[i] \in RowType
          BY DEF Inv, Contents, Typed
        <4>2. CASE i \in DOMAIN snapshot
          <5>1. snapshot[i] \in Int /\ snapshot[i] >= 1
            BY <4>2 DEF Inv, Contents, Snapped
          <5>2. telegrams'[i] = [telegrams[i] EXCEPT !.value = snapshot[i] - 1]
            BY <2>2, <4>2 DEF BeforeWrites
          <5>3. telegrams'[i].value = snapshot[i] - 1
            BY <4>1, <5>2 DEF RowType
          <5> QED
            BY <3>1, <5>1, <5>3 DEF Quiet, Null
        <4>3. CASE i \notin DOMAIN snapshot
          <5>1. telegrams'[i] = telegrams[i]
            BY <2>2, <4>3 DEF BeforeWrites
          <5> QED
            BY <3>1, <3>3, <5>1 DEF Quiet
        <4> QED
          BY <4>2, <4>3
      <3> QED
        BY <1>1, <3>1, <3>2, <3>3 DEF PromiseInv, Tabled
    <2>3. CASE (\E mode \in {"access share", "row exclusive"} : ClientBegins(mode)) \/ ClientEnds \/ BeforeReads
      <3>1. UNCHANGED <<telegrams, flags>>
        BY <2>3 DEF ClientBegins, ClientEnds, BeforeReads, data
      <3> QED
        BY <1>1, <3>1 DEF PromiseInv, Tabled, Quiet
    <2> QED
      BY <2>1, <2>2, <2>3 DEF Others
  <1>3. Settled' <=> Settled
    BY <1>1 DEF Settled
  <1>4. ASSUME NEW p \in Processes PROVE Promised(p)'
    BY <1>1, <1>2, <1>3 DEF PromiseInv, Promised
  <1> QED
    BY <1>2, <1>4 DEF PromiseInv

\* PromiseInv holds in every step from a state in which all three do.
LEMMA PromiseNext == Inv /\ PromiseInv /\ [Next]_vars => PromiseInv'
  <1> SUFFICES ASSUME Inv, PromiseInv, [Next]_vars PROVE PromiseInv'
    OBVIOUS
  <1>1. ASSUME NEW p \in Processes, Start(p) \/ Sqlite(p) \/ Postgres(p) \/ Crash(p) PROVE PromiseInv'
    BY <1>1, PromiseStart, PromiseColumns, PromisePasses, PromiseQuiet, PromiseAlter, PromiseBackfill
       DEF Sqlite, Postgres
  <1>2. CASE UNCHANGED vars
    BY <1>2 DEF vars, data, PromiseInv, Tabled, Promised, Quiet, Settled
  <1> QED
    BY <1>1, <1>2, PromiseOthers DEF Next

\* In a step that ends a phase of a promised start, only that start acts.
LEMMA OwnStep ==
  ASSUME Inv, PromiseInv, [Next]_vars, NEW p \in Processes, phase'[p] # phase[p]
  PROVE  Start(p) \/ Sqlite(p) \/ Postgres(p) \/ Crash(p)
  <1>1. ASSUME NEW q \in Processes \ {p} PROVE ~(Start(q) \/ Sqlite(q) \/ Postgres(q) \/ Crash(q))
    <2>1. ASSUME Start(q) \/ Sqlite(q) \/ Postgres(q) \/ Crash(q)
          PROVE  phase' = phase \/ \E next : phase' = [phase EXCEPT ![q] = next]
      <3>1. ASSUME NEW S, NEW whole, Passes(q, S, whole) PROVE \E next : phase' = [phase EXCEPT ![q] = next]
        BY <3>1 DEF Passes, Leave, Go
      <3> QED
        BY <2>1, <3>1 DEF Start, Sqlite, Postgres, Crash, CreateAll, AddColumn, Rename, Create, Upgrade, UpgradeFails,
                          Inspect, Alter, BackfillBegin, BackfillLock, Backfill, BackfillFails, Skip, Leave, Go
    <2> QED
      BY <2>1 DEF Inv, Control, Types
  <1>2. ~Others /\ ~UNCHANGED vars
    BY DEF Others, Write, ClientBegins, ClientEnds, BeforeReads, BeforeWrites, vars
  <1> QED
    BY <1>1, <1>2 DEF Next

\* The passes leave a row alone on which nothing is pending.
LEMMA QuietRow ==
  ASSUME NEW rows, NEW S, NEW i \in DOMAIN rows,
         rows[i].by = "legacy", ~rows[i].float, Quiet(rows[i]),
         Unwrapping \in flags => S = {}
  PROVE  /\ Recovered(rows)[i] = rows[i] /\ DOMAIN Recovered(rows) = DOMAIN rows
         /\ Floated(rows)[i] = rows[i] /\ DOMAIN Floated(rows) = DOMAIN rows
         /\ rows[i] \in RowType => Unwrapped(rows, S)[i] = rows[i]
  <1>1. Recovered(rows)[i] = rows[i] /\ Floated(rows)[i] = rows[i]
    BY DEF Recovered, Floated, Quiet
  <1>2. rows[i] \in RowType => ~(i \in S /\ rows[i].value >= 1)
    BY DEF Quiet, RowType
  <1> QED
    BY <1>1, <1>2 DEF Recovered, Floated, Unwrapped

\* The step in which a promised start could rewrite a row.
LEMMA PromisedRow ==
  ASSUME Inv, PromiseInv, [Next]_vars, NEW p \in Processes,
         phase[p] \in {"copy", "passes", "alter", "work"}, phase'[p] # phase[p], ~reported[p],
         NEW i \in DOMAIN telegrams, telegrams[i].by = "legacy", ~telegrams[i].float
  PROVE  telegrams'[i] = telegrams[i]
  <1>1. /\ Settled /\ phase[p] # "copy" /\ Quiet(telegrams[i]) /\ telegrams[i] \in RowType
    BY DEF PromiseInv, Promised, Inv, Contents, Typed
  <1>2. CASE Start(p) \/ Crash(p) \/ CreateAll(p) \/ AddColumn(p) \/ Rename(p) \/ Create(p) \/ Inspect(p)
             \/ BackfillBegin(p) \/ BackfillLock(p) \/ BackfillFails(p)
    BY <1>2 DEF Start, Crash, CreateAll, AddColumn, Rename, Create, Inspect, BackfillBegin, BackfillLock,
                BackfillFails, data
  <1>3. CASE Alter(p)
    <2>1. ~ColumnsPending
      BY <1>1, SettledColumns DEF Inv, Control, Types
    <2> QED
      BY <1>3, <2>1 DEF Alter, ColumnsPending
  <1>4. CASE Upgrade(p) \/ UpgradeFails(p)
    <2> DEFINE recovered == IF Recovery \in flags THEN telegrams ELSE Recovered(telegrams)
    <2>1. \E S : (Unwrapping \in flags => S = {}) /\ telegrams' = Unwrapped(recovered, S)
      BY <1>1, <1>4 DEF Upgrade, UpgradeFails, Passes
    <2>2. recovered[i] = telegrams[i] /\ i \in DOMAIN recovered
      BY <1>1, QuietRow
    <2> HIDE DEF recovered
    <2> QED
      BY <1>1, <2>1, <2>2, QuietRow
  <1>5. CASE Backfill(p)
    <2> DEFINE recovered == IF Recovery \in known[p] THEN telegrams ELSE Recovered(telegrams)
               floated == IF schema.float THEN Floated(recovered) ELSE recovered
    <2>1. /\ Unwrapping \in flags => Unwrapping \in known[p]
          /\ telegrams' = IF Unwrapping \in known[p] THEN floated ELSE Unwrapped(floated, DOMAIN floated)
      BY <1>5 DEF Backfill, Backfilled, Inv, Control, Known
    <2>2. recovered[i] = telegrams[i] /\ i \in DOMAIN recovered
      BY <1>1, QuietRow
    <2> HIDE DEF recovered
    <2>3. floated[i] = telegrams[i] /\ i \in DOMAIN floated
      BY <1>1, <2>2, QuietRow
    <2> HIDE DEF floated
    <2> QED
      BY <1>1, <2>1, <2>3, QuietRow
  <1> QED
    BY <1>2, <1>3, <1>4, <1>5, OwnStep DEF Sqlite, Postgres

\* A start that needs_migration() promised to be quick rewrites no row that was there when it was asked
\* (base_sql.py:270-273), whoever else starts, writes, unwraps or is cut off in between; values moved from
\* value_legacy_float are the exception.
THEOREM PromiseKept == Spec => QuickWhenPromised
  <1>1. Init => PromiseInv
    BY PromiseInit
  <1>2. Inv /\ PromiseInv /\ [Next]_vars => PromiseInv'
    BY PromiseNext
  <1>3. Inv /\ PromiseInv /\ [Next]_vars =>
          [\A p \in Processes :
             phase[p] \in {"copy", "passes", "alter", "work"} /\ phase'[p] # phase[p] /\ ~reported[p] =>
               \A i \in DOMAIN telegrams :
                 telegrams[i].by = "legacy" /\ ~telegrams[i].float => telegrams'[i] = telegrams[i]]_vars
    BY PromisedRow
  <1> QED
    BY <1>1, <1>2, <1>3, UpgradeInvariant, PTL DEF Spec, QuickWhenPromised
=============================================================================
