----------------------------- MODULE SchemaUpgrade -----------------------------
(***************************************************************************)
(* What initialize() does to a database of an earlier version: columns are *)
(* renamed, added and dropped, missing values are recovered from           *)
(* value_numeric, and values wrapped in {"value": ...} are unwrapped, with *)
(* a flag in store_metadata for each of the two passes.                    *)
(*                                                                         *)
(* On SQLite (backends/sqlite.py) one process does this. Its driver opens  *)
(* a transaction at the first INSERT, UPDATE or DELETE, so every ALTER,    *)
(* DROP and CREATE before that is committed on its own. On PostgreSQL      *)
(* (backends/postgres.py) the columns are one transaction, the passes      *)
(* another, several processes may start at once, and clients, among them a *)
(* process of the version before, hold locks on telegrams.                 *)
(*                                                                         *)
(* A value is the number of {"value": ...} layers around a scalar, so that *)
(* 1 is both a wrapped scalar and a decoded dictionary of this shape.      *)
(***************************************************************************)
EXTENDS Integers, FiniteSets

CONSTANTS
  Backends,  \* subset of {"sqlite", "postgres"}
  Processes, \* processes that start a writing store
  Legacy,    \* how many rows the database holds at most
  MaxRow     \* bound on rows

ASSUME UpgradeAssumption ==
  /\ Backends \subseteq {"sqlite", "postgres"}
  /\ Processes \cap {"client", "before"} = {}
  /\ Legacy \in Nat /\ MaxRow \in Nat /\ Legacy <= MaxRow

VARIABLES
  backend,
  schema,    \* columns of telegrams
  table,     \* telegrams exists
  telegrams, \* id -> row
  old,       \* _telegrams_old: id -> row
  flags,     \* the keys of store_metadata that are "true"
  phase,     \* the next statement or transaction of initialize() of each process, or "ready", or "down"
  columns,   \* the columns a start has read
  known,     \* the flags a start has read
  locks,     \* locks on telegrams: holder -> mode
  advisory,  \* processes that hold the advisory lock
  snapshot,  \* what the unwrapping of the version before has read: id -> value
  reported,  \* needs_migration() before the start under way (history)
  torn       \* a failed unwrapping was committed in part (history)

data == <<schema, table, telegrams, old, flags>>
pg == <<locks, advisory, snapshot>>
seen == <<columns, known>>
vars == <<backend, data, phase, seen, pg, reported, torn>>

Null == -1  \* NULL, or the text 'null'
Float == -2 \* in a column value of type FLOAT
Unwrapping == "data_unwrapped"
Recovery == "nulls_recovered"

\* With a column source; with other legacy columns; neither. On PostgreSQL "strings" stands for both and for
\* every other column that is renamed or retyped: it is one transaction.
Layouts == {"strings", "leftover", "current"}
Schemas == [layout : Layouts, value : {"none", "float", "json"}, numeric : BOOLEAN, float : BOOLEAN]
Current == [layout |-> "current", value |-> "json", numeric |-> TRUE, float |-> FALSE]

\* `meant` is the value the telegram had; a row of this version is "flagged" if it was written with the
\* flag of the unwrapping set, and "early" if not.
LegacyRow(value, numeric, meant) ==
  [value |-> value, numeric |-> numeric, float |-> FALSE, meant |-> meant, by |-> "legacy"]

Sessions == {"client", "before"} \* a client's open transaction; a process of the version before
Holders == Processes \cup Sessions
Modes == {"none", "access share", "row exclusive", "share row exclusive", "access exclusive"}
Conflicting(mode) ==
  CASE mode = "access share" -> {"access exclusive"}
    [] mode = "row exclusive" -> {"share row exclusive", "access exclusive"}
    [] mode = "share row exclusive" -> {"row exclusive", "share row exclusive", "access exclusive"}
    [] mode = "access exclusive" -> Modes \ {"none"}
    [] OTHER -> {}
Free(holder, mode) == \A h \in Holders \ {holder} : locks[h] \notin Conflicting(mode)

-----------------------------------------------------------------------------
(* What is pending *)

HasNulls(rows) == \E i \in DOMAIN rows : rows[i].value = Null /\ rows[i].numeric
HasWrapped(rows) == \E i \in DOMAIN rows : rows[i].value >= 1
HasFloats(rows) == \E i \in DOMAIN rows : rows[i].float /\ ~rows[i].numeric

ColumnsPending == [schema EXCEPT !.float = FALSE] # Current

\* The part of needs_migration() about the schema.
NeedsMigration_Nulls ==
  /\ table
  /\ \/ ColumnsPending
     \/ Recovery \notin flags /\ HasNulls(telegrams)
NeedsMigration ==
  /\ table
  /\ \/ ColumnsPending
     \/ Recovery \notin flags /\ HasNulls(telegrams)
     \/ Unwrapping \notin flags /\ HasWrapped(telegrams)

-----------------------------------------------------------------------------
(* The passes over the rows *)

Recovered(rows) ==
  [i \in DOMAIN rows |->
     IF rows[i].value = Null /\ rows[i].numeric THEN [rows[i] EXCEPT !.value = 0] ELSE rows[i]]
Floated(rows) ==
  [i \in DOMAIN rows |-> IF rows[i].float THEN [rows[i] EXCEPT !.numeric = TRUE] ELSE rows[i]]
Unwrapped(rows, S) ==
  [i \in DOMAIN rows |->
     IF i \in S /\ rows[i].value >= 1 THEN [rows[i] EXCEPT !.value = @ - 1] ELSE rows[i]]
\* A column "value" of type FLOAT becomes value_numeric, or value_legacy_float if there is one.
Renamed(rows) ==
  [i \in DOMAIN rows |->
     IF rows[i].value = Float
     THEN [rows[i] EXCEPT !.value = Null, !.numeric = @ \/ ~schema.numeric, !.float = schema.numeric]
     ELSE rows[i]]

\* The databases of earlier versions, with the rows they can hold.
Init ==
  /\ backend \in Backends
  /\ schema \in {s \in Schemas : /\ ~s.float
                              /\ s.value = "json" => s.numeric
                              /\ IF backend = "postgres" THEN s.layout # "leftover" ELSE s.value # "float"}
  /\ table = TRUE
  /\ telegrams \in
       LET Written == CASE schema.value = "json" ->
                             {LegacyRow(m + 1, FALSE, m) : m \in 0..1}
                             \cup {LegacyRow(0, FALSE, 0), LegacyRow(Null, TRUE, 0), LegacyRow(Null, FALSE, Null)}
                        [] schema.value = "float" ->
                             {LegacyRow(Float, FALSE, 0)} \cup {LegacyRow(Null, n, 0) : n \in {schema.numeric} \ {FALSE}}
                        [] OTHER -> {LegacyRow(Null, n, IF n THEN 0 ELSE Null) : n \in {FALSE, schema.numeric}}
       IN UNION {[1..n -> Written] : n \in 0..Legacy}
  /\ old = <<>> /\ flags = {}
  /\ phase = [p \in Processes |-> "down"]
  /\ columns = [p \in Processes |-> Current] /\ known = [p \in Processes |-> {}]
  /\ locks = [h \in Holders |-> "none"]
  /\ advisory = {} /\ snapshot = <<>>
  /\ reported = [p \in Processes |-> FALSE]
  /\ torn = FALSE

Go(p, next) == phase' = [phase EXCEPT ![p] = next]

\* A start ends, with what it knew.
Leave(p, next) ==
  /\ Go(p, next)
  /\ columns' = [columns EXCEPT ![p] = Current]
  /\ known' = [known EXCEPT ![p] = {}]
  /\ reported' = [reported EXCEPT ![p] = FALSE]

\* A SQLite file has one owner.
Start(p) ==
  /\ phase[p] = "down"
  /\ backend = "sqlite" => \A q \in Processes : phase[q] = "down"
  /\ Go(p, IF backend = "sqlite" THEN "tables" ELSE "inspect")
  /\ reported' = [reported EXCEPT ![p] = NeedsMigration]
  /\ UNCHANGED <<backend, data, seen, pg, torn>>

-----------------------------------------------------------------------------
(* SQLite *)

\* metadata.create_all(). With a column source the first statement of the upgrade is an INSERT, and all
\* of it one transaction.
CreateAll(p) ==
  /\ phase[p] = "tables"
  /\ table' = TRUE
  /\ schema' = IF table THEN schema ELSE Current
  /\ Go(p, IF table /\ schema.layout = "strings" THEN "passes" ELSE "columns")
  /\ UNCHANGED <<backend, telegrams, old, flags, seen, pg, reported, torn>>

AddColumn(p) ==
  /\ phase[p] = "columns"
  /\ \/ /\ schema.value = "none"
        /\ schema' = [schema EXCEPT !.value = "json"]
        /\ UNCHANGED phase
     \/ /\ schema.value # "none" /\ ~schema.numeric
        /\ schema' = [schema EXCEPT !.numeric = TRUE]
        /\ UNCHANGED phase
     \/ /\ schema.value # "none" /\ schema.numeric
        /\ Go(p, IF schema.layout = "current" THEN "passes" ELSE "rename")
        /\ UNCHANGED schema
  /\ UNCHANGED <<backend, table, telegrams, old, flags, seen, pg, reported, torn>>

\* The rebuild: ALTER TABLE telegrams RENAME TO _telegrams_old.
Rename(p) ==
  /\ phase[p] = "rename"
  /\ old' = telegrams
  /\ telegrams' = <<>>
  /\ table' = FALSE
  /\ Go(p, "create")
  /\ UNCHANGED <<backend, schema, flags, seen, pg, reported, torn>>

Create(p) ==
  /\ phase[p] = "create"
  /\ table' = TRUE
  /\ schema' = Current
  /\ Go(p, "copy")
  /\ UNCHANGED <<backend, telegrams, old, flags, seen, pg, reported, torn>>

\* The last transaction: the copy of the rows, DROP TABLE _telegrams_old, and both passes. A failure of
\* the second one is swallowed, and what it had written is committed without its flag.
Passes_Flagged(p, unwrapped, whole) ==
  LET rows == IF phase[p] = "copy" THEN old ELSE telegrams
      recovered == IF Recovery \in flags THEN rows ELSE Recovered(rows)
  IN /\ phase[p] \in {"copy", "passes"}
     /\ Unwrapping \in flags => unwrapped = {} /\ whole
     /\ telegrams' = Unwrapped(recovered, unwrapped)
     /\ old' = IF phase[p] = "copy" THEN <<>> ELSE old
     /\ schema' = Current
     /\ flags' = flags \cup {Recovery} \cup {Unwrapping}
     /\ torn' = (torn \/ ~whole)
     /\ Leave(p, "ready")
     /\ UNCHANGED <<backend, table, pg>>
Passes(p, unwrapped, whole) ==
  LET rows == IF phase[p] = "copy" THEN old ELSE telegrams
      recovered == IF Recovery \in flags THEN rows ELSE Recovered(rows)
  IN /\ phase[p] \in {"copy", "passes"}
     /\ Unwrapping \in flags => unwrapped = {} /\ whole
     /\ telegrams' = Unwrapped(recovered, unwrapped)
     /\ old' = IF phase[p] = "copy" THEN <<>> ELSE old
     /\ schema' = Current
     /\ flags' = flags \cup {Recovery} \cup (IF whole THEN {Unwrapping} ELSE {})
     /\ torn' = (torn \/ ~whole)
     /\ Leave(p, "ready")
     /\ UNCHANGED <<backend, table, pg>>

Upgrade(p) ==
  LET rows == IF phase[p] = "copy" THEN old ELSE telegrams IN
  Passes(p, IF Unwrapping \in flags THEN {} ELSE DOMAIN rows, TRUE)
UpgradeFails(p) ==
  LET rows == IF phase[p] = "copy" THEN old ELSE telegrams IN
  /\ Unwrapping \notin flags
  /\ \E S \in SUBSET DOMAIN rows : S # DOMAIN rows /\ Passes(p, S, FALSE)

-----------------------------------------------------------------------------
(* PostgreSQL *)

\* The first transaction reads the columns ...
Inspect(p) ==
  /\ phase[p] = "inspect"
  /\ columns' = [columns EXCEPT ![p] = schema]
  /\ Go(p, "alter")
  /\ UNCHANGED <<backend, data, known, pg, reported, torn>>

\* ... and waits for every other lock on telegrams: it drops and creates the notify trigger even if there
\* is no column to change. A plan that another process has carried out meanwhile fails.
Alter(p) ==
  /\ phase[p] = "alter"
  /\ Free(p, "access exclusive")
  /\ IF [schema EXCEPT !.float = FALSE] = Current /\ columns[p] = schema
     THEN Go(p, "backfill") /\ UNCHANGED <<schema, telegrams, seen, reported>>
     ELSE IF columns[p] = schema
     THEN /\ telegrams' = Renamed(telegrams)
          /\ schema' = [Current EXCEPT !.float = schema.float \/ (schema.value = "float" /\ schema.numeric)]
          /\ Go(p, "backfill") /\ UNCHANGED <<seen, reported>>
     ELSE Leave(p, "down") /\ UNCHANGED <<schema, telegrams>>
  /\ UNCHANGED <<backend, table, old, flags, pg, torn>>

\* The backfill: pg_try_advisory_xact_lock(), the flags, and which lock they call for.
LockMode(done) ==
  IF Unwrapping \notin done THEN "access exclusive"
  ELSE IF Recovery \notin done \/ (schema.float /\ HasFloats(telegrams)) THEN "share row exclusive"
  ELSE "none"

BackfillBegin(p) ==
  /\ phase[p] = "backfill"
  /\ IF advisory # {}
     THEN Leave(p, "ready") /\ UNCHANGED advisory
     ELSE /\ advisory' = {p}
          /\ known' = [known EXCEPT ![p] = flags]
          /\ Go(p, "lock")
          /\ UNCHANGED <<columns, reported>>
  /\ UNCHANGED <<backend, data, locks, snapshot, torn>>

\* LOCK TABLE ... NOWAIT: if the lock is taken the backfill is left to a later start.
Skip(p) ==
  /\ Leave(p, "ready")
  /\ advisory' = advisory \ {p}
  /\ locks' = [locks EXCEPT ![p] = "none"]

BackfillLock_Waits(p) ==
  LET mode == LockMode(known[p]) IN
  /\ phase[p] = "lock"
  /\ Free(p, mode)
  /\ locks' = [locks EXCEPT ![p] = mode]
  /\ known' = [known EXCEPT ![p] = flags]
  /\ Go(p, "work")
  /\ UNCHANGED <<backend, data, columns, advisory, snapshot, reported, torn>>
BackfillLock_Stale(p) ==
  LET mode == LockMode(known[p]) IN
  /\ phase[p] = "lock"
  /\ IF Free(p, mode)
     THEN /\ locks' = [locks EXCEPT ![p] = mode]
          /\ Go(p, "work")
          /\ UNCHANGED <<advisory, seen, reported>>
     ELSE Skip(p)
  /\ UNCHANGED <<backend, data, snapshot, torn>>
BackfillLock(p) ==
  LET mode == LockMode(known[p]) IN
  /\ phase[p] = "lock"
  /\ IF Free(p, mode)
     THEN /\ locks' = [locks EXCEPT ![p] = mode]
          /\ known' = [known EXCEPT ![p] = IF mode = "none" THEN @ ELSE flags]
          /\ Go(p, "work")
          /\ UNCHANGED <<advisory, columns, reported>>
     ELSE Skip(p)
  /\ UNCHANGED <<backend, data, snapshot, torn>>

Backfilled(done) ==
  LET recovered == IF Recovery \in done THEN telegrams ELSE Recovered(telegrams)
      floated == IF schema.float THEN Floated(recovered) ELSE recovered
  IN IF Unwrapping \in done THEN floated ELSE Unwrapped(floated, DOMAIN floated)

Backfill(p) ==
  /\ phase[p] = "work"
  /\ telegrams' = Backfilled(known[p])
  /\ flags' = flags \cup {Recovery, Unwrapping}
  /\ Skip(p)
  /\ UNCHANGED <<backend, schema, table, old, snapshot, torn>>

\* A failure is never fatal: it is rolled back and logged.
BackfillFails(p) ==
  /\ phase[p] = "work"
  /\ Skip(p)
  /\ UNCHANGED <<backend, data, snapshot, torn>>

-----------------------------------------------------------------------------
(* Others *)

\* The process is killed or its start cancelled; the open transaction is rolled back.
Crash(p) ==
  /\ phase[p] # "down"
  /\ Leave(p, "down")
  /\ locks' = [locks EXCEPT ![p] = "none"]
  /\ advisory' = advisory \ {p}
  /\ UNCHANGED <<backend, data, snapshot, torn>>

\* A ready store writes a telegram, whose value may be a dictionary {"value": ...}.
Write(value) ==
  LET id == 1 + Cardinality(DOMAIN telegrams \cup DOMAIN old)
      row == [value |-> value, numeric |-> FALSE, float |-> FALSE, meant |-> value,
              by |-> IF Unwrapping \in flags THEN "flagged" ELSE "early"]
  IN /\ \E p \in Processes : phase[p] = "ready"
     /\ id <= MaxRow
     /\ Free("client", "row exclusive")
     /\ telegrams' = [i \in DOMAIN telegrams \cup {id} |-> IF i = id THEN row ELSE telegrams[i]]
     /\ UNCHANGED <<backend, schema, table, old, flags, phase, seen, pg, reported, torn>>

\* A client has a transaction open in which it has read or written.
ClientBegins(mode) ==
  /\ backend = "postgres"
  /\ locks["client"] = "none"
  /\ Free("client", mode)
  /\ locks' = [locks EXCEPT !["client"] = mode]
  /\ UNCHANGED <<backend, data, phase, seen, advisory, snapshot, reported, torn>>
ClientEnds ==
  /\ locks["client"] # "none"
  /\ locks' = [locks EXCEPT !["client"] = "none"]
  /\ UNCHANGED <<backend, data, phase, seen, advisory, snapshot, reported, torn>>

\* The unwrapping of the version before reads the rows and writes them later, in one transaction
\* without a lock of its own.
BeforeReads ==
  /\ backend = "postgres"
  /\ ~ColumnsPending
  /\ Unwrapping \notin flags
  /\ locks["before"] = "none"
  /\ Free("before", "access share")
  /\ locks' = [locks EXCEPT !["before"] = "access share"]
  /\ snapshot' = [i \in {k \in DOMAIN telegrams : telegrams[k].value >= 1} |-> telegrams[i].value]
  /\ UNCHANGED <<backend, data, phase, seen, advisory, reported, torn>>
BeforeWrites ==
  /\ locks["before"] # "none"
  /\ Free("before", "row exclusive")
  /\ telegrams' = [i \in DOMAIN telegrams |->
       IF i \in DOMAIN snapshot THEN [telegrams[i] EXCEPT !.value = snapshot[i] - 1] ELSE telegrams[i]]
  /\ flags' = flags \cup {Unwrapping}
  /\ locks' = [locks EXCEPT !["before"] = "none"]
  /\ snapshot' = <<>>
  /\ UNCHANGED <<backend, schema, table, old, phase, seen, advisory, reported, torn>>

Sqlite(p) == CreateAll(p) \/ AddColumn(p) \/ Rename(p) \/ Create(p) \/ Upgrade(p) \/ UpgradeFails(p)
Postgres(p) == Inspect(p) \/ Alter(p) \/ BackfillBegin(p) \/ BackfillLock(p) \/ Backfill(p) \/ BackfillFails(p)
Others ==
  \/ \E value \in 0..1 : Write(value)
  \/ \E mode \in {"access share", "row exclusive"} : ClientBegins(mode)
  \/ ClientEnds
  \/ BeforeReads
  \/ BeforeWrites

Next ==
  \/ \E p \in Processes : Start(p) \/ Sqlite(p) \/ Postgres(p) \/ Crash(p)
  \/ Others

Spec == Init /\ [][Next]_vars

\* A start goes on until it is cut off; nobody else has to do anything.
FairSpec == Spec /\ \A p \in Processes : WF_vars(Sqlite(p) \/ Postgres(p))
=============================================================================
