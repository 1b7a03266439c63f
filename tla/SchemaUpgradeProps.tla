--------------------------- MODULE SchemaUpgradeProps ---------------------------
(* What the upgrade of SchemaUpgrade promises. *)
EXTENDS SchemaUpgrade

\* A value is unwrapped once, however many processes start at once, are cut off, or belong to the version
\* before: an old telegram whose own value is {"value": ...} keeps it (postgres.py:574-585, 659), and one
\* that was written once the flag is set is never rewritten (postgres.py:637-641, sqlite.py:907-908). On
\* SQLite a pass that failed half way is not repeatable, and left out.
UnwrappedOnce ==
  \A i \in DOMAIN telegrams :
    LET row == telegrams[i] IN
    /\ row.by = "legacy" /\ row.value >= 0 /\ ~torn => row.value >= row.meant
    /\ row.by = "flagged" => row.value = row.meant

\* The flags tell the truth, so that no later start has to look: with data_unwrapped no old value is
\* wrapped, with nulls_recovered none is missing that value_numeric knows. A value that was in
\* value_legacy_float is the exception: it is moved to value_numeric after the recovery has run.
FlagsTell ==
  \A i \in DOMAIN telegrams :
    telegrams[i].by = "legacy" =>
      /\ Unwrapping \in flags => telegrams[i].value <= telegrams[i].meant \/ telegrams[i].value = Null
      /\ Recovery \in flags => ~(telegrams[i].value = Null /\ telegrams[i].numeric /\ ~telegrams[i].float)

\* needs_migration() answered False: the start that follows rewrites no row that was there when it was
\* asked (base_sql.py:270-273), save those of value_legacy_float, for which it does not look.
QuickWhenPromised ==
  [][\A p \in Processes :
       phase[p] \in {"copy", "passes", "alter", "work"} /\ phase'[p] # phase[p] /\ ~reported[p] =>
         \A i \in DOMAIN telegrams :
           telegrams[i].by = "legacy" /\ ~telegrams[i].float => telegrams'[i] = telegrams[i]]_vars

\* From the backfill on a start does not depend on anybody: whatever transaction others leave open, it
\* ends (postgres.py:545-548).
BackfillNeverWaits ==
  \A p \in Processes : phase[p] \in {"backfill", "lock", "work"} ~> phase[p] \in {"ready", "down"}

\* What a store that is ready holds are all rows it had before the upgrade, whenever that was cut off
\* ("idempotent schema upgrades", docs/design_and_implementation.md:333).
RowsKept ==
  (\E p \in Processes : phase[p] = "ready") => DOMAIN old = {}
=============================================================================
