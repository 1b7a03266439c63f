------------------------- MODULE IntegerTimestampsProps -------------------------
(***************************************************************************)
(* What IntegerTimestamps promises.                                        *)
(***************************************************************************)
EXTENDS IntegerTimestamps

RowTypes ==
  /\ DOMAIN telegrams \subseteq 1..MaxRow
  /\ telegrams \in [DOMAIN telegrams -> Rows]
  /\ DOMAIN last \subseteq Dests
  /\ last \in [DOMAIN last -> Values]

FlagTypes ==
  /\ integerFlag \in BOOLEAN /\ vacuumPending \in BOOLEAN /\ reconciled \in BOOLEAN
  /\ index \in BOOLEAN /\ statistics \in BOOLEAN /\ bloated \in BOOLEAN
  /\ converted \in BOOLEAN /\ reported \in BOOLEAN
  /\ asking \in BOOLEAN /\ textBounds \in BOOLEAN /\ seen \in BOOLEAN /\ calm \in BOOLEAN

StepTypes ==
  /\ space \in Space
  /\ phase \in Phases
  /\ table \in {"telegrams", "last"}
  /\ low \in Nat
  /\ low < BatchRows + MaxRow \/ low < BatchRows + K
  /\ cuts \in 0..MaxCuts
  /\ answer \in [calm : BOOLEAN, exact : BOOLEAN]

\* Types of the file, of the owner and of the reader; low stops within a batch of the last row.
TypeOK == RowTypes /\ FlagTypes /\ StepTypes

\* The flag is the only thing that tells the formats apart (sqlite.py:476): once it is set, however
\* often the batches before it were cut off and taken up again, no text timestamp is left.
FormatsFollowFlag == integerFlag => ~HasText

\* initialize() leaves a file without further passes due, whichever step of an earlier start was the
\* last: flagged, with the index that the conversion dropped, and with its last values repaired.
ReadyIsComplete == phase = "ready" => integerFlag /\ index /\ reconciled

\* No telegram of a group address is newer than the last value get_last_unique_telegrams() returns
\* for it, though the two tables are rewritten one after the other and SQLite orders an integer
\* before every text.
LastValueNewest ==
  phase = "ready" =>
    \A i \in DOMAIN telegrams :
      /\ telegrams[i].dest \in DOMAIN last
      /\ telegrams[i].at <= last[telegrams[i].dest].at

\* needs_migration() answered False: the start that follows rewrites no row, builds no index,
\* analyses no large table, repairs no last value, and compacts the file only if an earlier start
\* left that pending and the volume has got room since (base_sql.py:270-273).
QuickWhenPromised ==
  [][ \/ phase = "batch" /\ <<telegrams, last>>' # <<telegrams, last>>
      \/ ~index /\ index' /\ DOMAIN telegrams # {}
      \/ phase = "indexes" /\ StatisticsDue /\ statistics'
      \/ phase = "vacuum" /\ phase' = "unflag" /\ ~vacuumPending
      \/ phase = "warm" /\ last' # last
      => reported ]_vars

\* A query of a read-only store finds the rows of its range exactly, on a file that is converted and
\* on one that is not; only a query the conversion overtakes may miss rows (sqlite.py:464-483).
ReaderExact == answer.calm => answer.exact

\* README.md:184: read-only stores "query such a file correctly in the meantime, time ranges
\* included, and carry on when the owner converts it underneath them".
ReadersCarryOn == answer.exact

\* README.md:169: the conversion "ends with a VACUUM", or that is "flagged vacuum_pending, and run on
\* a later start once there is room": a file in use is compact, or known not to be.
FreedSpaceAccounted == phase = "ready" => ~bloated \/ vacuumPending

\* Cut off a number of times, the conversion still ends, once half the file stays free.
ConversionCompletes == <>[](space # "short") => <>integerFlag

\* A VACUUM that had no room runs when there is room and the host starts the store again.
PendingVacuumRuns ==
  (<>[](space = "copy") /\ []<>(phase = "down")) => <>[]~vacuumPending
=============================================================================
