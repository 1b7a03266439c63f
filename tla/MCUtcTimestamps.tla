---------------------------- MODULE MCUtcTimestamps ----------------------------
(***************************************************************************)
(* Instances of UtcTimestamps for TLC. Two units make an hour, so that a   *)
(* transition need not fall on the hour.                                   *)
(***************************************************************************)
EXTENDS UtcTimestamps

\* East and west of UTC, each with a repeated hour and with a gap; the transition among the rows of
\* the file, or just before the upgrade.
MCZones ==
  {[at |-> 2, before |-> 1, after |-> 3], [at |-> 2, before |-> -1, after |-> -3],
   [at |-> 4, before |-> 3, after |-> 1], [at |-> 4, before |-> -3, after |-> -1]}
MCMoments == {0, 1, 3, 4}
=============================================================================
