------------------------------- MODULE MCSqlStore -------------------------------
(* An instance of SqlStoreProps for TLC. *)
EXTENDS SqlStoreProps

CONSTANTS p1, p2, d1, d2

\* Telegram 1 is older than 2; 3 has another group address and is too large to be announced. Two batches
\* lock the two group addresses in opposite orders.
MCTelegrams == 1..3
MCNameOf == <<d1, d1, d2>>
MCTimeOf == <<1, 2, 1>>
MCBatches == {<<1>>, <<2, 1>>, <<2, 3>>, <<1, 3, 2>>, <<3, 1>>}

ProcessSymmetry == Permutations({p1, p2})
=============================================================================
