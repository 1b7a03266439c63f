--------------------------------- MODULE Queries ---------------------------------
(***************************************************************************)
(* What a store answers (backends/base_sql.py, backends/memory.py): the SQL *)
(* query and the loops of the memory store, each as its code computes it,   *)
(* for a SQL store and a memory store that are given the same calls. Equal  *)
(* timestamps have no order in a SQL page, and a fixed one in memory.       *)
(*                                                                          *)
(* The filters on source, type and direction are those on the destination.  *)
(***************************************************************************)
EXTENDS Integers, SequencesExt

CONSTANTS
  Telegrams,   \* telegrams, each stored once
  Names,       \* group addresses
  NameOf,      \* telegram -> group address
  TimeOf,      \* telegram -> timestamp
  DptOf,       \* telegram -> <<main, sub>>
  MaxTelegrams,\* the capacity of the memory store
  Batches,     \* the batches that are stored
  Cutoffs      \* the bounds evictions are made with

None == 0 \* no time bound, or no subtype

ASSUME QueriesAssumption ==
  /\ NameOf \in [Telegrams -> Names] /\ TimeOf \in [Telegrams -> Nat \ {None}]
  /\ DptOf \in [Telegrams -> Nat \X Nat]
  /\ MaxTelegrams \in Nat \ {0}
  /\ Batches \subseteq {batch \in Seq(Telegrams) : IsInjective(batch)} /\ Cutoffs \subseteq Nat

VARIABLES
  rows,  \* the table telegrams
  last,  \* last_ga_telegrams: group address -> telegram
  deque, \* the memory store
  used   \* the telegrams stored so far (history)

stores == <<rows, last, deque, used>>

TimesIn(S) == {TimeOf[t] : t \in S}

-----------------------------------------------------------------------------
(* BaseSQLStore.query() *)

InTime(q, t) ==
  /\ q.start # None => TimeOf[t] >= q.start
  /\ q.end # None => TimeOf[t] <= q.end
DptMatches(q, t) ==
  \/ DptOf[t][1] \in q.mains
  \/ \E dpt \in q.dpts : dpt[1] = DptOf[t][1] /\ dpt[2] \in {None, DptOf[t][2]}
Filtered(q, t) ==
  /\ q.dests # {} => NameOf[t] \in q.dests
  /\ (q.mains # {} \/ q.dpts # {}) => DptMatches(q, t)
  /\ InTime(q, t)

HasFilters(q) == q.dests # {} \/ q.mains # {} \/ q.dpts # {} \/ q.start # None \/ q.end # None
Window(q) == q.before > 0 \/ q.after > 0

\* EXISTS a pivot whose window holds the row.
SqlMatches(table, q) ==
  LET pivots == TimesIn({t \in table : Filtered(q, t)}) IN
  IF Window(q) /\ HasFilters(q)
  THEN {t \in table : \E pivot \in pivots : TimeOf[t] >= pivot - q.before /\ TimeOf[t] <= pivot + q.after}
  ELSE {t \in table : Filtered(q, t)}

Before(s, t, desc) == IF desc THEN TimeOf[s] > TimeOf[t] ELSE TimeOf[s] < TimeOf[t]
Orders(S, desc) == {order \in SetToSeqs(S) : \A j, k \in DOMAIN order : j < k => ~Before(order[k], order[j], desc)}
Slice(order, offset, limit) == SubSeq(order, offset + 1, IF offset + limit < Len(order) THEN offset + limit ELSE Len(order))
SqlPages(table, q) == {Slice(order, q.offset, q.limit) : order \in Orders(SqlMatches(table, q), q.desc)}
LimitReached(total, offset, limit) == total > offset + limit

-----------------------------------------------------------------------------
(* MemoryStore.query() and get_last_unique_telegrams() *)

\* bisect_left: how many pivots lie below the bound; the next one decides.
PivotBetween_BisectRight(pivots, low, high) == \E p \in pivots : p > low /\ p <= high
PivotBetween(pivots, low, high) ==
  LET rest == {p \in pivots : ~(p < low)} IN rest # {} /\ Min(rest) <= high

\* Positions of the deque.
MemoryMatches(q) ==
  LET results == {k \in DOMAIN deque : Filtered(q, deque[k])}
      pivots == {TimeOf[deque[k]] : k \in results}
  IN IF Window(q)
     THEN {k \in DOMAIN deque : PivotBetween(pivots, TimeOf[deque[k]] - q.after, TimeOf[deque[k]] + q.before)}
     ELSE results

\* The sort is stable, in both directions: at place n is the match that n - 1 others come before.
Earlier(j, k, desc) ==
  Before(deque[j], deque[k], desc) \/ (TimeOf[deque[j]] = TimeOf[deque[k]] /\ j < k)
MemoryOrder(q) ==
  LET results == MemoryMatches(q)
  IN [n \in 1..Cardinality(results) |->
        deque[CHOOSE k \in results : Cardinality({j \in results : Earlier(j, k, q.desc)}) = n - 1]]

MemoryLast ==
  LET First(n, k) == /\ NameOf[deque[k]] = n
                     /\ \A j \in DOMAIN deque : NameOf[deque[j]] = n =>
                          \/ TimeOf[deque[j]] < TimeOf[deque[k]]
                          \/ TimeOf[deque[j]] = TimeOf[deque[k]] /\ k <= j
  IN [n \in {NameOf[t] : t \in ToSet(deque)} |-> deque[CHOOSE k \in DOMAIN deque : First(n, k)]]

-----------------------------------------------------------------------------
(* Changes *)

Kept(seq) == IF Len(seq) <= MaxTelegrams THEN seq ELSE SubSeq(seq, Len(seq) - MaxTelegrams + 1, Len(seq))

\* The first of the newest telegrams of the batch replaces an older last value.
Winner_LastOfEquals(batch, n) ==
  batch[CHOOSE k \in DOMAIN batch :
          /\ NameOf[batch[k]] = n
          /\ \A j \in DOMAIN batch : NameOf[batch[j]] = n =>
               TimeOf[batch[j]] < TimeOf[batch[k]] \/ (TimeOf[batch[j]] = TimeOf[batch[k]] /\ j <= k)]
Winner(batch, n) ==
  batch[CHOOSE k \in DOMAIN batch :
          /\ NameOf[batch[k]] = n
          /\ \A j \in DOMAIN batch : NameOf[batch[j]] = n =>
               TimeOf[batch[j]] < TimeOf[batch[k]] \/ (TimeOf[batch[j]] = TimeOf[batch[k]] /\ k <= j)]

StoreMany(batch) ==
  LET names == {NameOf[t] : t \in ToSet(batch)} IN
  /\ ToSet(batch) \cap used = {}
  /\ rows' = rows \cup ToSet(batch)
  /\ last' = [n \in DOMAIN last \cup names |->
                IF n \in names /\ (n \notin DOMAIN last \/ TimeOf[Winner(batch, n)] > TimeOf[last[n]])
                THEN Winner(batch, n) ELSE last[n]]
  /\ deque' = Kept(deque \o batch)
  /\ used' = used \cup ToSet(batch)

\* The memory store has no retention.
EvictOlderThan(cutoff) ==
  /\ rows' = {t \in rows : ~(TimeOf[t] < cutoff)}
  /\ rows' # rows
  /\ UNCHANGED <<last, deque, used>>

Clear ==
  /\ rows' = {} /\ last' = <<>> /\ deque' = <<>>
  /\ UNCHANGED used

InitStores == rows = {} /\ last = <<>> /\ deque = <<>> /\ used = {}
=============================================================================
