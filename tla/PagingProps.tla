------------------------------- MODULE PagingProps -------------------------------
(* What queries and those who page through them promise. *)
EXTENDS Paging

CONSTANT Asked \* the queries that are compared

\* TelegramQuery: windows reach to both sides of a pivot (query.py:35-40).
ASSUME AskedAssumption ==
  \A q \in Asked : {q.before, q.after, q.offset, q.limit} \subseteq Nat /\ q.desc \in BOOLEAN

\* The memory store, with its sort, its bisection and its slices, and the SQL statement answer alike: as
\* many matches, and on the page the same telegrams up to the order of equal timestamps
\* (memory.py:67-121, base_sql.py:516-711).
BackendsAgree ==
  (pc = "idle" /\ ToSet(deque) = rows) =>
    \A q \in Asked :
      LET order == MemoryOrder(q) IN
      /\ Slice(order, q.offset, q.limit) \in SqlPages(rows, q)
      /\ Len(order) = Cardinality(SqlMatches(rows, q))

\* Last values are the same telegrams in both stores, of equal timestamps too, however the telegrams were
\* split into batches and whatever retention has deleted, until the deque has dropped one
\* (memory.py:158-166, base_sql.py:417-449).
LastValuesAgree == (\A n \in DOMAIN last : last[n] \in ToSet(deque)) => last = MemoryLast

\* Telegrams that share a timestamp have no order between pages.
Alone(t) == \A s \in used : TimeOf[s] = TimeOf[t] => s = t

\* A client that follows next_offset to its end has been given every telegram that was there all along
\* (types.py:120 "None when exhausted"): arrivals only make it see some twice. The exceptions are rows
\* moved by retention, when it reads the oldest first, or in between the count and the page.
PagesCover ==
  (pc = "done" /\ reader = "client" /\ ~disturbed) => \A t \in kept : Alone(t) => t \in seen

\* No telegram is copied twice, over any number of killed runs and while the source moves under the pages
\* (migrate_store.py:34-49, 79-86).
NothingTwice == \A t \in Telegrams : dest[t] <= 1

\* A run that ends has copied every telegram that was there all along: all, or those that are among the
\* newest in the end. The exceptions are those of PagesCover and a late telegram, which moves the last
\* ones behind the count the run began with (migrate_store.py:52-94).
Rank(t) == Cardinality({s \in rows : TimeOf[s] > TimeOf[t]}) + 1
MigrationComplete ==
  (pc = "done" /\ reader = "tool" /\ ~disturbed) =>
    \A t \in kept : (Alone(t) /\ (desc => Rank(t) <= Newest)) => t \in Copied
=============================================================================
