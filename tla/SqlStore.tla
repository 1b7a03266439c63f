-------------------------------- MODULE SqlStore --------------------------------
(***************************************************************************)
(* The write path of the SQL stores (backends/base_sql.py, lookup.py) with *)
(* several processes on one PostgreSQL database, and the notifications of  *)
(* backends/postgres.py. A step is a statement: other transactions go on   *)
(* between two of them, what a transaction has done is seen by others when *)
(* it commits (READ COMMITTED), and a statement waits for keys that others *)
(* have inserted, changed or deleted and not yet committed.                *)
(*                                                                         *)
(* Of the names a telegram carries the destination stands for all six: a   *)
(* batch with several of them meets string_lookup in any order. A SQLite   *)
(* file has one writer, and its behaviours are among these.                *)
(***************************************************************************)
EXTENDS Integers, SequencesExt

CONSTANTS
  Processes, \* processes with a writing store
  Names,     \* group addresses
  Telegrams, \* telegrams
  NameOf,    \* telegram -> group address
  TimeOf,    \* telegram -> timestamp
  Oversized, \* telegrams whose notification is not below 8000 bytes
  Batches,   \* the batches that are written
  Cutoffs    \* the bounds evictions are made with

ASSUME SqlAssumption ==
  /\ IsFiniteSet(Names) /\ IsFiniteSet(Telegrams)
  /\ NameOf \in [Telegrams -> Names] /\ TimeOf \in [Telegrams -> Nat \ {0}]
  /\ Batches \subseteq Seq(Telegrams) /\ <<>> \notin Batches
  /\ Oversized \subseteq Telegrams /\ Cutoffs \subseteq Nat

VARIABLES
  lookup,     \* string_lookup: group address -> id
  telegrams,  \* the table: rows [t, id]
  last,       \* last_ga_telegrams: id -> timestamp
  reconciled, \* the flag of _reconcile_last_ga_telegrams()
  cache,      \* LookupCache of each process
  pc,         \* the next statement of each process
  tx,         \* what its transaction has done and knows
  listening,  \* a listener is subscribed
  queue, got, \* what it has been sent, and has yielded
  due,        \* the batches committed since it subscribed (history)
  written,    \* telegrams of committed batches (history)
  torn        \* ids for which another transaction committed in the middle of a clear() or a reconciliation (history)

tables == <<lookup, telegrams, last, reconciled>>
listener == <<listening, queue, got, due>>
vars == <<tables, cache, pc, tx, listener, written, torn>>

Idle == [batch |-> <<>>, todo |-> {}, made |-> <<>>, ids |-> <<>>, order |-> {}, put |-> <<>>,
         rows |-> {}, gone |-> {}, dropped |-> {}, held |-> {}, scope |-> {}]

Ids == 1..Cardinality(Names)
UsedIds == {lookup[n] : n \in DOMAIN lookup} \cup UNION {{tx[p].made[n] : n \in DOMAIN tx[p].made} : p \in Processes}
\* PostgreSQL's sequence leaves gaps; SQLite reuses the id of a row that was rolled back.
FreshId == CHOOSE i \in Ids : i \notin UsedIds /\ \A j \in Ids \ UsedIds : i <= j

\* A dict updated with another one, which comes first.
Over(f, g) == [x \in DOMAIN f \cup DOMAIN g |-> IF x \in DOMAIN f THEN f[x] ELSE g[x]]

Locked(p, id) == \E q \in Processes \ {p} : id \in tx[q].held
Deleting(p, rows) == \E q \in Processes \ {p} : tx[q].gone \cap rows # {}

Newest(S) == CHOOSE x \in S : \A y \in S : y <= x
TimesOf(rows, id) == {TimeOf[r.t] : r \in {s \in rows : s.id = id}}
IdsOf(rows) == {r.id : r \in rows}

\* Empty, or what an earlier version left: last values may be missing or stale.
Init ==
  \E stored \in SUBSET Telegrams :
    LET names == {NameOf[t] : t \in stored} IN
    /\ lookup \in {f \in [names -> Ids] : \A m, n \in names : f[m] = f[n] => m = n}
    /\ telegrams = {[t |-> t, id |-> lookup[NameOf[t]]] : t \in stored}
    /\ last \in UNION {[D -> {TimeOf[t] : t \in stored}] : D \in SUBSET IdsOf(telegrams)}
    /\ \A i \in DOMAIN last : \E time \in TimesOf(telegrams, i) : last[i] <= time
    /\ reconciled = FALSE
    /\ cache = [p \in Processes |-> <<>>]
    /\ pc = [p \in Processes |-> "down"]
    /\ tx = [p \in Processes |-> Idle]
    /\ listening = FALSE /\ queue = <<>> /\ got = <<>> /\ due = <<>>
    /\ written = stored
    /\ torn = {}

At(p, from, to) == pc[p] = from /\ pc' = [pc EXCEPT ![p] = to]
Does(p, change) == tx' = [tx EXCEPT ![p] = change]

-----------------------------------------------------------------------------
(* store_many() *)

\* Ids the cache knows need no statement. Each telegram is stored once, save by a retry after a rollback.
Begin(p, batch) ==
  LET names == {NameOf[batch[k]] : k \in DOMAIN batch}
      misses == names \ DOMAIN cache[p]
  IN /\ \A k \in DOMAIN batch : batch[k] \notin written /\ \A q \in Processes : \A j \in DOMAIN tx[q].batch : tx[q].batch[j] # batch[k]
     /\ At(p, "idle", IF misses = {} THEN "insert" ELSE "names")
     /\ Does(p, [Idle EXCEPT !.batch = batch, !.todo = misses,
                             !.ids = [n \in names \ misses |-> cache[p][n]]])
     /\ UNCHANGED <<tables, cache, listener, written, torn>>

\* INSERT ... ON CONFLICT DO NOTHING, one name after the other; it waits for a transaction that has
\* inserted the same one.
InsertName(p, n) ==
  /\ n \in tx[p].todo
  /\ \A q \in Processes \ {p} : n \notin DOMAIN tx[q].made
  /\ At(p, "names", IF tx[p].todo = {n} THEN "insert" ELSE "names")
  /\ Does(p, [tx[p] EXCEPT !.todo = @ \ {n},
                           !.made = IF n \in DOMAIN lookup THEN @ ELSE Over(@, [m \in {n} |-> FreshId])])
  /\ UNCHANGED <<tables, cache, listener, written, torn>>

\* For each destination of a batch the position of the first of its newest telegrams.
LatestPerDestination_LastSeen(batch) ==
  {k \in DOMAIN batch : \A j \in DOMAIN batch : NameOf[batch[j]] = NameOf[batch[k]] => j <= k}
LatestPerDestination(batch) ==
  {k \in DOMAIN batch : \A j \in DOMAIN batch : NameOf[batch[j]] = NameOf[batch[k]] =>
     TimeOf[batch[j]] < TimeOf[batch[k]] \/ (TimeOf[batch[j]] = TimeOf[batch[k]] /\ k <= j)}

\* A dict keeps the order in which its keys came up: the destination of k comes before those of the rest.
FirstOf(batch, k, rest) ==
  \E j \in DOMAIN batch : /\ NameOf[batch[j]] = NameOf[batch[k]]
                         /\ \A i \in 1..j : \A l \in rest : NameOf[batch[i]] # NameOf[batch[l]]

\* The ids that were missing are read back, and the rows inserted.
Resolved(p) ==
  LET names == {NameOf[tx[p].batch[k]] : k \in DOMAIN tx[p].batch}
  IN Over(tx[p].ids, Over(tx[p].made, [n \in names \cap DOMAIN lookup |-> lookup[n]]))

InsertTelegrams_Publishes(p) ==
  /\ At(p, "insert", "upsert")
  /\ Does(p, [tx[p] EXCEPT !.ids = Resolved(p), !.order = LatestPerDestination(tx[p].batch)])
  /\ cache' = [cache EXCEPT ![p] = Over(Resolved(p), @)]
  /\ UNCHANGED <<tables, listener, written, torn>>
InsertTelegrams(p) ==
  /\ At(p, "insert", "upsert")
  /\ Does(p, [tx[p] EXCEPT !.ids = Resolved(p), !.order = LatestPerDestination(tx[p].batch)])
  /\ UNCHANGED <<tables, cache, listener, written, torn>>

\* ON CONFLICT DO UPDATE ... WHERE excluded.timestamp > timestamp; the row is locked either way.
Newer_Always(id, time) == TRUE
Newer(id, time) == id \notin DOMAIN last \/ time > last[id]

Upsert(p, k) ==
  LET t == tx[p].batch[k]
      id == tx[p].ids[NameOf[t]]
      rest == tx[p].order \ {k}
  IN /\ k \in tx[p].order
     /\ FirstOf(tx[p].batch, k, rest)
     /\ ~Locked(p, id)
     /\ At(p, "upsert", IF rest = {} THEN "commit" ELSE "upsert")
     /\ Does(p, [tx[p] EXCEPT !.order = rest, !.held = @ \cup {id},
                              !.put = IF Newer(id, TimeOf[t]) THEN Over([i \in {id} |-> TimeOf[t]], @) ELSE @])
     /\ UNCHANGED <<tables, cache, listener, written, torn>>

NewRows(p) == {[t |-> tx[p].batch[k], id |-> tx[p].ids[NameOf[tx[p].batch[k]]]] : k \in DOMAIN tx[p].batch}

\* The trigger joins the inserted rows with string_lookup, in no particular order, and sends one
\* notification for each row below the limit; they are delivered when the transaction commits.
Sent_StopsAtOversized(p) ==
  LET new == {r.t : r \in NewRows(p)} IN IF new \cap Oversized # {} THEN {<<>>} ELSE SetToSeqs(new)
Sent(p) ==
  LET named == Over(lookup, tx[p].made)
  IN SetToSeqs({r.t : r \in {s \in NewRows(p) : s.t \notin Oversized /\ \E n \in DOMAIN named : named[n] = s.id}})

InClear == {"clear telegrams", "clear snapshot", "clear last"}

Apply(p) ==
  /\ lookup' = Over(lookup, tx[p].made)
  /\ telegrams' = (telegrams \ tx[p].gone) \cup NewRows(p)
  /\ last' = LET kept == DOMAIN last \ tx[p].dropped
             IN [i \in kept \cup DOMAIN tx[p].put |-> IF i \in DOMAIN tx[p].put THEN tx[p].put[i] ELSE last[i]]
  /\ written' = written \cup {r.t : r \in NewRows(p)}
  /\ torn' = torn \cup (IF \E q \in Processes \ {p} : pc[q] \in InClear THEN IdsOf(NewRows(p)) ELSE {})
                  \cup (IF \E q \in Processes \ {p} : pc[q] = "fill" THEN IdsOf(tx[p].gone) ELSE {})
  /\ IF listening
     THEN /\ \E sent \in Sent(p) : queue' = queue \o sent
          /\ due' = IF tx[p].batch = <<>> THEN due ELSE Append(due, {r.t : r \in NewRows(p)})
     ELSE UNCHANGED <<queue, due>>
  /\ UNCHANGED <<listening, got>>

Commit(p) ==
  /\ At(p, "commit", "publish")
  /\ Apply(p)
  /\ Does(p, [Idle EXCEPT !.ids = tx[p].ids])
  /\ UNCHANGED <<reconciled, cache>>

Publish(p) ==
  /\ At(p, "publish", "idle")
  /\ cache' = [cache EXCEPT ![p] = Over(tx[p].ids, @)]
  /\ Does(p, Idle)
  /\ UNCHANGED <<tables, listener, written, torn>>

\* A statement fails, is cancelled or chosen as the victim of a deadlock: the transaction is rolled back.
\* A commit whose answer is lost has happened all the same; either way nothing is published.
Writing == {"names", "insert", "upsert", "commit", "publish"}
Fail_KeepsTransaction(p) ==
  /\ pc[p] \in Writing \cup InClear \cup {"clear commit"}
  /\ pc' = [pc EXCEPT ![p] = "idle"]
  /\ UNCHANGED <<tables, cache, tx, listener, written, torn>>
Fail(p) ==
  /\ pc[p] \in Writing \cup InClear \cup {"clear commit"}
  /\ pc' = [pc EXCEPT ![p] = "idle"]
  /\ Does(p, Idle)
  /\ UNCHANGED <<tables, cache, listener, written, torn>>

Crash(p) ==
  /\ pc[p] # "down"
  /\ pc' = [pc EXCEPT ![p] = "down"]
  /\ cache' = [cache EXCEPT ![p] = <<>>]
  /\ Does(p, Idle)
  /\ UNCHANGED <<tables, listener, written, torn>>

-----------------------------------------------------------------------------
(* clear() and evictions *)

\* A statement deletes the rows that were committed when it began, and waits for others to do so.
Clear(p) ==
  /\ At(p, "idle", "clear telegrams")
  /\ Does(p, [Idle EXCEPT !.rows = telegrams])
  /\ UNCHANGED <<tables, cache, listener, written, torn>>

ClearTelegrams(p) ==
  /\ ~Deleting(p, tx[p].rows)
  /\ At(p, "clear telegrams", "clear snapshot")
  /\ Does(p, [tx[p] EXCEPT !.rows = {}, !.gone = tx[p].rows])
  /\ UNCHANGED <<tables, cache, listener, written, torn>>

ClearSnapshot(p) ==
  /\ At(p, "clear snapshot", "clear last")
  /\ Does(p, [tx[p] EXCEPT !.scope = DOMAIN last])
  /\ UNCHANGED <<tables, cache, listener, written, torn>>

ClearLast(p) ==
  /\ \A id \in tx[p].scope : ~Locked(p, id)
  /\ At(p, "clear last", "clear commit")
  /\ Does(p, [tx[p] EXCEPT !.scope = {}, !.dropped = tx[p].scope, !.held = tx[p].scope])
  /\ UNCHANGED <<tables, cache, listener, written, torn>>

ClearCommit(p) ==
  /\ At(p, "clear commit", "idle")
  /\ Apply(p)
  /\ Does(p, Idle)
  /\ UNCHANGED <<reconciled, cache>>

\* One statement; last values stay.
EvictOlderThan(p, cutoff) ==
  LET gone == {r \in telegrams : TimeOf[r.t] < cutoff} IN
  /\ pc[p] = "idle"
  /\ gone # {}
  /\ ~Deleting(p, gone)
  /\ telegrams' = telegrams \ gone
  /\ torn' = torn \cup (IF \E q \in Processes : pc[q] = "fill" THEN IdsOf(gone) ELSE {})
  /\ UNCHANGED <<lookup, last, reconciled, cache, pc, tx, listener, written>>

-----------------------------------------------------------------------------
(* initialize() *)

Warm(p) ==
  /\ At(p, "down", "count")
  /\ cache' = [cache EXCEPT ![p] = lookup]
  /\ UNCHANGED <<tables, tx, listener, written, torn>>

\* Nothing to do if the flag is set and there are last values; its two reads are one step.
Count(p) ==
  /\ At(p, "count", IF last # <<>> /\ reconciled THEN "idle" ELSE IF last # <<>> THEN "stale" ELSE "fill")
  /\ UNCHANGED <<tables, cache, tx, listener, written, torn>>

Stale == {id \in DOMAIN last : \E time \in TimesOf(telegrams, id) : time > last[id]}

DeleteStale(p) ==
  /\ \A id \in Stale : ~Locked(p, id)
  /\ At(p, "stale", "fill")
  /\ Does(p, [tx[p] EXCEPT !.dropped = Stale, !.held = Stale])
  /\ UNCHANGED <<tables, cache, listener, written, torn>>

\* INSERT ... SELECT the newest telegram of each destination ON CONFLICT DO NOTHING.
Fill(p) ==
  LET missing == IdsOf(telegrams) \ (DOMAIN last \ tx[p].dropped) IN
  /\ \A id \in missing : ~Locked(p, id)
  /\ At(p, "fill", "reconcile commit")
  /\ Does(p, [tx[p] EXCEPT !.put = [id \in missing |-> Newest(TimesOf(telegrams, id))], !.held = @ \cup missing])
  /\ UNCHANGED <<tables, cache, listener, written, torn>>

ReconcileCommit(p) ==
  /\ At(p, "reconcile commit", "idle")
  /\ Apply(p)
  /\ reconciled' = TRUE
  /\ Does(p, Idle)
  /\ UNCHANGED cache

-----------------------------------------------------------------------------
(* listen_for_new_telegrams() *)

Listen ==
  /\ ~listening
  /\ listening' = TRUE
  /\ UNCHANGED <<tables, cache, pc, tx, queue, got, due, written, torn>>
Yield ==
  /\ queue # <<>>
  /\ got' = Append(got, Head(queue))
  /\ queue' = Tail(queue)
  /\ UNCHANGED <<tables, cache, pc, tx, listening, due, written, torn>>
StopListening ==
  /\ listening
  /\ listening' = FALSE
  /\ queue' = <<>> /\ got' = <<>> /\ due' = <<>>
  /\ UNCHANGED <<tables, cache, pc, tx, written, torn>>

Statement(p) ==
  \/ \E n \in Names : InsertName(p, n)
  \/ InsertTelegrams(p) \/ (\E k \in tx[p].order : Upsert(p, k)) \/ Commit(p) \/ Publish(p)
  \/ ClearTelegrams(p) \/ ClearSnapshot(p) \/ ClearLast(p) \/ ClearCommit(p)
  \/ Count(p) \/ DeleteStale(p) \/ Fill(p) \/ ReconcileCommit(p)

Next ==
  \/ \E p \in Processes :
       \/ Statement(p)
       \/ \E batch \in Batches : Begin(p, batch)
       \/ Clear(p)
       \/ \E cutoff \in Cutoffs : EvictOlderThan(p, cutoff)
       \/ Warm(p) \/ Fail(p) \/ Crash(p)
  \/ Listen \/ Yield \/ StopListening

Spec == Init /\ [][Next]_vars
=============================================================================
