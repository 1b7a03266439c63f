----------------------------- MODULE SqlStoreProofs -----------------------------
(***************************************************************************)
(* The caches, ids, last values and notifications of the SQL stores, for   *)
(* every number of processes, group addresses and telegrams.               *)
(*                                                                         *)
(* Inv: what a transaction knows of string_lookup is committed or its own  *)
(* (Resolves); no two transactions create the same name, and none one that *)
(* is committed (Apart); and once its names are inserted a transaction     *)
(* knows the id of every one of them (Complete).                           *)
(* Records: what a transaction has done at which statement, that ids are   *)
(* given once, and that it has locked the last values it changes.          *)
(* LastInv: what is pending between two statements and so not yet true of  *)
(* the last values: upserts, a clear() that has deleted the rows only, a   *)
(* repair. NotifyInv: what has been sent and yielded follows the commits.  *)
(***************************************************************************)
EXTENDS SqlStoreProps, SequenceTheorems, OrderLemmas

Fields == {"batch", "todo", "made", "ids", "order", "put", "rows", "gone", "dropped", "held", "scope"}

\* One cache, one place and one transaction for each process.
Shape ==
  /\ DOMAIN cache = Processes /\ DOMAIN pc = Processes /\ DOMAIN tx = Processes
  /\ \A p \in Processes : DOMAIN tx[p] = Fields

\* The id is committed under this name, or the transaction of p has created it.
KnownAs(p, n, id) ==
  \/ n \in DOMAIN lookup /\ lookup[n] = id
  \/ n \in DOMAIN tx[p].made /\ tx[p].made[n] = id

Resolves == \A p \in Processes : \A n \in DOMAIN tx[p].ids : KnownAs(p, n, tx[p].ids[n])

Apart ==
  \A p \in Processes :
    /\ DOMAIN tx[p].made \cap DOMAIN lookup = {}
    /\ \A q \in Processes \ {p} : DOMAIN tx[p].made \cap DOMAIN tx[q].made = {}

BatchNames(p) == {NameOf[tx[p].batch[k]] : k \in DOMAIN tx[p].batch}

Complete ==
  \A p \in Processes :
    /\ pc[p] = "publish" => DOMAIN tx[p].made = {}
    /\ pc[p] \in {"names", "insert"} =>
         BatchNames(p) \subseteq tx[p].todo \cup DOMAIN tx[p].ids \cup DOMAIN tx[p].made \cup DOMAIN lookup
    /\ pc[p] = "insert" => tx[p].todo = {}
    /\ pc[p] \notin {"names", "insert"} => BatchNames(p) \subseteq DOMAIN tx[p].ids

Inv == Shape /\ CacheCommitted /\ RowsNamed /\ Resolves /\ Apart /\ Complete

-----------------------------------------------------------------------------
\* What an idle process knows: nothing.
LEMMA IdleShape ==
  /\ DOMAIN Idle = Fields
  /\ Idle.batch = <<>> /\ Idle.todo = {} /\ Idle.made = <<>> /\ Idle.ids = <<>>
  /\ DOMAIN Idle.batch = {} /\ DOMAIN Idle.made = {} /\ DOMAIN Idle.ids = {}
  BY DEF Idle, Fields

\* No process is writing at first, and every row has the id of its group address.
LEMMA InvInit == Init => Inv
  <1> SUFFICES ASSUME Init PROVE Inv
    OBVIOUS
  <1>1. PICK stored \in SUBSET Telegrams :
          /\ telegrams = {[t |-> t, id |-> lookup[NameOf[t]]] : t \in stored}
          /\ lookup \in [{NameOf[t] : t \in stored} -> Ids]
    BY DEF Init
  <1>2. RowsNamed
    BY <1>1 DEF RowsNamed
  <1>3. \A p \in Processes : tx[p] = Idle /\ cache[p] = <<>> /\ pc[p] = "down"
    BY DEF Init
  <1>4. Shape
    BY <1>3, IdleShape DEF Init, Shape
  <1>5. CacheCommitted /\ Resolves /\ Apart /\ Complete
    BY <1>3, IdleShape DEF CacheCommitted, Resolves, Apart, Complete, BatchNames
  <1> QED
    BY <1>2, <1>4, <1>5 DEF Inv

\* Steps that commit nothing, empty a cache or fill it with what is committed, and give one process a
\* transaction that knows and creates no more than the old one.
LEMMA QuietStep ==
  ASSUME Inv, NEW p \in Processes,
         UNCHANGED lookup, DOMAIN cache' = Processes, cache'[p] \in {cache[p], <<>>, lookup},
         \A q \in Processes \ {p} : cache'[q] = cache[q],
         telegrams' \subseteq telegrams,
         DOMAIN pc' = Processes, \A q \in Processes \ {p} : pc'[q] = pc[q],
         DOMAIN tx' = Processes, \A q \in Processes \ {p} : tx'[q] = tx[q],
         DOMAIN tx'[p] = Fields,
         \/ tx'[p].batch = tx[p].batch /\ tx'[p].made = tx[p].made /\ tx'[p].ids = tx[p].ids
            /\ pc[p] \notin {"names", "insert"} /\ pc'[p] \notin {"names", "insert", "publish"}
         \/ DOMAIN tx'[p].batch = {} /\ DOMAIN tx'[p].made = {} /\ DOMAIN tx'[p].ids = {}
            /\ pc'[p] \notin {"names", "insert"}
  PROVE  Inv'
  <1> USE DEF Inv
  <1>1. Shape'
    BY DEF Shape
  <1>2. CacheCommitted' /\ RowsNamed'
    <2>1. ASSUME NEW q \in Processes, NEW n \in DOMAIN cache'[q]
          PROVE  n \in DOMAIN lookup /\ lookup[n] = cache'[q][n]
      <3>1. CASE q = p
        <4>1. DOMAIN <<>> = {}
          OBVIOUS
        <4> QED
          BY <3>1, <4>1 DEF CacheCommitted
      <3>2. CASE q # p
        BY <3>2 DEF CacheCommitted
      <3> QED
        BY <3>1, <3>2
    <2> QED
      BY <2>1 DEF CacheCommitted, RowsNamed
  <1>3. Resolves'
    BY DEF Resolves, KnownAs
  <1>4. Apart'
    BY DEF Apart
  <1>5. Complete'
    BY DEF Complete, BatchNames
  <1> QED
    BY <1>1, <1>2, <1>3, <1>4, <1>5

\* A commit makes what the transaction has created known to everybody.
LEMMA ApplyStep ==
  ASSUME Inv, NEW p \in Processes, Apply(p), UNCHANGED cache,
         pc[p] \notin {"names", "insert"}, pc'[p] \notin {"names", "insert"},
         DOMAIN pc' = Processes, \A q \in Processes \ {p} : pc'[q] = pc[q],
         DOMAIN tx' = Processes, \A q \in Processes \ {p} : tx'[q] = tx[q],
         DOMAIN tx'[p] = Fields, DOMAIN tx'[p].batch = {}, DOMAIN tx'[p].made = {},
         DOMAIN tx'[p].ids = {} \/ tx'[p].ids = tx[p].ids
  PROVE  Inv'
  <1> USE DEF Inv
  <1>1. /\ DOMAIN lookup' = DOMAIN lookup \cup DOMAIN tx[p].made
        /\ \A n \in DOMAIN lookup : lookup'[n] = lookup[n]
        /\ \A n \in DOMAIN tx[p].made : lookup'[n] = tx[p].made[n]
    <2>1. lookup' = Over(lookup, tx[p].made)
      BY DEF Apply
    <2>2. DOMAIN tx[p].made \cap DOMAIN lookup = {}
      BY DEF Apart
    <2> QED
      BY <2>1, <2>2 DEF Over
  <1>2. Shape'
    BY DEF Shape
  <1>3. CacheCommitted'
    BY <1>1 DEF CacheCommitted
  <1>4. ASSUME NEW r \in telegrams'
        PROVE  NameOf[r.t] \in DOMAIN lookup' /\ lookup'[NameOf[r.t]] = r.id
    <2>1. CASE r \in telegrams
      BY <1>1, <2>1 DEF RowsNamed
    <2>2. CASE r \in NewRows(p)
      <3>1. PICK k \in DOMAIN tx[p].batch :
              r = [t |-> tx[p].batch[k], id |-> tx[p].ids[NameOf[tx[p].batch[k]]]]
        BY <2>2 DEF NewRows
      <3>2. NameOf[r.t] \in DOMAIN tx[p].ids /\ r.id = tx[p].ids[NameOf[r.t]]
        BY <3>1 DEF Complete, BatchNames
      <3> QED
        BY <1>1, <3>2 DEF Resolves, KnownAs
    <2> QED
      BY <2>1, <2>2 DEF Apply
  <1>5. RowsNamed'
    BY <1>4 DEF RowsNamed
  <1>6. Resolves'
    BY <1>1 DEF Resolves, KnownAs
  <1>7. Apart'
    BY <1>1 DEF Apart
  <1>8. Complete'
    BY <1>1 DEF Complete, BatchNames
  <1> QED
    BY <1>2, <1>3, <1>5, <1>6, <1>7, <1>8

\* A batch starts with the ids the cache knows, which are committed.
LEMMA BeginStep ==
  ASSUME Inv, NEW p \in Processes, NEW batch \in Batches, Begin(p, batch)
  PROVE  Inv'
  <1> USE DEF Inv
  <1> DEFINE names == {NameOf[batch[k]] : k \in DOMAIN batch}
             misses == names \ DOMAIN cache[p]
             start == [Idle EXCEPT !.batch = batch, !.todo = misses,
                                   !.ids = [n \in names \ misses |-> cache[p][n]]]
  <1>1. /\ DOMAIN start = Fields /\ start.batch = batch /\ start.todo = misses
        /\ start.made = <<>> /\ start.ids = [n \in names \ misses |-> cache[p][n]]
    BY IdleShape DEF Idle, Fields
  <1> HIDE DEF start
  <1>2. /\ UNCHANGED <<lookup, telegrams, cache>>
        /\ pc' = [pc EXCEPT ![p] = IF misses = {} THEN "insert" ELSE "names"]
        /\ tx' = [tx EXCEPT ![p] = start]
    BY DEF Begin, At, Does, tables, start
  <1>3. /\ DOMAIN pc' = Processes /\ DOMAIN tx' = Processes
        /\ pc'[p] = (IF misses = {} THEN "insert" ELSE "names") /\ tx'[p] = start
        /\ \A q \in Processes \ {p} : pc'[q] = pc[q] /\ tx'[q] = tx[q]
    BY <1>2 DEF Shape
  <1> HIDE DEF misses
  <1>4. Shape' /\ CacheCommitted' /\ RowsNamed'
    BY <1>1, <1>2, <1>3 DEF Shape, CacheCommitted, RowsNamed
  <1>5. Resolves'
    <2>1. \A n \in DOMAIN start.ids : n \in DOMAIN lookup /\ lookup[n] = start.ids[n]
      BY <1>1 DEF misses, CacheCommitted
    <2> QED
      BY <1>2, <1>3, <2>1 DEF Resolves, KnownAs
  <1>6. Apart'
    <2>1. DOMAIN start.made = {}
      BY <1>1
    <2> QED
      BY <1>2, <1>3, <2>1 DEF Apart
  <1>7. Complete'
    <2>1. DOMAIN start.ids = names \ misses /\ DOMAIN start.made = {}
      BY <1>1
    <2>2. BatchNames(p)' = names
      BY <1>1, <1>3 DEF BatchNames
    <2>3. ASSUME NEW q \in Processes \ {p} PROVE BatchNames(q)' = BatchNames(q)
      BY <1>3 DEF BatchNames
    <2> QED
      BY <1>1, <1>2, <1>3, <2>1, <2>2, <2>3 DEF Complete
  <1> QED
    BY <1>4, <1>5, <1>6, <1>7

\* A name that is inserted is new to everybody; one that is there already is committed.
LEMMA InsertNameStep ==
  ASSUME Inv, NEW p \in Processes, NEW n \in Names, InsertName(p, n)
  PROVE  Inv'
  <1> USE DEF Inv
  <1> DEFINE made == IF n \in DOMAIN lookup THEN tx[p].made ELSE Over(tx[p].made, [m \in {n} |-> FreshId])
             new == [tx[p] EXCEPT !.todo = @ \ {n}, !.made = made]
  <1>1. /\ DOMAIN new = Fields /\ new.batch = tx[p].batch /\ new.todo = tx[p].todo \ {n}
        /\ new.made = made /\ new.ids = tx[p].ids
    BY DEF Shape, Fields
  <1>2. /\ n \in tx[p].todo
        /\ \A q \in Processes \ {p} : n \notin DOMAIN tx[q].made
        /\ UNCHANGED <<lookup, telegrams, cache>>
        /\ pc[p] = "names" /\ pc' = [pc EXCEPT ![p] = IF tx[p].todo = {n} THEN "insert" ELSE "names"]
        /\ tx' = [tx EXCEPT ![p] = new]
    BY DEF InsertName, At, Does, tables, made, new
  <1> HIDE DEF new
  <1>3. /\ DOMAIN pc' = Processes /\ DOMAIN tx' = Processes
        /\ pc'[p] = (IF tx[p].todo = {n} THEN "insert" ELSE "names") /\ tx'[p] = new
        /\ \A q \in Processes \ {p} : pc'[q] = pc[q] /\ tx'[q] = tx[q]
    BY <1>2 DEF Shape
  <1>4. /\ DOMAIN tx[p].made \subseteq DOMAIN made
        /\ DOMAIN made \subseteq DOMAIN tx[p].made \cup {n}
        /\ n \in DOMAIN made \cup DOMAIN lookup
        /\ n \in DOMAIN lookup => made = tx[p].made
        /\ \A m \in DOMAIN tx[p].made : made[m] = tx[p].made[m]
    BY DEF made, Over
  <1> HIDE DEF made
  <1>5. Shape' /\ CacheCommitted' /\ RowsNamed'
    BY <1>1, <1>2, <1>3 DEF Shape, CacheCommitted, RowsNamed
  <1>6. Resolves'
    BY <1>1, <1>2, <1>3, <1>4 DEF Resolves, KnownAs
  <1>7. Apart'
    BY <1>1, <1>2, <1>3, <1>4 DEF Apart
  <1>8. Complete'
    <2>1. \A q \in Processes : BatchNames(q)' = BatchNames(q)
      BY <1>1, <1>3 DEF BatchNames
    <2> QED
      BY <1>1, <1>2, <1>3, <1>4, <2>1 DEF Complete
  <1> QED
    BY <1>5, <1>6, <1>7, <1>8

\* The ids read back are those of every name of the batch.
LEMMA InsertTelegramsStep ==
  ASSUME Inv, NEW p \in Processes, InsertTelegrams(p)
  PROVE  Inv'
  <1> USE DEF Inv
  <1> DEFINE new == [tx[p] EXCEPT !.ids = Resolved(p), !.order = LatestPerDestination(tx[p].batch)]
  <1>1. /\ DOMAIN new = Fields /\ new.batch = tx[p].batch /\ new.todo = tx[p].todo
        /\ new.made = tx[p].made /\ new.ids = Resolved(p)
    BY DEF Shape, Fields
  <1>2. /\ UNCHANGED <<lookup, telegrams, cache>>
        /\ pc[p] = "insert" /\ pc' = [pc EXCEPT ![p] = "upsert"]
        /\ tx' = [tx EXCEPT ![p] = new]
    BY DEF InsertTelegrams, At, Does, tables, new
  <1> HIDE DEF new
  <1>3. /\ DOMAIN pc' = Processes /\ DOMAIN tx' = Processes
        /\ pc'[p] = "upsert" /\ tx'[p] = new
        /\ \A q \in Processes \ {p} : pc'[q] = pc[q] /\ tx'[q] = tx[q]
    BY <1>2 DEF Shape
  <1>4. /\ DOMAIN Resolved(p) = DOMAIN tx[p].ids \cup DOMAIN tx[p].made \cup (BatchNames(p) \cap DOMAIN lookup)
        /\ \A m \in DOMAIN Resolved(p) : KnownAs(p, m, Resolved(p)[m])
    BY DEF Resolved, Over, BatchNames, Resolves, KnownAs
  <1>5. BatchNames(p) \subseteq DOMAIN Resolved(p)
    BY <1>2, <1>4 DEF Complete
  <1>6. Shape' /\ CacheCommitted' /\ RowsNamed'
    BY <1>1, <1>2, <1>3 DEF Shape, CacheCommitted, RowsNamed
  <1>7. Resolves'
    BY <1>1, <1>2, <1>3, <1>4 DEF Resolves, KnownAs
  <1>8. Apart'
    BY <1>1, <1>2, <1>3 DEF Apart
  <1>9. Complete'
    <2>1. \A q \in Processes : BatchNames(q)' = BatchNames(q)
      BY <1>1, <1>3 DEF BatchNames
    <2> QED
      BY <1>1, <1>2, <1>3, <1>5, <2>1 DEF Complete
  <1> QED
    BY <1>6, <1>7, <1>8, <1>9

\* Only after the commit, when the transaction has nothing left that is not committed, the ids it knows
\* go to the cache.
LEMMA PublishStep ==
  ASSUME Inv, NEW p \in Processes, Publish(p)
  PROVE  Inv'
  <1> USE DEF Inv
  <1>1. /\ UNCHANGED <<lookup, telegrams>>
        /\ pc[p] = "publish" /\ pc' = [pc EXCEPT ![p] = "idle"]
        /\ tx' = [tx EXCEPT ![p] = Idle]
        /\ cache' = [cache EXCEPT ![p] = Over(tx[p].ids, cache[p])]
    BY DEF Publish, At, Does, tables
  <1>2. /\ DOMAIN pc' = Processes /\ DOMAIN tx' = Processes /\ DOMAIN cache' = Processes
        /\ pc'[p] = "idle" /\ tx'[p] = Idle /\ cache'[p] = Over(tx[p].ids, cache[p])
        /\ \A q \in Processes \ {p} : pc'[q] = pc[q] /\ tx'[q] = tx[q] /\ cache'[q] = cache[q]
    BY <1>1 DEF Shape
  <1>3. \A n \in DOMAIN tx[p].ids : n \in DOMAIN lookup /\ lookup[n] = tx[p].ids[n]
    BY <1>1 DEF Resolves, KnownAs, Complete
  <1>4. CacheCommitted'
    BY <1>1, <1>2, <1>3 DEF CacheCommitted, Over
  <1>5. Shape' /\ RowsNamed'
    BY <1>1, <1>2, IdleShape DEF Shape, RowsNamed
  <1>6. Resolves' /\ Apart'
    BY <1>1, <1>2, IdleShape DEF Resolves, KnownAs, Apart
  <1>7. Complete'
    BY <1>1, <1>2, IdleShape DEF Complete, BatchNames
  <1> QED
    BY <1>4, <1>5, <1>6, <1>7

\* A transaction that does something else than naming its telegrams.
LEMMA StatementStep ==
  ASSUME Inv, NEW p \in Processes,
         \/ (\E k \in tx[p].order : Upsert(p, k)) \/ ClearTelegrams(p) \/ ClearSnapshot(p) \/ ClearLast(p)
         \/ DeleteStale(p) \/ Fill(p)
  PROVE  Inv'
  <1> USE DEF Inv
  <1>1. /\ UNCHANGED <<lookup, telegrams, cache>>
        /\ pc[p] \notin {"names", "insert"}
        /\ \E to \in {"upsert", "commit", "clear snapshot", "clear last", "clear commit", "fill", "reconcile commit"} :
             pc' = [pc EXCEPT ![p] = to]
    <2>1. CASE \E k \in tx[p].order : Upsert(p, k)
      BY <2>1 DEF Upsert, At, tables
    <2>2. CASE ClearTelegrams(p) \/ ClearSnapshot(p) \/ ClearLast(p)
      BY <2>2 DEF ClearTelegrams, ClearSnapshot, ClearLast, At, tables
    <2>3. CASE DeleteStale(p) \/ Fill(p)
      BY <2>3 DEF DeleteStale, Fill, At, tables
    <2> QED
      BY <2>1, <2>2, <2>3
  <1>2. PICK new : /\ tx' = [tx EXCEPT ![p] = new]
                   /\ DOMAIN new = Fields
                   /\ new.batch = tx[p].batch /\ new.made = tx[p].made /\ new.ids = tx[p].ids
    <2>1. DOMAIN tx[p] = Fields
      BY DEF Shape
    <2>2. CASE \E k \in tx[p].order : Upsert(p, k)
      <3> PICK k \in tx[p].order : Upsert(p, k)
        BY <2>2
      <3> DEFINE t == tx[p].batch[k]
                 id == tx[p].ids[NameOf[t]]
                 put == IF Newer(id, TimeOf[t]) THEN Over([i \in {id} |-> TimeOf[t]], tx[p].put) ELSE tx[p].put
                 new == [tx[p] EXCEPT !.order = tx[p].order \ {k}, !.held = @ \cup {id}, !.put = put]
      <3>1. tx' = [tx EXCEPT ![p] = new]
        BY DEF Upsert, Does
      <3> HIDE DEF put, id
      <3>2. DOMAIN new = Fields /\ new.batch = tx[p].batch /\ new.made = tx[p].made /\ new.ids = tx[p].ids
        BY <2>1 DEF Fields
      <3> QED
        BY <3>1, <3>2
    <2>3. CASE ClearTelegrams(p)
      <3> DEFINE new == [tx[p] EXCEPT !.rows = {}, !.gone = tx[p].rows]
      <3>1. tx' = [tx EXCEPT ![p] = new]
        BY <2>3 DEF ClearTelegrams, Does
      <3>2. DOMAIN new = Fields /\ new.batch = tx[p].batch /\ new.made = tx[p].made /\ new.ids = tx[p].ids
        BY <2>1 DEF Fields
      <3> QED
        BY <3>1, <3>2
    <2>4. CASE ClearSnapshot(p)
      <3> DEFINE new == [tx[p] EXCEPT !.scope = DOMAIN last]
      <3>1. tx' = [tx EXCEPT ![p] = new]
        BY <2>4 DEF ClearSnapshot, Does
      <3>2. DOMAIN new = Fields /\ new.batch = tx[p].batch /\ new.made = tx[p].made /\ new.ids = tx[p].ids
        BY <2>1 DEF Fields
      <3> QED
        BY <3>1, <3>2
    <2>5. CASE ClearLast(p)
      <3> DEFINE new == [tx[p] EXCEPT !.scope = {}, !.dropped = tx[p].scope, !.held = tx[p].scope]
      <3>1. tx' = [tx EXCEPT ![p] = new]
        BY <2>5 DEF ClearLast, Does
      <3>2. DOMAIN new = Fields /\ new.batch = tx[p].batch /\ new.made = tx[p].made /\ new.ids = tx[p].ids
        BY <2>1 DEF Fields
      <3> QED
        BY <3>1, <3>2
    <2>6. CASE DeleteStale(p)
      <3> DEFINE new == [tx[p] EXCEPT !.dropped = Stale, !.held = Stale]
      <3>1. tx' = [tx EXCEPT ![p] = new]
        BY <2>6 DEF DeleteStale, Does
      <3>2. DOMAIN new = Fields /\ new.batch = tx[p].batch /\ new.made = tx[p].made /\ new.ids = tx[p].ids
        BY <2>1 DEF Fields
      <3> QED
        BY <3>1, <3>2
    <2>7. CASE Fill(p)
      <3> DEFINE missing == IdsOf(telegrams) \ (DOMAIN last \ tx[p].dropped)
                 put == [id \in missing |-> Newest(TimesOf(telegrams, id))]
                 new == [tx[p] EXCEPT !.put = put, !.held = @ \cup missing]
      <3>1. tx' = [tx EXCEPT ![p] = new]
        BY <2>7 DEF Fill, Does
      <3> HIDE DEF put, missing
      <3>2. DOMAIN new = Fields /\ new.batch = tx[p].batch /\ new.made = tx[p].made /\ new.ids = tx[p].ids
        BY <2>1 DEF Fields
      <3> QED
        BY <3>1, <3>2
    <2> QED
      BY <2>2, <2>3, <2>4, <2>5, <2>6, <2>7
  <1>3. /\ DOMAIN cache' = Processes /\ cache'[p] = cache[p]
        /\ DOMAIN pc' = Processes /\ DOMAIN tx' = Processes
        /\ pc'[p] \notin {"names", "insert", "publish"} /\ tx'[p] = new
        /\ \A q \in Processes \ {p} : pc'[q] = pc[q] /\ tx'[q] = tx[q] /\ cache'[q] = cache[q]
    BY <1>1, <1>2 DEF Shape
  <1> QED
    BY <1>1, <1>2, <1>3, QuietStep

\* What gives up a transaction, or begins or ends none.
LEMMA OutsideStep ==
  ASSUME Inv, NEW p \in Processes,
         \/ Clear(p) \/ Warm(p) \/ Count(p) \/ Fail(p) \/ Crash(p)
         \/ \E cutoff \in Cutoffs : EvictOlderThan(p, cutoff)
  PROVE  Inv'
  <1> USE DEF Inv
  <1>1. CASE Clear(p)
    <2> DEFINE new == [Idle EXCEPT !.rows = telegrams]
    <2>1. /\ DOMAIN new = Fields
          /\ DOMAIN new.batch = {} /\ DOMAIN new.made = {} /\ DOMAIN new.ids = {}
      BY DEF Idle, Fields
    <2>2. /\ UNCHANGED <<lookup, telegrams, cache>> /\ tx' = [tx EXCEPT ![p] = new]
          /\ pc' = [pc EXCEPT ![p] = "clear telegrams"]
      BY <1>1 DEF Clear, At, Does, tables
    <2> HIDE DEF new
    <2> QED
      BY <2>1, <2>2, QuietStep DEF Shape
  <1>2. CASE Warm(p) \/ Count(p)
    <2>1. /\ UNCHANGED <<lookup, telegrams, tx>>
          /\ cache' = [cache EXCEPT ![p] = lookup] \/ cache' = cache
          /\ pc[p] \in {"down", "count"}
          /\ \E to \in {"count", "idle", "stale", "fill"} : pc' = [pc EXCEPT ![p] = to]
      BY <1>2 DEF Warm, Count, At, tables
    <2> QED
      BY <2>1, QuietStep DEF Shape
  <1>3. CASE Fail(p) \/ Crash(p)
    <2>1. /\ UNCHANGED <<lookup, telegrams>> /\ tx' = [tx EXCEPT ![p] = Idle]
          /\ cache' = [cache EXCEPT ![p] = <<>>] \/ cache' = cache
          /\ \E to \in {"idle", "down"} : pc' = [pc EXCEPT ![p] = to]
      BY <1>3 DEF Fail, Crash, Does, tables
    <2> QED
      BY <2>1, QuietStep, IdleShape DEF Shape
  <1>4. CASE \E cutoff \in Cutoffs : EvictOlderThan(p, cutoff)
    <2>1. UNCHANGED <<lookup, cache, pc, tx>> /\ telegrams' \subseteq telegrams /\ pc[p] = "idle"
      BY <1>4 DEF EvictOlderThan
    <2> QED
      BY <2>1, QuietStep DEF Shape
  <1> QED
    BY <1>1, <1>2, <1>3, <1>4

\* The commits of store_many(), clear() and the repair.
LEMMA CommitStep ==
  ASSUME Inv, NEW p \in Processes, Commit(p) \/ ClearCommit(p) \/ ReconcileCommit(p)
  PROVE  Inv'
  <1> USE DEF Inv
  <1>1. PICK new : /\ tx' = [tx EXCEPT ![p] = new]
                   /\ DOMAIN new = Fields /\ DOMAIN new.batch = {} /\ DOMAIN new.made = {}
                   /\ DOMAIN new.ids = {} \/ new.ids = tx[p].ids
    <2>1. CASE Commit(p)
      <3> DEFINE new == [Idle EXCEPT !.ids = tx[p].ids]
      <3>1. DOMAIN new = Fields /\ DOMAIN new.batch = {} /\ DOMAIN new.made = {} /\ new.ids = tx[p].ids
        BY DEF Idle, Fields
      <3>2. tx' = [tx EXCEPT ![p] = new]
        BY <2>1 DEF Commit, Does
      <3> QED
        BY <3>1, <3>2
    <2>2. CASE ClearCommit(p) \/ ReconcileCommit(p)
      BY <2>2, IdleShape DEF ClearCommit, ReconcileCommit, Does
    <2> QED
      BY <2>1, <2>2
  <1>2. /\ Apply(p) /\ UNCHANGED cache /\ pc[p] \notin {"names", "insert"}
        /\ \E to \in {"publish", "idle"} : pc' = [pc EXCEPT ![p] = to]
    BY DEF Commit, ClearCommit, ReconcileCommit, At
  <1>3. /\ DOMAIN pc' = Processes /\ DOMAIN tx' = Processes
        /\ pc'[p] \notin {"names", "insert"} /\ tx'[p] = new
        /\ \A q \in Processes \ {p} : pc'[q] = pc[q] /\ tx'[q] = tx[q]
    BY <1>1, <1>2 DEF Shape
  <1> QED
    BY <1>1, <1>2, <1>3, ApplyStep

\* Every step of a process, and of the listener, preserves the invariant.
LEMMA InvNext == Inv /\ [Next]_vars => Inv'
  <1> SUFFICES ASSUME Inv, [Next]_vars PROVE Inv'
    OBVIOUS
  <1>1. ASSUME NEW p \in Processes, Statement(p) PROVE Inv'
    BY <1>1, InsertNameStep, InsertTelegramsStep, PublishStep, StatementStep, OutsideStep, CommitStep
       DEF Statement
  <1>2. ASSUME NEW p \in Processes, NEW batch \in Batches, Begin(p, batch) PROVE Inv'
    BY <1>2, BeginStep
  <1>3. ASSUME NEW p \in Processes,
               \/ Clear(p) \/ Warm(p) \/ Fail(p) \/ Crash(p)
               \/ \E cutoff \in Cutoffs : EvictOlderThan(p, cutoff)
        PROVE  Inv'
    BY <1>3, OutsideStep
  <1>4. CASE Listen \/ Yield \/ StopListening \/ UNCHANGED vars
    <2>1. UNCHANGED <<lookup, telegrams, cache, pc, tx>>
      BY <1>4 DEF Listen, Yield, StopListening, vars, tables
    <2> QED
      BY <2>1 DEF Inv, Shape, CacheCommitted, RowsNamed, Resolves, KnownAs, Apart, Complete, BatchNames
  <1> QED
    BY <1>1, <1>2, <1>3, <1>4 DEF Next

\* What a process caches is committed under that name, whatever transactions of it and of others fail
\* and whichever of them create the same names (lookup.py:112-114, base_sql.py:451).
THEOREM CachesCommitted == Spec => []CacheCommitted
  <1>1. Inv => CacheCommitted
    BY DEF Inv
  <1> QED
    BY <1>1, InvInit, InvNext, PTL DEF Spec

\* Every row has the id of its own group address (base_sql.py:394-414).
THEOREM RowsAreNamed == Spec => []RowsNamed
  <1>1. Inv => RowsNamed
    BY DEF Inv
  <1> QED
    BY <1>1, InvInit, InvNext, PTL DEF Spec
-----------------------------------------------------------------------------
(* The invariant *)

\* What a transaction works on.
Typed(p) ==
  /\ tx[p].batch \in Seq(Telegrams) /\ tx[p].todo \subseteq Names
  /\ DOMAIN tx[p].made \subseteq Names /\ \A n \in DOMAIN tx[p].made : tx[p].made[n] \in Ids
  /\ tx[p].order \subseteq DOMAIN tx[p].batch
  /\ DOMAIN tx[p].put \subseteq Ids /\ \A i \in DOMAIN tx[p].put : tx[p].put[i] \in Nat

\* What it has done at which statement.
Phase(p) ==
  /\ pc[p] \in Tx \cup {"down", "count", "stale", "idle", "publish"}
  /\ pc[p] \in {"down", "count", "stale", "idle"} => tx[p] = Idle
  /\ pc[p] \notin {"names", "insert", "upsert", "commit"} => DOMAIN tx[p].batch = {} /\ DOMAIN tx[p].made = {}
  /\ pc[p] # "upsert" => tx[p].order = {}
  /\ pc[p] \notin {"upsert", "commit", "reconcile commit"} => DOMAIN tx[p].put = {}
  /\ pc[p] \notin {"clear snapshot", "clear last", "clear commit"} => tx[p].gone = {}
  /\ pc[p] \notin {"clear commit", "fill", "reconcile commit"} => tx[p].dropped = {}
  /\ pc[p] \notin {"upsert", "commit", "clear commit", "fill", "reconcile commit"} => tx[p].held = {}

\* No id is given to two names, nor to a name that the transaction still has to insert.
OwnIds(p) ==
  \A n \in DOMAIN tx[p].made :
    /\ n \notin tx[p].todo
    /\ \A m \in DOMAIN lookup : lookup[m] # tx[p].made[n]
    /\ \A q \in Processes : \A m \in DOMAIN tx[q].made : tx[p].made[n] = tx[q].made[m] => p = q /\ m = n

\* A transaction has locked the last values it changes, and no other one has.
Locks(p) ==
  /\ DOMAIN tx[p].put \subseteq tx[p].held /\ tx[p].dropped \subseteq tx[p].held
  /\ \A q \in Processes \ {p} : tx[p].held \cap tx[q].held = {}

\* The tables, as the type invariant has them; two names do not have the same id.
Tables ==
  /\ DOMAIN lookup \subseteq Names /\ \A n \in DOMAIN lookup : lookup[n] \in Ids
  /\ \A m, n \in DOMAIN lookup : lookup[m] = lookup[n] => m = n
  /\ telegrams \subseteq [t : Telegrams, id : Ids]
  /\ DOMAIN last \subseteq Ids /\ \A i \in DOMAIN last : last[i] \in Nat
  /\ reconciled \in BOOLEAN

Transaction(p) == Typed(p) /\ Phase(p) /\ OwnIds(p) /\ Locks(p)

Records == Inv /\ Tables /\ \A p \in Processes : Transaction(p)

-----------------------------------------------------------------------------
(* Ids *)

\* As long as a name has none there is an id that is not used, and the smallest such is taken.
LEMMA FreshIdUnused ==
  ASSUME Records, NEW n \in Names, n \notin DOMAIN lookup,
         \A q \in Processes : n \notin DOMAIN tx[q].made
  PROVE  FreshId \in Ids /\ FreshId \notin UsedIds
  <1> DEFINE Others == Names \ {n}
             Named(m, i) == \/ m \in DOMAIN lookup /\ lookup[m] = i
                            \/ \E q \in Processes : m \in DOMAIN tx[q].made /\ tx[q].made[m] = i
             name == [i \in Ids |-> CHOOSE m \in Others : Named(m, i)]
  <1>1. /\ IsFiniteSet(Names) /\ Cardinality(Names) \in Nat
        /\ IsFiniteSet(Others) /\ Cardinality(Others) = Cardinality(Names) - 1
    BY SqlAssumption, FS_CardinalityType, FS_RemoveElement
  <1>2. IsFiniteSet(Ids) /\ Cardinality(Ids) = Cardinality(Names) /\ Ids \subseteq Nat
    <2>1. 1 \in Int /\ Cardinality(Names) \in Int
      BY <1>1
    <2>2. /\ IsFiniteSet(1..Cardinality(Names))
          /\ Cardinality(1..Cardinality(Names)) = IF 1 > Cardinality(Names) THEN 0 ELSE Cardinality(Names) - 1 + 1
      BY <2>1, FS_Interval
    <2> DEFINE c == Cardinality(Names)
    <2>3. c \in Nat /\ (IF 1 > c THEN 0 ELSE c - 1 + 1) = c
      BY <1>1
    <2> QED
      BY <1>1, <2>2, <2>3 DEF Ids
  <1>3. \E i \in Ids : i \notin UsedIds
    <2> SUFFICES ASSUME Ids \subseteq UsedIds PROVE FALSE
      OBVIOUS
    <2>1. ASSUME NEW i \in Ids PROVE \E m \in Others : Named(m, i)
      <3>1. CASE \E m \in DOMAIN lookup : lookup[m] = i
        BY <3>1 DEF Records, Tables
      <3>2. CASE \E q \in Processes : \E m \in DOMAIN tx[q].made : tx[q].made[m] = i
        BY <3>2 DEF Records, Transaction, Typed
      <3>3. i \in {lookup[m] : m \in DOMAIN lookup}
            \/ \E q \in Processes : i \in {tx[q].made[m] : m \in DOMAIN tx[q].made}
        BY DEF UsedIds
      <3> QED
        BY <3>1, <3>2, <3>3
    <2>2. \A i \in Ids : name[i] \in Others /\ Named(name[i], i)
      BY <2>1
    <2>3. ASSUME NEW m, NEW i, NEW j, Named(m, i), Named(m, j) PROVE i = j
      BY <2>3 DEF Records, Inv, Apart
    <2> HIDE DEF Named
    <2>4. name \in Injection(Ids, Others)
      BY <2>2, <2>3 DEF Injection, IsInjective
    <2>5. Cardinality(Ids) <= Cardinality(Others)
      BY <1>1, <2>4, FS_Injection
    <2> QED
      BY <1>1, <1>2, <2>5
  <1>4. \E i \in Ids \ UsedIds : \A j \in Ids \ UsedIds : i <= j
    <2>1. Ids \ UsedIds \in SUBSET Nat /\ Ids \ UsedIds # {}
      BY <1>2, <1>3
    <2>2. IsFiniteSet(Ids \ UsedIds)
      BY <1>2, FS_Difference
    <2> QED
      BY <2>1, <2>2, LeastAndGreatest
  <1> QED
    BY <1>4 DEF FreshId

-----------------------------------------------------------------------------
(* What a statement leaves behind *)

\* Only process p has gone on, and nothing is committed.
Alone(p) ==
  /\ UNCHANGED <<tables, listener, written, torn>>
  /\ \A q \in Processes \ {p} : pc'[q] = pc[q] /\ tx'[q] = tx[q]

KeepsBut(p, F) == \A f \in Fields \ F : tx'[p][f] = tx[p][f]
IdleBut(p, F) == \A f \in Fields \ F : tx'[p][f] = Idle[f]

\* Two updates of the same function agree with its entries.
LEMMA Moved ==
  ASSUME Inv, NEW p \in Processes, NEW change, NEW to, Does(p, change), pc' = [pc EXCEPT ![p] = to]
  PROVE  /\ tx'[p] = change /\ pc'[p] = to
         /\ \A q \in Processes \ {p} : pc'[q] = pc[q] /\ tx'[q] = tx[q]
  BY DEF Inv, Shape, Does

LEMMA BeginDoes ==
  ASSUME Inv, NEW p \in Processes, NEW batch \in Batches, Begin(p, batch)
  PROVE  /\ Alone(p) /\ pc[p] = "idle" /\ pc'[p] \in {"insert", "names"}
         /\ tx'[p].batch = batch /\ tx'[p].todo \subseteq {NameOf[batch[k]] : k \in DOMAIN batch}
         /\ IdleBut(p, {"batch", "todo", "ids"})
  <1> DEFINE names == {NameOf[batch[k]] : k \in DOMAIN batch}
             misses == names \ DOMAIN cache[p]
             start == [Idle EXCEPT !.batch = batch, !.todo = misses,
                                   !.ids = [n \in names \ misses |-> cache[p][n]]]
             to == IF misses = {} THEN "insert" ELSE "names"
  <1>1. /\ UNCHANGED <<tables, listener, written, torn>>
        /\ pc[p] = "idle" /\ Does(p, start) /\ pc' = [pc EXCEPT ![p] = to]
    BY DEF Begin, At
  <1>2. /\ start.batch = batch /\ start.todo = misses
        /\ \A f \in Fields \ {"batch", "todo", "ids"} : start[f] = Idle[f]
    BY DEF Idle, Fields
  <1>3. misses \subseteq names /\ to \in {"insert", "names"}
    OBVIOUS
  <1> HIDE DEF misses, start, to
  <1>4. tx'[p] = start /\ pc'[p] = to /\ \A q \in Processes \ {p} : pc'[q] = pc[q] /\ tx'[q] = tx[q]
    BY <1>1, Moved, Zenon
  <1> QED
    BY <1>1, <1>2, <1>3, <1>4 DEF Alone, IdleBut

LEMMA InsertNameDoes ==
  ASSUME Inv, NEW p \in Processes, NEW n \in Names, InsertName(p, n)
  PROVE  /\ Alone(p) /\ pc[p] = "names" /\ pc'[p] \in {"insert", "names"}
         /\ n \in tx[p].todo /\ \A q \in Processes \ {p} : n \notin DOMAIN tx[q].made
         /\ tx'[p].todo = tx[p].todo \ {n}
         /\ tx'[p].made = IF n \in DOMAIN lookup THEN tx[p].made ELSE Over(tx[p].made, [m \in {n} |-> FreshId])
         /\ KeepsBut(p, {"todo", "made"})
  <1> DEFINE made == IF n \in DOMAIN lookup THEN tx[p].made ELSE Over(tx[p].made, [m \in {n} |-> FreshId])
             new == [tx[p] EXCEPT !.todo = @ \ {n}, !.made = made]
             to == IF tx[p].todo = {n} THEN "insert" ELSE "names"
  <1>1. /\ UNCHANGED <<tables, listener, written, torn>>
        /\ n \in tx[p].todo /\ \A q \in Processes \ {p} : n \notin DOMAIN tx[q].made
        /\ pc[p] = "names" /\ Does(p, new) /\ pc' = [pc EXCEPT ![p] = to]
    BY DEF InsertName, At
  <1>2. to \in {"insert", "names"}
    OBVIOUS
  <1> HIDE DEF made, to
  <1>3. /\ new.todo = tx[p].todo \ {n} /\ new.made = made
        /\ \A f \in Fields \ {"todo", "made"} : new[f] = tx[p][f]
    BY DEF Inv, Shape, Fields
  <1> HIDE DEF new
  <1>4. tx'[p] = new /\ pc'[p] = to /\ \A q \in Processes \ {p} : pc'[q] = pc[q] /\ tx'[q] = tx[q]
    BY <1>1, Moved, Zenon
  <1> QED
    BY <1>1, <1>2, <1>3, <1>4 DEF Alone, KeepsBut, made

LEMMA InsertTelegramsDoes ==
  ASSUME Inv, NEW p \in Processes, InsertTelegrams(p)
  PROVE  /\ Alone(p) /\ pc[p] = "insert" /\ pc'[p] = "upsert"
         /\ tx'[p].order = LatestPerDestination(tx[p].batch)
         /\ KeepsBut(p, {"ids", "order"})
  <1> DEFINE new == [tx[p] EXCEPT !.ids = Resolved(p), !.order = LatestPerDestination(tx[p].batch)]
  <1>1. /\ UNCHANGED <<tables, listener, written, torn>>
        /\ pc[p] = "insert" /\ Does(p, new) /\ pc' = [pc EXCEPT ![p] = "upsert"]
    BY DEF InsertTelegrams, At
  <1>2. /\ new.order = LatestPerDestination(tx[p].batch)
        /\ \A f \in Fields \ {"ids", "order"} : new[f] = tx[p][f]
    BY DEF Inv, Shape, Fields
  <1> HIDE DEF new
  <1>3. tx'[p] = new /\ pc'[p] = "upsert" /\ \A q \in Processes \ {p} : pc'[q] = pc[q] /\ tx'[q] = tx[q]
    BY <1>1, Moved, Zenon
  <1> QED
    BY <1>1, <1>2, <1>3 DEF Alone, KeepsBut

\* The id and the timestamp of the telegram at a position of the batch.
IdAt(p, k) == tx[p].ids[NameOf[tx[p].batch[k]]]
TimeAt(p, k) == TimeOf[tx[p].batch[k]]

LEMMA UpsertDoes ==
  ASSUME Inv, NEW p \in Processes, NEW k \in tx[p].order, Upsert(p, k)
  PROVE  /\ Alone(p) /\ pc[p] = "upsert" /\ pc'[p] = (IF tx[p].order = {k} THEN "commit" ELSE "upsert")
         /\ ~Locked(p, IdAt(p, k))
         /\ tx'[p].order = tx[p].order \ {k} /\ tx'[p].held = tx[p].held \cup {IdAt(p, k)}
         /\ tx'[p].put = IF Newer(IdAt(p, k), TimeAt(p, k))
                         THEN Over([i \in {IdAt(p, k)} |-> TimeAt(p, k)], tx[p].put) ELSE tx[p].put
         /\ KeepsBut(p, {"order", "put", "held"})
  <1> DEFINE put == IF Newer(IdAt(p, k), TimeAt(p, k))
                    THEN Over([i \in {IdAt(p, k)} |-> TimeAt(p, k)], tx[p].put) ELSE tx[p].put
             rest == tx[p].order \ {k}
             new == [tx[p] EXCEPT !.order = rest, !.held = @ \cup {IdAt(p, k)}, !.put = put]
             to == IF rest = {} THEN "commit" ELSE "upsert"
  <1>1. /\ UNCHANGED <<tables, listener, written, torn>>
        /\ ~Locked(p, IdAt(p, k))
        /\ pc[p] = "upsert" /\ Does(p, new) /\ pc' = [pc EXCEPT ![p] = to]
    BY DEF Upsert, At, IdAt, TimeAt
  <1>2. to = (IF tx[p].order = {k} THEN "commit" ELSE "upsert")
    OBVIOUS
  <1> HIDE DEF put, rest, to
  <1>3. /\ new.order = rest /\ new.put = put /\ new.held = tx[p].held \cup {IdAt(p, k)}
        /\ \A f \in Fields \ {"order", "put", "held"} : new[f] = tx[p][f]
    BY DEF Inv, Shape, Fields
  <1> HIDE DEF new
  <1>4. tx'[p] = new /\ pc'[p] = to /\ \A q \in Processes \ {p} : pc'[q] = pc[q] /\ tx'[q] = tx[q]
    BY <1>1, Moved
  <1> QED
    BY <1>1, <1>2, <1>3, <1>4 DEF Alone, KeepsBut, put, rest

LEMMA ClearDoes ==
  ASSUME Inv, NEW p \in Processes, Clear(p)
  PROVE  /\ Alone(p) /\ pc[p] = "idle" /\ pc'[p] = "clear telegrams"
         /\ tx'[p].rows = telegrams /\ IdleBut(p, {"rows"})
  <1> DEFINE new == [Idle EXCEPT !.rows = telegrams]
  <1>1. /\ UNCHANGED <<tables, listener, written, torn>>
        /\ pc[p] = "idle" /\ Does(p, new) /\ pc' = [pc EXCEPT ![p] = "clear telegrams"]
    BY DEF Clear, At
  <1>2. new.rows = telegrams /\ \A f \in Fields \ {"rows"} : new[f] = Idle[f]
    BY DEF Idle, Fields
  <1> HIDE DEF new
  <1>3. /\ pc'[p] = "clear telegrams" /\ tx'[p] = new
        /\ \A q \in Processes \ {p} : pc'[q] = pc[q] /\ tx'[q] = tx[q]
    BY <1>1, Moved
  <1> QED
    BY <1>1, <1>2, <1>3 DEF Alone, IdleBut

LEMMA ClearTelegramsDoes ==
  ASSUME Inv, NEW p \in Processes, ClearTelegrams(p)
  PROVE  /\ Alone(p) /\ pc[p] = "clear telegrams" /\ pc'[p] = "clear snapshot"
         /\ tx'[p].gone = tx[p].rows /\ KeepsBut(p, {"rows", "gone"})
  <1> DEFINE new == [tx[p] EXCEPT !.rows = {}, !.gone = tx[p].rows]
  <1>1. /\ UNCHANGED <<tables, listener, written, torn>>
        /\ pc[p] = "clear telegrams" /\ Does(p, new) /\ pc' = [pc EXCEPT ![p] = "clear snapshot"]
    BY DEF ClearTelegrams, At
  <1>2. new.gone = tx[p].rows /\ \A f \in Fields \ {"rows", "gone"} : new[f] = tx[p][f]
    BY DEF Inv, Shape, Fields
  <1> HIDE DEF new
  <1>3. tx'[p] = new /\ pc'[p] = "clear snapshot" /\ \A q \in Processes \ {p} : pc'[q] = pc[q] /\ tx'[q] = tx[q]
    BY <1>1, Moved
  <1> QED
    BY <1>1, <1>2, <1>3 DEF Alone, KeepsBut

LEMMA ClearSnapshotDoes ==
  ASSUME Inv, NEW p \in Processes, ClearSnapshot(p)
  PROVE  /\ Alone(p) /\ pc[p] = "clear snapshot" /\ pc'[p] = "clear last"
         /\ KeepsBut(p, {"scope"})
  <1> DEFINE new == [tx[p] EXCEPT !.scope = DOMAIN last]
  <1>1. /\ UNCHANGED <<tables, listener, written, torn>>
        /\ pc[p] = "clear snapshot" /\ Does(p, new) /\ pc' = [pc EXCEPT ![p] = "clear last"]
    BY DEF ClearSnapshot, At
  <1>2. \A f \in Fields \ {"scope"} : new[f] = tx[p][f]
    BY DEF Inv, Shape, Fields
  <1> HIDE DEF new
  <1>3. tx'[p] = new /\ pc'[p] = "clear last" /\ \A q \in Processes \ {p} : pc'[q] = pc[q] /\ tx'[q] = tx[q]
    BY <1>1, Moved
  <1> QED
    BY <1>1, <1>2, <1>3 DEF Alone, KeepsBut

LEMMA ClearLastDoes ==
  ASSUME Inv, NEW p \in Processes, ClearLast(p)
  PROVE  /\ Alone(p) /\ pc[p] = "clear last" /\ pc'[p] = "clear commit"
         /\ \A i \in tx'[p].held : ~Locked(p, i)
         /\ tx'[p].held = tx'[p].dropped /\ KeepsBut(p, {"scope", "dropped", "held"})
  <1> DEFINE new == [tx[p] EXCEPT !.scope = {}, !.dropped = tx[p].scope, !.held = tx[p].scope]
  <1>1. /\ UNCHANGED <<tables, listener, written, torn>>
        /\ \A i \in tx[p].scope : ~Locked(p, i)
        /\ pc[p] = "clear last" /\ Does(p, new) /\ pc' = [pc EXCEPT ![p] = "clear commit"]
    BY DEF ClearLast, At
  <1>2. /\ new.held = tx[p].scope /\ new.dropped = tx[p].scope
        /\ \A f \in Fields \ {"scope", "dropped", "held"} : new[f] = tx[p][f]
    BY DEF Inv, Shape, Fields
  <1> HIDE DEF new
  <1>3. tx'[p] = new /\ pc'[p] = "clear commit" /\ \A q \in Processes \ {p} : pc'[q] = pc[q] /\ tx'[q] = tx[q]
    BY <1>1, Moved, Zenon
  <1> QED
    BY <1>1, <1>2, <1>3 DEF Alone, KeepsBut

LEMMA DeleteStaleDoes ==
  ASSUME Inv, NEW p \in Processes, DeleteStale(p)
  PROVE  /\ Alone(p) /\ pc[p] = "stale" /\ pc'[p] = "fill"
         /\ \A i \in Stale : ~Locked(p, i)
         /\ tx'[p].dropped = Stale /\ tx'[p].held = Stale /\ KeepsBut(p, {"dropped", "held"})
  <1> DEFINE new == [tx[p] EXCEPT !.dropped = Stale, !.held = Stale]
  <1>1. /\ UNCHANGED <<tables, listener, written, torn>>
        /\ \A i \in Stale : ~Locked(p, i)
        /\ pc[p] = "stale" /\ Does(p, new) /\ pc' = [pc EXCEPT ![p] = "fill"]
    BY DEF DeleteStale, At
  <1>2. /\ new.held = Stale /\ new.dropped = Stale
        /\ \A f \in Fields \ {"dropped", "held"} : new[f] = tx[p][f]
    BY DEF Inv, Shape, Fields
  <1> HIDE DEF new
  <1>3. tx'[p] = new /\ pc'[p] = "fill" /\ \A q \in Processes \ {p} : pc'[q] = pc[q] /\ tx'[q] = tx[q]
    BY <1>1, Moved, Zenon
  <1> QED
    BY <1>1, <1>2, <1>3 DEF Alone, KeepsBut

\* The ids a repair fills in.
Missing(p) == IdsOf(telegrams) \ (DOMAIN last \ tx[p].dropped)

LEMMA FillDoes ==
  ASSUME Inv, NEW p \in Processes, Fill(p)
  PROVE  /\ Alone(p) /\ pc[p] = "fill" /\ pc'[p] = "reconcile commit"
         /\ \A i \in Missing(p) : ~Locked(p, i)
         /\ tx'[p].put = [i \in Missing(p) |-> Newest(TimesOf(telegrams, i))]
         /\ tx'[p].held = tx[p].held \cup Missing(p) /\ KeepsBut(p, {"put", "held"})
  <1> DEFINE put == [i \in Missing(p) |-> Newest(TimesOf(telegrams, i))]
             new == [tx[p] EXCEPT !.put = put, !.held = @ \cup Missing(p)]
  <1>1. /\ UNCHANGED <<tables, listener, written, torn>>
        /\ \A i \in Missing(p) : ~Locked(p, i)
        /\ pc[p] = "fill" /\ Does(p, new) /\ pc' = [pc EXCEPT ![p] = "reconcile commit"]
    BY DEF Fill, At, Missing
  <1> HIDE DEF put
  <1>2. /\ new.put = put /\ new.held = tx[p].held \cup Missing(p)
        /\ \A f \in Fields \ {"put", "held"} : new[f] = tx[p][f]
    BY DEF Inv, Shape, Fields
  <1> HIDE DEF new
  <1>3. tx'[p] = new /\ pc'[p] = "reconcile commit" /\ \A q \in Processes \ {p} : pc'[q] = pc[q] /\ tx'[q] = tx[q]
    BY <1>1, Moved
  <1> QED
    BY <1>1, <1>2, <1>3 DEF Alone, KeepsBut, put

\* Starting changes no transaction, and giving up or publishing one ends it.
LEMMA StartDoes ==
  ASSUME Inv, NEW p \in Processes, Warm(p) \/ Count(p)
  PROVE  /\ Alone(p) /\ tx'[p] = tx[p]
         /\ pc[p] \in {"down", "count"} /\ pc'[p] \in {"count", "idle", "stale", "fill"}
         /\ pc'[p] = "idle" => reconciled
         /\ pc'[p] = "fill" => DOMAIN last = {}
  <1>1. CASE Warm(p)
    BY <1>1 DEF Warm, At, Inv, Shape, Alone
  <1>2. CASE Count(p)
    <2>1. last = <<>> => DOMAIN last = {}
      OBVIOUS
    <2> QED
      BY <1>2, <2>1 DEF Count, At, Inv, Shape, Alone
  <1> QED
    BY <1>1, <1>2

LEMMA EndDoes ==
  ASSUME Inv, NEW p \in Processes, Publish(p) \/ Fail(p) \/ Crash(p)
  PROVE  /\ Alone(p) /\ tx'[p] = Idle
         /\ pc'[p] = "down" \/ (pc'[p] = "idle" /\ pc[p] \in Writing \cup InClear \cup {"clear commit"})
  <1>1. PICK to \in {"down", "idle"} : pc' = [pc EXCEPT ![p] = to] /\ Does(p, Idle)
                                       /\ (to = "idle" => pc[p] \in Writing \cup InClear \cup {"clear commit"})
    BY DEF Publish, Fail, Crash, At, Writing
  <1>2. UNCHANGED <<tables, listener, written, torn>>
    BY DEF Publish, Fail, Crash
  <1> QED
    BY <1>1, <1>2, Moved DEF Alone

\* What a commit makes of the tables and of the transaction.
CommitSteps(p) == Commit(p) \/ ClearCommit(p) \/ ReconcileCommit(p)

LEMMA CommitDoes ==
  ASSUME Inv, NEW p \in Processes, CommitSteps(p)
  PROVE  /\ Apply(p)
         /\ \A q \in Processes \ {p} : pc'[q] = pc[q] /\ tx'[q] = tx[q]
         /\ IdleBut(p, {"ids"}) /\ pc'[p] \in {"publish", "idle"} /\ (pc'[p] = "idle" => tx'[p] = Idle)
         /\ pc[p] \in {"commit", "clear commit", "reconcile commit"}
         /\ IF pc[p] = "reconcile commit" THEN reconciled' = TRUE ELSE UNCHANGED reconciled
  <1>1. CASE Commit(p)
    <2> DEFINE new == [Idle EXCEPT !.ids = tx[p].ids]
    <2>1. /\ Apply(p) /\ Does(p, new) /\ UNCHANGED reconciled
          /\ pc[p] = "commit" /\ pc' = [pc EXCEPT ![p] = "publish"]
      BY <1>1 DEF Commit, At
    <2>2. \A f \in Fields \ {"ids"} : new[f] = Idle[f]
      BY DEF Idle, Fields
    <2> HIDE DEF new
    <2>3. tx'[p] = new /\ pc'[p] = "publish" /\ \A q \in Processes \ {p} : pc'[q] = pc[q] /\ tx'[q] = tx[q]
      BY <2>1, Moved, Zenon
    <2> QED
      BY <2>1, <2>2, <2>3 DEF IdleBut
  <1>2. CASE ClearCommit(p) \/ ReconcileCommit(p)
    <2>1. /\ Apply(p) /\ Does(p, Idle) /\ pc[p] \in {"clear commit", "reconcile commit"}
          /\ pc' = [pc EXCEPT ![p] = "idle"]
          /\ IF pc[p] = "reconcile commit" THEN reconciled' = TRUE ELSE UNCHANGED reconciled
      BY <1>2 DEF ClearCommit, ReconcileCommit, At
    <2>2. tx'[p] = Idle /\ pc'[p] = "idle" /\ \A q \in Processes \ {p} : pc'[q] = pc[q] /\ tx'[q] = tx[q]
      BY <2>1, Moved, Zenon
    <2> QED
      BY <2>1, <2>2 DEF IdleBut
  <1> QED
    BY <1>1, <1>2 DEF CommitSteps

LEMMA ApplyLast ==
  ASSUME NEW p \in Processes, Apply(p)
  PROVE  /\ DOMAIN last' = (DOMAIN last \ tx[p].dropped) \cup DOMAIN tx[p].put
         /\ \A i \in DOMAIN tx[p].put : last'[i] = tx[p].put[i]
         /\ \A i \in DOMAIN last' : i \notin DOMAIN tx[p].put => last'[i] = last[i]
  BY DEF Apply

LEMMA ApplyLookup ==
  ASSUME Inv, NEW p \in Processes, Apply(p)
  PROVE  /\ DOMAIN lookup' = DOMAIN lookup \cup DOMAIN tx[p].made
         /\ \A n \in DOMAIN lookup : lookup'[n] = lookup[n]
         /\ \A n \in DOMAIN tx[p].made : lookup'[n] = tx[p].made[n]
  <1>1. lookup' = Over(lookup, tx[p].made) /\ DOMAIN tx[p].made \cap DOMAIN lookup = {}
    BY DEF Apply, Inv, Apart
  <1> QED
    BY <1>1 DEF Over

-----------------------------------------------------------------------------
(* Records is inductive *)

LEMMA IdleIs ==
  /\ Idle.batch = <<>> /\ Idle.todo = {} /\ DOMAIN Idle.made = {} /\ DOMAIN Idle.ids = {}
  /\ Idle.order = {} /\ DOMAIN Idle.put = {} /\ Idle.rows = {} /\ Idle.gone = {}
  /\ Idle.dropped = {} /\ Idle.held = {}
  /\ DOMAIN Idle.batch = {} /\ Idle.batch \in Seq(Telegrams)
  BY DEF Idle

LEMMA RecordsInit == Init => Records
  <1> SUFFICES ASSUME Init PROVE Records
    OBVIOUS
  <1>1. Inv
    BY InvInit
  <1>2. PICK stored \in SUBSET Telegrams :
          LET names == {NameOf[t] : t \in stored} IN
          /\ lookup \in {f \in [names -> Ids] : \A m, n \in names : f[m] = f[n] => m = n}
          /\ telegrams = {[t |-> t, id |-> lookup[NameOf[t]]] : t \in stored}
          /\ last \in UNION {[D -> {TimeOf[t] : t \in stored}] : D \in SUBSET IdsOf(telegrams)}
          /\ reconciled = FALSE
    BY DEF Init
  <1>3. Tables
    <2> DEFINE names == {NameOf[t] : t \in stored}
    <2>1. names \subseteq Names /\ \A t \in stored : TimeOf[t] \in Nat
      BY SqlAssumption
    <2>2. lookup \in [names -> Ids] /\ \A m, n \in names : lookup[m] = lookup[n] => m = n
      BY <1>2
    <2>3. telegrams \subseteq [t : Telegrams, id : Ids]
      BY <1>2, <2>2
    <2>4. IdsOf(telegrams) \subseteq Ids
      BY <2>3 DEF IdsOf
    <2>5. PICK D \in SUBSET IdsOf(telegrams) : last \in [D -> {TimeOf[t] : t \in stored}]
      BY <1>2
    <2>6. DOMAIN last \subseteq Ids /\ \A i \in DOMAIN last : last[i] \in Nat
      BY <2>1, <2>4, <2>5
    <2> QED
      BY <1>2, <2>1, <2>2, <2>3, <2>6 DEF Tables
  <1>4. ASSUME NEW p \in Processes PROVE Transaction(p)
    <2>1. \A q \in Processes : tx[q] = Idle /\ pc[q] = "down"
      BY DEF Init
    <2>2. Typed(p)
      BY <2>1, IdleIs DEF Typed
    <2>3. Phase(p)
      BY <2>1, IdleIs DEF Phase
    <2>4. OwnIds(p) /\ Locks(p)
      BY <2>1, IdleIs DEF OwnIds, Locks
    <2> QED
      BY <2>2, <2>3, <2>4 DEF Transaction
  <1> QED
    BY <1>1, <1>3, <1>4 DEF Records

\* As long as a process goes on alone the others keep what they have.
LEMMA AloneRecords ==
  ASSUME Records, Inv', NEW p \in Processes, Alone(p), Transaction(p)'
  PROVE  Records'
  <1>1. Tables'
    BY DEF Records, Tables, Alone, tables
  <1>2. ASSUME NEW q \in Processes \ {p} PROVE Transaction(q)'
    <2>1. Transaction(q) /\ tx'[q] = tx[q] /\ pc'[q] = pc[q] /\ UNCHANGED lookup
      BY DEF Records, Alone, tables
    <2>2. Typed(q)' /\ Phase(q)'
      BY <2>1 DEF Transaction, Typed, Phase
    <2>3. OwnIds(q)'
      <3>1. \A r \in Processes \ {p} : tx'[r] = tx[r]
        BY DEF Alone
      <3>2. OwnIds(p)' /\ OwnIds(q)
        BY <2>1 DEF Transaction
      <3> QED
        BY <2>1, <3>1, <3>2 DEF OwnIds
    <2>4. Locks(q)'
      BY <2>1 DEF Transaction, Locks, Alone
    <2> QED
      BY <2>2, <2>3, <2>4 DEF Transaction
  <1> QED
    BY <1>1, <1>2 DEF Records

LEMMA AloneFinish ==
  ASSUME Records, Inv', NEW p \in Processes, Alone(p), IdleBut(p, {"rows"}),
         \/ pc'[p] = "clear telegrams"
         \/ pc'[p] \in {"down", "count", "stale", "idle", "fill"} /\ tx'[p] = Idle
  PROVE  Records'
  <1>1. \A f \in Fields \ {"rows"} : tx'[p][f] = Idle[f]
    BY DEF IdleBut
  <1>2. Typed(p)'
    BY <1>1, IdleIs DEF Fields, Typed
  <1>3. Phase(p)'
    BY <1>1, IdleIs DEF Fields, Phase, Tx
  <1>4. OwnIds(p)' /\ Locks(p)'
    BY <1>1, IdleIs DEF Fields, OwnIds, Locks
  <1> QED
    BY <1>2, <1>3, <1>4, AloneRecords DEF Transaction

\* Once the names are inserted every telegram of the batch has the id of its group address.
LEMMA BatchKnown ==
  ASSUME Records, NEW p \in Processes, pc[p] \notin {"names", "insert"}, NEW k \in DOMAIN tx[p].batch
  PROVE  /\ tx[p].batch[k] \in Telegrams /\ NameOf[tx[p].batch[k]] \in DOMAIN tx[p].ids
         /\ KnownAs(p, NameOf[tx[p].batch[k]], IdAt(p, k))
         /\ IdAt(p, k) \in Ids /\ TimeAt(p, k) \in Nat
  <1>1. tx[p].batch \in Seq(Telegrams)
    BY DEF Records, Transaction, Typed
  <1>2. tx[p].batch[k] \in Telegrams
    BY <1>1
  <1>3. NameOf[tx[p].batch[k]] \in DOMAIN tx[p].ids
    BY DEF Records, Inv, Complete, BatchNames
  <1>4. KnownAs(p, NameOf[tx[p].batch[k]], IdAt(p, k))
    BY <1>3 DEF Records, Inv, Resolves, IdAt
  <1>5. IdAt(p, k) \in Ids
    BY <1>4 DEF KnownAs, Records, Tables, Transaction, Typed
  <1> QED
    BY <1>2, <1>3, <1>4, <1>5, SqlAssumption DEF TimeAt

\* The newest timestamp of an id that has rows.
LEMMA NewestIs ==
  ASSUME Tables, NEW i \in IdsOf(telegrams)
  PROVE  /\ Newest(TimesOf(telegrams, i)) \in Nat
         /\ \A r \in telegrams : r.id = i => TimeOf[r.t] <= Newest(TimesOf(telegrams, i))
  <1> DEFINE T == {t \in Telegrams : \E r \in telegrams : r.t = t /\ r.id = i}
             times == TimesOf(telegrams, i)
             f == [t \in T |-> TimeOf[t]]
  <1>1. \A r \in telegrams : r.t \in Telegrams /\ TimeOf[r.t] \in Nat
    BY SqlAssumption DEF Tables
  <1>2. times \in SUBSET Nat /\ times # {} /\ \A r \in telegrams : r.id = i => TimeOf[r.t] \in times
    BY <1>1 DEF TimesOf, IdsOf
  <1>3. f \in Surjection(T, times)
    <2>1. \A t \in T : TimeOf[t] \in times
      BY DEF TimesOf
    <2>2. \A x \in times : \E t \in T : TimeOf[t] = x
      BY <1>1 DEF TimesOf
    <2> HIDE DEF T, times
    <2> QED
      BY <2>1, <2>2 DEF Surjection
  <1>4. IsFiniteSet(times)
    <2>1. IsFiniteSet(T)
      BY SqlAssumption, FS_Subset
    <2> HIDE DEF T, times, f
    <2> QED
      BY <1>3, <2>1, FS_Surjection
  <1>5. \E x \in times : \A y \in times : y <= x
    <2> HIDE DEF times
    <2> QED
      BY <1>2, <1>4, LeastAndGreatest
  <1>6. Newest(times) \in times /\ \A y \in times : y <= Newest(times)
    <2> HIDE DEF times
    <2> QED
      BY <1>5 DEF Newest
  <1> QED
    BY <1>2, <1>6

LEMMA BeginRecords ==
  ASSUME Records, Inv', NEW p \in Processes, NEW batch \in Batches, Begin(p, batch)
  PROVE  Records'
  <1>1. /\ Alone(p) /\ pc'[p] \in {"insert", "names"}
        /\ tx'[p].batch = batch /\ tx'[p].todo \subseteq {NameOf[batch[k]] : k \in DOMAIN batch}
        /\ IdleBut(p, {"batch", "todo", "ids"})
    BY BeginDoes DEF Records
  <1>2. batch \in Seq(Telegrams)
    BY SqlAssumption
  <1>3. {NameOf[batch[k]] : k \in DOMAIN batch} \subseteq Names
    BY <1>2, SqlAssumption
  <1>4. \A f \in Fields \ {"batch", "todo", "ids"} : tx'[p][f] = Idle[f]
    BY <1>1 DEF IdleBut
  <1>5. Typed(p)'
    BY <1>1, <1>2, <1>3, <1>4, IdleIs DEF Fields, Typed
  <1>6. Phase(p)'
    BY <1>1, <1>4, IdleIs DEF Fields, Phase, Tx
  <1>7. OwnIds(p)' /\ Locks(p)'
    BY <1>4, IdleIs DEF Fields, OwnIds, Locks
  <1> QED
    BY <1>1, <1>5, <1>6, <1>7, AloneRecords DEF Transaction

LEMMA InsertNameRecords ==
  ASSUME Records, Inv', NEW p \in Processes, NEW n \in Names, InsertName(p, n)
  PROVE  Records'
  <1>1. /\ Alone(p) /\ pc[p] = "names" /\ pc'[p] \in {"insert", "names"}
        /\ n \in tx[p].todo /\ \A q \in Processes \ {p} : n \notin DOMAIN tx[q].made
        /\ tx'[p].todo = tx[p].todo \ {n}
        /\ tx'[p].made = IF n \in DOMAIN lookup THEN tx[p].made ELSE Over(tx[p].made, [m \in {n} |-> FreshId])
        /\ KeepsBut(p, {"todo", "made"})
    BY InsertNameDoes DEF Records
  <1>2. \A f \in Fields \ {"todo", "made"} : tx'[p][f] = tx[p][f]
    BY <1>1 DEF KeepsBut
  <1>3. /\ UNCHANGED lookup /\ \A q \in Processes \ {p} : tx'[q] = tx[q]
    BY <1>1 DEF Alone, tables
  <1>4. Typed(p) /\ Phase(p) /\ OwnIds(p) /\ Locks(p)
    BY DEF Records, Transaction
  <1>5. n \notin DOMAIN tx[p].made
    BY <1>1, <1>4 DEF OwnIds
  <1>6. Phase(p)'
    BY <1>1, <1>2, <1>4 DEF Fields, Phase, Tx
  <1>7. Locks(p)'
    BY <1>2, <1>3, <1>4 DEF Fields, Locks
  <1>8. CASE n \in DOMAIN lookup
    <2>1. tx'[p].made = tx[p].made
      BY <1>1, <1>8
    <2>2. Typed(p)'
      BY <1>1, <1>2, <1>4, <2>1 DEF Fields, Typed
    <2>3. OwnIds(p)'
      BY <1>1, <1>3, <1>4, <2>1 DEF OwnIds
    <2> QED
      BY <1>1, <1>6, <1>7, <2>2, <2>3, AloneRecords DEF Transaction
  <1>9. CASE n \notin DOMAIN lookup
    <2>1. FreshId \in Ids /\ FreshId \notin UsedIds
      BY <1>1, <1>5, <1>9, FreshIdUnused
    <2>2. /\ \A m \in DOMAIN lookup : lookup[m] # FreshId
          /\ \A q \in Processes : \A m \in DOMAIN tx[q].made : tx[q].made[m] # FreshId
      BY <2>1 DEF UsedIds
    <2>3. /\ DOMAIN tx'[p].made = DOMAIN tx[p].made \cup {n} /\ tx'[p].made[n] = FreshId
          /\ \A m \in DOMAIN tx[p].made : tx'[p].made[m] = tx[p].made[m]
      BY <1>1, <1>5, <1>9 DEF Over
    <2>4. Typed(p)'
      BY <1>1, <1>2, <1>4, <2>1, <2>3 DEF Fields, Typed
    <2>5. OwnIds(p)'
      BY <1>1, <1>3, <1>4, <2>2, <2>3 DEF OwnIds
    <2> QED
      BY <1>1, <1>6, <1>7, <2>4, <2>5, AloneRecords DEF Transaction
  <1> QED
    BY <1>8, <1>9

LEMMA InsertTelegramsRecords ==
  ASSUME Records, Inv', NEW p \in Processes, InsertTelegrams(p)
  PROVE  Records'
  <1>1. /\ Alone(p) /\ pc[p] = "insert" /\ pc'[p] = "upsert"
        /\ tx'[p].order = LatestPerDestination(tx[p].batch) /\ KeepsBut(p, {"ids", "order"})
    BY InsertTelegramsDoes DEF Records
  <1>2. \A f \in Fields \ {"ids", "order"} : tx'[p][f] = tx[p][f]
    BY <1>1 DEF KeepsBut
  <1>3. /\ UNCHANGED lookup /\ \A q \in Processes \ {p} : tx'[q] = tx[q]
    BY <1>1 DEF Alone, tables
  <1>4. Typed(p) /\ Phase(p) /\ OwnIds(p) /\ Locks(p)
    BY DEF Records, Transaction
  <1>5. tx'[p].order \subseteq DOMAIN tx[p].batch
    BY <1>1 DEF LatestPerDestination
  <1>6. Typed(p)'
    BY <1>2, <1>4, <1>5 DEF Fields, Typed
  <1>7. Phase(p)'
    BY <1>1, <1>2, <1>4 DEF Fields, Phase, Tx
  <1>8. OwnIds(p)' /\ Locks(p)'
    BY <1>2, <1>3, <1>4 DEF Fields, OwnIds, Locks
  <1> QED
    BY <1>1, <1>6, <1>7, <1>8, AloneRecords DEF Transaction

LEMMA UpsertRecords ==
  ASSUME Records, Inv', NEW p \in Processes, NEW k \in tx[p].order, Upsert(p, k)
  PROVE  Records'
  <1> DEFINE id == IdAt(p, k)
  <1>1. /\ Alone(p) /\ pc[p] = "upsert" /\ pc'[p] = (IF tx[p].order = {k} THEN "commit" ELSE "upsert")
        /\ ~Locked(p, id)
        /\ tx'[p].order = tx[p].order \ {k} /\ tx'[p].held = tx[p].held \cup {id}
        /\ tx'[p].put = IF Newer(id, TimeAt(p, k)) THEN Over([i \in {id} |-> TimeAt(p, k)], tx[p].put) ELSE tx[p].put
        /\ KeepsBut(p, {"order", "put", "held"})
    BY UpsertDoes DEF Records
  <1>2. \A f \in Fields \ {"order", "put", "held"} : tx'[p][f] = tx[p][f]
    BY <1>1 DEF KeepsBut
  <1>3. /\ UNCHANGED lookup /\ \A q \in Processes \ {p} : tx'[q] = tx[q]
    BY <1>1 DEF Alone, tables
  <1>4. Typed(p) /\ Phase(p) /\ OwnIds(p) /\ Locks(p)
    BY DEF Records, Transaction
  <1>5. id \in Ids /\ TimeAt(p, k) \in Nat
    BY <1>1, <1>4, BatchKnown DEF Typed
  <1> HIDE DEF id
  <1>6. /\ DOMAIN tx'[p].put \subseteq DOMAIN tx[p].put \cup {id}
        /\ \A i \in DOMAIN tx'[p].put : tx'[p].put[i] = TimeAt(p, k) \/ (i \in DOMAIN tx[p].put /\ tx'[p].put[i] = tx[p].put[i])
    BY <1>1 DEF Over
  <1>7. Typed(p)'
    <2>1. tx'[p].order \subseteq DOMAIN tx'[p].batch
      BY <1>1, <1>2, <1>4 DEF Fields, Typed
    <2>2. DOMAIN tx'[p].put \subseteq Ids /\ \A i \in DOMAIN tx'[p].put : tx'[p].put[i] \in Nat
      BY <1>4, <1>5, <1>6 DEF Typed
    <2> QED
      BY <1>2, <1>4, <2>1, <2>2 DEF Fields, Typed
  <1>8. Phase(p)'
    <2>1. /\ tx'[p].gone = tx[p].gone /\ tx'[p].dropped = tx[p].dropped
          /\ pc'[p] \in {"commit", "upsert"} /\ (pc'[p] = "commit" => tx'[p].order = {})
      BY <1>1, <1>2 DEF Fields
    <2> QED
      BY <1>1, <1>4, <2>1 DEF Phase, Tx
  <1>9. OwnIds(p)'
    BY <1>2, <1>3, <1>4 DEF Fields, OwnIds
  <1>10. Locks(p)'
    BY <1>1, <1>2, <1>3, <1>4, <1>6 DEF Fields, Locks, Locked
  <1> QED
    BY <1>1, <1>7, <1>8, <1>9, <1>10, AloneRecords DEF Transaction

LEMMA ClearRecords ==
  ASSUME Records, Inv', NEW p \in Processes, ClearTelegrams(p) \/ ClearSnapshot(p) \/ ClearLast(p)
  PROVE  Records'
  <1>1. /\ Alone(p)
        /\ \/ pc[p] = "clear telegrams" /\ pc'[p] = "clear snapshot"
           \/ pc[p] = "clear snapshot" /\ pc'[p] = "clear last"
           \/ pc[p] = "clear last" /\ pc'[p] = "clear commit"
        /\ \A i \in tx'[p].held : ~Locked(p, i)
        /\ tx'[p].dropped = tx'[p].held /\ (pc'[p] # "clear commit" => tx'[p].held = {})
        /\ \A f \in Fields \ {"rows", "gone", "scope", "dropped", "held"} : tx'[p][f] = tx[p][f]
    <2>1. Phase(p)
      BY DEF Records, Transaction
    <2>2. CASE ClearTelegrams(p)
      BY <2>1, <2>2, ClearTelegramsDoes DEF Records, KeepsBut, Fields, Phase
    <2>3. CASE ClearSnapshot(p)
      BY <2>1, <2>3, ClearSnapshotDoes DEF Records, KeepsBut, Fields, Phase
    <2>4. CASE ClearLast(p)
      BY <2>4, ClearLastDoes DEF Records, KeepsBut
    <2> QED
      BY <2>2, <2>3, <2>4
  <1>2. /\ UNCHANGED lookup /\ \A q \in Processes \ {p} : tx'[q] = tx[q]
    BY <1>1 DEF Alone, tables
  <1>3. Typed(p) /\ Phase(p) /\ OwnIds(p) /\ Locks(p)
    BY DEF Records, Transaction
  <1>4. /\ tx'[p].batch = tx[p].batch /\ tx'[p].todo = tx[p].todo /\ tx'[p].made = tx[p].made
        /\ tx'[p].order = tx[p].order /\ tx'[p].put = tx[p].put
    BY <1>1 DEF Fields
  <1>5. Typed(p)'
    BY <1>3, <1>4 DEF Typed
  <1>6. Phase(p)'
    BY <1>1, <1>3, <1>4 DEF Phase, Tx
  <1>7. OwnIds(p)'
    BY <1>2, <1>3, <1>4 DEF OwnIds
  <1>8. Locks(p)'
    <2>1. DOMAIN tx'[p].put = {}
      BY <1>1, <1>3, <1>4 DEF Phase
    <2> QED
      BY <1>1, <1>2, <2>1 DEF Locks, Locked
  <1> QED
    BY <1>1, <1>5, <1>6, <1>7, <1>8, AloneRecords DEF Transaction

LEMMA RepairRecords ==
  ASSUME Records, Inv', NEW p \in Processes, DeleteStale(p) \/ Fill(p)
  PROVE  Records'
  <1>1. /\ Alone(p)
        /\ \/ pc[p] = "stale" /\ pc'[p] = "fill" /\ tx'[p].put = tx[p].put
           \/ pc[p] = "fill" /\ pc'[p] = "reconcile commit"
        /\ \A i \in tx'[p].held : i \in tx[p].held \/ ~Locked(p, i)
        /\ tx'[p].dropped \subseteq tx'[p].held
        /\ DOMAIN tx'[p].put \subseteq tx'[p].held
        /\ DOMAIN tx'[p].put \subseteq Ids /\ \A i \in DOMAIN tx'[p].put : tx'[p].put[i] \in Nat
        /\ \A f \in Fields \ {"put", "dropped", "held"} : tx'[p][f] = tx[p][f]
    <2>1. Phase(p) /\ Typed(p) /\ Locks(p) /\ Tables
      BY DEF Records, Transaction
    <2>2. CASE DeleteStale(p)
      <3>1. DOMAIN tx[p].put = {} /\ tx'[p].put = tx[p].put
        BY <2>1, <2>2, DeleteStaleDoes DEF Records, KeepsBut, Fields, Phase
      <3> QED
        BY <3>1, <2>2, DeleteStaleDoes DEF Records, KeepsBut
    <2>3. CASE Fill(p)
      <3>1. /\ Alone(p) /\ pc[p] = "fill" /\ pc'[p] = "reconcile commit"
            /\ \A i \in Missing(p) : ~Locked(p, i)
            /\ tx'[p].put = [i \in Missing(p) |-> Newest(TimesOf(telegrams, i))]
            /\ tx'[p].held = tx[p].held \cup Missing(p)
            /\ \A f \in Fields \ {"put", "held"} : tx'[p][f] = tx[p][f]
        BY <2>3, FillDoes DEF Records, KeepsBut
      <3>2. Missing(p) \subseteq IdsOf(telegrams) /\ IdsOf(telegrams) \subseteq Ids
        BY <2>1 DEF Missing, IdsOf, Tables
      <3>3. \A i \in Missing(p) : Newest(TimesOf(telegrams, i)) \in Nat
        BY <2>1, <3>2, NewestIs
      <3>4. tx'[p].dropped = tx[p].dropped
        BY <3>1 DEF Fields
      <3> QED
        BY <2>1, <3>1, <3>2, <3>3, <3>4 DEF Locks
    <2> QED
      BY <2>2, <2>3
  <1>2. /\ UNCHANGED lookup /\ \A q \in Processes \ {p} : tx'[q] = tx[q]
    BY <1>1 DEF Alone, tables
  <1>3. Typed(p) /\ Phase(p) /\ OwnIds(p) /\ Locks(p)
    BY DEF Records, Transaction
  <1>4. /\ tx'[p].batch = tx[p].batch /\ tx'[p].todo = tx[p].todo /\ tx'[p].made = tx[p].made
        /\ tx'[p].order = tx[p].order /\ tx'[p].gone = tx[p].gone
    BY <1>1 DEF Fields
  <1>5. Typed(p)'
    BY <1>1, <1>3, <1>4 DEF Typed
  <1>6. Phase(p)'
    BY <1>1, <1>3, <1>4 DEF Phase, Tx
  <1>7. OwnIds(p)'
    BY <1>2, <1>3, <1>4 DEF OwnIds
  <1>8. Locks(p)'
    BY <1>1, <1>2, <1>3 DEF Locks, Locked
  <1> QED
    BY <1>1, <1>5, <1>6, <1>7, <1>8, AloneRecords DEF Transaction

LEMMA OutsideRecords ==
  ASSUME Records, Inv', NEW p \in Processes, Clear(p) \/ Warm(p) \/ Count(p) \/ Publish(p) \/ Fail(p) \/ Crash(p)
  PROVE  Records'
  <1>1. CASE Clear(p)
    BY <1>1, ClearDoes, AloneFinish DEF Records
  <1>2. CASE Warm(p) \/ Count(p)
    <2>1. /\ Alone(p) /\ tx'[p] = tx[p]
          /\ pc[p] \in {"down", "count"} /\ pc'[p] \in {"count", "idle", "stale", "fill"}
      BY <1>2, StartDoes DEF Records
    <2>2. tx[p] = Idle
      BY <2>1 DEF Records, Transaction, Phase
    <2> QED
      BY <2>1, <2>2, AloneFinish DEF IdleBut
  <1>3. CASE Publish(p) \/ Fail(p) \/ Crash(p)
    BY <1>3, EndDoes, AloneFinish DEF Records, IdleBut
  <1> QED
    BY <1>1, <1>2, <1>3

LEMMA SameTransaction ==
  ASSUME Records, UNCHANGED <<lookup, pc, tx>>, NEW p \in Processes
  PROVE  Transaction(p)'
  <1>1. Typed(p) /\ Phase(p) /\ OwnIds(p) /\ Locks(p)
    BY DEF Records, Transaction
  <1>2. Typed(p)' /\ Phase(p)'
    BY <1>1 DEF Typed, Phase
  <1>3. OwnIds(p)' /\ Locks(p)'
    BY <1>1 DEF OwnIds, Locks
  <1> QED
    BY <1>2, <1>3 DEF Transaction

LEMMA EvictRecords ==
  ASSUME Records, Inv', NEW p \in Processes, NEW cutoff \in Cutoffs, EvictOlderThan(p, cutoff)
  PROVE  Records'
  <1>1. telegrams' \subseteq telegrams /\ UNCHANGED <<lookup, last, reconciled, pc, tx>>
    BY DEF EvictOlderThan
  <1>2. Tables'
    BY <1>1 DEF Records, Tables
  <1>3. ASSUME NEW q \in Processes PROVE Transaction(q)'
    BY <1>1, SameTransaction
  <1> QED
    BY <1>2, <1>3 DEF Records

\* A new row has the id the transaction knows for its group address.
LEMMA NewRowsAre ==
  ASSUME Records, NEW p \in Processes, pc[p] \notin {"names", "insert"}, NEW r \in NewRows(p)
  PROVE  /\ r \in [t : Telegrams, id : Ids]
         /\ \E k \in DOMAIN tx[p].batch : r.t = tx[p].batch[k] /\ r.id = IdAt(p, k)
  <1>1. PICK k \in DOMAIN tx[p].batch : r = [t |-> tx[p].batch[k], id |-> IdAt(p, k)]
    BY DEF NewRows, IdAt
  <1>2. tx[p].batch[k] \in Telegrams /\ IdAt(p, k) \in Ids
    BY BatchKnown
  <1> QED
    BY <1>1, <1>2

\* A commit makes the ids of the transaction those of the table, where no one else has given them away.
LEMMA CommitRecords ==
  ASSUME Records, Inv', NEW p \in Processes, CommitSteps(p)
  PROVE  Records'
  <1>1. /\ Apply(p)
        /\ \A q \in Processes \ {p} : pc'[q] = pc[q] /\ tx'[q] = tx[q]
        /\ IdleBut(p, {"ids"}) /\ pc'[p] \in {"publish", "idle"} /\ (pc'[p] = "idle" => tx'[p] = Idle)
        /\ pc[p] \in {"commit", "clear commit", "reconcile commit"}
        /\ IF pc[p] = "reconcile commit" THEN reconciled' = TRUE ELSE UNCHANGED reconciled
    BY CommitDoes DEF Records
  <1>2. \A f \in Fields \ {"ids"} : tx'[p][f] = Idle[f]
    BY <1>1 DEF IdleBut
  <1>3. \A q \in Processes : Typed(q) /\ Phase(q) /\ OwnIds(q) /\ Locks(q)
    BY DEF Records, Transaction
  <1>4. /\ DOMAIN lookup' = DOMAIN lookup \cup DOMAIN tx[p].made
        /\ \A n \in DOMAIN lookup : lookup'[n] = lookup[n]
        /\ \A n \in DOMAIN tx[p].made : lookup'[n] = tx[p].made[n]
    BY <1>1, ApplyLookup DEF Records
  <1>5. Tables'
    <2>1. /\ DOMAIN lookup' \subseteq Names /\ \A n \in DOMAIN lookup' : lookup'[n] \in Ids
      BY <1>3, <1>4 DEF Typed, Records, Tables
    <2>2. \A m, n \in DOMAIN lookup' : lookup'[m] = lookup'[n] => m = n
      BY <1>3, <1>4 DEF OwnIds, Records, Tables
    <2>3. telegrams' \subseteq [t : Telegrams, id : Ids]
      <3>1. telegrams' = (telegrams \ tx[p].gone) \cup NewRows(p)
        BY <1>1 DEF Apply
      <3>2. NewRows(p) \subseteq [t : Telegrams, id : Ids]
        BY <1>1, NewRowsAre
      <3> QED
        BY <3>1, <3>2 DEF Records, Tables
    <2>4. DOMAIN last' \subseteq Ids /\ \A i \in DOMAIN last' : last'[i] \in Nat
      <3>1. /\ DOMAIN last' = (DOMAIN last \ tx[p].dropped) \cup DOMAIN tx[p].put
            /\ \A i \in DOMAIN tx[p].put : last'[i] = tx[p].put[i]
            /\ \A i \in DOMAIN last' : i \notin DOMAIN tx[p].put => last'[i] = last[i]
        BY <1>1, ApplyLast
      <3> QED
        BY <1>3, <3>1 DEF Typed, Records, Tables
    <2>5. reconciled' \in BOOLEAN
      BY <1>1 DEF Records, Tables
    <2> QED
      BY <2>1, <2>2, <2>3, <2>4, <2>5 DEF Tables
  <1>6. Transaction(p)'
    <2>1. Typed(p)'
      BY <1>2, IdleIs DEF Fields, Typed
    <2>2. Phase(p)'
      BY <1>1, <1>2, IdleIs DEF Fields, Phase, Tx
    <2>3. OwnIds(p)' /\ Locks(p)'
      BY <1>2, IdleIs DEF Fields, OwnIds, Locks
    <2> QED
      BY <2>1, <2>2, <2>3 DEF Transaction
  <1>7. ASSUME NEW q \in Processes \ {p} PROVE Transaction(q)'
    <2>1. Typed(q)' /\ Phase(q)'
      BY <1>1, <1>3 DEF Typed, Phase
    <2>2. DOMAIN tx'[p].made = {} /\ tx'[p].held = {}
      BY <1>2, IdleIs DEF Fields
    <2>3. OwnIds(q)'
      <3>1. tx'[q] = tx[q] /\ OwnIds(p) /\ OwnIds(q)
        BY <1>1, <1>3
      <3>2. ASSUME NEW n \in DOMAIN tx[q].made, NEW m \in DOMAIN lookup' PROVE lookup'[m] # tx[q].made[n]
        <4>1. CASE m \in DOMAIN lookup
          BY <1>4, <3>1, <4>1 DEF OwnIds
        <4>2. CASE m \in DOMAIN tx[p].made
          BY <1>4, <3>1, <4>2 DEF OwnIds
        <4> QED
          BY <1>4, <4>1, <4>2
      <3>3. ASSUME NEW r \in Processes, NEW m \in DOMAIN tx'[r].made PROVE r # p /\ tx'[r] = tx[r]
        BY <1>1, <2>2
      <3> QED
        BY <3>1, <3>2, <3>3 DEF OwnIds
    <2>4. Locks(q)'
      BY <1>1, <1>3, <2>2 DEF Locks
    <2> QED
      BY <2>1, <2>3, <2>4 DEF Transaction
  <1> QED
    BY <1>5, <1>6, <1>7 DEF Records

LEMMA ListenerRecords ==
  ASSUME Records, Inv', Listen \/ Yield \/ StopListening \/ UNCHANGED vars
  PROVE  Records'
  <1>1. UNCHANGED <<lookup, telegrams, last, reconciled, pc, tx>>
    BY DEF Listen, Yield, StopListening, vars, tables
  <1>2. Tables'
    BY <1>1 DEF Records, Tables
  <1>3. ASSUME NEW q \in Processes PROVE Transaction(q)'
    BY <1>1, SameTransaction
  <1> QED
    BY <1>2, <1>3 DEF Records

LEMMA RecordsNext == Records /\ [Next]_vars => Records'
  <1> SUFFICES ASSUME Records, [Next]_vars PROVE Records'
    OBVIOUS
  <1>1. Inv'
    BY InvNext DEF Records
  <1>2. ASSUME NEW p \in Processes, Statement(p) PROVE Records'
    <2>1. ASSUME NEW n \in Names, InsertName(p, n) PROVE Records'
      BY <1>1, <2>1, InsertNameRecords
    <2>2. ASSUME NEW k \in tx[p].order, Upsert(p, k) PROVE Records'
      BY <1>1, <2>2, UpsertRecords
    <2>3. CASE InsertTelegrams(p)
      BY <1>1, <2>3, InsertTelegramsRecords
    <2>4. CASE ClearTelegrams(p) \/ ClearSnapshot(p) \/ ClearLast(p)
      BY <1>1, <2>4, ClearRecords
    <2>5. CASE DeleteStale(p) \/ Fill(p)
      BY <1>1, <2>5, RepairRecords
    <2>6. CASE Publish(p) \/ Count(p)
      BY <1>1, <2>6, OutsideRecords
    <2>7. CASE CommitSteps(p)
      BY <1>1, <2>7, CommitRecords
    <2> QED
      BY <1>2, <2>1, <2>2, <2>3, <2>4, <2>5, <2>6, <2>7 DEF Statement, CommitSteps
  <1>3. ASSUME NEW p \in Processes, NEW batch \in Batches, Begin(p, batch) PROVE Records'
    BY <1>1, <1>3, BeginRecords
  <1>4. ASSUME NEW p \in Processes, Clear(p) \/ Warm(p) \/ Fail(p) \/ Crash(p) PROVE Records'
    BY <1>1, <1>4, OutsideRecords
  <1>5. ASSUME NEW p \in Processes, NEW cutoff \in Cutoffs, EvictOlderThan(p, cutoff) PROVE Records'
    BY <1>1, <1>5, EvictRecords
  <1>6. CASE Listen \/ Yield \/ StopListening \/ UNCHANGED vars
    BY <1>1, <1>6, ListenerRecords
  <1> QED
    BY <1>2, <1>3, <1>4, <1>5, <1>6 DEF Next

-----------------------------------------------------------------------------
(* Last values *)

\* The last value of a row's group address is not older than the row.
Covered(r) == r.id \in DOMAIN last /\ TimeOf[r.t] <= last[r.id]

NameAt(p, k) == NameOf[tx[p].batch[k]]

\* The latest telegram of the same destination is still to be upserted, and the last value not locked.
Waiting(p, k) ==
  /\ IdAt(p, k) \notin tx[p].held
  /\ \E l \in tx[p].order : NameAt(p, l) = NameAt(p, k) /\ TimeAt(p, k) <= TimeAt(p, l)

\* It has been, and what the transaction has put or left there is not older.
Upserted(p, k) ==
  /\ IdAt(p, k) \in tx[p].held
  /\ \A l \in tx[p].order : NameAt(p, l) # NameAt(p, k)
  /\ \/ IdAt(p, k) \in DOMAIN tx[p].put /\ TimeAt(p, k) <= tx[p].put[IdAt(p, k)]
     \/ IdAt(p, k) \in DOMAIN last \ DOMAIN tx[p].put /\ TimeAt(p, k) <= last[IdAt(p, k)]

Upserting(p) ==
  /\ \A k, l \in tx[p].order : NameAt(p, k) = NameAt(p, l) => k = l
  /\ \A i \in DOMAIN tx[p].put : i \in DOMAIN last => last[i] <= tx[p].put[i]
  /\ \A k \in DOMAIN tx[p].batch : Waiting(p, k) \/ Upserted(p, k)

\* A clear() takes every row whose last value it takes, but for those committed in the middle of it.
Clearing(p) ==
  \A r \in telegrams :
    /\ pc[p] = "clear telegrams" => r \in tx[p].rows \/ r.id \in torn
    /\ pc[p] \in {"clear snapshot", "clear last"} => r \in tx[p].gone \/ r.id \in torn
    /\ pc[p] = "clear commit" => r \in tx[p].gone \/ r.id \in torn \/ r.id \notin tx[p].dropped

\* A repair has deleted no more than the stale last values and left none of them.
Filling(p) ==
  /\ \A r \in telegrams : r.id \in DOMAIN last \ tx[p].dropped => r.id \in torn \/ Covered(r)
  /\ \A i \in tx[p].dropped :
       /\ i \in DOMAIN last
       /\ i \in torn \/ \E r \in telegrams : r.id = i /\ last[i] < TimeOf[r.t]

\* It has put those that were missing, and newer ones for those that were stale.
Filled(p) ==
  /\ \A r \in telegrams :
       \/ r.id \in torn
       \/ r.id \in DOMAIN tx[p].put /\ TimeOf[r.t] <= tx[p].put[r.id]
       \/ r.id \notin DOMAIN tx[p].put \cup tx[p].dropped /\ Covered(r)
  /\ \A i \in DOMAIN tx[p].put \ tx[p].dropped : i \notin DOMAIN last
  /\ \A i \in tx[p].dropped :
       /\ i \in DOMAIN last
       /\ i \in torn \/ (i \in DOMAIN tx[p].put /\ last[i] <= tx[p].put[i])

Pending(p) ==
  /\ pc[p] \in {"upsert", "commit"} => Upserting(p)
  /\ Clearing(p)
  /\ pc[p] = "fill" => Filling(p)
  /\ pc[p] = "reconcile commit" => Filled(p)

\* Nobody writes before a repair has been committed.
Repairing == {"down", "count", "stale", "fill", "reconcile commit"}
RepairFirst == reconciled \/ \A p \in Processes : pc[p] \in Repairing

LastInv == Records /\ RepairFirst /\ LastValueNewest /\ \A p \in Processes : Pending(p)

LEMMA LastInit == Init => LastInv
  <1> SUFFICES ASSUME Init PROVE LastInv
    OBVIOUS
  <1>1. Records
    BY RecordsInit
  <1>2. reconciled = FALSE /\ \A p \in Processes : pc[p] = "down"
    BY DEF Init
  <1> QED
    BY <1>1, <1>2 DEF LastInv, RepairFirst, Repairing, LastValueNewest, Pending, Clearing

LEMMA AloneLast ==
  ASSUME LastInv, Records', NEW p \in Processes, Alone(p), Pending(p)', reconciled \/ pc'[p] \in Repairing
  PROVE  LastInv'
  <1>1. UNCHANGED <<telegrams, last, reconciled, torn>>
    BY DEF Alone, tables
  <1>2. LastValueNewest'
    BY <1>1 DEF LastInv, LastValueNewest
  <1>3. RepairFirst'
    BY <1>1 DEF LastInv, RepairFirst, Alone
  <1>4. ASSUME NEW q \in Processes \ {p} PROVE Pending(q)'
    <2>1. tx'[q] = tx[q] /\ pc'[q] = pc[q] /\ Pending(q)
      BY DEF Alone, LastInv
    <2>2. Upserting(q) => Upserting(q)'
      BY <1>1, <2>1 DEF Upserting, Waiting, Upserted, IdAt, TimeAt, NameAt
    <2>3. Clearing(q)'
      BY <1>1, <2>1 DEF Pending, Clearing
    <2>4. (Filling(q) => Filling(q)') /\ (Filled(q) => Filled(q)')
      BY <1>1, <2>1 DEF Filling, Filled, Covered
    <2> QED
      BY <2>1, <2>2, <2>3, <2>4 DEF Pending
  <1> QED
    BY <1>2, <1>3, <1>4 DEF LastInv

\* No two group addresses a transaction knows have the same id.
LEMMA DistinctKnown ==
  ASSUME Records, NEW p \in Processes, NEW m, NEW n, NEW i, KnownAs(p, m, i), KnownAs(p, n, i)
  PROVE  m = n
  BY DEF KnownAs, Records, Tables, Transaction, OwnIds

\* Every destination of a batch has one latest telegram, which is not older than the others.
LEMMA LatestIs ==
  ASSUME NEW batch \in Seq(Telegrams)
  PROVE  /\ \A k, l \in LatestPerDestination(batch) : NameOf[batch[k]] = NameOf[batch[l]] => k = l
         /\ \A k \in DOMAIN batch : \E l \in LatestPerDestination(batch) :
              NameOf[batch[l]] = NameOf[batch[k]] /\ TimeOf[batch[k]] <= TimeOf[batch[l]]
  <1>1. DOMAIN batch = 1..Len(batch) /\ Len(batch) \in Nat
    OBVIOUS
  <1>2. \A k \in DOMAIN batch : k \in Nat /\ batch[k] \in Telegrams /\ TimeOf[batch[k]] \in Nat
    BY <1>1, SqlAssumption
  <1>3. ASSUME NEW k \in LatestPerDestination(batch), NEW l \in LatestPerDestination(batch),
               NameOf[batch[k]] = NameOf[batch[l]]
        PROVE  k = l
    BY <1>2, <1>3 DEF LatestPerDestination
  <1>4. ASSUME NEW k \in DOMAIN batch
        PROVE  \E l \in LatestPerDestination(batch) :
                 NameOf[batch[l]] = NameOf[batch[k]] /\ TimeOf[batch[k]] <= TimeOf[batch[l]]
    <2> DEFINE S == {j \in DOMAIN batch : NameOf[batch[j]] = NameOf[batch[k]]}
               Before(j, l) == \/ TimeOf[batch[l]] < TimeOf[batch[j]]
                               \/ TimeOf[batch[j]] = TimeOf[batch[l]] /\ j < l
               R == {e \in S \X S : Before(e[1], e[2])}
    <2>1. S \subseteq DOMAIN batch /\ k \in S /\ \A j \in S : NameOf[batch[j]] = NameOf[batch[k]]
      OBVIOUS
    <2>2. IsFiniteSet(S)
      <3>1. 1 \in Int /\ Len(batch) \in Int
        BY <1>1
      <3>2. IsFiniteSet(DOMAIN batch)
        BY <1>1, <3>1, FS_Interval
      <3> HIDE DEF S
      <3> QED
        BY <2>1, <3>2, FS_Subset
    <2>3. /\ \A x \in S : ~Before(x, x)
          /\ \A x, y, z \in S : Before(x, y) /\ Before(y, z) => Before(x, z)
          /\ \A x, y \in S : ~Before(y, x) =>
               TimeOf[batch[y]] < TimeOf[batch[x]] \/ (TimeOf[batch[y]] = TimeOf[batch[x]] /\ x <= y)
      BY <1>2, <2>1
    <2> HIDE DEF S, Before
    <2>4. \A x, y \in S : <<x, y>> \in R <=> Before(x, y)
      OBVIOUS
    <2> HIDE DEF R
    <2>5. /\ \A x \in S : <<x, x>> \notin R
          /\ \A x, y, z \in S : <<x, y>> \in R /\ <<y, z>> \in R => <<x, z>> \in R
      BY <2>3, <2>4
    <2>6. PICK l \in S : \A y \in S : <<y, l>> \notin R
      BY <2>1, <2>2, <2>5, MinimalElement
    <2>7. \A y \in S : TimeOf[batch[y]] < TimeOf[batch[l]] \/ (TimeOf[batch[y]] = TimeOf[batch[l]] /\ l <= y)
      BY <2>3, <2>4, <2>6
    <2>8. \A j \in DOMAIN batch : NameOf[batch[j]] = NameOf[batch[l]] => j \in S
      BY <2>1 DEF S
    <2>9. l \in LatestPerDestination(batch)
      BY <2>1, <2>7, <2>8 DEF LatestPerDestination
    <2>10. TimeOf[batch[k]] <= TimeOf[batch[l]]
      BY <1>2, <2>1, <2>7
    <2> QED
      BY <2>1, <2>9, <2>10
  <1> QED
    BY <1>3, <1>4

\* A process that is not in the middle of anything promises nothing.
LEMMA NothingPending ==
  ASSUME NEW p \in Processes,
         pc'[p] \in {"down", "count", "stale", "idle", "names", "insert", "publish"}
  PROVE  Pending(p)'
  BY DEF Pending, Clearing

\* A process that writes or clears does so after the repair.
LEMMA WritesRepaired ==
  ASSUME LastInv, NEW p \in Processes, pc[p] \notin Repairing
  PROVE  reconciled
  BY DEF LastInv, RepairFirst

LEMMA InsertTelegramsLast ==
  ASSUME LastInv, Records', NEW p \in Processes, InsertTelegrams(p)
  PROVE  LastInv'
  <1>1. /\ Alone(p) /\ pc[p] = "insert" /\ pc'[p] = "upsert"
        /\ tx'[p].order = LatestPerDestination(tx[p].batch)
        /\ \A f \in Fields \ {"ids", "order"} : tx'[p][f] = tx[p][f]
    BY InsertTelegramsDoes DEF LastInv, Records, KeepsBut
  <1>2. tx'[p].batch = tx[p].batch /\ tx'[p].put = tx[p].put /\ tx'[p].held = tx[p].held
    BY <1>1 DEF Fields
  <1>3. tx[p].batch \in Seq(Telegrams) /\ DOMAIN tx[p].put = {} /\ tx[p].held = {}
    BY <1>1 DEF LastInv, Records, Transaction, Typed, Phase
  <1>4. Upserting(p)'
    <2>1. \A k, l \in tx'[p].order : NameAt(p, k)' = NameAt(p, l)' => k = l
      BY <1>1, <1>2, <1>3, LatestIs DEF NameAt
    <2>2. ASSUME NEW k \in DOMAIN tx'[p].batch PROVE Waiting(p, k)'
      BY <1>1, <1>2, <1>3, LatestIs DEF Waiting, NameAt, TimeAt
    <2> QED
      BY <1>2, <1>3, <2>1, <2>2 DEF Upserting
  <1>5. Pending(p)'
    BY <1>1, <1>4 DEF Pending, Clearing
  <1> QED
    BY <1>1, <1>5, WritesRepaired, AloneLast DEF Repairing

\* The last value that is locked and perhaps put is not older than any telegram of its destination.
LEMMA UpsertLast ==
  ASSUME LastInv, Records', NEW p \in Processes, NEW k \in tx[p].order, Upsert(p, k)
  PROVE  LastInv'
  <1> DEFINE id == IdAt(p, k)
             time == TimeAt(p, k)
             order == tx[p].order
             put == tx[p].put
  <1>1. /\ Alone(p) /\ pc[p] = "upsert" /\ pc'[p] \in {"upsert", "commit"}
        /\ tx'[p].order = order \ {k} /\ tx'[p].held = tx[p].held \cup {id}
        /\ tx'[p].put = IF Newer(id, time) THEN Over([i \in {id} |-> time], put) ELSE put
        /\ \A f \in Fields \ {"order", "put", "held"} : tx'[p][f] = tx[p][f]
    BY UpsertDoes DEF LastInv, Records, KeepsBut
  <1>2. tx'[p].batch = tx[p].batch /\ tx'[p].ids = tx[p].ids /\ UNCHANGED last
    BY <1>1 DEF Fields, Alone, tables
  <1>3. /\ Records /\ Upserting(p) /\ Locks(p) /\ Typed(p) /\ order \subseteq DOMAIN tx[p].batch
    BY <1>1 DEF LastInv, Records, Pending, Transaction, Typed
  <1>4. \A j \in DOMAIN tx[p].batch : /\ KnownAs(p, NameAt(p, j), IdAt(p, j)) /\ TimeAt(p, j) \in Nat
                                      /\ IdAt(p, j) \in Ids
    BY <1>1, <1>3, BatchKnown DEF NameAt
  <1>5. \A j \in DOMAIN tx[p].batch : IdAt(p, j) = id <=> NameAt(p, j) = NameAt(p, k)
    <2>1. \A j \in DOMAIN tx[p].batch : IdAt(p, j) = id => NameAt(p, j) = NameAt(p, k)
      BY <1>3, <1>4, DistinctKnown
    <2> QED
      BY <2>1 DEF IdAt, NameAt
  <1>6. /\ \A j : IdAt(p, j)' = IdAt(p, j) /\ NameAt(p, j)' = NameAt(p, j) /\ TimeAt(p, j)' = TimeAt(p, j)
    BY <1>2 DEF IdAt, NameAt, TimeAt
  <1>7. Waiting(p, k) /\ id \notin DOMAIN put
    <2>1. ~Upserted(p, k)
      BY DEF Upserted
    <2>2. Waiting(p, k)
      BY <1>3, <2>1 DEF Upserting
    <2> QED
      BY <1>3, <2>2 DEF Waiting, Locks
  <1>8. /\ IF Newer(id, time)
           THEN id \in DOMAIN tx'[p].put /\ tx'[p].put[id] = time /\ (id \in DOMAIN last => last[id] <= time)
           ELSE id \in DOMAIN last \ DOMAIN tx'[p].put /\ time <= last[id]
        /\ \A i : i # id => /\ i \in DOMAIN tx'[p].put <=> i \in DOMAIN put
                            /\ i \in DOMAIN put => tx'[p].put[i] = put[i]
    <2>1. \A i \in DOMAIN last : last[i] \in Nat
      BY <1>3 DEF Records, Tables
    <2>2. time \in Nat
      BY <1>3, <1>4
    <2> HIDE DEF id, time
    <2>3. CASE Newer(id, time)
      <3>1. tx'[p].put = Over([i \in {id} |-> time], put)
        BY <1>1, <2>3
      <3>2. /\ id \in DOMAIN tx'[p].put /\ tx'[p].put[id] = time
            /\ \A i : i # id => /\ i \in DOMAIN tx'[p].put <=> i \in DOMAIN put
                                /\ i \in DOMAIN put => tx'[p].put[i] = put[i]
        BY <3>1 DEF Over
      <3>3. id \in DOMAIN last => last[id] <= time
        BY <2>1, <2>2, <2>3 DEF Newer
      <3> QED
        BY <2>3, <3>2, <3>3
    <2>4. CASE ~Newer(id, time)
      <3>1. tx'[p].put = put
        BY <1>1, <2>4
      <3>2. id \in DOMAIN last /\ time <= last[id]
        BY <2>1, <2>2, <2>4 DEF Newer
      <3> QED
        BY <1>7, <2>4, <3>1, <3>2
    <2> QED
      BY <2>3, <2>4
  <1> HIDE DEF id, time, order, put
  <1>9. \A j \in DOMAIN tx[p].batch : NameAt(p, j) = NameAt(p, k) => TimeAt(p, j) <= time
    <2> SUFFICES ASSUME NEW j \in DOMAIN tx[p].batch, NameAt(p, j) = NameAt(p, k) PROVE TimeAt(p, j) <= time
      OBVIOUS
    <2>1. IdAt(p, j) \notin tx[p].held
      BY <1>5, <1>7 DEF Waiting, id
    <2>2. Waiting(p, j)
      BY <1>3, <2>1 DEF Upserting, Upserted
    <2>3. PICK l \in order : NameAt(p, l) = NameAt(p, j) /\ TimeAt(p, j) <= TimeAt(p, l)
      BY <2>2 DEF Waiting, order
    <2>4. l = k
      BY <1>3, <2>3 DEF Upserting, order
    <2> QED
      BY <2>3, <2>4 DEF time
  <1>10. Upserting(p)'
    <2>1. \A j, l \in tx'[p].order : NameAt(p, j)' = NameAt(p, l)' => j = l
      BY <1>1, <1>3, <1>6 DEF Upserting, order
    <2>2. ASSUME NEW i \in DOMAIN tx'[p].put, i \in DOMAIN last' PROVE last'[i] <= tx'[p].put[i]
      BY <1>2, <1>3, <1>8, <2>2 DEF Upserting, put
    <2>3. ASSUME NEW j \in DOMAIN tx[p].batch PROVE Waiting(p, j)' \/ Upserted(p, j)'
      <3>1. CASE NameAt(p, j) = NameAt(p, k)
        <4>1. IdAt(p, j)' = id /\ TimeAt(p, j)' = TimeAt(p, j) /\ TimeAt(p, j) <= time
              /\ TimeAt(p, j) \in Nat /\ time \in Nat
          BY <1>3, <1>4, <1>5, <1>6, <1>9, <3>1 DEF time, order
        <4>2. id \in tx'[p].held
          BY <1>1
        <4>3. \A l \in tx'[p].order : NameAt(p, l)' # NameAt(p, j)'
          BY <1>1, <1>3, <1>6, <3>1 DEF Upserting, order
        <4>4. \/ id \in DOMAIN tx'[p].put /\ TimeAt(p, j) <= tx'[p].put[id]
              \/ id \in DOMAIN last' \ DOMAIN tx'[p].put /\ TimeAt(p, j) <= last'[id]
          <5>1. id \in DOMAIN last => last[id] \in Nat
            BY <1>3 DEF Records, Tables
          <5> QED
            BY <1>2, <1>8, <4>1, <5>1
        <4> QED
          BY <4>1, <4>2, <4>3, <4>4 DEF Upserted
      <3>2. CASE NameAt(p, j) # NameAt(p, k)
        <4>1. IdAt(p, j) # id
          BY <1>5, <3>2
        <4>2. CASE Waiting(p, j)
          <5>1. PICK l \in order : NameAt(p, l) = NameAt(p, j) /\ TimeAt(p, j) <= TimeAt(p, l)
            BY <4>2 DEF Waiting, order
          <5>2. l \in tx'[p].order
            BY <1>1, <3>2, <5>1
          <5>3. IdAt(p, j)' \notin tx'[p].held
            BY <1>1, <1>6, <4>1, <4>2 DEF Waiting
          <5>4. NameAt(p, l)' = NameAt(p, j)' /\ TimeAt(p, j)' <= TimeAt(p, l)'
            BY <1>6, <5>1
          <5> QED
            BY <5>2, <5>3, <5>4 DEF Waiting
        <4>3. CASE Upserted(p, j)
          <5>1. /\ IdAt(p, j)' \in tx'[p].held
                /\ \A l \in tx'[p].order : NameAt(p, l)' # NameAt(p, j)'
            BY <1>1, <1>6, <4>3 DEF Upserted, order
          <5>2. \/ IdAt(p, j) \in DOMAIN tx'[p].put /\ TimeAt(p, j) <= tx'[p].put[IdAt(p, j)]
                \/ IdAt(p, j) \in DOMAIN last \ DOMAIN tx'[p].put /\ TimeAt(p, j) <= last[IdAt(p, j)]
            BY <1>8, <4>1, <4>3 DEF Upserted, put
          <5> QED
            BY <1>2, <1>6, <5>1, <5>2 DEF Upserted
        <4> QED
          BY <1>3, <4>2, <4>3 DEF Upserting
      <3> QED
        BY <3>1, <3>2
    <2> QED
      BY <1>2, <2>1, <2>2, <2>3 DEF Upserting
  <1>11. Pending(p)'
    BY <1>1, <1>10 DEF Pending, Clearing
  <1> QED
    BY <1>1, <1>11, WritesRepaired, AloneLast DEF Repairing

\* The rows a clear() deletes are those it found, and others that come up afterwards are torn.
LEMMA ClearingLast ==
  ASSUME LastInv, Records', NEW p \in Processes,
         Clear(p) \/ ClearTelegrams(p) \/ ClearSnapshot(p) \/ ClearLast(p)
  PROVE  LastInv'
  <1> USE DEF LastInv, Records, KeepsBut, Fields
  <1>1. /\ Alone(p)
        /\ pc'[p] \in {"clear telegrams", "clear snapshot", "clear last", "clear commit"}
        /\ pc[p] \in {"idle", "clear telegrams", "clear snapshot", "clear last"}
        /\ pc'[p] = "clear telegrams" => tx'[p].rows = telegrams
        /\ pc'[p] = "clear snapshot" => pc[p] = "clear telegrams" /\ tx'[p].gone = tx[p].rows
        /\ pc'[p] \in {"clear last", "clear commit"} => /\ pc[p] \in {"clear snapshot", "clear last"}
                                                        /\ tx'[p].gone = tx[p].gone
    <2>1. CASE Clear(p)
      BY <2>1, ClearDoes
    <2>2. CASE ClearTelegrams(p)
      BY <2>2, ClearTelegramsDoes
    <2>3. CASE ClearSnapshot(p)
      BY <2>3, ClearSnapshotDoes
    <2>4. CASE ClearLast(p)
      BY <2>4, ClearLastDoes
    <2> QED
      BY <2>1, <2>2, <2>3, <2>4
  <1>2. UNCHANGED <<telegrams, torn>> /\ Clearing(p)
    BY <1>1 DEF Alone, tables, Pending
  <1>3. Clearing(p)'
    BY <1>1, <1>2 DEF Clearing
  <1>4. Pending(p)'
    BY <1>1, <1>3 DEF Pending
  <1> QED
    BY <1>1, <1>4, WritesRepaired, AloneLast DEF Repairing

LEMMA DeleteStaleLast ==
  ASSUME LastInv, Records', NEW p \in Processes, DeleteStale(p)
  PROVE  LastInv'
  <1>1. /\ Alone(p) /\ pc'[p] = "fill" /\ tx'[p].dropped = Stale
    BY DeleteStaleDoes DEF LastInv, Records
  <1>2. UNCHANGED <<telegrams, last, torn>> /\ Tables
    BY <1>1 DEF Alone, tables, LastInv, Records
  <1>3. \A r \in telegrams : TimeOf[r.t] \in Nat
    BY <1>2, SqlAssumption DEF Tables
  <1>4. ASSUME NEW r \in telegrams, r.id \in DOMAIN last \ Stale PROVE Covered(r)
    <2>1. TimeOf[r.t] \in TimesOf(telegrams, r.id)
      BY DEF TimesOf
    <2>2. ~(TimeOf[r.t] > last[r.id])
      BY <1>4, <2>1 DEF Stale
    <2> QED
      BY <1>2, <1>3, <1>4, <2>2 DEF Covered, Tables
  <1>5. ASSUME NEW i \in Stale
        PROVE  i \in DOMAIN last /\ \E r \in telegrams : r.id = i /\ last[i] < TimeOf[r.t]
    <2>1. i \in DOMAIN last /\ \E time \in TimesOf(telegrams, i) : time > last[i]
      BY DEF Stale
    <2>2. PICK r \in telegrams : r.id = i /\ TimeOf[r.t] > last[i]
      BY <2>1 DEF TimesOf
    <2> QED
      BY <1>2, <1>3, <2>1, <2>2 DEF Tables
  <1>6. Filling(p)'
    BY <1>1, <1>2, <1>4, <1>5 DEF Filling, Covered
  <1>7. Pending(p)'
    BY <1>1, <1>6 DEF Pending, Clearing
  <1> QED
    BY <1>1, <1>7, AloneLast DEF Repairing

LEMMA FillLast ==
  ASSUME LastInv, Records', NEW p \in Processes, Fill(p)
  PROVE  LastInv'
  <1> DEFINE dropped == tx[p].dropped
             put == [i \in Missing(p) |-> Newest(TimesOf(telegrams, i))]
  <1>1. /\ Alone(p) /\ pc[p] = "fill" /\ pc'[p] = "reconcile commit"
        /\ tx'[p].put = put /\ tx'[p].dropped = dropped
    BY FillDoes DEF LastInv, Records, KeepsBut, Fields
  <1>2. UNCHANGED <<telegrams, last, torn>> /\ Tables /\ Filling(p)
    BY <1>1 DEF Alone, tables, LastInv, Records, Pending
  <1>3. \A r \in telegrams : TimeOf[r.t] \in Nat /\ r.id \in IdsOf(telegrams)
    BY <1>2, SqlAssumption DEF Tables, IdsOf
  <1>4. ASSUME NEW r \in telegrams, r.id \in Missing(p)
        PROVE  /\ r.id \in DOMAIN put /\ put[r.id] \in Nat /\ TimeOf[r.t] <= put[r.id]
    <2>1. r.id \in IdsOf(telegrams)
      BY <1>3
    <2>2. Newest(TimesOf(telegrams, r.id)) \in Nat /\ TimeOf[r.t] <= Newest(TimesOf(telegrams, r.id))
      BY <1>2, <2>1, NewestIs
    <2> QED
      BY <1>4, <2>2
  <1>5. DOMAIN put = Missing(p)
    OBVIOUS
  <1> HIDE DEF put
  <1>6. \A r \in telegrams : \/ r.id \in torn
                             \/ r.id \in DOMAIN put /\ TimeOf[r.t] <= put[r.id]
                             \/ r.id \notin DOMAIN put \cup dropped /\ Covered(r)
    BY <1>2, <1>3, <1>4, <1>5 DEF Missing, Filling
  <1>7. \A i \in DOMAIN put \ dropped : i \notin DOMAIN last
    BY <1>5 DEF Missing
  <1>8. ASSUME NEW i \in dropped PROVE i \in DOMAIN last /\ (i \in torn \/ (i \in DOMAIN put /\ last[i] <= put[i]))
    <2>1. i \in DOMAIN last /\ last[i] \in Nat
      BY <1>2 DEF Filling, Tables
    <2>2. CASE i \in torn
      BY <2>1, <2>2
    <2>3. ASSUME NEW r \in telegrams, r.id = i, last[i] < TimeOf[r.t] PROVE i \in DOMAIN put /\ last[i] <= put[i]
      <3>1. i \in Missing(p)
        BY <1>3, <2>3 DEF Missing
      <3> QED
        BY <1>3, <1>4, <2>1, <2>3, <3>1
    <2> QED
      BY <1>2, <2>1, <2>2, <2>3 DEF Filling
  <1>9. Filled(p)'
    BY <1>1, <1>2, <1>6, <1>7, <1>8 DEF Filled, Covered
  <1>10. Pending(p)'
    BY <1>1, <1>9 DEF Pending, Clearing
  <1> QED
    BY <1>1, <1>10, AloneLast DEF Repairing

\* A start with no last values deletes none, and what ends or begins a transaction leaves nothing pending.
LEMMA OutsideLast ==
  ASSUME LastInv, Records', NEW p \in Processes,
         \/ Warm(p) \/ Count(p) \/ Publish(p) \/ Fail(p) \/ Crash(p)
         \/ \E batch \in Batches : Begin(p, batch)
         \/ \E n \in Names : InsertName(p, n)
  PROVE  LastInv'
  <1>1. CASE Warm(p) \/ Count(p)
    <2>1. /\ Alone(p) /\ tx'[p] = tx[p]
          /\ pc[p] \in {"down", "count"} /\ pc'[p] \in {"count", "idle", "stale", "fill"}
          /\ pc'[p] = "idle" => reconciled
          /\ pc'[p] = "fill" => DOMAIN last = {}
      BY <1>1, StartDoes DEF LastInv, Records
    <2>2. tx[p].dropped = {} /\ UNCHANGED last
      BY <2>1 DEF LastInv, Records, Transaction, Phase, Alone, tables
    <2>3. CASE pc'[p] = "fill"
      <3>1. Filling(p)'
        BY <2>1, <2>2, <2>3 DEF Filling
      <3>2. Pending(p)'
        BY <2>3, <3>1 DEF Pending, Clearing
      <3> QED
        BY <2>1, <2>3, <3>2, AloneLast DEF Repairing
    <2>4. CASE pc'[p] # "fill"
      BY <2>1, <2>4, NothingPending, AloneLast DEF Repairing
    <2> QED
      BY <2>3, <2>4
  <1>2. CASE Publish(p) \/ Fail(p) \/ Crash(p)
    <2>1. /\ Alone(p)
          /\ pc'[p] = "down" \/ (pc'[p] = "idle" /\ pc[p] \in Writing \cup InClear \cup {"clear commit"})
      BY <1>2, EndDoes DEF LastInv, Records
    <2>2. pc'[p] = "idle" => pc[p] \notin Repairing
      BY <2>1 DEF Repairing, Writing, InClear
    <2>3. reconciled \/ pc'[p] \in Repairing
      BY <2>1, <2>2, WritesRepaired DEF Repairing
    <2> QED
      BY <2>1, <2>3, NothingPending, AloneLast
  <1>3. ASSUME NEW batch \in Batches, Begin(p, batch) PROVE LastInv'
    <2>1. Alone(p) /\ pc[p] = "idle" /\ pc'[p] \in {"insert", "names"}
      BY <1>3, BeginDoes DEF LastInv, Records
    <2> QED
      BY <2>1, NothingPending, WritesRepaired, AloneLast DEF Repairing
  <1>4. ASSUME NEW n \in Names, InsertName(p, n) PROVE LastInv'
    <2>1. Alone(p) /\ pc[p] = "names" /\ pc'[p] \in {"insert", "names"}
      BY <1>4, InsertNameDoes DEF LastInv, Records
    <2> QED
      BY <2>1, NothingPending, WritesRepaired, AloneLast DEF Repairing
  <1> QED
    BY <1>1, <1>2, <1>3, <1>4

\* What is evicted in the middle of a repair is torn.
LEMMA EvictLast ==
  ASSUME LastInv, Records', NEW p \in Processes, NEW cutoff \in Cutoffs, EvictOlderThan(p, cutoff)
  PROVE  LastInv'
  <1> DEFINE gone == {r \in telegrams : TimeOf[r.t] < cutoff}
  <1>1. /\ pc[p] = "idle" /\ telegrams' = telegrams \ gone
        /\ torn' = torn \cup (IF \E q \in Processes : pc[q] = "fill" THEN IdsOf(gone) ELSE {})
        /\ UNCHANGED <<last, reconciled, pc, tx>>
    BY DEF EvictOlderThan
  <1> HIDE DEF gone
  <1>2. RepairFirst'
    BY <1>1 DEF LastInv, RepairFirst
  <1>3. LastValueNewest'
    BY <1>1 DEF LastInv, LastValueNewest
  <1>4. ASSUME NEW q \in Processes PROVE Pending(q)'
    <2>1. Pending(q)
      BY DEF LastInv
    <2>2. Upserting(q) => Upserting(q)'
      <3>1. tx' = tx /\ last' = last
        BY <1>1
      <3>2. \A k \in DOMAIN tx[q].batch : Waiting(q, k) => Waiting(q, k)'
        BY <3>1 DEF Waiting, IdAt, TimeAt, NameAt
      <3>3. \A k \in DOMAIN tx[q].batch : Upserted(q, k) => Upserted(q, k)'
        BY <3>1 DEF Upserted, IdAt, TimeAt, NameAt
      <3> QED
        BY <3>1, <3>2, <3>3 DEF Upserting, NameAt
    <2>3. Clearing(q)'
      BY <1>1, <2>1 DEF Pending, Clearing
    <2>4. ASSUME pc[q] = "fill" PROVE Filling(q)'
      <3>1. Filling(q)
        BY <2>1, <2>4 DEF Pending
      <3>2. \A r \in gone : r.id \in torn'
        BY <1>1, <2>4 DEF IdsOf
      <3>3. \A r \in telegrams' : r.id \in DOMAIN last' \ tx'[q].dropped => r.id \in torn' \/ Covered(r)'
        BY <1>1, <3>1 DEF Filling, Covered
      <3>4. ASSUME NEW i \in tx'[q].dropped
            PROVE  i \in DOMAIN last' /\ (i \in torn' \/ \E r \in telegrams' : r.id = i /\ last'[i] < TimeOf[r.t])
        BY <1>1, <3>1, <3>2 DEF Filling
      <3> QED
        BY <3>3, <3>4 DEF Filling
    <2>5. Filled(q) => Filled(q)'
      BY <1>1 DEF Filled, Covered
    <2> QED
      BY <1>1, <2>1, <2>2, <2>3, <2>4, <2>5 DEF Pending
  <1> QED
    BY <1>2, <1>3, <1>4 DEF LastInv

\* What a commit leaves alone: the last values that others have locked.
LEMMA OthersKept ==
  ASSUME Records, NEW p \in Processes, Apply(p), NEW q \in Processes \ {p}, NEW i \in tx[q].held
  PROVE  /\ i \notin tx[p].held
         /\ i \in DOMAIN last' <=> i \in DOMAIN last
         /\ i \in DOMAIN last => last'[i] = last[i]
  <1>1. Locks(p) /\ Locks(q)
    BY DEF Records, Transaction
  <1>2. i \notin tx[p].held /\ i \notin tx[p].dropped /\ i \notin DOMAIN tx[p].put
    BY <1>1 DEF Locks
  <1> QED
    BY <1>2, ApplyLast

\* What the committing transaction had at its last statement.
LEMMA CommitHas ==
  ASSUME LastInv, NEW p \in Processes, CommitSteps(p)
  PROVE  /\ pc[p] = "commit" =>
              /\ tx[p].dropped = {} /\ tx[p].gone = {}
              /\ Upserting(p) /\ \A k \in DOMAIN tx[p].batch : Upserted(p, k)
         /\ pc[p] = "clear commit" => DOMAIN tx[p].put = {} /\ NewRows(p) = {} /\ Clearing(p)
         /\ pc[p] = "reconcile commit" => tx[p].gone = {} /\ NewRows(p) = {} /\ Filled(p)
  <1>1. Phase(p) /\ Pending(p)
    BY DEF LastInv, Records, Transaction
  <1>2. DOMAIN tx[p].batch = {} => NewRows(p) = {}
    BY DEF NewRows
  <1>3. CASE pc[p] = "commit"
    <2>1. tx[p].order = {} /\ tx[p].dropped = {} /\ tx[p].gone = {} /\ Upserting(p)
      BY <1>1, <1>3 DEF Phase, Pending
    <2> QED
      BY <1>3, <2>1 DEF Upserting, Waiting
  <1>4. CASE pc[p] \in {"clear commit", "reconcile commit"}
    BY <1>1, <1>2, <1>4 DEF Phase, Pending
  <1> QED
    BY <1>3, <1>4, CommitDoes DEF LastInv, Records

LEMMA NotLater == \A a, b, c \in Nat : a <= b /\ b <= c => a <= c
  OBVIOUS

LEMMA SameTime == \A a \in Nat : a <= a /\ a >= a
  OBVIOUS

\* The last values of new rows, of rows that were covered and of all rows at the end of a repair.
LEMMA CommitCovers ==
  ASSUME LastInv, Records', NEW p \in Processes, CommitSteps(p), NEW r \in telegrams', r.id \notin torn',
         r \in NewRows(p) \/ Covered(r) \/ pc[p] = "reconcile commit"
  PROVE  Covered(r)'
  <1>1. /\ DOMAIN last' = (DOMAIN last \ tx[p].dropped) \cup DOMAIN tx[p].put
        /\ \A i \in DOMAIN tx[p].put : last'[i] = tx[p].put[i]
        /\ \A i \in DOMAIN last' : i \notin DOMAIN tx[p].put => last'[i] = last[i]
    BY CommitDoes, ApplyLast DEF LastInv, Records
  <1>2. telegrams' = (telegrams \ tx[p].gone) \cup NewRows(p) /\ torn \subseteq torn'
    BY CommitDoes DEF LastInv, Records, Apply
  <1>3. pc[p] \in {"commit", "clear commit", "reconcile commit"}
    BY CommitDoes DEF LastInv, Records
  <1>4. /\ \A i \in DOMAIN last : last[i] \in Nat
        /\ \A i \in DOMAIN tx[p].put : tx[p].put[i] \in Nat
        /\ TimeOf[r.t] \in Nat
    BY SqlAssumption DEF LastInv, Records, Tables, Transaction, Typed
  <1>5. CASE r \in NewRows(p)
    <2>1. pc[p] = "commit"
      BY <1>3, <1>5, CommitHas
    <2>2. PICK k \in DOMAIN tx[p].batch : r.t = tx[p].batch[k] /\ r.id = IdAt(p, k)
      BY <1>5, <2>1, NewRowsAre DEF LastInv
    <2>3. Upserted(p, k) /\ tx[p].dropped = {} /\ TimeAt(p, k) = TimeOf[r.t]
      BY <2>1, <2>2, CommitHas DEF TimeAt
    <2> QED
      BY <1>1, <2>2, <2>3 DEF Upserted, Covered
  <1>6. CASE r \in telegrams \ tx[p].gone /\ pc[p] = "commit"
    <2>1. /\ tx[p].dropped = {}
          /\ \A i \in DOMAIN tx[p].put : i \in DOMAIN last => last[i] <= tx[p].put[i]
      BY <1>6, CommitHas DEF Upserting
    <2>2. CASE r \in NewRows(p)
      BY <1>5, <2>2
    <2>3. CASE Covered(r)
      <3>1. r.id \in DOMAIN last /\ TimeOf[r.t] <= last[r.id] /\ r.id \in DOMAIN last'
        BY <1>1, <2>1, <2>3 DEF Covered
      <3>2. CASE r.id \in DOMAIN tx[p].put
        <4>1. last[r.id] <= tx[p].put[r.id] /\ last'[r.id] = tx[p].put[r.id]
          BY <1>1, <2>1, <3>1, <3>2
        <4>2. last[r.id] \in Nat /\ tx[p].put[r.id] \in Nat
          BY <1>4, <3>1, <3>2
        <4>3. TimeOf[r.t] \in Nat
          BY <1>4
        <4>4. TimeOf[r.t] <= tx[p].put[r.id]
          BY <3>1, <4>1, <4>2, <4>3, NotLater, Zenon
        <4> QED
          BY <3>1, <4>1, <4>4 DEF Covered
      <3>3. CASE r.id \notin DOMAIN tx[p].put
        BY <1>1, <3>1, <3>3 DEF Covered
      <3> QED
        BY <3>2, <3>3
    <2> QED
      BY <1>6, <2>2, <2>3
  <1>7. CASE r \in telegrams \ tx[p].gone /\ pc[p] = "clear commit"
    <2>1. DOMAIN tx[p].put = {} /\ NewRows(p) = {} /\ r.id \notin tx[p].dropped
      BY <1>2, <1>7, CommitHas DEF Clearing
    <2> QED
      BY <1>1, <1>7, <2>1 DEF Covered
  <1>8. CASE r \in telegrams \ tx[p].gone /\ pc[p] = "reconcile commit"
    <2>1. \/ r.id \in DOMAIN tx[p].put /\ TimeOf[r.t] <= tx[p].put[r.id]
          \/ r.id \notin DOMAIN tx[p].put \cup tx[p].dropped /\ Covered(r)
      BY <1>2, <1>8, CommitHas DEF Filled
    <2> QED
      BY <1>1, <2>1 DEF Covered
  <1> QED
    BY <1>2, <1>3, <1>5, <1>6, <1>7, <1>8

\* A commit keeps what the others have pending.
LEMMA OthersPending ==
  ASSUME LastInv, Records', NEW p \in Processes, CommitSteps(p), NEW q \in Processes \ {p}
  PROVE  Pending(q)'
  <1>1. /\ Apply(p) /\ pc'[q] = pc[q] /\ tx'[q] = tx[q]
        /\ telegrams' = (telegrams \ tx[p].gone) \cup NewRows(p) /\ torn \subseteq torn'
        /\ pc[q] \in InClear => IdsOf(NewRows(p)) \subseteq torn'
        /\ pc[q] = "fill" => IdsOf(tx[p].gone) \subseteq torn'
    BY CommitDoes DEF LastInv, Records, Apply
  <1>2. Records /\ Pending(q) /\ Locks(q)
    BY DEF LastInv, Records, Transaction
  <1>3. \A i \in tx[q].held : /\ i \notin tx[p].held /\ (i \in DOMAIN last' <=> i \in DOMAIN last)
                              /\ (i \in DOMAIN last => last'[i] = last[i])
    BY <1>1, <1>2, OthersKept
  <1>4. ASSUME NEW r \in NewRows(p) PROVE r.id \notin tx[q].held
    <2>1. pc[p] = "commit"
      BY <1>4, CommitHas, CommitDoes DEF LastInv, Records
    <2>2. PICK k \in DOMAIN tx[p].batch : r.id = IdAt(p, k)
      BY <1>2, <1>4, <2>1, NewRowsAre
    <2>3. Upserted(p, k)
      BY <2>1, CommitHas
    <2> QED
      BY <1>3, <2>2, <2>3 DEF Upserted
  <1>5. ASSUME NEW r \in telegrams', r.id \notin torn', r \in NewRows(p) \/ Covered(r) \/ pc[p] = "reconcile commit"
        PROVE  Covered(r)'
    BY <1>5, CommitCovers
  <1>6. Clearing(q)'
    <2>1. Clearing(q)
      BY <1>2 DEF Pending
    <2>2. ASSUME NEW r \in NewRows(p) PROVE r.id \in IdsOf(NewRows(p)) /\ r.id \notin tx[q].dropped
      BY <1>2, <1>4, <2>2 DEF IdsOf, Locks
    <2>3. ASSUME NEW r \in telegrams', pc[q] \in InClear
          PROVE  r \in telegrams \/ r.id \in torn'
      BY <1>1, <2>2, <2>3
    <2>4. ASSUME NEW r \in telegrams', pc[q] = "clear commit"
          PROVE  r \in telegrams \/ r.id \notin tx[q].dropped
      BY <1>1, <2>2
    <2> QED
      BY <1>1, <2>1, <2>3, <2>4 DEF Clearing, InClear
  <1>7. ASSUME pc[q] \in {"upsert", "commit"}, Upserting(q) PROVE Upserting(q)'
    <2>1. \A k : IdAt(q, k)' = IdAt(q, k) /\ NameAt(q, k)' = NameAt(q, k) /\ TimeAt(q, k)' = TimeAt(q, k)
      BY <1>1 DEF IdAt, NameAt, TimeAt
    <2>2. ASSUME NEW k \in DOMAIN tx[q].batch, Waiting(q, k) PROVE Waiting(q, k)'
      BY <1>1, <2>1, <2>2 DEF Waiting
    <2>3. ASSUME NEW k \in DOMAIN tx[q].batch, Upserted(q, k) PROVE Upserted(q, k)'
      BY <1>1, <1>3, <2>1, <2>3 DEF Upserted
    <2>4. ASSUME NEW i \in DOMAIN tx[q].put, i \in DOMAIN last' PROVE last'[i] <= tx[q].put[i]
      BY <1>2, <1>3, <1>7, <2>4 DEF Upserting, Locks
    <2>5. \A k, l \in tx'[q].order : NameAt(q, k)' = NameAt(q, l)' => k = l
      BY <1>1, <1>7, <2>1 DEF Upserting
    <2>6. ASSUME NEW k \in DOMAIN tx'[q].batch PROVE Waiting(q, k)' \/ Upserted(q, k)'
      BY <1>1, <1>7, <2>2, <2>3 DEF Upserting
    <2>7. \A i \in DOMAIN tx'[q].put : i \in DOMAIN last' => last'[i] <= tx'[q].put[i]
      BY <1>1, <2>4
    <2> QED
      BY <2>5, <2>6, <2>7 DEF Upserting
  <1>8. ASSUME pc[q] = "fill", Filling(q) PROVE Filling(q)'
    <2>1. ASSUME NEW r \in telegrams', r.id \notin torn' PROVE Covered(r)'
      <3>1. CASE r \in NewRows(p)
        BY <1>5, <2>1, <3>1
      <3>2. CASE r \in telegrams /\ reconciled
        BY <1>1, <1>5, <2>1, <3>2 DEF LastInv, LastValueNewest, Covered, Records, Tables
      <3>3. CASE ~reconciled
        <4>1. pc[p] = "reconcile commit"
          BY <3>3, CommitDoes DEF LastInv, RepairFirst, Repairing, Records
        <4> QED
          BY <1>5, <2>1, <4>1
      <3> QED
        BY <1>1, <3>1, <3>2, <3>3
    <2>2. ASSUME NEW i \in tx[q].dropped
          PROVE  i \in DOMAIN last' /\ (i \in torn' \/ \E r \in telegrams' : r.id = i /\ last'[i] < TimeOf[r.t])
      <3>1. i \in DOMAIN last /\ i \in DOMAIN last' /\ last'[i] = last[i]
        BY <1>2, <1>3, <1>8 DEF Filling, Locks
      <3>2. ASSUME NEW r \in telegrams, r.id = i PROVE r \in telegrams' \/ i \in torn'
        BY <1>1, <1>8, <3>2 DEF IdsOf
      <3> QED
        BY <1>1, <1>8, <3>1, <3>2 DEF Filling
    <2> QED
      BY <1>1, <2>1, <2>2 DEF Filling
  <1>9. ASSUME pc[q] = "reconcile commit", Filled(q) PROVE Filled(q)'
    <2>1. ASSUME NEW r \in telegrams'
          PROVE  \/ r.id \in torn'
                 \/ r.id \in DOMAIN tx[q].put /\ TimeOf[r.t] <= tx[q].put[r.id]
                 \/ r.id \notin DOMAIN tx[q].put \cup tx[q].dropped /\ Covered(r)'
      <3>1. CASE r \in NewRows(p)
        BY <1>2, <1>4, <1>5, <3>1 DEF Locks
      <3>2. CASE r \in telegrams
        BY <1>1, <1>5, <1>9, <3>2 DEF Filled
      <3> QED
        BY <1>1, <3>1, <3>2
    <2>2. \A i \in DOMAIN tx[q].put \ tx[q].dropped : i \notin DOMAIN last'
      BY <1>2, <1>3, <1>9 DEF Filled, Locks
    <2>3. ASSUME NEW i \in tx[q].dropped
          PROVE  i \in DOMAIN last' /\ (i \in torn' \/ (i \in DOMAIN tx[q].put /\ last'[i] <= tx[q].put[i]))
      BY <1>1, <1>2, <1>3, <1>9 DEF Filled, Locks
    <2> QED
      BY <1>1, <2>1, <2>2, <2>3 DEF Filled
  <1> QED
    BY <1>1, <1>2, <1>6, <1>7, <1>8, <1>9 DEF Pending

LEMMA CommitLast ==
  ASSUME LastInv, Records', NEW p \in Processes, CommitSteps(p)
  PROVE  LastInv'
  <1>1. /\ Apply(p) /\ pc'[p] \in {"publish", "idle"}
        /\ pc[p] \in {"commit", "clear commit", "reconcile commit"}
        /\ IF pc[p] = "reconcile commit" THEN reconciled' = TRUE ELSE UNCHANGED reconciled
    BY CommitDoes DEF LastInv, Records
  <1>2. telegrams' = (telegrams \ tx[p].gone) \cup NewRows(p) /\ torn \subseteq torn'
    BY <1>1 DEF Apply
  <1>3. reconciled \/ pc[p] = "reconcile commit"
    BY <1>1, WritesRepaired DEF Repairing
  <1>4. \A i \in DOMAIN last : last[i] \in Nat
    BY DEF LastInv, Records, Tables
  <1>5. ASSUME NEW r \in telegrams', r.id \notin torn' PROVE Covered(r)'
    <2>1. r \in telegrams /\ reconciled => r.id \in DOMAIN last /\ last[r.id] >= TimeOf[r.t]
      BY <1>2, <1>5 DEF LastInv, LastValueNewest
    <2>2. \A r1 \in telegrams : TimeOf[r1.t] \in Nat
      BY SqlAssumption DEF LastInv, Records, Tables
    <2>3. r \in telegrams /\ reconciled => Covered(r)
      BY <1>4, <2>1, <2>2 DEF Covered
    <2> QED
      BY <1>2, <1>3, <1>5, <2>3, CommitCovers
  <1>6. LastValueNewest'
    <2>1. /\ \A r \in telegrams' : TimeOf[r.t] \in Nat
          /\ \A i \in DOMAIN last' : last'[i] \in Nat
      BY SqlAssumption DEF Records, Tables
    <2> QED
      BY <1>5, <2>1 DEF LastValueNewest, Covered
  <1>7. RepairFirst'
    BY <1>1, <1>3 DEF RepairFirst
  <1>8. ASSUME NEW q \in Processes PROVE Pending(q)'
    BY <1>1, NothingPending, OthersPending
  <1> QED
    BY <1>6, <1>7, <1>8 DEF LastInv

LEMMA LastNext == LastInv /\ [Next]_vars => LastInv'
  <1> SUFFICES ASSUME LastInv, [Next]_vars PROVE LastInv'
    OBVIOUS
  <1>1. Records'
    BY RecordsNext DEF LastInv
  <1>2. ASSUME NEW p \in Processes, Statement(p) PROVE LastInv'
    <2>1. ASSUME NEW k \in tx[p].order, Upsert(p, k) PROVE LastInv'
      BY <1>1, <2>1, UpsertLast
    <2>2. CASE InsertTelegrams(p)
      BY <1>1, <2>2, InsertTelegramsLast
    <2>3. CASE ClearTelegrams(p) \/ ClearSnapshot(p) \/ ClearLast(p)
      BY <1>1, <2>3, ClearingLast
    <2>4. CASE DeleteStale(p)
      BY <1>1, <2>4, DeleteStaleLast
    <2>5. CASE Fill(p)
      BY <1>1, <2>5, FillLast
    <2>6. CASE Publish(p) \/ Count(p) \/ \E n \in Names : InsertName(p, n)
      BY <1>1, <2>6, OutsideLast
    <2>7. CASE CommitSteps(p)
      BY <1>1, <2>7, CommitLast
    <2> QED
      BY <1>2, <2>1, <2>2, <2>3, <2>4, <2>5, <2>6, <2>7 DEF Statement, CommitSteps
  <1>3. ASSUME NEW p \in Processes,
               Clear(p) \/ Warm(p) \/ Fail(p) \/ Crash(p) \/ \E batch \in Batches : Begin(p, batch)
        PROVE  LastInv'
    BY <1>1, <1>3, ClearingLast, OutsideLast
  <1>4. ASSUME NEW p \in Processes, NEW cutoff \in Cutoffs, EvictOlderThan(p, cutoff) PROVE LastInv'
    BY <1>1, <1>4, EvictLast
  <1>5. CASE Listen \/ Yield \/ StopListening \/ UNCHANGED vars
    <2>1. UNCHANGED <<telegrams, last, reconciled, pc, tx, torn>>
      BY <1>5 DEF Listen, Yield, StopListening, vars, tables
    <2>2. RepairFirst' /\ LastValueNewest'
      BY <2>1 DEF LastInv, RepairFirst, LastValueNewest
    <2>3. ASSUME NEW q \in Processes PROVE Pending(q)'
      <3>1. Pending(q)
        BY DEF LastInv
      <3>2. Upserting(q) => Upserting(q)'
        <4>1. tx' = tx /\ last' = last
          BY <2>1
        <4>2. \A k \in DOMAIN tx[q].batch : Waiting(q, k) => Waiting(q, k)'
          BY <4>1 DEF Waiting, IdAt, TimeAt, NameAt
        <4>3. \A k \in DOMAIN tx[q].batch : Upserted(q, k) => Upserted(q, k)'
          BY <4>1 DEF Upserted, IdAt, TimeAt, NameAt
        <4> QED
          BY <4>1, <4>2, <4>3 DEF Upserting, NameAt
      <3>3. (Clearing(q) => Clearing(q)') /\ (Filling(q) => Filling(q)') /\ (Filled(q) => Filled(q)')
        BY <2>1 DEF Clearing, Filling, Filled, Covered
      <3> QED
        BY <2>1, <3>1, <3>2, <3>3 DEF Pending
    <2> QED
      BY <1>1, <2>2, <2>3 DEF LastInv
  <1> QED
    BY <1>2, <1>3, <1>4, <1>5 DEF Next

\* After the repair no stored telegram is newer than the last value of its group address, whatever
\* processes write, clear, evict and start and however their statements interleave, save for a telegram
\* that was committed in the middle of a clear() (base_sql.py:416-449, 755).
THEOREM LastValuesNewest == Spec => []LastValueNewest
  <1>1. LastInv => LastValueNewest
    BY DEF LastInv
  <1> QED
    BY <1>1, LastInit, LastNext, PTL DEF Spec

\* A commit other than that of a clear() takes no last value away and makes none older.
LEMMA CommitSurvives ==
  ASSUME LastInv, NEW p \in Processes, CommitSteps(p), NEW i \in DOMAIN last
  PROVE  (i \in DOMAIN last' /\ last[i] <= last'[i]) \/ i \in torn' \/ pc[p] = "clear commit"
  <1>1. /\ Apply(p) /\ pc[p] \in {"commit", "clear commit", "reconcile commit"}
    BY CommitDoes DEF LastInv, Records
  <1>2. /\ DOMAIN last' = (DOMAIN last \ tx[p].dropped) \cup DOMAIN tx[p].put
        /\ \A j \in DOMAIN tx[p].put : last'[j] = tx[p].put[j]
        /\ \A j \in DOMAIN last' : j \notin DOMAIN tx[p].put => last'[j] = last[j]
    BY <1>1, ApplyLast
  <1>3. last[i] \in Nat /\ (\A j \in torn : j \in torn')
    BY <1>1 DEF LastInv, Records, Tables, Apply
  <1>4. last[i] <= last[i]
    BY <1>3, SameTime
  <1>5. CASE pc[p] = "commit"
    <2>1. tx[p].dropped = {} /\ (i \in DOMAIN tx[p].put => last[i] <= tx[p].put[i])
      BY <1>5, CommitHas DEF Upserting
    <2> QED
      BY <1>4, <1>2, <1>3, <2>1, Zenon
  <1>6. CASE pc[p] = "reconcile commit"
    <2>1. /\ i \in DOMAIN tx[p].put => i \in tx[p].dropped
          /\ i \in tx[p].dropped => i \in torn \/ (i \in DOMAIN tx[p].put /\ last[i] <= tx[p].put[i])
      BY <1>6, CommitHas DEF Filled
    <2> QED
      BY <1>4, <1>2, <1>3, <2>1, Zenon
  <1> QED
    BY <1>1, <1>5, <1>6

LEMMA LastKept ==
  ASSUME LastInv, [Next]_vars, UNCHANGED last \/ \E p \in Processes : CommitSteps(p), NEW i \in DOMAIN last
  PROVE  \/ i \in DOMAIN last' /\ last'[i] >= last[i]
         \/ i \in torn'
         \/ \E p \in Processes : pc[p] = "clear commit"
  <1>1. Records'
    BY RecordsNext DEF LastInv
  <1>2. last[i] \in Nat /\ (i \in DOMAIN last' => last'[i] \in Nat)
    BY <1>1 DEF LastInv, Records, Tables
  <1>3. CASE UNCHANGED last
    <2>1. i \in DOMAIN last' /\ last'[i] = last[i]
      BY <1>3
    <2> QED
      BY <1>2, <2>1, SameTime, Zenon
  <1>4. ASSUME NEW p \in Processes, CommitSteps(p), ~\E q \in Processes : pc[q] = "clear commit"
        PROVE  i \in torn' \/ (i \in DOMAIN last' /\ last[i] <= last'[i])
    BY <1>4, CommitSurvives
  <1> QED
    BY <1>2, <1>3, <1>4

\* No last value goes back in time or is lost, but to a clear() or an eviction in the middle of a repair:
\* not to telegrams that come late and not to a start that repairs (base_sql.py:444-448, 841-911).
THEOREM LastValuesSurvive == Spec => LastValueSurvives
  <1>1. ASSUME LastInv, [Next]_vars
        PROVE  [\A i \in DOMAIN last :
                  \/ i \in DOMAIN last' /\ last'[i] >= last[i]
                  \/ i \in torn'
                  \/ \E p \in Processes : pc[p] = "clear commit"]_vars
    <2>1. UNCHANGED last \/ \E p \in Processes : CommitSteps(p)
      <3>1. ASSUME NEW p \in Processes, Statement(p) PROVE UNCHANGED last \/ CommitSteps(p)
        <4>1. CASE CommitSteps(p)
          BY <4>1
        <4>2. ASSUME ~CommitSteps(p) PROVE UNCHANGED tables
          BY <3>1, <4>2 DEF CommitSteps, Statement, InsertName, InsertTelegrams, Upsert, Publish,
             ClearTelegrams, ClearSnapshot, ClearLast, Count, DeleteStale, Fill
        <4> QED
          BY <4>1, <4>2 DEF tables
      <3>2. ASSUME NEW p \in Processes,
                   \/ \E batch \in Batches : Begin(p, batch)
                   \/ Clear(p)
                   \/ \E cutoff \in Cutoffs : EvictOlderThan(p, cutoff)
                   \/ Warm(p) \/ Fail(p) \/ Crash(p)
            PROVE  UNCHANGED last
        BY <3>2 DEF Begin, Clear, EvictOlderThan, Warm, Fail, Crash, tables
      <3>3. Listen \/ Yield \/ StopListening \/ UNCHANGED vars => UNCHANGED last
        BY DEF Listen, Yield, StopListening, vars, tables
      <3> QED
        BY <1>1, <3>1, <3>2, <3>3 DEF Next
    <2> QED
      BY <1>1, <2>1, LastKept
  <1> QED
    BY <1>1, LastInit, LastNext, PTL DEF Spec, LastValueSurvives

-----------------------------------------------------------------------------
(* Notifications *)

BatchOf(p) == {tx[p].batch[k] : k \in DOMAIN tx[p].batch}

\* A telegram is committed once and by one transaction.
Unwritten ==
  \A p \in Processes : /\ BatchOf(p) \cap written = {}
                       /\ \A q \in Processes \ {p} : BatchOf(p) \cap BatchOf(q) = {}

\* What is heard are the telegrams of the batches d, oversized ones left out, each once and batch by batch.
Follows(heard, d) ==
  /\ \A k \in DOMAIN heard : heard[k] \notin Oversized /\ \E c \in DOMAIN d : heard[k] \in d[c]
  /\ \A c \in DOMAIN d : \A t \in d[c] \ Oversized : \E k \in DOMAIN heard : heard[k] = t
  /\ \A j, k \in DOMAIN heard : j < k =>
       /\ heard[j] # heard[k]
       /\ \A c, e \in DOMAIN d : heard[j] \in d[c] /\ heard[k] \in d[e] => c <= e
  /\ \A c, e \in DOMAIN d : c # e => d[c] \cap d[e] = {}

Announced ==
  /\ listening \in BOOLEAN
  /\ queue \in Seq(Telegrams) /\ got \in Seq(Telegrams) /\ due \in Seq(SUBSET Telegrams)
  /\ ~listening => queue = <<>> /\ got = <<>> /\ due = <<>>
  /\ \A c \in DOMAIN due : due[c] \subseteq written
  /\ Follows(got \o queue, due)

NotifyInv == Records /\ Unwritten /\ Announced

\* A sequence of a finite set has each of its members once.
LEMMA SentIs ==
  ASSUME NEW S, IsFiniteSet(S), NEW s \in SetToSeqs(S)
  PROVE  /\ s \in Seq(S) /\ \A x \in S : \E k \in DOMAIN s : s[k] = x
         /\ \A j, k \in DOMAIN s : j # k => s[j] # s[k]
  <1> DEFINE n == Cardinality(S)
             D == 1..n
  <1>1. n \in Nat /\ IsFiniteSet(D) /\ Cardinality(D) = n
    <2>1. n \in Nat
      BY FS_CardinalityType
    <2>2. 1 \in Int /\ n \in Int
      BY <2>1
    <2> HIDE DEF n
    <2>3. IsFiniteSet(D) /\ Cardinality(D) = IF 1 > n THEN 0 ELSE n - 1 + 1
      BY <2>2, FS_Interval
    <2> QED
      BY <2>1, <2>3
  <1>2. s \in [D -> S] /\ \A j, k \in D : j # k => s[j] # s[k]
    BY DEF SetToSeqs
  <1>3. s \in Seq(S) /\ DOMAIN s = D
    <2> HIDE DEF n
    <2> QED
      BY <1>1, <1>2
  <1>4. s \in Injection(D, S)
    <2> HIDE DEF n, D
    <2> QED
      BY <1>2 DEF Injection, IsInjective
  <1>5. s \in Surjection(D, S)
    <2> HIDE DEF D
    <2> QED
      BY <1>1, <1>4, FS_Injection
  <1>6. \A x \in S : \E k \in D : s[k] = x
    <2> HIDE DEF D
    <2> QED
      BY <1>5 DEF Surjection
  <1> QED
    BY <1>2, <1>3, <1>6

\* The notifications of one more batch come after all others.
LEMMA FollowsAppend ==
  ASSUME NEW h \in Seq(Telegrams), NEW d \in Seq(SUBSET Telegrams), NEW B \in SUBSET Telegrams,
         NEW s \in SetToSeqs(B \ Oversized), Follows(h, d), \A c \in DOMAIN d : d[c] \cap B = {}
  PROVE  Follows(h \o s, Append(d, B))
  <1> DEFINE a == h \o s
             e == Append(d, B)
             n == Len(h)
             m == Len(d)
  <1>1. IsFiniteSet(B \ Oversized) /\ B \ Oversized \subseteq Telegrams
    BY SqlAssumption, FS_Subset
  <1>2. /\ s \in Seq(Telegrams) /\ \A k \in DOMAIN s : s[k] \in B /\ s[k] \notin Oversized
        /\ \A x \in B \ Oversized : \E k \in DOMAIN s : s[k] = x
        /\ \A j, k \in DOMAIN s : j # k => s[j] # s[k]
    <2> DEFINE S == B \ Oversized
    <2>1. s \in SetToSeqs(S) /\ IsFiniteSet(S) /\ S \subseteq Telegrams
      BY <1>1
    <2>2. \A x \in S : x \in B /\ x \notin Oversized
      OBVIOUS
    <2> HIDE DEF S
    <2>3. /\ s \in Seq(S) /\ \A x \in S : \E k \in DOMAIN s : s[k] = x
          /\ \A j, k \in DOMAIN s : j # k => s[j] # s[k]
      BY <2>1, SentIs
    <2>4. s \in Seq(Telegrams) /\ \A k \in DOMAIN s : s[k] \in S
      BY <2>1, <2>3
    <2> QED
      BY <2>2, <2>3, <2>4 DEF S
  <1>3. /\ n \in Nat /\ Len(s) \in Nat /\ DOMAIN h = 1..n /\ DOMAIN s = 1..Len(s) /\ DOMAIN a = 1..n + Len(s)
        /\ \A k \in DOMAIN h : k \in DOMAIN a /\ a[k] = h[k]
        /\ \A k \in DOMAIN s : n + k \in DOMAIN a /\ a[n + k] = s[k]
    BY <1>2
  <1>4. /\ m \in Nat /\ DOMAIN d = 1..m /\ DOMAIN e = 1..m + 1
        /\ \A c \in DOMAIN d : e[c] = d[c]
        /\ e[m + 1] = B
    OBVIOUS
  <1>5. \A k \in DOMAIN a : k \in DOMAIN h \/ (k \in Int /\ k - n \in DOMAIN s /\ a[k] = s[k - n])
    <2> SUFFICES ASSUME NEW k \in DOMAIN a, k \notin DOMAIN h PROVE k \in Int /\ k - n \in DOMAIN s /\ a[k] = s[k - n]
      OBVIOUS
    <2> HIDE DEF a, n
    <2>1. k \in Int /\ k - n \in DOMAIN s /\ n + (k - n) = k
      BY <1>3
    <2> QED
      BY <1>3, <2>1
  <1>6. \A c \in DOMAIN e : c \in DOMAIN d \/ c = m + 1
    BY <1>4
  <1> HIDE DEF a, e, n, m
  <1>7. \A c \in DOMAIN e : e[c] = IF c = m + 1 THEN B ELSE d[c]
    BY <1>4, <1>6
  <1>8. ASSUME NEW k \in DOMAIN a PROVE a[k] \notin Oversized /\ \E c \in DOMAIN e : a[k] \in e[c]
    <2>1. CASE k \in DOMAIN h
      BY <1>3, <1>4, <2>1 DEF Follows
    <2>2. CASE k - n \in DOMAIN s /\ a[k] = s[k - n]
      <3>1. m + 1 \in DOMAIN e
        BY <1>4
      <3> QED
        BY <1>2, <1>4, <2>2, <3>1
    <2> QED
      BY <1>5, <2>1, <2>2
  <1>9. ASSUME NEW c \in DOMAIN e, NEW t \in e[c] \ Oversized PROVE \E k \in DOMAIN a : a[k] = t
    <2>1. CASE c \in DOMAIN d
      BY <1>3, <1>4, <1>9, <2>1 DEF Follows
    <2>2. CASE c = m + 1
      <3>1. PICK k \in DOMAIN s : s[k] = t
        BY <1>2, <1>4, <1>9, <2>2
      <3> QED
        BY <1>3, <3>1
    <2> QED
      BY <1>6, <2>1, <2>2
  <1>10. \A c, f \in DOMAIN e : c # f => e[c] \cap e[f] = {}
    <2> SUFFICES ASSUME NEW c \in DOMAIN e, NEW f \in DOMAIN e, c # f PROVE e[c] \cap e[f] = {}
      OBVIOUS
    <2>1. CASE c \in DOMAIN d /\ f \in DOMAIN d
      BY <1>4, <2>1 DEF Follows
    <2>2. CASE c = m + 1 \/ f = m + 1
      BY <1>4, <1>6, <2>2
    <2> QED
      BY <1>6, <2>1, <2>2
  <1>11. ASSUME NEW j \in DOMAIN a, NEW k \in DOMAIN a, j < k
         PROVE  a[j] # a[k] /\ \A c, f \in DOMAIN e : a[j] \in e[c] /\ a[k] \in e[f] => c <= f
    <2>1. CASE k \in DOMAIN h
      <3>1. j \in DOMAIN h
        BY <1>3, <1>11, <2>1
      <3>2. a[j] = h[j] /\ a[k] = h[k] /\ h[j] # h[k] /\ h[j] \notin B /\ h[k] \notin B
            /\ \A c, f \in DOMAIN d : h[j] \in d[c] /\ h[k] \in d[f] => c <= f
        <4>1. h[j] \notin B /\ h[k] \notin B
          BY <2>1, <3>1 DEF Follows
        <4>2. h[j] # h[k] /\ \A c, f \in DOMAIN d : h[j] \in d[c] /\ h[k] \in d[f] => c <= f
          BY <1>11, <2>1, <3>1 DEF Follows
        <4> QED
          BY <1>3, <2>1, <3>1, <4>1, <4>2
      <3> QED
        BY <1>4, <1>6, <3>2
    <2>2. CASE k - n \in DOMAIN s /\ k \in Int /\ a[k] = s[k - n]
      <3>1. a[k] \in B
        BY <1>2, <2>2
      <3>2. \A f \in DOMAIN e : a[k] \in e[f] => f = m + 1
        BY <1>4, <1>6, <3>1
      <3>3. \A c \in DOMAIN e : c <= m + 1
        BY <1>4
      <3>4. a[j] # a[k]
        <4>1. CASE j \in DOMAIN h
          <5>1. h[j] \notin B
            BY <4>1 DEF Follows
          <5> QED
            BY <1>3, <3>1, <4>1, <5>1
        <4>2. CASE j - n \in DOMAIN s /\ j \in Int /\ a[j] = s[j - n]
          <5>1. j - n # k - n
            BY <1>3, <1>11, <2>2, <4>2
          <5> QED
            BY <1>2, <2>2, <4>2, <5>1
        <4> QED
          BY <1>5, <4>1, <4>2
      <3> QED
        BY <3>2, <3>3, <3>4
    <2> QED
      BY <1>5, <2>1, <2>2
  <1>12. Follows(a, e)
    BY <1>8, <1>9, <1>10, <1>11 DEF Follows
  <1> QED
    BY <1>12 DEF a, e

LEMMA NotifyInit == Init => NotifyInv
  <1> SUFFICES ASSUME Init PROVE NotifyInv
    OBVIOUS
  <1>1. Records
    BY RecordsInit
  <1>2. Unwritten
    <2>1. \A p \in Processes : tx[p] = Idle
      BY DEF Init
    <2>2. \A p \in Processes : BatchOf(p) = {}
      BY <2>1, IdleIs DEF BatchOf
    <2> QED
      BY <2>2 DEF Unwritten
  <1>3. listening = FALSE /\ queue = <<>> /\ got = <<>> /\ due = <<>>
    BY DEF Init
  <1>4. Announced
    <2>1. got \o queue = <<>> /\ queue \in Seq(Telegrams) /\ got \in Seq(Telegrams) /\ due \in Seq(SUBSET Telegrams)
      BY <1>3
    <2>2. DOMAIN due = {} /\ DOMAIN (got \o queue) = {}
      BY <1>3, <2>1
    <2>3. Follows(got \o queue, due)
      BY <2>2 DEF Follows
    <2> QED
      BY <1>3, <2>1, <2>2, <2>3 DEF Announced
  <1> QED
    BY <1>1, <1>2, <1>4 DEF NotifyInv

LEMMA AnnouncedSame ==
  ASSUME Announced, UNCHANGED <<listener, written>>
  PROVE  Announced'
  BY DEF Announced, Follows, listener

\* Statements that write nothing give no process a batch, or one that is not written and nobody else's.
LEMMA AloneNotify ==
  ASSUME NotifyInv, Records', NEW p \in Processes, Alone(p),
         BatchOf(p)' \subseteq BatchOf(p) \/
           (BatchOf(p)' \cap written = {} /\ \A q \in Processes \ {p} : BatchOf(p)' \cap BatchOf(q) = {})
  PROVE  NotifyInv'
  <1>1. Announced'
    BY AnnouncedSame DEF NotifyInv, Alone
  <1>2. UNCHANGED written /\ \A q \in Processes \ {p} : BatchOf(q)' = BatchOf(q)
    BY DEF Alone, BatchOf
  <1>3. BatchOf(p)' \cap written' = {} /\ \A q \in Processes \ {p} : BatchOf(p)' \cap BatchOf(q)' = {}
    BY <1>2 DEF NotifyInv, Unwritten
  <1>4. ASSUME NEW q \in Processes \ {p}
        PROVE  BatchOf(q)' \cap written' = {} /\ \A r \in Processes \ {q} : BatchOf(q)' \cap BatchOf(r)' = {}
    BY <1>2, <1>3 DEF NotifyInv, Unwritten
  <1> QED
    BY <1>1, <1>3, <1>4 DEF NotifyInv, Unwritten

LEMMA SameBatch ==
  ASSUME NEW p \in Processes, tx'[p].batch = tx[p].batch \/ DOMAIN tx'[p].batch = {}
  PROVE  BatchOf(p)' \subseteq BatchOf(p)
  BY DEF BatchOf

LEMMA StatementNotify ==
  ASSUME NotifyInv, Records', NEW p \in Processes, Statement(p), ~CommitSteps(p)
  PROVE  NotifyInv'
  <1> USE DEF NotifyInv, Records
  <1>2. ASSUME NEW n \in Names, InsertName(p, n) PROVE NotifyInv'
    <2>1. Alone(p) /\ KeepsBut(p, {"todo", "made"})
      BY <1>2, InsertNameDoes
    <2>2. tx'[p].batch = tx[p].batch
      BY <2>1 DEF KeepsBut, Fields
    <2> QED
      BY <2>1, <2>2, SameBatch, AloneNotify
  <1>3. ASSUME NEW k \in tx[p].order, Upsert(p, k) PROVE NotifyInv'
    <2>1. Alone(p) /\ KeepsBut(p, {"order", "put", "held"})
      BY <1>3, UpsertDoes
    <2>2. tx'[p].batch = tx[p].batch
      BY <2>1 DEF KeepsBut, Fields
    <2> QED
      BY <2>1, <2>2, SameBatch, AloneNotify
  <1>4. CASE InsertTelegrams(p)
    <2>1. Alone(p) /\ KeepsBut(p, {"ids", "order"})
      BY <1>4, InsertTelegramsDoes
    <2>2. tx'[p].batch = tx[p].batch
      BY <2>1 DEF KeepsBut, Fields
    <2> QED
      BY <2>1, <2>2, SameBatch, AloneNotify
  <1>5. CASE ClearTelegrams(p)
    <2>1. Alone(p) /\ KeepsBut(p, {"rows", "gone"})
      BY <1>5, ClearTelegramsDoes
    <2>2. tx'[p].batch = tx[p].batch
      BY <2>1 DEF KeepsBut, Fields
    <2> QED
      BY <2>1, <2>2, SameBatch, AloneNotify
  <1>6. CASE ClearSnapshot(p)
    <2>1. Alone(p) /\ KeepsBut(p, {"scope"})
      BY <1>6, ClearSnapshotDoes
    <2>2. tx'[p].batch = tx[p].batch
      BY <2>1 DEF KeepsBut, Fields
    <2> QED
      BY <2>1, <2>2, SameBatch, AloneNotify
  <1>7. CASE ClearLast(p)
    <2>1. Alone(p) /\ KeepsBut(p, {"scope", "dropped", "held"})
      BY <1>7, ClearLastDoes
    <2>2. tx'[p].batch = tx[p].batch
      BY <2>1 DEF KeepsBut, Fields
    <2> QED
      BY <2>1, <2>2, SameBatch, AloneNotify
  <1>8. CASE DeleteStale(p)
    <2>1. Alone(p) /\ KeepsBut(p, {"dropped", "held"})
      BY <1>8, DeleteStaleDoes
    <2>2. tx'[p].batch = tx[p].batch
      BY <2>1 DEF KeepsBut, Fields
    <2> QED
      BY <2>1, <2>2, SameBatch, AloneNotify
  <1>9. CASE Fill(p)
    <2>1. Alone(p) /\ KeepsBut(p, {"put", "held"})
      BY <1>9, FillDoes
    <2>2. tx'[p].batch = tx[p].batch
      BY <2>1 DEF KeepsBut, Fields
    <2> QED
      BY <2>1, <2>2, SameBatch, AloneNotify
  <1>10. CASE Count(p)
    BY <1>10, StartDoes, SameBatch, AloneNotify
  <1>11. CASE Publish(p)
    BY <1>11, EndDoes, IdleIs, SameBatch, AloneNotify
  <1> QED
    BY <1>2, <1>3, <1>4, <1>5, <1>6, <1>7, <1>8, <1>9, <1>10, <1>11 DEF Statement, CommitSteps

LEMMA OutsideNotify ==
  ASSUME NotifyInv, Records', NEW p \in Processes,
         \/ \E batch \in Batches : Begin(p, batch)
         \/ Clear(p) \/ Warm(p) \/ Fail(p) \/ Crash(p)
         \/ \E cutoff \in Cutoffs : EvictOlderThan(p, cutoff)
  PROVE  NotifyInv'
  <1> USE DEF NotifyInv, Records
  <1>1. ASSUME NEW batch \in Batches, Begin(p, batch) PROVE NotifyInv'
    <2>1. Alone(p) /\ tx'[p].batch = batch
      BY <1>1, BeginDoes
    <2>2. \A k \in DOMAIN batch : /\ batch[k] \notin written
                                  /\ \A q \in Processes : \A j \in DOMAIN tx[q].batch : tx[q].batch[j] # batch[k]
      BY <1>1 DEF Begin
    <2>3. BatchOf(p)' \cap written = {} /\ \A q \in Processes \ {p} : BatchOf(p)' \cap BatchOf(q) = {}
      BY <2>1, <2>2 DEF BatchOf
    <2> QED
      BY <2>1, <2>3, AloneNotify
  <1>2. CASE Clear(p)
    <2>1. Alone(p) /\ IdleBut(p, {"rows"})
      BY <1>2, ClearDoes
    <2>2. DOMAIN tx'[p].batch = {}
      BY <2>1, IdleIs DEF IdleBut, Fields
    <2> QED
      BY <2>1, <2>2, SameBatch, AloneNotify
  <1>3. CASE Warm(p)
    BY <1>3, StartDoes, SameBatch, AloneNotify
  <1>4. CASE Fail(p) \/ Crash(p)
    BY <1>4, EndDoes, IdleIs, SameBatch, AloneNotify
  <1>5. ASSUME NEW cutoff \in Cutoffs, EvictOlderThan(p, cutoff) PROVE NotifyInv'
    <2>1. UNCHANGED <<tx, listener, written>>
      BY <1>5 DEF EvictOlderThan
    <2>2. Unwritten'
      BY <2>1 DEF Unwritten, BatchOf
    <2> QED
      BY <2>1, <2>2, AnnouncedSame
  <1> QED
    BY <1>1, <1>2, <1>3, <1>4, <1>5

\* What the trigger sends for a commit are the telegrams of the batch: the id of every new row has a name.
LEMMA SentAre ==
  ASSUME Records, NEW p \in Processes, pc[p] \notin {"names", "insert"}
  PROVE  /\ {r.t : r \in NewRows(p)} = BatchOf(p) /\ BatchOf(p) \subseteq Telegrams
         /\ Sent(p) = SetToSeqs(BatchOf(p) \ Oversized)
  <1> DEFINE named == Over(lookup, tx[p].made)
             sent == {r.t : r \in {s \in NewRows(p) : s.t \notin Oversized /\ \E n \in DOMAIN named : named[n] = s.id}}
  <1>1. ASSUME NEW r \in NewRows(p)
        PROVE  r.t \in BatchOf(p) /\ \E n \in DOMAIN named : named[n] = r.id
    <2>1. PICK k \in DOMAIN tx[p].batch : r.t = tx[p].batch[k] /\ r.id = IdAt(p, k)
      BY NewRowsAre
    <2>2. KnownAs(p, NameOf[tx[p].batch[k]], IdAt(p, k))
      BY BatchKnown
    <2>3. DOMAIN lookup \cap DOMAIN tx[p].made = {}
      BY DEF Records, Inv, Apart
    <2>4. \E n \in DOMAIN named : named[n] = IdAt(p, k)
      BY <2>2, <2>3 DEF KnownAs, Over
    <2> QED
      BY <2>1, <2>4 DEF BatchOf
  <1>2. ASSUME NEW t \in BatchOf(p) PROVE t \in Telegrams /\ \E r \in NewRows(p) : r.t = t
    <2>1. PICK k \in DOMAIN tx[p].batch : t = tx[p].batch[k]
      BY DEF BatchOf
    <2>2. [t |-> tx[p].batch[k], id |-> tx[p].ids[NameOf[tx[p].batch[k]]]] \in NewRows(p)
      BY DEF NewRows
    <2> QED
      BY <2>1, <2>2, BatchKnown
  <1>3. sent = BatchOf(p) \ Oversized
    <2> HIDE DEF named
    <2> QED
      BY <1>1, <1>2
  <1>4. Sent(p) = SetToSeqs(sent)
    BY DEF Sent
  <1> HIDE DEF sent
  <1> QED
    BY <1>1, <1>2, <1>3, <1>4

\* (The brackets in the order in which they are needed.)
LEMMA Associative ==
  ASSUME NEW S, NEW s \in Seq(S), NEW t \in Seq(S), NEW u \in Seq(S)
  PROVE  s \o (t \o u) = (s \o t) \o u
  BY ConcatAssociative

\* A commit adds its batch to what is due, and the notifications to what will be heard.
LEMMA CommitAnnounced ==
  ASSUME NotifyInv, NEW p \in Processes, pc[p] \notin {"names", "insert"}, Apply(p)
  PROVE  Announced'
  <1>1. /\ {r.t : r \in NewRows(p)} = BatchOf(p) /\ BatchOf(p) \subseteq Telegrams
        /\ Sent(p) = SetToSeqs(BatchOf(p) \ Oversized)
    BY SentAre DEF NotifyInv
  <1>2. /\ UNCHANGED <<listening, got>>
        /\ written' = written \cup BatchOf(p)
        /\ IF listening
           THEN /\ \E sent \in Sent(p) : queue' = queue \o sent
                /\ due' = IF tx[p].batch = <<>> THEN due ELSE Append(due, BatchOf(p))
           ELSE UNCHANGED <<queue, due>>
    BY <1>1 DEF Apply
  <1>3. /\ listening \in BOOLEAN
        /\ queue \in Seq(Telegrams) /\ got \in Seq(Telegrams) /\ due \in Seq(SUBSET Telegrams)
        /\ ~listening => queue = <<>> /\ got = <<>> /\ due = <<>>
        /\ \A c \in DOMAIN due : due[c] \subseteq written
        /\ Follows(got \o queue, due)
    BY DEF NotifyInv, Announced
  <1>4. CASE ~listening
    <2>1. UNCHANGED <<listening, got, queue, due>> /\ written \subseteq written'
      BY <1>2, <1>4
    <2>2. Follows(got \o queue, due)'
      BY <1>3, <2>1 DEF Follows
    <2> QED
      BY <1>3, <2>1, <2>2 DEF Announced
  <1>5. CASE listening
    <2>1. PICK sent \in SetToSeqs(BatchOf(p) \ Oversized) : queue' = queue \o sent
      BY <1>1, <1>2, <1>5
    <2>2. IsFiniteSet(BatchOf(p) \ Oversized) /\ BatchOf(p) \ Oversized \subseteq Telegrams
      BY <1>1, SqlAssumption, FS_Subset
    <2>3. sent \in Seq(BatchOf(p) \ Oversized)
      BY <2>2, SentIs
    <2>4. sent \in Seq(Telegrams)
      BY <2>2, <2>3
    <2>5. got' \o queue' = (got \o queue) \o sent /\ queue' \in Seq(Telegrams) /\ got \o queue \in Seq(Telegrams)
      <3>1. got \o (queue \o sent) = (got \o queue) \o sent
        <4>1. got \in Seq(Telegrams)
          BY <1>3
        <4>2. queue \in Seq(Telegrams)
          BY <1>3
        <4> QED
          BY <2>4, <4>1, <4>2, Associative
      <3> QED
        <4>1. queue \o sent \in Seq(Telegrams) /\ got \o queue \in Seq(Telegrams)
          BY <1>3, <2>4
        <4>2. got' \o queue' = got \o (queue \o sent)
          BY <1>2, <2>1
        <4> QED
          BY <2>1, <3>1, <4>1, <4>2
    <2>6. CASE tx[p].batch = <<>>
      <3>1. BatchOf(p) = {}
        BY <2>6 DEF BatchOf
      <3>2. sent = <<>>
        <4>1. sent \in Seq({})
          BY <2>3, <3>1
        <4> QED
          BY <4>1
      <3>3. got' \o queue' = got \o queue /\ due' = due
        <4>1. (got \o queue) \o <<>> = got \o queue
          BY <2>5, ConcatEmptySeq
        <4> QED
          BY <1>2, <1>5, <2>5, <2>6, <3>2, <4>1
      <3>4. Follows(got \o queue, due)'
        BY <1>3, <3>3 DEF Follows
      <3> QED
        BY <1>2, <1>3, <1>5, <2>5, <3>3, <3>4 DEF Announced
    <2>7. CASE tx[p].batch # <<>>
      <3>1. due' = Append(due, BatchOf(p))
        BY <1>2, <1>5, <2>7
      <3>2. \A c \in DOMAIN due : due[c] \cap BatchOf(p) = {}
        BY <1>3 DEF NotifyInv, Unwritten
      <3>3. Follows((got \o queue) \o sent, Append(due, BatchOf(p)))
        BY <1>1, <1>3, <2>5, <3>2, FollowsAppend
      <3>4. /\ due' \in Seq(SUBSET Telegrams)
            /\ \A c \in DOMAIN due' : (c \in DOMAIN due /\ due'[c] = due[c]) \/ due'[c] = BatchOf(p)
        BY <1>1, <1>3, <3>1
      <3>5. \A c \in DOMAIN due' : due'[c] \subseteq written'
        BY <1>2, <1>3, <3>4
      <3>6. Follows(got \o queue, due)'
        BY <2>5, <3>1, <3>3 DEF Follows
      <3> QED
        BY <1>2, <1>3, <1>5, <2>5, <3>4, <3>5, <3>6 DEF Announced
    <2> QED
      BY <2>6, <2>7
  <1> QED
    BY <1>3, <1>4, <1>5

LEMMA CommitNotify ==
  ASSUME NotifyInv, Records', NEW p \in Processes, CommitSteps(p)
  PROVE  NotifyInv'
  <1>1. /\ Apply(p) /\ IdleBut(p, {"ids"}) /\ pc[p] \in {"commit", "clear commit", "reconcile commit"}
        /\ \A q \in Processes \ {p} : tx'[q] = tx[q]
    BY CommitDoes DEF NotifyInv, Records
  <1>2. Announced'
    BY <1>1, CommitAnnounced
  <1>3. written' = written \cup BatchOf(p)
    BY <1>1, SentAre DEF Apply, NotifyInv
  <1>4. BatchOf(p)' = {}
    <2>1. DOMAIN tx'[p].batch = {}
      BY <1>1, IdleIs DEF IdleBut, Fields
    <2> QED
      BY <2>1 DEF BatchOf
  <1>5. \A q \in Processes \ {p} : BatchOf(q)' = BatchOf(q)
    BY <1>1 DEF BatchOf
  <1>6. Unwritten'
    BY <1>3, <1>4, <1>5 DEF NotifyInv, Unwritten
  <1> QED
    BY <1>2, <1>6 DEF NotifyInv

\* A yield hands over the front of the queue: what has been heard altogether is the same.
LEMMA YieldHears ==
  ASSUME NEW S, NEW g \in Seq(S), NEW q \in Seq(S), q # <<>>
  PROVE  /\ Append(g, Head(q)) \in Seq(S) /\ Tail(q) \in Seq(S)
         /\ Append(g, Head(q)) \o Tail(q) = g \o q
  <1>1. Len(q) \in Nat \ {0} /\ Head(q) = q[1] /\ Head(q) \in S
    BY EmptySeq
  <1>2. Tail(q) \in Seq(S) /\ <<Head(q)>> \in Seq(S)
    BY <1>1
  <1>3. q = <<Head(q)>> \o Tail(q)
    <2>1. 1 \in 1..Len(q) /\ Len(q) \in 1..Len(q)
      BY <1>1
    <2>2. SubSeq(q, 1, Len(q)) = <<q[1]>> \o SubSeq(q, 1 + 1, Len(q))
      BY <2>1, SubSeqRecursiveFirst
    <2>3. SubSeq(q, 1, Len(q)) = q /\ Tail(q) = SubSeq(q, 2, Len(q)) /\ 1 + 1 = 2
      BY SubSeqFull, TailIsSubSeq
    <2> QED
      BY <1>1, <2>2, <2>3
  <1>4. Append(g, Head(q)) = g \o <<Head(q)>> /\ Append(g, Head(q)) \in Seq(S)
    BY <1>1, AppendIsConcat
  <1> DEFINE front == <<Head(q)>>
             rest == Tail(q)
  <1>5. g \o (front \o rest) = (g \o front) \o rest
    <2>1. front \in Seq(S) /\ rest \in Seq(S)
      BY <1>2
    <2> HIDE DEF front, rest
    <2> QED
      BY <2>1, Associative
  <1> QED
    BY <1>2, <1>3, <1>4, <1>5

LEMMA ListenerNotify ==
  ASSUME NotifyInv, Records', Listen \/ Yield \/ StopListening \/ UNCHANGED vars
  PROVE  NotifyInv'
  <1>1. UNCHANGED <<tx, written>>
    BY DEF Listen, Yield, StopListening, vars
  <1>2. Unwritten'
    BY <1>1 DEF NotifyInv, Unwritten, BatchOf
  <1>3. /\ listening \in BOOLEAN
        /\ queue \in Seq(Telegrams) /\ got \in Seq(Telegrams) /\ due \in Seq(SUBSET Telegrams)
        /\ ~listening => queue = <<>> /\ got = <<>> /\ due = <<>>
        /\ \A c \in DOMAIN due : due[c] \subseteq written
        /\ Follows(got \o queue, due)
    BY DEF NotifyInv, Announced
  <1>4. CASE Listen
    <2>1. listening' = TRUE /\ UNCHANGED <<queue, got, due, written>>
      BY <1>4 DEF Listen
    <2>2. Follows(got \o queue, due)'
      BY <1>3, <2>1 DEF Follows
    <2>3. Announced'
      BY <1>3, <2>1, <2>2 DEF Announced
    <2> QED
      BY <1>2, <2>3 DEF NotifyInv
  <1>5. CASE Yield
    <2>1. /\ queue # <<>> /\ got' = Append(got, Head(queue)) /\ queue' = Tail(queue)
          /\ UNCHANGED <<listening, due, written>>
      BY <1>5 DEF Yield
    <2>2. queue' \in Seq(Telegrams) /\ got' \in Seq(Telegrams) /\ got' \o queue' = got \o queue
      <3>1. queue \in Seq(Telegrams) /\ got \in Seq(Telegrams)
        BY <1>3
      <3>2. /\ Append(got, Head(queue)) \in Seq(Telegrams) /\ Tail(queue) \in Seq(Telegrams)
            /\ Append(got, Head(queue)) \o Tail(queue) = got \o queue
        BY <2>1, <3>1, YieldHears
      <3> QED
        BY <2>1, <3>2
    <2>3. Follows(got \o queue, due)'
      <3>1. due' = due /\ got' \o queue' = got \o queue /\ Follows(got \o queue, due)
        BY <1>3, <2>1, <2>2
      <3> QED
        BY <3>1 DEF Follows
    <2>4. Announced'
      BY <1>3, <2>1, <2>2, <2>3 DEF Announced
    <2> QED
      BY <1>2, <2>4 DEF NotifyInv
  <1>6. CASE StopListening
    <2>1. listening' = FALSE /\ queue' = <<>> /\ got' = <<>> /\ due' = <<>>
      BY <1>6 DEF StopListening
    <2>2. /\ got' \o queue' = <<>> /\ queue' \in Seq(Telegrams) /\ got' \in Seq(Telegrams)
          /\ due' \in Seq(SUBSET Telegrams)
      BY <2>1
    <2>3. DOMAIN due' = {} /\ DOMAIN (got' \o queue') = {}
      BY <2>1, <2>2
    <2>4. Follows(got \o queue, due)'
      BY <2>3 DEF Follows
    <2>5. Announced'
      BY <2>1, <2>2, <2>3, <2>4 DEF Announced
    <2> QED
      BY <1>2, <2>5 DEF NotifyInv
  <1>7. CASE UNCHANGED vars
    <2>1. UNCHANGED <<listener, written>>
      BY <1>7 DEF vars
    <2> QED
      BY <1>2, <2>1, AnnouncedSame DEF NotifyInv
  <1> QED
    BY <1>4, <1>5, <1>6, <1>7

LEMMA NotifyNext == NotifyInv /\ [Next]_vars => NotifyInv'
  <1> SUFFICES ASSUME NotifyInv, [Next]_vars PROVE NotifyInv'
    OBVIOUS
  <1>1. Records'
    BY RecordsNext DEF NotifyInv
  <1>2. ASSUME NEW p \in Processes, Statement(p) PROVE NotifyInv'
    BY <1>1, <1>2, StatementNotify, CommitNotify
  <1>3. ASSUME NEW p \in Processes,
               \/ \E batch \in Batches : Begin(p, batch)
               \/ Clear(p) \/ Warm(p) \/ Fail(p) \/ Crash(p)
               \/ \E cutoff \in Cutoffs : EvictOlderThan(p, cutoff)
        PROVE  NotifyInv'
    BY <1>1, <1>3, OutsideNotify
  <1>4. CASE Listen \/ Yield \/ StopListening \/ UNCHANGED vars
    BY <1>1, <1>4, ListenerNotify
  <1> QED
    BY <1>2, <1>3, <1>4 DEF Next

\* A listener hears every telegram that is committed while it listens once, whatever processes and
\* transactions it comes from, none that is rolled back, and the batches in the order of their commits;
\* telegrams with an oversized notification are left out (postgres.py:335-346, 399-423).
THEOREM NotifiedExactlyOnce == Spec => []NotifiedOnce
  <1>1. NotifyInv => NotifiedOnce
    <2> SUFFICES ASSUME NotifyInv PROVE NotifiedOnce
      OBVIOUS
    <2> DEFINE heard == got \o queue
               CommitOf(t) == CHOOSE c \in DOMAIN due : t \in due[c]
    <2>1. Follows(heard, due)
      BY DEF NotifyInv, Announced
    <2> HIDE DEF heard
    <2>2. {heard[k] : k \in DOMAIN heard} = (UNION {due[c] : c \in DOMAIN due}) \ Oversized
      <3> DEFINE committed == UNION {due[c] : c \in DOMAIN due}
                 all == {heard[k] : k \in DOMAIN heard}
      <3>1. \A t : t \in committed <=> \E c \in DOMAIN due : t \in due[c]
        OBVIOUS
      <3>2. \A t : t \in all <=> \E k \in DOMAIN heard : heard[k] = t
        BY Zenon
      <3> HIDE DEF committed, all
      <3>3. \A k \in DOMAIN heard : heard[k] \in committed /\ heard[k] \notin Oversized
        BY <2>1, <3>1 DEF Follows
      <3>4. \A t \in committed : t \notin Oversized => \E k \in DOMAIN heard : heard[k] = t
        BY <2>1, <3>1 DEF Follows
      <3>5. \A t : t \in all <=> t \in committed \ Oversized
        BY <3>2, <3>3, <3>4
      <3>6. all = committed \ Oversized
        BY <3>5
      <3> QED
        BY <3>6 DEF committed, all
    <2>3. ASSUME NEW k \in DOMAIN heard
          PROVE  CommitOf(heard[k]) \in DOMAIN due /\ heard[k] \in due[CommitOf(heard[k])]
      BY <2>1 DEF Follows
    <2> HIDE DEF CommitOf
    <2>4. ASSUME NEW j \in DOMAIN heard, NEW k \in DOMAIN heard, j < k
          PROVE  heard[j] # heard[k] /\ CommitOf(heard[j]) <= CommitOf(heard[k])
      BY <2>1, <2>3, <2>4 DEF Follows
    <2> QED
      BY <2>2, <2>4 DEF NotifiedOnce, heard, CommitOf
  <1> QED
    BY <1>1, NotifyInit, NotifyNext, PTL DEF Spec

\* The tables, caches, transactions and queues hold what they are made for, a process that is not in a
\* transaction has nothing pending, and no two transactions hold the lock of one last value
\* (base_sql.py:373-451, 750-756, 828-918).
THEOREM TypesHold == Spec => []TypeOK
  <1>1. NotifyInv => TypeOK
    <2> SUFFICES ASSUME NotifyInv PROVE TypeOK
      OBVIOUS
    <2>1. Tables /\ CacheCommitted /\ \A p \in Processes : Phase(p) /\ Locks(p)
      BY DEF NotifyInv, Records, Inv, Transaction
    <2>2. /\ DOMAIN lookup \subseteq Names /\ \A n \in DOMAIN lookup : lookup[n] \in Ids
          /\ telegrams \subseteq [t : Telegrams, id : Ids]
          /\ DOMAIN last \subseteq Ids /\ \A i \in DOMAIN last : last[i] \in Nat
          /\ reconciled \in BOOLEAN
      BY <2>1 DEF Tables
    <2>3. /\ listening \in BOOLEAN
          /\ queue \in Seq(Telegrams) /\ got \in Seq(Telegrams) /\ due \in Seq(SUBSET Telegrams)
      BY DEF NotifyInv, Announced
    <2>4. ASSUME NEW p \in Processes
          PROVE  /\ pc[p] \in Tx \cup {"down", "count", "stale", "idle", "publish"}
                 /\ pc[p] \in {"down", "count", "stale", "idle"} => tx[p] = Idle
      BY <2>1 DEF Phase
    <2>5. ASSUME NEW p \in Processes, NEW n \in DOMAIN cache[p] PROVE cache[p][n] \in Ids
      BY <2>1, <2>2 DEF CacheCommitted
    <2>6. ASSUME NEW p \in Processes, NEW q \in Processes, p # q PROVE tx[p].held \cap tx[q].held = {}
      BY <2>1, <2>6 DEF Locks
    <2> QED
      BY <2>2, <2>3, <2>4, <2>5, <2>6 DEF TypeOK
  <1> QED
    BY <1>1, NotifyInit, NotifyNext, PTL DEF Spec
=============================================================================
