--------------------------------- MODULE Paging ---------------------------------
(***************************************************************************)
(* Who reads a SQL store page by page while it is written: a client of      *)
(* query_telegrams() (mcp/tools.py) that follows next_offset, and the tool  *)
(* that copies one store into another (tools/migrate_store.py), which may   *)
(* be killed and run again. A query is two statements, the count and the    *)
(* page, and the store changes between any two statements of the reader.    *)
(* The destination is written by the tool alone.                            *)
(***************************************************************************)
EXTENDS Queries

CONSTANTS
  PageSize, \* limit of the client, batch_size of the tool
  Newest    \* --limit-newest

ASSUME PagingAssumption == PageSize \in Nat \ {0} /\ Newest \in Nat \ {0}

VARIABLES
  pc,        \* "idle", "load", "measure", "count", "page", "store" or "done"
  reader,    \* "client" or "tool"
  desc,      \* the order it asks for
  offset, limit, total,
  target,    \* the tool: how many telegrams it is to process
  known,     \* the tool: existing_timestamps
  page,      \* the tool: what it is about to store
  seen,      \* the client: the telegrams it has been given
  dest,      \* the destination of the tool: how many copies of a telegram it holds
  kept,      \* the telegrams in the table ever since the reader began (history)
  disturbed  \* rows have moved out of its way (history)

progress == <<offset, limit, total>>
memory == <<target, known, page, seen>>
vars == <<stores, pc, reader, desc, progress, memory, dest, kept, disturbed>>

Init ==
  /\ InitStores
  /\ pc = "idle" /\ reader = "client" /\ desc = TRUE
  /\ offset = 0 /\ limit = PageSize /\ total = 0
  /\ target = 0 /\ known = {} /\ page = <<>> /\ seen = {}
  /\ dest = [t \in Telegrams |-> 0] /\ kept = {} /\ disturbed = FALSE

-----------------------------------------------------------------------------
(* The host that writes the store *)

\* A row stored in front of others moves them on by a place: behind a page whose count was taken before,
\* or behind the end of what the tool set out to copy. A row deleted in front of them moves them back.
MovesOn(t) ==
  /\ \E r \in rows : Before(t, r, desc)
  /\ pc = "page" \/ (reader = "tool" /\ ~desc /\ pc \in {"count", "store"})

Host ==
  /\ UNCHANGED <<pc, reader, desc, progress, memory, dest>>
  /\ \/ \E batch \in Batches :
          /\ StoreMany(batch)
          /\ disturbed' = (disturbed \/ \E t \in ToSet(batch) : MovesOn(t))
          /\ UNCHANGED kept
     \/ \E cutoff \in Cutoffs :
          /\ EvictOlderThan(cutoff)
          /\ disturbed' = (disturbed \/ ~desc)
          /\ kept' = kept \cap rows'
     \/ /\ rows # {}
        /\ Clear
        /\ kept' = {}
        /\ UNCHANGED disturbed

-----------------------------------------------------------------------------
(* Both readers *)

Begin(who, order) ==
  /\ pc = "idle"
  /\ reader' = who /\ desc' = order
  /\ offset' = 0 /\ limit' = PageSize /\ total' = 0
  /\ seen' = {} /\ known' = {} /\ page' = <<>> /\ target' = 0
  /\ kept' = rows /\ disturbed' = FALSE
  /\ UNCHANGED <<stores, dest>>

CountStatement ==
  /\ pc = "count"
  /\ total' = Cardinality(rows)
  /\ pc' = "page"
  /\ UNCHANGED <<stores, reader, desc, offset, limit, memory, dest, kept, disturbed>>

Quit ==
  /\ pc # "idle"
  /\ pc' = "idle"
  /\ reader' = "client" /\ desc' = TRUE
  /\ offset' = 0 /\ limit' = PageSize /\ total' = 0
  /\ seen' = {} /\ known' = {} /\ page' = <<>> /\ target' = 0
  /\ kept' = {} /\ disturbed' = FALSE
  /\ UNCHANGED <<stores, dest>>

-----------------------------------------------------------------------------
(* The client *)

StartClient(order) == Begin("client", order) /\ pc' = "count"

NextOffset_BehindOne == offset + limit + 1
NextOffset == offset + limit

ClientPage ==
  /\ reader = "client" /\ pc = "page"
  /\ \E order \in Orders(rows, desc) : seen' = seen \cup ToSet(Slice(order, offset, limit))
  /\ IF LimitReached(total, offset, limit)
     THEN offset' = NextOffset /\ pc' = "count"
     ELSE UNCHANGED offset /\ pc' = "done"
  /\ UNCHANGED <<stores, reader, desc, limit, total, target, known, page, dest, kept, disturbed>>

-----------------------------------------------------------------------------
(* The tool *)

\* --limit-newest reads newest first.
Descending_Always(newest) == TRUE
Descending(newest) == newest
StartTool(newest) == Begin("tool", Descending(newest)) /\ pc' = "load"

Copied == {t \in Telegrams : dest[t] > 0}

\* All timestamps of the destination, page by page.
Existing_FirstPage(order) == TimesIn(ToSet(Slice(order, 0, PageSize)))
Existing(order) ==
  LET starts == {k * PageSize : k \in {i \in 0..Len(order) : i = 0 \/ LimitReached(Len(order), (i - 1) * PageSize, PageSize)}}
  IN TimesIn(UNION {ToSet(Slice(order, start, PageSize)) : start \in starts})
Load ==
  /\ pc = "load"
  /\ \E order \in Orders(Copied, TRUE) : known' = Existing(order)
  /\ pc' = "measure"
  /\ UNCHANGED <<stores, reader, desc, progress, target, page, seen, dest, kept, disturbed>>

Batch(goal, done) == IF PageSize < goal - done THEN PageSize ELSE goal - done

\* source.count()
Measure ==
  /\ pc = "measure"
  /\ target' = IF desc THEN Newest ELSE Cardinality(rows)
  /\ limit' = Batch(target', 0)
  /\ pc' = IF target' = 0 THEN "done" ELSE "count"
  /\ UNCHANGED <<stores, reader, desc, offset, total, known, page, seen, dest, kept, disturbed>>

\* As many as the page held are done, offset and total_processed alike.
Advance(n) ==
  /\ offset' = offset + n
  /\ limit' = Batch(target, offset + n)
  /\ pc' = IF ~LimitReached(total, offset, limit) \/ offset + n >= target THEN "done" ELSE "count"

\* The places on a page of telegrams whose timestamp is not known.
New(got) == {k \in DOMAIN got : TimeOf[got[k]] \notin known}

Ended_NothingNew(got, new) == new = {}
Ended(got, new) == got = <<>>

ToolPage ==
  /\ reader = "tool" /\ pc = "page"
  /\ \E order \in Orders(rows, desc) :
       LET got == Slice(order, offset, limit)
           new == New(got)
       IN \/ Ended(got, new) /\ pc' = "done" /\ UNCHANGED <<offset, limit, page>>
          \/ ~Ended(got, new) /\ new = {} /\ Advance(Len(got)) /\ UNCHANGED page
          \/ new # {} /\ pc' = "store" /\ page' = got /\ UNCHANGED <<offset, limit>>
  /\ UNCHANGED <<stores, reader, desc, total, target, known, seen, dest, kept, disturbed>>

\* dest.store_many() is one transaction.
ToolStore ==
  LET new == New(page) IN
  /\ pc = "store"
  /\ dest' = [t \in Telegrams |-> dest[t] + Cardinality({k \in new : page[k] = t})]
  /\ known' = known \cup {TimeOf[page[k]] : k \in new}
  /\ page' = <<>>
  /\ Advance(Len(page))
  /\ UNCHANGED <<stores, reader, desc, total, target, seen, kept, disturbed>>

Next ==
  \/ Host
  \/ \E order \in BOOLEAN : StartClient(order)
  \/ ClientPage
  \/ \E newest \in BOOLEAN : StartTool(newest)
  \/ Load \/ Measure \/ ToolPage \/ ToolStore
  \/ CountStatement \/ Quit

Spec == Init /\ [][Next]_vars
=============================================================================
