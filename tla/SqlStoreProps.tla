------------------------------ MODULE SqlStoreProps ------------------------------
(* What the write path of SqlStore promises. *)
EXTENDS SqlStore

Tx == {"names", "insert", "upsert", "commit", "clear telegrams", "clear snapshot", "clear last", "clear commit", "fill", "reconcile commit"}

TypeOK ==
  /\ DOMAIN lookup \subseteq Names /\ \A n \in DOMAIN lookup : lookup[n] \in Ids
  /\ telegrams \subseteq [t : Telegrams, id : Ids]
  /\ DOMAIN last \subseteq Ids /\ \A i \in DOMAIN last : last[i] \in Nat
  /\ reconciled \in BOOLEAN /\ listening \in BOOLEAN
  /\ \A p \in Processes : pc[p] \in Tx \cup {"down", "count", "stale", "idle", "publish"}
  /\ \A p \in Processes : pc[p] \in {"down", "count", "stale", "idle"} => tx[p] = Idle
  /\ \A p \in Processes : \A n \in DOMAIN cache[p] : cache[p][n] \in Ids
  /\ \A p, q \in Processes : p # q => tx[p].held \cap tx[q].held = {}
  /\ queue \in Seq(Telegrams) /\ got \in Seq(Telegrams) /\ due \in Seq(SUBSET Telegrams)

\* The cache of a process never names an id that is not committed under that name, whatever is rolled
\* back (lookup.py:112-114, base_sql.py:451).
CacheCommitted ==
  \A p \in Processes : \A n \in DOMAIN cache[p] : n \in DOMAIN lookup /\ lookup[n] = cache[p][n]

\* A row's id is that of its own group address, so that the joins of the queries lose and misname none
\* (base_sql.py:617-619).
RowsNamed == \A r \in telegrams : NameOf[r.t] \in DOMAIN lookup /\ lookup[NameOf[r.t]] = r.id

\* After the repair the last value of a group address is not older than any telegram of it, with several
\* processes writing, starting and clearing. A telegram committed between the two deletes of another
\* process's clear() loses its last value and is the exception (base_sql.py:755).
LastValueNewest ==
  reconciled => \A r \in telegrams : r.id \notin torn => r.id \in DOMAIN last /\ last[r.id] >= TimeOf[r.t]

\* Only clear() takes a last value away, and none ever goes back in time: not by late telegrams, retention
\* or a start that repairs. Rows deleted in the middle of that repair are the exception (base_sql.py:851).
LastValueSurvives ==
  [][\A i \in DOMAIN last :
       \/ i \in DOMAIN last' /\ last'[i] >= last[i]
       \/ i \in torn'
       \/ \E p \in Processes : pc[p] = "clear commit"]_vars

\* A listener gets every telegram that is committed while it listens once, none that is rolled back, and
\* those of an earlier commit first, save oversized ones (postgres.py:335-346, 399-423).
NotifiedOnce ==
  LET heard == got \o queue
      CommitOf(t) == CHOOSE c \in DOMAIN due : t \in due[c]
  IN /\ {heard[k] : k \in DOMAIN heard} = (UNION {due[c] : c \in DOMAIN due}) \ Oversized
     /\ \A j, k \in DOMAIN heard : j < k => heard[j] # heard[k] /\ CommitOf(heard[j]) <= CommitOf(heard[k])
=============================================================================
