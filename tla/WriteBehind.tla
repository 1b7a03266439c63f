------------------------------ MODULE WriteBehind ------------------------------
(***************************************************************************)
(* What the write buffer promises, without locks, tasks or backups: a      *)
(* bounded FIFO queue of accepted telegrams in front of a log of stored    *)
(* ones.  Telegrams leave the queue only at its front, into the log, or    *)
(* through one of the losses the documentation names: the capacity limit,  *)
(* a telegram no database can store, eviction, clear(), and the close of a *)
(* store that was never initialized.  A write whose outcome is unknown may *)
(* be repeated (at-least-once).  BufferedStore implements this module.     *)
(***************************************************************************)
EXTENDS Integers, Sequences, Functions

CONSTANTS MaxBuffer,   \* the capacity max_buffer_size
          Unstorable,  \* telegrams a database rejects every time
          Outdated,    \* telegrams an eviction matches
          Direct       \* telegrams written through store_many(), which no store() took

VARIABLES accepted,    \* how many telegrams store() took; they are 1..accepted
          pending,     \* accepted and not yet known to be stored, oldest first
          stored       \* the rows of the database in the order they were written

vars == <<accepted, pending, stored>>

Init == accepted = 0 /\ pending = <<>> /\ stored = <<>>

Front(k) == SubSeq(pending, 1, k)
From(k)  == SubSeq(pending, k, Len(pending))
Except(k) == Front(k - 1) \o From(k + 1)

\* r is the subsequence of s of the elements outside drop, in the order of s.
Retains(r, s, drop) ==
  \E at \in [DOMAIN r -> DOMAIN s] :
    /\ \A i, j \in DOMAIN at : i < j => at[i] < at[j]
    /\ Range(at) = {i \in DOMAIN s : s[i] \notin drop}
    /\ \A i \in DOMAIN r : r[i] = s[at[i]]
-----------------------------------------------------------------------------
\* store(): the newest telegram goes last; at the limit an older one makes room.
Accept ==
  /\ accepted' = accepted + 1
  /\ \/ pending' = Append(pending, accepted')
     \/ /\ Len(pending) >= MaxBuffer
        /\ \E k \in DOMAIN pending : pending' = Append(Except(k), accepted')
  /\ UNCHANGED stored

\* A write: a prefix of the queue, in queue order, becomes rows.
Persist ==
  /\ \E k \in DOMAIN pending :
       /\ stored' = stored \o Front(k)
       /\ pending' = From(k + 1)
  /\ UNCHANGED accepted

\* A write that failed for its caller: a prefix may have become rows anyway, and all of
\* the queue is kept for a later try, down to the newest MaxBuffer telegrams.
Retry ==
  /\ \E k \in 0..Len(pending) : stored' = stored \o Front(k)
  /\ \/ pending' = pending
     \/ Len(pending) > MaxBuffer /\ pending' = From(Len(pending) - MaxBuffer + 1)
  /\ UNCHANGED accepted

\* The oldest telegram can never be stored and gives way to the others.
Reject ==
  /\ pending # <<>>
  /\ Head(pending) \in Unstorable
  /\ pending' = Tail(pending)
  /\ UNCHANGED <<accepted, stored>>

\* store_many(): a telegram that never was in the queue becomes a row.
WriteDirect(n) ==
  /\ stored' = Append(stored, n)
  /\ UNCHANGED <<accepted, pending>>

\* evict_older_than(): rows first; the queue too, unless the call failed in between.
Evict ==
  /\ Retains(stored', stored, Outdated)
  /\ pending' = pending \/ Retains(pending', pending, Outdated)
  /\ UNCHANGED accepted

\* clear() and the close of a store that was never initialized empty the queue; clear()
\* empties the table after it.
Drop == pending' = <<>> /\ UNCHANGED <<accepted, stored>>
Wipe == stored' = <<>> /\ UNCHANGED <<accepted, pending>>

Next ==
  \/ Accept
  \/ Persist
  \/ Retry
  \/ Reject
  \/ \E n \in Direct : WriteDirect(n)
  \/ Evict
  \/ Drop
  \/ Wipe

Spec == Init /\ [][Next]_vars
=============================================================================
