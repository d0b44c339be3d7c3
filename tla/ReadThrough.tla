----------------------------- MODULE ReadThrough -----------------------------
(***************************************************************************)
(* What a cache in Redis promises that is filled from the database by      *)
(* whoever misses a key, and cleared by whoever writes the rows behind it: *)
(* without requests, queries or deletes under way. A key holds what a      *)
(* query would find, or it is late; and a late key stays late until it has *)
(* been absent. PlanCache.tla, Campaign.tla and Waitlist.tla are shown to  *)
(* implement this specification.                                           *)
(***************************************************************************)
CONSTANTS
  Key,     \* the keys
  Absent   \* no such key in Redis

VARIABLES
  truth,   \* what a query for each key may find
  kept,    \* what is kept under each key
  late     \* keys that somebody is about to clear, failed to clear, or was overtaken at

rvars == <<truth, kept, late>>

RInit ==
  /\ kept = [k \in Key |-> Absent]
  /\ late = {}

\* Rows change, and the keys that are kept of them are late; or keys are late for nothing.
Write ==
  /\ \E keys \in SUBSET Key : late' = late \cup keys
  /\ \A k \in Key \ late' : truth'[k] = truth[k] \/ kept[k] = Absent
  /\ UNCHANGED kept

\* Only a late key may be given what is not true any more.
Fill(k) ==
  /\ kept' = [kept EXCEPT ![k] = kept'[k]]
  /\ kept'[k] \in truth[k] \/ k \in late
  /\ UNCHANGED <<truth, late>>

\* A key is deleted, expires, or is found absent: the one way not to be late any more. It
\* may go on being late, or begin to be, because of those who are filling it.
Drop(k) ==
  /\ kept' = [kept EXCEPT ![k] = Absent]
  /\ late' \in {late \cup {k}, late \ {k}}
  /\ UNCHANGED truth

RNext == Write \/ \E k \in Key : Fill(k) \/ Drop(k)

RSpec == RInit /\ [][RNext]_rvars

\* What this is worth to whoever reads a key.
Coherent == \A k \in Key \ late : kept[k] \in truth[k] \cup {Absent}
=============================================================================
