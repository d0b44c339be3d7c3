------------------------------ MODULE PlanCache ------------------------------
(***************************************************************************)
(* The plan limits every chat request works with: Redis key plan:<user>,   *)
(* filled by TokenService.getCachedPlan, deleted by whoever changes a      *)
(* user's subscription (PaymentsService, AdminService.changeUserPlan) or a *)
(* plan (PlansService.update), and expiring an hour after it was written.  *)
(*                                                                         *)
(* A fill is GET, one or two queries and SET; a write is a commit and then *)
(* DELs. Nothing orders the two, so a fill can put back what a write has   *)
(* just deleted. A plan's limits are abstracted to the version of its row. *)
(***************************************************************************)
EXTENDS Integers, FiniteSets, FiniteSetsExt

CONSTANTS
  User,       \* accounts
  Plan,       \* plans, named by their sortOrder
  ZeroAtStart,\* the plans whose priceMonthly is 0 in the beginning
  Repriced,   \* plans whose priceMonthly may go to or from 0 by an update
  Replaced,   \* plans that may be created or removed
  Reader,     \* chat requests that may be in getCachedPlan at once
  Writer,     \* requests that may be changing plans or subscriptions at once
  MaxWrites,  \* bound: commits in a behaviour
  None        \* the null value

ASSUME PlanCacheAssumption ==
  /\ Plan \subseteq Nat
  /\ ZeroAtStart \subseteq Plan
  /\ Repriced \subseteq Plan
  /\ Replaced \subseteq Plan
  /\ MaxWrites \in Nat
  /\ None \notin User \cup Plan

VARIABLES
  sub,       \* planId of each user's subscription, None without one
  version,   \* the contents of each plan row
  zero,      \* plans with priceMonthly = 0
  active,    \* plans with isActive
  cache,     \* plan:<user>, None when absent
  reader,    \* [at, user, limits] of each request in getCachedPlan
  writer,    \* [at, plan, keys, unscanned] of each writing request
  writes,    \* commits so far
  overtaken  \* history: users an overtaken fill, a dead writer or an unannounced
             \* commit may have left stale

db   == <<sub, version, zero, active, writes>>
vars == <<db, cache, reader, writer, overtaken>>

Limits == [plan : Plan \cup {None}, version : Nat]

Readings == [at : {"idle", "query", "free", "set"}, user : User \cup {None},
             limits : Limits \cup {None}]
Writings == [at : {"idle", "list", "scan", "del"}, plan : Plan \cup {None},
             keys : SUBSET User, unscanned : SUBSET User]

IdleReader == [at |-> "idle", user |-> None, limits |-> None]
IdleWriter == [at |-> "idle", plan |-> None, keys |-> {}, unscanned |-> {}]

Init ==
  /\ sub = [u \in User |-> None]
  /\ version = [p \in Plan |-> 0]
  /\ zero = ZeroAtStart
  /\ active = Plan
  /\ cache = [u \in User |-> None]
  /\ reader = [r \in Reader |-> IdleReader]
  /\ writer = [w \in Writer |-> IdleWriter]
  /\ writes = 0
  /\ overtaken = {}

\* The first active free plan, or None for the hardcoded defaults when there is none.
FreePlan == IF zero \cap active = {} THEN None ELSE Min(zero \cap active)

LimitsOf(p) == [plan |-> p, version |-> IF p \in Plan THEN version[p] ELSE 0]

\* What getCachedPlan would answer on a miss, were it one step.
Current(u) == LimitsOf(IF sub[u] = None THEN FreePlan ELSE sub[u])

\* u has a fill under way that has read its subscription.
FillUnderWay(u) == \E r \in Reader : reader[r].user = u /\ reader[r].at \in {"free", "set"}
-----------------------------------------------------------------------------
(* getCachedPlan *)

\* A hit answers at once and changes nothing.
Miss(r, u) ==
  /\ reader[r].at = "idle"
  /\ cache[u] = None
  /\ reader' = [reader EXCEPT ![r] = [at |-> "query", user |-> u, limits |-> None]]
  /\ UNCHANGED <<db, cache, writer, overtaken>>

ReadSubscription(r) ==
  LET p == sub[reader[r].user] IN
  /\ reader[r].at = "query"
  /\ reader' = [reader EXCEPT ![r] = IF p = None
                                     THEN [@ EXCEPT !.at = "free"]
                                     ELSE [at |-> "set", user |-> @.user, limits |-> LimitsOf(p)]]
  /\ UNCHANGED <<db, cache, writer, overtaken>>

ReadFreePlan(r) ==
  /\ reader[r].at = "free"
  /\ reader' = [reader EXCEPT
                  ![r] = [at |-> "set", user |-> @.user, limits |-> LimitsOf(FreePlan)]]
  /\ UNCHANGED <<db, cache, writer, overtaken>>

Fill(r) ==
  /\ reader[r].at = "set"
  /\ cache' = [cache EXCEPT ![reader[r].user] = reader[r].limits]
  /\ reader' = [reader EXCEPT ![r] = IdleReader]
  /\ UNCHANGED <<db, writer, overtaken>>

ReaderFails(r) ==
  /\ reader[r].at # "idle"
  /\ reader' = [reader EXCEPT ![r] = IdleReader]
  /\ UNCHANGED <<db, cache, writer, overtaken>>
-----------------------------------------------------------------------------
(* Writers *)

Touched(u) == sub'[u] # sub[u] \/ Current(u)' # Current(u)

\* A plan becomes free or stops being free, or is created or removed: nothing
\* deletes the keys of the users it concerns.
Unannounced == zero' # zero \/ writer' = writer

\* The part of every commit that is history: fills under way now hold old limits.
Commit ==
  /\ writes < MaxWrites
  /\ writes' = writes + 1
  /\ overtaken' = overtaken \cup {u \in User : Touched(u) /\ (FillUnderWay(u) \/ Unannounced)}
  /\ UNCHANGED <<cache, reader>>

\* A settled payment, or changeUserPlan: the subscription row, then DEL plan:<user>.
ChangeSubscription(w, u, p) ==
  /\ writer[w].at = "idle"
  /\ sub' = [sub EXCEPT ![u] = p]
  /\ writer' = [writer EXCEPT ![w] = [IdleWriter EXCEPT !.at = "del", !.keys = {u}]]
  /\ UNCHANGED <<version, zero, active>>
  /\ Commit

\* A plan's row is written; of its columns price and isActive matter here.
WritePlan(p) ==
  /\ version' = [version EXCEPT ![p] = @ + 1]
  /\ active' \in {active \cup {p}, active \ {p}}
Reprice(p) == zero' \in {zero \cup {p}, zero \ {p}}

\* PlansService.update: whether to scan for every key is read off the updated row.
UpdatePlan(w, p) ==
  /\ writer[w].at = "idle"
  /\ WritePlan(p)
  /\ UNCHANGED zero \/ (p \in Repriced /\ Reprice(p))
  /\ writer' = [writer EXCEPT ![w] = [IdleWriter EXCEPT
                  !.at = "list", !.plan = p, !.unscanned = IF p \in zero' THEN User ELSE {}]]
  /\ UNCHANGED sub
  /\ Commit

\* PlansService.create and remove (which a subscription's foreign key refuses)
\* delete no key.
CreateOrRemovePlan(p) ==
  /\ p \in Replaced
  /\ \A u \in User : sub[u] # p
  /\ WritePlan(p)
  /\ Reprice(p)
  /\ UNCHANGED <<sub, writer>>
  /\ Commit

Subscribers_Forgotten(p) == {}
Subscribers(p) == {u \in User : sub[u] = p}

\* A writer goes on with its DELs, then with the scan of plan:* a free plan
\* needs, then with the DELs of the keys found; then it answers.
Proceed_Unscanned(w, wr) ==
  writer' = [writer EXCEPT ![w] = IF wr.keys = {} THEN IdleWriter ELSE [wr EXCEPT !.at = "del"]]
Proceed(w, wr) ==
  writer' = [writer EXCEPT ![w] =
    IF wr.keys = {} /\ wr.unscanned = {} THEN IdleWriter ELSE [wr EXCEPT !.at = "del"]]

ListSubscribers(w) ==
  /\ writer[w].at = "list"
  /\ Proceed(w, [writer[w] EXCEPT !.keys = Subscribers(writer[w].plan)])
  /\ UNCHANGED <<db, cache, reader, overtaken>>

\* SCAN visits the keys one after the other; its DELs wait for the end of it,
\* and the DELs of the subscribers' keys precede it on the connection.
Scan(w, u) ==
  LET found == IF cache[u] = None THEN {} ELSE {u} IN
  /\ \/ writer[w].at = "del" /\ writer[w].keys = {}
     \/ writer[w].at = "scan"
  /\ u \in writer[w].unscanned
  /\ LET wr == [writer[w] EXCEPT !.at = "scan", !.keys = @ \cup found, !.unscanned = @ \ {u}]
     IN  IF wr.unscanned = {} THEN Proceed(w, wr) ELSE writer' = [writer EXCEPT ![w] = wr]
  /\ UNCHANGED <<db, cache, reader, overtaken>>

\* With the key gone, u is stale again only through a fill that is still under way.
Cleared(u) == overtaken' = IF FillUnderWay(u) THEN overtaken ELSE overtaken \ {u}

Delete(w, u) ==
  /\ writer[w].at = "del"
  /\ u \in writer[w].keys
  /\ cache' = [cache EXCEPT ![u] = None]
  /\ Proceed(w, [writer[w] EXCEPT !.keys = @ \ {u}])
  /\ Cleared(u)
  /\ UNCHANGED <<db, reader>>

\* Users whose key a writer has still to delete, or to look for.
ToDelete(w) ==
  writer[w].keys \cup writer[w].unscanned
    \cup (IF writer[w].at = "list" THEN {u \in User : sub[u] = writer[w].plan} ELSE {})

\* An error or a restart after the commit: the DELs are never made up for.
WriterFails(w) ==
  /\ writer[w].at # "idle"
  /\ overtaken' = overtaken \cup ToDelete(w)
  /\ writer' = [writer EXCEPT ![w] = IdleWriter]
  /\ UNCHANGED <<db, cache, reader>>
-----------------------------------------------------------------------------
\* SET ... EX 3600: the time to live is set by the fill and never renewed.
Expires_Never(u) == FALSE
Expires(u) == cache[u] # None

Expire(u) ==
  /\ Expires(u)
  /\ cache' = [cache EXCEPT ![u] = None]
  /\ Cleared(u)
  /\ UNCHANGED <<db, reader, writer>>

Next ==
  \/ \E r \in Reader : \/ \E u \in User : Miss(r, u)
                       \/ ReadSubscription(r) \/ ReadFreePlan(r) \/ Fill(r) \/ ReaderFails(r)
  \/ \E w \in Writer : \/ \E u \in User, p \in Plan : ChangeSubscription(w, u, p)
                       \/ \E p \in Plan : UpdatePlan(w, p)
                       \/ ListSubscribers(w)
                       \/ \E u \in User : Scan(w, u) \/ Delete(w, u)
                       \/ WriterFails(w)
  \/ \E p \in Plan : CreateOrRemovePlan(p)
  \/ \E u \in User : Expire(u)

Spec == Init /\ [][Next]_vars

\* Redis drops a key whose time to live is over.
FairSpec == Spec /\ \A u \in User : WF_vars(Expire(u))
-----------------------------------------------------------------------------
(* Properties *)

\* The types of the variables.
TypeOK ==
  /\ sub \in [User -> Plan \cup {None}]
  /\ version \in [Plan -> Nat]
  /\ zero \subseteq Plan
  /\ active \subseteq Plan
  /\ cache \in [User -> Limits \cup {None}]
  /\ reader \in [Reader -> Readings]
  /\ writer \in [Writer -> Writings]
  /\ writes \in 0..MaxWrites
  /\ overtaken \subseteq User

\* The key a request reads is absent or holds what the database says, except
\* while a writer is on its way to delete it and when a fill was overtaken by a
\* commit, a writer died, or a plan changed sides between free and paid: there is
\* no other way to a stale plan, and every one of them ends with the next DEL.
CoherentUnlessOvertaken ==
  \A u \in User :
    \/ u \in overtaken
    \/ \E w \in Writer : u \in ToDelete(w)
    \/ cache[u] \in {None, Current(u)}

\* The plans requests work with are well formed, and those of the database but for that.
PlansAreSound == TypeOK /\ CoherentUnlessOvertaken

\* What makes it inductive: a fill under way that was not overtaken holds what
\* the database says, and a writer that has not listed its keys has none.
FillsUnderWay ==
  \A r \in Reader :
    LET u == reader[r].user IN
    /\ reader[r].at # "idle" => u # None
    /\ reader[r].at = "free" => u \in overtaken \/ sub[u] = None
    /\ reader[r].at = "set" => u \in overtaken \/ reader[r].limits = Current(u)
WritersAtRest ==
  \A w \in Writer : /\ writer[w].at = "idle" => writer[w] = IdleWriter
                    /\ writer[w].at = "list" => writer[w].keys = {}

IInv == TypeOK /\ FillsUnderWay /\ WritersAtRest /\ CoherentUnlessOvertaken

\* Readers, writers and their failures amount to a cache of plans that are written,
\* stored and dropped: Late names every key that may be stale, and it is forgotten
\* about none of them before the key is gone.
Late == overtaken \cup UNION {ToDelete(w) : w \in Writer}
PlanKeys == INSTANCE ReadThrough WITH
              Key <- User, Absent <- None,
              truth <- [u \in User |-> {Current(u)}],
              kept <- cache,
              late <- Late
ImplementsReadThrough == PlanKeys!RSpec

\* Whatever was overtaken, died or was never invalidated: once the writes have
\* stopped every user gets the current limits again, for good.
EventuallyCoherent ==
  \A u \in User : <>[](cache[u] \in {None, Current(u)})
=============================================================================
