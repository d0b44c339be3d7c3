---------------------------- MODULE CachesProofs ----------------------------
(***************************************************************************)
(* Proofs about the two components whose state Redis keeps and drops after *)
(* a time. PlanCache.tla, for any users, plans, readers and writers: the   *)
(* types, and that a stale key always has an overtaken fill, a writer or   *)
(* an unannounced change of a plan behind it. Sessions.tla, for any number *)
(* of requests, limits, codes and tokens: how often a code is guessed at,  *)
(* how often it logs in, who passes the campaign's gate, and how many      *)
(* tokens a session has.                                                   *)
(***************************************************************************)
EXTENDS PlanCache, Sessions, FiniteSetTheorems, WellFoundedInduction, TLAPS

\* The first free plan is one of them.
LEMMA FreePlanIsFree ==
  ASSUME zero \subseteq Plan
  PROVE  IF zero \cap active = {} THEN FreePlan = None ELSE FreePlan \in zero \cap active
  <1> DEFINE S == zero \cap active
  <1> SUFFICES ASSUME S # {} PROVE Min(S) \in S
    BY DEF FreePlan
  <1>1. S \subseteq Nat
    BY PlanCacheAssumption
  <1>2. PICK x \in S : \A y \in S : ~(<<y, x>> \in OpToRel(<, Nat))
    <2> HIDE DEF S
    <2> QED
      BY <1>1, NatLessThanWellFounded, WFMin
  <1>3. \A y \in S : ~(y < x)
    BY <1>1, <1>2 DEF OpToRel
  <1>4. \A y \in S : x =< y
    BY <1>1, <1>3
  <1>5. QED
    BY <1>4 DEF Min

LEMMA LimitsType ==
  ASSUME TypeOK
  PROVE  /\ \A p \in Plan \cup {None} : LimitsOf(p) \in Limits
         /\ FreePlan \in Plan \cup {None}
         /\ \A u \in User : Current(u) \in Limits
  <1>1. \A p \in Plan \cup {None} : LimitsOf(p) \in Limits
    BY DEF TypeOK, LimitsOf, Limits
  <1>2. FreePlan \in Plan \cup {None}
    BY FreePlanIsFree DEF TypeOK
  <1>3. QED
    BY <1>1, <1>2 DEF TypeOK, Current

LEMMA ProceedType ==
  ASSUME TypeOK, NEW w \in Writer, NEW wr \in Writings, Proceed(w, wr)
  PROVE  writer' \in [Writer -> Writings]
  <1>1. IdleWriter \in Writings /\ [wr EXCEPT !.at = "del"] \in Writings
    BY DEF IdleWriter, Writings
  <1>2. QED
    BY <1>1 DEF Proceed, TypeOK

LEMMA TypeInductive == TypeOK /\ FillsUnderWay /\ [Next]_vars => TypeOK'
  <1> SUFFICES ASSUME TypeOK, FillsUnderWay, [Next]_vars PROVE TypeOK'
    OBVIOUS
  <1> USE DEF TypeOK
  <1>1. ASSUME NEW r \in Reader, NEW u \in User, Miss(r, u) PROVE TypeOK'
    BY <1>1 DEF Miss, Readings, db
  <1>2. ASSUME NEW r \in Reader, ReadSubscription(r) PROVE TypeOK'
    <2>1. reader[r].user \in User
      BY <1>2 DEF ReadSubscription, FillsUnderWay, Readings
    <2>2. LimitsOf(sub[reader[r].user]) \in Limits
      BY <2>1, LimitsType
    <2>3. reader' \in [Reader -> Readings]
      BY <1>2, <2>2 DEF ReadSubscription, Readings
    <2>4. QED
      BY <1>2, <2>3 DEF ReadSubscription, db
  <1>3. ASSUME NEW r \in Reader, ReadFreePlan(r) PROVE TypeOK'
    <2>1. LimitsOf(FreePlan) \in Limits
      BY LimitsType
    <2>2. QED
      BY <1>3, <2>1 DEF ReadFreePlan, Readings, db
  <1>4. ASSUME NEW r \in Reader, Fill(r) PROVE TypeOK'
    <2>1. reader[r].user \in User /\ reader[r].limits \in Limits \cup {None}
      BY <1>4 DEF Fill, FillsUnderWay, Readings
    <2>2. QED
      BY <1>4, <2>1 DEF Fill, db, IdleReader, Readings
  <1>5. ASSUME NEW r \in Reader, ReaderFails(r) PROVE TypeOK'
    BY <1>5 DEF ReaderFails, db, IdleReader, Readings
  <1>6. ASSUME NEW w \in Writer, NEW u \in User, NEW p \in Plan, ChangeSubscription(w, u, p)
        PROVE  TypeOK'
    <2>1. writer' \in [Writer -> Writings]
      BY <1>6 DEF ChangeSubscription, IdleWriter, Writings
    <2>2. writes' \in 0..MaxWrites /\ overtaken' \subseteq User
      BY <1>6, PlanCacheAssumption DEF ChangeSubscription, Commit
    <2>3. QED
      BY <1>6, <2>1, <2>2 DEF ChangeSubscription, Commit
  <1>7. ASSUME NEW w \in Writer, NEW p \in Plan, UpdatePlan(w, p) PROVE TypeOK'
    <2>1. zero' \subseteq Plan /\ active' \subseteq Plan /\ version' \in [Plan -> Nat]
      BY <1>7 DEF UpdatePlan, WritePlan, Reprice
    <2>2. writer' \in [Writer -> Writings]
      BY <1>7 DEF UpdatePlan, IdleWriter, Writings
    <2>3. writes' \in 0..MaxWrites /\ overtaken' \subseteq User
      BY <1>7, PlanCacheAssumption DEF UpdatePlan, Commit
    <2>4. QED
      BY <1>7, <2>1, <2>2, <2>3 DEF UpdatePlan, Commit
  <1>8. ASSUME NEW p \in Plan, CreateOrRemovePlan(p) PROVE TypeOK'
    <2>1. zero' \subseteq Plan /\ active' \subseteq Plan /\ version' \in [Plan -> Nat]
      BY <1>8 DEF CreateOrRemovePlan, WritePlan, Reprice
    <2>2. writes' \in 0..MaxWrites /\ overtaken' \subseteq User
      BY <1>8, PlanCacheAssumption DEF CreateOrRemovePlan, Commit
    <2>3. QED
      BY <1>8, <2>1, <2>2 DEF CreateOrRemovePlan, Commit
  <1>9. ASSUME NEW w \in Writer, ListSubscribers(w) PROVE TypeOK'
    <2>1. [writer[w] EXCEPT !.keys = Subscribers(writer[w].plan)] \in Writings
      BY DEF Subscribers, Writings
    <2>2. QED
      BY <1>9, <2>1, ProceedType DEF ListSubscribers, db
  <1>10. ASSUME NEW w \in Writer, NEW u \in User, Scan(w, u) PROVE TypeOK'
    <2>1. \A found \in SUBSET User :
            [writer[w] EXCEPT !.at = "scan", !.keys = @ \cup found, !.unscanned = @ \ {u}] \in Writings
      BY DEF Writings
    <2>2. writer' \in [Writer -> Writings]
      <3> DEFINE found == IF cache[u] = None THEN {} ELSE {u}
                 wr == [writer[w] EXCEPT !.at = "scan", !.keys = @ \cup found, !.unscanned = @ \ {u}]
      <3>1. wr \in Writings
        BY <2>1
      <3>2. Proceed(w, wr) \/ writer' = [writer EXCEPT ![w] = wr]
        BY <1>10 DEF Scan
      <3> HIDE DEF wr
      <3>3. QED
        BY <3>1, <3>2, ProceedType
    <2>3. QED
      BY <1>10, <2>2 DEF Scan, db
  <1>11. ASSUME NEW w \in Writer, NEW u \in User, Delete(w, u) PROVE TypeOK'
    <2>1. [writer[w] EXCEPT !.keys = @ \ {u}] \in Writings
      BY DEF Writings
    <2>2. QED
      BY <1>11, <2>1, ProceedType DEF Delete, Cleared, db
  <1>12. ASSUME NEW w \in Writer, WriterFails(w) PROVE TypeOK'
    <2>1. writer' \in [Writer -> Writings] /\ ToDelete(w) \subseteq User
      BY <1>12 DEF WriterFails, ToDelete, IdleWriter, Writings
    <2>2. QED
      BY <1>12, <2>1 DEF WriterFails, db
  <1>13. ASSUME NEW u \in User, Expire(u) PROVE TypeOK'
    BY <1>13 DEF Expire, Cleared, db
  <1>14. CASE UNCHANGED vars
    BY <1>14 DEF vars, db
  <1>15. QED
    BY <1>1, <1>2, <1>3, <1>4, <1>5, <1>6, <1>7, <1>8, <1>9, <1>10, <1>11, <1>12, <1>13, <1>14
       DEF Next
-----------------------------------------------------------------------------
(* A writer's step and what it leaves to delete *)

LEMMA WritersInductive ==
  TypeOK /\ WritersAtRest /\ [Next]_vars => WritersAtRest'
  <1> SUFFICES ASSUME TypeOK, WritersAtRest, [Next]_vars PROVE WritersAtRest'
    OBVIOUS
  <1>1. ASSUME NEW w \in Writer, NEW x, writer' = [writer EXCEPT ![w] = x],
               x = IdleWriter \/ x.at \in {"scan", "del"} \/ (x.at = "list" /\ x.keys = {})
        PROVE  WritersAtRest'
    <2> SUFFICES ASSUME NEW v \in Writer
                 PROVE  /\ writer'[v].at = "idle" => writer'[v] = IdleWriter
                        /\ writer'[v].at = "list" => writer'[v].keys = {}
      BY DEF WritersAtRest
    <2>1. CASE v = w
      <3>1. writer'[v] = x
        BY <1>1, <2>1 DEF TypeOK
      <3>2. IdleWriter.at = "idle"
        BY DEF IdleWriter
      <3>3. QED
        BY <1>1, <3>1, <3>2
    <2>2. CASE v # w
      BY <1>1, <2>2 DEF WritersAtRest, TypeOK
    <2>3. QED
      BY <2>1, <2>2
  <1>2. ASSUME NEW w \in Writer, NEW wr \in Writings, Proceed(w, wr) PROVE WritersAtRest'
    <2>1. [wr EXCEPT !.at = "del"].at = "del"
      BY DEF Writings
    <2>2. QED
      BY <1>1, <1>2, <2>1 DEF Proceed
  <1>3. ASSUME NEW w \in Writer, NEW u \in User, NEW p \in Plan, ChangeSubscription(w, u, p)
        PROVE  WritersAtRest'
    BY <1>1, <1>3 DEF ChangeSubscription, IdleWriter
  <1>4. ASSUME NEW w \in Writer, NEW p \in Plan, UpdatePlan(w, p) PROVE WritersAtRest'
    <2> DEFINE x == [IdleWriter EXCEPT !.at = "list", !.plan = p,
                                       !.unscanned = IF p \in zero' THEN User ELSE {}]
    <2>1. x.at = "list" /\ x.keys = {}
      BY DEF IdleWriter
    <2>2. writer' = [writer EXCEPT ![w] = x]
      BY <1>4 DEF UpdatePlan
    <2> HIDE DEF x
    <2>3. QED
      BY <1>1, <2>1, <2>2
  <1>5. ASSUME NEW w \in Writer, ListSubscribers(w) PROVE WritersAtRest'
    <2>1. [writer[w] EXCEPT !.keys = Subscribers(writer[w].plan)] \in Writings
      BY DEF Subscribers, Writings, TypeOK
    <2>2. QED
      BY <1>2, <1>5, <2>1 DEF ListSubscribers
  <1>6. ASSUME NEW w \in Writer, NEW u \in User, Scan(w, u) PROVE WritersAtRest'
    <2> DEFINE found == IF cache[u] = None THEN {} ELSE {u}
               wr == [writer[w] EXCEPT !.at = "scan", !.keys = @ \cup found, !.unscanned = @ \ {u}]
    <2>1. wr \in Writings /\ wr.at = "scan"
      BY DEF Writings, TypeOK
    <2>2. Proceed(w, wr) \/ writer' = [writer EXCEPT ![w] = wr]
      BY <1>6 DEF Scan
    <2> HIDE DEF wr
    <2>3. QED
      BY <1>1, <1>2, <2>1, <2>2
  <1>7. ASSUME NEW w \in Writer, NEW u \in User, Delete(w, u) PROVE WritersAtRest'
    <2>1. [writer[w] EXCEPT !.keys = @ \ {u}] \in Writings
      BY DEF Writings, TypeOK
    <2>2. QED
      BY <1>2, <1>7, <2>1 DEF Delete
  <1>8. ASSUME NEW w \in Writer, WriterFails(w) PROVE WritersAtRest'
    BY <1>1, <1>8 DEF WriterFails
  <1>9. CASE UNCHANGED writer
    BY <1>9 DEF WritersAtRest
  <1>10. QED
    BY <1>3, <1>4, <1>5, <1>6, <1>7, <1>8, <1>9
       DEF Next, vars, Miss, ReadSubscription, ReadFreePlan, Fill, ReaderFails, CreateOrRemovePlan, Expire

\* What a step of one writer leaves to the others.
LEMMA OthersKeep ==
  ASSUME NEW w \in Writer, NEW x, writer' = [writer EXCEPT ![w] = x], UNCHANGED sub, TypeOK,
         NEW v \in Writer, v # w
  PROVE  ToDelete(v)' = ToDelete(v)
  BY DEF ToDelete, TypeOK

LEMMA ProceedKeeps ==
  ASSUME TypeOK, NEW w \in Writer, NEW wr \in Writings, Proceed(w, wr)
  PROVE  /\ ToDelete(w)' = wr.keys \cup wr.unscanned
         /\ \E x : writer' = [writer EXCEPT ![w] = x]
  BY DEF Proceed, ToDelete, IdleWriter, Writings, TypeOK
-----------------------------------------------------------------------------
(* Coherence *)

LEMMA SameRowsSameLimits ==
  UNCHANGED <<sub, version, zero, active>> => \A u \in User : Current(u)' = Current(u)
  BY DEF Current, FreePlan, LimitsOf

\* As long as no plan changes sides between free and paid, the free plan of users
\* without a subscription is what it was unless it is the updated one.
LEMMA UpdateIsAnnounced ==
  ASSUME TypeOK, NEW w \in Writer, NEW p \in Plan, UpdatePlan(w, p), zero' = zero,
         NEW u \in User, Current(u)' # Current(u)
  PROVE  u \in ToDelete(w)'
  <1> USE DEF TypeOK
  <1>1. writer'[w] = [IdleWriter EXCEPT !.at = "list", !.plan = p,
                                        !.unscanned = IF p \in zero' THEN User ELSE {}]
    BY DEF UpdatePlan
  <1>2. zero' = zero /\ sub' = sub /\ active' \in {active \cup {p}, active \ {p}}
        /\ version' = [version EXCEPT ![p] = @ + 1]
    BY DEF UpdatePlan, WritePlan
  <1>3. CASE p \in zero
    BY <1>1, <1>2, <1>3 DEF ToDelete, IdleWriter
  <1>4. CASE p \notin zero
    <2>1. zero' \cap active' = zero \cap active
      BY <1>2, <1>4
    <2>2. FreePlan' = FreePlan
      BY <2>1 DEF FreePlan
    <2>3. FreePlan # p
      BY <1>4, FreePlanIsFree, PlanCacheAssumption
    <2>4. \A q : q # p => (IF q \in Plan THEN version'[q] ELSE 0) = (IF q \in Plan THEN version[q] ELSE 0)
      BY <1>2
    <2>5. sub[u] = p
      BY <1>2, <2>2, <2>3, <2>4 DEF Current, LimitsOf
    <2>6. QED
      BY <1>1, <1>2, <2>5 DEF ToDelete, IdleWriter
  <1>5. QED
    BY <1>3, <1>4

\* A fill that has read the old rows is overtaken.
LEMMA CommitKeepsFills ==
  ASSUME IInv, Commit
  PROVE  UNCHANGED <<cache, reader>> /\ overtaken \subseteq overtaken' /\ FillsUnderWay'
  <1> USE DEF IInv, TypeOK
  <1>1. UNCHANGED <<cache, reader>> /\ overtaken \subseteq overtaken'
    BY DEF Commit
  <1>2. \A u \in User : FillUnderWay(u) =>
          u \in overtaken' \/ (sub'[u] = sub[u] /\ Current(u)' = Current(u))
    BY DEF Commit, Touched
  <1>3. FillsUnderWay'
    <2> SUFFICES ASSUME NEW r \in Reader,
                        reader[r].at # "idle"
                 PROVE  LET u == reader[r].user IN
                        /\ u # None
                        /\ reader[r].at = "free" => u \in overtaken' \/ sub'[u] = None
                        /\ reader[r].at = "set" => u \in overtaken' \/ reader[r].limits = Current(u)'
      BY <1>1 DEF FillsUnderWay
    <2>1. reader[r].user \in User
      BY DEF FillsUnderWay, Readings
    <2>2. reader[r].at \in {"free", "set"} => FillUnderWay(reader[r].user)
      BY DEF FillUnderWay
    <2>3. QED
      BY <1>1, <1>2, <2>1, <2>2 DEF FillsUnderWay
  <1>4. QED
    BY <1>1, <1>3

\* A commit that nobody announces leaves its users on the list of history.
LEMMA SilentCommitKeepsCoherence ==
  ASSUME IInv, NEW p \in Plan, CreateOrRemovePlan(p)
  PROVE  FillsUnderWay' /\ CoherentUnlessOvertaken'
  <1> USE DEF IInv, TypeOK
  <1>1. UNCHANGED <<cache, reader>> /\ overtaken \subseteq overtaken' /\ FillsUnderWay'
    BY CommitKeepsFills DEF CreateOrRemovePlan
  <1>2. UNCHANGED <<sub, writer>>
    BY DEF CreateOrRemovePlan
  <1>3. \A u \in User : Current(u)' # Current(u) => u \in overtaken'
    BY <1>2 DEF CreateOrRemovePlan, Commit, Touched, Unannounced
  <1>4. \A v \in Writer : ToDelete(v)' = ToDelete(v)
    BY <1>2 DEF ToDelete
  <1>5. QED
    BY <1>1, <1>3, <1>4 DEF CoherentUnlessOvertaken

\* Any other commit leaves no user behind: the keys it makes stale will be deleted, and
\* those that others will delete still are, or are stale anew.
LEMMA CommitIsAnnounced ==
  ASSUME IInv, NEW w \in Writer, NEW p \in Plan,
         UpdatePlan(w, p) \/ \E u \in User : ChangeSubscription(w, u, p)
  PROVE  /\ \A u \in User : Touched(u) => u \in ToDelete(w)' \/ u \in overtaken'
         /\ \A u \in User, v \in Writer : u \in ToDelete(v) /\ ~Touched(u) => u \in ToDelete(v)'
  <1> USE DEF IInv, TypeOK
  <1>1. \A v \in Writer : v # w => writer'[v] = writer[v]
    BY DEF UpdatePlan, ChangeSubscription
  <1>2. ToDelete(w) = {}
    <2>1. writer[w] = IdleWriter
      BY DEF UpdatePlan, ChangeSubscription, WritersAtRest
    <2>2. QED
      BY <2>1 DEF ToDelete, IdleWriter
  <1>3. \A u \in User : Touched(u) => u \in ToDelete(w)' \/ u \in overtaken'
    <2> SUFFICES ASSUME NEW u \in User, Touched(u) PROVE u \in ToDelete(w)' \/ u \in overtaken'
      OBVIOUS
    <2>1. CASE UpdatePlan(w, p)
      <3>1. CASE zero' = zero
        BY <2>1, <3>1, UpdateIsAnnounced DEF Touched, UpdatePlan
      <3>2. CASE zero' # zero
        BY <2>1, <3>2 DEF UpdatePlan, Commit, Unannounced
      <3>3. QED
        BY <3>1, <3>2
    <2>2. ASSUME NEW v \in User, ChangeSubscription(w, v, p) PROVE u \in ToDelete(w)'
      <3>1. sub' = [sub EXCEPT ![v] = p] /\ UNCHANGED <<version, zero, active>>
        BY <2>2 DEF ChangeSubscription
      <3>2. FreePlan' = FreePlan
        BY <3>1 DEF FreePlan
      <3>3. u = v
        BY <3>1, <3>2 DEF Touched, Current, LimitsOf
      <3>4. writer'[w].keys = {v}
        BY <2>2 DEF ChangeSubscription, IdleWriter
      <3>5. QED
        BY <3>3, <3>4 DEF ToDelete
    <2>3. QED
      BY <2>1, <2>2
  <1>4. ASSUME NEW u \in User, NEW v \in Writer, u \in ToDelete(v), ~Touched(u)
        PROVE  u \in ToDelete(v)'
    <2>1. v # w
      BY <1>2, <1>4
    <2>2. QED
      BY <1>1, <1>4, <2>1 DEF ToDelete, Touched
  <1>5. QED
    BY <1>3, <1>4

LEMMA CommitKeepsCoherence ==
  ASSUME IInv, NEW w \in Writer, NEW p \in Plan,
         UpdatePlan(w, p) \/ \E u \in User : ChangeSubscription(w, u, p)
  PROVE  FillsUnderWay' /\ CoherentUnlessOvertaken'
  <1> USE DEF IInv, TypeOK
  <1>1. UNCHANGED <<cache, reader>> /\ overtaken \subseteq overtaken' /\ FillsUnderWay'
    BY CommitKeepsFills DEF UpdatePlan, ChangeSubscription
  <1>2. CoherentUnlessOvertaken'
    <2> SUFFICES ASSUME NEW u \in User, ~Touched(u), u \notin overtaken
                 PROVE  \/ \E v \in Writer : u \in ToDelete(v)'
                        \/ cache'[u] \in {None, Current(u)'}
      BY <1>1, CommitIsAnnounced DEF CoherentUnlessOvertaken
    <2>1. \A v \in Writer : u \in ToDelete(v) => u \in ToDelete(v)'
      BY CommitIsAnnounced
    <2>2. CASE cache[u] \in {None, Current(u)}
      BY <1>1, <2>2 DEF Touched
    <2>3. QED
      BY <2>1, <2>2 DEF CoherentUnlessOvertaken
  <1>3. QED
    BY <1>1, <1>2

LEMMA ReaderKeepsCoherence ==
  ASSUME IInv, NEW r \in Reader,
         \/ \E u \in User : Miss(r, u)
         \/ ReadSubscription(r) \/ ReadFreePlan(r) \/ Fill(r) \/ ReaderFails(r)
  PROVE  FillsUnderWay' /\ CoherentUnlessOvertaken'
  <1> USE DEF IInv, TypeOK
  <1>1. UNCHANGED <<sub, version, zero, active, writer, overtaken>>
    BY DEF Miss, ReadSubscription, ReadFreePlan, Fill, ReaderFails, db
  <1>2. \A u \in User : Current(u)' = Current(u)
    BY <1>1, SameRowsSameLimits
  <1>3. \A v \in Writer : ToDelete(v)' = ToDelete(v)
    BY <1>1 DEF ToDelete
  <1>4. ASSUME NEW x, reader' = [reader EXCEPT ![r] = x],
               x.at # "idle" =>
                 /\ x.user \in User
                 /\ x.at = "free" => x.user \in overtaken \/ sub[x.user] = None
                 /\ x.at = "set" => x.user \in overtaken \/ x.limits = Current(x.user)
        PROVE  FillsUnderWay'
    <2> SUFFICES ASSUME NEW q \in Reader, reader'[q].at # "idle"
                 PROVE  (LET u == reader[q].user IN
                         /\ u # None
                         /\ reader[q].at = "free" => u \in overtaken \/ sub[u] = None
                         /\ reader[q].at = "set" => u \in overtaken \/ reader[q].limits = Current(u))'
      BY DEF FillsUnderWay
    <2> USE DEF Current, LimitsOf
    <2>0. FreePlan' = FreePlan
      BY <1>1 DEF FreePlan
    <2>1. CASE q = r
      <3>1. reader'[q] = x
        BY <1>4, <2>1
      <3>2. QED
        BY <1>1, <1>4, <2>0, <3>1, PlanCacheAssumption
    <2>2. CASE q # r
      <3>1. reader'[q] = reader[q]
        BY <1>4, <2>2
      <3>2. reader[q].user \in User
        BY <3>1 DEF FillsUnderWay, Readings
      <3>3. QED
        BY <1>1, <2>0, <3>1, <3>2 DEF FillsUnderWay
    <2>3. QED
      BY <2>1, <2>2
  <1>5. reader[r].at # "idle" => reader[r].user \in User
    BY DEF FillsUnderWay, Readings
  <1>6. FillsUnderWay'
    <2>1. ASSUME NEW u \in User, Miss(r, u) PROVE FillsUnderWay'
      BY <1>4, <2>1 DEF Miss
    <2>2. CASE ReadSubscription(r) /\ sub[reader[r].user] = None
      <3> DEFINE x == [reader[r] EXCEPT !.at = "free"]
      <3>1. x.at = "free" /\ x.user = reader[r].user
        BY DEF Readings
      <3>2. reader' = [reader EXCEPT ![r] = x]
        BY <2>2 DEF ReadSubscription
      <3> HIDE DEF x
      <3>3. QED
        BY <1>4, <1>5, <2>2, <3>1, <3>2 DEF ReadSubscription
    <2>3. CASE ReadSubscription(r) /\ sub[reader[r].user] # None
      <3> DEFINE x == [at |-> "set", user |-> reader[r].user, limits |-> LimitsOf(sub[reader[r].user])]
      <3>1. reader' = [reader EXCEPT ![r] = x]
        BY <2>3 DEF ReadSubscription
      <3>2. x.limits = Current(x.user)
        BY <2>3 DEF Current
      <3>3. QED
        BY <1>4, <1>5, <2>3, <3>1, <3>2 DEF ReadSubscription
    <2>4. CASE ReadFreePlan(r)
      <3> DEFINE x == [at |-> "set", user |-> reader[r].user, limits |-> LimitsOf(FreePlan)]
      <3>1. reader' = [reader EXCEPT ![r] = x]
        BY <2>4 DEF ReadFreePlan
      <3>2. x.user \in overtaken \/ x.limits = Current(x.user)
        BY <2>4 DEF Current, ReadFreePlan, FillsUnderWay
      <3>3. QED
        BY <1>4, <1>5, <2>4, <3>1, <3>2 DEF ReadFreePlan
    <2>5. CASE Fill(r) \/ ReaderFails(r)
      BY <1>4, <2>5 DEF Fill, ReaderFails, IdleReader
    <2>6. QED
      BY <2>1, <2>2, <2>3, <2>4, <2>5 DEF ReadSubscription
  <1>7. CoherentUnlessOvertaken'
    <2>1. CASE UNCHANGED cache
      BY <1>1, <1>2, <1>3, <2>1 DEF CoherentUnlessOvertaken
    <2>2. CASE Fill(r)
      <3>1. reader[r].user \in overtaken \/ reader[r].limits = Current(reader[r].user)
        BY <2>2 DEF Fill, FillsUnderWay
      <3>2. QED
        BY <1>1, <1>2, <1>3, <2>2, <3>1 DEF Fill, CoherentUnlessOvertaken
    <2>3. QED
      BY <2>1, <2>2 DEF Miss, ReadSubscription, ReadFreePlan, ReaderFails
  <1>8. QED
    BY <1>6, <1>7

\* With the key of u gone, or on the way out, the fills under way still know.
LEMMA FillsKeepThroughDeletes ==
  ASSUME IInv, UNCHANGED <<db, reader>>,
         overtaken \subseteq overtaken' \/ \E u \in User : Cleared(u)
  PROVE  FillsUnderWay'
  <1> USE DEF IInv, TypeOK
  <1> SUFFICES ASSUME NEW r \in Reader, reader'[r].at # "idle"
               PROVE  (LET u == reader[r].user IN
                       /\ u # None
                       /\ reader[r].at = "free" => u \in overtaken \/ sub[u] = None
                       /\ reader[r].at = "set" => u \in overtaken \/ reader[r].limits = Current(u))'
    BY DEF FillsUnderWay
  <1>1. reader' = reader /\ UNCHANGED <<sub, version, zero, active>>
    BY DEF db
  <1>2. reader[r].user \in User
    BY <1>1 DEF FillsUnderWay, Readings
  <1>3. Current(reader[r].user)' = Current(reader[r].user)
    <2>1. FreePlan' = FreePlan
      BY <1>1 DEF FreePlan
    <2>2. QED
      BY <1>1, <2>1 DEF Current, LimitsOf
  <1>4. ASSUME reader[r].at \in {"free", "set"}, reader[r].user \in overtaken
        PROVE  reader[r].user \in overtaken'
    <2>1. FillUnderWay(reader[r].user)
      BY <1>4 DEF FillUnderWay
    <2>2. QED
      BY <1>2, <1>4, <2>1 DEF Cleared
  <1>5. QED
    BY <1>1, <1>2, <1>3, <1>4 DEF FillsUnderWay

\* A writer's step after its commit: what it does not delete now it will still delete.
LEMMA WriterKeepsCoherence ==
  ASSUME IInv, NEW w \in Writer,
         \/ ListSubscribers(w) \/ WriterFails(w)
         \/ \E u \in User : Scan(w, u) \/ Delete(w, u)
  PROVE  FillsUnderWay' /\ CoherentUnlessOvertaken'
  <1> USE DEF IInv, TypeOK
  <1>1. UNCHANGED <<db, reader>>
    BY DEF ListSubscribers, WriterFails, Scan, Delete
  <1>2. UNCHANGED <<sub, version, zero, active>>
    BY <1>1 DEF db
  <1>3. \A u \in User : Current(u)' = Current(u)
    BY <1>2, SameRowsSameLimits
  <1>4. FillsUnderWay'
    <2>1. overtaken \subseteq overtaken' \/ \E u \in User : Cleared(u)
      BY DEF ListSubscribers, WriterFails, Scan, Delete
    <2>2. QED
      BY <1>1, <2>1, FillsKeepThroughDeletes
  <1>5. ASSUME NEW x, writer' = [writer EXCEPT ![w] = x],
               \A u \in User : \/ u \notin overtaken \/ u \in overtaken' \/ cache'[u] = None,
               \A u \in User : \/ u \notin ToDelete(w) \/ u \in ToDelete(w)'
                               \/ u \in overtaken' \/ cache'[u] = None,
               \A u \in User : cache'[u] \in {cache[u], None}
        PROVE  CoherentUnlessOvertaken'
    <2> SUFFICES ASSUME NEW u \in User, u \notin overtaken', cache'[u] # None
                 PROVE  (\E v \in Writer : u \in ToDelete(v)') \/ cache'[u] = Current(u)'
      BY DEF CoherentUnlessOvertaken
    <2>1. u \notin overtaken /\ cache'[u] = cache[u]
      BY <1>5
    <2>2. ASSUME NEW v \in Writer, u \in ToDelete(v) PROVE u \in ToDelete(v)'
      BY <1>2, <1>5, <2>2, OthersKeep
    <2>3. QED
      BY <1>3, <2>1, <2>2 DEF CoherentUnlessOvertaken
  <1>6. ASSUME ListSubscribers(w) PROVE CoherentUnlessOvertaken'
    <2> DEFINE wr == [writer[w] EXCEPT !.keys = Subscribers(writer[w].plan)]
    <2>1. wr \in Writings /\ wr.keys = {u \in User : sub[u] = writer[w].plan}
          /\ wr.unscanned = writer[w].unscanned
      BY DEF Subscribers, Writings
    <2>2. Proceed(w, wr) /\ writer[w].at = "list" /\ UNCHANGED <<cache, overtaken>>
      BY <1>6 DEF ListSubscribers
    <2>3. writer[w].keys = {}
      BY <2>2 DEF WritersAtRest
    <2> HIDE DEF wr
    <2>4. wr.keys \cup wr.unscanned \subseteq ToDelete(w)' /\ \E x : writer' = [writer EXCEPT ![w] = x]
      BY <2>1, <2>2, ProceedKeeps
    <2>5. ToDelete(w) \subseteq ToDelete(w)'
      BY <2>1, <2>2, <2>3, <2>4 DEF ToDelete
    <2>6. QED
      BY <1>5, <2>2, <2>4, <2>5
  <1>7. ASSUME NEW u \in User, Scan(w, u) PROVE CoherentUnlessOvertaken'
    <2> DEFINE found == IF cache[u] = None THEN {} ELSE {u}
               wr == [writer[w] EXCEPT !.at = "scan", !.keys = @ \cup found, !.unscanned = @ \ {u}]
    <2>1. wr \in Writings /\ wr.keys = writer[w].keys \cup found
          /\ wr.unscanned = writer[w].unscanned \ {u}
      BY DEF Writings
    <2>2. Proceed(w, wr) \/ writer' = [writer EXCEPT ![w] = wr]
      BY <1>7 DEF Scan
    <2>3. writer[w].at \in {"del", "scan"} /\ UNCHANGED <<cache, overtaken>>
      BY <1>7 DEF Scan
    <2> HIDE DEF wr
    <2>4. wr.keys \cup wr.unscanned \subseteq ToDelete(w)' /\ \E x : writer' = [writer EXCEPT ![w] = x]
      <3>1. CASE Proceed(w, wr)
        BY <2>1, <3>1, ProceedKeeps
      <3>2. CASE writer' = [writer EXCEPT ![w] = wr]
        BY <3>2 DEF ToDelete
      <3>3. QED
        BY <2>2, <3>1, <3>2
    <2>5. ToDelete(w) = writer[w].keys \cup writer[w].unscanned
      BY <2>3 DEF ToDelete
    <2>6. \A v \in User : v \in ToDelete(w) => v \in ToDelete(w)' \/ cache'[v] = None
      BY <2>1, <2>3, <2>4, <2>5
    <2>7. QED
      BY <1>5, <2>3, <2>4, <2>6
  <1>8. ASSUME NEW u \in User, Delete(w, u) PROVE CoherentUnlessOvertaken'
    <2> DEFINE wr == [writer[w] EXCEPT !.keys = @ \ {u}]
    <2>1. wr \in Writings /\ wr.keys = writer[w].keys \ {u} /\ wr.unscanned = writer[w].unscanned
      BY DEF Writings
    <2>2. Proceed(w, wr) /\ writer[w].at = "del" /\ cache' = [cache EXCEPT ![u] = None] /\ Cleared(u)
      BY <1>8 DEF Delete
    <2> HIDE DEF wr
    <2>3. wr.keys \cup wr.unscanned \subseteq ToDelete(w)' /\ \E x : writer' = [writer EXCEPT ![w] = x]
      BY <2>1, <2>2, ProceedKeeps
    <2>4. ToDelete(w) = writer[w].keys \cup writer[w].unscanned
      BY <2>2 DEF ToDelete
    <2>5. \A v \in User : v # u /\ v \in ToDelete(w) => v \in ToDelete(w)'
      BY <2>1, <2>3, <2>4
    <2>6. \A v \in User : v # u /\ v \in overtaken => v \in overtaken'
      BY <2>2 DEF Cleared
    <2>7. QED
      BY <1>5, <2>2, <2>3, <2>5, <2>6
  <1>9. ASSUME WriterFails(w) PROVE CoherentUnlessOvertaken'
    BY <1>5, <1>9 DEF WriterFails
  <1>10. QED
    BY <1>4, <1>6, <1>7, <1>8, <1>9

LEMMA ExpireKeepsCoherence ==
  ASSUME IInv, NEW u \in User, Expire(u)
  PROVE  FillsUnderWay' /\ CoherentUnlessOvertaken'
  <1> USE DEF IInv, TypeOK
  <1>1. UNCHANGED <<sub, version, zero, active, db, reader, writer>> /\ Cleared(u)
        /\ cache' = [cache EXCEPT ![u] = None]
    BY DEF Expire, db
  <1>2. FillsUnderWay'
    BY <1>1, FillsKeepThroughDeletes
  <1>3. \A v \in User : Current(v)' = Current(v)
    BY <1>1, SameRowsSameLimits
  <1>4. \A v \in Writer : ToDelete(v)' = ToDelete(v)
    BY <1>1 DEF ToDelete
  <1>5. CoherentUnlessOvertaken'
    BY <1>1, <1>3, <1>4 DEF Cleared, CoherentUnlessOvertaken
  <1>6. QED
    BY <1>2, <1>5
-----------------------------------------------------------------------------
(* Theorems *)

LEMMA InitIInv == Init => IInv
  <1> SUFFICES ASSUME Init PROVE IInv
    OBVIOUS
  <1>1. TypeOK
    BY PlanCacheAssumption DEF Init, TypeOK, Readings, Writings, IdleReader, IdleWriter
  <1>2. FillsUnderWay /\ WritersAtRest
    BY DEF Init, FillsUnderWay, WritersAtRest, IdleReader, IdleWriter
  <1>3. CoherentUnlessOvertaken
    BY DEF Init, CoherentUnlessOvertaken
  <1>4. QED
    BY <1>1, <1>2, <1>3 DEF IInv

LEMMA NextIInv == IInv /\ [Next]_vars => IInv'
  <1> SUFFICES ASSUME IInv, [Next]_vars PROVE IInv'
    OBVIOUS
  <1>1. TypeOK' /\ WritersAtRest'
    BY TypeInductive, WritersInductive DEF IInv
  <1>2. FillsUnderWay' /\ CoherentUnlessOvertaken'
    <2>1. CASE UNCHANGED vars
      <3>1. UNCHANGED <<sub, version, zero, active, cache, reader, writer, overtaken>>
        BY <2>1 DEF vars, db
      <3>2. \A v \in Writer : ToDelete(v)' = ToDelete(v)
        BY <3>1 DEF ToDelete
      <3>3. \A u \in User : Current(u)' = Current(u)
        BY <3>1, SameRowsSameLimits
      <3>4. FillsUnderWay'
        BY <2>1, FillsKeepThroughDeletes DEF vars
      <3>5. QED
        BY <3>1, <3>2, <3>3, <3>4 DEF IInv, CoherentUnlessOvertaken
    <2>2. QED
      BY <2>1, SilentCommitKeepsCoherence, CommitKeepsCoherence, ReaderKeepsCoherence, WriterKeepsCoherence,
         ExpireKeepsCoherence DEF Next
  <1>3. QED
    BY <1>1, <1>2 DEF IInv

LEMMA IInvHolds == Spec => []IInv
  BY InitIInv, NextIInv, PTL DEF Spec

\* A cached plan differs from the database only while a writer is on its way to
\* delete it, after a commit that overtook a fill, after a writer died or after a
\* plan changed sides between free and paid: for any number of users, plans,
\* requests and writers.
THEOREM StaleOnlyIfOvertaken == Spec => []PlansAreSound
  <1>1. IInv => PlansAreSound
    BY DEF IInv, PlansAreSound
  <1>2. QED
    BY <1>1, IInvHolds, PTL

\* The variables of the plan cache keep their types.
THEOREM TypeCorrect == Spec => []TypeOK
  BY IInvHolds, PTL DEF IInv
-----------------------------------------------------------------------------
(* A cache that is written, stored and dropped *)

LEMMA LateUsers ==
  /\ \A u : u \in Late <=> u \in overtaken \/ \E w \in Writer : u \in ToDelete(w)
  /\ \A u : u \in Late' <=> u \in overtaken' \/ \E w \in Writer : u \in ToDelete(w)'
  /\ TypeOK => Late \subseteq User
  /\ TypeOK' => Late' \subseteq User
  <1>1. /\ \A u : u \in Late <=> u \in overtaken \/ \E w \in Writer : u \in ToDelete(w)
        /\ \A u : u \in Late' <=> u \in overtaken' \/ \E w \in Writer : u \in ToDelete(w)'
    BY DEF Late
  <1>2. ASSUME TypeOK, NEW w \in Writer PROVE ToDelete(w) \subseteq User
    BY <1>2 DEF ToDelete, TypeOK, Writings
  <1>3. TypeOK => overtaken \subseteq User
    BY DEF TypeOK
  <1>4. ASSUME TypeOK', NEW w \in Writer PROVE ToDelete(w)' \subseteq User
    BY <1>4 DEF ToDelete, TypeOK, Writings
  <1>5. TypeOK' => overtaken' \subseteq User
    BY DEF TypeOK
  <1>6. QED
    BY <1>1, <1>2, <1>3, <1>4, <1>5

\* A step that leaves the keys alone and whoever is late.
LEMMA WriteStep ==
  ASSUME Late' \subseteq User, UNCHANGED cache,
         \A u \in Late : u \in Late',
         \A u \in User : Current(u)' = Current(u) \/ u \in Late'
  PROVE  PlanKeys!Write
  <1>1. Late' = Late \cup (Late' \ Late) /\ Late' \ Late \in SUBSET User
    OBVIOUS
  <1>2. \A u \in User \ Late' : [v \in User |-> {Current(v)}]'[u] = [v \in User |-> {Current(v)}][u]
    OBVIOUS
  <1>3. QED
    BY <1>1, <1>2 DEF PlanKeys!Write

\* A step that drops the key of one user, or finds it absent.
LEMMA DropStep ==
  ASSUME NEW u \in User, UNCHANGED <<sub, version, zero, active>>,
         cache' = [cache EXCEPT ![u] = None],
         \A v : v # u => (v \in Late' <=> v \in Late)
  PROVE  PlanKeys!Drop(u)
  <1>1. Late' \in {Late \cup {u}, Late \ {u}}
    <2>1. CASE u \in Late'
      <3>1. Late' = Late \cup {u}
        BY <2>1
      <3>2. QED
        BY <3>1
    <2>2. CASE u \notin Late'
      <3>1. Late' = Late \ {u}
        BY <2>2
      <3>2. QED
        BY <3>1
    <2>3. QED
      BY <2>1, <2>2
  <1>2. [v \in User |-> {Current(v)}]' = [v \in User |-> {Current(v)}]
    BY SameRowsSameLimits
  <1>3. QED
    BY <1>1, <1>2 DEF PlanKeys!Drop

\* A writer that goes on: of the keys it was to delete it gives up at most one.
LEMMA WriterGoesOn ==
  ASSUME IInv, NEW w \in Writer, NEW x, writer' = [writer EXCEPT ![w] = x], UNCHANGED sub,
         NEW u \in User,
         \A v : v # u => (v \in ToDelete(w)' <=> v \in ToDelete(w)),
         \A v : v # u => (v \in overtaken' <=> v \in overtaken)
  PROVE  \A v : v # u => (v \in Late' <=> v \in Late)
  <1>1. \A q \in Writer : q # w => ToDelete(q)' = ToDelete(q)
    BY OthersKeep DEF IInv
  <1>2. QED
    BY <1>1, LateUsers

LEMMA ScanIsDrop ==
  ASSUME IInv, NEW w \in Writer, NEW u \in User, Scan(w, u), cache[u] = None
  PROVE  PlanKeys!Drop(u)
  <1> USE DEF IInv, TypeOK
  <1> DEFINE wr == [writer[w] EXCEPT !.at = "scan", !.keys = @ \cup {}, !.unscanned = @ \ {u}]
  <1>1. wr \in Writings /\ wr.keys = writer[w].keys /\ wr.unscanned = writer[w].unscanned \ {u}
        /\ wr.at = "scan"
    BY DEF Writings
  <1>2. Proceed(w, wr) \/ writer' = [writer EXCEPT ![w] = wr]
    BY DEF Scan
  <1>3. writer[w].at \in {"del", "scan"} /\ UNCHANGED <<db, cache, overtaken>>
    BY DEF Scan
  <1> HIDE DEF wr
  <1>4. ToDelete(w)' = wr.keys \cup wr.unscanned /\ \E x : writer' = [writer EXCEPT ![w] = x]
    <2>1. CASE Proceed(w, wr)
      BY <1>1, <2>1, ProceedKeeps
    <2>2. CASE writer' = [writer EXCEPT ![w] = wr]
      BY <1>1, <2>2 DEF ToDelete
    <2>3. QED
      BY <1>2, <2>1, <2>2
  <1>5. ToDelete(w) = writer[w].keys \cup writer[w].unscanned
    BY <1>3 DEF ToDelete
  <1>6. \A v : v # u => (v \in Late' <=> v \in Late)
    BY <1>1, <1>3, <1>4, <1>5, WriterGoesOn DEF db
  <1>7. cache' = [cache EXCEPT ![u] = None]
    BY <1>3
  <1>8. QED
    BY <1>3, <1>6, <1>7, DropStep DEF db

LEMMA DeleteIsDrop ==
  ASSUME IInv, NEW w \in Writer, NEW u \in User, Delete(w, u)
  PROVE  PlanKeys!Drop(u)
  <1> USE DEF IInv, TypeOK
  <1> DEFINE wr == [writer[w] EXCEPT !.keys = @ \ {u}]
  <1>1. wr \in Writings /\ wr.keys = writer[w].keys \ {u} /\ wr.unscanned = writer[w].unscanned
    BY DEF Writings
  <1>2. /\ Proceed(w, wr) /\ writer[w].at = "del" /\ cache' = [cache EXCEPT ![u] = None]
        /\ Cleared(u) /\ UNCHANGED db
    BY DEF Delete
  <1> HIDE DEF wr
  <1>3. ToDelete(w)' = wr.keys \cup wr.unscanned /\ \E x : writer' = [writer EXCEPT ![w] = x]
    BY <1>1, <1>2, ProceedKeeps
  <1>4. ToDelete(w) = writer[w].keys \cup writer[w].unscanned
    BY <1>2 DEF ToDelete
  <1>5. \A v : v # u => (v \in overtaken' <=> v \in overtaken)
    BY <1>2 DEF Cleared
  <1>6. \A v : v # u => (v \in Late' <=> v \in Late)
    BY <1>1, <1>2, <1>3, <1>4, <1>5, WriterGoesOn DEF db
  <1>7. QED
    BY <1>2, <1>6, DropStep DEF db

\* Listing and finding keys, and dying, forget nobody.
LEMMA WriterIsWrite ==
  ASSUME IInv, Late' \subseteq User, NEW w \in Writer,
         ListSubscribers(w) \/ WriterFails(w) \/ \E u \in User : Scan(w, u) /\ cache[u] # None
  PROVE  PlanKeys!Write
  <1> USE DEF IInv, TypeOK
  <1>1. UNCHANGED <<db, cache>> /\ overtaken \subseteq overtaken'
    <2>1. CASE ListSubscribers(w)
      BY <2>1 DEF ListSubscribers
    <2>2. CASE WriterFails(w)
      BY <2>2 DEF WriterFails
    <2>3. ASSUME NEW u \in User, Scan(w, u) PROVE UNCHANGED <<db, cache, overtaken>>
      BY <2>3 DEF Scan
    <2>4. QED
      BY <2>1, <2>2, <2>3
  <1>2. \A u \in User : Current(u)' = Current(u)
    BY <1>1, SameRowsSameLimits DEF db
  <1>3. ASSUME NEW x, writer' = [writer EXCEPT ![w] = x],
               \A u \in ToDelete(w) : u \in ToDelete(w)' \/ u \in overtaken'
        PROVE  PlanKeys!Write
    <2>1. \A q \in Writer : q # w => ToDelete(q)' = ToDelete(q)
      BY <1>1, <1>3, OthersKeep DEF db
    <2>2. \A u \in Late : u \in Late'
      BY <1>1, <1>3, <2>1, LateUsers
    <2>3. QED
      BY <1>1, <1>2, <2>2, WriteStep
  <1>4. CASE ListSubscribers(w)
    <2> DEFINE wr == [writer[w] EXCEPT !.keys = Subscribers(writer[w].plan)]
    <2>1. wr \in Writings /\ wr.keys = {u \in User : sub[u] = writer[w].plan}
          /\ wr.unscanned = writer[w].unscanned
      BY DEF Subscribers, Writings, TypeOK
    <2>2. Proceed(w, wr) /\ writer[w].at = "list"
      BY <1>4 DEF ListSubscribers
    <2>3. writer[w].keys = {}
      BY <2>2 DEF WritersAtRest, IInv
    <2> HIDE DEF wr
    <2>4. ToDelete(w)' = wr.keys \cup wr.unscanned /\ \E x : writer' = [writer EXCEPT ![w] = x]
      BY <2>1, <2>2, ProceedKeeps
    <2>5. ToDelete(w) = ToDelete(w)'
      BY <2>1, <2>2, <2>3, <2>4 DEF ToDelete
    <2>6. QED
      BY <1>3, <2>4, <2>5
  <1>5. ASSUME NEW u \in User, Scan(w, u), cache[u] # None PROVE PlanKeys!Write
    <2> DEFINE found == IF cache[u] = None THEN {} ELSE {u}
               wr == [writer[w] EXCEPT !.at = "scan", !.keys = @ \cup found, !.unscanned = @ \ {u}]
    <2>1. wr \in Writings /\ wr.keys = writer[w].keys \cup {u}
          /\ wr.unscanned = writer[w].unscanned \ {u} /\ wr.at = "scan"
      <3>1. found = {u}
        BY <1>5
      <3> HIDE DEF found
      <3>2. QED
        BY <3>1 DEF Writings
    <2>2. Proceed(w, wr) \/ writer' = [writer EXCEPT ![w] = wr]
      BY <1>5 DEF Scan
    <2>3. writer[w].at \in {"del", "scan"}
      BY <1>5 DEF Scan
    <2> HIDE DEF wr
    <2>4. ToDelete(w)' = wr.keys \cup wr.unscanned /\ \E x : writer' = [writer EXCEPT ![w] = x]
      <3>1. CASE Proceed(w, wr)
        BY <2>1, <3>1, ProceedKeeps
      <3>2. CASE writer' = [writer EXCEPT ![w] = wr]
        BY <2>1, <3>2 DEF ToDelete, TypeOK
      <3>3. QED
        BY <2>2, <3>1, <3>2
    <2>5. ToDelete(w) \subseteq ToDelete(w)'
      BY <2>1, <2>3, <2>4 DEF ToDelete
    <2>6. QED
      BY <1>3, <2>4, <2>5
  <1>6. CASE WriterFails(w)
    BY <1>3, <1>6 DEF WriterFails
  <1>7. QED
    BY <1>4, <1>5, <1>6

\* A commit changes what queries find only behind keys that are late from then on.
LEMMA CommitIsWrite ==
  ASSUME IInv, Late' \subseteq User,
         \/ \E w \in Writer, p \in Plan : UpdatePlan(w, p) \/ \E u \in User : ChangeSubscription(w, u, p)
         \/ \E p \in Plan : CreateOrRemovePlan(p)
  PROVE  PlanKeys!Write
  <1> USE DEF IInv, TypeOK
  <1>1. UNCHANGED cache /\ overtaken \subseteq overtaken'
    BY CommitKeepsFills DEF UpdatePlan, ChangeSubscription, CreateOrRemovePlan
  <1>2. ASSUME NEW w \in Writer, NEW p \in Plan,
               UpdatePlan(w, p) \/ \E u \in User : ChangeSubscription(w, u, p)
        PROVE  PlanKeys!Write
    <2>1. \A u \in User : Touched(u) => u \in Late'
      BY <1>2, CommitIsAnnounced, LateUsers
    <2>2. \A u \in Late : u \in Late'
      <3>1. \A u \in Late : u \in User
        BY LateUsers
      <3>2. \A u \in User, v \in Writer : u \in ToDelete(v) /\ ~Touched(u) => u \in ToDelete(v)'
        BY <1>2, CommitIsAnnounced
      <3>3. QED
        BY <1>1, <2>1, <3>1, <3>2, LateUsers
    <2>3. QED
      BY <1>1, <2>1, <2>2, WriteStep DEF Touched
  <1>3. ASSUME NEW p \in Plan, CreateOrRemovePlan(p) PROVE PlanKeys!Write
    <2>1. UNCHANGED <<sub, writer>>
      BY <1>3 DEF CreateOrRemovePlan
    <2>2. \A u \in User : Current(u)' # Current(u) => u \in overtaken'
      BY <1>3, <2>1 DEF CreateOrRemovePlan, Commit, Touched, Unannounced
    <2>3. \A v \in Writer : ToDelete(v)' = ToDelete(v)
      BY <2>1 DEF ToDelete
    <2>4. \A u \in Late : u \in Late'
      BY <1>1, <2>3, LateUsers
    <2>5. QED
      BY <1>1, <2>2, <2>4, LateUsers, WriteStep
  <1>4. QED
    BY <1>2, <1>3

LEMMA ReaderIsFillOrWrite ==
  ASSUME IInv, Late' \subseteq User, NEW r \in Reader,
         \/ \E u \in User : Miss(r, u)
         \/ ReadSubscription(r) \/ ReadFreePlan(r) \/ Fill(r) \/ ReaderFails(r)
  PROVE  PlanKeys!RNext
  <1> USE DEF IInv, TypeOK
  <1>1. UNCHANGED <<sub, version, zero, active, writer, overtaken>>
    BY DEF Miss, ReadSubscription, ReadFreePlan, Fill, ReaderFails, db
  <1>2. \A u \in User : Current(u)' = Current(u)
    BY <1>1, SameRowsSameLimits
  <1>3. Late' = Late
    BY <1>1 DEF Late, ToDelete
  <1>4. CASE Fill(r)
    <2> DEFINE u == reader[r].user
    <2>1. u \in User /\ (u \in overtaken \/ reader[r].limits = Current(u))
      BY <1>4 DEF Fill, FillsUnderWay, Readings
    <2>2. cache' = [cache EXCEPT ![u] = reader[r].limits] /\ cache'[u] = reader[r].limits
      BY <1>4, <2>1 DEF Fill
    <2>3. cache' = [cache EXCEPT ![u] = cache'[u]]
      BY <2>2
    <2>4. cache'[u] \in {Current(u)} \/ u \in Late
      BY <2>1, <2>2, LateUsers
    <2>5. [v \in User |-> {Current(v)}]' = [v \in User |-> {Current(v)}]
      BY <1>2
    <2>6. PlanKeys!Fill(u)
      BY <1>3, <2>1, <2>3, <2>4, <2>5 DEF PlanKeys!Fill
    <2>7. QED
      BY <2>1, <2>6 DEF PlanKeys!RNext
  <1>5. CASE UNCHANGED cache
    BY <1>2, <1>3, <1>5, WriteStep DEF PlanKeys!RNext
  <1>6. QED
    BY <1>4, <1>5 DEF Miss, ReadSubscription, ReadFreePlan, ReaderFails

LEMMA ExpireIsDrop ==
  ASSUME IInv, NEW u \in User, Expire(u) PROVE PlanKeys!Drop(u)
  <1>1. UNCHANGED <<sub, version, zero, active, writer>> /\ Cleared(u)
        /\ cache' = [cache EXCEPT ![u] = None]
    BY DEF Expire, db
  <1>2. \A w \in Writer : ToDelete(w)' = ToDelete(w)
    BY <1>1 DEF ToDelete
  <1>3. \A v : v # u => (v \in Late' <=> v \in Late)
    BY <1>1, <1>2, LateUsers DEF Cleared
  <1>4. QED
    BY <1>1, <1>3, DropStep

LEMMA InitIsEmpty == Init => PlanKeys!RInit
  <1> SUFFICES ASSUME Init PROVE PlanKeys!RInit
    OBVIOUS
  <1>1. Late = {}
    BY LateUsers DEF Init, ToDelete, IdleWriter
  <1>2. QED
    BY <1>1 DEF Init, PlanKeys!RInit

LEMMA StepIsOfTheCache == IInv /\ IInv' /\ [Next]_vars => [PlanKeys!RNext]_PlanKeys!rvars
  <1> SUFFICES ASSUME IInv, IInv', [Next]_vars PROVE [PlanKeys!RNext]_PlanKeys!rvars
    OBVIOUS
  <1>0. Late' \subseteq User
    BY LateUsers DEF IInv
  <1>1. ASSUME NEW r \in Reader,
               \/ \E u \in User : Miss(r, u)
               \/ ReadSubscription(r) \/ ReadFreePlan(r) \/ Fill(r) \/ ReaderFails(r)
        PROVE  PlanKeys!RNext
    BY <1>0, <1>1, ReaderIsFillOrWrite
  <1>2. ASSUME NEW w \in Writer, ListSubscribers(w) \/ WriterFails(w) PROVE PlanKeys!RNext
    BY <1>0, <1>2, WriterIsWrite DEF PlanKeys!RNext
  <1>3. ASSUME NEW w \in Writer, NEW u \in User, Scan(w, u) \/ Delete(w, u) PROVE PlanKeys!RNext
    BY <1>0, <1>3, WriterIsWrite, ScanIsDrop, DeleteIsDrop DEF PlanKeys!RNext
  <1>4. ASSUME \/ \E w \in Writer, p \in Plan : UpdatePlan(w, p) \/ \E u \in User : ChangeSubscription(w, u, p)
               \/ \E p \in Plan : CreateOrRemovePlan(p)
        PROVE  PlanKeys!RNext
    BY <1>0, <1>4, CommitIsWrite DEF PlanKeys!RNext
  <1>5. ASSUME NEW u \in User, Expire(u) PROVE PlanKeys!RNext
    BY <1>5, ExpireIsDrop DEF PlanKeys!RNext
  <1>6. CASE UNCHANGED vars
    <2>1. UNCHANGED <<sub, version, zero, active, cache, writer, overtaken>>
      BY <1>6 DEF vars, db
    <2>2. \A u \in User : Current(u)' = Current(u)
      BY <2>1, SameRowsSameLimits
    <2>3. Late' = Late
      BY <2>1 DEF Late, ToDelete
    <2>4. QED
      BY <1>0, <2>1, <2>2, <2>3, WriteStep DEF PlanKeys!RNext
  <1>7. QED
    BY <1>1, <1>2, <1>3, <1>4, <1>5, <1>6 DEF Next

\* Requests that fill the cache, writers that delete from it and all their failures
\* amount to a read-through cache: a key is stale only while it is late, and a late key is
\* forgotten by nobody before it has been absent.
THEOREM PlansAreReadThrough == Spec => ImplementsReadThrough
  BY InitIsEmpty, StepIsOfTheCache, IInvHolds, PTL
     DEF Spec, ImplementsReadThrough, PlanKeys!RSpec

\* What a cache promises is worth: a key that is not late holds what a query would find.
THEOREM ReadThroughIsCoherent == ImplementsReadThrough => []PlanKeys!Coherent
  <1> DEFINE keys == cache = [u \in User |-> cache[u]]
  <1>1. PlanKeys!RInit => keys /\ PlanKeys!Coherent
    BY DEF PlanKeys!RInit, PlanKeys!Coherent
  <1>2. keys /\ PlanKeys!Coherent /\ [PlanKeys!RNext]_PlanKeys!rvars => keys' /\ PlanKeys!Coherent'
    <2> SUFFICES ASSUME keys, PlanKeys!Coherent, [PlanKeys!RNext]_PlanKeys!rvars
                 PROVE  keys' /\ PlanKeys!Coherent'
      OBVIOUS
    <2>1. CASE PlanKeys!Write
      BY <2>1 DEF PlanKeys!Write, PlanKeys!Coherent
    <2>2. ASSUME NEW u \in User, PlanKeys!Fill(u) PROVE keys' /\ PlanKeys!Coherent'
      BY <2>2 DEF PlanKeys!Fill, PlanKeys!Coherent
    <2>3. ASSUME NEW u \in User, PlanKeys!Drop(u) PROVE keys' /\ PlanKeys!Coherent'
      BY <2>3 DEF PlanKeys!Drop, PlanKeys!Coherent
    <2>4. CASE UNCHANGED PlanKeys!rvars
      BY <2>4 DEF PlanKeys!rvars, PlanKeys!Coherent
    <2>5. QED
      BY <2>1, <2>2, <2>3, <2>4 DEF PlanKeys!RNext
  <1>3. QED
    BY <1>1, <1>2, PTL DEF ImplementsReadThrough, PlanKeys!RSpec
-----------------------------------------------------------------------------
(* Sign-in: types *)

\* Requests that may still send a code: each was counted when it began.
Sending == {r \in Request : request[r].at \in {"expireRate", "send"}}

\* Codes are sent by requests that began.
CodesCounted == codes + Cardinality(Sending) =< begun

\* Codes and tokens that requests and rows name are among those there are.
Numbered ==
  /\ \A r \in Request : request[r].code =< codes /\ request[r].token =< issued
  /\ \A c \in Code : logins[c] > 0 => c =< codes
  /\ \A t \in Token : t > issued => token[t] = [session |-> 0, state |-> "none"]
  /\ \A t \in Token : t =< issued => token[t].session \in 1..t
  /\ \A s \in forked \cup ended : s =< issued
  /\ \A r \in Request : request[r].at = "rotate" => request[r].token > 0 /\ request[r].existing = "live"
  /\ \A r \in Request : request[r].at = "delete" => request[r].code > 0

SessionTypes == SessionsTypeOK /\ CodesCounted /\ Numbered

LEMMA RequestsAreFinite ==
  ASSUME NEW S \in SUBSET Request
  PROVE  IsFiniteSet(S) /\ Cardinality(S) \in Nat /\ Cardinality(S) =< Cardinality(Request)
         /\ Cardinality(Request) \in Nat
  BY SessionsAssumption, FS_Subset, FS_CardinalityType

\* One member more, one less, or some less.
LEMMA Members ==
  ASSUME NEW S \in SUBSET Request, NEW T \in SUBSET Request, NEW r \in Request
  PROVE  /\ T \subseteq S => Cardinality(T) =< Cardinality(S)
         /\ T \subseteq S \cup {r} => Cardinality(T) =< Cardinality(S) + 1
         /\ r \in S /\ T \subseteq S \ {r} => Cardinality(T) + 1 =< Cardinality(S)
  <1>1. IsFiniteSet(S) /\ IsFiniteSet(T) /\ Cardinality(S) \in Nat /\ Cardinality(T) \in Nat
    BY RequestsAreFinite
  <1>2. T \subseteq S => Cardinality(T) =< Cardinality(S)
    BY <1>1, FS_Subset
  <1>3. ASSUME T \subseteq S \cup {r} PROVE Cardinality(T) =< Cardinality(S) + 1
    <2>1. /\ IsFiniteSet(S \cup {r})
          /\ Cardinality(S \cup {r}) = IF r \in S THEN Cardinality(S) ELSE Cardinality(S) + 1
      BY <1>1, FS_AddElement
    <2>2. T \in SUBSET (S \cup {r})
      BY <1>3
    <2>3. Cardinality(T) =< Cardinality(S \cup {r})
      BY <2>1, <2>2, FS_Subset
    <2>4. Cardinality(S \cup {r}) \in Nat
      BY <2>1, FS_CardinalityType
    <2>5. QED
      BY <1>1, <2>1, <2>3, <2>4
  <1>4. ASSUME r \in S, T \subseteq S \ {r} PROVE Cardinality(T) + 1 =< Cardinality(S)
    <2>1. IsFiniteSet(S \ {r}) /\ Cardinality(S \ {r}) = Cardinality(S) - 1
      BY <1>1, <1>4, FS_RemoveElement
    <2>2. Cardinality(T) =< Cardinality(S \ {r})
      BY <1>4, <2>1, FS_Subset
    <2>3. QED
      BY <1>1, <2>1, <2>2
  <1>5. QED
    BY <1>2, <1>3, <1>4

LEMMA InitSessionTypes == SessionsInit => SessionTypes
  <1> SUFFICES ASSUME SessionsInit PROVE SessionTypes
    OBVIOUS
  <1> USE SessionsAssumption DEF SessionsInit
  <1>1. Sending = {}
    BY DEF Sending, Idle
  <1>2. Cardinality(Sending) = 0
    BY <1>1, FS_EmptySet
  <1>3. SessionsTypeOK
    <2>1. rate \in [n : Nat, ttl : BOOLEAN] /\ attempt \in [n : Nat, ttl : BOOLEAN]
      BY DEF Absent
    <2>2. token \in [Token -> [session : 0..MaxTokens, state : {"none", "live", "revoked", "expired"}]]
      BY DEF Token
    <2>3. request \in [Request ->
            [at : {"idle", "expireRate", "send", "expireAttempt", "compare", "delete", "find",
                   "create", "gate", "issue", "rotate"},
             count : Nat, code : 0..MaxSessionRequests, token : 0..MaxTokens,
             existing : {"none", "live", "revoked", "expired"}]]
      BY DEF Idle
    <2>4. /\ otp \in 0..codes /\ codes \in 0..MaxSessionRequests /\ tried \in Nat
          /\ issued \in 0..MaxTokens /\ begun \in 0..MaxSessionRequests
      OBVIOUS
    <2>5. logins \in [Code -> Nat]
      OBVIOUS
    <2>6. QED
      BY <2>1, <2>2, <2>3, <2>4, <2>5 DEF SessionsTypeOK
  <1>4. CodesCounted
    BY <1>2 DEF CodesCounted
  <1>5. Numbered
    <2>1. \A r \in Request : request[r] = Idle
      OBVIOUS
    <2>2. QED
      BY <2>1 DEF Numbered, Idle, Code, Token
  <1>6. QED
    BY <1>3, <1>4, <1>5 DEF SessionTypes

LEMMA NextCounted == SessionsTypeOK /\ CodesCounted /\ [SessionsNext]_sessionVars
                     => CodesCounted' /\ codes' \in 0..MaxSessionRequests /\ begun' \in 0..MaxSessionRequests
  <1> SUFFICES ASSUME SessionsTypeOK, CodesCounted, [SessionsNext]_sessionVars
               PROVE  CodesCounted' /\ codes' \in 0..MaxSessionRequests /\ begun' \in 0..MaxSessionRequests
    OBVIOUS
  <1> USE SessionsAssumption
  <1>1. codes \in Nat /\ begun \in Nat /\ begun =< MaxSessionRequests /\ MaxSessionRequests \in Nat
    BY DEF SessionsTypeOK
  <1>2. Sending \in SUBSET Request /\ Sending' \in SUBSET Request
    BY DEF Sending
  <1>3. Cardinality(Sending) \in Nat /\ Cardinality(Sending') \in Nat
    BY <1>2, RequestsAreFinite
  <1>4. ASSUME codes' \in Nat, begun' \in 0..MaxSessionRequests, codes' + Cardinality(Sending') =< begun'
        PROVE  CodesCounted' /\ codes' \in 0..MaxSessionRequests /\ begun' \in 0..MaxSessionRequests
    BY <1>1, <1>3, <1>4 DEF CodesCounted
  <1>5. ASSUME codes' = codes, begun' \in 0..MaxSessionRequests, begun =< begun', Sending' \subseteq Sending
        PROVE  CodesCounted' /\ codes' \in 0..MaxSessionRequests /\ begun' \in 0..MaxSessionRequests
    <2>1. Request = {} \/ Cardinality(Sending') =< Cardinality(Sending)
      BY <1>2, <1>5, Members
    <2>2. Request = {} => Cardinality(Sending') = 0
      BY <1>2, FS_EmptySet
    <2>3. QED
      BY <1>1, <1>3, <1>4, <1>5, <2>1, <2>2 DEF CodesCounted
  <1>6. ASSUME NEW r \in Request, CountSend(r)
        PROVE  CodesCounted' /\ codes' \in 0..MaxSessionRequests /\ begun' \in 0..MaxSessionRequests
    <2>1. codes' = codes /\ begun' = begun + 1 /\ begun < MaxSessionRequests
      BY <1>6 DEF CountSend, BeginRequest
    <2>2. Sending' \subseteq Sending \cup {r}
      BY <1>6 DEF CountSend, BeginRequest, Sending, SessionsTypeOK
    <2>3. Cardinality(Sending') =< Cardinality(Sending) + 1
      BY <1>2, <2>2, Members
    <2>4. QED
      BY <1>1, <1>3, <1>4, <2>1, <2>3 DEF CodesCounted
  <1>7. ASSUME NEW r \in Request, StoreCode(r)
        PROVE  CodesCounted' /\ codes' \in 0..MaxSessionRequests /\ begun' \in 0..MaxSessionRequests
    <2>1. codes' = codes + 1 /\ begun' = begun /\ r \in Sending
      BY <1>7 DEF StoreCode, Goes, Sending
    <2>2. Sending' \subseteq Sending \ {r}
      BY <1>7 DEF StoreCode, Goes, Idle, Sending, SessionsTypeOK
    <2>3. Cardinality(Sending') + 1 =< Cardinality(Sending)
      BY <1>2, <2>1, <2>2, Members
    <2>4. QED
      BY <1>1, <1>3, <1>4, <2>1, <2>3 DEF CodesCounted
  <1>8. ASSUME NEW r \in Request, OfRequest(r), ~CountSend(r), ~StoreCode(r)
        PROVE  CodesCounted' /\ codes' \in 0..MaxSessionRequests /\ begun' \in 0..MaxSessionRequests
    <2> USE DEF Sending, SessionsTypeOK, Idle, Goes, GoesTo, BeginRequest, redis
    <2>1. CASE ExpireRate(r) \/ ExpireAttempt(r)
      BY <1>5, <2>1 DEF ExpireRate, ExpireAttempt
    <2>2. CASE Compare(r)
      BY <1>5, <2>2 DEF Compare
    <2>3. CASE DeleteCode(r) \/ FindUser(r)
      BY <1>5, <2>3 DEF DeleteCode, FindUser
    <2>4. CASE CreateUser(r) \/ Gate(r) \/ Rotate(r)
      BY <1>5, <2>4 DEF CreateUser, Gate, Rotate
    <2>5. CASE Issue(r) \/ Fail(r)
      BY <1>5, <2>5 DEF Issue, Fail
    <2>6. CASE \E c \in 0..codes : CountAttempt(r, c)
      BY <1>1, <1>5, <2>6 DEF CountAttempt
    <2>7. CASE \E t \in Token : CheckToken(r, t)
      BY <1>1, <1>5, <2>7 DEF CheckToken
    <2>8. QED
      BY <1>8, <2>1, <2>2, <2>3, <2>4, <2>5, <2>6, <2>7 DEF OfRequest
  <1>9. ASSUME request' = request, codes' = codes, begun' = begun
        PROVE  CodesCounted' /\ codes' \in 0..MaxSessionRequests /\ begun' \in 0..MaxSessionRequests
    BY <1>1, <1>5, <1>9 DEF Sending
  <1>10. CASE \/ \E t \in Token : Logout(t) \/ TokenExpires(t)
              \/ \E state \in {"active", "disabled"} : SetActive(state)
              \/ CodeExpires \/ RateExpires \/ AttemptExpires \/ UNCHANGED sessionVars
    BY <1>9, <1>10 DEF Logout, TokenExpires, SetActive, CodeExpires, RateExpires, AttemptExpires, redis,
                       sessionVars
  <1>11. QED
    BY <1>6, <1>7, <1>8, <1>10 DEF SessionsNext
\* The records of requests in progress.
RequestRecord ==
  [at : {"idle", "expireRate", "send", "expireAttempt", "compare", "delete", "find",
         "create", "gate", "issue", "rotate"},
   count : Nat, code : 0..MaxSessionRequests, token : 0..MaxTokens,
   existing : {"none", "live", "revoked", "expired"}]

\* What a request may become: it names codes and tokens that exist.
IsSound(x) ==
  /\ x \in RequestRecord
  /\ x.code =< codes' /\ x.token =< issued
  /\ x.at = "rotate" => x.token > 0 /\ x.existing = "live"
  /\ x.at = "delete" => x.code > 0

\* The values of the two counters.
Counter == [n : Nat, ttl : BOOLEAN]

LEMMA Counters ==
  /\ Absent \in Counter /\ Absent.n = 0
  /\ \A k \in Counter : /\ k.n \in Nat
                        /\ Incr(k) \in Counter /\ Incr(k).n = k.n + 1
                        /\ Ttl(k) \in Counter /\ Ttl(k).n = k.n
  <1>1. Absent \in Counter /\ Absent.n = 0
    BY DEF Counter, Absent
  <1>2. ASSUME NEW k \in Counter PROVE k.n \in Nat /\ Incr(k) \in Counter /\ Incr(k).n = k.n + 1
    BY DEF Counter, Incr
  <1>3. ASSUME NEW k \in Counter PROVE Ttl(k) \in Counter /\ Ttl(k).n = k.n
    BY DEF Counter, Ttl
  <1>4. QED
    BY <1>1, <1>2, <1>3

\* Requests that begin: those that count, and those that refresh.
Counted == [at : {"idle", "expireRate", "send", "expireAttempt", "compare"}, count : Nat,
            code : 0..codes', token : {0}, existing : {"none"}]
Refreshing == [at : {"rotate"}, count : {0}, code : {0}, token : 1..issued, existing : {"live"}]

LEMMA BegunIsSound ==
  ASSUME codes' \in 0..MaxSessionRequests, issued \in 0..MaxTokens, NEW x \in Counted \cup Refreshing
  PROVE  IsSound(x)
  <1>1. CASE x \in Counted
    BY <1>1, SessionsAssumption DEF Counted, IsSound, RequestRecord
  <1>2. CASE x \in Refreshing
    BY <1>2, SessionsAssumption DEF Refreshing, IsSound, RequestRecord
  <1>3. QED
    BY <1>1, <1>2

LEMMA IdleIsSound == ASSUME SessionsTypeOK, codes' \in 0..MaxSessionRequests PROVE IsSound(Idle)
  <1>1. Idle \in Counted
    BY SessionsAssumption DEF Counted, Idle
  <1>2. QED
    BY <1>1, BegunIsSound DEF SessionsTypeOK

\* Requests that go on.
LEMMA NextIsSound ==
  ASSUME SessionsTypeOK, Numbered, codes' \in 0..MaxSessionRequests, codes' = codes, NEW r \in Request,
         NEW at \in {"send", "compare", "find", "create", "gate", "issue", "delete"},
         at = "delete" => request[r].code > 0
  PROVE  IsSound([request[r] EXCEPT !.at = at])
  <1>1. /\ request[r] \in RequestRecord /\ request[r].code =< codes /\ request[r].token =< issued
    BY DEF SessionsTypeOK, Numbered, RequestRecord
  <1>2. [request[r] EXCEPT !.at = at] \in RequestRecord
    BY <1>1 DEF RequestRecord
  <1>3. QED
    BY <1>1, <1>2 DEF IsSound, RequestRecord

\* A step of one request that leaves the tokens and the logins alone.
LEMMA RequestSteps ==
  ASSUME SessionsTypeOK, Numbered, NEW r \in Request, NEW x, IsSound(x),
         request' = [request EXCEPT ![r] = x], UNCHANGED tokens, UNCHANGED logins,
         codes' \in 0..MaxSessionRequests, codes =< codes', begun' \in 0..MaxSessionRequests
  PROVE  /\ Numbered'
         /\ request' \in [Request -> RequestRecord]
         /\ token' \in [Token -> [session : 0..MaxTokens, state : {"none", "live", "revoked", "expired"}]]
         /\ issued' \in 0..MaxTokens /\ logins' \in [Code -> Nat]
         /\ forked' \subseteq Token /\ ended' \subseteq Token
  <1>1. \A q \in Request : request'[q] = IF q = r THEN x ELSE request[q]
    BY DEF SessionsTypeOK
  <1>2. request' \in [Request -> RequestRecord]
    BY <1>1 DEF SessionsTypeOK, IsSound, RequestRecord
  <1>3. codes \in Nat /\ codes' \in Nat /\ \A q \in Request : request[q].code \in Nat
    BY SessionsAssumption DEF SessionsTypeOK
  <1>4. \A q \in Request : request'[q].code =< codes' /\ request'[q].token =< issued'
    BY <1>1, <1>3 DEF IsSound, Numbered, tokens
  <1>5. \A c \in Code : logins'[c] > 0 => c =< codes'
    BY <1>3 DEF Numbered, Code
  <1>6. \A q \in Request : /\ request'[q].at = "rotate" => request'[q].token > 0 /\ request'[q].existing = "live"
                           /\ request'[q].at = "delete" => request'[q].code > 0
    BY <1>1 DEF IsSound, Numbered
  <1>7. Numbered'
    BY <1>4, <1>5, <1>6 DEF Numbered, tokens, Token, Code
  <1>8. QED
    BY <1>2, <1>7 DEF SessionsTypeOK, tokens

LEMMA NextSessionTypes == SessionTypes /\ [SessionsNext]_sessionVars => SessionTypes'
  <1> SUFFICES ASSUME SessionTypes, [SessionsNext]_sessionVars PROVE SessionTypes'
    OBVIOUS
  <1>0. CodesCounted' /\ codes' \in 0..MaxSessionRequests /\ begun' \in 0..MaxSessionRequests
    BY NextCounted DEF SessionTypes
  <1>1. /\ otp \in 0..codes /\ codes \in 0..MaxSessionRequests
        /\ rate \in Counter /\ attempt \in Counter /\ tried \in Nat
        /\ request \in [Request -> RequestRecord]
    BY DEF SessionTypes, SessionsTypeOK, Counter, RequestRecord
  <1> DEFINE Goal == SessionsTypeOK' /\ Numbered'
             Keys == /\ otp' \in 0..codes' /\ rate' \in Counter /\ attempt' \in Counter /\ tried' \in Nat
                     /\ raced' \subseteq Code /\ halfway' \in BOOLEAN
                     /\ user' \in {"none", "active", "disabled"}
                     /\ gate' \in {"none", "pending", "passed", "missed"}
  \* A step of one request that leaves tokens and logins alone.
  <1>2. ASSUME NEW r \in Request, NEW x, IsSound(x), request' = [request EXCEPT ![r] = x],
               UNCHANGED tokens, UNCHANGED logins, codes =< codes', Keys
        PROVE  Goal
    BY <1>0, <1>2, RequestSteps DEF SessionTypes, SessionsTypeOK, Counter, RequestRecord
  <1>3. ASSUME NEW r \in Request, CountSend(r) PROVE Goal
    <2> DEFINE x == [Idle EXCEPT !.at = IF SetsTtl(rate.n + 1) THEN "expireRate" ELSE "send",
                                 !.count = rate.n + 1]
    <2>1. IsSound(x)
      <3>1. x \in Counted
        <4>1. 0 \in 0..codes' /\ rate.n + 1 \in Nat
          BY <1>0, <1>1, Counters
        <4>2. QED
          BY <4>1 DEF Counted, Idle
      <3> HIDE DEF x
      <3>2. QED
        BY <1>0, <3>1, BegunIsSound DEF SessionTypes, SessionsTypeOK
    <2>2. Keys /\ codes' = codes
      BY <1>1, <1>3, Counters DEF CountSend, SessionTypes, SessionsTypeOK, history
    <2>3. /\ request' = [request EXCEPT ![r] = x]
          /\ UNCHANGED tokens /\ UNCHANGED logins /\ codes =< codes'
      BY <1>1, <1>3 DEF CountSend, BeginRequest, history
    <2> HIDE DEF x
    <2>4. QED
      BY <1>2, <2>1, <2>2, <2>3
  <1>4. ASSUME NEW r \in Request, ExpireRate(r) PROVE Goal
    <2>1. IsSound([request[r] EXCEPT !.at = "send"])
      BY <1>0, <1>4, NextIsSound DEF ExpireRate, SessionTypes
    <2>2. Keys /\ codes' = codes
      BY <1>1, <1>4, Counters DEF ExpireRate, SessionTypes, SessionsTypeOK, history
    <2>3. request' = [request EXCEPT ![r] = [request[r] EXCEPT !.at = "send"]]
          /\ UNCHANGED tokens /\ UNCHANGED logins /\ codes =< codes'
      BY <1>1, <1>4 DEF ExpireRate, GoesTo, Goes, history
    <2>4. QED
      BY <1>2, <2>1, <2>2, <2>3
  <1>5. ASSUME NEW r \in Request, StoreCode(r) PROVE Goal
    <2>1. IsSound(Idle)
      BY <1>0, IdleIsSound DEF SessionTypes
    <2>2. Keys /\ codes =< codes'
      BY <1>1, <1>5, SessionsAssumption DEF StoreCode, SessionTypes, SessionsTypeOK, history
    <2>3. QED
      BY <1>2, <1>5, <2>1, <2>2 DEF StoreCode, Goes, history
  <1>6. ASSUME NEW r \in Request, NEW c \in 0..codes, CountAttempt(r, c) PROVE Goal
    <2> DEFINE x == [Idle EXCEPT !.at = IF SetsTtl(attempt.n + 1) THEN "expireAttempt" ELSE "compare",
                                 !.count = attempt.n + 1, !.code = c]
    <2>1. codes' = codes /\ c \in 0..codes'
      BY <1>6 DEF CountAttempt
    <2>2. IsSound(x)
      <3>1. x \in Counted
        BY <1>0, <1>1, <2>1, Counters DEF Counted, Idle
      <3> HIDE DEF x
      <3>2. QED
        BY <1>0, <3>1, BegunIsSound DEF SessionTypes, SessionsTypeOK
    <2>3. Keys
      BY <1>1, <1>6, Counters DEF CountAttempt, SessionTypes, SessionsTypeOK, history
    <2>4. /\ request' = [request EXCEPT ![r] = x]
          /\ UNCHANGED tokens /\ UNCHANGED logins /\ codes =< codes'
      BY <1>1, <1>6 DEF CountAttempt, BeginRequest, history
    <2> HIDE DEF x
    <2>5. QED
      BY <1>2, <2>2, <2>3, <2>4
  <1>7. ASSUME NEW r \in Request, ExpireAttempt(r) PROVE Goal
    <2>1. IsSound([request[r] EXCEPT !.at = "compare"])
      BY <1>0, <1>7, NextIsSound DEF ExpireAttempt, SessionTypes
    <2>2. Keys /\ codes' = codes
      BY <1>1, <1>7, Counters DEF ExpireAttempt, SessionTypes, SessionsTypeOK, history
    <2>3. request' = [request EXCEPT ![r] = [request[r] EXCEPT !.at = "compare"]]
          /\ UNCHANGED tokens /\ UNCHANGED logins /\ codes =< codes'
      BY <1>1, <1>7 DEF ExpireAttempt, GoesTo, Goes, history
    <2>4. QED
      BY <1>2, <2>1, <2>2, <2>3
  <1>8. ASSUME NEW r \in Request, Compare(r) PROVE Goal
    <2>1. codes' = codes /\ otp' = otp /\ UNCHANGED tokens /\ UNCHANGED logins
      BY <1>8 DEF Compare
    <2>2. otp # 0 /\ otp = request[r].code => request[r].code \in Code
      BY <1>1, SessionsAssumption DEF Code, RequestRecord
    <2>3. raced' \subseteq Code
      BY <1>8, <2>2 DEF Compare, SessionTypes, SessionsTypeOK
    <2>4. Keys
      BY <1>1, <1>8, <2>3 DEF Compare, SessionTypes, SessionsTypeOK
    <2>5. CASE otp # 0 /\ otp = request[r].code
      <3>1. IsSound([request[r] EXCEPT !.at = "delete"])
        <4>1. request[r].code > 0
          BY <2>2, <2>5 DEF Code
        <4>2. QED
          BY <1>0, <2>1, <4>1, NextIsSound DEF SessionTypes
      <3>2. QED
        BY <1>1, <1>2, <1>8, <2>1, <2>4, <2>5, <3>1 DEF Compare, GoesTo, Goes
    <2>6. CASE ~(otp # 0 /\ otp = request[r].code)
      <3>1. IsSound(Idle)
        BY <1>0, IdleIsSound DEF SessionTypes
      <3>2. QED
        BY <1>1, <1>2, <1>8, <2>1, <2>4, <2>6, <3>1 DEF Compare, Goes
    <2>7. QED
      BY <2>5, <2>6
  <1>9. ASSUME NEW r \in Request, DeleteCode(r) PROVE Goal
    <2> DEFINE c == request[r].code
    <2>1. /\ codes' = codes /\ c \in Code /\ c =< codes /\ UNCHANGED tokens
          /\ logins' = [logins EXCEPT ![c] = @ + 1]
      BY <1>1, <1>9, SessionsAssumption DEF DeleteCode, SessionTypes, Numbered, Code, RequestRecord
    <2>2. request' = [request EXCEPT ![r] = [request[r] EXCEPT !.at = "find"]] /\ begun' = begun
      BY <1>9 DEF DeleteCode, GoesTo, Goes
    <2>3. IsSound([request[r] EXCEPT !.at = "find"])
      BY <1>0, <2>1, NextIsSound DEF SessionTypes
    <2>4. Keys
      BY <1>1, <1>9, Counters DEF DeleteCode, Deleted, SessionTypes, SessionsTypeOK
    <2>5. request' \in [Request -> RequestRecord]
      BY <1>1, <2>2, <2>3 DEF IsSound
    <2>6. \A q \in Request : /\ request'[q].code =< codes' /\ request'[q].token =< issued
                             /\ request'[q].at = "rotate" => request'[q].token > 0 /\ request'[q].existing = "live"
                             /\ request'[q].at = "delete" => request'[q].code > 0
      BY <1>1, <2>1, <2>2, <2>3 DEF IsSound, SessionTypes, Numbered
    <2>7. logins' \in [Code -> Nat] /\ \A d \in Code : logins'[d] > 0 => d =< codes'
      BY <2>1 DEF SessionTypes, SessionsTypeOK, Numbered
    <2>8. Numbered'
      BY <2>1, <2>6, <2>7 DEF SessionTypes, Numbered, tokens, Token
    <2>9. QED
      BY <1>0, <2>1, <2>4, <2>5, <2>7, <2>8 DEF SessionTypes, SessionsTypeOK, tokens, Counter, RequestRecord
  <1>10. ASSUME NEW r \in Request, NEW at \in {"find", "create", "gate", "issue"},
                request' = [request EXCEPT ![r] = [request[r] EXCEPT !.at = at]],
                UNCHANGED <<redis, tokens, history, halfway>>,
                user' \in {"none", "active", "disabled"}, gate' \in {"none", "pending", "passed", "missed"}
         PROVE  Goal
    <2>1. codes' = codes /\ Keys
      BY <1>1, <1>10 DEF redis, history, SessionTypes, SessionsTypeOK
    <2>2. IsSound([request[r] EXCEPT !.at = at])
      BY <1>0, <2>1, NextIsSound DEF SessionTypes
    <2>3. UNCHANGED tokens /\ UNCHANGED logins /\ codes =< codes'
      BY <1>1, <1>10, <2>1 DEF history
    <2>4. QED
      BY <1>2, <1>10, <2>1, <2>2, <2>3
  <1>11. ASSUME NEW r \in Request, FindUser(r) \/ CreateUser(r) \/ Gate(r) PROVE Goal
    BY <1>10, <1>11 DEF FindUser, CreateUser, Gate, PassGate, GoesTo, Goes, SessionTypes, SessionsTypeOK
  <1>12. ASSUME NEW r \in Request, Issue(r) PROVE Goal
    <2>1. PICK t \in Token : t = issued + 1
      BY <1>12 DEF Issue
    <2>2. PICK session \in 1..t : token' = [token EXCEPT ![t] = [session |-> session, state |-> "live"]]
      <3>1. CASE request[r].token = 0
        <4>1. token' = [token EXCEPT ![t] = [session |-> t, state |-> "live"]]
          BY <1>12, <2>1, <3>1 DEF Issue
        <4>2. t \in 1..t
          BY DEF Token
        <4>3. QED
          BY <4>1, <4>2
      <3>2. CASE request[r].token # 0
        <4>1. request[r].token \in Token /\ request[r].token =< issued
          BY <1>1, <3>2 DEF SessionTypes, Numbered, RequestRecord, Token
        <4>2. token[request[r].token].session \in 1..request[r].token
          BY <4>1 DEF SessionTypes, Numbered
        <4>3. token[request[r].token].session \in 1..t
          BY <2>1, <4>1, <4>2 DEF Token, SessionTypes, SessionsTypeOK
        <4>4. token' = [token EXCEPT ![t] = [session |-> token[request[r].token].session, state |-> "live"]]
          BY <1>12, <2>1, <3>2 DEF Issue
        <4>5. QED
          BY <4>3, <4>4
      <3>3. QED
        BY <3>1, <3>2
    <2>3. issued' = t /\ codes' = codes /\ UNCHANGED <<forked, ended, logins>>
      BY <1>12, <2>1 DEF Issue, redis, history
    <2>4. Keys
      BY <1>1, <1>12 DEF Issue, redis, history, SessionTypes, SessionsTypeOK
    <2>5. request' = [request EXCEPT ![r] = Idle] /\ IsSound(Idle)
      BY <1>0, <1>12, IdleIsSound DEF Issue, Goes, SessionTypes
    <2>6. request' \in [Request -> RequestRecord]
      BY <1>1, <2>5 DEF IsSound
    <2>7. token' \in [Token -> [session : 0..MaxTokens, state : {"none", "live", "revoked", "expired"}]]
      BY <2>2, SessionsAssumption DEF SessionTypes, SessionsTypeOK, Token
    <2>8. \A q \in Request : /\ request'[q].code =< codes' /\ request'[q].token =< issued'
                             /\ request'[q].at = "rotate" => request'[q].token > 0 /\ request'[q].existing = "live"
                             /\ request'[q].at = "delete" => request'[q].code > 0
      <3>1. issued \in Int /\ issued' = issued + 1 /\ \A q \in Request : request[q].token \in Int
        BY <1>1, <2>1, <2>3 DEF SessionTypes, SessionsTypeOK, RequestRecord
      <3>2. \A q \in Request : q # r => request'[q] = request[q]
        BY <1>1, <2>5
      <3>3. request'[r] = Idle /\ codes \in Nat /\ issued' \in Nat
        BY <1>1, <2>1, <2>3, <2>5 DEF Token
      <3>4. QED
        BY <2>3, <3>1, <3>2, <3>3 DEF Idle, SessionTypes, Numbered
    <2>9. /\ \A u \in Token : u > issued' => token'[u] = [session |-> 0, state |-> "none"]
          /\ \A u \in Token : u =< issued' => token'[u].session \in 1..u
          /\ \A s \in forked' \cup ended' : s =< issued'
      BY <2>1, <2>2, <2>3, SessionsAssumption DEF SessionTypes, SessionsTypeOK, Numbered, Token
    <2>10. Numbered'
      BY <2>3, <2>8, <2>9 DEF SessionTypes, Numbered
    <2>11. QED
      BY <1>0, <2>1, <2>3, <2>4, <2>6, <2>7, <2>10, SessionsAssumption, SMTT(30)
         DEF SessionTypes, SessionsTypeOK, Counter, RequestRecord, Token
  <1>13. ASSUME NEW r \in Request, NEW t \in Token, CheckToken(r, t) PROVE Goal
    <2> DEFINE x == [Idle EXCEPT !.at = "rotate", !.token = t, !.existing = token[t].state]
    <2>1. codes' = codes /\ t \in 1..issued /\ token[t].state = "live"
      BY <1>1, <1>13 DEF CheckToken, Refreshable, redis, Token, SessionTypes, SessionsTypeOK
    <2>2. x \in Refreshing
      BY <2>1 DEF Refreshing, Idle
    <2>3. request' = [request EXCEPT ![r] = x]
      BY <1>13 DEF CheckToken, BeginRequest
    <2>4. Keys /\ UNCHANGED tokens /\ UNCHANGED logins /\ codes =< codes'
      BY <1>1, <1>13 DEF CheckToken, redis, history, SessionTypes, SessionsTypeOK
    <2> HIDE DEF x
    <2>5. IsSound(x)
      BY <1>0, <2>2, BegunIsSound DEF SessionTypes, SessionsTypeOK
    <2>6. QED
      BY <1>2, <2>3, <2>4, <2>5
  \* A step that only changes the states of tokens, and what is recorded of sessions.
  <1>14. ASSUME NEW t \in Token, t =< issued, NEW state \in {"revoked", "expired"},
                token' = [token EXCEPT ![t].state = state],
                forked' \in {forked, forked \cup {token[t].session}},
                ended' \in {ended, ended \cup {token[t].session}},
                issued' = issued, codes' = codes, logins' = logins, Keys,
                request' \in [Request -> RequestRecord],
                \A q \in Request : /\ request'[q].code =< codes /\ request'[q].token =< issued
                                   /\ request'[q].at = "rotate" => request'[q].token > 0 /\ request'[q].existing = "live"
                                   /\ request'[q].at = "delete" => request'[q].code > 0
         PROVE  Goal
    <2>1. token[t].session \in 1..t /\ token[t].session \in Token /\ token[t].session =< issued
      BY <1>14, SessionsAssumption DEF SessionTypes, SessionsTypeOK, Numbered, Token
    <2>2. \A u \in Token : /\ token'[u].session = token[u].session
                           /\ u # t => token'[u] = token[u]
      BY <1>14 DEF SessionTypes, SessionsTypeOK
    <2>3. token' \in [Token -> [session : 0..MaxTokens, state : {"none", "live", "revoked", "expired"}]]
      BY <1>14 DEF SessionTypes, SessionsTypeOK
    <2>4. Numbered'
      <3>1. t \in Int /\ issued \in Int
        BY DEF Token, SessionTypes, SessionsTypeOK
      <3>2. \A u \in Token : u > issued => token'[u] = [session |-> 0, state |-> "none"]
        BY <1>14, <2>2, <3>1 DEF SessionTypes, Numbered
      <3>3. ASSUME NEW u \in Token, u =< issued PROVE token'[u].session \in 1..u
        <4>1. token[u].session \in 1..u
          BY <3>3 DEF SessionTypes, Numbered
        <4>2. QED
          BY <2>2, <4>1
      <3>4. \A s \in forked' \cup ended' : s =< issued
        BY <1>14, <2>1 DEF SessionTypes, Numbered
      <3>5. \A c \in Code : logins'[c] > 0 => c =< codes
        BY <1>14 DEF SessionTypes, Numbered
      <3>6. issued' = issued /\ codes' = codes
        BY <1>14
      <3>7. QED
        BY <1>14, <3>2, <3>3, <3>4, <3>5, <3>6 DEF Numbered
    <2>5. QED
      BY <1>0, <1>14, <2>1, <2>3, <2>4 DEF SessionTypes, SessionsTypeOK, Counter, RequestRecord
  <1>15. ASSUME NEW r \in Request, Rotate(r) PROVE Goal
    <2> PICK t \in Token : t = request[r].token /\ t =< issued
      BY <1>1, <1>15 DEF Rotate, SessionTypes, Numbered, RequestRecord, Token
    <2>1. token' = [token EXCEPT ![t].state = "revoked"] /\ forked' \in {forked, forked \cup {token[t].session}}
          /\ UNCHANGED <<issued, ended, logins, codes, redis>>
      BY <1>15 DEF Rotate, history, redis
    <2>2. Keys
      BY <1>1, <1>15 DEF Rotate, redis, history, SessionTypes, SessionsTypeOK
    <2>3. request' = [request EXCEPT ![r] = [request[r] EXCEPT !.at = "issue"]]
      BY <1>15 DEF Rotate, GoesTo, Goes
    <2>4. IsSound([request[r] EXCEPT !.at = "issue"])
      BY <1>0, <2>1, NextIsSound DEF SessionTypes
    <2>5. request' \in [Request -> RequestRecord]
          /\ \A q \in Request : /\ request'[q].code =< codes /\ request'[q].token =< issued
                                /\ request'[q].at = "rotate" => request'[q].token > 0 /\ request'[q].existing = "live"
                                /\ request'[q].at = "delete" => request'[q].code > 0
      BY <1>1, <2>1, <2>3, <2>4 DEF IsSound, SessionTypes, Numbered
    <2>6. QED
      BY <1>14, <2>1, <2>2, <2>5
  <1>16. ASSUME NEW t \in Token, Logout(t) \/ TokenExpires(t) PROVE Goal
    <2>1. t =< issued
      <3>1. t > issued => token[t].state = "none"
        BY DEF SessionTypes, Numbered
      <3>2. QED
        BY <1>16, <3>1 DEF Logout, TokenExpires, Token, SessionTypes, SessionsTypeOK
    <2>2. PICK state \in {"revoked", "expired"} : token' = [token EXCEPT ![t].state = state]
      BY <1>16 DEF Logout, TokenExpires
    <2>3. Keys /\ codes' = codes /\ request' = request /\ issued' = issued /\ logins' = logins
          /\ forked' = forked /\ ended' \in {ended, ended \cup {token[t].session}}
      BY <1>1, <1>16 DEF Logout, TokenExpires, redis, history, SessionTypes, SessionsTypeOK
    <2>4. QED
      BY <1>1, <1>14, <2>1, <2>2, <2>3 DEF SessionTypes, Numbered
  <1>17. ASSUME NEW r \in Request, Fail(r) PROVE Goal
    <2>1. Keys /\ codes' = codes /\ request' = [request EXCEPT ![r] = Idle] /\ UNCHANGED tokens
          /\ UNCHANGED logins
      BY <1>1, <1>17 DEF Fail, Goes, redis, history, SessionTypes, SessionsTypeOK
    <2>2. IsSound(Idle) /\ codes =< codes'
      BY <1>0, <1>1, <2>1, IdleIsSound DEF SessionTypes
    <2>3. QED
      BY <1>2, <2>1, <2>2
  <1>18. ASSUME request' = request, codes' = codes, UNCHANGED tokens, UNCHANGED logins, Keys PROVE Goal
    BY <1>0, <1>18 DEF SessionTypes, SessionsTypeOK, Numbered, tokens, Counter, RequestRecord
  <1>19. ASSUME \/ \E state \in {"active", "disabled"} : SetActive(state)
                \/ CodeExpires \/ RateExpires \/ AttemptExpires \/ UNCHANGED sessionVars
         PROVE  Goal
    <2>1. request' = request /\ codes' = codes /\ UNCHANGED tokens /\ UNCHANGED logins
      BY <1>19 DEF SetActive, CodeExpires, RateExpires, AttemptExpires, redis, history, sessionVars
    <2>2. Keys
      BY <1>1, <1>19, Counters DEF SetActive, CodeExpires, RateExpires, AttemptExpires, redis, history,
                                   sessionVars, SessionTypes, SessionsTypeOK
    <2> HIDE DEF Goal, Keys
    <2>3. QED
      BY <1>18, <2>1, <2>2
  <1> HIDE DEF Goal
  <1>20. Goal
    BY <1>3, <1>4, <1>5, <1>6, <1>7, <1>8, <1>9, <1>11, <1>12, <1>13, <1>15, <1>16, <1>17, <1>19
       DEF SessionsNext, OfRequest
  <1>21. QED
    BY <1>0, <1>20 DEF Goal, SessionTypes

LEMMA SessionTypesHold == SessionsSpec => []SessionTypes
  BY InitSessionTypes, NextSessionTypes, PTL DEF SessionsSpec
-----------------------------------------------------------------------------
(* Guesses *)

\* Requests that may still compare a code.
Trying == {r \in Request : /\ request[r].at \in {"expireAttempt", "compare"}
                           /\ request[r].count =< AttemptLimit}

\* Attempts counted since the key last vanished, as far as they were allowed.
Allowed == IF attempt.n =< AttemptLimit THEN attempt.n ELSE AttemptLimit

\* Whoever compares a code was counted by the key there is now, or was in progress when it
\* vanished.
AttemptsCounted == tried + Cardinality(Trying) =< Allowed + Cardinality(Request)

LEMMA InitAttempts == SessionsInit => AttemptsCounted
  <1> SUFFICES ASSUME SessionsInit PROVE AttemptsCounted
    OBVIOUS
  <1>1. Trying \in SUBSET Request
    BY DEF Trying
  <1>2. Allowed = 0 /\ tried = 0
    BY SessionsAssumption DEF SessionsInit, Allowed, Absent
  <1>3. QED
    BY <1>1, <1>2, RequestsAreFinite DEF AttemptsCounted

LEMMA NextAttempts == SessionTypes /\ AttemptsCounted /\ [SessionsNext]_sessionVars => AttemptsCounted'
  <1> SUFFICES ASSUME SessionTypes, AttemptsCounted, [SessionsNext]_sessionVars PROVE AttemptsCounted'
    OBVIOUS
  <1>1. /\ Trying \in SUBSET Request /\ Trying' \in SUBSET Request
        /\ attempt.n \in Nat /\ tried \in Nat /\ AttemptLimit \in Nat
        /\ request \in [Request -> RequestRecord]
    BY SessionsAssumption DEF Trying, SessionTypes, SessionsTypeOK, RequestRecord
  <1>2. /\ Cardinality(Trying) \in Nat /\ Cardinality(Trying') \in Nat
        /\ Cardinality(Trying') =< Cardinality(Request) /\ Cardinality(Request) \in Nat
    BY <1>1, RequestsAreFinite
  <1>3. /\ Trying' \subseteq Trying => Cardinality(Trying') =< Cardinality(Trying)
        /\ \A r \in Request : Trying' \subseteq Trying \cup {r} => Cardinality(Trying') =< Cardinality(Trying) + 1
        /\ \A r \in Trying : Trying' \subseteq Trying \ {r} => Cardinality(Trying') + 1 =< Cardinality(Trying)
    <2>1. Request = {} => Trying' = {} /\ Cardinality(Trying') = 0
      BY <1>1, FS_EmptySet
    <2>2. QED
      BY <1>1, <1>2, <2>1, Members
  <1>0. ASSUME NEW r \in Request, request'[r].at \notin {"expireAttempt", "compare"},
               \A q \in Request : q # r => request'[q] = request[q]
        PROVE  Trying' \subseteq Trying \ {r}
    BY <1>0 DEF Trying
  \* A step that counts nothing and compares nothing.
  <1>4. ASSUME tried' = tried, attempt'.n = attempt.n, Trying' \subseteq Trying PROVE AttemptsCounted'
    BY <1>1, <1>2, <1>3, <1>4 DEF AttemptsCounted, Allowed
  \* The key vanishes.
  <1>5. ASSUME tried' = 0, attempt' = Absent PROVE AttemptsCounted'
    BY <1>1, <1>2, <1>5 DEF AttemptsCounted, Allowed, Absent
  <1>6. ASSUME NEW r \in Request, CountSend(r) PROVE AttemptsCounted'
    <2>1. tried' = tried /\ attempt' = attempt
      BY <1>6 DEF CountSend
    <2>2. request'[r].at \notin {"expireAttempt", "compare"}
      BY <1>1, <1>6 DEF CountSend, BeginRequest, Idle
    <2>3. \A q \in Request : q # r => request'[q] = request[q]
      BY <1>1, <1>6 DEF CountSend, BeginRequest
    <2>4. QED
      BY <1>0, <1>4, <2>1, <2>2, <2>3
  <1>7. ASSUME NEW r \in Request, ExpireRate(r) \/ StoreCode(r) PROVE AttemptsCounted'
    BY <1>1, <1>4, <1>7 DEF ExpireRate, StoreCode, GoesTo, Goes, Idle, Trying, RequestRecord
  <1>8. ASSUME NEW r \in Request, NEW c \in 0..codes, CountAttempt(r, c) PROVE AttemptsCounted'
    <2>1. tried' = tried /\ attempt'.n = attempt.n + 1
      BY <1>8, Counters DEF CountAttempt, SessionTypes, SessionsTypeOK, Counter
    <2>2. CASE attempt.n + 1 =< AttemptLimit
      <3>1. Trying' \subseteq Trying \cup {r}
        BY <1>1, <1>8 DEF CountAttempt, BeginRequest, Trying
      <3>2. QED
        BY <1>1, <1>2, <1>3, <2>1, <2>2, <3>1 DEF AttemptsCounted, Allowed
    <2>3. CASE ~(attempt.n + 1 =< AttemptLimit)
      <3>1. request'[r].count = attempt.n + 1
        BY <1>1, <1>8 DEF CountAttempt, BeginRequest, Idle
      <3>2. Trying' \subseteq Trying
        BY <1>1, <1>8, <2>3, <3>1 DEF CountAttempt, BeginRequest, Trying
      <3>3. QED
        BY <1>1, <1>2, <1>3, <2>1, <2>3, <3>2 DEF AttemptsCounted, Allowed
    <2>4. QED
      BY <2>2, <2>3
  <1>9. ASSUME NEW r \in Request, ExpireAttempt(r) PROVE AttemptsCounted'
    <2>1. tried' = tried /\ attempt'.n = attempt.n
      BY <1>9, Counters DEF ExpireAttempt, SessionTypes, SessionsTypeOK, Counter
    <2>2. Trying' \subseteq Trying
      BY <1>1, <1>9 DEF ExpireAttempt, GoesTo, Goes, Trying
    <2>3. QED
      BY <1>4, <2>1, <2>2
  <1>10. ASSUME NEW r \in Request, Compare(r) PROVE AttemptsCounted'
    <2>1. tried' = tried + 1 /\ attempt' = attempt /\ r \in Trying
      BY <1>10 DEF Compare, MayTry, Trying
    <2>2. Trying' \subseteq Trying \ {r}
      <3>1. request'[r].at \notin {"expireAttempt", "compare"}
        BY <1>1, <1>10 DEF Compare, GoesTo, Goes, Idle, RequestRecord
      <3>2. \A q \in Request : q # r => request'[q] = request[q]
        BY <1>1, <1>10 DEF Compare, GoesTo, Goes
      <3>3. QED
        BY <1>0, <3>1, <3>2
    <2>3. QED
      BY <1>1, <1>2, <1>3, <2>1, <2>2 DEF AttemptsCounted, Allowed
  <1>11. ASSUME NEW r \in Request, DeleteCode(r) PROVE AttemptsCounted'
    BY <1>5, <1>11 DEF DeleteCode
  <1>12. ASSUME NEW r \in Request,
                FindUser(r) \/ CreateUser(r) \/ Gate(r) \/ Rotate(r) \/ Issue(r) \/ Fail(r)
         PROVE  AttemptsCounted'
    <2>1. tried' = tried /\ attempt' = attempt
      BY <1>12 DEF FindUser, CreateUser, Gate, Rotate, Issue, Fail, redis
    <2>2. Trying' \subseteq Trying
      <3>1. request'[r].at \notin {"expireAttempt", "compare"}
        BY <1>1, <1>12 DEF FindUser, CreateUser, Gate, Rotate, Issue, Fail, GoesTo, Goes, Idle, RequestRecord
      <3>2. \A q \in Request : q # r => request'[q] = request[q]
        BY <1>1, <1>12 DEF FindUser, CreateUser, Gate, Rotate, Issue, Fail, GoesTo, Goes
      <3>3. QED
        BY <1>0, <3>1, <3>2
    <2>3. QED
      BY <1>4, <2>1, <2>2
  <1>13. ASSUME NEW r \in Request, NEW t \in Token, CheckToken(r, t) PROVE AttemptsCounted'
    <2>1. tried' = tried /\ attempt' = attempt
      BY <1>13 DEF CheckToken, redis
    <2>2. Trying' \subseteq Trying
      BY <1>1, <1>13 DEF CheckToken, BeginRequest, Idle, Trying
    <2>3. QED
      BY <1>4, <2>1, <2>2
  <1>14. ASSUME \/ \E t \in Token : Logout(t) \/ TokenExpires(t)
                \/ \E state \in {"active", "disabled"} : SetActive(state)
                \/ CodeExpires \/ RateExpires \/ UNCHANGED sessionVars
         PROVE  AttemptsCounted'
    BY <1>4, <1>14 DEF Logout, TokenExpires, SetActive, CodeExpires, RateExpires, redis, sessionVars, Trying
  <1>15. ASSUME AttemptExpires PROVE AttemptsCounted'
    BY <1>5, <1>15 DEF AttemptExpires
  <1>16. QED
    BY <1>6, <1>7, <1>8, <1>9, <1>10, <1>11, <1>12, <1>13, <1>14, <1>15 DEF SessionsNext, OfRequest

\* However many requests verify codes at once (verifyOtp counts an attempt before it
\* compares), and however often their counter expires or is deleted by a login: no more
\* codes are compared in a window than the limit and the requests in progress.
THEOREM GuessesAreBounded == SessionsSpec => []GuessesBounded
  <1>1. SessionTypes /\ AttemptsCounted => GuessesBounded
    <2> SUFFICES ASSUME SessionTypes, AttemptsCounted PROVE GuessesBounded
      OBVIOUS
    <2>1. Trying \in SUBSET Request
      BY DEF Trying
    <2>2. Allowed \in Nat /\ Allowed =< AttemptLimit /\ tried \in Nat
      BY SessionsAssumption DEF Allowed, SessionTypes, SessionsTypeOK
    <2>3. QED
      BY <2>1, <2>2, RequestsAreFinite, SessionsAssumption DEF AttemptsCounted, GuessesBounded
  <1>2. QED
    BY <1>1, InitAttempts, NextAttempts, SessionTypesHold, PTL DEF SessionsSpec
-----------------------------------------------------------------------------
(* Logins *)

\* A stored code has not been used; but for the raced ones a code has logged in once at
\* most, and has not done so while a request is about to delete it, the only one.
CodesUsedOnce ==
  /\ otp # 0 => logins[otp] = 0
  /\ \A c \in Code \ raced : /\ logins[c] =< 1
                             /\ \A q, r \in Matching(c) : q = r
                             /\ Matching(c) # {} => logins[c] = 0

LEMMA InitCodes == SessionsInit => CodesUsedOnce
  BY DEF SessionsInit, CodesUsedOnce, Matching, Idle, Code

LEMMA NextCodes == SessionTypes /\ CodesUsedOnce /\ [SessionsNext]_sessionVars => CodesUsedOnce'
  <1> SUFFICES ASSUME SessionTypes, CodesUsedOnce, [SessionsNext]_sessionVars PROVE CodesUsedOnce'
    OBVIOUS
  <1>1. /\ request \in [Request -> RequestRecord] /\ otp \in 0..codes /\ codes \in 0..MaxSessionRequests
        /\ logins \in [Code -> Nat]
    BY DEF SessionTypes, SessionsTypeOK, RequestRecord
  \* Nobody joins those about to delete a code, and no code is stored.
  <1>2. ASSUME otp' \in {0, otp}, logins' = logins, raced' = raced,
               \A q \in Request : request'[q].at = "delete" => request'[q] = request[q]
        PROVE  CodesUsedOnce'
    <2>1. \A c \in Code : Matching(c)' \subseteq Matching(c)
      BY <1>2 DEF Matching
    <2>2. QED
      BY <1>2, <2>1 DEF CodesUsedOnce
  <1>3. ASSUME NEW r \in Request, request'[r].at # "delete", \A q \in Request : q # r => request'[q] = request[q],
               otp' \in {0, otp}, logins' = logins, raced' = raced
        PROVE  CodesUsedOnce'
    BY <1>2, <1>3
  <1>4. ASSUME NEW r \in Request,
               \/ ExpireRate(r) \/ ExpireAttempt(r) \/ FindUser(r) \/ CreateUser(r) \/ Gate(r) \/ Issue(r)
               \/ Rotate(r) \/ Fail(r)
        PROVE  CodesUsedOnce'
    <2>1. request'[r].at # "delete"
      BY <1>1, <1>4 DEF ExpireRate, ExpireAttempt, FindUser, CreateUser, Gate, Issue, Rotate, Fail, GoesTo,
                        Goes, Idle, RequestRecord
    <2>2. \A q \in Request : q # r => request'[q] = request[q]
      BY <1>1, <1>4 DEF ExpireRate, ExpireAttempt, FindUser, CreateUser, Gate, Issue, Rotate, Fail, GoesTo, Goes
    <2>3. otp' = otp /\ logins' = logins /\ raced' = raced
      BY <1>4 DEF ExpireRate, ExpireAttempt, FindUser, CreateUser, Gate, Issue, Rotate, Fail, redis, history
    <2>4. QED
      BY <1>3, <2>1, <2>2, <2>3
  <1>5. ASSUME NEW r \in Request,
               \/ CountSend(r) \/ (\E c \in 0..codes : CountAttempt(r, c)) \/ \E t \in Token : CheckToken(r, t)
        PROVE  CodesUsedOnce'
    <2>1. request'[r].at # "delete"
      BY <1>1, <1>5 DEF CountSend, CountAttempt, CheckToken, BeginRequest, Idle
    <2>2. \A q \in Request : q # r => request'[q] = request[q]
      BY <1>1, <1>5 DEF CountSend, CountAttempt, CheckToken, BeginRequest
    <2>3. otp' = otp /\ logins' = logins /\ raced' = raced
      BY <1>5 DEF CountSend, CountAttempt, CheckToken, redis, history
    <2>4. QED
      BY <1>3, <2>1, <2>2, <2>3
  <1>6. ASSUME NEW r \in Request, StoreCode(r) PROVE CodesUsedOnce'
    <2>1. codes' = codes + 1 /\ otp' = codes + 1 /\ codes' \in 0..MaxSessionRequests
      BY <1>6, NextCounted DEF StoreCode, SessionTypes
    <2>2. codes + 1 \in Code /\ logins[codes + 1] = 0
      BY <1>1, <2>1 DEF SessionTypes, Numbered, Code
    <2>3. \A c \in Code : Matching(c)' \subseteq Matching(c)
      BY <1>1, <1>6 DEF StoreCode, Goes, Idle, Matching
    <2>4. logins' = logins /\ raced' = raced
      BY <1>6 DEF StoreCode, history
    <2>5. QED
      BY <2>1, <2>2, <2>3, <2>4 DEF CodesUsedOnce
  <1>7. ASSUME NEW r \in Request, Compare(r) PROVE CodesUsedOnce'
    <2>1. otp' = otp /\ logins' = logins
      BY <1>7 DEF Compare
    <2>2. CASE ~(otp # 0 /\ otp = request[r].code)
      <3>1. raced' = raced /\ request' = [request EXCEPT ![r] = Idle]
        BY <1>7, <2>2 DEF Compare, Goes
      <3>2. request'[r].at # "delete" /\ \A q \in Request : q # r => request'[q] = request[q]
        BY <1>1, <3>1 DEF Idle
      <3>3. QED
        BY <1>3, <2>1, <3>1, <3>2
    <2>3. CASE otp # 0 /\ otp = request[r].code
      <3>1. otp \in Code /\ request' = [request EXCEPT ![r].at = "delete"]
        BY <1>1, <1>7, <2>3, SessionsAssumption DEF Compare, GoesTo, Goes, Code
      <3>2. raced' = IF Matching(otp) # {} THEN raced \cup {otp} ELSE raced
        BY <1>7, <2>3 DEF Compare
      <3>3. \A c \in Code : c # otp => Matching(c)' \subseteq Matching(c)
        BY <1>1, <2>3, <3>1 DEF Matching, RequestRecord
      <3>4. \A q \in Request : q # r => request'[q] = request[q]
        BY <1>1, <3>1
      <3>5. ASSUME NEW c \in Code, c = otp, Matching(c) = {}
            PROVE  \A q \in Matching(c)' : q = r
        BY <3>4, <3>5 DEF Matching
      <3>6. QED
        BY <2>1, <2>3, <3>1, <3>2, <3>3, <3>5 DEF CodesUsedOnce
    <2>4. QED
      BY <2>2, <2>3
  <1>8. ASSUME NEW r \in Request, DeleteCode(r) PROVE CodesUsedOnce'
    <2> PICK d \in Code : d = request[r].code
      BY <1>1, <1>8, SessionsAssumption DEF DeleteCode, SessionTypes, Numbered, Code, RequestRecord
    <2>1. otp' = 0 /\ raced' = raced /\ logins' = [logins EXCEPT ![d] = @ + 1]
      BY <1>8 DEF DeleteCode, Deleted
    <2>2. r \in Matching(d)
      BY <1>8 DEF DeleteCode, Matching
    <2>3. \A c \in Code : Matching(c)' \subseteq Matching(c) \ {r}
      BY <1>1, <1>8 DEF DeleteCode, GoesTo, Goes, Matching, RequestRecord
    <2>4. QED
      BY <1>1, <2>1, <2>2, <2>3 DEF CodesUsedOnce
  <1>9. ASSUME \/ \E t \in Token : Logout(t) \/ TokenExpires(t)
               \/ \E state \in {"active", "disabled"} : SetActive(state)
               \/ CodeExpires \/ RateExpires \/ AttemptExpires \/ UNCHANGED sessionVars
        PROVE  CodesUsedOnce'
    BY <1>2, <1>9 DEF Logout, TokenExpires, SetActive, CodeExpires, RateExpires, AttemptExpires, redis, history,
                      sessionVars
  <1>10. QED
    BY <1>4, <1>5, <1>6, <1>7, <1>8, <1>9 DEF SessionsNext, OfRequest

\* However logins with one code interleave between comparing it and deleting it, and though
\* a deletion may hit the code sent since: a code logs in once, but for those raced.
THEOREM CodesLogInOnce == SessionsSpec => []OneLoginPerCode
  <1>1. CodesUsedOnce => OneLoginPerCode
    BY DEF CodesUsedOnce, OneLoginPerCode
  <1>2. QED
    BY <1>1, InitCodes, NextCodes, SessionTypesHold, PTL DEF SessionsSpec
-----------------------------------------------------------------------------
(* The campaign's gate *)

\* Without a user there is no token and nobody about to get one; the creator of the user
\* is at the gate for as long as it is pending.
GateWatched ==
  /\ user = "none" => issued = 0 /\ \A r \in Request : request[r].at \notin {"gate", "issue", "rotate"}
  /\ user # "none" => gate # "none"
  /\ gate = "pending" => \E r \in Request : request[r].at = "gate"

LEMMA InitGate == SessionsInit => GateWatched
  BY DEF SessionsInit, GateWatched, Idle

LEMMA NextGate == SessionTypes /\ GateWatched /\ [SessionsNext]_sessionVars => GateWatched'
  <1> SUFFICES ASSUME SessionTypes, GateWatched, [SessionsNext]_sessionVars PROVE GateWatched'
    OBVIOUS
  <1>1. request \in [Request -> RequestRecord]
    BY DEF SessionTypes, SessionsTypeOK, RequestRecord
  \* A step of a request outside the gate, which it does not open.
  <1>2. ASSUME NEW r \in Request, request[r].at # "gate",
               request'[r].at \notin {"gate", "issue", "rotate"} \/ user # "none",
               \A q \in Request : q # r => request'[q] = request[q],
               user' = user, gate' = gate, issued' = issued
        PROVE  GateWatched'
    BY <1>2 DEF GateWatched
  <1>3. ASSUME NEW r \in Request,
               \/ ExpireRate(r) \/ StoreCode(r) \/ ExpireAttempt(r) \/ Compare(r) \/ DeleteCode(r)
               \/ FindUser(r) \/ Rotate(r)
        PROVE  GateWatched'
    <2>1. request[r].at # "gate" /\ user' = user /\ gate' = gate /\ issued' = issued
      BY <1>3 DEF ExpireRate, StoreCode, ExpireAttempt, Compare, DeleteCode, FindUser, Rotate, tokens
    <2>2. \A q \in Request : q # r => request'[q] = request[q]
      BY <1>1, <1>3 DEF ExpireRate, StoreCode, ExpireAttempt, Compare, DeleteCode, FindUser, Rotate, GoesTo, Goes
    <2>3. request'[r].at \notin {"gate", "issue", "rotate"} \/ user # "none"
      BY <1>1, <1>3 DEF ExpireRate, StoreCode, ExpireAttempt, Compare, DeleteCode, FindUser, Rotate, GoesTo, Goes,
                        Idle, RequestRecord, GateWatched
    <2>4. QED
      BY <1>2, <2>1, <2>2, <2>3
  <1>4. ASSUME NEW r \in Request,
               \/ CountSend(r) \/ (\E c \in 0..codes : CountAttempt(r, c)) \/ \E t \in Token : CheckToken(r, t)
        PROVE  GateWatched'
    <2>1. request[r].at # "gate" /\ user' = user /\ gate' = gate /\ issued' = issued
      BY <1>4 DEF CountSend, CountAttempt, CheckToken, BeginRequest, tokens
    <2>2. \A q \in Request : q # r => request'[q] = request[q]
      BY <1>1, <1>4 DEF CountSend, CountAttempt, CheckToken, BeginRequest
    <2>3. request'[r].at \notin {"gate", "issue", "rotate"} \/ user # "none"
      BY <1>1, <1>4, ZenonT(40) DEF CountSend, CountAttempt, CheckToken, BeginRequest, Idle
    <2>4. QED
      BY <1>2, <2>1, <2>2, <2>3
  <1>5. ASSUME NEW r \in Request, CreateUser(r) PROVE GateWatched'
    <2>1. request'[r].at = "gate"
      BY <1>1, <1>5 DEF CreateUser, GoesTo, Goes, RequestRecord
    <2>2. QED
      BY <1>5, <2>1 DEF CreateUser, GateWatched
  <1>6. ASSUME NEW r \in Request, Gate(r) PROVE GateWatched'
    BY <1>6 DEF Gate, PassGate, GateWatched
  <1>7. ASSUME NEW r \in Request, Issue(r) PROVE GateWatched'
    <2>1. request' = [request EXCEPT ![r] = Idle] /\ user' = user /\ gate' = gate /\ request[r].at = "issue"
      BY <1>7 DEF Issue, Goes
    <2>2. \A q \in Request : q # r => request'[q] = request[q]
      BY <1>1, <2>1
    <2>3. QED
      BY <2>1, <2>2 DEF GateWatched
  <1>8. ASSUME NEW r \in Request, Fail(r) PROVE GateWatched'
    <2>1. request' = [request EXCEPT ![r] = Idle] /\ user' = user /\ issued' = issued
          /\ gate' = IF request[r].at = "gate" THEN "missed" ELSE gate
      BY <1>8 DEF Fail, Goes, tokens
    <2>2. \A q \in Request : q # r => request'[q] = request[q]
      BY <1>1, <2>1
    <2>3. request'[r].at = "idle"
      BY <1>1, <2>1 DEF Idle
    <2>4. QED
      BY <2>1, <2>2, <2>3 DEF GateWatched
  <1>9. ASSUME \/ \E t \in Token : Logout(t) \/ TokenExpires(t)
               \/ \E state \in {"active", "disabled"} : SetActive(state)
               \/ CodeExpires \/ RateExpires \/ AttemptExpires \/ UNCHANGED sessionVars
        PROVE  GateWatched'
    BY <1>9 DEF Logout, TokenExpires, SetActive, CodeExpires, RateExpires, AttemptExpires, tokens, sessionVars,
                GateWatched
  <1>10. QED
    BY <1>3, <1>4, <1>5, <1>6, <1>7, <1>8, <1>9 DEF SessionsNext, OfRequest

\* Whoever holds a refresh token went through the gate (applyToNewUser), or its creator
\* failed there or is there still.
THEOREM TokensPassTheGate == SessionsSpec => []GatePassed
  <1>1. SessionTypes /\ GateWatched => GatePassed
    BY DEF SessionTypes, SessionsTypeOK, GateWatched, GatePassed
  <1>2. QED
    BY <1>1, InitGate, NextGate, SessionTypesHold, PTL DEF SessionsSpec
-----------------------------------------------------------------------------
(* Tokens *)

\* What a session has to go on with: a token not revoked, or a request about to issue one.
Unrevoked(s) == {t \in Token : token[t].session = s /\ token[t].state \in {"live", "expired"}}
Issuing(s) == {r \in Request : /\ request[r].at = "issue" /\ request[r].token # 0
                               /\ token[request[r].token].session = s}

OneHolder(s) ==
  /\ \A t, u \in Unrevoked(s) : t = u
  /\ \A q, r \in Issuing(s) : q = r
  /\ Unrevoked(s) = {} \/ Issuing(s) = {}
  /\ s \in ended => Unrevoked(s) = {} /\ Issuing(s) = {}

HoldersAlone ==
  /\ \A t \in Token : t =< issued => token[t].state # "none"
  /\ \A r \in Request : request[r].at \notin {"rotate", "issue"} => request[r].token = 0
  /\ \A s \in Token \ forked : OneHolder(s)

LEMMA InitHolders == SessionsInit => HoldersAlone
  <1> SUFFICES ASSUME SessionsInit PROVE HoldersAlone
    OBVIOUS
  <1>1. \A s \in Token : Unrevoked(s) = {} /\ Issuing(s) = {}
    BY DEF SessionsInit, Unrevoked, Issuing, Idle
  <1>2. QED
    BY <1>1 DEF SessionsInit, HoldersAlone, OneHolder, Token, Idle

\* Nothing is added to what a session has.
LEMMA HoldersKept ==
  ASSUME HoldersAlone, forked' = forked, ended' = ended, issued' = issued,
         \A t \in Token : t =< issued => token'[t].state # "none",
         \A r \in Request : request'[r].at \notin {"rotate", "issue"} => request'[r].token = 0,
         \A s \in Token \ forked : Unrevoked(s)' \subseteq Unrevoked(s) /\ Issuing(s)' \subseteq Issuing(s)
  PROVE  HoldersAlone'
  BY DEF HoldersAlone, OneHolder

LEMMA NextHolders == SessionTypes /\ HoldersAlone /\ [SessionsNext]_sessionVars => HoldersAlone'
  <1> SUFFICES ASSUME SessionTypes, HoldersAlone, [SessionsNext]_sessionVars PROVE HoldersAlone'
    OBVIOUS
  <1>1. /\ request \in [Request -> RequestRecord]
        /\ token \in [Token -> [session : 0..MaxTokens, state : {"none", "live", "revoked", "expired"}]]
        /\ issued \in 0..MaxTokens
    BY DEF SessionTypes, SessionsTypeOK, RequestRecord
  <1>2. ASSUME token' = token, forked' = forked, ended' = ended, issued' = issued,
               \A q \in Request : \/ request'[q] = request[q]
                                  \/ request'[q].at # "rotate" /\ request'[q].token = 0
                                  \/ request'[q].at = "rotate"
        PROVE  HoldersAlone'
    <2>1. \A s \in Token : Unrevoked(s)' \subseteq Unrevoked(s) /\ Issuing(s)' \subseteq Issuing(s)
      BY <1>2 DEF Unrevoked, Issuing
    <2>2. \A r \in Request : request'[r].at \notin {"rotate", "issue"} => request'[r].token = 0
      BY <1>2 DEF HoldersAlone
    <2>3. QED
      BY <1>2, <2>1, <2>2, HoldersKept DEF HoldersAlone
  <1>3. ASSUME NEW r \in Request, UNCHANGED tokens, \A q \in Request : q # r => request'[q] = request[q],
               request'[r].at # "rotate" => request'[r].token = 0
        PROVE  HoldersAlone'
    BY <1>2, <1>3 DEF tokens
  <1>4. ASSUME NEW r \in Request,
               \/ CountSend(r) \/ (\E c \in 0..codes : CountAttempt(r, c)) \/ \E t \in Token : CheckToken(r, t)
        PROVE  HoldersAlone'
    <2>1. \A q \in Request : q # r => request'[q] = request[q]
      BY <1>1, <1>4 DEF CountSend, CountAttempt, CheckToken, BeginRequest
    <2>2. request'[r].at # "rotate" => request'[r].token = 0
      BY <1>1, <1>4 DEF CountSend, CountAttempt, CheckToken, BeginRequest, Idle
    <2>3. UNCHANGED tokens
      BY <1>4 DEF CountSend, CountAttempt, CheckToken
    <2>4. QED
      BY <1>3, <2>1, <2>2, <2>3
  <1>5. ASSUME NEW r \in Request,
               \/ ExpireRate(r) \/ StoreCode(r) \/ ExpireAttempt(r) \/ Compare(r) \/ DeleteCode(r)
               \/ FindUser(r) \/ CreateUser(r) \/ Gate(r) \/ Fail(r)
        PROVE  HoldersAlone'
    <2>1. \A q \in Request : q # r => request'[q] = request[q]
      BY <1>1, <1>5 DEF ExpireRate, StoreCode, ExpireAttempt, Compare, DeleteCode, FindUser, CreateUser, Gate, Fail,
                        GoesTo, Goes
    <2>2. CASE StoreCode(r) \/ Fail(r)
      <3>1. UNCHANGED tokens /\ request' = [request EXCEPT ![r] = Idle]
        BY <2>2 DEF StoreCode, Fail, Goes
      <3>2. request'[r].token = 0
        BY <1>1, <3>1 DEF Idle
      <3>3. QED
        BY <1>3, <2>1, <3>1, <3>2
    <2>3. CASE ~(StoreCode(r) \/ Fail(r))
      <3>1. UNCHANGED tokens /\ request[r].at \notin {"rotate", "issue"}
        BY <1>5, <2>3 DEF ExpireRate, ExpireAttempt, Compare, DeleteCode, FindUser, CreateUser, Gate
      <3>2. request[r].token = 0
        BY <3>1 DEF HoldersAlone
      <3>3. request'[r].token = 0
        BY <1>1, <1>5, <2>3, <3>2 DEF ExpireRate, ExpireAttempt, Compare, DeleteCode, FindUser, CreateUser, Gate,
                                      GoesTo, Goes, Idle, RequestRecord
      <3>4. QED
        BY <1>3, <2>1, <3>1, <3>3
    <2>4. QED
      BY <2>2, <2>3
  <1>6. ASSUME NEW r \in Request, Issue(r) PROVE HoldersAlone'
    <2>1. PICK t \in Token : t = issued + 1 /\ issued' = t
      BY <1>6 DEF Issue
    <2>2. /\ UNCHANGED <<forked, ended>> /\ request[r].at = "issue"
          /\ request' = [request EXCEPT ![r] = Idle]
      BY <1>6 DEF Issue, Goes
    <2>3. \A q \in Request : q # r => request'[q] = request[q]
      BY <1>1, <2>2
    <2>4. request'[r].at = "idle" /\ request'[r].token = 0
      BY <1>1, <2>2 DEF Idle
    <2>5. PICK s \in Token : token' = [token EXCEPT ![t] = [session |-> s, state |-> "live"]]
                             /\ s = IF request[r].token = 0 THEN t ELSE token[request[r].token].session
      <3>1. CASE request[r].token = 0
        BY <1>6, <2>1, <3>1 DEF Issue
      <3>2. CASE request[r].token # 0
        <4>1. request[r].token \in Token /\ request[r].token =< issued
          BY <1>1, <3>2 DEF SessionTypes, Numbered, RequestRecord, Token
        <4>2. token[request[r].token].session \in 1..request[r].token
          BY <4>1 DEF SessionTypes, Numbered
        <4>3. token[request[r].token].session \in Token
          BY <1>1, <4>1, <4>2 DEF Token
        <4>4. QED
          BY <1>6, <2>1, <3>2, <4>3 DEF Issue
      <3>3. QED
        BY <3>1, <3>2
    <2>6. \A u \in Token : u # t => token'[u] = token[u]
      BY <1>1, <2>5
    <2>7. token'[t] = [session |-> s, state |-> "live"] /\ token[t].state = "none"
      BY <1>1, <2>1, <2>5 DEF SessionTypes, Numbered, Token
    <2>8. \A q \in Request : request[q].token # 0 => request[q].token \in Token /\ request[q].token # t
      BY <1>1, <2>1 DEF SessionTypes, Numbered, RequestRecord, Token
    <2>9. \A x \in Token : /\ Unrevoked(x)' \subseteq IF x = s THEN Unrevoked(x) \cup {t} ELSE Unrevoked(x)
                           /\ Issuing(x)' \subseteq Issuing(x) \ {r}
      BY <2>3, <2>4, <2>6, <2>7, <2>8 DEF Unrevoked, Issuing
    <2>10. s \notin forked => Unrevoked(s) = {} /\ Issuing(s) \subseteq {r} /\ s \notin ended
      <3>1. CASE request[r].token = 0
        <4>1. s = issued + 1
          BY <2>1, <2>5, <3>1
        <4>2. \A u \in Token : token[u].session # s
          BY <1>1, <4>1 DEF SessionTypes, Numbered, Token
        <4>3. s \notin ended
          BY <1>1, <4>1 DEF SessionTypes, Numbered
        <4>4. QED
          BY <2>8, <4>2, <4>3 DEF Unrevoked, Issuing
      <3>2. CASE request[r].token # 0
        <4>1. r \in Issuing(s)
          BY <2>2, <2>5, <3>2 DEF Issuing
        <4>2. QED
          BY <4>1 DEF HoldersAlone, OneHolder
      <3>3. QED
        BY <3>1, <3>2
    <2>11. \A x \in Token \ forked : OneHolder(x)'
      <3> SUFFICES ASSUME NEW x \in Token \ forked PROVE OneHolder(x)'
        OBVIOUS
      <3>1. CASE x = s
        BY <2>2, <2>9, <2>10, <3>1 DEF OneHolder
      <3>2. CASE x # s
        BY <2>2, <2>9, <3>2 DEF HoldersAlone, OneHolder
      <3>3. QED
        BY <3>1, <3>2
    <2>12. \A u \in Token : u =< issued' => token'[u].state # "none"
      BY <1>1, <2>1, <2>6, <2>7 DEF HoldersAlone, Token
    <2>13. QED
      BY <2>2, <2>3, <2>4, <2>11, <2>12 DEF HoldersAlone
  \* One token changes its state.
  <1>7. ASSUME NEW t \in Token, t =< issued, NEW state \in {"revoked", "expired"},
               token' = [token EXCEPT ![t].state = state]
        PROVE  /\ token'[t].session = token[t].session /\ token'[t].state = state
               /\ \A u \in Token : u # t => token'[u] = token[u]
               /\ \A u \in Token : token'[u].session = token[u].session
               /\ \A u \in Token : u =< issued => token'[u].state # "none"
    BY <1>1, <1>7 DEF HoldersAlone
  <1>8. \A q \in Request : request[q].token # 0 => request[q].token \in Token
    BY <1>1 DEF RequestRecord, Token
  <1>9. ASSUME NEW r \in Request, Rotate(r) PROVE HoldersAlone'
    <2> PICK t \in Token : t = request[r].token /\ t =< issued
      BY <1>1, <1>9 DEF Rotate, SessionTypes, Numbered, RequestRecord, Token
    <2> PICK s \in Token : s = token[t].session
      BY <1>1 DEF SessionTypes, Numbered, Token
    <2>1. /\ token' = [token EXCEPT ![t].state = "revoked"] /\ UNCHANGED <<issued, ended>>
          /\ request' = [request EXCEPT ![r].at = "issue"]
      BY <1>9 DEF Rotate, GoesTo, Goes
    <2>2. /\ request[r].at = "rotate" /\ request[r].existing = "live"
          /\ forked' = IF token[t].state = "revoked" THEN forked \cup {s} ELSE forked
      BY <1>9 DEF Rotate, SessionTypes, Numbered
    <2>3. /\ token'[t].session = s /\ token'[t].state = "revoked"
          /\ \A u \in Token : u # t => token'[u] = token[u]
          /\ \A u \in Token : token'[u].session = token[u].session
          /\ \A u \in Token : u =< issued => token'[u].state # "none"
      BY <1>7, <2>1
    <2>4. /\ \A q \in Request : q # r => request'[q] = request[q]
          /\ request'[r].at = "issue" /\ request'[r].token = t
      BY <1>1, <2>1 DEF RequestRecord
    <2>5. \A x \in Token : /\ Unrevoked(x)' \subseteq Unrevoked(x) \ {t}
                           /\ Issuing(x)' \subseteq IF x = s THEN Issuing(x) \cup {r} ELSE Issuing(x)
      BY <1>8, <2>3, <2>4 DEF Unrevoked, Issuing
    <2>6. s \notin forked' => t \in Unrevoked(s)
      BY <1>1, <2>2 DEF Unrevoked, HoldersAlone
    <2>7. \A x \in Token \ forked' : OneHolder(x)'
      <3> SUFFICES ASSUME NEW x \in Token \ forked' PROVE OneHolder(x)'
        OBVIOUS
      <3>1. OneHolder(x)
        BY <2>2 DEF HoldersAlone
      <3>2. CASE x = s
        BY <2>1, <2>5, <2>6, <3>1, <3>2 DEF OneHolder
      <3>3. CASE x # s
        BY <2>1, <2>5, <3>1, <3>3 DEF OneHolder
      <3>4. QED
        BY <3>2, <3>3
    <2>8. QED
      BY <2>1, <2>3, <2>4, <2>7 DEF HoldersAlone
  <1>10. ASSUME NEW t \in Token, Logout(t) \/ TokenExpires(t) PROVE HoldersAlone'
    <2>1. t =< issued
      <3>1. t > issued => token[t].state = "none"
        BY DEF SessionTypes, Numbered
      <3>2. QED
        BY <1>1, <1>10, <3>1 DEF Logout, TokenExpires, Token
    <2>2. PICK state \in {"revoked", "expired"} : token' = [token EXCEPT ![t].state = state]
                                                  /\ (Logout(t) => state = "revoked")
      BY <1>10 DEF Logout, TokenExpires
    <2>3. /\ token'[t].session = token[t].session /\ token'[t].state = state
          /\ \A u \in Token : u # t => token'[u] = token[u]
          /\ \A u \in Token : token'[u].session = token[u].session
          /\ \A u \in Token : u =< issued => token'[u].state # "none"
      BY <1>7, <2>1, <2>2
    <2>4. request' = request /\ forked' = forked /\ issued' = issued
      BY <1>10 DEF Logout, TokenExpires
    <2>5. \A x \in Token : Unrevoked(x)' \subseteq Unrevoked(x) /\ Issuing(x)' \subseteq Issuing(x)
      <3>1. token[t].state # "revoked"
        BY <1>10 DEF Logout, TokenExpires
      <3>2. token[t].state \in {"live", "expired"}
        BY <1>1, <2>1, <3>1 DEF HoldersAlone
      <3>3. QED
        BY <1>8, <2>3, <2>4, <3>2 DEF Unrevoked, Issuing
    <2>6. CASE ended' = ended
      BY <2>3, <2>4, <2>5, <2>6, HoldersKept DEF HoldersAlone
    <2>7. CASE ended' # ended
      <3>1. /\ Logout(t) /\ token[t].state = "live" /\ state = "revoked"
            /\ ended' = ended \cup {token[t].session}
        BY <1>10, <2>2, <2>7 DEF Logout, TokenExpires
      <3>2. \A x \in Token : t \notin Unrevoked(x)'
        BY <2>3, <3>1 DEF Unrevoked
      <3>3. t \in Unrevoked(token[t].session)
        BY <3>1 DEF Unrevoked
      <3>4. \A x \in Token \ forked : OneHolder(x)'
        BY <2>4, <2>5, <3>1, <3>2, <3>3 DEF HoldersAlone, OneHolder
      <3>5. QED
        BY <2>3, <2>4, <3>4 DEF HoldersAlone
    <2>8. QED
      BY <2>6, <2>7
  <1>11. ASSUME \/ \E state \in {"active", "disabled"} : SetActive(state)
                \/ CodeExpires \/ RateExpires \/ AttemptExpires \/ UNCHANGED sessionVars
         PROVE  HoldersAlone'
    BY <1>2, <1>11 DEF SetActive, CodeExpires, RateExpires, AttemptExpires, tokens, sessionVars
  <1>12. QED
    BY <1>4, <1>5, <1>6, <1>9, <1>10, <1>11 DEF SessionsNext, OfRequest
-----------------------------------------------------------------------------
\* At most one element.
LEMMA AtMostOne ==
  ASSUME NEW S, \A x, y \in S : x = y
  PROVE  IsFiniteSet(S) /\ Cardinality(S) \in 0..1 /\ (S = {} => Cardinality(S) = 0)
  <1>1. CASE S = {}
    BY <1>1, FS_EmptySet
  <1>2. CASE S # {}
    <2>1. PICK x \in S : TRUE
      BY <1>2
    <2>2. S = {x}
      BY <2>1
    <2>3. IsFiniteSet({x}) /\ Cardinality({x}) = 1
      BY FS_Singleton
    <2>4. QED
      BY <1>2, <2>2, <2>3
  <1>3. QED
    BY <1>1, <1>2

\* What HoldersAlone says of sets, OneTokenPerSession says of their sizes.
LEMMA HoldersCounted == HoldersAlone => OneTokenPerSession
  <1> SUFFICES ASSUME HoldersAlone, NEW s \in Token \ forked
               PROVE  Cardinality({t \in Token : token[t].session = s /\ token[t].state = "live"})
                        + Cardinality({r \in Request : request[r].at = "issue" /\ request[r].token # 0
                                                         /\ token[request[r].token].session = s})
                      =< IF s \in ended THEN 0 ELSE 1
    BY DEF OneTokenPerSession
  <1> DEFINE Live == {t \in Token : token[t].session = s /\ token[t].state = "live"}
  <1>1. OneHolder(s) /\ Live \subseteq Unrevoked(s)
    BY DEF HoldersAlone, Unrevoked
  <1>2. \A t, u \in Live : t = u
    BY <1>1 DEF OneHolder
  <1>3. \A q, r \in Issuing(s) : q = r
    BY <1>1 DEF OneHolder
  <1>4. Live = {} \/ Issuing(s) = {}
    BY <1>1 DEF OneHolder
  <1>5. s \in ended => Live = {} /\ Issuing(s) = {}
    BY <1>1 DEF OneHolder
  <1>6. Issuing(s) = {r \in Request : request[r].at = "issue" /\ request[r].token # 0
                                        /\ token[request[r].token].session = s}
    BY DEF Issuing
  <1> HIDE DEF Live
  <1>7. Cardinality(Live) \in 0..1 /\ (Live = {} => Cardinality(Live) = 0)
    BY <1>2, AtMostOne
  <1>8. Cardinality(Issuing(s)) \in 0..1 /\ (Issuing(s) = {} => Cardinality(Issuing(s)) = 0)
    BY <1>3, AtMostOne
  <1>9. Cardinality(Live) + Cardinality(Issuing(s)) =< IF s \in ended THEN 0 ELSE 1
    BY <1>4, <1>5, <1>7, <1>8
  <1>10. QED
    BY <1>6, <1>9 DEF Live

\* However refreshes, logouts and expiries of a session overlap (refresh reads the row,
\* revokes it and signs a new one in three steps): a session has one token, and none once
\* it is logged out, but for the sessions the model marks as overtaken.
THEOREM TokensStaySingle == SessionsSpec => []OneTokenPerSession
  BY InitHolders, NextHolders, HoldersCounted, SessionTypesHold, PTL DEF SessionsSpec

\* Everything sign-in promises at once.
THEOREM SignInSound == SessionsSpec => []SignInsAreSound
  <1>1. SessionTypes /\ GuessesBounded /\ OneLoginPerCode /\ GatePassed /\ OneTokenPerSession
        => SignInsAreSound
    BY DEF SessionTypes, SignInsAreSound
  <1>2. QED
    BY <1>1, SessionTypesHold, GuessesAreBounded, CodesLogInOnce, TokensPassTheGate, TokensStaySingle,
       PTL
=============================================================================
