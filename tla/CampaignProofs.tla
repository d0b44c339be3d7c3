--------------------------- MODULE CampaignProofs ---------------------------
(***************************************************************************)
(* Proofs about Campaign.tla, for any set of users, campaigns and          *)
(* administrators: the capacity, the one active campaign, the key in Redis *)
(* and the refusals; and about Waitlist.tla, for any set of users and      *)
(* administrators and any number of reminders: the order of the grants,    *)
(* the limit in Redis and the order of the reminders.                      *)
(***************************************************************************)
EXTENDS Campaign, Waitlist, FiniteSetTheorems, TLAPS

(* What the handlers hold *)

\* A user who applies, and who creates a campaign in place of another, has found one.
HoldersHold ==
  /\ \A u \in User : signup[u].at = "apply" => signup[u].campaign # None
  /\ \A a \in Admin : admin[a].at = "close" => admin[a].campaign # None

CampaignTypes == TypeOK /\ HoldersHold

LEMMA InitTypes == Init => CampaignTypes
  <1> SUFFICES ASSUME Init PROVE CampaignTypes
    OBVIOUS
  <1>1. First \in CampaignId
    BY CampaignAssumption DEF First
  <1>2. status \in [CampaignId -> {"none", "ACTIVE", "CLOSED"}]
        /\ granted \in [CampaignId -> Nat] /\ top \in [CampaignId -> Capacities]
        /\ requests \in 0..MaxRequests
    BY <1>1, CampaignAssumption DEF Init
  <1>3. /\ signup \in [User -> [at : {"new", "find", "fill", "apply", "clear", "done"},
                                campaign : CampaignId \cup {None}]]
        /\ admin \in [Admin -> [at : {"rest", "close", "create", "invalidate"},
                                campaign : CampaignId \cup {None}]]
        /\ HoldersHold
    BY DEF Init, HoldersHold, AtRest
  <1>4. QED
    BY <1>2, <1>3 DEF Init, CampaignTypes, TypeOK

LEMMA NextTypes == CampaignTypes /\ [Next]_vars => CampaignTypes'
  <1> SUFFICES ASSUME CampaignTypes, [Next]_vars PROVE CampaignTypes'
    OBVIOUS
  <1> USE CampaignAssumption DEF CampaignTypes, TypeOK, HoldersHold, rows, signups
  <1>1. CASE ExpireActive
    BY <1>1 DEF ExpireActive, DeleteActive
  <1>2. ASSUME NEW u \in User, ReadActive(u) PROVE CampaignTypes'
    BY <1>2, SMTT(30) DEF ReadActive, Decide, Go
  <1>3. ASSUME NEW u \in User, FindActive(u) PROVE CampaignTypes'
    BY <1>3 DEF FindActive, Go, Active
  <1>4. ASSUME NEW u \in User, FillActive(u) PROVE CampaignTypes'
    BY <1>4 DEF FillActive, Decide, Go
  <1>5. ASSUME NEW u \in User, Admit(u) PROVE CampaignTypes'
    BY <1>5 DEF Admit, HasRoom, Go
  <1>6. ASSUME NEW u \in User, Refuse(u) PROVE CampaignTypes'
    BY <1>6 DEF Refuse, HasRoom, Go
  <1>7. ASSUME NEW u \in User, ClearActive(u) PROVE CampaignTypes'
    BY <1>7 DEF ClearActive, DeleteActive, Go
  <1>8. ASSUME NEW u \in User, SignupDies(u) PROVE CampaignTypes'
    BY <1>8 DEF SignupDies, Go
  <1>9. ASSUME NEW a \in Admin, CreateFinds(a) PROVE CampaignTypes'
    BY <1>9 DEF CreateFinds, Begin, Active
  <1>10. ASSUME NEW a \in Admin, CreateCloses(a) PROVE CampaignTypes'
    BY <1>10 DEF CreateCloses, Replace, Close, Overtake, To
  <1>11. ASSUME NEW a \in Admin, Create(a) PROVE CampaignTypes'
    BY <1>11 DEF Create, Overtake, To
  <1>12. ASSUME NEW a \in Admin, NEW c \in CampaignId, CloseCampaign(a, c) PROVE CampaignTypes'
    BY <1>12 DEF CloseCampaign, Begin, Close, Overtake
  <1>13. ASSUME NEW a \in Admin, NEW c \in CampaignId, NEW n \in Capacities, UpdateCampaign(a, c, n)
         PROVE  CampaignTypes'
    <2>1. status' \in [CampaignId -> {"none", "ACTIVE", "CLOSED"}] /\ stale' \in BOOLEAN
          /\ crossed' \in BOOLEAN /\ misled' \subseteq User
      BY <1>13 DEF UpdateCampaign, Close, Reopen, Overtake
    <2>2. admin' \in [Admin -> [at : {"rest", "close", "create", "invalidate"},
                                campaign : CampaignId \cup {None}]]
          /\ requests' \in 0..MaxRequests
          /\ \A b \in Admin : admin'[b].at = "close" => admin'[b].campaign # None
      BY <1>13 DEF UpdateCampaign, Begin
    <2>3. QED
      BY <1>13, <2>1, <2>2 DEF UpdateCampaign, NewCapacity
  <1>14. ASSUME NEW a \in Admin, Finish(a) PROVE CampaignTypes'
    BY <1>14 DEF Finish, Invalidate, DeleteActive, AtRest
  <1>15. ASSUME NEW a \in Admin, AdminDies(a) PROVE CampaignTypes'
    BY <1>15 DEF AdminDies, AtRest
  <1>16. CASE UNCHANGED vars
    BY <1>16 DEF vars
  <1>17. QED
    BY <1>1, <1>2, <1>3, <1>4, <1>5, <1>6, <1>7, <1>8, <1>9, <1>10, <1>11, <1>12, <1>13,
       <1>14, <1>15, <1>16 DEF Next, OfUser, OfAdmin
LEMMA TypesHold == Spec => []CampaignTypes
  BY InitTypes, NextTypes, PTL DEF Spec
-----------------------------------------------------------------------------
(* The capacity *)

AdmittedBy(c) == {u \in User : admitted[u] = c}

\* Who has not reached the decision has not been admitted; the count of a campaign is
\* that of its users and below its largest capacity, and no capacity is above that.
CountsAreTrue ==
  /\ \A u \in User : signup[u].at \in {"new", "find", "fill", "apply"} => admitted[u] = None
  /\ \A c \in CampaignId :
       /\ IsFiniteSet(AdmittedBy(c))
       /\ granted[c] = Cardinality(AdmittedBy(c))
       /\ granted[c] =< top[c] /\ capacity[c] =< top[c]

LEMMA InitCounts == Init => CountsAreTrue
  <1> SUFFICES ASSUME Init PROVE CountsAreTrue
    OBVIOUS
  <1> USE CampaignAssumption DEF Init
  <1>1. \A c \in CampaignId : AdmittedBy(c) = {}
    BY DEF AdmittedBy
  <1>2. \A c \in CampaignId : IsFiniteSet(AdmittedBy(c)) /\ Cardinality(AdmittedBy(c)) = 0
    BY <1>1, FS_EmptySet
  <1>3. \A c \in CampaignId : capacity[c] \in Nat
    OBVIOUS
  <1>4. QED
    BY <1>2, <1>3 DEF CountsAreTrue

\* A step that admits nobody and gives no campaign a smaller largest capacity.
LEMMA CountsKept ==
  ASSUME CountsAreTrue, admitted' = admitted, granted' = granted,
         \A c \in CampaignId : granted[c] =< top'[c] /\ capacity'[c] =< top'[c],
         \A u \in User : signup'[u].at \in {"new", "find", "fill", "apply"}
                         => signup[u].at \in {"new", "find", "fill", "apply"}
  PROVE  CountsAreTrue'
  BY DEF CountsAreTrue, AdmittedBy

LEMMA NextCounts == CampaignTypes /\ CountsAreTrue /\ [Next]_vars => CountsAreTrue'
  <1> SUFFICES ASSUME CampaignTypes, CountsAreTrue, [Next]_vars PROVE CountsAreTrue'
    OBVIOUS
  <1> DEFINE before == {"new", "find", "fill", "apply"}
             SignupsKept == \A u \in User : signup'[u].at \in before => signup[u].at \in before
             RowsKept == capacity' = capacity /\ top' = top
  <1>1. ASSUME admitted' = admitted, granted' = granted, RowsKept, SignupsKept
        PROVE  CountsAreTrue'
    BY <1>1, CountsKept DEF CountsAreTrue
  <1>2. ASSUME NEW u \in User, ReadActive(u) \/ FindActive(u) \/ FillActive(u) \/ Refuse(u)
                             \/ ClearActive(u) \/ SignupDies(u)
        PROVE  CountsAreTrue'
    <2>1. admitted' = admitted /\ granted' = granted /\ RowsKept
      BY <1>2 DEF ReadActive, FindActive, FillActive, Refuse, ClearActive, SignupDies, rows
    <2>2. SignupsKept
      BY <1>2 DEF ReadActive, FindActive, FillActive, Refuse, ClearActive, SignupDies, Decide, Go,
                  CampaignTypes, TypeOK
    <2>3. QED
      BY <1>1, <2>1, <2>2
  <1>3. ASSUME NEW u \in User, Admit(u) PROVE CountsAreTrue'
    <2> PICK d \in CampaignId : d = signup[u].campaign
      BY <1>3 DEF Admit, CampaignTypes, HoldersHold, TypeOK
    <2>1. /\ admitted[u] = None /\ u \notin AdmittedBy(d)
          /\ granted[d] < capacity[d]
      BY <1>3, CampaignAssumption DEF Admit, HasRoom, CountsAreTrue, AdmittedBy, CampaignTypes,
                                     HoldersHold, TypeOK
    <2>2. admitted' = [admitted EXCEPT ![u] = d] /\ granted' = [granted EXCEPT ![d] = @ + 1]
          /\ RowsKept
      BY <1>3 DEF Admit
    <2>3. AdmittedBy(d)' = AdmittedBy(d) \cup {u}
      BY <2>1, <2>2 DEF AdmittedBy, CampaignTypes, TypeOK
    <2>4. \A c \in CampaignId \ {d} : AdmittedBy(c)' = AdmittedBy(c)
      BY <2>1, <2>2, CampaignAssumption DEF AdmittedBy, CampaignTypes, TypeOK
    <2>5. IsFiniteSet(AdmittedBy(d)') /\ Cardinality(AdmittedBy(d)') = granted[d] + 1
      BY <2>1, <2>3, FS_AddElement DEF CountsAreTrue
    <2>6. \A v \in User : signup'[v].at \in before => admitted'[v] = None
      BY <1>3, <2>2 DEF Admit, Go, CountsAreTrue, CampaignTypes, TypeOK
    <2>7. granted'[d] = granted[d] + 1 /\ granted[d] + 1 =< top[d]
      BY <2>1, <2>2, CampaignAssumption DEF CountsAreTrue, CampaignTypes, TypeOK
    <2>8. \A c \in CampaignId \ {d} : granted'[c] = granted[c]
      BY <2>1, <2>2 DEF CampaignTypes, TypeOK
    <2>9. \A c \in CampaignId : /\ IsFiniteSet(AdmittedBy(c)')
                                /\ granted'[c] = Cardinality(AdmittedBy(c)')
                                /\ granted'[c] =< top[c] /\ capacity[c] =< top[c]
      BY <2>4, <2>5, <2>7, <2>8 DEF CountsAreTrue
    <2>10. QED
      BY <2>2, <2>6, <2>9 DEF CountsAreTrue
  <1>4. ASSUME NEW a \in Admin, CreateFinds(a) \/ CreateCloses(a) \/ Create(a) \/ Finish(a)
                               \/ AdminDies(a) \/ \E c \in CampaignId : CloseCampaign(a, c)
        PROVE  CountsAreTrue'
    BY <1>1, <1>4 DEF CreateFinds, CreateCloses, Create, Finish, AdminDies, CloseCampaign, rows, signups
  <1>5. ASSUME NEW a \in Admin, NEW c \in CampaignId, NEW n \in Capacities, UpdateCampaign(a, c, n)
        PROVE  CountsAreTrue'
    <2>1. \A b \in CampaignId : /\ granted[b] =< top[b] /\ capacity[b] =< top[b]
                                /\ granted[b] \in Nat /\ capacity[b] \in Nat /\ top[b] \in Nat
      BY CampaignAssumption DEF CountsAreTrue, CampaignTypes, TypeOK
    <2>2. /\ capacity' = [capacity EXCEPT ![c] = n]
          /\ top' = [top EXCEPT ![c] = IF n > @ THEN n ELSE @]
          /\ admitted' = admitted /\ granted' = granted /\ signup' = signup
      BY <1>5 DEF UpdateCampaign, NewCapacity, signups
    <2>3. \A b \in CampaignId : granted[b] =< top'[b] /\ capacity'[b] =< top'[b]
      <3>1. n \in Nat
        BY CampaignAssumption
      <3>2. QED
        BY <2>1, <2>2, <3>1 DEF CampaignTypes, TypeOK
    <2>4. QED
      BY <2>2, <2>3, CountsKept
  <1>6. CASE ExpireActive \/ UNCHANGED vars
    BY <1>1, <1>6 DEF ExpireActive, vars, rows, signups
  <1>7. QED
    BY <1>2, <1>3, <1>4, <1>5, <1>6 DEF Next, OfUser, OfAdmin

\* However many logins and changes of the capacity race (the UPDATE of applyToNewUser),
\* and whatever dies on the way: a campaign admits no more users than its largest capacity.
THEOREM CapacityHolds == Spec => []AdmittedWithinCapacity
  <1>1. CountsAreTrue => AdmittedWithinCapacity
    BY DEF CountsAreTrue, AdmittedBy, AdmittedWithinCapacity
  <1>2. Spec => []CountsAreTrue
    BY InitCounts, NextCounts, TypesHold, PTL DEF Spec
  <1>3. QED
    BY <1>1, <1>2, PTL
-----------------------------------------------------------------------------
(* One campaign *)

\* Unless createCampaign crossed: one campaign is active, one administrator at most is
\* creating another, and has found that one or closed it.
OneCreator ==
  \/ crossed
  \/ /\ \A c, d \in Active : c = d
     /\ \A a, b \in Admin : admin[a].at \in {"close", "create"} /\ admin[b].at \in {"close", "create"}
                            => a = b
     /\ \A a \in Admin : admin[a].at = "close" => Active \subseteq {admin[a].campaign}
     /\ \A a \in Admin : admin[a].at = "create" => Active = {}

\* What the key may say of the campaigns.
Current == IF Active = {} THEN {None} ELSE Active

\* A login about to fill the key holds what is current, or the key is known to be late.
FillsAreCurrent == \A u \in Filling : signup[u].campaign \in Current \/ stale

\* A user who is to fill the key with a campaign, or to apply to one, has one that is
\* active or was misled; so was whoever found the campaign closed.
ApplicantsAreRight ==
  /\ \A u \in User : /\ signup[u].at \in {"fill", "apply"} /\ signup[u].campaign \in CampaignId
                     => signup[u].campaign \in Active \/ u \in misled
  /\ RefusedOnlyIfFullOrMisled

OneCampaignInv == OneCreator /\ FillsAreCurrent /\ KeyCurrentUnlessOvertaken /\ ApplicantsAreRight

LEMMA InitOneCampaign == Init => OneCampaignInv
  <1> SUFFICES ASSUME Init PROVE OneCampaignInv
    OBVIOUS
  <1>1. First \in CampaignId
    BY CampaignAssumption DEF First
  <1>2. Active = {First}
    BY <1>1 DEF Init, Active
  <1>3. OneCreator
    BY <1>2 DEF Init, OneCreator, AtRest
  <1>4. FillsAreCurrent /\ KeyCurrentUnlessOvertaken /\ ApplicantsAreRight
    BY DEF Init, FillsAreCurrent, Filling, KeyCurrentUnlessOvertaken, KeyIsCurrent, ApplicantsAreRight,
           RefusedOnlyIfFullOrMisled
  <1>5. QED
    BY <1>3, <1>4 DEF OneCampaignInv

LEMMA NextOneCreator == CampaignTypes /\ OneCreator /\ [Next]_vars => OneCreator'
  <1> SUFFICES ASSUME CampaignTypes, OneCreator, [Next]_vars PROVE OneCreator'
    OBVIOUS
  <1> USE CampaignAssumption DEF OneCreator
  <1>1. ASSUME status' = status, admin' = admin, crossed' = crossed PROVE OneCreator'
    BY <1>1 DEF Active
  <1>2. CASE ExpireActive \/ (\E u \in User : OfUser(u)) \/ UNCHANGED vars
    BY <1>1, <1>2 DEF ExpireActive, OfUser, ReadActive, FindActive, FillActive, Admit, Refuse,
                      ClearActive, SignupDies, vars, rows
  <1>3. ASSUME NEW a \in Admin, CreateFinds(a) PROVE OneCreator'
    <2>1. CASE crossed \/ \E b \in Admin : admin[b].at \in {"close", "create"}
      BY <1>3, <2>1 DEF CreateFinds
    <2>2. CASE ~crossed /\ \A b \in Admin : admin[b].at \notin {"close", "create"}
      <3>1. Active' = Active
        BY <1>3 DEF CreateFinds, Active, rows
      <3>2. PICK c \in IF Active = {} THEN {None} ELSE Active :
                Begin(a, IF c = None THEN "create" ELSE "close", c)
        BY <1>3 DEF CreateFinds
      <3>3. c = None <=> Active = {}
        BY <3>2 DEF Active
      <3>4. admin' = [admin EXCEPT ![a] = [at |-> IF c = None THEN "create" ELSE "close", campaign |-> c]]
        BY <3>2 DEF Begin
      <3>5. /\ \A b \in Admin : admin'[b].at \in {"close", "create"} => a = b
            /\ admin'[a].at = "close" => Active # {} /\ admin'[a].campaign = c
            /\ admin'[a].at = "create" => Active = {}
        BY <2>2, <3>3, <3>4 DEF CampaignTypes, TypeOK
      <3>6. QED
        BY <2>2, <3>1, <3>2, <3>5
    <2>3. QED
      BY <2>1, <2>2
  <1>4. ASSUME NEW a \in Admin, CreateCloses(a) PROVE OneCreator'
    <2>1. /\ admin[a].at = "close" /\ crossed' = crossed
          /\ status' = [status EXCEPT ![admin[a].campaign] = "CLOSED"]
          /\ admin' = [admin EXCEPT ![a].at = "create"]
      BY <1>4 DEF CreateCloses, Replace, Close, To
    <2>2. Active' = Active \ {admin[a].campaign}
      BY <2>1 DEF Active, CampaignTypes, TypeOK
    <2>3. \A b \in Admin : b # a => admin'[b] = admin[b]
      BY <2>1 DEF CampaignTypes, TypeOK
    <2>4. QED
      BY <2>1, <2>2, <2>3
  <1>5. ASSUME NEW a \in Admin, Create(a) PROVE OneCreator'
    <2>1. PICK c \in CampaignId : status' = [status EXCEPT ![c] = "ACTIVE"]
      BY <1>5 DEF Create
    <2>2. Active' = Active \cup {c}
      BY <2>1 DEF Active, CampaignTypes, TypeOK
    <2>3. /\ admin[a].at = "create" /\ crossed' = crossed
          /\ admin'[a].at = "invalidate" /\ \A b \in Admin : b # a => admin'[b] = admin[b]
      BY <1>5 DEF Create, To, CampaignTypes, TypeOK
    <2>4. QED
      BY <2>2, <2>3
  <1>6. ASSUME NEW a \in Admin, admin[a].at = "rest", admin'[a].at = "invalidate",
               \A b \in Admin : b # a => admin'[b] = admin[b],
               Active' \subseteq Active, crossed' = crossed
        PROVE  OneCreator'
    BY <1>6
  <1>7. ASSUME NEW a \in Admin, NEW c \in CampaignId, CloseCampaign(a, c) PROVE OneCreator'
    <2>1. Active' \subseteq Active
      BY <1>7 DEF CloseCampaign, Close, Active, CampaignTypes, TypeOK
    <2>2. QED
      BY <1>6, <1>7, <2>1 DEF CloseCampaign, Begin, CampaignTypes, TypeOK
  <1>8. ASSUME NEW a \in Admin, NEW c \in CampaignId, NEW n \in Capacities, UpdateCampaign(a, c, n)
        PROVE  OneCreator'
    <2>1. /\ admin[a].at = "rest" /\ admin'[a].at = "invalidate"
          /\ \A b \in Admin : b # a => admin'[b] = admin[b]
      BY <1>8 DEF UpdateCampaign, Begin, CampaignTypes, TypeOK
    <2>2. CASE Close(c) /\ UNCHANGED crossed
      <3>1. Active' \subseteq Active
        BY <2>2 DEF Close, Active, CampaignTypes, TypeOK
      <3>2. QED
        BY <1>6, <2>1, <2>2, <3>1
    <2>3. CASE Reopen(c)
      <3>1. Active' = Active \cup {c}
        BY <2>3 DEF Reopen, Active, CampaignTypes, TypeOK
      <3>2. QED
        BY <2>1, <2>3, <3>1 DEF Reopen
    <2>4. CASE UNCHANGED <<status, stale, misled, crossed>>
      BY <1>6, <2>1, <2>4 DEF Active
    <2>5. QED
      BY <1>8, <2>2, <2>3, <2>4 DEF UpdateCampaign
  <1>9. ASSUME NEW a \in Admin, Finish(a) \/ AdminDies(a) PROVE OneCreator'
    <2>1. /\ status' = status /\ crossed' = crossed /\ admin'[a].at = "rest"
          /\ \A b \in Admin : b # a => admin'[b] = admin[b]
      BY <1>9 DEF Finish, AdminDies, rows, AtRest, CampaignTypes, TypeOK
    <2>2. Active' = Active
      BY <2>1 DEF Active
    <2>3. QED
      BY <2>1, <2>2
  <1>10. QED
    BY <1>2, <1>3, <1>4, <1>5, <1>7, <1>8, <1>9 DEF Next, OfAdmin
-----------------------------------------------------------------------------
(* The key *)

LEMMA CurrentKey == KeyIsCurrent <=> active \in {Empty} \cup Current
  BY DEF KeyIsCurrent, Current

\* What a step must do to keep the key right: leave everything alone but who is done,
\* delete the key, or fill it with what was current.
LEMMA KeyKept ==
  ASSUME FillsAreCurrent, KeyCurrentUnlessOvertaken, Current' = Current, active' = active,
         stale' = stale, KeyIsLate => KeyIsLate',
         \A u \in User : signup'[u].at = "fill" =>
                          \/ signup[u].at = "fill" /\ signup'[u].campaign = signup[u].campaign
                          \/ signup'[u].campaign \in Current
  PROVE  FillsAreCurrent' /\ KeyCurrentUnlessOvertaken'
  BY CurrentKey DEF FillsAreCurrent, Filling, KeyCurrentUnlessOvertaken, KeyIsCurrent, Current

LEMMA KeyDeleted ==
  ASSUME DeleteActive, Filling' \subseteq Filling
  PROVE  FillsAreCurrent' /\ KeyCurrentUnlessOvertaken'
  BY DEF DeleteActive, FillsAreCurrent, KeyCurrentUnlessOvertaken, KeyIsCurrent

LEMMA NextKey == CampaignTypes /\ FillsAreCurrent /\ KeyCurrentUnlessOvertaken /\ [Next]_vars
                 => FillsAreCurrent' /\ KeyCurrentUnlessOvertaken'
  <1> SUFFICES ASSUME CampaignTypes, FillsAreCurrent, KeyCurrentUnlessOvertaken, [Next]_vars
               PROVE  FillsAreCurrent' /\ KeyCurrentUnlessOvertaken'
    OBVIOUS
  <1> USE CampaignAssumption DEF CampaignTypes, TypeOK
  <1>1. CASE ExpireActive
    BY <1>1, KeyDeleted DEF ExpireActive, signups, Filling
  <1>2. ASSUME NEW u \in User, ReadActive(u) \/ Admit(u) \/ Refuse(u) \/ SignupDies(u)
        PROVE  FillsAreCurrent' /\ KeyCurrentUnlessOvertaken'
    <2>1. Current' = Current /\ active' = active /\ stale' = stale /\ (KeyIsLate => KeyIsLate')
      BY <1>2, ZenonT(40) DEF ReadActive, Admit, Refuse, SignupDies, rows, Current, Active, KeyIsLate
    <2>2. \A v \in User : signup'[v].at = "fill" =>
                            signup[v].at = "fill" /\ signup'[v].campaign = signup[v].campaign
      BY <1>2 DEF ReadActive, Admit, Refuse, SignupDies, Decide, Go
    <2>3. QED
      BY <2>1, <2>2, KeyKept
  <1>3. ASSUME NEW u \in User, FindActive(u) PROVE FillsAreCurrent' /\ KeyCurrentUnlessOvertaken'
    <2>1. Current' = Current /\ active' = active /\ stale' = stale /\ (KeyIsLate => KeyIsLate')
      BY <1>3 DEF FindActive, rows, Current, Active, KeyIsLate
    <2>2. PICK c \in Current : Go(u, "fill", c)
      BY <1>3 DEF FindActive, Current
    <2>3. \A v \in User : \/ signup'[v] = signup[v]
                          \/ signup'[v].campaign \in Current
      BY <2>2 DEF Go
    <2>4. QED
      BY <2>1, <2>3, KeyKept
  <1>4. ASSUME NEW u \in User, FillActive(u) PROVE FillsAreCurrent' /\ KeyCurrentUnlessOvertaken'
    <2>1. Current' = Current /\ stale' = stale /\ active' = signup[u].campaign /\ u \in Filling
      BY <1>4 DEF FillActive, rows, Current, Active, Filling
    <2>2. signup[u].campaign \in Current \/ stale
      BY <2>1 DEF FillsAreCurrent
    <2>3. KeyCurrentUnlessOvertaken'
      BY <2>1, <2>2 DEF KeyCurrentUnlessOvertaken, KeyIsCurrent, KeyIsLate, Current
    <2>4. \A v \in Filling' : v \in Filling /\ signup'[v] = signup[v]
      BY <1>4 DEF FillActive, Decide, Go, Filling
    <2>5. QED
      BY <2>1, <2>3, <2>4 DEF FillsAreCurrent
  <1>5. ASSUME NEW u \in User, ClearActive(u) PROVE FillsAreCurrent' /\ KeyCurrentUnlessOvertaken'
    <2>1. Filling' \subseteq Filling
      BY <1>5 DEF ClearActive, Go, Filling
    <2>2. QED
      BY <1>5, <2>1, KeyDeleted DEF ClearActive
  <1>6. ASSUME NEW a \in Admin, CreateFinds(a) PROVE FillsAreCurrent' /\ KeyCurrentUnlessOvertaken'
    <2>1. Current' = Current /\ active' = active /\ stale' = stale /\ signup' = signup
      BY <1>6 DEF CreateFinds, rows, signups, Current, Active
    <2>2. KeyIsLate => KeyIsLate'
      BY <1>6, <2>1 DEF CreateFinds, Begin, KeyIsLate
    <2>3. QED
      BY <2>1, <2>2, KeyKept
  <1>7. ASSUME NEW a \in Admin, CreateCloses(a) PROVE FillsAreCurrent' /\ KeyCurrentUnlessOvertaken'
    <2> PICK c \in CampaignId : c = admin[a].campaign
      BY <1>7 DEF CreateCloses, HoldersHold
    <2>1. signup' = signup /\ stale' = (stale \/ \E u \in Filling : signup[u].campaign = c)
      BY <1>7 DEF CreateCloses, Replace, Close, Overtake, signups
    <2>2. Active' = Active \ {c}
      BY <1>7 DEF CreateCloses, Replace, Close, Active
    <2>3. KeyIsLate'
      BY <1>7 DEF CreateCloses, To, KeyIsLate
    <2>4. QED
      BY <2>1, <2>2, <2>3 DEF FillsAreCurrent, KeyCurrentUnlessOvertaken, Current, Active, Filling
  <1>8. ASSUME NEW a \in Admin, Create(a) PROVE FillsAreCurrent' /\ KeyCurrentUnlessOvertaken'
    <2>1. signup' = signup /\ stale' = (stale \/ \E u \in Filling : signup[u].campaign = None)
      BY <1>8 DEF Create, Overtake, signups
    <2>2. Active \subseteq Active'
      BY <1>8 DEF Create, Active
    <2>3. KeyIsLate'
      BY <1>8 DEF Create, To, KeyIsLate
    <2>4. QED
      BY <2>1, <2>2, <2>3 DEF FillsAreCurrent, KeyCurrentUnlessOvertaken, Current, Active, Filling
  <1>9. ASSUME NEW a \in Admin, NEW c \in CampaignId, admin'[a].at = "invalidate", signup' = signup,
               Close(c)
        PROVE  FillsAreCurrent' /\ KeyCurrentUnlessOvertaken'
    <2>1. Active' = Active \ {c} /\ stale' = (stale \/ \E u \in Filling : signup[u].campaign = c)
      BY <1>9 DEF Close, Overtake, Active
    <2>2. KeyIsLate'
      BY <1>9 DEF KeyIsLate
    <2>3. QED
      BY <1>9, <2>1, <2>2 DEF FillsAreCurrent, KeyCurrentUnlessOvertaken, Current, Active, Filling
  <1>10. ASSUME NEW a \in Admin, NEW c \in CampaignId, CloseCampaign(a, c)
         PROVE  FillsAreCurrent' /\ KeyCurrentUnlessOvertaken'
    BY <1>9, <1>10 DEF CloseCampaign, Begin, signups
  <1>11. ASSUME NEW a \in Admin, NEW c \in CampaignId, NEW n \in Capacities, UpdateCampaign(a, c, n)
         PROVE  FillsAreCurrent' /\ KeyCurrentUnlessOvertaken'
    <2>1. admin'[a].at = "invalidate" /\ signup' = signup /\ KeyIsLate' /\ active' = active
      BY <1>11 DEF UpdateCampaign, Begin, signups, KeyIsLate
    <2>2. CASE Close(c)
      BY <1>9, <2>1, <2>2
    <2>3. CASE Reopen(c)
      <3>1. stale' = (stale \/ \E u \in Filling : signup[u].campaign = None)
        BY <2>3 DEF Reopen, Overtake
      <3>2. Active \subseteq Active'
        BY <2>3 DEF Reopen, Active
      <3>3. QED
        BY <2>1, <3>1, <3>2 DEF FillsAreCurrent, KeyCurrentUnlessOvertaken, Current, Active, Filling
    <2>4. CASE UNCHANGED <<status, stale, misled, crossed>>
      <3>1. Current' = Current
        BY <2>4 DEF Current, Active
      <3>2. QED
        BY <2>1, <2>4, <3>1, KeyKept
    <2>5. QED
      BY <1>11, <2>2, <2>3, <2>4 DEF UpdateCampaign
  <1>12. ASSUME NEW a \in Admin, Finish(a) PROVE FillsAreCurrent' /\ KeyCurrentUnlessOvertaken'
    BY <1>12, KeyDeleted DEF Finish, Invalidate, signups, Filling
  <1>13. ASSUME NEW a \in Admin, AdminDies(a) PROVE FillsAreCurrent' /\ KeyCurrentUnlessOvertaken'
    <2>1. Current' = Current /\ active' = active /\ signup' = signup /\ (stale => stale')
      BY <1>13 DEF AdminDies, rows, signups, Current, Active
    <2>2. KeyIsLate => KeyIsLate'
      BY <1>13 DEF AdminDies, KeyIsLate
    <2>3. QED
      BY <2>1, <2>2, CurrentKey DEF FillsAreCurrent, Filling, KeyCurrentUnlessOvertaken, KeyIsCurrent, Current
  <1>14. CASE UNCHANGED vars
    BY <1>14 DEF vars, rows, signups, FillsAreCurrent, Filling, KeyCurrentUnlessOvertaken, KeyIsCurrent,
                 KeyIsLate, Current, Active
  <1>15. QED
    BY <1>1, <1>2, <1>3, <1>4, <1>5, <1>6, <1>7, <1>8, <1>10, <1>11, <1>12, <1>13, <1>14
       DEF Next, OfUser, OfAdmin
-----------------------------------------------------------------------------
(* The refusals *)

\* A step that closes no campaign, refuses nobody and gives nobody a campaign.
LEMMA ApplicantsKept ==
  ASSUME ApplicantsAreRight, Active \subseteq Active', misled \subseteq misled', refused' = refused,
         \A u \in User : \/ signup'[u].at \notin {"fill", "apply"}
                         \/ /\ signup[u].at \in {"fill", "apply"}
                            /\ signup'[u].campaign = signup[u].campaign
                         \/ signup'[u].campaign \in CampaignId => signup'[u].campaign \in Active \/ u \in misled'
  PROVE  ApplicantsAreRight'
  BY DEF ApplicantsAreRight, RefusedOnlyIfFullOrMisled

\* Whoever holds a campaign while it is closed is misled from then on.
LEMMA ApplicantsOvertaken ==
  ASSUME CampaignTypes, ApplicantsAreRight, NEW c \in CampaignId, Close(c), signup' = signup, refused' = refused
  PROVE  ApplicantsAreRight'
  <1>1. Active' = Active \ {c}
    BY DEF Close, Active, CampaignTypes, TypeOK
  <1>2. misled' = misled \cup {u \in User : signup[u].at # "done" /\ signup[u].campaign = c}
    BY DEF Close, Overtake
  <1>3. QED
    BY <1>1, <1>2 DEF ApplicantsAreRight, RefusedOnlyIfFullOrMisled

LEMMA NextApplicants == CampaignTypes /\ KeyCurrentUnlessOvertaken /\ ApplicantsAreRight /\ [Next]_vars
                        => ApplicantsAreRight'
  <1> SUFFICES ASSUME CampaignTypes, KeyCurrentUnlessOvertaken, ApplicantsAreRight, [Next]_vars
               PROVE  ApplicantsAreRight'
    OBVIOUS
  <1> USE CampaignAssumption DEF CampaignTypes, TypeOK
  <1>1. ASSUME status' = status, misled' = misled, signup' = signup, refused' = refused
        PROVE  ApplicantsAreRight'
    BY <1>1, ApplicantsKept DEF Active
  <1>2. CASE ExpireActive \/ UNCHANGED vars \/ \E a \in Admin : CreateFinds(a) \/ Finish(a) \/ AdminDies(a)
    BY <1>1, <1>2 DEF ExpireActive, vars, CreateFinds, Finish, AdminDies, rows, signups
  <1>3. ASSUME NEW u \in User, ReadActive(u) PROVE ApplicantsAreRight'
    <2>1. Active' = Active /\ misled \subseteq misled' /\ refused' = refused
      BY <1>3 DEF ReadActive, rows, Active
    <2>2. CASE active \in CampaignId
      <3>1. signup' = [signup EXCEPT ![u] = [at |-> "apply", campaign |-> active]]
        BY <1>3, <2>2 DEF ReadActive, Decide, Go
      <3>2. active \in Active \/ u \in misled'
        BY <1>3, <2>2 DEF ReadActive, KeyCurrentUnlessOvertaken, KeyIsCurrent
      <3>3. QED
        BY <2>1, <3>1, <3>2, ApplicantsKept
    <2>3. CASE active \notin CampaignId
      <3>1. PICK x \in {"find", "done"} : signup' = [signup EXCEPT ![u] = [at |-> x, campaign |-> None]]
        BY <1>3, <2>3 DEF ReadActive, Decide, Go
      <3>2. QED
        BY <2>1, <3>1, ApplicantsKept
    <2>4. QED
      BY <2>2, <2>3
  <1>4. ASSUME NEW u \in User, FindActive(u) PROVE ApplicantsAreRight'
    <2>1. Active' = Active /\ misled' = misled /\ refused' = refused
      BY <1>4 DEF FindActive, rows, Active
    <2>2. PICK c \in IF Active = {} THEN {None} ELSE Active :
               signup' = [signup EXCEPT ![u] = [at |-> "fill", campaign |-> c]]
      BY <1>4 DEF FindActive, Go
    <2>3. QED
      BY <2>1, <2>2, ApplicantsKept
  <1>5. ASSUME NEW u \in User, FillActive(u) PROVE ApplicantsAreRight'
    <2>1. Active' = Active /\ misled' = misled /\ refused' = refused
      BY <1>5 DEF FillActive, rows, Active
    <2>2. PICK x \in {"apply", "done"} :
               signup' = [signup EXCEPT ![u] = [at |-> x, campaign |-> signup[u].campaign]]
      BY <1>5 DEF FillActive, Decide, Go
    <2>3. signup[u].at = "fill"
      BY <1>5 DEF FillActive
    <2>4. QED
      BY <2>1, <2>2, <2>3, ApplicantsKept
  <1>6. ASSUME NEW u \in User, Admit(u) \/ ClearActive(u) \/ SignupDies(u) PROVE ApplicantsAreRight'
    <2>1. Active' = Active /\ misled' = misled /\ refused' = refused
      BY <1>6 DEF Admit, ClearActive, SignupDies, rows, Active
    <2>2. PICK x \in {"clear", "done"} : signup' = [signup EXCEPT ![u] = [at |-> x, campaign |-> None]]
      BY <1>6 DEF Admit, ClearActive, SignupDies, Go
    <2>3. QED
      BY <2>1, <2>2, ApplicantsKept
  <1>7. ASSUME NEW u \in User, Refuse(u) PROVE ApplicantsAreRight'
    <2>1. Active' = Active /\ misled' = misled
      BY <1>7 DEF Refuse, rows, Active
    <2>2. signup[u].campaign \in CampaignId /\ signup[u].at = "apply"
      BY <1>7 DEF Refuse, HoldersHold
    <2>3. refused'[u] = "closed" => u \in misled
      BY <1>7, <2>2 DEF Refuse, ApplicantsAreRight, Active
    <2>4. \A v \in User : v # u => refused'[v] = refused[v] /\ signup'[v] = signup[v]
      BY <1>7 DEF Refuse, Go
    <2>5. signup'[u].at = "done"
      BY <1>7 DEF Refuse, Go
    <2>6. QED
      BY <2>1, <2>3, <2>4, <2>5 DEF ApplicantsAreRight, RefusedOnlyIfFullOrMisled
  <1>8. ASSUME NEW a \in Admin, CreateCloses(a) PROVE ApplicantsAreRight'
    BY <1>8, ApplicantsOvertaken DEF CreateCloses, Replace, HoldersHold, signups
  <1>9. ASSUME NEW c, Overtake(c), Active \subseteq Active', signup' = signup, refused' = refused
        PROVE  ApplicantsAreRight'
    BY <1>9, ApplicantsKept DEF Overtake
  <1>10. ASSUME NEW a \in Admin, Create(a) PROVE ApplicantsAreRight'
    BY <1>9, <1>10 DEF Create, Active, signups
  <1>11. ASSUME NEW a \in Admin, NEW c \in CampaignId, CloseCampaign(a, c) PROVE ApplicantsAreRight'
    BY <1>11, ApplicantsOvertaken DEF CloseCampaign, signups
  <1>12. ASSUME NEW a \in Admin, NEW c \in CampaignId, NEW n \in Capacities, UpdateCampaign(a, c, n)
         PROVE  ApplicantsAreRight'
    <2>1. signup' = signup /\ refused' = refused
      BY <1>12 DEF UpdateCampaign, signups
    <2>2. CASE Close(c)
      BY <2>1, <2>2, ApplicantsOvertaken
    <2>3. CASE Reopen(c)
      BY <1>9, <2>1, <2>3 DEF Reopen, Active
    <2>4. CASE UNCHANGED <<status, stale, misled, crossed>>
      BY <1>1, <2>1, <2>4
    <2>5. QED
      BY <1>12, <2>2, <2>3, <2>4 DEF UpdateCampaign
  <1>13. QED
    BY <1>2, <1>3, <1>4, <1>5, <1>6, <1>7, <1>8, <1>10, <1>11, <1>12 DEF Next, OfUser, OfAdmin
-----------------------------------------------------------------------------
\* At most one element.
LEMMA AtMostOne ==
  ASSUME NEW S, \A x, y \in S : x = y
  PROVE  IsFiniteSet(S) /\ Cardinality(S) =< 1
  <1>1. CASE S = {}
    BY <1>1, FS_EmptySet
  <1>2. CASE S # {}
    <2>1. PICK x \in S : TRUE
      BY <1>2
    <2>2. S = {x}
      BY <2>1
    <2>3. IsFiniteSet({x}) /\ Cardinality({x}) = 1
      BY FS_Singleton
    <2>4. QED
      BY <2>2, <2>3
  <1>3. QED
    BY <1>1, <1>2

LEMMA OneCampaignHolds == Spec => [](CampaignTypes /\ OneCampaignInv)
  <1>1. CampaignTypes /\ OneCampaignInv /\ [Next]_vars => OneCampaignInv'
    BY NextOneCreator, NextKey, NextApplicants DEF OneCampaignInv
  <1>2. QED
    BY <1>1, InitOneCampaign, TypesHold, PTL DEF Spec

\* Administrators who create, close and change campaigns, logins that read and fill the
\* cached key (getActiveCampaign), and failures on the way: the campaigns, the key and the
\* answers agree but for what the history variables name.
THEOREM CampaignsAgree == Spec => []OneCampaignForAll
  <1>1. CampaignTypes /\ OneCampaignInv => OneCampaignForAll
    <2>1. ASSUME OneCreator, ~crossed PROVE Cardinality(Active) =< 1
      <3>1. \A c, d \in Active : c = d
        BY <2>1 DEF OneCreator
      <3>2. QED
        BY <3>1, AtMostOne
    <2>2. QED
      BY <2>1 DEF CampaignTypes, OneCampaignInv, OneCampaignForAll, OneActiveUnlessCrossed, ApplicantsAreRight
  <1>2. QED
    BY <1>1, OneCampaignHolds, PTL
-----------------------------------------------------------------------------
(* The key as a cache of one campaign *)

\* A step that leaves the key alone, and late if it was late or if the campaign changes.
LEMMA KeyWritten ==
  ASSUME UNCHANGED active, KeyIsLate => KeyIsLate', KeyIsLate' \/ Current' = Current
  PROVE  ActiveKey!Write
  <1> DEFINE late == IF KeyIsLate THEN {TheKey} ELSE {}
  <1>1. late' = late \cup late' /\ late' \in SUBSET {TheKey}
    OBVIOUS
  <1>2. \A k \in {TheKey} \ late' : [j \in {TheKey} |-> Current]'[k] = [j \in {TheKey} |-> Current][k]
    OBVIOUS
  <1>3. UNCHANGED [k \in {TheKey} |-> active]
    OBVIOUS
  <1>4. QED
    BY <1>1, <1>2, <1>3 DEF ActiveKey!Write, Current

\* A step that deletes the key, or sees it expire.
LEMMA KeyDropped ==
  ASSUME DeleteActive, UNCHANGED status
  PROVE  ActiveKey!Drop(TheKey)
  <1> DEFINE late == IF KeyIsLate THEN {TheKey} ELSE {}
  <1>1. late' \in {late \cup {TheKey}, late \ {TheKey}}
    <2>1. CASE KeyIsLate'
      <3>1. late' = late \cup {TheKey}
        BY <2>1
      <3>2. QED
        BY <3>1
    <2>2. CASE ~KeyIsLate'
      <3>1. late' = late \ {TheKey}
        BY <2>2
      <3>2. QED
        BY <3>1
    <2>3. QED
      BY <2>1, <2>2
  <1>2. [k \in {TheKey} |-> active]' = [[k \in {TheKey} |-> active] EXCEPT ![TheKey] = Empty]
    BY DEF DeleteActive
  <1>3. [k \in {TheKey} |-> Current]' = [k \in {TheKey} |-> Current]
    BY DEF Current, Active
  <1>4. QED
    BY <1>1, <1>2, <1>3 DEF ActiveKey!Drop, Current

\* A login stores the campaign it has found: the active one, or one the key is late at.
LEMMA KeyFilled ==
  ASSUME FillsAreCurrent, NEW u \in User, FillActive(u)
  PROVE  ActiveKey!Fill(TheKey)
  <1>1. active' = signup[u].campaign /\ UNCHANGED <<status, stale, admin>> /\ u \in Filling
    BY DEF FillActive, rows, Filling
  <1>2. active' \in Current \/ stale
    BY <1>1 DEF FillsAreCurrent
  <1>3. [k \in {TheKey} |-> active]' = [[k \in {TheKey} |-> active] EXCEPT ![TheKey] = active']
    OBVIOUS
  <1>4. [k \in {TheKey} |-> active]'[TheKey] = active' /\ [k \in {TheKey} |-> Current][TheKey] = Current
    OBVIOUS
  <1>5. active' \in Current \/ TheKey \in IF KeyIsLate THEN {TheKey} ELSE {}
    BY <1>2 DEF KeyIsLate
  <1>6. Current' = Current /\ (KeyIsLate' <=> KeyIsLate)
    BY <1>1 DEF Current, Active, KeyIsLate
  <1>7. UNCHANGED <<[k \in {TheKey} |-> Current], IF KeyIsLate THEN {TheKey} ELSE {}>>
    BY <1>6
  <1>8. QED
    BY <1>3, <1>4, <1>5, <1>7 DEF ActiveKey!Fill, Current

LEMMA LoginIsOfTheKey ==
  ASSUME FillsAreCurrent, NEW u \in User, OfUser(u)
  PROVE  ActiveKey!RNext
  <1>1. CASE ReadActive(u) \/ FindActive(u) \/ Admit(u) \/ Refuse(u) \/ SignupDies(u)
    <2>1. UNCHANGED <<status, active, stale, admin>>
      BY <1>1 DEF ReadActive, FindActive, Admit, Refuse, SignupDies, rows
    <2>2. Current' = Current /\ (KeyIsLate => KeyIsLate')
      BY <2>1 DEF Current, Active, KeyIsLate
    <2>3. QED
      BY <2>1, <2>2, KeyWritten DEF ActiveKey!RNext
  <1>2. CASE FillActive(u)
    BY <1>2, KeyFilled DEF ActiveKey!RNext
  <1>3. CASE ClearActive(u)
    BY <1>3, KeyDropped DEF ClearActive, rows, ActiveKey!RNext
  <1>4. QED
    BY <1>1, <1>2, <1>3 DEF OfUser

LEMMA AdminIsOfTheKey ==
  ASSUME CampaignTypes, NEW a \in Admin, OfAdmin(a)
  PROVE  ActiveKey!RNext
  <1> USE DEF CampaignTypes, TypeOK
  <1>1. CASE CreateFinds(a)
    <2>1. UNCHANGED <<status, active, stale>> /\ admin[a].at = "rest"
          /\ \A b \in Admin : b # a => admin'[b] = admin[b]
      BY <1>1 DEF CreateFinds, rows, Begin
    <2>2. Current' = Current /\ (KeyIsLate => KeyIsLate')
      BY <2>1 DEF Current, Active, KeyIsLate
    <2>3. QED
      BY <2>1, <2>2, KeyWritten DEF ActiveKey!RNext
  <1>2. CASE CreateCloses(a) \/ Create(a) \/ \E c \in CampaignId : CloseCampaign(a, c)
    <2>1. UNCHANGED active /\ admin'[a].at \in {"create", "invalidate"}
      BY <1>2 DEF CreateCloses, Create, CloseCampaign, Begin, To
    <2>2. KeyIsLate'
      BY <2>1 DEF KeyIsLate
    <2>3. QED
      BY <2>1, <2>2, KeyWritten DEF ActiveKey!RNext
  <1>3. ASSUME NEW c \in CampaignId, NEW n \in Capacities, UpdateCampaign(a, c, n) PROVE ActiveKey!RNext
    <2>1. UNCHANGED active /\ admin'[a].at = "invalidate"
      BY <1>3 DEF UpdateCampaign, Begin
    <2>2. KeyIsLate'
      BY <2>1 DEF KeyIsLate
    <2>3. QED
      BY <2>1, <2>2, KeyWritten DEF ActiveKey!RNext
  <1>4. CASE Finish(a)
    BY <1>4, KeyDropped DEF Finish, Invalidate, rows, ActiveKey!RNext
  <1>5. CASE AdminDies(a)
    <2>1. UNCHANGED <<status, active>> /\ (stale => stale')
          /\ (admin[a].at \in {"create", "invalidate"} => stale')
          /\ \A b \in Admin : b # a => admin'[b] = admin[b]
      BY <1>5 DEF AdminDies, rows
    <2>2. Current' = Current /\ (KeyIsLate => KeyIsLate')
      BY <2>1 DEF Current, Active, KeyIsLate
    <2>3. QED
      BY <2>1, <2>2, KeyWritten DEF ActiveKey!RNext
  <1>6. QED
    BY <1>1, <1>2, <1>3, <1>4, <1>5 DEF OfAdmin

LEMMA StepIsOfTheKey ==
  CampaignTypes /\ OneCampaignInv /\ [Next]_vars => [ActiveKey!RNext]_ActiveKey!rvars
  <1> SUFFICES ASSUME CampaignTypes, OneCampaignInv, [Next]_vars
               PROVE  [ActiveKey!RNext]_ActiveKey!rvars
    OBVIOUS
  <1>1. CASE ExpireActive
    BY <1>1, KeyDropped DEF ExpireActive, rows, ActiveKey!RNext
  <1>2. ASSUME NEW u \in User, OfUser(u) PROVE ActiveKey!RNext
    BY <1>2, LoginIsOfTheKey DEF OneCampaignInv
  <1>3. ASSUME NEW a \in Admin, OfAdmin(a) PROVE ActiveKey!RNext
    BY <1>3, AdminIsOfTheKey
  <1>4. CASE UNCHANGED vars
    <2>1. UNCHANGED <<status, active, stale, admin>>
      BY <1>4 DEF vars, rows
    <2>2. Current' = Current /\ (KeyIsLate => KeyIsLate')
      BY <2>1 DEF Current, Active, KeyIsLate
    <2>3. QED
      BY <2>1, <2>2, KeyWritten DEF ActiveKey!RNext
  <1>5. QED
    BY <1>1, <1>2, <1>3, <1>4 DEF Next

LEMMA InitIsOfTheKey == Init => ActiveKey!RInit
  BY DEF Init, AtRest, KeyIsLate, ActiveKey!RInit

\* The campaign under its key in Redis is a read-through cache: every commit that changes
\* which campaign is active makes the key late before or with it, and late it stays, over
\* every death on the way, until it has been absent.
THEOREM ActiveCampaignIsReadThrough == Spec => ImplementsReadThrough
  BY InitIsOfTheKey, StepIsOfTheKey, OneCampaignHolds, PTL
     DEF Spec, ImplementsReadThrough, ActiveKey!RSpec
-----------------------------------------------------------------------------
(* The waiting list *)

GranterRecord == [at : {"rest", "grant", "clear"}, list : SUBSET Places, current : Waiter \cup {NoEntry}]
JobRecord ==
  [at : {"rest", "next", "sent"}, list : SUBSET (Waiter \X Sent), current : (Waiter \X Sent) \cup {NoEntry}]

\* Whoever clears a limit has granted somebody access, and a job that has sent a reminder
\* knows which.
Meant(y) == y.at = "clear" => y.current \in Waiter
GrantersMean == \A a \in Granter : Meant(granter[a])
JobMeans == job.at = "sent" => job.current \in Waiter \X Sent /\ NextStep(job.current) \in Step

LEMMA WaitersAtRest ==
  /\ GranterAtRest \in GranterRecord /\ GranterAtRest.at = "rest" /\ GranterAtRest.list = {}
  /\ JobAtRest \in JobRecord /\ JobAtRest.at = "rest" /\ JobAtRest.list = {}
  BY DEF GranterAtRest, GranterRecord, JobAtRest, JobRecord

LEMMA InitWaitlistTypes == WaitlistInit => WaitlistTypeOK
  <1> SUFFICES ASSUME WaitlistInit PROVE WaitlistTypeOK
    OBVIOUS
  <1>1. -1 \in Sent /\ 0 \in 0..MaxGrants /\ 0 \in 0..MaxPasses
    BY WaitlistAssumption DEF Sent
  <1>2. sent \in [Waiter -> [Step -> Nat]] /\ lastStep \in [Waiter -> Sent]
    BY <1>1 DEF WaitlistInit
  <1>3. granter \in [Granter -> GranterRecord] /\ job \in JobRecord
    BY WaitersAtRest DEF WaitlistInit
  <1>4. QED
    BY <1>1, <1>2, <1>3 DEF WaitlistInit, WaitlistTypeOK, GranterRecord, JobRecord

\* A place of a granter stays one.
LEMMA GrantersRest ==
  ASSUME WaitlistTypeOK, granter' = granter, queue' = queue \/ \E u \in Waiter : queue' = Append(queue, u)
  PROVE  granter' \in [Granter -> GranterRecord'] /\ queue' \in Seq(Waiter) /\ Places \subseteq Places'
  <1>1. queue \in Seq(Waiter) /\ granter \in [Granter -> GranterRecord]
    BY DEF WaitlistTypeOK, GranterRecord
  <1>2. queue' \in Seq(Waiter) /\ Places \subseteq Places'
    <2>1. CASE queue' = queue
      BY <1>1, <2>1 DEF Places
    <2>2. ASSUME NEW u \in Waiter, queue' = Append(queue, u)
          PROVE  queue' \in Seq(Waiter) /\ Places \subseteq Places'
      <3>1. queue' \in Seq(Waiter) /\ Len(queue') = Len(queue) + 1 /\ Len(queue) \in Nat
        BY <1>1, <2>2
      <3> DEFINE n == Len(queue)
                 m == Len(queue')
      <3> HIDE DEF n, m
      <3>2. n \in Nat /\ m = n + 1
        BY <3>1 DEF n, m
      <3>3. 1..n \subseteq 1..m
        BY <3>2
      <3>4. QED
        BY <3>1, <3>3 DEF Places, n, m
    <2>3. QED
      BY <2>1, <2>2
  <1>3. GranterRecord \subseteq GranterRecord'
    BY <1>2 DEF GranterRecord
  <1>4. QED
    BY <1>1, <1>2, <1>3

LEMMA OfWaiterTypes ==
  ASSUME WaitlistTypeOK, NEW u \in Waiter, OfWaiter(u)
  PROVE  WaitlistTypeOK'
  <1>1. granter' = granter /\ (queue' = queue \/ queue' = Append(queue, u))
        /\ UNCHANGED <<links, preferred, grantsBegun, passes, job, lastStep, repeated, sent>>
    BY DEF OfWaiter, ReadLimit, FillLimit, ExpireLimit, Wait, ReadToken, Activate, ClearActivated, ActivationDies,
       DeleteLimit, SetStatus, limits, grants, reminders
  <1>2. granter' \in [Granter -> GranterRecord'] /\ queue' \in Seq(Waiter)
    BY <1>1, GrantersRest
  <1>3. /\ standing' \in [Waiter -> {NoEntry, "WAITING", "GRANTED", "ACTIVATED"}]
        /\ limit' \in [Waiter -> {NoKey, "limited", "unlimited"}]
        /\ chat' \in [Waiter -> {NoKey, "limited", "unlimited"}]
        /\ behind' \subseteq Waiter
        /\ activation' \in [Waiter -> {"rest", "activate", "clear"}]
    <2> USE DEF WaitlistTypeOK, limits, DeleteLimit, SetStatus
    <2>1. CASE ReadLimit(u)
      BY <2>1 DEF ReadLimit, LimitOf
    <2>2. CASE FillLimit(u)
      BY <2>2 DEF FillLimit
    <2>3. CASE ExpireLimit(u)
      BY <2>3 DEF ExpireLimit
    <2>4. CASE Wait(u)
      BY <2>4 DEF Wait
    <2>5. CASE ReadToken(u) \/ ActivationDies(u)
      BY <2>5 DEF ReadToken, ActivationDies
    <2>6. CASE Activate(u)
      BY <2>6 DEF Activate
    <2>7. CASE ClearActivated(u)
      BY <2>7 DEF ClearActivated
    <2>8. QED
      BY <2>1, <2>2, <2>3, <2>4, <2>5, <2>6, <2>7 DEF OfWaiter
  <1>4. QED
    BY <1>1, <1>2, <1>3 DEF WaitlistTypeOK, GranterRecord

LEMMA OfGranterTypes ==
  ASSUME WaitlistTypeOK, GrantersMean, NEW a \in Granter, OfGranter(a)
  PROVE  WaitlistTypeOK' /\ GrantersMean'
  <1>1. /\ queue' = queue /\ Places' = Places
        /\ UNCHANGED <<activation, chat, passes, job, lastStep, repeated, sent>>
    BY DEF OfGranter, ListWaiting, FindPhone, BeginGrant, Grant, ClearGranted, GranterDies, DeleteLimit, SetStatus,
       Granted, limits, grants, reminders, Places
  <1>2. /\ granter \in [Granter -> GranterRecord] /\ granter[a] \in GranterRecord /\ granter[a].list \subseteq Places
        /\ \A i \in Places : queue[i] \in Waiter
    BY DEF WaitlistTypeOK, GranterRecord, Places
  <1> DEFINE Kept == /\ standing' \in [Waiter -> {NoEntry, "WAITING", "GRANTED", "ACTIVATED"}]
                     /\ limit' \in [Waiter -> {NoKey, "limited", "unlimited"}]
                     /\ behind' \subseteq Waiter /\ preferred' \subseteq Waiter /\ links' \subseteq Waiter
                     /\ grantsBegun' \in 0..MaxGrants
             Becomes(y) == y \in GranterRecord /\ Meant(y) /\ granter' = [granter EXCEPT ![a] = y]
  <1>3. /\ GranterAtRest \in GranterRecord /\ Meant(GranterAtRest)
        /\ \A l \in SUBSET Places : /\ [at |-> "grant", list |-> l, current |-> NoEntry] \in GranterRecord
                                    /\ Meant([at |-> "grant", list |-> l, current |-> NoEntry])
                                    /\ \A u \in Waiter : LET y == [at |-> "clear", list |-> l, current |-> u] IN
                                         y \in GranterRecord /\ Meant(y)
    BY DEF GranterAtRest, GranterRecord, Meant
  <1>4. ASSUME NEW l \in SUBSET Places, BeginGrant(a, l)
        PROVE  Becomes([at |-> "grant", list |-> l, current |-> NoEntry]) /\ grantsBegun' \in 0..MaxGrants
    <2>1. grantsBegun' \in 0..MaxGrants
      BY <1>4, WaitlistAssumption DEF BeginGrant, WaitlistTypeOK
    <2>2. QED
      BY <1>3, <1>4, <2>1 DEF BeginGrant
  <1>5. ASSUME NEW i \in Places, ListWaiting(a, i)
        PROVE  Kept /\ \E y : Becomes(y)
    <2>1. {j \in InOrder : j =< i} \in SUBSET Places
      BY DEF InOrder
    <2>2. \E y : Becomes(y) /\ grantsBegun' \in 0..MaxGrants
      BY <1>4, <1>5, <2>1 DEF ListWaiting
    <2>3. QED
      BY <1>5, <2>2 DEF ListWaiting, limits, WaitlistTypeOK
  <1>6. ASSUME NEW i \in Places, FindPhone(a, i)
        PROVE  Kept /\ \E y : Becomes(y)
    <2>1. {i} \in SUBSET Places
      OBVIOUS
    <2>2. \E y : Becomes(y) /\ grantsBegun' \in 0..MaxGrants
      BY <1>4, <1>6, <2>1 DEF FindPhone
    <2>3. preferred' = preferred \cup {queue[i]} /\ UNCHANGED <<standing, limit, behind, links>>
      BY <1>6 DEF FindPhone, limits
    <2>4. preferred' \subseteq Waiter
      BY <1>2, <2>3 DEF WaitlistTypeOK
    <2>5. QED
      BY <2>2, <2>3, <2>4 DEF WaitlistTypeOK
  <1>7. ASSUME NEW i \in Places, Grant(a, i)
        PROVE  Kept /\ \E y : Becomes(y)
    <2>1. granter[a].list \ {i} \in SUBSET Places /\ queue[i] \in Waiter
      BY <1>2
    <2>2. Becomes([at |-> "clear", list |-> granter[a].list \ {i}, current |-> queue[i]])
      BY <1>3, <1>7, <2>1 DEF Grant
    <2>3. Kept
      BY <1>7, <2>1 DEF Grant, SetStatus, WaitlistTypeOK
    <2>4. QED
      BY <2>2, <2>3
  <1>8. ASSUME ClearGranted(a)
        PROVE  Kept /\ \E y : Becomes(y)
    <2>1. granter[a].current \in Waiter /\ granter[a].list \in SUBSET Places
      BY <1>2, <1>8 DEF ClearGranted, GrantersMean, Meant
    <2>2. \E y : Becomes(y)
      <3>1. CASE granter[a].list = {}
        BY <1>3, <1>8, <3>1 DEF ClearGranted
      <3>2. CASE granter[a].list # {}
        BY <1>3, <1>8, <2>1, <3>2 DEF ClearGranted
      <3>3. QED
        BY <3>1, <3>2
    <2>3. UNCHANGED <<standing, grantsBegun, preferred>>
      BY <1>8 DEF ClearGranted
    <2>4. limit' \in [Waiter -> {NoKey, "limited", "unlimited"}] /\ behind' \subseteq Waiter /\ links' \subseteq Waiter
      BY <1>8, <2>1 DEF ClearGranted, DeleteLimit, WaitlistTypeOK
    <2>5. QED
      BY <2>2, <2>3, <2>4 DEF WaitlistTypeOK
  <1>9. ASSUME GranterDies(a)
        PROVE  Kept /\ \E y : Becomes(y)
    <2>1. \E y : Becomes(y)
      BY <1>3, <1>9 DEF GranterDies
    <2>2. behind' \subseteq Waiter
      BY <1>9 DEF GranterDies, GrantersMean, Meant, WaitlistTypeOK
    <2>3. UNCHANGED <<standing, limit, links, grantsBegun, preferred>>
      BY <1>9 DEF GranterDies
    <2>4. QED
      BY <2>1, <2>2, <2>3 DEF WaitlistTypeOK
  <1>10. Kept /\ \E y : Becomes(y)
    BY <1>5, <1>6, <1>7, <1>8, <1>9 DEF OfGranter
  <1>11. PICK y : Becomes(y)
    BY <1>10
  <1>12. granter' \in [Granter -> GranterRecord] /\ GranterRecord' = GranterRecord
    BY <1>1, <1>2, <1>11 DEF GranterRecord
  <1>13. GrantersMean'
    BY <1>2, <1>11 DEF GrantersMean, Meant
  <1>14. WaitlistTypeOK'
    <2>1. Kept
      BY <1>10
    <2>2. QED
      BY <1>1, <1>12, <2>1 DEF WaitlistTypeOK, GranterRecord
  <1>15. QED
    BY <1>13, <1>14

LEMMA RemindingTypes ==
  ASSUME WaitlistTypeOK, JobMeans, Reminding
  PROVE  WaitlistTypeOK' /\ JobMeans'
  <1>1. /\ UNCHANGED <<standing, queue, limit, chat, behind, links, activation, granter, grantsBegun, preferred>>
        /\ Places' = Places
    BY DEF Reminding, StartReminders, Send, Record, EndReminders, JobDies, limits, grants, Places
  <1> DEFINE Item == Waiter \X Sent
             Kept == /\ passes' \in 0..MaxPasses
                     /\ lastStep' \in [Waiter -> Sent]
                     /\ repeated' \subseteq (Waiter \X Step)
                     /\ sent' \in [Waiter -> [Step -> Nat]]
                     /\ job' \in JobRecord
  <1>2. /\ job \in JobRecord /\ passes \in 0..MaxPasses /\ lastStep \in [Waiter -> Sent]
        /\ repeated \subseteq (Waiter \X Step) /\ sent \in [Waiter -> [Step -> Nat]]
    BY DEF WaitlistTypeOK, JobRecord
  <1>3. Step \subseteq Sent /\ JobAtRest \in JobRecord /\ JobAtRest.at = "rest"
    BY WaitlistAssumption, WaitersAtRest DEF Step, Sent
  <1>4. ASSUME StartReminders
        PROVE  Kept /\ JobMeans'
    <2> DEFINE list == {<<u, lastStep[u]>> : u \in {v \in Waiter : standing[v] = "GRANTED"}}
    <2>1. list \in SUBSET Item
      BY <1>2
    <2>2. job' = [at |-> "next", list |-> list, current |-> NoEntry] /\ passes' = passes + 1 /\ passes < MaxPasses
          /\ UNCHANGED <<lastStep, repeated, sent>>
      BY <1>4 DEF StartReminders
    <2> HIDE DEF list
    <2>3. job' \in JobRecord /\ JobMeans'
      BY <2>1, <2>2 DEF JobRecord, JobMeans
    <2>4. passes' \in 0..MaxPasses
      BY <1>2, <2>2, WaitlistAssumption
    <2>5. QED
      BY <1>2, <2>2, <2>3, <2>4
  <1>5. ASSUME NEW x \in Item, Send(x)
        PROVE  Kept /\ JobMeans'
    <2>1. /\ job' = [at |-> "sent", list |-> job.list \ {x}, current |-> x]
          /\ sent' = [sent EXCEPT ![x[1]][NextStep(x)] = @ + 1] /\ NextStep(x) \in Step
          /\ UNCHANGED <<passes, lastStep, repeated>>
      BY <1>5 DEF Send
    <2>2. job.list \ {x} \in SUBSET Item
      BY <1>2 DEF JobRecord
    <2>3. job' \in JobRecord /\ JobMeans'
      BY <2>1, <2>2 DEF JobRecord, JobMeans, NextStep, Step
    <2>4. sent' \in [Waiter -> [Step -> Nat]]
      BY <1>2, <2>1
    <2>5. QED
      BY <1>2, <2>1, <2>3, <2>4
  <1>6. ASSUME Record
        PROVE  Kept /\ JobMeans'
    <2>1. /\ lastStep' = [lastStep EXCEPT ![job.current[1]] = NextStep(job.current)]
          /\ job' = [job EXCEPT !.at = "next", !.current = NoEntry] /\ UNCHANGED <<passes, repeated, sent>>
          /\ job.current[1] \in Waiter /\ NextStep(job.current) \in Sent
      BY <1>3, <1>6 DEF Record, JobMeans
    <2>2. job' \in JobRecord /\ JobMeans'
      BY <1>2, <2>1 DEF JobRecord, JobMeans
    <2>3. lastStep' \in [Waiter -> Sent]
      BY <1>2, <2>1
    <2>4. QED
      BY <1>2, <2>1, <2>2, <2>3
  <1>7. ASSUME EndReminders
        PROVE  Kept /\ JobMeans'
    BY <1>2, <1>3, <1>7 DEF EndReminders, JobMeans
  <1>8. ASSUME JobDies
        PROVE  Kept /\ JobMeans'
    <2>1. <<job.current[1], NextStep(job.current)>> \in Waiter \X Step
      BY <1>8 DEF JobDies, JobMeans
    <2>2. job' = JobAtRest /\ repeated' = repeated \cup {<<job.current[1], NextStep(job.current)>>}
          /\ UNCHANGED <<passes, lastStep, sent>>
      BY <1>8 DEF JobDies
    <2>3. repeated' \subseteq Waiter \X Step
      BY <1>2, <2>1, <2>2
    <2>4. QED
      BY <1>2, <1>3, <2>2, <2>3 DEF JobMeans
  <1>9. Kept /\ JobMeans'
    BY <1>4, <1>5, <1>6, <1>7, <1>8 DEF Reminding
  <1>10. QED
    BY <1>1, <1>9 DEF WaitlistTypeOK, JobRecord

WaitlistSound == WaitlistTypeOK /\ GrantersMean /\ JobMeans

LEMMA NextWaitlistTypes ==
  ASSUME WaitlistSound, [WaitlistNext]_waitlistVars
  PROVE  WaitlistSound'
  <1>1. ASSUME NEW u \in Waiter, OfWaiter(u)
        PROVE  WaitlistSound'
    <2>1. WaitlistTypeOK'
      BY <1>1, OfWaiterTypes DEF WaitlistSound
    <2>2. UNCHANGED <<granter, job>>
      BY <1>1 DEF OfWaiter, ReadLimit, FillLimit, ExpireLimit, Wait, ReadToken, Activate, ClearActivated,
         ActivationDies, grants, reminders
    <2>3. QED
      BY <2>1, <2>2 DEF WaitlistSound, GrantersMean, Meant, JobMeans, NextStep, Step
  <1>2. ASSUME NEW a \in Granter, OfGranter(a)
        PROVE  WaitlistSound'
    <2>1. WaitlistTypeOK' /\ GrantersMean'
      BY <1>2, OfGranterTypes DEF WaitlistSound
    <2>2. job' = job
      BY <1>2 DEF OfGranter, ListWaiting, FindPhone, Grant, ClearGranted, GranterDies, reminders
    <2>3. QED
      BY <2>1, <2>2 DEF WaitlistSound, JobMeans, NextStep, Step
  <1>3. CASE Reminding
    <2>1. WaitlistTypeOK' /\ JobMeans'
      BY <1>3, RemindingTypes DEF WaitlistSound
    <2>2. granter' = granter
      BY <1>3 DEF Reminding, StartReminders, Send, Record, EndReminders, JobDies, grants
    <2>3. QED
      BY <2>1, <2>2 DEF WaitlistSound, GrantersMean, Meant
  <1>4. CASE UNCHANGED waitlistVars
    <2> USE <1>4 DEF waitlistVars, limits, grants, reminders
    <2>1. WaitlistTypeOK'
      BY DEF WaitlistSound, WaitlistTypeOK, Places
    <2>2. GrantersMean' /\ JobMeans'
      BY DEF WaitlistSound, GrantersMean, Meant, JobMeans, NextStep, Step
    <2>3. QED
      BY <2>1, <2>2 DEF WaitlistSound
  <1>5. QED
    BY <1>1, <1>2, <1>3, <1>4 DEF WaitlistNext

\* Every place belongs to another user, who has an entry.
QueueSound ==
  /\ \A i, j \in Places : queue[i] = queue[j] => i = j
  /\ \A i \in Places : queue[i] \in Waiter /\ standing[queue[i]] # NoEntry

\* A list that an administrator works off holds everybody who waits before one it holds.
ListsSound ==
  \A a \in Granter : \A i \in Places, j \in granter[a].list :
    i < j /\ standing[queue[i]] = "WAITING" => i \in granter[a].list \/ queue[j] \in preferred

\* The link is sent to whom access was granted.
ActivatedWereGranted == \A u \in Waiter : activation[u] = "activate" => standing[u] \in {"GRANTED", "ACTIVATED"}

QueueInv == QueueSound /\ OldestFirst /\ ListsSound /\ ActivatedWereGranted

PlacesSound == Len(queue) \in Nat /\ \A a \in Granter : granter[a].list \subseteq Places

LEMMA PlacesAreSound == WaitlistTypeOK => PlacesSound
  BY DEF WaitlistTypeOK, PlacesSound

\* Nothing that the order depends on changes but the lists, which are finished or given up.
LEMMA OrderKept ==
  ASSUME QueueInv, UNCHANGED <<standing, queue, preferred>>,
         \A a \in Granter : granter'[a].list \in {granter[a].list, {}},
         \A u \in Waiter : activation'[u] = "activate" => activation[u] = "activate" \/ standing[u] = "GRANTED"
  PROVE  QueueInv'
  <1> USE DEF QueueInv, Places
  <1>1. QueueSound' /\ OldestFirst'
    BY DEF QueueSound, OldestFirst
  <1>2. ListsSound'
    <2> SUFFICES ASSUME NEW a \in Granter, NEW i \in Places, NEW j \in granter'[a].list,
                        i < j, standing[queue[i]] = "WAITING"
                 PROVE  i \in granter'[a].list \/ queue[j] \in preferred
      BY DEF ListsSound
    <2>1. j \in granter[a].list
      OBVIOUS
    <2>2. i \in granter[a].list \/ queue[j] \in preferred
      BY <2>1 DEF ListsSound
    <2>3. QED
      BY <2>2
  <1>3. ActivatedWereGranted'
    BY DEF ActivatedWereGranted
  <1>4. QED
    BY <1>1, <1>2, <1>3

\* A user joins the end of the queue.
LEMMA OrderOfWait ==
  ASSUME WaitlistTypeOK, QueueInv, NEW u \in Waiter, Wait(u)
  PROVE  QueueInv'
  <1>1. /\ Len(queue) \in Nat /\ \A a \in Granter : granter[a].list \subseteq Places
        /\ queue \in Seq(Waiter) /\ standing \in [Waiter -> {NoEntry, "WAITING", "GRANTED", "ACTIVATED"}]
    BY PlacesAreSound DEF PlacesSound, WaitlistTypeOK
  <1> DEFINE n == Len(queue)
  <1>2. /\ Places = 1..n /\ Places' = Places \cup {n + 1} /\ n + 1 \notin Places
        /\ queue'[n + 1] = u /\ \A i \in Places : queue'[i] = queue[i]
    BY <1>1 DEF Wait, Places
  <1>3. n \in Nat /\ Places \subseteq Nat /\ \A i \in Places : i < n + 1
    BY <1>1 DEF Places
  <1>4. /\ standing[u] = NoEntry /\ standing'[u] = "WAITING"
        /\ \A v \in Waiter : v # u => standing'[v] = standing[v]
        /\ UNCHANGED <<preferred, granter, activation>>
    BY <1>1 DEF Wait, grants
  <1>5. \A i \in Places : queue[i] \in Waiter /\ queue[i] # u /\ standing'[queue[i]] = standing[queue[i]]
    BY <1>4 DEF QueueInv, QueueSound
  <1> HIDE DEF n
  <1>6. QueueSound'
    <2>1. \A i, j \in Places' : queue'[i] = queue'[j] => i = j
      BY <1>2, <1>5 DEF QueueInv, QueueSound
    <2>2. \A i \in Places' : queue'[i] \in Waiter /\ standing'[queue'[i]] # NoEntry
      <3>1. \A i \in Places : queue'[i] \in Waiter /\ standing'[queue'[i]] # NoEntry
        BY <1>2, <1>5 DEF QueueInv, QueueSound
      <3>2. standing'[queue'[n + 1]] # NoEntry
        BY <1>2, <1>4, WaitlistAssumption
      <3>3. QED
        BY <1>2, <3>1, <3>2
    <2>3. QED
      BY <2>1, <2>2 DEF QueueSound
  <1>7. OldestFirst'
    <2> SUFFICES ASSUME NEW i \in Places', NEW j \in Places', i < j, standing'[queue'[i]] = "WAITING"
                 PROVE  standing'[queue'[j]] = "WAITING" \/ queue'[j] \in preferred
      BY <1>4 DEF OldestFirst
    <2>1. CASE j = n + 1
      BY <1>2, <1>4, <2>1
    <2>2. CASE j \in Places
      <3>1. i \in Places
        BY <1>2, <1>3, <2>2
      <3>2. QED
        BY <1>2, <1>5, <2>2, <3>1 DEF QueueInv, OldestFirst
    <2>3. QED
      BY <1>2, <2>1, <2>2
  <1>8. ListsSound'
    <2> SUFFICES ASSUME NEW a \in Granter, NEW i \in Places', NEW j \in granter[a].list,
                        i < j, standing'[queue'[i]] = "WAITING"
                 PROVE  i \in granter[a].list \/ queue'[j] \in preferred
      BY <1>4 DEF ListsSound
    <2>1. j \in Places
      BY <1>1
    <2>2. i \in Places
      BY <1>2, <1>3, <2>1
    <2>3. QED
      BY <1>2, <1>5, <2>1, <2>2 DEF QueueInv, ListsSound
  <1>9. ActivatedWereGranted'
    BY <1>4, WaitlistAssumption DEF QueueInv, ActivatedWereGranted
  <1>10. QED
    BY <1>6, <1>7, <1>8, <1>9 DEF QueueInv

\* A user who waits no longer was the first of a list, a preferred one, or did not wait.
LEMMA OrderOfLeaving ==
  ASSUME QueueInv, WaitlistTypeOK, NEW u \in Waiter, NEW s \in {"GRANTED", "ACTIVATED"},
         standing' = [standing EXCEPT ![u] = s], UNCHANGED <<queue, preferred>>,
         \A v \in Waiter : activation'[v] = "activate" => activation[v] = "activate",
         \A a \in Granter : granter'[a].list \subseteq granter[a].list /\
                            \A i \in granter[a].list : i \in granter'[a].list \/ queue[i] = u,
         \A i, j \in Places : i < j /\ queue[j] = u /\ standing[queue[i]] = "WAITING" => queue[j] \in preferred
  PROVE  QueueInv'
  <1>1. /\ Places' = Places /\ standing'[u] = s /\ \A v \in Waiter : v # u => standing'[v] = standing[v]
        /\ \A a \in Granter : granter[a].list \subseteq Places
    BY PlacesAreSound DEF WaitlistTypeOK, Places, PlacesSound
  <1>2. /\ \A i \in Places : queue[i] \in Waiter
        /\ \A v \in Waiter : standing'[v] = "WAITING" => standing[v] = "WAITING" /\ v # u
    BY <1>1 DEF QueueInv, QueueSound
  <1>3. QueueSound'
    BY <1>1, WaitlistAssumption DEF QueueInv, QueueSound
  <1>4. OldestFirst'
    <2> SUFFICES ASSUME NEW i \in Places, NEW j \in Places, i < j, standing'[queue[i]] = "WAITING"
                 PROVE  standing'[queue[j]] = "WAITING" \/ queue[j] \in preferred
      BY <1>1 DEF OldestFirst
    <2>1. standing[queue[i]] = "WAITING" /\ queue[i] # u
      BY <1>2
    <2>2. CASE queue[j] = u
      BY <2>1, <2>2
    <2>3. CASE queue[j] # u
      BY <1>1, <1>2, <2>1, <2>3 DEF QueueInv, OldestFirst
    <2>4. QED
      BY <2>2, <2>3
  <1>5. ListsSound'
    <2> SUFFICES ASSUME NEW a \in Granter, NEW i \in Places, NEW j \in granter'[a].list,
                        i < j, standing'[queue[i]] = "WAITING"
                 PROVE  i \in granter'[a].list \/ queue[j] \in preferred
      BY <1>1 DEF ListsSound
    <2>1. j \in granter[a].list /\ standing[queue[i]] = "WAITING" /\ queue[i] # u
      BY <1>2
    <2>2. i \in granter[a].list \/ queue[j] \in preferred
      BY <2>1 DEF QueueInv, ListsSound
    <2>3. QED
      BY <2>1, <2>2
  <1>6. ActivatedWereGranted'
    BY <1>1 DEF QueueInv, ActivatedWereGranted
  <1>7. QED
    BY <1>3, <1>4, <1>5, <1>6 DEF QueueInv

LEMMA OrderOfWaiter ==
  ASSUME WaitlistTypeOK, QueueInv, NEW u \in Waiter, OfWaiter(u)
  PROVE  QueueInv'
  <1>1. ASSUME ReadLimit(u) \/ FillLimit(u) \/ ExpireLimit(u) \/ ReadToken(u) \/ ClearActivated(u) \/ ActivationDies(u)
        PROVE  QueueInv'
    <2>1. UNCHANGED <<standing, queue, preferred, granter>>
      BY <1>1 DEF ReadLimit, FillLimit, ExpireLimit, ReadToken, ClearActivated, ActivationDies, grants
    <2>2. \A v \in Waiter : activation'[v] = "activate" => activation[v] = "activate" \/ standing[v] = "GRANTED"
      BY <1>1 DEF ReadLimit, FillLimit, ExpireLimit, ReadToken, ClearActivated, ActivationDies, WaitlistTypeOK
    <2>3. QED
      BY <2>1, <2>2, OrderKept
  <1>2. ASSUME Activate(u)
        PROVE  QueueInv'
    <2>1. /\ standing' = [standing EXCEPT ![u] = "ACTIVATED"] /\ UNCHANGED <<queue, preferred, granter>>
          /\ \A v \in Waiter : activation'[v] = "activate" => activation[v] = "activate"
      BY <1>2 DEF Activate, SetStatus, grants, WaitlistTypeOK
    <2>2. standing[u] # "WAITING"
      BY <1>2 DEF Activate, QueueInv, ActivatedWereGranted
    <2>3. \A i, j \in Places : i < j /\ queue[j] = u /\ standing[queue[i]] = "WAITING" => queue[j] \in preferred
      BY <2>2 DEF QueueInv, OldestFirst
    <2>4. QED
      BY <2>1, <2>3, OrderOfLeaving
  <1>3. QED
    BY <1>1, <1>2, OrderOfWait DEF OfWaiter

LEMMA OrderOfGranter ==
  ASSUME WaitlistTypeOK, QueueInv, NEW a \in Granter, OfGranter(a)
  PROVE  QueueInv'
  <1>1. /\ granter \in [Granter -> GranterRecord] /\ queue \in Seq(Waiter)
        /\ Len(queue) \in Nat /\ \A b \in Granter : granter[b].list \subseteq Places
    BY PlacesAreSound DEF PlacesSound, WaitlistTypeOK, GranterRecord
  <1>2. \A i \in Places : i \in Int /\ queue[i] \in Waiter
    BY <1>1 DEF Places, QueueInv, QueueSound
  <1>3. ASSUME NEW l \in SUBSET Places, BeginGrant(a, l), UNCHANGED <<standing, queue, activation>>,
               preferred \subseteq preferred',
               \A i \in Places, j \in l : i < j /\ standing[queue[i]] = "WAITING" => i \in l \/ queue[j] \in preferred'
        PROVE  QueueInv'
    <2>1. granter'[a].list = l /\ \A b \in Granter : b # a => granter'[b] = granter[b]
      BY <1>1, <1>3 DEF BeginGrant
    <2>2. QueueSound' /\ OldestFirst' /\ ActivatedWereGranted'
      BY <1>3 DEF QueueInv, QueueSound, OldestFirst, ActivatedWereGranted, Places
    <2>3. ListsSound'
      <3> SUFFICES ASSUME NEW b \in Granter, NEW i \in Places, NEW j \in granter'[b].list,
                          i < j, standing[queue[i]] = "WAITING"
                   PROVE  i \in granter'[b].list \/ queue[j] \in preferred'
        BY <1>3 DEF ListsSound, Places
      <3>1. CASE b = a
        BY <1>3, <2>1, <3>1
      <3>2. CASE b # a
        BY <1>3, <2>1, <3>2 DEF QueueInv, ListsSound
      <3>3. QED
        BY <3>1, <3>2
    <2>4. QED
      BY <2>2, <2>3 DEF QueueInv
  <1>4. ASSUME NEW last \in Places, ListWaiting(a, last)
        PROVE  QueueInv'
    <2> DEFINE l == {i \in InOrder : i =< last}
    <2>1. l \in SUBSET Places
      BY DEF InOrder
    <2>2. \A i \in Places, j \in l : i < j /\ standing[queue[i]] = "WAITING" => i \in l
      BY <1>2 DEF InOrder, Waiting
    <2>3. BeginGrant(a, l) /\ UNCHANGED <<standing, queue, activation, preferred>>
      BY <1>4 DEF ListWaiting
    <2> HIDE DEF l
    <2>4. QED
      BY <1>3, <2>1, <2>2, <2>3
  <1>5. ASSUME NEW i \in Places, FindPhone(a, i)
        PROVE  QueueInv'
    <2>1. BeginGrant(a, {i}) /\ preferred' = preferred \cup {queue[i]} /\ UNCHANGED <<standing, queue, activation>>
      BY <1>5 DEF FindPhone
    <2>2. QED
      BY <1>3, <2>1
  <1>6. ASSUME NEW k \in Places, Grant(a, k)
        PROVE  QueueInv'
    <2> DEFINE y == [at |-> "clear", list |-> granter[a].list \ {k}, current |-> queue[k]]
    <2>1. /\ standing' = [standing EXCEPT ![queue[k]] = "GRANTED"] /\ UNCHANGED <<queue, preferred, activation>>
          /\ granter' = [granter EXCEPT ![a] = y]
      BY <1>6 DEF Grant, SetStatus
    <2>2. y.list = granter[a].list \ {k}
      OBVIOUS
    <2> HIDE DEF y
    <2>3. \A b \in Granter : granter'[b].list \subseteq granter[b].list /\
                             \A i \in granter[b].list : i \in granter'[b].list \/ queue[i] = queue[k]
      BY <1>1, <2>1, <2>2
    <2>4. ASSUME NEW i \in Places, NEW j \in Places, i < j, queue[j] = queue[k], standing[queue[i]] = "WAITING"
          PROVE  queue[j] \in preferred
      <3>1. j = k /\ k \in granter[a].list /\ \A m \in granter[a].list : k =< m
        BY <1>6, <2>4 DEF Grant, QueueInv, QueueSound
      <3>2. i \in granter[a].list \/ queue[j] \in preferred
        BY <2>4, <3>1 DEF QueueInv, ListsSound
      <3>3. i \notin granter[a].list
        BY <1>2, <2>4, <3>1
      <3>4. QED
        BY <3>2, <3>3
    <2>5. queue[k] \in Waiter
      BY <1>2
    <2>6. QED
      BY <2>1, <2>3, <2>4, <2>5, OrderOfLeaving
  <1>7. ASSUME ClearGranted(a) \/ GranterDies(a)
        PROVE  QueueInv'
    <2>1. UNCHANGED <<standing, queue, preferred, activation>>
      BY <1>7 DEF ClearGranted, GranterDies
    <2>2. \A b \in Granter : granter'[b].list \in {granter[b].list, {}}
      BY <1>1, <1>7, WaitersAtRest DEF ClearGranted, GranterDies
    <2>3. QED
      BY <2>1, <2>2, OrderKept
  <1>8. QED
    BY <1>4, <1>5, <1>6, <1>7 DEF OfGranter

LEMMA NextOrder ==
  ASSUME WaitlistTypeOK, QueueInv, [WaitlistNext]_waitlistVars
  PROVE  QueueInv'
  <1>1. CASE Reminding \/ UNCHANGED waitlistVars
    <2>1. UNCHANGED <<standing, queue, preferred, activation, granter>>
      BY <1>1 DEF Reminding, StartReminders, Send, Record, EndReminders, JobDies, grants, waitlistVars
    <2>2. QED
      BY <2>1, OrderKept
  <1>2. QED
    BY <1>1, OrderOfWaiter, OrderOfGranter DEF WaitlistNext

\* What a chat request is about to store is the limit of the user's entry, unless overtaken.
FillsFresh == \A u \in Waiter : chat[u] \in {NoKey, LimitOf(u)} \/ u \in behind

LimitInv == FillsFresh /\ LimitCurrentUnlessOvertaken

Cleared(u) == \E a \in Granter : granter[a].at = "clear" /\ granter[a].current = u
LimitFits(u) == /\ chat[u] \in {NoKey, LimitOf(u)} \/ u \in behind
                /\ u \in behind \/ Cleared(u) \/ limit[u] \in {NoKey, LimitOf(u)}

LEMMA LimitByUser == LimitInv <=> \A u \in Waiter : LimitFits(u)
  BY DEF LimitInv, FillsFresh, LimitCurrentUnlessOvertaken, LimitFits, Cleared

\* A DEL leaves nothing outdated but a fill under way.
LEMMA LimitOfDelete ==
  ASSUME WaitlistTypeOK, NEW u \in Waiter, LimitFits(u), DeleteLimit(u), UNCHANGED <<standing, chat>>
  PROVE  LimitFits(u)'
  <1>1. limit'[u] = NoKey /\ (chat[u] # NoKey => behind' = behind)
    BY DEF DeleteLimit, WaitlistTypeOK
  <1>2. LimitOf(u)' = LimitOf(u)
    BY DEF LimitOf, Waiting
  <1>3. QED
    BY <1>1, <1>2 DEF LimitFits

LEMMA LimitOfWaiter ==
  ASSUME WaitlistTypeOK, LimitInv, ActivatedWereGranted, NEW u \in Waiter, OfWaiter(u)
  PROVE  LimitInv'
  <1>1. /\ granter' = granter
        /\ chat \in [Waiter -> {NoKey, "limited", "unlimited"}] /\ limit \in [Waiter -> {NoKey, "limited", "unlimited"}]
        /\ standing \in [Waiter -> {NoEntry, "WAITING", "GRANTED", "ACTIVATED"}]
    BY DEF OfWaiter, ReadLimit, FillLimit, ExpireLimit, Wait, ReadToken, Activate, ClearActivated, ActivationDies,
       grants, WaitlistTypeOK
  <1>2. ASSUME NEW v \in Waiter, v # u
        PROVE  LimitFits(v)'
    <2>1. /\ standing'[v] = standing[v] /\ chat'[v] = chat[v] /\ limit'[v] = limit[v]
          /\ v \in behind => v \in behind'
      BY <1>1, <1>2 DEF OfWaiter, ReadLimit, FillLimit, ExpireLimit, Wait, ReadToken, Activate, ClearActivated,
         ActivationDies, limits, DeleteLimit, SetStatus
    <2>2. LimitOf(v)' = LimitOf(v) /\ (Cleared(v)' <=> Cleared(v))
      BY <1>1, <2>1 DEF LimitOf, Waiting, Cleared
    <2>3. QED
      BY <2>1, <2>2, LimitByUser DEF LimitFits
  <1>3. LimitFits(u)'
    <2>1. LimitFits(u) /\ (Cleared(u)' <=> Cleared(u))
      BY <1>1, LimitByUser DEF Cleared
    <2>2. CASE ReadLimit(u)
      <3>1. /\ UNCHANGED <<standing, limit, behind>> /\ chat'[u] = LimitOf(u)
            /\ LimitOf(u)' = LimitOf(u)
        BY <1>1, <2>2 DEF ReadLimit, LimitOf, Waiting
      <3>2. QED
        BY <2>1, <3>1 DEF LimitFits
    <2>3. CASE FillLimit(u)
      <3>1. /\ UNCHANGED <<standing, behind>> /\ chat'[u] = NoKey /\ limit'[u] = chat[u] /\ chat[u] # NoKey
            /\ LimitOf(u)' = LimitOf(u)
        BY <1>1, <2>3 DEF FillLimit, LimitOf, Waiting
      <3>2. QED
        BY <2>1, <3>1 DEF LimitFits
    <2>4. CASE ExpireLimit(u) \/ ClearActivated(u)
      BY <2>1, <2>4, LimitOfDelete DEF ExpireLimit, ClearActivated
    <2>5. CASE Wait(u)
      BY <2>1, <2>5 DEF Wait, LimitFits
    <2>6. CASE ReadToken(u) \/ ActivationDies(u)
      <3>1. UNCHANGED <<standing, limit, chat, behind>>
        BY <2>6 DEF ReadToken, ActivationDies, limits
      <3>2. LimitOf(u)' = LimitOf(u)
        BY <3>1 DEF LimitOf, Waiting
      <3>3. QED
        BY <2>1, <3>1, <3>2 DEF LimitFits
    <2>7. CASE Activate(u)
      <3>1. /\ UNCHANGED <<limit, chat>> /\ (u \in behind \/ chat[u] # NoKey => u \in behind')
            /\ standing'[u] = "ACTIVATED" /\ standing[u] # "WAITING"
        BY <1>1, <2>7 DEF Activate, SetStatus, ActivatedWereGranted
      <3>2. LimitOf(u)' = LimitOf(u)
        BY <3>1 DEF LimitOf, Waiting
      <3>3. QED
        BY <2>1, <3>1, <3>2 DEF LimitFits
    <2>8. QED
      BY <2>2, <2>3, <2>4, <2>5, <2>6, <2>7 DEF OfWaiter
  <1>4. QED
    <2>1. \A v \in Waiter : LimitFits(v)'
      BY <1>2, <1>3
    <2>2. LimitInv'
      BY <2>1 DEF LimitInv, FillsFresh, LimitCurrentUnlessOvertaken, LimitFits, Cleared
    <2>3. QED
      BY <2>2

LEMMA LimitOfGranter ==
  ASSUME WaitlistTypeOK, GrantersMean, LimitInv, NEW a \in Granter, OfGranter(a)
  PROVE  LimitInv'
  <1>1. /\ granter \in [Granter -> GranterRecord] /\ behind \subseteq Waiter
        /\ chat \in [Waiter -> {NoKey, "limited", "unlimited"}] /\ limit \in [Waiter -> {NoKey, "limited", "unlimited"}]
        /\ standing \in [Waiter -> {NoEntry, "WAITING", "GRANTED", "ACTIVATED"}]
    BY DEF WaitlistTypeOK, GranterRecord
  <1>2. chat' = chat
    BY DEF OfGranter, ListWaiting, FindPhone, Grant, ClearGranted, GranterDies, limits
  <1>3. SUFFICES ASSUME NEW u \in Waiter
                 PROVE  LimitFits(u)'
    BY DEF LimitInv, FillsFresh, LimitCurrentUnlessOvertaken, LimitFits, Cleared
  <1>4. LimitFits(u)
    BY LimitByUser
  <1>5. ASSUME UNCHANGED <<standing, limit>>, u \in behind => u \in behind', Cleared(u) => Cleared(u)' \/ u \in behind'
        PROVE  LimitFits(u)'
    <2>1. LimitOf(u)' = LimitOf(u)
      BY <1>5 DEF LimitOf, Waiting
    <2>2. QED
      BY <1>2, <1>4, <1>5, <2>1 DEF LimitFits
  <1>6. ASSUME NEW i \in Places, ListWaiting(a, i) \/ FindPhone(a, i)
        PROVE  LimitFits(u)'
    <2>1. UNCHANGED <<standing, limit, behind>> /\ granter[a].at = "rest"
          /\ \A b \in Granter : b # a => granter'[b] = granter[b]
      BY <1>1, <1>6 DEF ListWaiting, FindPhone, BeginGrant, limits
    <2>2. Cleared(u) => Cleared(u)'
      BY <2>1 DEF Cleared
    <2>3. QED
      BY <1>5, <2>1, <2>2
  <1>7. ASSUME NEW i \in Places, Grant(a, i)
        PROVE  LimitFits(u)'
    <2>1. /\ standing' = [standing EXCEPT ![queue[i]] = "GRANTED"] /\ limit' = limit
          /\ granter[a].at = "grant" /\ \A b \in Granter : b # a => granter'[b] = granter[b]
          /\ behind' = IF chat[queue[i]] = NoKey THEN behind ELSE behind \cup {queue[i]}
      BY <1>1, <1>7 DEF Grant, SetStatus
    <2>2. granter'[a].at = "clear" /\ granter'[a].current = queue[i]
      BY <1>1, <1>7 DEF Grant
    <2>3. Cleared(u) => Cleared(u)'
      BY <2>1 DEF Cleared
    <2>4. CASE u = queue[i]
      <3>1. Cleared(u)'
        BY <2>2, <2>4 DEF Cleared
      <3>2. chat[u] = NoKey \/ u \in behind'
        BY <2>1, <2>4
      <3>3. QED
        BY <1>2, <3>1, <3>2 DEF LimitFits
    <2>5. CASE u # queue[i]
      <3>1. standing'[u] = standing[u] /\ (u \in behind => u \in behind')
        BY <1>1, <2>1, <2>5
      <3>2. LimitOf(u)' = LimitOf(u)
        BY <3>1 DEF LimitOf, Waiting
      <3>3. QED
        BY <1>2, <1>4, <2>1, <2>3, <3>1, <3>2 DEF LimitFits
    <2>6. QED
      BY <2>4, <2>5
  <1>8. ASSUME ClearGranted(a)
        PROVE  LimitFits(u)'
    <2>1. /\ DeleteLimit(granter[a].current) /\ standing' = standing
          /\ \A b \in Granter : b # a => granter'[b] = granter[b]
          /\ granter[a].current \in Waiter
      BY <1>1, <1>8 DEF ClearGranted, GrantersMean, Meant
    <2>2. CASE u = granter[a].current
      BY <1>2, <1>4, <2>1, <2>2, LimitOfDelete
    <2>3. CASE u # granter[a].current
      <3>1. limit'[u] = limit[u] /\ (u \in behind => u \in behind')
        BY <1>1, <2>1, <2>3 DEF DeleteLimit
      <3>2. (Cleared(u) => Cleared(u)') /\ LimitOf(u)' = LimitOf(u)
        BY <2>1, <2>3 DEF Cleared, LimitOf, Waiting
      <3>3. QED
        BY <1>2, <1>4, <3>1, <3>2 DEF LimitFits
    <2>4. QED
      BY <2>2, <2>3
  <1>9. ASSUME GranterDies(a)
        PROVE  LimitFits(u)'
    <2>1. /\ UNCHANGED <<standing, limit>> /\ (u \in behind => u \in behind')
          /\ \A b \in Granter : b # a => granter'[b] = granter[b]
          /\ granter[a].at = "clear" => granter[a].current \in behind'
      BY <1>1, <1>9 DEF GranterDies
    <2>2. Cleared(u) => Cleared(u)' \/ u \in behind'
      BY <2>1 DEF Cleared
    <2>3. QED
      BY <1>5, <2>1, <2>2
  <1>10. QED
    BY <1>6, <1>7, <1>8, <1>9 DEF OfGranter

LEMMA NextLimits ==
  ASSUME WaitlistTypeOK, GrantersMean, ActivatedWereGranted, LimitInv, [WaitlistNext]_waitlistVars
  PROVE  LimitInv'
  <1>1. CASE Reminding \/ UNCHANGED waitlistVars
    <2>1. UNCHANGED <<standing, limit, chat, behind, granter>>
      BY <1>1 DEF Reminding, StartReminders, Send, Record, EndReminders, JobDies, grants, limits, waitlistVars
    <2>2. QED
      BY <2>1 DEF LimitInv, FillsFresh, LimitCurrentUnlessOvertaken, LimitOf, Waiting
  <1>2. QED
    BY <1>1, LimitOfWaiter, LimitOfGranter DEF WaitlistNext

\* The job knows the last reminder of everybody on its list, and has sent what it is about
\* to record.
JobSound ==
  /\ \A x \in job.list : x[2] = lastStep[x[1]]
  /\ job.at = "sent" => /\ job.current \notin job.list
                        /\ job.current[2] = lastStep[job.current[1]]
                        /\ sent[job.current[1]][NextStep(job.current)] > 0

\* What was sent of a user's reminders is what was recorded, and perhaps the next one.
SentSound ==
  \A u \in Waiter, k \in Step :
    /\ k =< lastStep[u] => sent[u][k] > 0
    /\ k > lastStep[u] /\ sent[u][k] > 0 =>
         /\ k = lastStep[u] + 1
         /\ <<u, k>> \in repeated \/ (job.at = "sent" /\ job.current = <<u, lastStep[u]>>)
    /\ sent[u][k] > 1 => <<u, k>> \in repeated

RemindersInv == JobSound /\ SentSound

LEMMA SentInOrder == WaitlistTypeOK /\ SentSound => RemindersInOrder
  <1> SUFFICES ASSUME WaitlistTypeOK, SentSound, NEW u \in Waiter, NEW k \in Step,
                      k > 0, sent[u][k] > 0
               PROVE  sent[u][k - 1] > 0
    BY DEF SentSound, RemindersInOrder
  <1>1. lastStep[u] \in Int /\ ReminderSteps \in Nat
    BY WaitlistAssumption DEF WaitlistTypeOK, Sent
  <1>2. k =< lastStep[u] \/ k = lastStep[u] + 1
    <2>1. k > lastStep[u] => k = lastStep[u] + 1
      BY DEF SentSound
    <2>2. k \in Int
      BY <1>1 DEF Step
    <2>3. QED
      BY <1>1, <2>1, <2>2
  <1>3. k - 1 \in Step /\ k - 1 =< lastStep[u]
    BY <1>1, <1>2 DEF Step
  <1>4. QED
    BY <1>3 DEF SentSound

LEMMA NextReminders ==
  ASSUME WaitlistTypeOK, JobMeans, RemindersInv, [WaitlistNext]_waitlistVars
  PROVE  RemindersInv'
  <1>1. /\ job \in JobRecord /\ lastStep \in [Waiter -> Sent] /\ sent \in [Waiter -> [Step -> Nat]]
        /\ JobSound /\ SentSound
    BY DEF WaitlistTypeOK, JobRecord, RemindersInv
  <1>2. /\ \A x \in job.list : x \in Waiter \X Sent
        /\ Sent \subseteq Int /\ Step \subseteq Nat
    BY <1>1, WaitlistAssumption DEF JobRecord, Sent, Step
  <1>3. CASE \/ \E u \in Waiter : OfWaiter(u)
             \/ \E a \in Granter : OfGranter(a)
             \/ UNCHANGED waitlistVars
    <2>1. UNCHANGED <<job, lastStep, repeated, sent>>
      BY <1>3 DEF OfWaiter, ReadLimit, FillLimit, ExpireLimit, Wait, ReadToken, Activate, ClearActivated,
         ActivationDies, OfGranter, ListWaiting, FindPhone, Grant, Granted, ClearGranted, GranterDies, reminders,
         waitlistVars
    <2>2. QED
      BY <1>1, <2>1 DEF RemindersInv, JobSound, SentSound, NextStep, Step
  <1>4. CASE StartReminders
    <2> DEFINE list == {<<u, lastStep[u]>> : u \in {v \in Waiter : standing[v] = "GRANTED"}}
    <2>1. /\ job' = [at |-> "next", list |-> list, current |-> NoEntry] /\ job.at = "rest"
          /\ UNCHANGED <<lastStep, repeated, sent>>
      BY <1>4 DEF StartReminders
    <2>2. \A x \in list : x[2] = lastStep[x[1]]
      OBVIOUS
    <2> HIDE DEF list
    <2>3. JobSound'
      BY <2>1, <2>2 DEF JobSound
    <2>4. SentSound'
      BY <1>1, <2>1 DEF SentSound, Step
    <2>5. QED
      BY <2>3, <2>4 DEF RemindersInv
  <1>5. ASSUME NEW x \in Waiter \X Sent, Send(x)
        PROVE  RemindersInv'
    <2> DEFINE u == x[1]
               k == NextStep(x)
               f == [sent[u] EXCEPT ![k] = @ + 1]
    <2>1. /\ job.at = "next" /\ x \in job.list
          /\ job' = [at |-> "sent", list |-> job.list \ {x}, current |-> x]
          /\ UNCHANGED <<lastStep, repeated>>
          /\ u \in Waiter /\ k \in Step /\ x = <<u, lastStep[u]>> /\ k = lastStep[u] + 1
      BY <1>1, <1>5 DEF Send, JobSound, NextStep
    <2>2. /\ sent'[u][k] = sent[u][k] + 1 /\ sent[u][k] \in Nat
          /\ \A v \in Waiter, l \in Step : v # u \/ l # k => sent'[v][l] = sent[v][l]
      BY <1>1, <1>5, <2>1 DEF Send
    <2> HIDE DEF u, k
    <2>3. JobSound'
      <3>1. job'.list = job.list \ {x} /\ job'.current = x
        BY <2>1
      <3>2. sent'[x[1]][NextStep(x)] > 0
        BY <2>2 DEF u, k
      <3>3. x[2] = lastStep[x[1]]
        BY <1>1, <2>1 DEF JobSound
      <3>4. QED
        BY <1>1, <2>1, <3>1, <3>2, <3>3 DEF JobSound, NextStep
    <2>4. SentSound'
      <3> SUFFICES ASSUME NEW v \in Waiter, NEW l \in Step
                   PROVE  /\ l =< lastStep[v] => sent'[v][l] > 0
                          /\ l > lastStep[v] /\ sent'[v][l] > 0 =>
                               /\ l = lastStep[v] + 1
                               /\ <<v, l>> \in repeated \/ (job'.at = "sent" /\ job'.current = <<v, lastStep[v]>>)
                          /\ sent'[v][l] > 1 => <<v, l>> \in repeated
        BY <2>1 DEF SentSound, Step
      <3>1. CASE v = u /\ l = k
        <4>1. lastStep[v] \in Int /\ k > lastStep[v]
          <5>1. lastStep[u] \in Sent /\ lastStep[u] \in Int
            BY <1>1, <1>2, <2>1
          <5>2. k = lastStep[u] + 1
            BY <2>1
          <5>3. QED
            BY <3>1, <5>1, <5>2
        <4>2. sent[u][k] > 0 => <<u, k>> \in repeated
          BY <1>1, <2>1, <3>1, <4>1 DEF SentSound
        <4>3. job'.at = "sent" /\ job'.current = x
          BY <2>1
        <4>4. QED
          BY <1>2, <2>1, <2>2, <3>1, <4>1, <4>2, <4>3
      <3>2. CASE v # u \/ l # k
        <4>1. sent'[v][l] = sent[v][l]
          BY <2>2, <3>2
        <4>2. QED
          BY <1>1, <2>1, <4>1 DEF SentSound
      <3>3. QED
        BY <3>1, <3>2
    <2>5. QED
      BY <2>3, <2>4 DEF RemindersInv
  <1>6. CASE Record
    <2> DEFINE u == job.current[1]
               k == NextStep(job.current)
    <2>1. /\ job.at = "sent" /\ UNCHANGED <<repeated, sent>> /\ lastStep' = [lastStep EXCEPT ![u] = k]
          /\ job' = [job EXCEPT !.at = "next", !.current = NoEntry]
          /\ u \in Waiter /\ k \in Step /\ job.current = <<u, lastStep[u]>> /\ k = lastStep[u] + 1
          /\ job.current \notin job.list /\ sent[u][k] > 0
      BY <1>1, <1>6 DEF Record, JobMeans, JobSound, NextStep
    <2>2. /\ lastStep'[u] = k /\ \A v \in Waiter : v # u => lastStep'[v] = lastStep[v]
          /\ job'.at = "next" /\ job'.list = job.list
      BY <1>1, <2>1 DEF JobRecord
    <2> HIDE DEF u, k
    <2>3. \A x \in job.list : x[2] = lastStep'[x[1]]
      <3> SUFFICES ASSUME NEW x \in job.list
                   PROVE  x[2] = lastStep'[x[1]]
        OBVIOUS
      <3>1. x = <<x[1], x[2]>> /\ x[1] \in Waiter /\ x[2] = lastStep[x[1]]
        BY <1>1, <1>2 DEF JobSound
      <3>2. x[1] # u
        BY <2>1, <3>1
      <3>3. QED
        BY <2>2, <3>1, <3>2
    <2>4. SentSound'
      <3> SUFFICES ASSUME NEW v \in Waiter, NEW l \in Step
                   PROVE  /\ l =< lastStep'[v] => sent[v][l] > 0
                          /\ l > lastStep'[v] /\ sent[v][l] > 0 =>
                               /\ l = lastStep'[v] + 1
                               /\ <<v, l>> \in repeated \/ (job'.at = "sent" /\ job'.current = <<v, lastStep'[v]>>)
                          /\ sent[v][l] > 1 => <<v, l>> \in repeated
        BY <2>1 DEF SentSound, Step
      <3>1. CASE v = u
        <4>1. lastStep[u] \in Int /\ k \in Int /\ l \in Int
          BY <1>1, <1>2, <2>1
        <4> DEFINE n == lastStep[u]
                   m == sent[v][l]
        <4>2. /\ l =< n => m > 0
              /\ l > n /\ m > 0 => l = n + 1
          BY <1>1, <3>1 DEF SentSound
        <4>3. n \in Int /\ k = n + 1 /\ (l = k => m > 0)
          BY <2>1, <3>1, <4>1
        <4> HIDE DEF n, m
        <4>4. l =< k => m > 0
          BY <4>1, <4>2, <4>3
        <4>5. ~(l > k /\ m > 0)
          BY <4>1, <4>2, <4>3
        <4>6. sent[v][l] > 1 => <<v, l>> \in repeated
          BY <1>1 DEF SentSound
        <4>7. QED
          BY <2>2, <3>1, <4>4, <4>5, <4>6 DEF m
      <3>2. CASE v # u
        <4>1. lastStep'[v] = lastStep[v] /\ job.current # <<v, lastStep[v]>>
          BY <2>1, <2>2, <3>2
        <4>2. QED
          BY <1>1, <4>1 DEF SentSound
      <3>3. QED
        BY <3>1, <3>2
    <2>5. JobSound'
      BY <2>2, <2>3 DEF JobSound
    <2>6. QED
      BY <2>4, <2>5 DEF RemindersInv
  <1>7. CASE EndReminders
    <2>1. job' = JobAtRest /\ job.at = "next" /\ UNCHANGED <<lastStep, repeated, sent>>
      BY <1>7 DEF EndReminders
    <2>2. QED
      BY <1>1, <2>1, WaitersAtRest DEF RemindersInv, JobSound, SentSound, Step
  <1>8. CASE JobDies
    <2>1. /\ job' = JobAtRest /\ job.at = "sent" /\ UNCHANGED <<lastStep, sent>>
          /\ repeated' = repeated \cup {<<job.current[1], NextStep(job.current)>>}
      BY <1>8 DEF JobDies
    <2>2. JobSound'
      BY <2>1, WaitersAtRest DEF JobSound
    <2>3. SentSound'
      <3> SUFFICES ASSUME NEW v \in Waiter, NEW l \in Step
                   PROVE  /\ l =< lastStep[v] => sent[v][l] > 0
                          /\ l > lastStep[v] /\ sent[v][l] > 0 => l = lastStep[v] + 1 /\ <<v, l>> \in repeated'
                          /\ sent[v][l] > 1 => <<v, l>> \in repeated'
        BY <2>1 DEF SentSound, Step
      <3>1. job.current = <<v, lastStep[v]>> => <<v, lastStep[v] + 1>> \in repeated'
        BY <2>1 DEF NextStep
      <3>2. QED
        BY <1>1, <2>1, <3>1 DEF SentSound
    <2>4. QED
      BY <2>2, <2>3 DEF RemindersInv
  <1>9. QED
    BY <1>3, <1>4, <1>5, <1>6, <1>7, <1>8 DEF WaitlistNext, Reminding
-----------------------------------------------------------------------------
LEMMA InitQueue ==
  ASSUME WaitlistInit
  PROVE  QueueInv /\ LimitInv /\ RemindersInv /\ GrantersMean /\ JobMeans
  <1>1. Places = {}
    BY DEF WaitlistInit, Places
  <1>2. QueueInv
    BY <1>1 DEF WaitlistInit, QueueInv, QueueSound, OldestFirst, ListsSound, ActivatedWereGranted
  <1>3. LimitInv
    BY DEF WaitlistInit, LimitInv, FillsFresh, LimitCurrentUnlessOvertaken
  <1>4. GrantersMean /\ JobMeans /\ JobSound
    BY WaitersAtRest DEF WaitlistInit, GrantersMean, Meant, JobMeans, JobSound
  <1>5. SentSound
    BY WaitlistAssumption DEF WaitlistInit, SentSound, Step
  <1>6. QED
    BY <1>2, <1>3, <1>4, <1>5 DEF RemindersInv

WaitlistInv == WaitlistSound /\ QueueInv /\ LimitInv /\ RemindersInv

LEMMA WaitlistInvHolds == WaitlistSpec => []WaitlistInv
  <1>1. WaitlistInit => WaitlistInv
    BY InitWaitlistTypes, InitQueue DEF WaitlistSound, WaitlistInv
  <1>2. WaitlistInv /\ [WaitlistNext]_waitlistVars => WaitlistInv'
    <2> SUFFICES ASSUME WaitlistInv, [WaitlistNext]_waitlistVars
                 PROVE  WaitlistInv'
      OBVIOUS
    <2> USE DEF WaitlistInv
    <2>1. WaitlistTypeOK /\ GrantersMean /\ JobMeans /\ ActivatedWereGranted
      BY DEF WaitlistSound, QueueInv
    <2>2. WaitlistSound'
      BY NextWaitlistTypes
    <2>3. QueueInv'
      BY <2>1, NextOrder
    <2>4. LimitInv'
      BY <2>1, NextLimits
    <2>5. RemindersInv'
      BY <2>1, NextReminders
    <2>6. QED
      BY <2>2, <2>3, <2>4, <2>5
  <1>3. QED
    BY <1>1, <1>2, PTL DEF WaitlistSpec

\* QueueIsFair: whatever the administrators, the users, the chats and the reminder job do
\* in turn, and wherever one of them dies, access is granted in the order of the waiting
\* list, the limit in Redis is the one of the user's place unless a DEL is still due or
\* was overtaken, and every user is reminded step by step.
THEOREM WaitlistIsFair == WaitlistSpec => []QueueIsFair
  <1>1. WaitlistInv => QueueIsFair
    BY SentInOrder DEF WaitlistInv, WaitlistSound, QueueInv, LimitInv, RemindersInv, QueueIsFair
  <1>2. QED
    BY <1>1, WaitlistInvHolds, PTL
-----------------------------------------------------------------------------
(* The limits as a cache *)

\* A limit is late as long as its DEL is due, or if nobody is about to delete it.
LEMMA LateLimits ==
  /\ \A u \in Waiter : u \in LimitLate <=> u \in behind \/ Cleared(u)
  /\ \A u \in Waiter : u \in LimitLate' <=> u \in behind' \/ Cleared(u)'
  /\ WaitlistTypeOK => LimitLate \subseteq Waiter
  /\ WaitlistTypeOK' => LimitLate' \subseteq Waiter
  <1>1. /\ \A u \in Waiter : u \in LimitLate <=> u \in behind \/ Cleared(u)
        /\ \A u \in Waiter : u \in LimitLate' <=> u \in behind' \/ Cleared(u)'
    BY DEF LimitLate, Cleared
  <1>2. WaitlistTypeOK => behind \subseteq Waiter
    BY DEF WaitlistTypeOK
  <1>3. WaitlistTypeOK' => behind' \subseteq Waiter
    BY DEF WaitlistTypeOK
  <1>4. QED
    BY <1>1, <1>2, <1>3 DEF LimitLate

\* A step that leaves the keys alone and whoever is late.
LEMMA LimitWritten ==
  ASSUME LimitLate \subseteq Waiter, LimitLate' \subseteq Waiter, UNCHANGED limit,
         limit \in [Waiter -> {NoKey, "limited", "unlimited"}],
         \A u \in Waiter : u \in LimitLate => u \in LimitLate',
         \A u \in Waiter : u \in LimitLate' \/ LimitOf(u)' = LimitOf(u) \/ limit[u] = NoKey
  PROVE  LimitKeys!Write
  <1>1. LimitLate' = LimitLate \cup LimitLate' /\ LimitLate' \in SUBSET Waiter
    OBVIOUS
  <1>2. \A u \in Waiter \ LimitLate' :
          \/ [v \in Waiter |-> {LimitOf(v)}]'[u] = [v \in Waiter |-> {LimitOf(v)}][u]
          \/ limit[u] = NoKey
    OBVIOUS
  <1>3. QED
    BY <1>1, <1>2 DEF LimitKeys!Write

\* The DEL of a limit, or its expiry.
LEMMA LimitDropped ==
  ASSUME LimitLate \subseteq Waiter, LimitLate' \subseteq Waiter,
         NEW u \in Waiter, DeleteLimit(u), UNCHANGED standing,
         \A v \in Waiter : v # u => (Cleared(v)' <=> Cleared(v))
  PROVE  LimitKeys!Drop(u)
  <1>1. \A v \in Waiter : v # u => (v \in behind' <=> v \in behind)
    BY DEF DeleteLimit
  <1>2. \A v \in Waiter : v # u => (v \in LimitLate' <=> v \in LimitLate)
    BY <1>1, LateLimits
  <1>3. LimitLate' \in {LimitLate \cup {u}, LimitLate \ {u}}
    <2>1. CASE u \in LimitLate'
      <3>1. LimitLate' = LimitLate \cup {u}
        BY <1>2, <2>1
      <3>2. QED
        BY <3>1
    <2>2. CASE u \notin LimitLate'
      <3>1. LimitLate' = LimitLate \ {u}
        BY <1>2, <2>2
      <3>2. QED
        BY <3>1
    <2>3. QED
      BY <2>1, <2>2
  <1>4. \A v \in Waiter : LimitOf(v)' = LimitOf(v)
    BY DEF LimitOf, Waiting
  <1>5. [v \in Waiter |-> {LimitOf(v)}]' = [v \in Waiter |-> {LimitOf(v)}]
    BY <1>4
  <1>6. limit' = [limit EXCEPT ![u] = NoKey]
    BY DEF DeleteLimit
  <1>7. QED
    BY <1>3, <1>5, <1>6 DEF LimitKeys!Drop

LEMMA WaiterIsOfTheLimits ==
  ASSUME WaitlistTypeOK, FillsFresh, ActivatedWereGranted, LimitLate' \subseteq Waiter,
         NEW u \in Waiter, OfWaiter(u)
  PROVE  LimitKeys!RNext
  <1>1. /\ granter' = granter /\ LimitLate \subseteq Waiter
        /\ chat \in [Waiter -> {NoKey, "limited", "unlimited"}] /\ limit \in [Waiter -> {NoKey, "limited", "unlimited"}]
        /\ standing \in [Waiter -> {NoEntry, "WAITING", "GRANTED", "ACTIVATED"}]
    BY LateLimits DEF OfWaiter, ReadLimit, FillLimit, ExpireLimit, Wait, ReadToken, Activate, ClearActivated,
       ActivationDies, grants, WaitlistTypeOK
  <1>2. \A v : Cleared(v)' <=> Cleared(v)
    BY <1>1 DEF Cleared
  <1>3. ASSUME UNCHANGED limit, behind \subseteq behind',
               \A v \in Waiter : v \in behind' \/ LimitOf(v)' = LimitOf(v) \/ limit[v] = NoKey
        PROVE  LimitKeys!RNext
    <2>1. \A v \in Waiter : v \in LimitLate => v \in LimitLate'
      BY <1>2, <1>3, LateLimits
    <2>2. \A v \in Waiter : v \in LimitLate' \/ LimitOf(v)' = LimitOf(v) \/ limit[v] = NoKey
      BY <1>3, LateLimits
    <2>3. QED
      BY <1>1, <1>3, <2>1, <2>2, LimitWritten DEF LimitKeys!RNext
  <1>4. CASE ReadLimit(u) \/ ReadToken(u) \/ ActivationDies(u)
    <2>1. UNCHANGED <<standing, limit, behind>>
      BY <1>4 DEF ReadLimit, ReadToken, ActivationDies, limits
    <2>2. \A v \in Waiter : LimitOf(v)' = LimitOf(v)
      BY <2>1 DEF LimitOf, Waiting
    <2>3. QED
      BY <1>3, <2>1, <2>2
  <1>5. CASE Wait(u)
    <2>1. /\ standing' = [standing EXCEPT ![u] = "WAITING"] /\ limit' = limit /\ behind \subseteq behind'
          /\ u \in behind' \/ limit[u] = NoKey
      BY <1>5 DEF Wait
    <2>2. \A v \in Waiter : v # u => LimitOf(v)' = LimitOf(v)
      BY <1>1, <2>1 DEF LimitOf, Waiting
    <2>3. QED
      BY <1>3, <2>1, <2>2
  <1>6. CASE Activate(u)
    <2>1. /\ standing' = [standing EXCEPT ![u] = "ACTIVATED"] /\ limit' = limit /\ behind \subseteq behind'
          /\ standing[u] # "WAITING"
      BY <1>1, <1>6 DEF Activate, SetStatus, ActivatedWereGranted
    <2>2. \A v \in Waiter : LimitOf(v)' = LimitOf(v)
      BY <1>1, <2>1 DEF LimitOf, Waiting
    <2>3. QED
      BY <1>3, <2>1, <2>2
  <1>7. CASE ExpireLimit(u) \/ ClearActivated(u)
    BY <1>1, <1>2, <1>7, LimitDropped DEF ExpireLimit, ClearActivated, LimitKeys!RNext
  <1>8. CASE FillLimit(u)
    <2>1. UNCHANGED <<standing, behind>> /\ chat[u] # NoKey /\ limit' = [limit EXCEPT ![u] = chat[u]]
      BY <1>8 DEF FillLimit
    <2>2. chat[u] = LimitOf(u) \/ u \in behind
      BY <2>1 DEF FillsFresh
    <2>3. limit'[u] = chat[u] /\ limit' = [limit EXCEPT ![u] = limit'[u]]
      BY <1>1, <2>1
    <2>4. limit'[u] \in [v \in Waiter |-> {LimitOf(v)}][u] \/ u \in LimitLate
      BY <2>2, <2>3, LateLimits
    <2>5. \A v \in Waiter : LimitOf(v)' = LimitOf(v)
      BY <2>1 DEF LimitOf, Waiting
    <2>6. [v \in Waiter |-> {LimitOf(v)}]' = [v \in Waiter |-> {LimitOf(v)}]
      BY <2>5
    <2>7. LimitLate' = LimitLate
      BY <1>1, <2>1 DEF LimitLate
    <2>8. LimitKeys!Fill(u)
      BY <2>3, <2>4, <2>6, <2>7 DEF LimitKeys!Fill
    <2>9. QED
      BY <2>8 DEF LimitKeys!RNext
  <1>9. QED
    BY <1>4, <1>5, <1>6, <1>7, <1>8 DEF OfWaiter

LEMMA GranterIsOfTheLimits ==
  ASSUME WaitlistTypeOK, GrantersMean, LimitLate' \subseteq Waiter, NEW a \in Granter, OfGranter(a)
  PROVE  LimitKeys!RNext
  <1>1. /\ granter \in [Granter -> GranterRecord] /\ LimitLate \subseteq Waiter
        /\ limit \in [Waiter -> {NoKey, "limited", "unlimited"}]
        /\ standing \in [Waiter -> {NoEntry, "WAITING", "GRANTED", "ACTIVATED"}]
    BY LateLimits DEF WaitlistTypeOK, GranterRecord
  <1>2. ASSUME UNCHANGED limit, behind \subseteq behind',
               \A u \in Waiter : Cleared(u) => u \in behind' \/ Cleared(u)',
               \A u \in Waiter : Cleared(u)' \/ LimitOf(u)' = LimitOf(u)
        PROVE  LimitKeys!RNext
    <2>1. \A u \in Waiter : u \in LimitLate => u \in LimitLate'
      BY <1>2, LateLimits
    <2>2. \A u \in Waiter : u \in LimitLate' \/ LimitOf(u)' = LimitOf(u) \/ limit[u] = NoKey
      BY <1>2, LateLimits
    <2>3. QED
      BY <1>1, <1>2, <2>1, <2>2, LimitWritten DEF LimitKeys!RNext
  <1>3. ASSUME NEW i \in Places, ListWaiting(a, i) \/ FindPhone(a, i)
        PROVE  LimitKeys!RNext
    <2>1. UNCHANGED <<standing, limit, behind>> /\ granter[a].at = "rest"
          /\ \A b \in Granter : b # a => granter'[b] = granter[b]
      BY <1>1, <1>3 DEF ListWaiting, FindPhone, BeginGrant, limits
    <2>2. \A u \in Waiter : (Cleared(u) => Cleared(u)') /\ LimitOf(u)' = LimitOf(u)
      BY <2>1 DEF Cleared, LimitOf, Waiting
    <2>3. QED
      BY <1>2, <2>1, <2>2
  <1>4. ASSUME NEW i \in Places, Grant(a, i)
        PROVE  LimitKeys!RNext
    <2>1. /\ standing' = [standing EXCEPT ![queue[i]] = "GRANTED"] /\ limit' = limit
          /\ granter[a].at = "grant" /\ \A b \in Granter : b # a => granter'[b] = granter[b]
          /\ behind \subseteq behind'
      BY <1>1, <1>4 DEF Grant, SetStatus
    <2>2. granter'[a].at = "clear" /\ granter'[a].current = queue[i]
      BY <1>1, <1>4 DEF Grant
    <2>3. \A u \in Waiter : Cleared(u) => Cleared(u)'
      BY <2>1 DEF Cleared
    <2>4. \A u \in Waiter : u = queue[i] => Cleared(u)'
      BY <2>2 DEF Cleared
    <2>5. \A u \in Waiter : u # queue[i] => LimitOf(u)' = LimitOf(u)
      BY <1>1, <2>1 DEF LimitOf, Waiting
    <2>6. QED
      BY <1>2, <2>1, <2>3, <2>4, <2>5
  <1>5. CASE ClearGranted(a)
    <2>1. /\ DeleteLimit(granter[a].current) /\ standing' = standing
          /\ \A b \in Granter : b # a => granter'[b] = granter[b]
          /\ granter[a].current \in Waiter /\ granter'[a].at # "clear"
      BY <1>1, <1>5 DEF ClearGranted, GrantersMean, Meant, GranterAtRest
    <2>2. \A v \in Waiter : v # granter[a].current => (Cleared(v)' <=> Cleared(v))
      BY <2>1 DEF Cleared
    <2>3. QED
      BY <1>1, <2>1, <2>2, LimitDropped DEF LimitKeys!RNext
  <1>6. CASE GranterDies(a)
    <2>1. /\ UNCHANGED <<standing, limit>> /\ behind \subseteq behind'
          /\ \A b \in Granter : b # a => granter'[b] = granter[b]
          /\ granter[a].at = "clear" => granter[a].current \in behind'
      BY <1>1, <1>6 DEF GranterDies
    <2>2. \A u \in Waiter : (Cleared(u) => u \in behind' \/ Cleared(u)') /\ LimitOf(u)' = LimitOf(u)
      BY <2>1 DEF Cleared, LimitOf, Waiting
    <2>3. QED
      BY <1>2, <2>1, <2>2
  <1>7. QED
    BY <1>3, <1>4, <1>5, <1>6 DEF OfGranter

LEMMA StepIsOfTheLimits ==
  ASSUME WaitlistInv, WaitlistInv', [WaitlistNext]_waitlistVars
  PROVE  [LimitKeys!RNext]_LimitKeys!rvars
  <1>1. LimitLate' \subseteq Waiter /\ LimitLate \subseteq Waiter
    BY LateLimits DEF WaitlistInv, WaitlistSound
  <1>2. /\ WaitlistTypeOK /\ GrantersMean /\ ActivatedWereGranted /\ FillsFresh
    BY DEF WaitlistInv, WaitlistSound, QueueInv, LimitInv
  <1>3. CASE Reminding \/ UNCHANGED waitlistVars
    <2>1. UNCHANGED <<standing, limit, behind, granter>>
      BY <1>3 DEF Reminding, StartReminders, Send, Record, EndReminders, JobDies, grants, limits, waitlistVars
    <2>2. \A u \in Waiter : LimitOf(u)' = LimitOf(u)
      BY <2>1 DEF LimitOf, Waiting
    <2>3. LimitLate' = LimitLate
      BY <2>1 DEF LimitLate
    <2>4. limit \in [Waiter -> {NoKey, "limited", "unlimited"}]
      BY <1>2 DEF WaitlistTypeOK
    <2>5. QED
      BY <1>1, <2>1, <2>2, <2>3, <2>4, LimitWritten DEF LimitKeys!RNext
  <1>4. ASSUME NEW u \in Waiter, OfWaiter(u) PROVE LimitKeys!RNext
    BY <1>1, <1>2, <1>4, WaiterIsOfTheLimits
  <1>5. ASSUME NEW a \in Granter, OfGranter(a) PROVE LimitKeys!RNext
    BY <1>1, <1>2, <1>5, GranterIsOfTheLimits
  <1>6. QED
    BY <1>3, <1>4, <1>5 DEF WaitlistNext

LEMMA InitIsOfTheLimits == WaitlistInit => LimitKeys!RInit
  BY WaitersAtRest DEF WaitlistInit, LimitLate, LimitKeys!RInit

\* Everybody's limit in Redis is a read-through cache of the waiting list: no interleaving
\* of entries, grants, activations and chats, and no death, leaves a limit behind that the
\* list does not give, unless it is late, and so to be absent first.
THEOREM LimitsAreReadThrough == WaitlistSpec => LimitsImplementReadThrough
  <1>1. WaitlistInv /\ WaitlistInv' /\ [WaitlistNext]_waitlistVars => [LimitKeys!RNext]_LimitKeys!rvars
    BY StepIsOfTheLimits
  <1>2. QED
    BY <1>1, InitIsOfTheLimits, WaitlistInvHolds, PTL
       DEF WaitlistSpec, LimitsImplementReadThrough, LimitKeys!RSpec
=============================================================================
