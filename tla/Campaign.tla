------------------------------ MODULE Campaign ------------------------------
(***************************************************************************)
(* The soft launch (campaign.service.ts): a campaign admits new users      *)
(* until its capacity is taken and puts the rest on a waiting list, which  *)
(* Waitlist.tla models. Logins find the active campaign through a key in   *)
(* Redis that administrators' requests delete.                             *)
(*                                                                         *)
(* A handler is in the step named by its field at; its reads are in its    *)
(* other fields. Start and end of a campaign, its texts, and the size of   *)
(* the list, which only chooses among texts, are left out.                 *)
(***************************************************************************)
EXTENDS Integers, FiniteSets

CONSTANTS
  User, CampaignId, Admin,
  Capacities,    \* the capacities a campaign may be given
  MaxRequests,   \* bound: requests of administrators
  Empty,         \* no such key in Redis
  None           \* no campaign, cached as 'null'

ASSUME CampaignAssumption ==
  /\ CampaignId # {} /\ Capacities \subseteq Nat /\ Capacities # {} /\ MaxRequests \in Nat
  /\ Empty \notin CampaignId /\ None \notin CampaignId /\ Empty # None

VARIABLES
  status,    \* LaunchCampaign.status, "none" before the campaign is created
  capacity, granted,
  active,    \* campaign:active
  signup,    \* applyToNewUser of each user
  admin,     \* the request of each administrator
  requests,  \* requests begun, for the bound
  admitted,  \* history: the campaign that admitted each user
  top,       \* history: the largest capacity each campaign has had
  refused,   \* history: what a user not admitted found the campaign to be
  stale,     \* history: the key may be outdated with nobody about to delete it
  misled,    \* history: users whose campaign was closed on the way, or the key late to say so
  crossed    \* history: two createCampaign overlapped, or a campaign was opened again

rows == <<status, capacity, granted, top>>
signups == <<signup, admitted, refused>>
vars == <<rows, active, stale, misled, signups, admin, requests, crossed>>

Active == {c \in CampaignId : status[c] = "ACTIVE"}
First == CHOOSE c \in CampaignId : TRUE
AtRest == [at |-> "rest", campaign |-> None]

Init ==
  /\ status = [c \in CampaignId |-> IF c = First THEN "ACTIVE" ELSE "none"]
  /\ capacity \in [CampaignId -> Capacities]
  /\ granted = [c \in CampaignId |-> 0]
  /\ top = capacity
  /\ active = Empty
  /\ signup = [u \in User |-> [at |-> "new", campaign |-> None]]
  /\ admitted = [u \in User |-> None] /\ refused = [u \in User |-> "no"]
  /\ admin = [a \in Admin |-> AtRest] /\ requests = 0
  /\ stale = FALSE /\ misled = {} /\ crossed = FALSE
-----------------------------------------------------------------------------
(* campaign:active *)

\* Whose SET of the key is still to come.
Filling == {u \in User : signup[u].at = "fill"}

\* The key may be outdated: somebody is about to delete it, or failed to.
KeyIsLate == stale \/ \E a \in Admin : admin[a].at \in {"create", "invalidate"}
KeyIsCurrent == active \in {Empty} \cup (IF Active = {} THEN {None} ELSE Active)

DeleteActive ==
  /\ active' = Empty
  /\ stale' = (Filling # {})

\* Redis drops the key after a minute.
Expires_Never == FALSE
Expires == active # Empty

ExpireActive ==
  /\ Expires
  /\ DeleteActive
  /\ UNCHANGED <<rows, misled, signups, admin, requests, crossed>>
-----------------------------------------------------------------------------
(* applyToNewUser, at the first login of a user *)

Go(u, at, c) == signup' = [signup EXCEPT ![u] = [at |-> at, campaign |-> c]]

\* A user without campaign is let in.
Decide(u, c) == Go(u, IF c = None THEN "done" ELSE "apply", c)

ReadActive(u) ==
  /\ signup[u].at = "new"
  /\ IF active = Empty THEN Go(u, "find", None) ELSE Decide(u, active)
  /\ misled' = IF KeyIsLate /\ active \in CampaignId \ Active THEN misled \cup {u} ELSE misled
  /\ UNCHANGED <<rows, active, stale, admitted, refused, admin, requests, crossed>>

FindActive(u) ==
  /\ signup[u].at = "find"
  /\ \E c \in IF Active = {} THEN {None} ELSE Active : Go(u, "fill", c)
  /\ UNCHANGED <<rows, active, stale, misled, admitted, refused, admin, requests, crossed>>

FillActive(u) ==
  /\ signup[u].at = "fill"
  /\ active' = signup[u].campaign
  /\ Decide(u, signup[u].campaign)
  /\ UNCHANGED <<rows, stale, misled, admitted, refused, admin, requests, crossed>>

\* UPDATE launch_campaigns ... WHERE status = 'ACTIVE' AND "grantedCount" < capacity
HasRoom_OffByOne(c) == status[c] = "ACTIVE" /\ granted[c] =< capacity[c]
HasRoom(c) == status[c] = "ACTIVE" /\ granted[c] < capacity[c]

Admit(u) ==
  LET c == signup[u].campaign IN
  /\ signup[u].at = "apply"
  /\ HasRoom(c)
  /\ granted' = [granted EXCEPT ![c] = @ + 1]
  /\ admitted' = [admitted EXCEPT ![u] = c]
  /\ Go(u, "clear", None)
  /\ UNCHANGED <<status, capacity, top, active, stale, misled, refused, admin, requests, crossed>>

\* No row was updated: an entry of the waiting list is created.
Refuse(u) ==
  LET c == signup[u].campaign IN
  /\ signup[u].at = "apply"
  /\ ~HasRoom(c)
  /\ refused' = [refused EXCEPT ![u] = IF status[c] = "ACTIVE" THEN "full" ELSE "closed"]
  /\ Go(u, "done", None)
  /\ UNCHANGED <<rows, active, stale, misled, admitted, admin, requests, crossed>>

ClearActive(u) ==
  /\ signup[u].at = "clear"
  /\ DeleteActive
  /\ Go(u, "done", None)
  /\ UNCHANGED <<rows, misled, admitted, refused, admin, requests, crossed>>

\* An error or a restart; the user exists by now and is not new any more.
SignupDies(u) ==
  /\ signup[u].at \notin {"new", "done"}
  /\ Go(u, "done", None)
  /\ UNCHANGED <<rows, active, stale, misled, admitted, refused, admin, requests, crossed>>
-----------------------------------------------------------------------------
(* Requests of administrators *)

Begin(a, at, c) ==
  /\ admin[a].at = "rest"
  /\ requests < MaxRequests
  /\ requests' = requests + 1
  /\ admin' = [admin EXCEPT ![a] = [at |-> at, campaign |-> c]]

To(a, at) == admin' = [admin EXCEPT ![a].at = at] /\ UNCHANGED requests

\* A campaign that signups have found is closed, or a new one created without them.
Overtake(c) ==
  /\ misled' = misled \cup {u \in User : signup[u].at # "done" /\ signup[u].campaign = c}
  /\ stale' = (stale \/ \E u \in Filling : signup[u].campaign = c)

Close(c) == status' = [status EXCEPT ![c] = "CLOSED"] /\ Overtake(c)

\* createCampaign closes the active campaign it has found, if any.
CreateFinds(a) ==
  /\ \E c \in IF Active = {} THEN {None} ELSE Active :
       Begin(a, IF c = None THEN "create" ELSE "close", c)
  /\ crossed' = (crossed \/ \E b \in Admin : admin[b].at \in {"close", "create"})
  /\ UNCHANGED <<rows, active, stale, misled, signups>>

Replace_Nothing(c) == UNCHANGED <<status, misled, stale>>
Replace(c) == Close(c)

CreateCloses(a) ==
  /\ admin[a].at = "close"
  /\ Replace(admin[a].campaign)
  /\ To(a, "create")
  /\ UNCHANGED <<capacity, granted, top, active, signups, crossed>>

Create(a) ==
  /\ admin[a].at = "create"
  /\ \E c \in CampaignId :
       /\ status[c] = "none"
       /\ status' = [status EXCEPT ![c] = "ACTIVE"]
  /\ Overtake(None)
  /\ To(a, "invalidate")
  /\ UNCHANGED <<capacity, granted, top, active, signups, crossed>>

CloseCampaign(a, c) ==
  /\ status[c] # "none"
  /\ Begin(a, "invalidate", c)
  /\ Close(c)
  /\ UNCHANGED <<capacity, granted, top, active, signups, crossed>>

NewCapacity(c, n) == n

\* A closed campaign may be opened again beside another one.
Reopen(c) ==
  /\ status[c] = "CLOSED"
  /\ status' = [status EXCEPT ![c] = "ACTIVE"]
  /\ Overtake(None)
  /\ crossed' = (crossed \/ Active # {} \/ \E a \in Admin : admin[a].at \in {"close", "create"})

\* updateCampaign writes whatever columns the request names; capacity and status
\* matter here. (Nothing but applyToNewUser is assumed to write the count of those
\* admitted.)
UpdateCampaign(a, c, n) ==
  /\ status[c] # "none"
  /\ Begin(a, "invalidate", c)
  /\ capacity' = [capacity EXCEPT ![c] = NewCapacity(c, n)]
  /\ top' = [top EXCEPT ![c] = IF n > @ THEN n ELSE @]
  /\ \/ Close(c) /\ UNCHANGED crossed
     \/ Reopen(c)
     \/ UNCHANGED <<status, stale, misled, crossed>>
  /\ UNCHANGED <<granted, active, signups>>

Invalidate_Skipped == UNCHANGED <<active, stale>>
Invalidate == DeleteActive

Finish(a) ==
  /\ admin[a].at = "invalidate"
  /\ Invalidate
  /\ admin' = [admin EXCEPT ![a] = AtRest]
  /\ UNCHANGED <<rows, misled, signups, requests, crossed>>

AdminDies(a) ==
  /\ admin[a].at # "rest"
  /\ stale' = (stale \/ admin[a].at \in {"create", "invalidate"})
  /\ admin' = [admin EXCEPT ![a] = AtRest]
  /\ UNCHANGED <<rows, active, misled, signups, requests, crossed>>
-----------------------------------------------------------------------------
OfUser(u) ==
  \/ ReadActive(u) \/ FindActive(u) \/ FillActive(u) \/ Admit(u) \/ Refuse(u) \/ ClearActive(u)
  \/ SignupDies(u)

OfAdmin(a) ==
  \/ CreateFinds(a) \/ CreateCloses(a) \/ Create(a) \/ Finish(a) \/ AdminDies(a)
  \/ \E c \in CampaignId : \/ CloseCampaign(a, c)
                           \/ \E n \in Capacities : UpdateCampaign(a, c, n)

Next == ExpireActive \/ (\E u \in User : OfUser(u)) \/ (\E a \in Admin : OfAdmin(a))

Spec == Init /\ [][Next]_vars

\* Redis drops a key whose time to live is over.
FairSpec == Spec /\ WF_vars(ExpireActive)
-----------------------------------------------------------------------------
(* Properties *)

\* The types of the variables.
TypeOK ==
  /\ status \in [CampaignId -> {"none", "ACTIVE", "CLOSED"}]
  /\ capacity \in [CampaignId -> Capacities] /\ top \in [CampaignId -> Capacities]
  /\ granted \in [CampaignId -> Nat]
  /\ active \in CampaignId \cup {None, Empty}
  /\ signup \in [User -> [at : {"new", "find", "fill", "apply", "clear", "done"},
                          campaign : CampaignId \cup {None}]]
  /\ admin \in [Admin -> [at : {"rest", "close", "create", "invalidate"},
                         campaign : CampaignId \cup {None}]]
  /\ requests \in 0..MaxRequests
  /\ admitted \in [User -> CampaignId \cup {None}]
  /\ refused \in [User -> {"no", "full", "closed"}]
  /\ stale \in BOOLEAN /\ crossed \in BOOLEAN /\ misled \subseteq User

\* However many logins and changes of the capacity race, and whatever dies: a campaign
\* admits no more users than its largest capacity.
AdmittedWithinCapacity ==
  \A c \in CampaignId : Cardinality({u \in User : admitted[u] = c}) =< top[c]

\* Two campaigns are active at once only if two administrators created them at once,
\* or opened a closed one again beside the other.
OneActiveUnlessCrossed == crossed \/ Cardinality(Active) =< 1

\* The key names the campaign that is active, unless an administrator is about to
\* delete it, died before that, or was overtaken by a login that filled it.
KeyCurrentUnlessOvertaken == KeyIsCurrent \/ KeyIsLate

\* A user is refused by a campaign with room only if it was closed while the user
\* applied, or the key was late to say so.
RefusedOnlyIfFullOrMisled ==
  \A u \in User : refused[u] = "closed" => u \in misled

\* With the administrators done, the key does not send anybody to a closed campaign,
\* or past an active one, for good.
KeyEventuallyCurrent == []<>KeyIsCurrent

\* Logins and administrators amount to a cache of one key, the campaign that is active.
TheKey == "campaign:active"
ActiveKey == INSTANCE ReadThrough WITH
               Key <- {TheKey}, Absent <- Empty,
               truth <- [k \in {TheKey} |-> IF Active = {} THEN {None} ELSE Active],
               kept <- [k \in {TheKey} |-> active],
               late <- IF KeyIsLate THEN {TheKey} ELSE {}
ImplementsReadThrough == ActiveKey!RSpec

\* Administrators, logins and the cached key agree on the campaign: at most one is
\* active, the key is its own, and a user is refused for no other reason than a full
\* campaign, but for the crossings and the late fills that the parts name.
OneCampaignForAll ==
  /\ TypeOK
  /\ OneActiveUnlessCrossed
  /\ KeyCurrentUnlessOvertaken
  /\ RefusedOnlyIfFullOrMisled
=============================================================================
