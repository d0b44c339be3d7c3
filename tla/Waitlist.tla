------------------------------ MODULE Waitlist ------------------------------
(***************************************************************************)
(* The waiting list of a campaign (campaign.service.ts): users whom the    *)
(* campaign refused wait with a low daily limit; administrators grant them *)
(* access, they activate it with the link they are sent, and a nightly job *)
(* reminds those who have not.                                             *)
(*                                                                         *)
(* Entries of different campaigns meet nowhere, so there is one campaign.  *)
(* When a reminder is due is left out: a pass finds it due or not.         *)
(***************************************************************************)
EXTENDS Integers, Sequences

CONSTANTS
  Waiter,        \* users
  Chatting,      \* bound: users who send messages
  Granter,       \* administrators
  ReminderSteps, \* number of reminderSteps of the campaign
  MaxGrants,     \* bound: requests of administrators
  MaxPasses,     \* bound: runs of the reminder job
  NoKey,         \* no such key in Redis
  NoEntry        \* no entry, nobody

ASSUME WaitlistAssumption ==
  /\ Chatting \subseteq Waiter
  /\ ReminderSteps \in Nat /\ MaxGrants \in Nat /\ MaxPasses \in Nat
  /\ NoEntry \notin {"WAITING", "GRANTED", "ACTIVATED"}

VARIABLES
  standing,    \* WaitlistEntry.status, NoEntry while there is no entry
  queue,       \* the entries by createdAt
  limit,       \* waitlist:limit:<user> in Redis
  chat,        \* getWaitingDailyLimit of each user: what a fill under way will store
  links,       \* users who were sent their link
  activation,  \* activateByToken of each user
  granter,     \* grantAccess and grantAccessToPhone of each administrator
  grantsBegun, \* requests begun, for the bound
  job,         \* sendDueReminders
  passes,      \* its runs, for the bound
  lastStep,    \* lastReminderStepSent, -1 for null
  behind,      \* history: users whose limit may be outdated with nobody about to delete it
  preferred,   \* history: users granted by their phone number
  repeated,    \* history: reminders the job died on before it recorded them
  sent         \* history: how often each reminder was sent

limits == <<limit, chat, behind>>
grants == <<granter, grantsBegun, preferred>>
reminders == <<job, passes, lastStep, repeated, sent>>
waitlistVars == <<standing, queue, limits, links, activation, grants, reminders>>

Step == 0..(ReminderSteps - 1)
Sent == (-1)..(ReminderSteps - 1)
Waiting == {u \in Waiter : standing[u] = "WAITING"}

GranterAtRest == [at |-> "rest", list |-> {}, current |-> NoEntry]
JobAtRest == [at |-> "rest", list |-> {}, current |-> NoEntry]

WaitlistInit ==
  /\ standing = [u \in Waiter |-> NoEntry] /\ queue = <<>>
  /\ limit = [u \in Waiter |-> NoKey] /\ chat = [u \in Waiter |-> NoKey]
  /\ links = {} /\ activation = [u \in Waiter |-> "rest"]
  /\ granter = [a \in Granter |-> GranterAtRest] /\ grantsBegun = 0
  /\ job = JobAtRest /\ passes = 0 /\ lastStep = [u \in Waiter |-> -1]
  /\ behind = {} /\ preferred = {} /\ repeated = {}
  /\ sent = [u \in Waiter |-> [k \in Step |-> 0]]
-----------------------------------------------------------------------------
(* getWaitingDailyLimit, for the chat requests of a user *)

LimitOf(u) == IF u \in Waiting THEN "limited" ELSE "unlimited"

\* The user may be chatting before its entry exists, through a second login.
ReadLimit(u) ==
  /\ u \in Chatting
  /\ limit[u] = NoKey
  /\ chat[u] = NoKey
  /\ chat' = [chat EXCEPT ![u] = LimitOf(u)]
  /\ UNCHANGED <<standing, queue, limit, behind, links, activation, grants, reminders>>

FillLimit(u) ==
  /\ chat[u] # NoKey
  /\ limit' = [limit EXCEPT ![u] = chat[u]]
  /\ chat' = [chat EXCEPT ![u] = NoKey]
  /\ UNCHANGED <<standing, queue, behind, links, activation, grants, reminders>>

DeleteLimit_Skipped(u) == UNCHANGED <<limit, behind>>
DeleteLimit(u) ==
  /\ limit' = [limit EXCEPT ![u] = NoKey]
  /\ behind' = IF chat[u] = NoKey THEN behind \ {u} ELSE behind

\* Redis drops the key after two minutes.
LimitExpires_Never(u) == FALSE
LimitExpires(u) == limit[u] # NoKey

ExpireLimit(u) ==
  /\ LimitExpires(u)
  /\ DeleteLimit(u)
  /\ UNCHANGED <<standing, queue, chat, links, activation, grants, reminders>>

\* A new status overtakes a fill that has read the old one.
SetStatus(u, s) ==
  /\ standing' = [standing EXCEPT ![u] = s]
  /\ behind' = IF chat[u] = NoKey THEN behind ELSE behind \cup {u}
-----------------------------------------------------------------------------
(* The user *)

\* applyToNewUser found the campaign full: the entry is created, no key deleted.
Wait(u) ==
  /\ standing[u] = NoEntry
  /\ standing' = [standing EXCEPT ![u] = "WAITING"]
  /\ queue' = Append(queue, u)
  /\ behind' = IF limit[u] = NoKey /\ chat[u] = NoKey THEN behind ELSE behind \cup {u}
  /\ UNCHANGED <<limit, chat, links, activation, grants, reminders>>

ReadToken(u) ==
  /\ u \in links
  /\ activation[u] = "rest"
  /\ standing[u] = "GRANTED"
  /\ activation' = [activation EXCEPT ![u] = "activate"]
  /\ UNCHANGED <<standing, queue, limits, links, grants, reminders>>

Activate(u) ==
  /\ activation[u] = "activate"
  /\ SetStatus(u, "ACTIVATED")
  /\ activation' = [activation EXCEPT ![u] = "clear"]
  /\ UNCHANGED <<queue, limit, chat, links, grants, reminders>>

ClearActivated(u) ==
  /\ activation[u] = "clear"
  /\ DeleteLimit(u)
  /\ activation' = [activation EXCEPT ![u] = "rest"]
  /\ UNCHANGED <<standing, queue, chat, links, grants, reminders>>

\* Neither GRANTED nor ACTIVATED is limited: nothing is outdated if the DEL is missing.
ActivationDies(u) ==
  /\ activation[u] # "rest"
  /\ activation' = [activation EXCEPT ![u] = "rest"]
  /\ UNCHANGED <<standing, queue, limits, links, grants, reminders>>
-----------------------------------------------------------------------------
(* Grants *)

BeginGrant(a, list) ==
  /\ granter[a].at = "rest"
  /\ grantsBegun < MaxGrants
  /\ grantsBegun' = grantsBegun + 1
  /\ granter' = [granter EXCEPT ![a] = [at |-> "grant", list |-> list, current |-> NoEntry]]

\* The places of those who wait; a place further back has a later createdAt.
Places == 1..Len(queue)
InOrder == {i \in Places : queue[i] \in Waiting}

\* grantAccess for the oldest entries, up to one of them or all.
ListWaiting(a, last) ==
  /\ last \in InOrder
  /\ BeginGrant(a, {i \in InOrder : i =< last})
  /\ UNCHANGED <<standing, queue, limits, links, activation, preferred, reminders>>

\* grantAccessToPhone, whatever the place in the queue.
FindPhone(a, i) ==
  /\ i \in InOrder
  /\ BeginGrant(a, {i})
  /\ preferred' = preferred \cup {queue[i]}
  /\ UNCHANGED <<standing, queue, limits, links, activation, reminders>>

\* grantEntries writes GRANTED whatever the entry has become since it was listed, and
\* leaves the reminders where they were.
Granted_Anew(u) == lastStep' = [lastStep EXCEPT ![u] = -1]
Granted(u) == UNCHANGED lastStep

Grant(a, i) ==
  /\ granter[a].at = "grant"
  /\ i \in granter[a].list /\ \A j \in granter[a].list : i =< j
  /\ SetStatus(queue[i], "GRANTED")
  /\ Granted(queue[i])
  /\ granter' = [granter EXCEPT ![a] = [at |-> "clear", list |-> granter[a].list \ {i}, current |-> queue[i]]]
  /\ UNCHANGED <<queue, limit, chat, links, activation, grantsBegun, preferred, job, passes,
                 repeated, sent>>

\* DEL of the limit; the link is sent without waiting for it.
ClearGranted(a) ==
  /\ granter[a].at = "clear"
  /\ DeleteLimit(granter[a].current)
  /\ links' = links \cup {granter[a].current}
  /\ granter' = [granter EXCEPT ![a] = IF granter[a].list = {} THEN GranterAtRest
                   ELSE [at |-> "grant", list |-> granter[a].list, current |-> NoEntry]]
  /\ UNCHANGED <<standing, queue, chat, activation, grantsBegun, preferred, reminders>>

GranterDies(a) ==
  /\ granter[a].at # "rest"
  /\ behind' = IF granter[a].at = "clear" THEN behind \cup {granter[a].current} ELSE behind
  /\ granter' = [granter EXCEPT ![a] = GranterAtRest]
  /\ UNCHANGED <<standing, queue, limit, chat, links, activation, grantsBegun, preferred, reminders>>
-----------------------------------------------------------------------------
(* The reminder job; Bull runs one at a time *)

StartReminders ==
  LET list == {<<u, lastStep[u]>> : u \in {v \in Waiter : standing[v] = "GRANTED"}} IN
  /\ job.at = "rest"
  /\ passes < MaxPasses
  /\ list # {}
  /\ passes' = passes + 1
  /\ job' = [at |-> "next", list |-> list, current |-> NoEntry]
  /\ UNCHANGED <<standing, queue, limits, links, activation, grants, lastStep, repeated, sent>>

\* The step after the last one that the list says was sent.
NextStep(x) == x[2] + 1

Send(x) ==
  /\ job.at = "next"
  /\ x \in job.list
  /\ NextStep(x) \in Step
  /\ sent' = [sent EXCEPT ![x[1]][NextStep(x)] = @ + 1]
  /\ job' = [at |-> "sent", list |-> job.list \ {x}, current |-> x]
  /\ UNCHANGED <<standing, queue, limits, links, activation, grants, passes, lastStep, repeated>>

Record ==
  /\ job.at = "sent"
  /\ lastStep' = [lastStep EXCEPT ![job.current[1]] = NextStep(job.current)]
  /\ job' = [job EXCEPT !.at = "next", !.current = NoEntry]
  /\ UNCHANGED <<standing, queue, limits, links, activation, grants, passes, repeated, sent>>

\* Nothing else is due.
EndReminders ==
  /\ job.at = "next"
  /\ job' = JobAtRest
  /\ UNCHANGED <<standing, queue, limits, links, activation, grants, passes, lastStep, repeated,
                 sent>>

\* An error or a restart loses the list, and what was sent last is sent again.
JobDies ==
  /\ job.at = "sent"
  /\ job' = JobAtRest
  /\ repeated' = repeated \cup {<<job.current[1], NextStep(job.current)>>}
  /\ UNCHANGED <<standing, queue, limits, links, activation, grants, passes, lastStep, sent>>
-----------------------------------------------------------------------------
OfWaiter(u) ==
  \/ ReadLimit(u) \/ FillLimit(u) \/ ExpireLimit(u) \/ Wait(u)
  \/ ReadToken(u) \/ Activate(u) \/ ClearActivated(u) \/ ActivationDies(u)

OfGranter(a) ==
  \/ \E i \in Places : ListWaiting(a, i) \/ FindPhone(a, i) \/ Grant(a, i)
  \/ ClearGranted(a) \/ GranterDies(a)

Reminding ==
  \/ StartReminders \/ (\E u \in Waiter, k \in Sent : Send(<<u, k>>))
  \/ Record \/ EndReminders \/ JobDies

WaitlistNext == Reminding \/ (\E u \in Waiter : OfWaiter(u)) \/ (\E a \in Granter : OfGranter(a))

WaitlistSpec == WaitlistInit /\ [][WaitlistNext]_waitlistVars

\* Redis drops a key whose time to live is over.
WaitlistFairSpec == WaitlistSpec /\ \A u \in Waiter : WF_waitlistVars(ExpireLimit(u))
-----------------------------------------------------------------------------
(* Properties *)

\* The types of the variables.
WaitlistTypeOK ==
  /\ standing \in [Waiter -> {NoEntry, "WAITING", "GRANTED", "ACTIVATED"}]
  /\ queue \in Seq(Waiter)
  /\ limit \in [Waiter -> {NoKey, "limited", "unlimited"}]
  /\ chat \in [Waiter -> {NoKey, "limited", "unlimited"}]
  /\ links \subseteq Waiter /\ preferred \subseteq Waiter /\ behind \subseteq Waiter
  /\ activation \in [Waiter -> {"rest", "activate", "clear"}]
  /\ granter \in [Granter -> [at : {"rest", "grant", "clear"}, list : SUBSET Places,
                             current : Waiter \cup {NoEntry}]]
  /\ grantsBegun \in 0..MaxGrants /\ passes \in 0..MaxPasses
  /\ job \in [at : {"rest", "next", "sent"}, list : SUBSET (Waiter \X Sent),
              current : (Waiter \X Sent) \cup {NoEntry}]
  /\ lastStep \in [Waiter -> Sent]
  /\ repeated \subseteq (Waiter \X Step)
  /\ sent \in [Waiter -> [Step -> Nat]]

\* Nobody is granted access before those who have waited longer, however many
\* administrators grant at once or die half-way through their list; only a phone
\* number passes the queue.
OldestFirst ==
  \A i, j \in Places :
    i < j /\ standing[queue[i]] = "WAITING" => standing[queue[j]] = "WAITING" \/ queue[j] \in preferred

\* The limit a chat request meets is the one of the user's entry, except between a
\* change and its DEL, and when a fill was overtaken, an administrator died, or the
\* user chatted before its entry was created.
LimitCurrentUnlessOvertaken ==
  \A u \in Waiter :
    \/ u \in behind
    \/ \E a \in Granter : granter[a].at = "clear" /\ granter[a].current = u
    \/ limit[u] \in {NoKey, LimitOf(u)}

\* A reminder is repeated only if the job died between sending and recording it, and
\* none is skipped: neither a second grant nor an activation on the way upsets the order.
RemindersInOrder ==
  \A u \in Waiter, k \in Step :
    /\ sent[u][k] > 1 => <<u, k>> \in repeated
    /\ k > 0 /\ sent[u][k] > 0 => sent[u][k - 1] > 0

\* Whatever was overtaken or died: whoever was granted access is rid of the waiting
\* list's limit in the end, for good.
GrantedIsUnlimited ==
  <>[](\A u \in Waiter : standing[u] \in {"GRANTED", "ACTIVATED"} => limit[u] # "limited")

\* Chat requests, entries and grants amount to a cache of everybody's limit.
LimitLate == behind \cup {u \in Waiter : \E a \in Granter : granter[a].at = "clear" /\ granter[a].current = u}
LimitKeys == INSTANCE ReadThrough WITH
               Key <- Waiter, Absent <- NoKey,
               truth <- [u \in Waiter |-> {LimitOf(u)}],
               kept <- limit,
               late <- LimitLate
LimitsImplementReadThrough == LimitKeys!RSpec

\* The list is worked off as promised: in its order, with the limit that belongs to the
\* place, and with reminders one after the other.
QueueIsFair ==
  /\ WaitlistTypeOK
  /\ OldestFirst
  /\ LimitCurrentUnlessOvertaken
  /\ RemindersInOrder
=============================================================================
