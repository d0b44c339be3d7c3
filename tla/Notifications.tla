---------------------------- MODULE Notifications ----------------------------
(***************************************************************************)
(* Who has read a notification of the admin panel, and the devices that    *)
(* pushes go to: the administrators' tokens (admin-notifications.service   *)
(* and its fcm.service), and the users' devices with the campaigns sent to *)
(* them (device-tokens.service.ts, push-notifications.service.ts).         *)
(*                                                                         *)
(* A token is one that the push service accepts or not; a send may also    *)
(* fail for a token it accepts.                                            *)
(***************************************************************************)
EXTENDS Integers, FiniteSets

CONSTANTS
  Reader,       \* requests of one administrator that mark notifications as read
  Notice,       \* notifications
  Device,       \* devices, by deviceUuid
  Token,        \* push tokens
  Person,       \* users who log in on the devices
  Sender,       \* sends that may be in progress at once
  MaxRegistered \* bound: registrations and sends

ASSUME NotificationsAssumption ==
  /\ IsFiniteSet(Reader) /\ IsFiniteSet(Notice) /\ IsFiniteSet(Device)
  /\ IsFiniteSet(Token) /\ IsFiniteSet(Person) /\ IsFiniteSet(Sender)
  /\ MaxRegistered \in Nat

NobodyYet == "nobody"
NoToken == "none"

VARIABLES
  readBy,     \* how often the administrator is in readBy of each notification
  reader,     \* markRead: the notification a request has found unread
  atOnce,     \* history: notifications that two requests have found unread
  device,     \* DeviceToken rows: token and user, token NoToken when there is no row
  adminToken, \* AdminDeviceToken rows of the administrators
  sender,     \* sends in progress: to whom, the tokens read, those that failed
  registered, \* registrations and sends so far, for the bound
  current,    \* history: the token each device has registered last
  failed    \* history: when a send to a token last failed

pushVars == <<device, adminToken, sender, registered, current, failed>>
notificationVars == <<readBy, reader, atOnce, pushVars>>

NoRow == [token |-> NoToken, user |-> NobodyYet]
NoSend == [at |-> "idle", to |-> "users", tokens |-> {}, invalid |-> {}]

NotificationsInit ==
  /\ readBy = [n \in Notice |-> 0] /\ reader = [r \in Reader |-> {}] /\ atOnce = {}
  /\ device = [d \in Device |-> NoRow] /\ adminToken = {}
  /\ sender = [s \in Sender |-> NoSend] /\ registered = 0
  /\ current = [d \in Device |-> NoToken] /\ failed = {}
-----------------------------------------------------------------------------
(* Reading: AdminNotificationsService *)

Unread(n) == readBy[n] = 0

ReadNotice(r, n) ==
  /\ reader[r] = {}
  /\ Unread(n)
  /\ reader' = [reader EXCEPT ![r] = {n}]
  /\ atOnce' = IF \E x \in Reader : n \in reader[x] THEN atOnce \union {n} ELSE atOnce
  /\ UNCHANGED <<readBy, pushVars>>

PushReader(r) ==
  /\ reader[r] # {}
  /\ readBy' = [n \in Notice |-> readBy[n] + (IF n \in reader[r] THEN 1 ELSE 0)]
  /\ reader' = [reader EXCEPT ![r] = {}]
  /\ UNCHANGED <<atOnce, pushVars>>

\* One statement, so it finds unread what is unread; a request in the middle of
\* markRead will push once more.
MarkAllRead ==
  /\ \E n \in Notice : Unread(n)
  /\ readBy' = [n \in Notice |-> IF Unread(n) THEN readBy[n] + 1 ELSE readBy[n]]
  /\ atOnce' = atOnce \union {n \in Notice : \E r \in Reader : n \in reader[r]}
  /\ UNCHANGED <<reader, pushVars>>
-----------------------------------------------------------------------------
(* Devices *)

\* DeviceTokensService.register, an upsert by device; the user stays.
Register(d, t) ==
  /\ registered < MaxRegistered /\ registered' = registered + 1
  /\ device' = [device EXCEPT ![d].token = t]
  /\ current' = [current EXCEPT ![d] = t]
  /\ UNCHANGED <<readBy, reader, atOnce, adminToken, sender, failed>>

\* attachToUser, by a login on the device: only a row without a user.
Attach(d, u) ==
  /\ device[d].token # NoToken /\ device[d].user = NobodyYet
  /\ device' = [device EXCEPT ![d].user = u]
  /\ UNCHANGED <<readBy, reader, atOnce, adminToken, sender, registered, current, failed>>

RegisterAdmin(t) ==
  /\ registered < MaxRegistered /\ registered' = registered + 1
  /\ adminToken' = adminToken \union {t}
  /\ UNCHANGED <<readBy, reader, atOnce, device, sender, current, failed>>
-----------------------------------------------------------------------------
(* Sends: sendToAllAdmins, PushNotificationsService.send *)

\* resolveTokens: everybody, those logged in, or those who are not.
Segment == {"ALL", "REGISTERED_ONLY", "ANONYMOUS_ONLY"}
InSegment(d, segment) ==
  /\ device[d].token # NoToken
  /\ segment = "REGISTERED_ONLY" => device[d].user # NobodyYet
  /\ segment = "ANONYMOUS_ONLY" => device[d].user = NobodyYet

StartSend(s, to, tokens) ==
  /\ sender[s].at = "idle" /\ tokens # {}
  /\ registered < MaxRegistered /\ registered' = registered + 1
  /\ sender' = [sender EXCEPT ![s] = [at |-> "send", to |-> to, tokens |-> tokens, invalid |-> {}]]
  /\ UNCHANGED <<readBy, reader, atOnce, device, adminToken, current, failed>>

SendToAdmins(s) == StartSend(s, "admins", adminToken)
SendToUsers(s) ==
  \E segment \in Segment :
    StartSend(s, "users", {device[d].token : d \in {x \in Device : InSegment(x, segment)}})

\* Whatever fails, for whatever reason, counts as invalid.
Send(s, invalid) ==
  /\ sender[s].at = "send"
  /\ invalid \subseteq sender[s].tokens
  /\ sender' = [sender EXCEPT ![s] =
       IF invalid = {} THEN NoSend ELSE [@ EXCEPT !.at = "delete", !.invalid = invalid]]
  /\ failed' = failed \union invalid
  /\ UNCHANGED <<readBy, reader, atOnce, device, adminToken, registered, current>>

\* Rows are deleted by token: a device that has a new one by now keeps its row.
Deleted(x) == x.invalid

DeleteInvalid(s) ==
  /\ sender[s].at = "delete"
  /\ LET gone == Deleted(sender[s])
     IN  IF sender[s].to = "admins"
         THEN adminToken' = adminToken \ gone /\ UNCHANGED device
         ELSE /\ device' = [d \in Device |-> IF device[d].token \in gone THEN NoRow ELSE device[d]]
              /\ UNCHANGED adminToken
  /\ sender' = [sender EXCEPT ![s] = NoSend]
  /\ UNCHANGED <<readBy, reader, atOnce, registered, current, failed>>

SendFails(s) ==
  /\ sender[s].at # "idle"
  /\ sender' = [sender EXCEPT ![s] = NoSend]
  /\ UNCHANGED <<readBy, reader, atOnce, device, adminToken, registered, current, failed>>

NotificationsNext ==
  \/ \E r \in Reader : PushReader(r) \/ \E n \in Notice : ReadNotice(r, n)
  \/ MarkAllRead
  \/ \E d \in Device : (\E t \in Token : Register(d, t)) \/ (\E u \in Person : Attach(d, u))
  \/ \E t \in Token : RegisterAdmin(t)
  \/ \E s \in Sender :
       \/ SendToAdmins(s) \/ SendToUsers(s) \/ DeleteInvalid(s) \/ SendFails(s)
       \/ \E invalid \in SUBSET Token : Send(s, invalid)
-----------------------------------------------------------------------------
(* An administrator is in readBy once, so that the list does not grow with every
   click, unless two requests marked the same notification at the same time. *)
ReadOnce == \A n \in Notice : readBy[n] =< 1 \/ n \in atOnce

(* A device stays reachable: it loses its row only if a send to the token it
   registered last has failed, not by a send to one it had before. *)
ReachableUnlessFailed ==
  \A d \in Device :
    current[d] # NoToken /\ device[d].token = NoToken => current[d] \in failed
=============================================================================
