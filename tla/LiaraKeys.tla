------------------------------- MODULE LiaraKeys -------------------------------
(***************************************************************************)
(* A user's own key at the AI gateway (liara-key-provisioning.service.ts)  *)
(* and the usage that is fetched for it (liara-usage-sync.processor.ts).   *)
(*                                                                         *)
(* The key is made by the first call that needs one; chat falls back to    *)
(* the shared key when that fails, and a job tries again.  The gateway may *)
(* make a key whose answer never arrives.                                  *)
(***************************************************************************)
EXTENDS Integers, FiniteSets

CONSTANTS
  Attempt,       \* calls of getApiKeyForUser for the user: requests and the retry job
  Sync,          \* usage syncs, by process
  MaxAttempts,   \* bound: calls
  MaxSyncs,      \* bound: syncs
  MaxUse,        \* bound: requests at the gateway
  MaxLiaraDays   \* bound: UTC days

ASSUME LiaraKeysAssumption ==
  /\ IsFiniteSet(Attempt) /\ IsFiniteSet(Sync)
  /\ MaxAttempts \in Nat /\ MaxSyncs \in Nat /\ MaxUse \in Nat /\ MaxLiaraDays \in Nat \ {0}

VARIABLES
  keyRow,      \* the LiaraApiKey row: the key, or 0
  gateway,     \* keys that exist at the gateway, numbered
  issue,       \* LiaraKeyProvisioningIssue.attemptCount, 0 without a row
  attempt,     \* calls
  attempts,    \* calls so far, for the bound and to number the keys
  returned,    \* history: the keys that calls have returned, 0 the shared one
  abandoned,   \* history: keys made whose call failed or lost the race
  unclear,     \* history: an issue was written although there was a key, or was not deleted
  usedOn,      \* requests with the user's keys at the gateway, by UTC day
  utcDay,      \* the day
  snapshotOf,  \* LiaraUsageSnapshot.requestCount, by day
  sync,        \* syncs
  syncs,       \* syncs so far, for the bound
  syncedTogether, \* history: two syncs ran at once
  reported     \* history: the largest count a sync has written, by day

keyVars == <<keyRow, gateway, issue, attempt, attempts, returned, abandoned, unclear>>
syncVars == <<usedOn, utcDay, snapshotOf, sync, syncs, syncedTogether, reported>>
liaraVars == <<keyVars, syncVars>>

UtcDay == 1..(MaxLiaraDays + 1)
NoAttempt == [at |-> "idle", key |-> 0]
NoSync == [at |-> "idle", day |-> 1, count |-> 0]

LiaraKeysInit ==
  /\ keyRow = 0 /\ gateway = {} /\ issue = 0
  /\ attempt = [a \in Attempt |-> NoAttempt] /\ attempts = 0
  /\ returned = {} /\ abandoned = {} /\ unclear = FALSE
  /\ usedOn = [d \in UtcDay |-> 0] /\ utcDay = 1
  /\ snapshotOf = [d \in UtcDay |-> 0]
  /\ sync = [s \in Sync |-> NoSync] /\ syncs = 0 /\ syncedTogether = FALSE
  /\ reported = [d \in UtcDay |-> 0]
-----------------------------------------------------------------------------
(* getApiKeyForUser *)

Provisioning(a) == attempt[a].at # "idle"
Goes(a, at) == attempt' = [attempt EXCEPT ![a].at = at]
Return(a, key) ==
  /\ attempt' = [attempt EXCEPT ![a] = NoAttempt]
  /\ returned' = returned \union {key}

\* A request of the user, or the retry job, which takes users with an issue.
Begin(a, retry) ==
  /\ ~Provisioning(a) /\ attempts < MaxAttempts /\ attempts' = attempts + 1
  /\ retry => issue > 0
  /\ Goes(a, "find")
  /\ UNCHANGED <<keyRow, gateway, issue, returned, abandoned, unclear, syncVars>>

\* The row is found, or not, or cannot be read or decrypted.
Find(a) ==
  /\ attempt[a].at = "find"
  /\ \/ attempt' = [attempt EXCEPT ![a].at = IF keyRow # 0 THEN "clear" ELSE "create", ![a].key = keyRow]
     \/ Goes(a, "record")
  /\ UNCHANGED <<keyRow, gateway, issue, attempts, returned, abandoned, unclear, syncVars>>

\* POST v1/keys: a new key, a refusal, or a key nobody hears of.
CreateAtGateway(a) ==
  /\ attempt[a].at = "create"
  /\ LET key == Cardinality(gateway) + 1
     IN  \/ /\ gateway' = gateway \union {key}
            /\ attempt' = [attempt EXCEPT ![a].at = "save", ![a].key = key]
            /\ UNCHANGED abandoned
         \/ /\ gateway' = gateway \union {key} /\ abandoned' = abandoned \union {key}
            /\ Goes(a, "record")
         \/ Goes(a, "record") /\ UNCHANGED <<gateway, abandoned>>
  /\ UNCHANGED <<keyRow, issue, attempts, returned, unclear, syncVars>>

\* What a call that lost the race for the row answers with: the winner's key.
LoserKey_Own(a) == attempt[a].key
LoserKey(a) == keyRow

SaveKey(a) ==
  /\ attempt[a].at = "save"
  /\ \/ /\ keyRow = 0
        /\ keyRow' = attempt[a].key /\ Goes(a, "clear") /\ UNCHANGED abandoned
     \/ /\ keyRow # 0
        /\ attempt' = [attempt EXCEPT ![a].at = "clear", ![a].key = LoserKey(a)]
        /\ abandoned' = abandoned \union {attempt[a].key} /\ UNCHANGED keyRow
     \/ /\ Goes(a, "record")
        /\ abandoned' = abandoned \union {attempt[a].key} /\ UNCHANGED keyRow
  /\ UNCHANGED <<gateway, issue, attempts, returned, unclear, syncVars>>

Cleared(n) == 0

\* clearIssue swallows its own failure.
ClearIssue(a) ==
  /\ attempt[a].at = "clear"
  /\ \/ issue' = Cleared(issue) /\ UNCHANGED unclear
     \/ UNCHANGED issue /\ unclear' = (unclear \/ issue > 0)
  /\ Return(a, attempt[a].key)
  /\ UNCHANGED <<keyRow, gateway, attempts, abandoned, syncVars>>

\* recordIssue, too; the caller then takes the shared key.
RecordIssue(a) ==
  /\ attempt[a].at = "record"
  /\ issue' \in {issue, issue + 1}
  /\ unclear' = (unclear \/ keyRow # 0)
  /\ Return(a, 0)
  /\ UNCHANGED <<keyRow, gateway, attempts, abandoned, syncVars>>
-----------------------------------------------------------------------------
(* Usage *)

\* A request at the gateway with one of the user's keys: all have the same name.
UseGateway ==
  /\ returned \ {0} # {} /\ usedOn[utcDay] < MaxUse
  /\ usedOn' = [usedOn EXCEPT ![utcDay] = @ + 1]
  /\ UNCHANGED <<utcDay, snapshotOf, sync, syncs, syncedTogether, reported, keyVars>>

UtcMidnight ==
  /\ utcDay =< MaxLiaraDays /\ utcDay' = utcDay + 1
  /\ UNCHANGED <<usedOn, snapshotOf, sync, syncs, syncedTogether, reported, keyVars>>

\* handleSync: the users with a key, and the day until now.
BeginSync(s) ==
  /\ sync[s].at = "idle" /\ syncs < MaxSyncs /\ syncs' = syncs + 1 /\ keyRow # 0
  /\ sync' = [sync EXCEPT ![s] = [at |-> "fetch", day |-> utcDay, count |-> usedOn[utcDay]]]
  /\ syncedTogether' = (syncedTogether \/ \E t \in Sync : sync[t].at # "idle")
  /\ UNCHANGED <<usedOn, utcDay, snapshotOf, reported, keyVars>>

\* fetchUsageLogs, page by page, of the window fixed before: all of it, or an error.
FetchUsage(s) ==
  /\ sync[s].at = "fetch"
  /\ sync' \in {[sync EXCEPT ![s] = NoSync], [sync EXCEPT ![s].at = "write"]}
  /\ UNCHANGED <<usedOn, utcDay, snapshotOf, syncs, syncedTogether, reported, keyVars>>

Snapshot(old, count) == count

WriteUsage(s) ==
  /\ sync[s].at = "write"
  /\ LET d == sync[s].day
     IN  /\ snapshotOf' = [snapshotOf EXCEPT ![d] = Snapshot(@, sync[s].count)]
         /\ reported' = [reported EXCEPT ![d] = IF sync[s].count > @ THEN sync[s].count ELSE @]
  /\ sync' = [sync EXCEPT ![s] = NoSync]
  /\ UNCHANGED <<usedOn, utcDay, syncs, syncedTogether, keyVars>>

LiaraKeysNext ==
  \/ \E a \in Attempt :
       \/ \E retry \in BOOLEAN : Begin(a, retry)
       \/ Find(a) \/ CreateAtGateway(a) \/ SaveKey(a) \/ ClearIssue(a) \/ RecordIssue(a)
  \/ UseGateway \/ UtcMidnight
  \/ \E s \in Sync : BeginSync(s) \/ FetchUsage(s) \/ WriteUsage(s)
-----------------------------------------------------------------------------
(* Every call answers with the key on record or with the shared one, also the call that
   lost the race for the row; whatever else exists at the gateway was abandoned. *)
OneKeyPerUser ==
  /\ returned \subseteq {0, keyRow}
  /\ \A key \in gateway :
       \/ key = keyRow \/ key \in abandoned \/ \E a \in Attempt : attempt[a].key = key

(* An open issue means a user without a key, and so does the retry job's list, once no
   call is under way, unless an issue could not be deleted, or a failure was written of a
   user who had a key: because another call had made it, or it could not be decrypted. *)
IssuesAreOpen ==
  issue > 0 /\ (\A a \in Attempt : ~Provisioning(a)) => keyRow = 0 \/ unclear

(* A snapshot never claims more than the gateway has seen on its day, and never falls back
   behind one that was written, unless two syncs ran at once. *)
SnapshotsHold ==
  \A d \in UtcDay :
    /\ snapshotOf[d] =< usedOn[d]
    /\ syncedTogether \/ snapshotOf[d] >= reported[d]

(* Keys, issues and usage of a user are accounted for: one key on record answers every
   call, an issue is open as long as there is none, and usage only grows in a day. *)
KeysAreKept == OneKeyPerUser /\ IssuesAreOpen /\ SnapshotsHold
=============================================================================
