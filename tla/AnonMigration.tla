---------------------------- MODULE AnonMigration ----------------------------
(***************************************************************************)
(* What a login does with the conversations a browser had before           *)
(* (anon-migration.service.ts): it copies them, one transaction each, to   *)
(* the user, marks the browser as migrated, and adds the copied messages   *)
(* to the user's trial count.  Two logins may do so at once, a login may   *)
(* die in between (auth.service.ts swallows its error), and the visitor    *)
(* may go on writing.                                                      *)
(***************************************************************************)
EXTENDS Integers, FiniteSets, FiniteSetsExt

CONSTANTS
  Trial,     \* the anonymous conversations of the browser
  LoginOf,   \* logins on the browser, each once
  MaxSaid    \* bound: messages of the visitor in a conversation

ASSUME AnonMigrationAssumption ==
  /\ IsFiniteSet(Trial) /\ IsFiniteSet(LoginOf) /\ MaxSaid \in Nat

VARIABLES
  said,        \* the visitor's messages in each conversation
  opened,      \* conversations that exist
  copies,      \* Conversation rows made: of which, by whom, up to which message
  movedTo,     \* AnonymousSession.migratedToUserId: the login it belongs to, or {}
  login,       \* logins
  trialCount,  \* messages added to User.lifetimeMessageCount
  signedUp,    \* the event SIGNUP_COMPLETED
  dropped,     \* history: messages copied and never counted
  late,        \* history: messages written after a login had read the conversation
  sideBySide   \* history: two logins migrated the browser at once

migrationVars == <<said, opened, copies, movedTo, login, trialCount, signedUp, dropped, late,
                   sideBySide>>

LoginIdle == [at |-> "idle", todo |-> {}, upTo |-> [c \in Trial |-> 0], done |-> 0]

AnonMigrationInit ==
  /\ said = [c \in Trial |-> 0] /\ opened = {} /\ copies = {} /\ movedTo = {}
  /\ login = [l \in LoginOf |-> LoginIdle]
  /\ trialCount = 0 /\ signedUp = FALSE /\ dropped = 0
  /\ late = [c \in Trial |-> 0] /\ sideBySide = FALSE

Migrating(l) == login[l].at \notin {"idle", "done"}
Read(c) == \E l \in LoginOf : login[l].at # "idle" \/ \E x \in copies : x.of = c

OpenTrial(c) ==
  /\ c \notin opened
  /\ opened' = opened \union {c}
  /\ UNCHANGED <<said, copies, movedTo, login, trialCount, signedUp, dropped, late, sideBySide>>

\* streamChat: nothing in it asks whether the browser has been migrated.
Say(c) ==
  /\ c \in opened /\ said[c] < MaxSaid
  /\ said' = [said EXCEPT ![c] = @ + 1]
  /\ late' = [late EXCEPT ![c] = IF Read(c) THEN @ + 1 ELSE @]
  /\ UNCHANGED <<opened, copies, movedTo, login, trialCount, signedUp, dropped, sideBySide>>

Unmigrated(c) == \A x \in copies : x.of # c

\* The session with its conversations and their messages, in one read.
ReadTrial(l) ==
  /\ login[l].at = "idle"
  /\ login' = [login EXCEPT ![l] =
       IF movedTo # {} THEN [@ EXCEPT !.at = "done"]
       ELSE [@ EXCEPT !.at = "copy", !.todo = {c \in opened : Unmigrated(c)}, !.upTo = said]]
  /\ sideBySide' = (sideBySide \/ (movedTo = {} /\ \E x \in LoginOf : Migrating(x)))
  /\ UNCHANGED <<said, opened, copies, movedTo, trialCount, signedUp, dropped, late>>

Tally(done, messages) == done + messages

CopyTrial(l, c) ==
  /\ login[l].at = "copy" /\ c \in login[l].todo
  /\ copies' = copies \union {[of |-> c, by |-> l, upTo |-> login[l].upTo[c]]}
  /\ login' = [login EXCEPT ![l].todo = @ \ {c}, ![l].done = Tally(@, login[l].upTo[c])]
  /\ UNCHANGED <<said, opened, movedTo, trialCount, signedUp, dropped, late, sideBySide>>

AllCopied_AnyTime(l) == TRUE
AllCopied(l) == login[l].todo = {}

MarkMigrated(l) ==
  /\ login[l].at = "copy" /\ AllCopied(l)
  /\ movedTo' = {l}
  /\ login' = [login EXCEPT ![l].at = IF login[l].done > 0 THEN "add" ELSE "emit"]
  /\ UNCHANGED <<said, opened, copies, trialCount, signedUp, dropped, late, sideBySide>>

\* The increment's failure is logged and forgotten.
AddToTrialCount(l) ==
  /\ login[l].at = "add"
  /\ \/ trialCount' = trialCount + login[l].done /\ UNCHANGED dropped
     \/ dropped' = dropped + login[l].done /\ UNCHANGED trialCount
  /\ login' = [login EXCEPT ![l].at = "emit", ![l].done = 0]
  /\ UNCHANGED <<said, opened, copies, movedTo, signedUp, late, sideBySide>>

EmitSignup(l) ==
  /\ login[l].at = "emit"
  /\ signedUp' \in {TRUE, signedUp}
  /\ login' = [login EXCEPT ![l].at = "done"]
  /\ UNCHANGED <<said, opened, copies, movedTo, trialCount, dropped, late, sideBySide>>

MigrationDies(l) ==
  /\ Migrating(l)
  /\ login' = [login EXCEPT ![l].at = "done", ![l].done = 0]
  /\ dropped' = dropped + login[l].done
  /\ UNCHANGED <<said, opened, copies, movedTo, trialCount, signedUp, late, sideBySide>>

AnonMigrationNext ==
  \/ \E c \in Trial : OpenTrial(c) \/ Say(c)
  \/ \E l \in LoginOf :
       \/ ReadTrial(l) \/ MarkMigrated(l) \/ AddToTrialCount(l) \/ EmitSignup(l)
       \/ MigrationDies(l) \/ \E c \in Trial : CopyTrial(l, c)
-----------------------------------------------------------------------------
(* A conversation is copied once, even if a login died half way and the next one went
   on, unless two logins migrated the browser at the same time. *)
CopiedOnce ==
  \A x, y \in copies : x.of = y.of => (x = y \/ sideBySide)

(* The trial does not start anew with the signup: once no login is under way, every
   copied message is in the user's count, but for those whose increment failed and those
   of a login that died before it. *)
TrialCountIsKept ==
  (\A l \in LoginOf : ~Migrating(l)) =>
    trialCount + dropped = MapThenSumSet(LAMBDA x : x.upTo, copies)

(* What a browser marked as migrated leaves behind was written after a login had read
   its conversations. *)
NothingLeftBehind ==
  movedTo # {} => \A c \in opened :
    \/ late[c] > 0
    \/ \E x \in copies : x.of = c /\ x.upTo = said[c]
    \/ said[c] = 0

(* What was said before the login comes along, once, and counts for the trial, but for
   the overlapping and dying logins that the parts name. *)
MigrationLosesNothing == CopiedOnce /\ TrialCountIsKept /\ NothingLeftBehind
=============================================================================
