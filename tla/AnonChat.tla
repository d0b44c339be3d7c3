------------------------------- MODULE AnonChat -------------------------------
(***************************************************************************)
(* The trial chat of visitors who have not signed up                       *)
(* (anon-chat.service.ts): a number of free messages for an address, then  *)
(* a number a day, and the events the funnel is counted from.              *)
(*                                                                         *)
(* The limits are the address's (AnonymousIdentity, by IP); conversations  *)
(* and events are a browser's (AnonymousSession).  The module has one      *)
(* address, its browsers, and one conversation in each of them.            *)
(***************************************************************************)
EXTENDS Integers, Sequences, FiniteSets

CONSTANTS
  Browser,      \* sessions of the address
  AnonStream,   \* requests to streamChat that may run at once
  FreeLimit,    \* freeMessageLimit
  AnonPerDay,   \* dailyMessageLimitAfterFree
  MaxAnon,      \* bound: requests
  MaxAnonDays   \* bound: days

ASSUME AnonChatAssumption ==
  /\ IsFiniteSet(Browser) /\ IsFiniteSet(AnonStream) /\ AnonStream # {}
  /\ FreeLimit \in Nat /\ AnonPerDay \in Nat \ {0}
  /\ MaxAnon \in Nat /\ MaxAnonDays \in Nat

VARIABLES
  lifetimeOf,   \* AnonymousIdentity.lifetimeMessageCount
  dailyOf,      \* anonDailyKey, by day
  anonToday,    \* the day
  transcript,   \* the messages of each browser's conversation, by role
  event,        \* AnonymousFunnelEvent rows: browser and type, unique
  emitting,     \* events on their way, which no request waits for
  anonStream,   \* requests
  anonAsked,    \* requests so far, for the bound
  anonSaved,    \* history: answers by kind: "free", or the day they were limited on
  uncounted,    \* history: kinds of answers that were never counted, with their number
  lostEvent,    \* history: events that could not be written
  turnedAway    \* history: a request was refused with HARD_BLOCKED

anonVars == <<lifetimeOf, dailyOf, anonToday, transcript, event, emitting, anonStream,
              anonAsked, anonSaved, uncounted, lostEvent, turnedAway>>

AnonDay == 1..(MaxAnonDays + 1)
Kind == {0} \union AnonDay    \* 0 is "free"
AnonIdle == [at |-> "idle", browser |-> {}, pastFree |-> FALSE, day |-> 1,
             first |-> FALSE, owes |-> {}]

AnonChatInit ==
  /\ lifetimeOf = 0 /\ dailyOf = [d \in AnonDay |-> 0] /\ anonToday = 1
  /\ transcript = [b \in Browser |-> <<>>]
  /\ event = {} /\ emitting = {}
  /\ anonStream = [r \in AnonStream |-> AnonIdle] /\ anonAsked = 0
  /\ anonSaved = [k \in Kind |-> 0] /\ uncounted = [k \in Kind |-> 0]
  /\ lostEvent = {} /\ turnedAway = FALSE

Mine(r) == CHOOSE b \in Browser : anonStream[r].browser = {b}
KindOf(r) == IF anonStream[r].pastFree THEN anonStream[r].day ELSE 0
GoTo(r, at) == anonStream' = [anonStream EXCEPT ![r].at = at]
Emit(es) == emitting' = emitting \union es
-----------------------------------------------------------------------------
\* resolveContext reads the address and the browser before the request is handled.
ResolveContext(r, b) ==
  /\ anonStream[r].at = "idle"
  /\ anonAsked < MaxAnon /\ anonAsked' = anonAsked + 1
  /\ anonStream' = [anonStream EXCEPT ![r] =
       [AnonIdle EXCEPT !.at = "check", !.browser = {b}, !.pastFree = lifetimeOf >= FreeLimit]]
  /\ UNCHANGED <<lifetimeOf, dailyOf, anonToday, transcript, event, emitting, anonSaved,
                 uncounted, lostEvent, turnedAway>>

Blocked(count) == count >= AnonPerDay

EntersLimitedZone(count) == count = 0

\* The stage of the address, by the count of the day that begins to run here.
CheckLimit(r) ==
  /\ anonStream[r].at = "check"
  /\ LET count == dailyOf[anonToday]
         past == anonStream[r].pastFree
     IN  /\ anonStream' = [anonStream EXCEPT ![r] =
              IF past /\ Blocked(count) THEN AnonIdle
              ELSE [@ EXCEPT !.at = "count", !.day = anonToday]]
         /\ turnedAway' = (turnedAway \/ (past /\ Blocked(count)))
         /\ Emit(IF ~past THEN {}
                 ELSE IF Blocked(count) THEN {<<Mine(r), "HARD_BLOCKED">>}
                 ELSE IF EntersLimitedZone(count) THEN {<<Mine(r), "ENTERED_LIMITED_ZONE">>}
                 ELSE {})
  /\ UNCHANGED <<lifetimeOf, dailyOf, anonToday, transcript, event, anonAsked, anonSaved,
                 uncounted, lostEvent>>

\* Anonymous chat is off, the conversation is another's, or the message is too long.
RefuseAnon(r) ==
  /\ anonStream[r].at \in {"check", "count"}
  /\ anonStream' = [anonStream EXCEPT ![r] = AnonIdle]
  /\ UNCHANGED <<lifetimeOf, dailyOf, anonToday, transcript, event, emitting, anonAsked,
                 anonSaved, uncounted, lostEvent, turnedAway>>

CountMessages(r) ==
  /\ anonStream[r].at = "count"
  /\ anonStream' = [anonStream EXCEPT ![r].at = "ask", ![r].first = transcript[Mine(r)] = <<>>]
  /\ UNCHANGED <<lifetimeOf, dailyOf, anonToday, transcript, event, emitting, anonAsked,
                 anonSaved, uncounted, lostEvent, turnedAway>>

SaysFirst(r) == anonStream[r].first

SaveQuestion(r) ==
  /\ anonStream[r].at = "ask"
  /\ transcript' = [transcript EXCEPT ![Mine(r)] = Append(@, "USER")]
  /\ Emit(IF SaysFirst(r) THEN {<<Mine(r), "FIRST_MESSAGE_SENT">>} ELSE {})
  /\ GoTo(r, "answer")
  /\ UNCHANGED <<lifetimeOf, dailyOf, anonToday, event, anonAsked, anonSaved, uncounted,
                 lostEvent, turnedAway>>

\* What is left to count after an answer.
Owed_OnlyLifetime(r) == {"lifetime"}
Owed(r) == {"lifetime"} \union (IF anonStream[r].pastFree THEN {"daily"} ELSE {})

SaveAnonAnswer(r) ==
  /\ anonStream[r].at = "answer"
  /\ transcript' = [transcript EXCEPT ![Mine(r)] = Append(@, "ASSISTANT")]
  /\ anonSaved' = [anonSaved EXCEPT ![KindOf(r)] = @ + 1]
  /\ anonStream' = [anonStream EXCEPT ![r].at = "record", ![r].owes = Owed(r)]
  /\ UNCHANGED <<lifetimeOf, dailyOf, anonToday, event, emitting, anonAsked, uncounted,
                 lostEvent, turnedAway>>

\* The model, or the row of its answer, fails: nothing is counted.
AnswerFails(r) ==
  /\ anonStream[r].at = "answer"
  /\ anonStream' = [anonStream EXCEPT ![r] = AnonIdle]
  /\ UNCHANGED <<lifetimeOf, dailyOf, anonToday, transcript, event, emitting, anonAsked,
                 anonSaved, uncounted, lostEvent, turnedAway>>

Paid(r, what) ==
  LET owes == anonStream[r].owes \ {what}
  IN  anonStream' = [anonStream EXCEPT ![r] = IF owes = {} THEN AnonIdle ELSE [@ EXCEPT !.owes = owes]]

\* Promise.all: both updates are sent, and either may fail alone.
RecordLifetime(r) ==
  /\ anonStream[r].at = "record" /\ "lifetime" \in anonStream[r].owes
  /\ lifetimeOf' = lifetimeOf + 1
  /\ Paid(r, "lifetime")
  /\ UNCHANGED <<dailyOf, anonToday, transcript, event, emitting, anonAsked, anonSaved,
                 uncounted, lostEvent, turnedAway>>

\* incrementDailyCounter, on the key of the day the limit was checked
RecordDaily(r) ==
  /\ anonStream[r].at = "record" /\ "daily" \in anonStream[r].owes
  /\ dailyOf' = [dailyOf EXCEPT ![anonStream[r].day] = @ + 1]
  /\ Paid(r, "daily")
  /\ UNCHANGED <<lifetimeOf, anonToday, transcript, event, emitting, anonAsked, anonSaved,
                 uncounted, lostEvent, turnedAway>>

RecordFails(r, what) ==
  /\ anonStream[r].at = "record" /\ what \in anonStream[r].owes
  /\ uncounted' = [uncounted EXCEPT ![IF what = "daily" THEN anonStream[r].day ELSE 0] = @ + 1]
  /\ Paid(r, what)
  /\ UNCHANGED <<lifetimeOf, dailyOf, anonToday, transcript, event, emitting, anonAsked,
                 anonSaved, lostEvent, turnedAway>>

\* AnonFunnelEventService.emit: the unique constraint drops what is there already.
WriteEvent(e) ==
  /\ e \in emitting
  /\ emitting' = emitting \ {e}
  /\ \/ event' = event \union {e} /\ UNCHANGED lostEvent
     \/ lostEvent' = lostEvent \union {e} /\ UNCHANGED event
  /\ UNCHANGED <<lifetimeOf, dailyOf, anonToday, transcript, anonStream, anonAsked, anonSaved,
                 uncounted, turnedAway>>

AnonMidnight ==
  /\ anonToday =< MaxAnonDays /\ anonToday' = anonToday + 1
  /\ UNCHANGED <<lifetimeOf, dailyOf, transcript, event, emitting, anonStream, anonAsked,
                 anonSaved, uncounted, lostEvent, turnedAway>>

AnonChatNext ==
  \/ \E r \in AnonStream :
       \/ \E b \in Browser : ResolveContext(r, b)
       \/ CheckLimit(r) \/ RefuseAnon(r) \/ CountMessages(r) \/ SaveQuestion(r)
       \/ SaveAnonAnswer(r) \/ AnswerFails(r) \/ RecordLifetime(r) \/ RecordDaily(r)
       \/ \E what \in {"lifetime", "daily"} : RecordFails(r, what)
  \/ \E e \in emitting : WriteEvent(e)
  \/ AnonMidnight
-----------------------------------------------------------------------------
AnonStage == {"normal", "limited", "blocked"}

\* getStatus: what the banner of the page says.
Stage ==
  IF lifetimeOf < FreeLimit THEN "normal"
  ELSE IF Blocked(dailyOf[anonToday]) THEN "blocked" ELSE "limited"
RemainingFree == IF lifetimeOf < FreeLimit THEN FreeLimit - lifetimeOf ELSE 0
RemainingToday == IF Blocked(dailyOf[anonToday]) THEN 0 ELSE AnonPerDay - dailyOf[anonToday]

(* Free answers stay within the limit of the address and limited answers within the
   limit of their day, but for the requests that were checked together and for answers
   whose count could not be written. *)
AnonLimitsRespected ==
  /\ anonSaved[0] =< FreeLimit + Cardinality(AnonStream) - 1 + uncounted[0]
  /\ \A d \in AnonDay :
       anonSaved[d] =< AnonPerDay + Cardinality(AnonStream) - 1 + uncounted[d]

(* The funnel misses no stage: an address that was turned away was seen entering the
   limited zone, by one of its browsers, and a browser that said something has its first
   message, unless the event could not be written. *)
FunnelKeepsUp ==
  LET seen == event \union emitting \union lostEvent
  IN  /\ turnedAway => \E b \in Browser : <<b, "ENTERED_LIMITED_ZONE">> \in seen
      /\ \A b \in Browser : transcript[b] # <<>> => <<b, "FIRST_MESSAGE_SENT">> \in seen

(* What the banner promises is there: once nobody is waiting for an answer, it offers no
   more messages than the limits leave, but for answers whose count could not be written. *)
BannerIsHonest ==
  (\A r \in AnonStream : anonStream[r].at = "idle") =>
    /\ Stage \in AnonStage
    /\ (Stage = "normal") = (RemainingFree > 0)
    /\ Stage = "normal" => RemainingFree =< FreeLimit - anonSaved[0] + uncounted[0]
    /\ Stage = "limited" => RemainingToday =< AnonPerDay - anonSaved[anonToday] + uncounted[anonToday]

(* What the visitor's banner and the funnel say of an address follows the counts they
   are computed from. *)
VisitorsAreTold == FunnelKeepsUp /\ BannerIsHonest
=============================================================================
