----------------------------- MODULE AdminAlerts -----------------------------
(***************************************************************************)
(* Alerts for administrators: the per-minute counters of server errors and *)
(* of calls to Liara (live-stats.service.ts), the job that compares their  *)
(* last minutes with two thresholds and raises an alert with a cooldown    *)
(* (admin-alerts.processor.ts), and the notification it writes             *)
(* (admin-notifications.service.ts).                                       *)
(*                                                                         *)
(* A call is counted by a pipeline, whose commands other clients come      *)
(* between. Each process runs the job once at a time.                      *)
(***************************************************************************)
EXTENDS Integers, FiniteSets, FiniteSetsExt, Functions

CONSTANTS
  Caller,         \* calls to Liara being counted at once
  Checker,        \* processes that run the job
  AlertWindow,    \* WINDOW_MINUTES
  ErrorThreshold, \* SYSTEM_ERROR_THRESHOLD
  MinSample,      \* LIARA_MIN_SAMPLE_SIZE
  Cooldown,       \* ALERT_COOLDOWN_SECONDS, in minutes
  MaxEvents,      \* bound: errors and calls
  MaxMinutes      \* bound: the clock

ASSUME AdminAlertsAssumption ==
  /\ IsFiniteSet(Caller) /\ IsFiniteSet(Checker)
  /\ AlertWindow \in Nat \ {0} /\ Cooldown \in Nat \ {0}
  /\ ErrorThreshold \in Nat /\ MinSample \in Nat
  /\ MaxEvents \in Nat /\ MaxMinutes \in Nat

VARIABLES
  minute,   \* the clock
  errors,   \* sys:err:<minute>
  total,    \* liara:stats:<minute>, field total
  fail,     \* liara:stats:<minute>, field fail
  caller,   \* calls being counted: the minute and the result, or none
  events,   \* errors and calls so far, for the bound
  checker,  \* where each process is with each alert, and the minute it took the cooldown
  cooldown, \* admin-alert:cooldown:<alert>: the minute it was set in, -1 when absent
  alerts,   \* AdminNotification rows: how many have their cooldown from each minute
  lost      \* history: alerts whose notification failed

alertVars == <<minute, errors, total, fail, caller, events, checker, cooldown, alerts, lost>>

Alert == {"system-error", "liara-error"}
Minute == 0..MaxMinutes
NoCall == [minute |-> -1, ok |-> TRUE]

AdminAlertsInit ==
  /\ minute = 0
  /\ errors = [m \in Minute |-> 0]
  /\ total = [m \in Minute |-> 0] /\ fail = [m \in Minute |-> 0]
  /\ caller = [c \in Caller |-> NoCall] /\ events = 0
  /\ checker = [p \in Checker |-> [a \in Alert |-> [at |-> "idle", since |-> -1]]]
  /\ cooldown = [a \in Alert |-> -1]
  /\ alerts = [a \in Alert |-> [m \in Minute |-> 0]]
  /\ lost = {}

LastMinutes == Minute \intersect ((minute - AlertWindow + 1)..minute)
Recent(counts) == FoldFunctionOnSet(+, 0, counts, LastMinutes)
-----------------------------------------------------------------------------
(* Counters *)

\* recordServerError, from the filter that answers with a 5xx.
ServerError ==
  /\ events < MaxEvents /\ events' = events + 1
  /\ errors' = [errors EXCEPT ![minute] = @ + 1]
  /\ UNCHANGED <<minute, total, fail, caller, checker, cooldown, alerts, lost>>

\* recordLiaraCall: the total first, then the result.
FirstField == "total"
CountField(f, m, ok) ==
  /\ total' = IF f = "total" THEN [total EXCEPT ![m] = @ + 1] ELSE total
  /\ fail' = IF f = "result" /\ ~ok THEN [fail EXCEPT ![m] = @ + 1] ELSE fail

CallEnds(c, ok) ==
  /\ caller[c] = NoCall
  /\ events < MaxEvents /\ events' = events + 1
  /\ CountField(FirstField, minute, ok)
  /\ caller' = [caller EXCEPT ![c] = [minute |-> minute, ok |-> ok]]
  /\ UNCHANGED <<minute, errors, checker, cooldown, alerts, lost>>

CountResult(c) ==
  /\ caller[c] # NoCall
  /\ CountField(IF FirstField = "total" THEN "result" ELSE "total", caller[c].minute, caller[c].ok)
  /\ caller' = [caller EXCEPT ![c] = NoCall]
  /\ UNCHANGED <<minute, errors, events, checker, cooldown, alerts, lost>>
-----------------------------------------------------------------------------
(* The job *)

\* More than 30 % of the calls failed, of enough calls.
FailureRateHigh == Recent(total) >= MinSample /\ 10 * Recent(fail) > 3 * Recent(total)
Exceeds(a) ==
  IF a = "system-error" THEN Recent(errors) > ErrorThreshold ELSE FailureRateHigh

To(p, a, at, since) == checker' = [checker EXCEPT ![p][a] = [at |-> at, since |-> since]]

CheckAlert(p, a) ==
  /\ checker[p][a].at = "idle"
  /\ Exceeds(a)
  /\ To(p, a, "acquire", -1)
  /\ UNCHANGED <<minute, errors, total, fail, caller, events, cooldown, alerts, lost>>

\* SET NX EX: only the first one in a cooldown goes on.
Free_Always(a) == TRUE
Free(a) == cooldown[a] = -1

AcquireCooldown(p, a) ==
  /\ checker[p][a].at = "acquire"
  /\ IF Free(a)
     THEN cooldown' = [cooldown EXCEPT ![a] = minute] /\ To(p, a, "notify", minute)
     ELSE To(p, a, "idle", -1) /\ UNCHANGED cooldown
  /\ UNCHANGED <<minute, errors, total, fail, caller, events, alerts, lost>>

\* notify writes the row; a failure is logged, and the cooldown stays.
Notify(p, a, ok) ==
  /\ checker[p][a].at = "notify"
  /\ IF ok THEN alerts' = [alerts EXCEPT ![a][checker[p][a].since] = @ + 1] /\ UNCHANGED lost
           ELSE lost' = lost \union {<<a, checker[p][a].since>>} /\ UNCHANGED alerts
  /\ To(p, a, "idle", -1)
  /\ UNCHANGED <<minute, errors, total, fail, caller, events, cooldown>>

\* A minute passes; a cooldown that is over expires.
Over(a) == cooldown[a] >= 0 /\ minute + 1 >= cooldown[a] + Cooldown

PassMinute ==
  /\ minute < MaxMinutes
  /\ minute' = minute + 1
  /\ cooldown' = [a \in Alert |-> IF Over(a) THEN -1 ELSE cooldown[a]]
  /\ UNCHANGED <<errors, total, fail, caller, events, checker, alerts, lost>>

AdminAlertsNext ==
  \/ ServerError
  \/ \E c \in Caller : CountResult(c) \/ \E ok \in BOOLEAN : CallEnds(c, ok)
  \/ \E p \in Checker, a \in Alert :
       CheckAlert(p, a) \/ AcquireCooldown(p, a) \/ \E ok \in BOOLEAN : Notify(p, a, ok)
  \/ PassMinute
-----------------------------------------------------------------------------
(* A long spike does not make an alert every five minutes: two alerts of a kind
   are a cooldown apart, however many processes check. *)
AlertsAreSpaced ==
  \A a \in Alert, m \in Minute : alerts[a][m] > 0 =>
    FoldFunctionOnSet(+, 0, alerts[a], Minute \intersect (m..(m + Cooldown - 1))) = 1

(* Nothing is kept quiet without an alert: while a cooldown lasts there is an alert
   that began it, written, about to be, or lost by a failure. *)
QuietOnlyAfterAlert ==
  \A a \in Alert :
    cooldown[a] >= 0 =>
      \/ alerts[a][cooldown[a]] = 1
      \/ \E p \in Checker : checker[p][a] = [at |-> "notify", since |-> cooldown[a]]
      \/ <<a, cooldown[a]>> \in lost

(* A reader in the middle of a pipeline never sees more failures than calls: the
   rate it alerts on is at most one, and no call is counted twice. *)
FailuresAmongCalls == \A m \in Minute : fail[m] =< total[m]
=============================================================================
