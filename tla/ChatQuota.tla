------------------------------ MODULE ChatQuota ------------------------------
(***************************************************************************)
(* The message limits of one user, as ChatService.streamChat enforces them *)
(* with TokenService: the daily limit, the rolling window and the trial of *)
(* a new user. A request reads its counters before it streams the answer,  *)
(* and adds to them after the answer is complete; any number of the user's *)
(* requests may be between the two.                                        *)
(*                                                                         *)
(* The plan is the same throughout (PlanCache.tla has its changes); token  *)
(* quota, budget and manual limits only ever refuse, which is Refuse.      *)
(* Counters are keyed by the Iranian date, so that a counter of yesterday  *)
(* is never read again and its expiry is left out.                         *)
(***************************************************************************)
EXTENDS Integers, FiniteSets, FiniteSetsExt

CONSTANTS
  Stream,       \* requests of the user that may be in streamChat at once
  Threshold,    \* trialMessageThreshold, 0 for a plan without a trial
  DailyCap,     \* dailyMessageLimit + throttledMessageCount, in trial and after it
  WindowCap,    \* rollingWindowLimit, in trial and after it
  Hours,        \* rollingWindowHours, in trial and after it
  DayLength,    \* hours of a day
  MaxTime,      \* bound: the last hour of a behaviour
  MaxMessages,  \* bound: counted messages of the user
  None          \* the null value: no such limit

Mode == {"trial", "plan"}
Time == 0..MaxTime
DayOf(t) == t \div DayLength
MessageDay == {DayOf(t) : t \in Time}

ASSUME ChatQuotaAssumption ==
  /\ IsFiniteSet(Stream)
  /\ Threshold \in Nat /\ MaxTime \in Nat /\ MaxMessages \in Nat
  /\ DayLength \in Nat \ {0}
  /\ DailyCap \in [Mode -> Nat \cup {None}]
  /\ WindowCap \in [Mode -> Nat \cup {None}]
  /\ Hours \in [Mode -> Nat \ {0}]
  /\ None \notin Nat

VARIABLES
  hour,       \* the hour it is
  today,      \* token:req:<user>:<day>, the messages counted on each day
  window,     \* ratelimit:msg:<user>, the messages recorded at each hour
  lifetime,   \* User.lifetimeMessageCount
  trialEnded, \* User.trialEndedAt is set
  stream,     \* each request: where it is, what it has read, what it has still to write
  recorded    \* history: the messages recorded at each hour, pruned or not

user == <<lifetime, trialEnded>>
quotaVars == <<hour, today, window, user, stream, recorded>>

NoRequest == [at |-> "idle", mode |-> "plan", lifetime |-> 0, read |-> {}, within |-> {}, todo |-> {}]

QuotaInit ==
  /\ hour = 0
  /\ today = [d \in MessageDay |-> 0]
  /\ window = [t \in Time |-> 0]
  /\ lifetime = 0
  /\ trialEnded = FALSE
  /\ stream = [s \in Stream |-> NoRequest]
  /\ recorded = [t \in Time |-> 0]

SetStream(s, x) == stream' = [stream EXCEPT ![s] = x]

\* Messages recorded in the last h hours.
Recorded(h) == MapThenSumSet(LAMBDA t : recorded[t], {t \in Time : t > hour - h})
-----------------------------------------------------------------------------
(* Preflight *)

\* getEffectiveLimits: the user row tells whether the trial limits apply.
ReadUser(s) ==
  /\ stream[s].at = "idle"
  /\ lifetime + Cardinality({q \in Stream : stream[q].at # "idle"}) < MaxMessages
  /\ SetStream(s, [NoRequest EXCEPT !.at = "preflight", !.lifetime = lifetime,
                            !.mode = IF lifetime < Threshold THEN "trial" ELSE "plan"])
  /\ UNCHANGED <<hour, today, window, user, recorded>>

\* The counters are read in parallel, in any order.
Note(s, limit, ok) ==
  SetStream(s, [stream[s] EXCEPT !.read = @ \cup {limit},
                              !.within = IF ok THEN @ \cup {limit} ELSE @])

BelowDailyCap(n, m) == DailyCap[m] = None \/ n < DailyCap[m]

ReadToday(s) ==
  /\ stream[s].at = "preflight"
  /\ "today" \notin stream[s].read
  /\ Note(s, "today", BelowDailyCap(today[DayOf(hour)], stream[s].mode))
  /\ UNCHANGED <<hour, today, window, user, recorded>>

\* getRollingWindowStatus drops what is older than the window, then counts.
Pruned_Early(m) == [t \in Time |-> IF t >= hour THEN window[t] ELSE 0]
Pruned(m) == [t \in Time |-> IF t > hour - Hours[m] THEN window[t] ELSE 0]

ReadWindow(s) ==
  LET m == stream[s].mode IN
  /\ stream[s].at = "preflight"
  /\ "window" \notin stream[s].read
  /\ IF WindowCap[m] = None
     THEN /\ Note(s, "window", TRUE)
          /\ UNCHANGED window
     ELSE /\ window' = Pruned(m)
          /\ Note(s, "window", MapThenSumSet(LAMBDA t : window'[t], Time) < WindowCap[m])
  /\ UNCHANGED <<hour, today, user, recorded>>

Admit(s) ==
  /\ stream[s].at = "preflight"
  /\ stream[s].within = {"today", "window"}
  /\ SetStream(s, [stream[s] EXCEPT !.at = "streaming"])
  /\ UNCHANGED <<hour, today, window, user, recorded>>

\* A 4xx: one of these limits, or any other check of the preflight.
Refuse(s) ==
  /\ stream[s].at = "preflight"
  /\ stream[s].read = {"today", "window"}
  /\ SetStream(s, NoRequest)
  /\ UNCHANGED <<hour, today, window, user, recorded>>
-----------------------------------------------------------------------------
(* After the answer: a Promise.all of independent writes *)

Answered(s) ==
  /\ stream[s].at = "streaming"
  /\ SetStream(s, [stream[s] EXCEPT
       !.at = "commit", !.read = {}, !.within = {},
       !.todo = {"today", "lifetime"} \cup (IF WindowCap[stream[s].mode] = None THEN {} ELSE {"window"})])
  /\ UNCHANGED <<hour, today, window, user, recorded>>

Wrote(s, what) ==
  /\ stream[s].at = "commit"
  /\ what \in stream[s].todo
  /\ SetStream(s, IF stream[s].todo = {what} THEN NoRequest ELSE [stream[s] EXCEPT !.todo = @ \ {what}])

Incr(n) == n + 1

\* TokenService.increment: INCR token:req.
CountToday(s) ==
  /\ Wrote(s, "today")
  /\ today' = [today EXCEPT ![DayOf(hour)] = Incr(@)]
  /\ UNCHANGED <<hour, window, user, recorded>>

\* ZADD ratelimit:msg with the time as its score.
CountWindow(s) ==
  /\ Wrote(s, "window")
  /\ window' = [window EXCEPT ![hour] = @ + 1]
  /\ recorded' = [recorded EXCEPT ![hour] = @ + 1]
  /\ UNCHANGED <<hour, today, user>>

\* The trial is over when this message, counted from what the request read in
\* the beginning, reaches the threshold.
EndsTrial(s) == stream[s].mode = "trial" /\ stream[s].lifetime + 1 >= Threshold

CountLifetime(s) ==
  /\ Wrote(s, "lifetime")
  /\ lifetime' = lifetime + 1
  /\ trialEnded' = (trialEnded \/ EndsTrial(s))
  /\ UNCHANGED <<hour, today, window, recorded>>

\* The stream breaks off, a write fails or the process restarts: what is left is dropped.
Fail(s) ==
  /\ stream[s].at # "idle"
  /\ SetStream(s, NoRequest)
  /\ UNCHANGED <<hour, today, window, user, recorded>>

HourPasses ==
  /\ hour < MaxTime
  /\ hour' = hour + 1
  /\ UNCHANGED <<today, window, user, stream, recorded>>

QuotaNext ==
  \/ \E s \in Stream : \/ ReadUser(s) \/ ReadToday(s) \/ ReadWindow(s) \/ Admit(s) \/ Refuse(s)
                       \/ Answered(s) \/ CountToday(s) \/ CountWindow(s) \/ CountLifetime(s)
                       \/ Fail(s)
  \/ HourPasses

QuotaSpec == QuotaInit /\ [][QuotaNext]_quotaVars
-----------------------------------------------------------------------------
(* Properties *)

\* The types of the variables.
QuotaTypeOK ==
  /\ hour \in Time
  /\ today \in [MessageDay -> Nat]
  /\ window \in [Time -> Nat]
  /\ recorded \in [Time -> Nat]
  /\ lifetime \in 0..MaxMessages
  /\ trialEnded \in BOOLEAN
  /\ stream \in [Stream -> [at : {"idle", "preflight", "streaming", "commit"}, mode : Mode,
                            lifetime : Nat, read : SUBSET {"today", "window"},
                            within : SUBSET {"today", "window"},
                            todo : SUBSET {"today", "window", "lifetime"}]]

\* Requests that have been found within a limit and have not been counted yet.
Uncounted(limit) ==
  {s \in Stream : limit \in stream[s].within \cup stream[s].todo}

\* The larger of the two caps.
Cap(caps) == Max({caps[m] : m \in Mode})

\* However the user's requests overlap, and across midnight: a day never counts
\* more messages over the daily limit than requests can be in progress at once;
\* today, those that are still to be counted are among them.
DailyCapRespected ==
  None \notin {DailyCap[m] : m \in Mode} =>
    \A d \in MessageDay :
      LET uncounted == IF d = DayOf(hour) THEN Uncounted("today") ELSE {} IN
      today[d] > 0 => today[d] + Cardinality(uncounted) < Cap(DailyCap) + Cardinality(Stream)

\* The same for the messages of the last hours, as many as the shorter of the two
\* windows has: pruning, which each mode does with its own length, takes nothing
\* away that the limit has still to see.
WindowCapRespected ==
  None \notin {WindowCap[m] : m \in Mode} =>
    LET n == Recorded(Min({Hours[m] : m \in Mode})) IN
    n > 0 => n + Cardinality(Uncounted("window")) < Cap(WindowCap) + Cardinality(Stream)

\* chat.service.ts:643 says of the message that ends the trial that trialEndedAt is
\* set at that moment: with as many messages counted as the trial has, it is set.
TrialEndIsRecorded ==
  Threshold > 0 /\ lifetime >= Threshold => trialEnded

\* The two limits of a user's messages, of the day and of the window, on a well-typed state.
QuotaRespected == QuotaTypeOK /\ DailyCapRespected /\ WindowCapRespected
=============================================================================
