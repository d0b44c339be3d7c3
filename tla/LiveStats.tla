------------------------------ MODULE LiveStats ------------------------------
(***************************************************************************)
(* The number of streams that are open now and the day's peak, which the   *)
(* admin panel shows (live-stats.service.ts). A stream is a member of a    *)
(* sorted set with the time it started; the peak is compared and written   *)
(* by the streams that start, in commands that others come between.        *)
(***************************************************************************)
EXTENDS Integers, FiniteSets, FiniteSetsExt

CONSTANTS
  StatDay,      \* ticks in a day
  MaxStreamAge, \* MAX_STREAM_AGE_MS, in ticks
  MaxStreams,   \* bound: streams that ever start
  MaxStatTicks  \* bound: the clock

ASSUME LiveStatsAssumption ==
  /\ StatDay \in Nat \ {0} /\ MaxStreamAge \in Nat \ {0}
  /\ MaxStreams \in Nat /\ MaxStatTicks \in Nat

VARIABLES
  statTick,  \* the clock
  active,    \* live:active_streams: the members
  startedAt, \* their scores, and how many streams have started
  running,   \* the streams that are really open
  bump,      \* bumpDailyPeak of each stream: where it is and what it has read
  peak,      \* live:daily-peak:<day>
  poll,      \* getActiveStreamCount: when it pruned, or -1
  reported,  \* history: the last number reported, and the streams it may count
  leftOver,  \* history: streams that ended without being removed
  highest,   \* history: the largest count a finished bump has read, by day
  overtaken  \* history: days whose peak changed between a bump's read and its write

liveHistory == <<reported, leftOver, highest, overtaken>>
liveVars == <<statTick, active, startedAt, running, bump, peak, poll, liveHistory>>

LiveStream == 1..MaxStreams
StatTick == 0..MaxStatTicks
StatDayOf(t) == t \div StatDay
NoBump == [at |-> "none", day |-> 0, current |-> 0, existing |-> 0]
Started == {s \in LiveStream : startedAt[s] >= 0}

LiveStatsInit ==
  /\ statTick = 0
  /\ active = {} /\ startedAt = [s \in LiveStream |-> -1] /\ running = {}
  /\ bump = [s \in LiveStream |-> NoBump]
  /\ peak = [d \in StatTick |-> 0]
  /\ poll = -1
  /\ reported = [count |-> 0, atMost |-> 0] /\ leftOver = {}
  /\ highest = [d \in StatTick |-> 0] /\ overtaken = {}
-----------------------------------------------------------------------------
(* trackStreamStart, with bumpDailyPeak, which is not waited for *)

StartLive ==
  LET s == Cardinality(Started) + 1
  IN  /\ s \in LiveStream
      /\ active' = active \union {s} /\ running' = running \union {s}
      /\ startedAt' = [startedAt EXCEPT ![s] = statTick]
      /\ bump' = [bump EXCEPT ![s] = [NoBump EXCEPT !.at = "count", !.day = StatDayOf(statTick)]]
      /\ UNCHANGED <<statTick, peak, poll, liveHistory>>

BumpCount(s) ==
  /\ bump[s].at = "count"
  /\ bump' = [bump EXCEPT ![s].at = "get", ![s].current = Cardinality(active)]
  /\ UNCHANGED <<statTick, active, startedAt, running, peak, poll, liveHistory>>

Finished(b) == [highest EXCEPT ![b.day] = Max({@, b.current})]

Raises_NotLower(current, existing) == current # existing
Raises(current, existing) == current > existing

BumpGet(s) ==
  /\ bump[s].at = "get"
  /\ IF Raises(bump[s].current, peak[bump[s].day])
     THEN /\ bump' = [bump EXCEPT ![s].at = "set", ![s].existing = peak[bump[s].day]]
          /\ UNCHANGED highest
     ELSE bump' = [bump EXCEPT ![s] = NoBump] /\ highest' = Finished(bump[s])
  /\ UNCHANGED <<statTick, active, startedAt, running, peak, poll, reported, leftOver, overtaken>>

BumpSet(s) ==
  /\ bump[s].at = "set"
  /\ peak' = [peak EXCEPT ![bump[s].day] = bump[s].current]
  /\ highest' = Finished(bump[s])
  /\ overtaken' = IF peak[bump[s].day] # bump[s].existing
                  THEN overtaken \union {bump[s].day} ELSE overtaken
  /\ bump' = [bump EXCEPT ![s] = NoBump]
  /\ UNCHANGED <<statTick, active, startedAt, running, poll, reported, leftOver>>

\* Redis fails; the error is swallowed.
BumpFails(s) ==
  /\ bump[s].at # "none"
  /\ bump' = [bump EXCEPT ![s] = NoBump]
  /\ UNCHANGED <<statTick, active, startedAt, running, peak, poll, liveHistory>>
-----------------------------------------------------------------------------
(* The end of a stream, and the count *)

\* trackStreamEnd is not waited for either, and may fail.
EndLive(s, ok) ==
  /\ s \in running
  /\ running' = running \ {s}
  /\ active' = IF ok THEN active \ {s} ELSE active
  /\ leftOver' = IF ok THEN leftOver ELSE leftOver \union {s}
  /\ UNCHANGED <<statTick, startedAt, bump, peak, poll, reported, highest, overtaken>>

\* A restart ends every stream and every bump.
Restart ==
  /\ running # {}
  /\ running' = {} /\ leftOver' = leftOver \union running
  /\ bump' = [s \in LiveStream |-> NoBump]
  /\ UNCHANGED <<statTick, active, startedAt, peak, poll, reported, highest, overtaken>>

TooOld(s, now) == startedAt[s] =< now - MaxStreamAge

Prune ==
  /\ poll = -1
  /\ poll' = statTick
  /\ active' = {s \in active : ~TooOld(s, statTick)}
  /\ UNCHANGED <<statTick, startedAt, running, bump, peak, liveHistory>>

Count ==
  /\ poll >= 0
  /\ reported' = [count |-> Cardinality(active),
       atMost |-> Cardinality(running \union
                    {s \in leftOver : startedAt[s] > poll - MaxStreamAge})]
  /\ poll' = -1
  /\ UNCHANGED <<statTick, active, startedAt, running, bump, peak, leftOver, highest, overtaken>>

PassStatTime ==
  /\ statTick < MaxStatTicks
  /\ statTick' = statTick + 1
  /\ UNCHANGED <<active, startedAt, running, bump, peak, poll, liveHistory>>

LiveStatsNext ==
  \/ StartLive
  \/ \E s \in LiveStream :
       \/ BumpCount(s) \/ BumpGet(s) \/ BumpSet(s) \/ BumpFails(s)
       \/ \E ok \in BOOLEAN : EndLive(s, ok)
  \/ Restart \/ Prune \/ Count \/ PassStatTime
-----------------------------------------------------------------------------
(* An open stream is counted unless it is older than any should be, and whatever
   else is counted ended without saying so. *)
StreamsAreAccountedFor ==
  /\ active \subseteq running \union leftOver
  /\ \A s \in running : s \in active \/ startedAt[s] =< statTick - MaxStreamAge

(* Streams that a restart left behind are not reported once they are too old,
   without a job that removes them (MAX_STREAM_AGE_MS). *)
GhostsAreNotReported == reported.count =< reported.atMost

(* The day's peak is the largest number any stream has counted: two streams that
   start together may lower it, which the code accepts, but nothing else does. *)
PeakIsHighWater ==
  \A d \in 0..StatDayOf(statTick) : peak[d] = highest[d] \/ d \in overtaken

(* What the panel shows of the streams is what happened, but for streams that ended
   without saying so, for a while, and for a peak that two streams wrote together. *)
StatisticsAreTrue == StreamsAreAccountedFor /\ GhostsAreNotReported /\ PeakIsHighWater
=============================================================================
