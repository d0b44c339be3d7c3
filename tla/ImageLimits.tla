----------------------------- MODULE ImageLimits -----------------------------
(***************************************************************************)
(* How many images a user may draw: a counter per day and a sliding        *)
(* window, both in Redis, read before an image is drawn and added to after *)
(* it (getImageGenRateLimitStatus and recordImageGenRequest of             *)
(* token.service.ts, called by handleImageGeneration of chat.service.ts).  *)
(*                                                                         *)
(* Time is counted in ticks, of which a day has ImageLimitDay; the keys of *)
(* past days are simply not read. The drawing itself is in Images.         *)
(***************************************************************************)
EXTENDS Integers, FiniteSets, FiniteSetsExt, Functions

CONSTANTS
  Asker,          \* requests that may be in progress at once
  MaxPerDay,      \* maxImageGenPerDay
  MaxPerWindow,   \* maxImageGenPerWindow
  ImageLimitDay,  \* ticks in a day
  ImageWindow,    \* imageGenWindowHours, in ticks
  MaxDraws,       \* bound: requests that ever begin
  MaxImageTicks   \* bound: the clock

ASSUME ImageLimitsAssumption ==
  /\ IsFiniteSet(Asker) /\ Asker # {}
  /\ MaxPerDay \in Nat /\ MaxPerWindow \in Nat
  /\ ImageLimitDay \in Nat \ {0} /\ ImageWindow \in Nat \ {0}
  /\ MaxDraws \in Nat /\ MaxImageTicks \in Nat

VARIABLES
  imageTick,   \* the clock
  daily,       \* ratelimit:imagegen:daily:<user>:<date>, by day
  drawnLately,      \* ratelimit:imagegen:window:<user>: how many members have each score
  asker,       \* where each request is
  draws,       \* requests that have begun, for the bound
  drawn,       \* history: images answered, by tick
  uncounted    \* history: answers whose counting failed

imageLimitVars == <<imageTick, daily, drawnLately, asker, draws, drawn, uncounted>>

ImageTick == 0..MaxImageTicks
DrawingDay(t) == t \div ImageLimitDay
Total(counts, from, to) == FoldFunctionOnSet(+, 0, counts, ImageTick \intersect (from..to))

ImageLimitsInit ==
  /\ imageTick = 0
  /\ daily = [d \in ImageTick |-> 0] /\ drawnLately = [t \in ImageTick |-> 0]
  /\ asker = [r \in Asker |-> "idle"] /\ draws = 0
  /\ drawn = [t \in ImageTick |-> 0] /\ uncounted = 0

GoTo(r, at) == asker' = [asker EXCEPT ![r] = at]
-----------------------------------------------------------------------------
AskToDraw(r) ==
  /\ asker[r] = "idle" /\ draws < MaxDraws
  /\ draws' = draws + 1
  /\ GoTo(r, "day")
  /\ UNCHANGED <<imageTick, daily, drawnLately, drawn, uncounted>>

BelowLimit(count, limit) == count < limit

CheckDay(r) ==
  /\ asker[r] = "day"
  /\ GoTo(r, IF BelowLimit(daily[DrawingDay(imageTick)], MaxPerDay) THEN "window" ELSE "idle")
  /\ UNCHANGED <<imageTick, daily, drawnLately, draws, drawn, uncounted>>

\* Members that are as old as the window are removed, then the rest are counted.
Outdated_Recent(t) == t =< imageTick
Outdated(t) == t =< imageTick - ImageWindow

CheckWindow(r) ==
  /\ asker[r] = "window"
  /\ drawnLately' = [t \in ImageTick |-> IF Outdated(t) THEN 0 ELSE drawnLately[t]]
  /\ GoTo(r, IF BelowLimit(Total(drawnLately', 0, imageTick), MaxPerWindow) THEN "draw" ELSE "idle")
  /\ UNCHANGED <<imageTick, daily, draws, drawn, uncounted>>

\* handleImageGeneration saves the answer, or fails on the way to it.
Draw(r) ==
  /\ asker[r] = "draw"
  /\ drawn' = [drawn EXCEPT ![imageTick] = @ + 1]
  /\ GoTo(r, "count")
  /\ UNCHANGED <<imageTick, daily, drawnLately, draws, uncounted>>

FailToDraw(r) ==
  /\ asker[r] = "draw"
  /\ GoTo(r, "idle")
  /\ UNCHANGED <<imageTick, daily, drawnLately, draws, drawn, uncounted>>

\* Only an image that was drawn is counted; Redis may fail, or the process stop.
CountImage(r) ==
  /\ asker[r] = "count"
  /\ daily' = [daily EXCEPT ![DrawingDay(imageTick)] = @ + 1]
  /\ drawnLately' = [drawnLately EXCEPT ![imageTick] = @ + 1]
  /\ GoTo(r, "idle")
  /\ UNCHANGED <<imageTick, draws, drawn, uncounted>>

FailToCount(r) ==
  /\ asker[r] = "count"
  /\ uncounted' = uncounted + 1
  /\ GoTo(r, "idle")
  /\ UNCHANGED <<imageTick, daily, drawnLately, draws, drawn>>

PassTime ==
  /\ imageTick < MaxImageTicks
  /\ imageTick' = imageTick + 1
  /\ UNCHANGED <<daily, drawnLately, asker, draws, drawn, uncounted>>

ImageLimitsNext ==
  \/ \E r \in Asker :
       \/ AskToDraw(r) \/ CheckDay(r) \/ CheckWindow(r)
       \/ Draw(r) \/ FailToDraw(r) \/ CountImage(r) \/ FailToCount(r)
  \/ PassTime
-----------------------------------------------------------------------------
(* The limits are read before an image is drawn and counted after it: a day, and
   any stretch as long as the drawnLately, has no more images than the limit, the other
   requests in progress and the answers whose counting failed. *)
ImageSlack == Cardinality(Asker) - 1 + uncounted
ImagesPerDayRespected ==
  \A d \in 0..DrawingDay(imageTick) :
    Total(drawn, d * ImageLimitDay, (d + 1) * ImageLimitDay - 1) =< MaxPerDay + ImageSlack
ImagesPerWindowRespected ==
  \A t \in ImageTick : Total(drawn, t, t + ImageWindow - 1) =< MaxPerWindow + ImageSlack

\* The limits of a user's pictures, of the day and of the window.
ImageLimitsRespected == ImagesPerDayRespected /\ ImagesPerWindowRespected
=============================================================================
