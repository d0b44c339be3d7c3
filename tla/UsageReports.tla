----------------------------- MODULE UsageReports -----------------------------
(***************************************************************************)
(* The back office's reports on usage, cost and revenue                    *)
(* (usage-analytics.service.ts and the lists of admin.service.ts), as      *)
(* functions of the tables, and how the tables are filled: a Message row   *)
(* when the answer is there, then the counter of its cost in Redis, then,  *)
(* by the flush job, the DailyUsage row of that day.  They differ.         *)
(*                                                                         *)
(* The diary holds what happened, in order: the position of an entry is    *)
(* its createdAt, the first entry makes an evening and then two make a     *)
(* day.  A DailyUsage row is dated at the beginning of its day.            *)
(***************************************************************************)
EXTENDS Integers, Sequences, FiniteSets, FiniteSetsExt, SequencesExt

CONSTANTS
  Client,      \* users
  Segments,    \* UserSegment rows, by sortOrder
  PlanPrice,   \* priceMonthly, which is also the amount of a payment
  SharePct,    \* AI_BUDGET_SHARE, in percent
  PeriodDays,  \* length of a subscription period
  MaxDelay,    \* bound: half days from a call to the count of its cost
  MaxDiary     \* bound: entries

ASSUME UsageReportsAssumption ==
  /\ IsFiniteSet(Client) /\ PlanPrice \in Nat \ {0} /\ SharePct \in 0..100
  /\ PeriodDays \in Nat \ {0} /\ MaxDelay \in Nat /\ MaxDiary \in Nat
  /\ \A i \in DOMAIN Segments : Segments[i].min \in Nat /\ Segments[i].max \in Nat

VARIABLES
  diary,     \* Message, AnonymousMessage, Payment and LiaraUsageSnapshot rows, calls
  counters,  \* Redis: the costs in cost:daily:<user>:<date>
  daily      \* DailyUsage: the costs in the row of a user and a date
reportVars == <<diary, counters, daily>>

Model2 == {"text", "image"}
\* The messages of a trial cost nothing, a call of a classifier as little as a text.
CostOf(e) ==
  CASE e.kind \in {"visitor", "migrated"} -> 0 [] e.model = "image" -> 2 [] OTHER -> 1

UsageReportsInit == diary = <<>> /\ counters = {} /\ daily = {}

DateOf(i) == i \div 2 + 1
Morning(day) == 2 * day - 2
Evening(day) == 2 * day - 1
Today == DateOf(Len(diary))

\* A half day: the answer to a message, a call of a classifier, which makes no message, a
\* payment, a report of the gateway, a visitor's message, or nothing.
Write(kind, who, model) ==
  /\ Len(diary) < MaxDiary
  /\ diary' = Append(diary, [kind |-> kind, who |-> who, model |-> model])
  /\ UNCHANGED <<counters, daily>>

\* migrateSession: the messages of a trial become a user's, with their dates and no cost.
Migrate(u) ==
  /\ \E i \in DOMAIN diary : diary[i].kind = "visitor"
  /\ diary' = [i \in DOMAIN diary |->
       IF diary[i].kind = "visitor" THEN [diary[i] EXCEPT !.kind = "migrated", !.who = u] ELSE diary[i]]
  /\ UNCHANGED <<counters, daily>>

\* trackCost, under the date by then.  It may fail, and then nobody tries again.
Counted(i) == \E c \in counters : c.entry = i
TrackCost(i) ==
  /\ diary[i].kind \in {"message", "call"} /\ ~Counted(i) /\ Len(diary) - i =< MaxDelay
  /\ counters' = counters \union {[date |-> Today, entry |-> i]}
  /\ UNCHANGED <<diary, daily>>

\* The flush job writes today's counters over today's row, user by user; each may fail.
OfUser(u, cs) == {c \in cs : diary[c.entry].who = u}
Dating(day, cs) == {c \in cs : c.date = day}
Flushed_AnyDay(u) == {[c EXCEPT !.date = Today] : c \in OfUser(u, counters)}
Flushed(u) == OfUser(u, Dating(Today, counters))
Flush(u) ==
  /\ Flushed(u) # {}
  /\ daily' = (daily \ OfUser(u, Dating(Today, daily))) \union Flushed(u)
  /\ UNCHANGED <<diary, counters>>

UsageReportsNext ==
  \/ \E u \in Client : \/ \E m \in Model2 : Write("message", u, m)
                       \/ Write("call", u, "none") \/ Write("payment", u, "none")
                       \/ Write("snapshot", u, "none") \/ Migrate(u) \/ Flush(u)
  \/ Write("visitor", "nobody", "text") \/ Write("nothing", "nobody", "none")
  \/ \E i \in DOMAIN diary : TrackCost(i)
-----------------------------------------------------------------------------
(* Ranges *)

\* parseDateRange: whole days when both ends are given; otherwise from the same time of
\* day, some days back, to the end of today.
WholeDays(first, last) == [from |-> Morning(first), to |-> Evening(last)]
Default(now, back) == [from |-> now - 2 * back, to |-> Evening(DateOf(now))]

PreviousPeriod(r) == [from |-> r.from - (r.to - r.from) - 1, to |-> r.from - 1]

DaysBetween(r) == Max({1, ((r.to - r.from) \div 2) + 1})
Within(r, i) == r.from =< i /\ i =< r.to
Dated(r, i) == Within(r, Morning(DateOf(i)))

Happens(kind) == {i \in DOMAIN diary : diary[i].kind = kind}
By(u, is) == {i \in is : diary[i].who = u}
Of(m, is) == {i \in is : diary[i].model = m}
Total(is) == SumFunction([i \in is |-> CostOf(diary[i])])

\* Message rows of users, and of a range.
MessageRows == Happens("message") \union Happens("migrated")
Messages(r) == {i \in MessageRows : Within(r, i)}
Payments(r) == {i \in Happens("payment") : Within(r, i)}
Snapshots(r) == {i \in Happens("snapshot") : Dated(r, i)}

\* What the DailyUsage rows of a range hold.
Accounted(r) == {c \in daily : Within(r, Morning(c.date))}
CostIn(cs) == SumFunction([c \in cs |-> CostOf(diary[c.entry])])

\* getModelBreakdown.
Breakdown(m, is) == [messages |-> Cardinality(Of(m, is)), cost |-> Total(Of(m, is))]

\* computeOverview: the cost is of DailyUsage, the models are of Message.
OverviewOf(r) ==
  [cost |-> CostIn(Accounted(r)),
   revenue |-> PlanPrice * Cardinality(Payments(r)),
   liara |-> Cardinality(Snapshots(r)),
   text |-> Breakdown("text", Messages(r)),
   image |-> Breakdown("image", Messages(r))]

\* getTimeseries: a point for each day that has a row, gathered in weeks of two days.
Points(r) == {c.date : c \in Accounted(r)}
Point(day) == CostIn(Dating(day, daily))
WeekOf(day) == (day + 1) \div 2
Weeks(r) == {WeekOf(d) : d \in Points(r)}
Bucket(r, w) ==
  LET days == {d \in Points(r) : WeekOf(d) = w}
  IN SumFunction([d \in days |-> Point(d)])

\* getUsers: a row for each user with a message or a report of the gateway.
NoSegment == "none"
MatchSegment(messages, days) ==
  LET fits == {i \in DOMAIN Segments : /\ messages >= Segments[i].min * days
                                       /\ messages =< Segments[i].max * days}
  IN IF fits = {} THEN NoSegment ELSE Segments[Min(fits)].label

Listed(r) == {u \in Client : By(u, Messages(r)) # {} \/ By(u, Snapshots(r)) # {}}
UserRow(u, r) ==
  LET own == By(u, Messages(r))
  IN [messages |-> Cardinality(own), cost |-> Total(own),
      text |-> Breakdown("text", own), image |-> Breakdown("image", own),
      revenue |-> PlanPrice * Cardinality(By(u, Payments(r))),
      liara |-> Cardinality(By(u, Snapshots(r))),
      segment |-> MatchSegment(Cardinality(own), DaysBetween(r))]

\* computeSegmentBreakdown: users of no segment are a group too.
Labels(r) == {UserRow(u, r).segment : u \in Listed(r)}
SegmentRow(label, r) ==
  LET group == {u \in Listed(r) : UserRow(u, r).segment = label}
  IN [users |-> Cardinality(group),
      cost |-> SumFunction([u \in group |-> UserRow(u, r).cost]),
      revenue |-> SumFunction([u \in group |-> UserRow(u, r).revenue])]
-----------------------------------------------------------------------------
(* The lists of admin.service.ts *)

\* getUsers of the back office: the usage since the morning of the day the period began,
\* or since the beginning of the month.
Subscribed(u) == By(u, Happens("payment")) # {}
PeriodStart(u) == Max(By(u, Happens("payment")))

WindowStart(u) == IF Subscribed(u) THEN Morning(DateOf(PeriodStart(u))) ELSE Morning(1)
AiRows(u) == {c \in OfUser(u, daily) : Morning(c.date) >= WindowStart(u)}
AiCost(u) == CostIn(AiRows(u))
AiMessages(u) == {i \in By(u, MessageRows) : i >= WindowStart(u)}
AiCostBy(u, m) == Total(Of(m, AiMessages(u)))

DaysPassed(u, now) == Min({Max({(now - PeriodStart(u)) \div 2 + 1, 1}), PeriodDays})
ExpectedByNow(price, passed) == (((price * SharePct) \div 100) * passed) \div PeriodDays

Category(cost, expected) ==
  IF cost = 0 THEN "inactive"
  ELSE IF expected = 0 \/ 2 * cost < expected THEN "light"
  ELSE IF 2 * cost < 3 * expected THEN "moderate" ELSE "heavy"
Rank(category) == CHOOSE i \in 1..4 : <<"inactive", "light", "moderate", "heavy">>[i] = category

\* getCostChart: a day is on the chart when it has a row.
ChartDays == {c.date : c \in daily}
ChartRow(day) ==
  [cost |-> Point(day),
   revenue |-> PlanPrice * Cardinality({i \in Happens("payment") : DateOf(i) = day})]

\* getPricingAlert, of a month: without revenue the ratio is 0.
AlertLevel(cost, revenue) ==
  IF revenue > 0 /\ 100 * cost >= 75 * revenue THEN "critical"
  ELSE IF revenue > 0 /\ 100 * cost >= 60 * revenue THEN "warning" ELSE "safe"
AlertRank(level) == CHOOSE i \in 1..3 : <<"safe", "warning", "critical">>[i] = level
-----------------------------------------------------------------------------
DaysSoFar == {DateOf(i) : i \in DOMAIN diary}
Chosen == {WholeDays(first, last) : first \in DaysSoFar, last \in DaysSoFar}
Ranges == {r \in Chosen \union {Default(Len(diary), back) : back \in DaysSoFar} : r.from =< r.to}
Everything == WholeDays(1, Today)

(* One table, one cost: the days and the weeks add up to the cost of the overview, the users
   and the segments to that of its models, and nobody and no report of the gateway is
   missing from the users. *)
ReportsTellOneCost ==
  \A r \in Ranges :
    LET o == OverviewOf(r)
        listed == Listed(r)
    IN  /\ o.cost = SumFunction([d \in Points(r) |-> Point(d)])
        /\ o.cost = SumFunction([w \in Weeks(r) |-> Bucket(r, w)])
        /\ o.text.cost + o.image.cost
             = SumFunction([u \in listed |-> UserRow(u, r).text.cost + UserRow(u, r).image.cost])
        /\ o.text.cost + o.image.cost = SumFunction([l \in Labels(r) |-> SegmentRow(l, r).cost])
        /\ o.text.messages + o.image.messages = SumFunction([u \in listed |-> UserRow(u, r).messages])
        /\ Cardinality(listed) = SumFunction([l \in Labels(r) |-> SegmentRow(l, r).users])
        /\ o.liara = SumFunction([u \in listed |-> UserRow(u, r).liara])

(* The tables tell different costs, and that is all they differ by.  DailyUsage has each
   cost once, and beside those of the messages only what the classifiers cost and messages
   of before the range that were counted after midnight.  A message with a cost is missing
   from it only if its cost was never counted, after the day's last flush, or after
   midnight past the range's end, or if the range begins in the middle of its day, as the
   default one does.  So it is for a range and for the period of a user. *)
AfterMidnight(i) == \E c \in counters : c.entry = i /\ c.date > DateOf(i)
AfterFlush(i) == \E c \in counters \ daily : c.entry = i
CutOff(r, i) == DateOf(i) = DateOf(r.from) /\ r.from # Morning(DateOf(i))

Explained(rows, told, r) ==
  LET entered == {c.entry : c \in rows}
  IN  /\ CostIn(rows) + Total(told \ entered) = Total(told) + Total(entered \ told)
      /\ \A i \in entered \ told : diary[i].kind = "call" \/ (AfterMidnight(i) /\ i < r.from)
      /\ \A i \in told \ entered : CostOf(diary[i]) > 0 =>
           \/ ~Counted(i) \/ AfterFlush(i) \/ CutOff(r, i)
           \/ \E c \in counters : c.entry = i /\ c.date > DateOf(r.to)

TablesDifferByCause ==
  /\ \A r \in Ranges : Explained(Accounted(r), Messages(r), r)
  /\ \A u \in Client :
       /\ Explained(AiRows(u), AiMessages(u), [from |-> WindowStart(u), to |-> Evening(Today)])
       /\ AiCostBy(u, "text") + AiCostBy(u, "image") = Total(AiMessages(u))

(* The growth compares two periods of one length that share nothing and leave nothing
   between them, so that no payment counts in both. *)
GrowthComparesNeighbours ==
  \A r \in Ranges :
    LET p == PreviousPeriod(r)
    IN  /\ DaysBetween(p) = DaysBetween(r)
        /\ p.to + 1 = r.from
        /\ Payments(p) \cap Payments(r) = {} /\ Accounted(p) \cap Accounted(r) = {}
        /\ OverviewOf([from |-> p.from, to |-> r.to]).revenue = OverviewOf(p).revenue + OverviewOf(r).revenue

(* What the tables by user and by day leave out of the revenue: the payments of users who
   neither wrote nor used their key in the range, and the payments of days without usage. *)
RevenueLeftOutIsOfTheSilent ==
  /\ \A r \in Ranges :
       LET silent == {i \in Payments(r) : By(diary[i].who, Messages(r) \union Snapshots(r)) = {}}
       IN OverviewOf(r).revenue
            = SumFunction([u \in Listed(r) |-> UserRow(u, r).revenue]) + PlanPrice * Cardinality(silent)
  /\ LET idle == {i \in Happens("payment") : DateOf(i) \notin ChartDays}
     IN OverviewOf(Everything).revenue
          = SumFunction([d \in ChartDays |-> ChartRow(d).revenue]) + PlanPrice * Cardinality(idle)

(* Whoever costs more is never in a lighter category, and as a period goes by nobody who
   costs no more gets into a heavier one; but on the days when nothing is expected yet,
   and on the free plan, nobody is heavier than light. *)
CategoriesAreFair ==
  \A u \in Client : Subscribed(u) =>
    LET passed == DaysPassed(u, Len(diary))
        expected(p) == ExpectedByNow(PlanPrice, p)
        rank(c, p) == Rank(Category(c, expected(p)))
    IN  /\ expected(passed) =< (PlanPrice * SharePct) \div 100
        /\ \A c \in 0..AiCost(u) : rank(c, passed) =< rank(AiCost(u), passed)
        /\ \A p \in 1..passed : expected(p) > 0 => rank(AiCost(u), passed) =< rank(AiCost(u), p)

(* The pricing alert of a month never gets calmer with more cost and never louder with more
   revenue, but for the first: a month that costs and earns nothing is called safe. *)
AlertFollowsTheMargin ==
  LET total == OverviewOf(Everything)
      alert(cost, revenue) == AlertRank(AlertLevel(cost, revenue))
  IN  /\ \A less \in 0..total.cost : alert(less, total.revenue) =< alert(total.cost, total.revenue)
      /\ \A less \in 1..total.revenue : alert(total.cost, less) >= alert(total.cost, total.revenue)
=============================================================================
