------------------------------- MODULE Usage --------------------------------
(***************************************************************************)
(* What users consume: the daily counters in Redis (TokenService,          *)
(* PricingService), the budget and the token quota that chat requests are  *)
(* checked against, and the job that copies the counters to DailyUsage     *)
(* rows every five minutes (token-flush.processor.ts).                     *)
(*                                                                         *)
(* Token keys carry the Iranian date, cost keys the UTC date; the job      *)
(* copies, of every key, the one of the UTC date. A key lives for DayTtl   *)
(* after its first write, whatever happens to it later (EXPIRE NX).        *)
(*                                                                         *)
(* The dollar costs behave as the Toman costs do and are left out, as is   *)
(* the monthly cost, which nothing is decided by; so are the daily keys of *)
(* requests and of paid tokens, which are written, dated and copied as the *)
(* one of free tokens is. The key of a month outlives its month (32 days)  *)
(* and does not expire here.                                               *)
(***************************************************************************)
EXTENDS Integers, FiniteSets, FiniteSetsExt

CONSTANTS
  User,
  Request,       \* chat requests that may be in progress at once
  Exempt,        \* users in their trial or on pay-as-you-go: neither budget nor quota
  Funded,        \* users with a positive wallet balance: no budget
  FreeTokens,    \* dailyFreeTokens of the plan
  MonthTokens,   \* monthlyTotalTokens of the plan
  SessionLimit,  \* the cost at which the daily budget refuses a user without wallet
  Day,           \* length of a day
  IranShift,     \* how much earlier a day begins in Iran
  DayTtl,        \* 90 000 s
  MaxTokens,     \* bound: tokens of one message
  MaxCost,       \* bound: cost of one message, its classification included
  MaxRequests,   \* bound: requests that ever begin
  MaxDate,       \* bound: time ends before this date in UTC
  Never          \* no time to live set

ASSUME UsageAssumption ==
  /\ IsFiniteSet(Request)
  /\ FreeTokens \in Nat \ {0} /\ MonthTokens \in Nat /\ SessionLimit \in Nat \ {0}
  /\ Day \in Nat \ {0} /\ IranShift \in 1..(Day - 1) /\ DayTtl \in Nat /\ DayTtl > Day
  /\ MaxTokens \in Nat /\ MaxCost \in Nat /\ MaxRequests \in Nat /\ MaxDate \in Nat \ {0}
  /\ User # {} /\ Never \notin Nat

\* The columns of a DailyUsage row, and the Redis keys they are copied from.
Column == {"free", "cost"}

VARIABLES
  now,       \* the time
  midnight,  \* the last midnight in UTC
  date,      \* the date in UTC
  counter,   \* counter[u][k][d]: the value of the key of user u, column k and date d
  expires,   \* when the key expires
  monthly,   \* token:paid:<user>:<month> of the Iranian month
  request,   \* each request: where it is, whose, which quota admitted it, its cost so far
  flush,     \* the flush job: where it is, its date, what it has found and has to write
  begun,     \* requests that have begun, for the bound
  row,       \* DailyUsage: row[u][d][k], all zero while there is no row
  used       \* history: what was really consumed, by user, column and date

clock == <<now, midnight, date>>
keys == <<counter, expires, monthly, used>>
vars == <<clock, keys, request, begun, flush, row>>

\* Iran is ahead, and reaches the last one.
Date == 0..MaxDate

\* The date a key written or read now carries.
DateOf(k) == IF k # "cost" /\ now - midnight + IranShift >= Day THEN date + 1 ELSE date

Idle == [at |-> "idle", user |-> CHOOSE u \in User : TRUE, source |-> "free", cost |-> 0]
Costs(cost) == [k \in {"cost"} |-> cost]
Nothing == [k \in Column |-> 0]
Rest == [at |-> "rest", date |-> 0, late |-> FALSE, scans |-> {}, found |-> {}, writes |-> {},
         rows |-> [u \in User |-> Nothing]]

Init ==
  /\ now = 0 /\ midnight = 0 /\ date = 0
  /\ counter = [u \in User |-> [k \in Column |-> [d \in Date |-> 0]]]
  /\ expires = [u \in User |-> [k \in Column |-> [d \in Date |-> Never]]]
  /\ monthly = [u \in User |-> 0]
  /\ request = [r \in Request |-> Idle]
  /\ begun = 0
  /\ flush = Rest
  /\ row = [u \in User |-> [d \in Date |-> Nothing]]
  /\ used = [u \in User |-> [k \in Column |-> [d \in Date |-> 0]]]
-----------------------------------------------------------------------------
(* Counters *)

\* A write has an amount for each column it adds to, and goes to today's keys.
Writes(amounts, k, d) == k \in DOMAIN amounts /\ d = DateOf(k)

Added(table, u, amounts) ==
  [table EXCEPT ![u] = [k \in Column |-> [d \in Date |->
     IF Writes(amounts, k, d) THEN table[u][k][d] + amounts[k] ELSE table[u][k][d]]]]

\* EXPIRE NX: the first write decides how long the key lives.
Lifetime_Short == Day - IranShift
Lifetime == DayTtl

\* TokenService.increment and PricingService.trackCost: INCRBY and EXPIRE of every
\* key are sent together.
Count(u, amounts) ==
  /\ counter' = Added(counter, u, amounts)
  /\ expires' = [expires EXCEPT ![u] = [k \in Column |-> [d \in Date |->
       IF Writes(amounts, k, d) /\ expires[u][k][d] = Never
       THEN now + Lifetime ELSE expires[u][k][d]]]]
  /\ used' = Added(used, u, amounts)

\* Time passes; keys whose time has come are gone. A new Iranian day may be the
\* first one of a month, whose key does not exist yet. The flush job takes seconds:
\* midnight may fall into it, a day does not.
Tick ==
  /\ now + 1 = midnight + Day => date + 1 < MaxDate
  /\ ~flush.late
  /\ flush' = [flush EXCEPT !.late = (flush.at # "rest")]
  /\ now' = now + 1
  /\ IF now' = midnight + Day
     THEN midnight' = now' /\ date' = date + 1
     ELSE UNCHANGED <<midnight, date>>
  /\ LET Due(u, k, d) == expires[u][k][d] # Never /\ expires[u][k][d] =< now' IN
     /\ counter' = [u \in User |-> [k \in Column |-> [d \in Date |->
                      IF Due(u, k, d) THEN 0 ELSE counter[u][k][d]]]]
     /\ expires' = [u \in User |-> [k \in Column |-> [d \in Date |->
                      IF Due(u, k, d) THEN Never ELSE expires[u][k][d]]]]
  /\ \/ UNCHANGED monthly
     \/ /\ now' - midnight + IranShift = Day
        /\ monthly' = [u \in User |-> 0]
  /\ UNCHANGED <<request, begun, row, used>>
-----------------------------------------------------------------------------
(* A chat request *)

Update(r, x) == request' = [request EXCEPT ![r] = x]

\* assertBudget: with a wallet the budget refuses nobody.
WithinBudget(u) == counter[u]["cost"][DateOf("cost")] < SessionLimit

AssertBudget(r, u) ==
  /\ request[r].at = "idle"
  /\ begun < MaxRequests
  /\ begun' = begun + 1
  /\ u \in Exempt \/ u \in Funded \/ WithinBudget(u)
  /\ Update(r, [Idle EXCEPT !.at = "checked", !.user = u])
  /\ UNCHANGED <<clock, keys, flush, row>>

\* Calls to small models before the answer (image intent, tier of the message) cost
\* something, too, also when the request is refused afterwards.
Classify(r, cost) ==
  /\ request[r].at = "checked"
  /\ cost =< MaxCost
  /\ IF cost = 0 THEN UNCHANGED <<counter, expires, used>>
                 ELSE Count(request[r].user, Costs(cost))
  /\ Update(r, [request[r] EXCEPT !.at = "classified", !.cost = cost])
  /\ UNCHANGED <<clock, monthly, begun, flush, row>>

\* checkQuota: the message, estimated at one token at least, is charged to the free
\* tokens of the day, or else to those of the month.
FreeRemaining_Unchecked(u) == 1
FreeRemaining(u) == FreeTokens - counter[u]["free"][DateOf("free")]

Source(u, source) ==
  \/ u \in Exempt /\ source = "free"
  \/ source = "free" /\ FreeRemaining(u) >= 1
  \/ source = "paid" /\ MonthTokens - monthly[u] >= 1

CheckQuota(r, source) ==
  /\ request[r].at = "classified"
  /\ Source(request[r].user, source)
  /\ Update(r, [request[r] EXCEPT !.at = "streaming", !.source = source])
  /\ UNCHANGED <<clock, keys, begun, flush, row>>

\* The counters after an answer.
Answer(r, tokens, cost) ==
  LET u == request[r].user
      source == request[r].source
  IN
  /\ request[r].at = "streaming"
  /\ request[r].cost + cost =< MaxCost
  /\ Count(u, [k \in Column \cap {source, "cost"} |-> IF k = "cost" THEN cost ELSE tokens])
  /\ monthly' = IF source = "paid" THEN [monthly EXCEPT ![u] = @ + tokens] ELSE monthly
  /\ Update(r, Idle)
  /\ UNCHANGED <<clock, begun, flush, row>>

\* An image has a cost and no tokens; its own rate limit is not modelled here.
DrawImage(r, cost) ==
  /\ request[r].at = "classified"
  /\ request[r].cost + cost =< MaxCost
  /\ Count(request[r].user, Costs(cost))
  /\ Update(r, Idle)
  /\ UNCHANGED <<clock, monthly, begun, flush, row>>

\* Refused, broken off, or lost in a restart.
Drop(r) ==
  /\ request[r].at # "idle"
  /\ Update(r, Idle)
  /\ UNCHANGED <<clock, keys, begun, flush, row>>
-----------------------------------------------------------------------------
(* The flush job; Bull runs one at a time *)

StartFlush ==
  /\ flush.at = "rest"
  /\ flush' = [Rest EXCEPT !.at = "scan", !.date = date, !.scans = Column]
  /\ UNCHANGED <<clock, keys, request, begun, row>>

\* The job looks for keys of its own date.
KeyDate_Current(k) == DateOf(k)
KeyDate(k) == flush.date

\* The keys of that date that one of its scans finds.
Found(k) == {<<u, k>> : u \in {v \in User : expires[v][k][KeyDate(k)] # Never}}

\* The scans run at the same time and end in any order.
Scan(k) ==
  /\ flush.at = "scan"
  /\ k \in flush.scans
  /\ flush' = [flush EXCEPT !.scans = @ \ {k}, !.found = @ \cup Found(k)]
  /\ UNCHANGED <<clock, keys, request, begun, row>>

\* All GETs are sent together; a user has a row if one of its keys was found, and
\* zero in every column whose key was not.
ReadCounters ==
  /\ flush.at = "scan"
  /\ flush.scans = {}
  /\ flush' = IF flush.found = {} THEN Rest
              ELSE [flush EXCEPT
                !.at = "write",
                !.found = {},
                !.writes = {key[1] : key \in flush.found},
                !.rows = [u \in User |-> [k \in Column |->
                   IF <<u, k>> \in flush.found THEN counter[u][k][KeyDate(k)] ELSE 0]]]
  /\ UNCHANGED <<clock, keys, request, begun, row>>

\* The upsert writes values, it adds nothing.
Upserted_Difference(u) == [k \in Column |-> flush.rows[u][k] - row[u][flush.date][k]]
Upserted_Adds(u) == [k \in Column |-> row[u][flush.date][k] + flush.rows[u][k]]
Upserted(u) == flush.rows[u]

Upsert(u) ==
  /\ flush.at = "write"
  /\ u \in flush.writes
  /\ row' = [row EXCEPT ![u][flush.date] = Upserted(u)]
  /\ flush' = IF flush.writes = {u} THEN Rest ELSE [flush EXCEPT !.writes = @ \ {u}]
  /\ UNCHANGED <<clock, keys, request, begun>>

\* The job fails or the process restarts; the next run starts over.
FlushFails ==
  /\ flush.at # "rest"
  /\ flush' = Rest
  /\ UNCHANGED <<clock, keys, request, begun, row>>

Next ==
  \/ Tick
  \/ \E u \in User : Upsert(u)
  \/ \E r \in Request :
       \/ \E u \in User : AssertBudget(r, u)
       \/ \E c \in 0..MaxCost :
            \/ Classify(r, c)
            \/ DrawImage(r, c)
            \/ \E t \in 1..MaxTokens : Answer(r, t, c)
       \/ \E source \in {"free", "paid"} : CheckQuota(r, source)
       \/ Drop(r)
  \/ StartFlush \/ ReadCounters \/ FlushFails
  \/ \E k \in Column : Scan(k)

Spec == Init /\ [][Next]_vars
-----------------------------------------------------------------------------
(* Properties *)

RequestType ==
  [at : {"idle", "checked", "classified", "streaming"}, user : User, source : {"free", "paid"},
   cost : 0..MaxCost]
JobType ==
  [at : {"rest", "scan", "write"}, date : Date, late : BOOLEAN, scans : SUBSET Column,
   found : SUBSET (User \X Column), writes : SUBSET User, rows : [User -> [Column -> Nat]]]
Table == [User -> [Column -> [Date -> Nat]]]

\* The types of the variables.
TypeOK ==
  /\ now \in Nat /\ midnight \in Nat /\ date \in 0..(MaxDate - 1)
  /\ midnight =< now /\ now < midnight + Day
  /\ counter \in Table
  /\ used \in Table
  /\ expires \in [User -> [Column -> [Date -> Nat \cup {Never}]]]
  /\ monthly \in [User -> Nat]
  /\ begun \in Nat
  /\ request \in [Request -> RequestType]
  /\ flush \in JobType
  /\ row \in [User -> [Date -> [Column -> Nat]]]

\* A limit is never reset early: as long as its day lasts, in Iran or in UTC, a key
\* holds everything consumed on that day, although it expires a fixed time after its
\* first write.
CountersHoldTheirDay ==
  \A u \in User, k \in Column :
    counter[u][k][DateOf(k)] = used[u][k][DateOf(k)]

\* Counters, requests and the job are well formed, and no limit is reset early.
CountersAreSound == TypeOK /\ CountersHoldTheirDay

\* Nothing is counted twice: however often the job runs, fails, or meets keys that
\* change under it, no row shows more than was consumed.
RowsNeverExceedUse ==
  \A u \in User, k \in Column, d \in Date : row[u][d][k] =< used[u][k][d]

\* What a row has once shown is taken back only when the key it was copied from has
\* expired and the day of that key is over.
RowsShrinkOnlyAfterExpiry ==
  [][\A u \in User, k \in Column, d \in Date :
       row'[u][d][k] < row[u][d][k] => DateOf(k) > d /\ expires[u][k][d] = Never]_vars

Streaming(u) == {r \in Request : request[r].at = "streaming" /\ request[r].user = u
                                                             /\ request[r].source = "free"}

\* However the requests of a user overlap, and across midnight: the free tokens of a
\* day are exceeded by no more than what requests in progress may consume.
FreeTokensBounded ==
  \A u \in User \ Exempt :
    used[u]["free"][DateOf("free")] + MaxTokens * Cardinality(Streaming(u))
      < FreeTokens + MaxTokens * Cardinality(Request)

\* The same for the cost of a day of a user without wallet, the cost of calls made
\* for requests that are refused included.
BudgetBounded ==
  \A u \in User \ (Exempt \cup Funded) :
    LET busy == {r \in Request : request[r].at # "idle" /\ request[r].user = u} IN
    used[u]["cost"][date] + MapThenSumSet(LAMBDA r : MaxCost - request[r].cost, busy)
      < SessionLimit + MaxCost * Cardinality(Request)

\* A row of DailyUsage keeps the total of its day (admin.service.ts:201): what it has
\* once shown is never taken back.
RowsKeepTheTotal ==
  [][\A u \in User, k \in Column, d \in Date : row'[u][d][k] >= row[u][d][k]]_vars
=============================================================================
