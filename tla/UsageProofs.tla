---------------------------- MODULE UsageProofs -----------------------------
(***************************************************************************)
(* Proofs about the limits of users and visitors, for any number of users, *)
(* browsers and requests and any limits.  Of Usage.tla, for any lengths of *)
(* a day, of the shift of Iran's day and of a key's life as long as a key  *)
(* outlives a day: a key holds everything consumed on its day, a row never *)
(* shows more than was consumed and is taken back only after the key       *)
(* expired, and the free tokens of a day are bounded.  Of Usage.tla,       *)
(* ChatQuota.tla and AnonChat.tla together: what is compared before an     *)
(* answer and counted after it exceeds its limit by no more than the       *)
(* requests in progress, and visitors are told the truth.  Of Wallet.tla,  *)
(* for any number of messages and refunds: the types, the bound on the     *)
(* overdraft, and the ledger.                                              *)
(***************************************************************************)
EXTENDS MCLimits, Wallet, SumProofs, FiniteSetTheorems, TLAPS

\* The date of a key written now is one of the dates of the model.
LEMMA DateIsDate ==
  ASSUME TypeOK, NEW k \in Column
  PROVE  DateOf(k) \in Date /\ DateOf(k) \in Int /\ date \in Date
         /\ DateOf(k) >= date /\ DateOf(k) =< date + 1
  BY UsageAssumption DEF TypeOK, DateOf, Date

LEMMA NextDateIsDate ==
  ASSUME TypeOK' PROVE DateOf("free")' \in Date
  <1>1. date' \in 0..(MaxDate - 1)
    BY DEF TypeOK
  <1>2. MaxDate \in Nat
    BY UsageAssumption
  <1>3. date' \in 0..MaxDate /\ date' + 1 \in 0..MaxDate
    <2> DEFINE next == date'
    <2>1. next \in Int /\ 0 =< next /\ next =< MaxDate - 1
      BY <1>1, <1>2
    <2> HIDE DEF next
    <2>2. next \in 0..MaxDate /\ next + 1 \in 0..MaxDate
      BY <1>2, <2>1
    <2>3. QED
      BY <2>2 DEF next
  <1>4. DateOf("free")' = date' \/ DateOf("free")' = date' + 1
    BY DEF DateOf
  <1>5. QED
    BY <1>3, <1>4 DEF Date

\* What a write does to each key: it adds to those of today, of one user and of the
\* columns it names.
Hit(v, k, d, u, S) == v = u /\ k \in S /\ d = DateOf(k)

EffectOn(v, k, d, u, S, amounts) ==
  /\ Hit(v, k, d, u, S) => /\ counter'[v][k][d] = counter[v][k][d] + amounts[k]
                           /\ used'[v][k][d] = used[v][k][d] + amounts[k]
                           /\ expires'[v][k][d] = IF expires[v][k][d] = Never THEN now + DayTtl
                                                  ELSE expires[v][k][d]
  /\ ~Hit(v, k, d, u, S) => /\ counter'[v][k][d] = counter[v][k][d]
                            /\ used'[v][k][d] = used[v][k][d]
                            /\ expires'[v][k][d] = expires[v][k][d]

Effect(u, S, amounts) ==
  \A v \in User, k \in Column, d \in Date : EffectOn(v, k, d, u, S, amounts)

LEMMA CountEffect ==
  ASSUME TypeOK, NEW u \in User, NEW S \in SUBSET Column, NEW amounts \in [S -> Nat],
         Count(u, amounts)
  PROVE  /\ counter' \in Table /\ used' \in Table
         /\ expires' \in [User -> [Column -> [Date -> Nat \cup {Never}]]]
         /\ Effect(u, S, amounts)
  <1>1. DOMAIN amounts = S /\ \A k \in S : amounts[k] \in Nat
    OBVIOUS
  <1>2. counter \in Table /\ used \in Table /\ now + DayTtl \in Nat
        /\ expires \in [User -> [Column -> [Date -> Nat \cup {Never}]]]
    BY UsageAssumption DEF TypeOK
  <1>3. ASSUME NEW table \in Table
        PROVE  /\ Added(table, u, amounts) \in Table
               /\ \A v \in User, k \in Column, d \in Date :
                    Added(table, u, amounts)[v][k][d] =
                      IF v = u /\ k \in S /\ d = DateOf(k) THEN table[v][k][d] + amounts[k]
                      ELSE table[v][k][d]
    BY <1>1 DEF Added, Writes, Table
  <1>4. counter' = Added(counter, u, amounts) /\ used' = Added(used, u, amounts)
    BY DEF Count
  <1>5. /\ expires' \in [User -> [Column -> [Date -> Nat \cup {Never}]]]
        /\ \A v \in User, k \in Column, d \in Date :
             expires'[v][k][d] = IF v = u /\ k \in S /\ d = DateOf(k) /\ expires[v][k][d] = Never
                                 THEN now + DayTtl
                                 ELSE expires[v][k][d]
    BY <1>1, <1>2 DEF Count, Lifetime, Writes
  <1>6. /\ counter' \in Table /\ used' \in Table
        /\ \A v \in User, k \in Column, d \in Date :
             /\ counter'[v][k][d] = IF v = u /\ k \in S /\ d = DateOf(k)
                                    THEN counter[v][k][d] + amounts[k] ELSE counter[v][k][d]
             /\ used'[v][k][d] = IF v = u /\ k \in S /\ d = DateOf(k)
                                 THEN used[v][k][d] + amounts[k] ELSE used[v][k][d]
    BY <1>2, <1>3, <1>4
  <1>7. ASSUME NEW v \in User, NEW k \in Column, NEW d \in Date PROVE EffectOn(v, k, d, u, S, amounts)
    BY <1>5, <1>6 DEF EffectOn, Hit
  <1>8. QED
    BY <1>5, <1>6, <1>7 DEF Effect
-----------------------------------------------------------------------------
(* Types *)

LEMMA InitTypeOK == Init => TypeOK
  BY UsageAssumption DEF Init, TypeOK, Idle, Rest, Nothing, Date, Column, RequestType, JobType, Table

LEMMA ClassifyType ==
  ASSUME TypeOK, NEW r \in Request, NEW c \in 0..MaxCost, Classify(r, c)
  PROVE  TypeOK'
  <1>1. request[r].user \in User /\ Costs(c) \in [{"cost"} -> Nat] /\ {"cost"} \in SUBSET Column
    BY UsageAssumption DEF TypeOK, Costs, Column, RequestType
  <1>2. /\ counter' \in Table /\ used' \in Table
        /\ expires' \in [User -> [Column -> [Date -> Nat \cup {Never}]]]
    BY <1>1, CountEffect DEF Classify, TypeOK
  <1>3. request' \in [Request -> RequestType]
    BY UsageAssumption DEF Classify, Update, TypeOK, RequestType
  <1>4. QED
    BY <1>2, <1>3 DEF Classify, TypeOK, clock

\* What an answer adds.
Amounts(r, t, c) == [k \in Column \cap {request[r].source, "cost"} |-> IF k = "cost" THEN c ELSE t]

LEMMA AmountsType ==
  ASSUME TypeOK, NEW r \in Request, NEW t \in 1..MaxTokens, NEW c \in 0..MaxCost
  PROVE  Amounts(r, t, c) \in [Column \cap {request[r].source, "cost"} -> Nat]
  BY UsageAssumption DEF Amounts, TypeOK, RequestType

LEMMA AnswerType ==
  ASSUME TypeOK, NEW r \in Request, NEW t \in 1..MaxTokens, NEW c \in 0..MaxCost, Answer(r, t, c)
  PROVE  TypeOK'
  <1>1. request[r].user \in User /\ Count(request[r].user, Amounts(r, t, c))
    BY DEF Answer, TypeOK, RequestType, Amounts
  <1>2. /\ counter' \in Table /\ used' \in Table
        /\ expires' \in [User -> [Column -> [Date -> Nat \cup {Never}]]]
    BY <1>1, AmountsType, CountEffect
  <1>3. request' \in [Request -> RequestType]
    BY UsageAssumption DEF Answer, Update, Idle, TypeOK, RequestType
  <1>4. monthly' \in [User -> Nat]
    BY UsageAssumption DEF Answer, TypeOK, RequestType
  <1>5. QED
    BY <1>2, <1>3, <1>4 DEF Answer, TypeOK, clock

LEMMA DrawImageType ==
  ASSUME TypeOK, NEW r \in Request, NEW c \in 0..MaxCost, DrawImage(r, c)
  PROVE  TypeOK'
  <1>1. request[r].user \in User /\ Costs(c) \in [{"cost"} -> Nat] /\ {"cost"} \in SUBSET Column
    BY UsageAssumption DEF TypeOK, Costs, Column, RequestType
  <1>2. /\ counter' \in Table /\ used' \in Table
        /\ expires' \in [User -> [Column -> [Date -> Nat \cup {Never}]]]
    BY <1>1, CountEffect DEF DrawImage
  <1>3. request' \in [Request -> RequestType]
    BY UsageAssumption DEF DrawImage, Update, Idle, TypeOK, RequestType
  <1>4. QED
    BY <1>2, <1>3 DEF DrawImage, TypeOK, clock

LEMMA TickType == TypeOK /\ Tick => TypeOK'
  <1> SUFFICES ASSUME TypeOK, Tick PROVE TypeOK'
    OBVIOUS
  <1>1. now' \in Nat /\ midnight' \in Nat /\ date' \in 0..(MaxDate - 1)
        /\ midnight' =< now' /\ now' < midnight' + Day
    <2>1. /\ now \in Nat /\ midnight \in Nat /\ date \in 0..(MaxDate - 1)
          /\ midnight =< now /\ now < midnight + Day
          /\ Day \in Nat \ {0} /\ MaxDate \in Nat \ {0}
      BY UsageAssumption DEF TypeOK
    <2>2. /\ now + 1 = midnight + Day => date + 1 < MaxDate
          /\ now' = now + 1
          /\ IF now' = midnight + Day THEN midnight' = now' /\ date' = date + 1
             ELSE midnight' = midnight /\ date' = date
      BY DEF Tick
    <2>3. QED
      BY <2>1, <2>2
  <1>2. /\ counter' \in Table
        /\ expires' \in [User -> [Column -> [Date -> Nat \cup {Never}]]]
    BY DEF Tick, TypeOK, Table
  <1>3. flush' \in JobType
    BY DEF Tick, TypeOK, JobType
  <1>4. monthly' \in [User -> Nat]
    BY DEF Tick, TypeOK
  <1>5. QED
    BY <1>1, <1>2, <1>3, <1>4 DEF Tick, TypeOK

LEMMA FlushType ==
  ASSUME TypeOK,
         \/ StartFlush \/ ReadCounters \/ FlushFails
         \/ (\E k \in Column : Scan(k)) \/ (\E u \in User : Upsert(u))
  PROVE  TypeOK'
  <1>1. Rest \in JobType
    BY UsageAssumption DEF Rest, Nothing, Date, JobType
  <1>2. CASE StartFlush
    <2>1. date \in Date
      BY UsageAssumption DEF TypeOK, Date
    <2>2. flush' \in JobType
      BY <1>1, <1>2, <2>1 DEF StartFlush, JobType
    <2>3. QED
      BY <1>2, <2>2 DEF StartFlush, TypeOK, clock, keys
  <1>3. CASE ReadCounters
    <2>1. flush.found \subseteq User \X Column
      BY DEF TypeOK, JobType
    <2>2. {key[1] : key \in flush.found} \subseteq User
      BY <2>1
    <2>3. [u \in User |-> [k \in Column |->
             IF <<u, k>> \in flush.found THEN counter[u][k][KeyDate(k)] ELSE 0]]
          \in [User -> [Column -> Nat]]
      BY DEF TypeOK, KeyDate, JobType, Table
    <2>4. flush' \in JobType
      BY <1>1, <1>3, <2>2, <2>3 DEF ReadCounters, TypeOK, JobType
    <2>5. QED
      BY <1>3, <2>4 DEF ReadCounters, TypeOK, clock, keys
  <1>4. CASE FlushFails
    BY <1>1, <1>4 DEF FlushFails, TypeOK, clock, keys
  <1>5. ASSUME NEW k \in Column, Scan(k) PROVE TypeOK'
    <2>1. Found(k) \subseteq User \X Column
      BY DEF Found
    <2>2. flush' \in JobType
      BY <1>5, <2>1 DEF Scan, TypeOK, JobType
    <2>3. QED
      BY <1>5, <2>2 DEF Scan, TypeOK, clock, keys
  <1>6. ASSUME NEW u \in User, Upsert(u) PROVE TypeOK'
    <2>1. flush' \in JobType
      BY <1>1, <1>6 DEF Upsert, TypeOK, JobType
    <2>2. row' \in [User -> [Date -> [Column -> Nat]]]
      BY <1>6 DEF Upsert, Upserted, TypeOK, JobType
    <2>3. QED
      BY <1>6, <2>1, <2>2 DEF Upsert, TypeOK, clock, keys
  <1>7. QED
    BY <1>2, <1>3, <1>4, <1>5, <1>6

LEMMA NextTypeOK == TypeOK /\ [Next]_vars => TypeOK'
  <1> SUFFICES ASSUME TypeOK, [Next]_vars PROVE TypeOK'
    OBVIOUS
  <1>1. ASSUME NEW r \in Request, NEW u \in User, AssertBudget(r, u) PROVE TypeOK'
    <2>0. Idle \in RequestType
      BY UsageAssumption DEF Idle, RequestType
    <2>1. [Idle EXCEPT !.at = "checked", !.user = u] \in RequestType
      BY <2>0 DEF RequestType
    <2>2. request' \in [Request -> RequestType]
      BY <1>1, <2>1 DEF AssertBudget, Update, TypeOK
    <2>3. begun' \in Nat
      BY <1>1 DEF AssertBudget, TypeOK
    <2>4. QED
      BY <1>1, <2>2, <2>3 DEF AssertBudget, TypeOK, clock, keys
  <1>2. ASSUME NEW r \in Request, NEW source \in {"free", "paid"}, CheckQuota(r, source) PROVE TypeOK'
    BY <1>2 DEF CheckQuota, Update, TypeOK, RequestType, clock, keys
  <1>3. ASSUME NEW r \in Request, Drop(r) PROVE TypeOK'
    BY <1>3, UsageAssumption DEF Drop, Update, Idle, TypeOK, RequestType, clock, keys
  <1>4. CASE UNCHANGED vars
    BY <1>4 DEF vars, clock, keys, TypeOK
  <1>5. QED
    BY <1>1, <1>2, <1>3, <1>4, ClassifyType, AnswerType, DrawImageType, TickType, FlushType DEF Next

\* The types of all variables, for every choice of the constants.
THEOREM TypeCorrect == Spec => []TypeOK
  BY InitTypeOK, NextTypeOK, PTL DEF Spec
-----------------------------------------------------------------------------
(* Keys *)

\* When the day that a key of this column now belongs to ends.
EndOfDay(k) ==
  IF k # "cost" /\ now - midnight + IranShift >= Day THEN midnight + Day + (Day - IranShift)
  ELSE IF k # "cost" THEN midnight + (Day - IranShift)
  ELSE midnight + Day

\* The key is gone and its day is over: it will not come back.
Gone(u, k, d) == expires[u][k][d] = Never /\ d < DateOf(k)

\* A key that exists holds everything consumed on its day, and outlives that day; a
\* key that does not is one of a day that is over, or nothing was consumed.
KeyHolds(u, k, d) ==
  /\ expires[u][k][d] # Never => /\ counter[u][k][d] = used[u][k][d]
                                 /\ d =< DateOf(k)
                                 /\ d = DateOf(k) => expires[u][k][d] >= EndOfDay(k)
  /\ expires[u][k][d] = Never => /\ counter[u][k][d] = 0
                                 /\ used[u][k][d] = 0 \/ d < DateOf(k)
KeysHold == \A u \in User, k \in Column, d \in Date : KeyHolds(u, k, d)

LEMMA CountKeeps ==
  ASSUME TypeOK, KeysHold, NEW u \in User, NEW S \in SUBSET Column, NEW amounts \in [S -> Nat],
         Count(u, amounts), UNCHANGED clock
  PROVE  KeysHold'
  <1> SUFFICES ASSUME NEW v \in User, NEW k \in Column, NEW d \in Date PROVE KeyHolds(v, k, d)'
    BY DEF KeysHold
  <1>0. Effect(u, S, amounts)
    BY CountEffect
  <1>1. KeyHolds(v, k, d) /\ EffectOn(v, k, d, u, S, amounts)
    BY <1>0 DEF KeysHold, Effect
  <1>2. DateOf(k)' = DateOf(k) /\ EndOfDay(k)' = EndOfDay(k) /\ now' = now
    BY DEF DateOf, EndOfDay, clock
  <1>3. now + DayTtl >= EndOfDay(k) /\ now + DayTtl # Never
    BY UsageAssumption DEF TypeOK, EndOfDay
  <1>4. CASE v = u /\ k \in S /\ d = DateOf(k)
    <2>1. /\ counter'[v][k][d] = counter[v][k][d] + amounts[k]
          /\ used'[v][k][d] = used[v][k][d] + amounts[k]
          /\ expires'[v][k][d] = IF expires[v][k][d] = Never THEN now + DayTtl
                                 ELSE expires[v][k][d]
      BY <1>1, <1>4 DEF EffectOn, Hit
    <2>2. DateOf(k) \in Int
      BY DateIsDate
    <2>3. counter[v][k][d] = used[v][k][d]
      BY <1>1, <1>4, <2>2 DEF KeyHolds
    <2>4. QED
      BY <1>1, <1>2, <1>3, <1>4, <2>1, <2>2, <2>3 DEF KeyHolds
  <1>5. CASE ~(v = u /\ k \in S /\ d = DateOf(k))
    <2>1. /\ counter'[v][k][d] = counter[v][k][d]
          /\ used'[v][k][d] = used[v][k][d]
          /\ expires'[v][k][d] = expires[v][k][d]
      BY <1>1, <1>5 DEF EffectOn, Hit
    <2>2. QED
      BY <1>1, <1>2, <2>1 DEF KeyHolds
  <1>6. QED
    BY <1>4, <1>5

\* The date of a column's key never goes back, and goes on when its day ends.
LEMMA DaysPass ==
  ASSUME TypeOK, Tick, NEW k \in Column
  PROVE  \/ DateOf(k)' = DateOf(k) /\ EndOfDay(k)' = EndOfDay(k) /\ now' < EndOfDay(k)
         \/ DateOf(k)' = DateOf(k) + 1 /\ now' >= EndOfDay(k)
  <1>1. /\ now \in Nat /\ midnight \in Nat /\ date \in Int
        /\ midnight =< now /\ now < midnight + Day
        /\ Day \in Nat \ {0} /\ IranShift \in 1..(Day - 1)
    BY UsageAssumption DEF TypeOK
  <1>2. /\ now' = now + 1
        /\ IF now' = midnight + Day THEN midnight' = now' /\ date' = date + 1
           ELSE midnight' = midnight /\ date' = date
    BY DEF Tick
  <1>3. QED
    BY <1>1, <1>2 DEF DateOf, EndOfDay

LEMMA TickKeeps == ASSUME TypeOK, KeysHold, Tick PROVE KeysHold'
  <1> SUFFICES ASSUME NEW v \in User, NEW k \in Column, NEW d \in Date PROVE KeyHolds(v, k, d)'
    BY DEF KeysHold
  <1> DEFINE due == expires[v][k][d] # Never /\ expires[v][k][d] =< now'
  <1>1. KeyHolds(v, k, d)
    BY DEF KeysHold
  <1>2. /\ counter'[v][k][d] = IF due THEN 0 ELSE counter[v][k][d]
        /\ expires'[v][k][d] = IF due THEN Never ELSE expires[v][k][d]
        /\ used'[v][k][d] = used[v][k][d]
    BY DEF Tick
  <1>3. /\ DateOf(k) \in Int /\ d \in Int /\ now' \in Int /\ EndOfDay(k) \in Int
        /\ expires[v][k][d] \in Nat \cup {Never}
    <2>0. DateOf(k) \in Int
      BY DateIsDate
    <2>1. d \in Int /\ expires[v][k][d] \in Nat \cup {Never}
      BY UsageAssumption DEF TypeOK, Date
    <2>2. now \in Int /\ midnight \in Int /\ Day \in Int /\ IranShift \in Int /\ now' = now + 1
      BY UsageAssumption DEF TypeOK, Tick
    <2>3. QED
      BY <2>0, <2>1, <2>2 DEF EndOfDay
  <1>4. DateOf(k)' \in Int /\ EndOfDay(k)' \in Int
    BY TickType, DateIsDate, UsageAssumption DEF TypeOK, EndOfDay, DateOf
  <1>5. \/ DateOf(k)' = DateOf(k) /\ EndOfDay(k)' = EndOfDay(k) /\ now' < EndOfDay(k)
        \/ DateOf(k)' = DateOf(k) + 1 /\ now' >= EndOfDay(k)
    BY DaysPass
  <1> HIDE DEF due
  <1>6. CASE due
    BY <1>1, <1>2, <1>3, <1>5, <1>6 DEF KeyHolds, due
  <1>7. CASE ~due
    BY <1>1, <1>2, <1>3, <1>5, <1>7 DEF KeyHolds, due
  <1>8. QED
    BY <1>6, <1>7

\* What a request does leaves the keys as they should be, and only adds to what was used.
LEMMA CountGrows ==
  ASSUME TypeOK, NEW u \in User, NEW S \in SUBSET Column, NEW amounts \in [S -> Nat],
         Count(u, amounts), NEW v \in User, NEW k \in Column, NEW d \in Date
  PROVE  /\ used[v][k][d] =< used'[v][k][d]
         /\ d # DateOf(k) => expires'[v][k][d] = expires[v][k][d]
  <1>1. EffectOn(v, k, d, u, S, amounts)
    BY CountEffect DEF Effect
  <1>2. used[v][k][d] \in Nat
    BY DEF TypeOK, Table
  <1>3. k \in S => amounts[k] \in Nat
    OBVIOUS
  <1>4. QED
    BY <1>1, <1>2, <1>3 DEF EffectOn, Hit

\* A key that is gone stays so, and what was used stays used.
Goes(u, k, d) ==
  /\ used[u][k][d] =< used'[u][k][d]
  /\ Gone(u, k, d) => Gone(u, k, d)'

\* The step adds amounts to the keys of one user, and no time passes.
Counts ==
  \E u \in User, S \in SUBSET Column : \E amounts \in [S -> Nat] : Count(u, amounts)

LEMMA CountGoes ==
  ASSUME TypeOK, Counts, UNCHANGED clock, NEW v \in User, NEW k \in Column, NEW d \in Date
  PROVE  Goes(v, k, d)
  <1>1. PICK u \in User, S \in SUBSET Column : \E amounts \in [S -> Nat] : Count(u, amounts)
    BY DEF Counts
  <1>2. PICK amounts \in [S -> Nat] : Count(u, amounts)
    BY <1>1
  <1>3. /\ used[v][k][d] =< used'[v][k][d]
        /\ d # DateOf(k) => expires'[v][k][d] = expires[v][k][d]
    BY <1>2, CountGrows
  <1>4. DateOf(k)' = DateOf(k) /\ DateOf(k) \in Int /\ d \in Int
    BY DateIsDate, UsageAssumption DEF DateOf, clock, Date
  <1>5. QED
    BY <1>3, <1>4 DEF Goes, Gone

LEMMA TickGoes ==
  ASSUME TypeOK, Tick, NEW v \in User, NEW k \in Column, NEW d \in Date
  PROVE  Goes(v, k, d)
  <1>1. used'[v][k][d] = used[v][k][d] /\ used[v][k][d] \in Nat
    BY DEF Tick, TypeOK, Table
  <1>2. expires[v][k][d] = Never => expires'[v][k][d] = Never
    BY DEF Tick
  <1>3. DateOf(k)' = DateOf(k) \/ DateOf(k)' = DateOf(k) + 1
    BY DaysPass
  <1>4. DateOf(k) \in Int /\ d \in Int
    BY DateIsDate, UsageAssumption DEF Date
  <1>5. QED
    BY <1>1, <1>2, <1>3, <1>4 DEF Goes, Gone

\* Every step lets time pass, counts, or leaves the clock and the keys alone.
LEMMA Steps ==
  ASSUME TypeOK, [Next]_vars
  PROVE  \/ Tick
         \/ Counts /\ UNCHANGED <<clock, flush, row>>
         \/ UNCHANGED <<clock, counter, expires, used>>
  <1>1. ASSUME NEW r \in Request, NEW c \in 0..MaxCost, Classify(r, c) \/ DrawImage(r, c)
        PROVE  \/ Counts /\ UNCHANGED <<clock, flush, row>>
               \/ UNCHANGED <<clock, counter, expires, used>>
    <2>1. request[r].user \in User /\ Costs(c) \in [{"cost"} -> Nat] /\ {"cost"} \in SUBSET Column
      BY UsageAssumption DEF TypeOK, Costs, Column, RequestType
    <2>2. CASE Count(request[r].user, Costs(c))
      BY <1>1, <2>1, <2>2 DEF Classify, DrawImage, Counts
    <2>3. CASE Classify(r, c) /\ UNCHANGED <<counter, expires, used>>
      BY <2>3 DEF Classify
    <2>4. QED
      BY <1>1, <2>2, <2>3 DEF Classify, DrawImage
  <1>2. ASSUME NEW r \in Request, NEW t \in 1..MaxTokens, NEW c \in 0..MaxCost, Answer(r, t, c)
        PROVE  Counts /\ UNCHANGED <<clock, flush, row>>
    <2>1. request[r].user \in User /\ Count(request[r].user, Amounts(r, t, c))
      BY <1>2 DEF Answer, TypeOK, RequestType, Amounts
    <2>2. Amounts(r, t, c) \in [Column \cap {request[r].source, "cost"} -> Nat]
      BY AmountsType
    <2>3. QED
      BY <1>2, <2>1, <2>2 DEF Answer, Counts
  <1>3. ASSUME NEW r \in Request, NEW u \in User, AssertBudget(r, u)
        PROVE  UNCHANGED <<clock, counter, expires, used>>
    BY <1>3 DEF AssertBudget, keys
  <1>4. ASSUME NEW r \in Request, NEW source \in {"free", "paid"}, CheckQuota(r, source)
        PROVE  UNCHANGED <<clock, counter, expires, used>>
    BY <1>4 DEF CheckQuota, keys
  <1>5. ASSUME NEW r \in Request, Drop(r) PROVE UNCHANGED <<clock, counter, expires, used>>
    BY <1>5 DEF Drop, keys
  <1>6. ASSUME NEW u \in User, Upsert(u) PROVE UNCHANGED <<clock, counter, expires, used>>
    BY <1>6 DEF Upsert, keys
  <1>7. ASSUME NEW k \in Column, Scan(k) PROVE UNCHANGED <<clock, counter, expires, used>>
    BY <1>7 DEF Scan, keys
  <1>8. ASSUME StartFlush \/ ReadCounters \/ FlushFails \/ UNCHANGED vars
        PROVE  UNCHANGED <<clock, counter, expires, used>>
    BY <1>8 DEF StartFlush, ReadCounters, FlushFails, keys, vars
  <1>9. QED
    BY <1>1, <1>2, <1>3, <1>4, <1>5, <1>6, <1>7, <1>8 DEF Next

LEMMA StepGoes ==
  ASSUME TypeOK, [Next]_vars, NEW v \in User, NEW k \in Column, NEW d \in Date
  PROVE  Goes(v, k, d)
  <1>1. ASSUME UNCHANGED <<clock, counter, expires, used>> PROVE Goes(v, k, d)
    <2>1. used[v][k][d] \in Nat
      BY DEF TypeOK, Table
    <2>2. DateOf(k)' = DateOf(k)
      BY <1>1 DEF DateOf, clock
    <2>3. QED
      BY <1>1, <2>1, <2>2 DEF Goes, Gone
  <1>2. QED
    BY <1>1, Steps, CountGoes, TickGoes

LEMMA StepKeeps == TypeOK /\ KeysHold /\ [Next]_vars => KeysHold'
  <1> SUFFICES ASSUME TypeOK, KeysHold, [Next]_vars PROVE KeysHold'
    OBVIOUS
  <1>1. CASE Counts /\ UNCHANGED clock
    <2>1. PICK u \in User, S \in SUBSET Column : \E amounts \in [S -> Nat] : Count(u, amounts)
      BY <1>1 DEF Counts
    <2>2. PICK amounts \in [S -> Nat] : Count(u, amounts)
      BY <2>1
    <2>3. QED
      BY <1>1, <2>2, CountKeeps
  <1>2. CASE UNCHANGED <<clock, counter, expires, used>>
    BY <1>2 DEF KeysHold, KeyHolds, DateOf, EndOfDay, clock
  <1>3. QED
    BY <1>1, <1>2, Steps, TickKeeps

LEMMA InitKeysHold == Init => KeysHold
  BY DEF Init, KeysHold, KeyHolds

\* As long as its day lasts, a key holds everything consumed on that day, although it
\* expires a fixed time after its first write.
THEOREM CountersCorrect == Spec => []CountersAreSound
  <1>1. TypeOK /\ KeysHold => CountersAreSound
    <2>1. TypeOK /\ KeysHold => CountersHoldTheirDay
      BY DateIsDate DEF KeysHold, KeyHolds, CountersHoldTheirDay, TypeOK
    <2>2. QED
      BY <2>1 DEF CountersAreSound
  <1>2. QED
    BY <1>1, InitTypeOK, NextTypeOK, InitKeysHold, StepKeeps, PTL DEF Spec
-----------------------------------------------------------------------------
(* Rows *)

\* The rows that the job has still to write show nothing that was not consumed, and
\* take back what a row shows only of keys that are gone.
ScanSound ==
  flush.at = "scan" =>
    \A u \in User, k \in Column :
      \/ k \in flush.scans
      \/ <<u, k>> \in flush.found
      \/ row[u][flush.date][k] = 0
      \/ Gone(u, k, flush.date)

WriteSound ==
  flush.at = "write" =>
    \A u \in flush.writes, k \in Column :
      /\ flush.rows[u][k] =< used[u][k][flush.date]
      /\ flush.rows[u][k] >= row[u][flush.date][k] \/ Gone(u, k, flush.date)

RowInv == TypeOK /\ KeysHold /\ RowsNeverExceedUse /\ ScanSound /\ WriteSound

\* The values the clauses above compare are numbers.
LEMMA Numbers ==
  ASSUME TypeOK, NEW u \in User, NEW k \in Column, NEW d \in Date
  PROVE  /\ flush.date \in Date
         /\ used[u][k][d] \in Nat /\ counter[u][k][d] \in Nat
         /\ row[u][d][k] \in Nat /\ flush.rows[u][k] \in Nat
         /\ DateOf(k) \in Int /\ d \in Int
  <1>1. DateOf(k) \in Int /\ d \in Int
    BY DateIsDate, UsageAssumption DEF Date
  <1>2. QED
    BY <1>1 DEF TypeOK, JobType, Table

\* The same for the date of the job.
LEMMA JobNumbers ==
  ASSUME RowInv, NEW u \in User, NEW k \in Column
  PROVE  /\ flush.date \in Date /\ flush.date \in Int /\ DateOf(k) \in Int
         /\ used[u][k][flush.date] \in Nat /\ counter[u][k][flush.date] \in Nat
         /\ row[u][flush.date][k] \in Nat /\ flush.rows[u][k] \in Nat
         /\ KeyHolds(u, k, flush.date)
         /\ row[u][flush.date][k] =< used[u][k][flush.date]
  <1>1. TypeOK /\ KeysHold /\ RowsNeverExceedUse
    BY DEF RowInv
  <1>2. flush.date \in Date
    BY <1>1 DEF TypeOK, JobType
  <1>3. QED
    BY <1>1, <1>2, Numbers DEF KeysHold, RowsNeverExceedUse

\* A step that leaves the job and the rows alone.
LEMMA OtherStepsKeepRows ==
  ASSUME RowInv, [Next]_vars, UNCHANGED row,
         flush' = [flush EXCEPT !.late = flush'.late] \/ flush' = Rest
  PROVE  RowsNeverExceedUse' /\ ScanSound' /\ WriteSound'
  <1>1. ASSUME NEW u \in User, NEW k \in Column, NEW d \in Date
        PROVE  Goes(u, k, d)
    BY StepGoes DEF RowInv
  <1>2. ASSUME NEW u \in User, NEW k \in Column, NEW d \in Date
        PROVE  row'[u][d][k] =< used'[u][k][d]
    <2>1. used'[u][k][d] \in Nat
      BY NextTypeOK DEF RowInv, TypeOK, Table
    <2>2. QED
      BY <1>1, <2>1, Numbers DEF RowInv, RowsNeverExceedUse, Goes
  <1>3. CASE flush' = Rest
    BY <1>2, <1>3 DEF RowsNeverExceedUse, ScanSound, WriteSound, Rest
  <1>4. CASE flush' = [flush EXCEPT !.late = flush'.late]
    <2>1. /\ flush'.at = flush.at /\ flush'.date = flush.date /\ flush'.scans = flush.scans
          /\ flush'.found = flush.found /\ flush'.writes = flush.writes /\ flush'.rows = flush.rows
      BY <1>4 DEF RowInv, TypeOK, JobType
    <2>2. ScanSound'
      <3> SUFFICES ASSUME flush.at = "scan", NEW u \in User, NEW k \in Column,
                          k \notin flush.scans, <<u, k>> \notin flush.found,
                          row[u][flush.date][k] # 0,
                          NEW d \in Date, d = flush.date
                   PROVE  Gone(u, k, d)'
        BY <2>1, JobNumbers DEF ScanSound, Gone, DateOf
      <3>1. Gone(u, k, d)
        BY DEF RowInv, ScanSound
      <3>2. QED
        BY <1>1, <3>1 DEF Goes
    <2>3. WriteSound'
      <3> SUFFICES ASSUME flush.at = "write", NEW u \in flush.writes, NEW k \in Column
                   PROVE  /\ flush.rows[u][k] =< used'[u][k][flush.date]
                          /\ flush.rows[u][k] >= row[u][flush.date][k] \/ Gone(u, k, flush.date)'
        BY <2>1 DEF WriteSound, Gone, DateOf
      <3>1. u \in User /\ flush.date \in Date
        BY DEF RowInv, TypeOK, JobType
      <3>2. /\ flush.rows[u][k] =< used[u][k][flush.date]
            /\ flush.rows[u][k] >= row[u][flush.date][k] \/ Gone(u, k, flush.date)
        BY DEF RowInv, WriteSound
      <3>3. Goes(u, k, flush.date) /\ used[u][k][flush.date] \in Nat /\ flush.rows[u][k] \in Nat
        BY <1>1, <3>1, Numbers DEF RowInv
      <3>4. used'[u][k][flush.date] \in Nat
        BY <3>1, NextTypeOK DEF RowInv, TypeOK, Table
      <3>5. Gone(u, k, flush.date) => Gone(u, k, flush.date)'
        BY <3>3 DEF Goes
      <3>6. QED
        BY <3>2, <3>3, <3>4, <3>5 DEF Goes
    <2>4. QED
      BY <1>2, <2>2, <2>3 DEF RowsNeverExceedUse
  <1>5. QED
    BY <1>3, <1>4

LEMMA ScanKeepsRows ==
  ASSUME RowInv, NEW k \in Column, Scan(k)
  PROVE  RowsNeverExceedUse' /\ ScanSound' /\ WriteSound'
  <1>1. /\ flush'.at = "scan" /\ flush'.date = flush.date
        /\ flush'.scans = flush.scans \ {k} /\ flush'.found = flush.found \cup Found(k)
    BY DEF Scan, RowInv, TypeOK, JobType
  <1>2. UNCHANGED <<clock, keys, row>>
    BY DEF Scan
  <1>3. ASSUME NEW u \in User
        PROVE  \/ <<u, k>> \in Found(k)
               \/ row[u][flush.date][k] = 0
               \/ Gone(u, k, flush.date)
    <2>1. CASE expires[u][k][flush.date] # Never
      BY <2>1 DEF Found, KeyDate
    <2>2. CASE expires[u][k][flush.date] = Never
      <3>1. QED
        BY <2>2, JobNumbers DEF KeyHolds, Gone
    <2>3. QED
      BY <2>1, <2>2
  <1>4. ASSUME NEW u \in User, NEW l \in Column
        PROVE  \/ l \in flush.scans \ {k}
               \/ <<u, l>> \in flush.found \cup Found(k)
               \/ row[u][flush.date][l] = 0
               \/ Gone(u, l, flush.date)
    BY <1>3 DEF RowInv, ScanSound, Scan
  <1>5. ScanSound'
    BY <1>1, <1>2, <1>4 DEF ScanSound, Gone, DateOf, clock, keys
  <1>6. QED
    BY <1>1, <1>2, <1>5 DEF WriteSound, RowsNeverExceedUse, RowInv, keys

LEMMA ReadKeepsRows ==
  ASSUME RowInv, ReadCounters
  PROVE  RowsNeverExceedUse' /\ ScanSound' /\ WriteSound'
  <1>1. UNCHANGED <<clock, keys, row>>
    BY DEF ReadCounters
  <1>2. RowsNeverExceedUse'
    BY <1>1 DEF RowsNeverExceedUse, RowInv, keys
  <1>3. CASE flush' = Rest
    BY <1>2, <1>3 DEF ScanSound, WriteSound, Rest
  <1>4. CASE flush' # Rest
    <2>1. /\ flush'.at = "write" /\ flush'.date = flush.date /\ flush'.writes \subseteq User
          /\ \A u \in User, k \in Column :
               flush'.rows[u][k] = IF <<u, k>> \in flush.found THEN counter[u][k][flush.date] ELSE 0
      <3>1. {key[1] : key \in flush.found} \subseteq User
        BY DEF RowInv, TypeOK, JobType
      <3>2. QED
        BY <1>4, <3>1 DEF ReadCounters, KeyDate, RowInv, TypeOK, JobType
    <2>2. ASSUME NEW u \in User, NEW k \in Column
          PROVE  /\ flush'.rows[u][k] =< used[u][k][flush.date]
                 /\ flush'.rows[u][k] >= row[u][flush.date][k] \/ Gone(u, k, flush.date)
      <3>1. KeyHolds(u, k, flush.date) /\ row[u][flush.date][k] =< used[u][k][flush.date]
        BY JobNumbers
      <3>2. /\ used[u][k][flush.date] \in Nat /\ counter[u][k][flush.date] \in Nat
            /\ row[u][flush.date][k] \in Nat /\ DateOf(k) \in Int /\ flush.date \in Int
        BY JobNumbers
      <3>3. CASE <<u, k>> \in flush.found
        BY <2>1, <3>1, <3>2, <3>3 DEF KeyHolds, Gone
      <3>4. CASE <<u, k>> \notin flush.found
        <4>1. row[u][flush.date][k] = 0 \/ Gone(u, k, flush.date)
          BY <3>4 DEF RowInv, ScanSound, ReadCounters
        <4>2. QED
          BY <2>1, <3>2, <3>4, <4>1
      <3>5. QED
        BY <3>3, <3>4
    <2>3. WriteSound'
      BY <1>1, <2>1, <2>2 DEF WriteSound, Gone, DateOf, clock, keys
    <2>4. QED
      BY <1>2, <2>1, <2>3 DEF ScanSound
  <1>5. QED
    BY <1>3, <1>4

LEMMA UpsertKeepsRows ==
  ASSUME RowInv, NEW v \in User, Upsert(v)
  PROVE  RowsNeverExceedUse' /\ ScanSound' /\ WriteSound'
  <1>1. UNCHANGED <<clock, keys>>
    BY DEF Upsert
  <1>2. ASSUME NEW u \in User, NEW k \in Column, NEW d \in Date
        PROVE  row'[u][d][k] = IF u = v /\ d = flush.date THEN flush.rows[v][k] ELSE row[u][d][k]
    BY DEF Upsert, Upserted, RowInv, TypeOK, JobType
  <1>3. \A k \in Column : flush.rows[v][k] =< used[v][k][flush.date]
    BY DEF RowInv, WriteSound, Upsert
  <1>4. RowsNeverExceedUse'
    BY <1>1, <1>2, <1>3 DEF RowsNeverExceedUse, RowInv, keys
  <1>5. CASE flush' = Rest
    BY <1>4, <1>5 DEF ScanSound, WriteSound, Rest
  <1>6. CASE flush' = [flush EXCEPT !.writes = flush.writes \ {v}]
    <2>1. /\ flush'.at = "write" /\ flush'.date = flush.date /\ flush'.rows = flush.rows
          /\ flush'.writes = flush.writes \ {v} /\ flush.writes \subseteq User /\ flush.date \in Date
      BY <1>6 DEF Upsert, RowInv, TypeOK, JobType
    <2>2. \A u \in flush.writes \ {v}, k \in Column : row'[u][flush.date][k] = row[u][flush.date][k]
      BY <1>2, <2>1
    <2>3. WriteSound'
      BY <1>1, <2>1, <2>2 DEF WriteSound, RowInv, Gone, DateOf, Upsert, clock, keys
    <2>4. QED
      BY <1>4, <2>1, <2>3 DEF ScanSound
  <1>7. QED
    BY <1>5, <1>6 DEF Upsert

LEMMA StartKeepsRows ==
  ASSUME RowInv, StartFlush
  PROVE  RowsNeverExceedUse' /\ ScanSound' /\ WriteSound'
  <1>1. flush'.at = "scan" /\ flush'.scans = Column
    BY DEF StartFlush, Rest
  <1>2. QED
    BY <1>1 DEF StartFlush, RowsNeverExceedUse, ScanSound, WriteSound, RowInv, keys

LEMMA StepKeepsRows == RowInv /\ [Next]_vars => RowInv'
  <1> SUFFICES ASSUME RowInv, [Next]_vars PROVE RowInv'
    OBVIOUS
  <1>1. TypeOK' /\ KeysHold'
    BY NextTypeOK, StepKeeps DEF RowInv
  <1>2. CASE Tick \/ FlushFails \/ UNCHANGED <<flush, row>>
    <2>1. UNCHANGED row /\ (flush' = [flush EXCEPT !.late = flush'.late] \/ flush' = Rest)
      BY <1>2 DEF Tick, FlushFails, RowInv, TypeOK, JobType
    <2>2. QED
      BY <1>1, <2>1, OtherStepsKeepRows DEF RowInv
  <1>3. CASE StartFlush \/ ReadCounters \/ (\E k \in Column : Scan(k)) \/ (\E u \in User : Upsert(u))
    BY <1>1, <1>3, StartKeepsRows, ReadKeepsRows, ScanKeepsRows, UpsertKeepsRows DEF RowInv
  <1>4. CASE \E r \in Request, u \in User : AssertBudget(r, u)
    BY <1>2, <1>4 DEF AssertBudget
  <1>5. CASE \E r \in Request, c \in 0..MaxCost :
               Classify(r, c) \/ DrawImage(r, c) \/ \E t \in 1..MaxTokens : Answer(r, t, c)
    BY <1>2, <1>5 DEF Classify, DrawImage, Answer
  <1>6. CASE \E r \in Request : Drop(r) \/ \E source \in {"free", "paid"} : CheckQuota(r, source)
    BY <1>2, <1>6 DEF Drop, CheckQuota
  <1>7. CASE UNCHANGED vars
    BY <1>2, <1>7 DEF vars
  <1>8. QED
    BY <1>2, <1>3, <1>4, <1>5, <1>6, <1>7 DEF Next

LEMMA InitRowInv == Init => RowInv
  <1> SUFFICES ASSUME Init PROVE RowInv
    OBVIOUS
  <1>1. TypeOK /\ KeysHold
    BY InitTypeOK, InitKeysHold
  <1>2. RowsNeverExceedUse /\ ScanSound /\ WriteSound
    BY DEF Init, RowsNeverExceedUse, ScanSound, WriteSound, Rest, Nothing, Column
  <1>3. QED
    BY <1>1, <1>2 DEF RowInv

LEMMA RowInvHolds == Spec => []RowInv
  BY InitRowInv, StepKeepsRows, PTL DEF Spec

\* However often the job runs, fails, or meets keys that change under it, no row shows
\* more than was consumed.
THEOREM RowsCorrect == Spec => []RowsNeverExceedUse
  <1>1. RowInv => RowsNeverExceedUse
    BY DEF RowInv
  <1>2. QED
    BY <1>1, RowInvHolds, PTL

\* What a row has once shown is taken back only when the key it was copied from has
\* expired and the day of that key is over.
THEOREM RowsShrinkCorrectly == Spec => RowsShrinkOnlyAfterExpiry
  <1> DEFINE Shrinks(u, k, d) == row'[u][d][k] < row[u][d][k]
             Excused(u, k, d) == DateOf(k) > d /\ expires[u][k][d] = Never
             Step == \A u \in User, k \in Column, d \in Date : Shrinks(u, k, d) => Excused(u, k, d)
  <1>1. ASSUME RowInv, [Next]_vars PROVE Step
    <2> SUFFICES ASSUME NEW u \in User, NEW k \in Column, NEW d \in Date, Shrinks(u, k, d)
                 PROVE  Excused(u, k, d)
      OBVIOUS
    <2>0. TypeOK
      BY <1>1 DEF RowInv
    <2>1. row[u][d][k] \in Nat /\ DateOf(k) \in Int /\ d \in Int /\ flush.rows[u][k] \in Nat
      BY <2>0, Numbers
    <2>2. row' # row
      BY <2>1
    <2>3. PICK v \in User : Upsert(v)
      BY <1>1, <2>2 DEF Next, vars, Tick, AssertBudget, Classify, DrawImage, Answer, CheckQuota, Drop,
         StartFlush, ReadCounters, FlushFails, Scan
    <2>4. row'[u][d][k] = IF u = v /\ d = flush.date THEN flush.rows[v][k] ELSE row[u][d][k]
      BY <2>0, <2>3 DEF Upsert, Upserted, TypeOK, JobType
    <2>5. u = v /\ d = flush.date /\ flush.rows[u][k] < row[u][d][k]
      BY <2>1, <2>4
    <2>6. Gone(u, k, d)
      BY <1>1, <2>1, <2>3, <2>5 DEF RowInv, WriteSound, Upsert
    <2>7. QED
      BY <2>1, <2>6 DEF Gone
  <1>2. Step => [Step]_vars
    OBVIOUS
  <1>3. QED
    BY <1>1, RowInvHolds, PTL DEF Spec, RowsShrinkOnlyAfterExpiry
-----------------------------------------------------------------------------
(* Free tokens *)

\* The free tokens used on the current day.
Today(u) == used[u]["free"][DateOf("free")]

FreeBound(u) ==
  Today(u) + MaxTokens * Cardinality(Streaming(u)) < FreeTokens + MaxTokens * Cardinality(Request)

LEMMA StreamingCount ==
  ASSUME NEW S \in SUBSET Request
  PROVE  /\ IsFiniteSet(S) /\ Cardinality(S) \in Nat /\ Cardinality(Request) \in Nat
         /\ Cardinality(S) =< Cardinality(Request)
  BY UsageAssumption, FS_Subset, FS_CardinalityType

LEMMA TokenProduct ==
  ASSUME NEW k \in Nat, NEW n \in Nat, k =< n
  PROVE  /\ MaxTokens * k \in Nat /\ MaxTokens * n \in Nat /\ MaxTokens * k =< MaxTokens * n
         /\ MaxTokens * (k + 1) = MaxTokens * k + MaxTokens
  BY UsageAssumption

LEMMA TodayIsNat == ASSUME TypeOK, NEW u \in User PROVE Today(u) \in Nat
  BY DateIsDate DEF TypeOK, Today, Table, Column

\* Whoever has used less than the free tokens of the day is within the bound.
LEMMA BelowFreeTokens ==
  ASSUME NEW t \in Nat, t < FreeTokens, NEW S \in SUBSET Request
  PROVE  t + MaxTokens * Cardinality(S) < FreeTokens + MaxTokens * Cardinality(Request)
  <1>1. /\ MaxTokens * Cardinality(S) \in Nat /\ MaxTokens * Cardinality(Request) \in Nat
        /\ MaxTokens * Cardinality(S) =< MaxTokens * Cardinality(Request)
    BY StreamingCount, TokenProduct
  <1>2. QED
    BY <1>1, UsageAssumption

\* A step that uses nothing and lets no request past the quota keeps the bound.
LEMMA FreeBoundKept ==
  ASSUME TypeOK, TypeOK', NEW u \in User, FreeBound(u), Today(u)' =< Today(u),
         Streaming(u)' \subseteq Streaming(u)
  PROVE  FreeBound(u)'
  <1>1. Streaming(u) \subseteq Request
    BY DEF Streaming
  <1>2. Cardinality(Streaming(u)') =< Cardinality(Streaming(u))
    BY <1>1, StreamingCount, FS_Subset
  <1>3. Cardinality(Streaming(u)') \in Nat /\ Cardinality(Streaming(u)) \in Nat
    BY <1>1, StreamingCount
  <1>4. /\ MaxTokens * Cardinality(Streaming(u)') \in Nat
        /\ MaxTokens * Cardinality(Streaming(u)) \in Nat
        /\ MaxTokens * Cardinality(Streaming(u)') =< MaxTokens * Cardinality(Streaming(u))
    BY <1>2, <1>3, TokenProduct
  <1>5. MaxTokens * Cardinality(Request) \in Nat
    BY StreamingCount, TokenProduct
  <1>6. Today(u) \in Nat /\ Today(u)' \in Nat
    <2>1. DateOf("free")' \in Date
      BY NextDateIsDate
    <2>2. QED
      BY <2>1, TodayIsNat DEF TypeOK, Today, Table, Column
  <1>7. QED
    BY <1>4, <1>5, <1>6, UsageAssumption DEF FreeBound

\* A request that moves on to another state than streaming.
LEMMA RequestLeaves ==
  ASSUME TypeOK, NEW r \in Request, NEW x, x.at # "streaming",
         request' = [request EXCEPT ![r] = x], NEW u \in User
  PROVE  Streaming(u)' \subseteq Streaming(u)
  <1>1. \A q \in Request : request'[q] = IF q = r THEN x ELSE request[q]
    BY DEF TypeOK
  <1>2. QED
    BY <1>1 DEF Streaming

LEMMA FreeTick ==
  ASSUME TypeOK, KeysHold, Tick, NEW u \in User, FreeBound(u)
  PROVE  FreeBound(u)'
  <1>1. TypeOK' /\ KeysHold'
    BY TickType, TickKeeps
  <1>2. used' = used /\ Streaming(u)' = Streaming(u)
    BY DEF Tick, Streaming
  <1>3. CASE DateOf("free")' = DateOf("free")
    <2>1. Today(u)' = Today(u) /\ Today(u) \in Nat
      BY <1>2, <1>3, TodayIsNat DEF Today
    <2>2. QED
      BY <1>1, <1>2, <2>1, FreeBoundKept
  <1>4. CASE DateOf("free")' = DateOf("free") + 1
    <2>1. PICK d \in Date : d = DateOf("free")'
      BY <1>1, NextDateIsDate
    <2>2. DateOf("free") \in Int /\ DateOf("free") < d
      BY <1>4, <2>1, DateIsDate DEF Column
    <2>3. used[u]["free"][d] = 0
      <3>1. KeyHolds(u, "free", d)
        BY DEF KeysHold, Column
      <3>2. QED
        BY <2>1, <2>2, <3>1, UsageAssumption DEF KeyHolds, Date
    <2>4. Today(u)' = 0
      BY <1>2, <2>1, <2>3 DEF Today
    <2>5. Streaming(u)' \in SUBSET Request
      BY DEF Streaming
    <2>6. QED
      BY <2>4, <2>5, BelowFreeTokens, UsageAssumption DEF FreeBound
  <1>5. QED
    BY <1>3, <1>4, DaysPass DEF Column

\* Costs are not free tokens.
LEMMA FreeCost ==
  ASSUME TypeOK, KeysHold, NEW r \in Request, NEW c \in 0..MaxCost, Classify(r, c) \/ DrawImage(r, c),
         NEW u \in User, FreeBound(u)
  PROVE  FreeBound(u)'
  <1>1. TypeOK'
    BY ClassifyType, DrawImageType
  <1>2. Today(u)' = Today(u)
    <2>1. request[r].user \in User /\ Costs(c) \in [{"cost"} -> Nat] /\ {"cost"} \in SUBSET Column
      BY UsageAssumption DEF TypeOK, Costs, Column, RequestType
    <2>2. CASE Count(request[r].user, Costs(c))
      <3>1. Effect(request[r].user, {"cost"}, Costs(c))
        BY <2>1, <2>2, CountEffect
      <3>2. \A d \in Date : used'[u]["free"][d] = used[u]["free"][d]
        BY <3>1 DEF Effect, EffectOn, Hit, Column
      <3>3. DateOf("free")' = DateOf("free") /\ DateOf("free") \in Date
        BY DateIsDate DEF Classify, DrawImage, DateOf, clock, Column
      <3>4. QED
        BY <3>2, <3>3 DEF Today
    <2>3. CASE Classify(r, c) /\ UNCHANGED used
      BY <2>3 DEF Classify, Today, DateOf, clock
    <2>4. QED
      BY <2>2, <2>3 DEF Classify, DrawImage
  <1>3. Streaming(u)' \subseteq Streaming(u)
    BY RequestLeaves DEF Classify, DrawImage, Update, Idle, TypeOK, RequestType
  <1>4. QED
    BY <1>1, <1>2, <1>3, TodayIsNat, FreeBoundKept

LEMMA FreeAnswer ==
  ASSUME TypeOK, KeysHold, NEW r \in Request, NEW t \in 1..MaxTokens, NEW c \in 0..MaxCost,
         Answer(r, t, c), NEW u \in User, FreeBound(u)
  PROVE  FreeBound(u)'
  <1> DEFINE v == request[r].user
             S == Column \cap {request[r].source, "cost"}
  <1>1. TypeOK'
    BY AnswerType
  <1>2. v \in User /\ Count(v, Amounts(r, t, c)) /\ Amounts(r, t, c) \in [S -> Nat]
    BY AmountsType DEF Answer, TypeOK, RequestType, Amounts
  <1>3. Effect(v, S, Amounts(r, t, c))
    BY <1>2, CountEffect
  <1>4. DateOf("free")' = DateOf("free") /\ DateOf("free") \in Date
    BY DateIsDate DEF Answer, DateOf, clock, Column
  <1>5. EffectOn(u, "free", DateOf("free"), v, S, Amounts(r, t, c))
    BY <1>3, <1>4 DEF Effect, Column
  <1>6. CASE r \in Streaming(u)
    <2>1. u = v /\ "free" \in S /\ Amounts(r, t, c)["free"] = t
      BY <1>6 DEF Streaming, Column, Amounts
    <2>2. Today(u)' = Today(u) + t
      BY <1>4, <1>5, <2>1 DEF EffectOn, Hit, Today
    <2>3. Streaming(u)' = Streaming(u) \ {r}
      BY DEF Answer, Update, Idle, Streaming, TypeOK
    <2>4. Streaming(u) \subseteq Request
      BY DEF Streaming
    <2>5. /\ Cardinality(Streaming(u)') \in Nat
          /\ Cardinality(Streaming(u)) = Cardinality(Streaming(u)') + 1
      <3>1. IsFiniteSet(Streaming(u)) /\ Cardinality(Streaming(u)) \in Nat
        BY <2>4, StreamingCount
      <3>2. Cardinality(Streaming(u)') = Cardinality(Streaming(u)) - 1
        BY <1>6, <2>3, <3>1, FS_RemoveElement
      <3>3. Cardinality(Streaming(u)') \in Nat
        BY <2>3, <2>4, StreamingCount
      <3>4. QED
        BY <3>1, <3>2, <3>3
    <2>6. /\ MaxTokens * Cardinality(Streaming(u)') \in Nat
          /\ MaxTokens * Cardinality(Streaming(u)) = MaxTokens * Cardinality(Streaming(u)') + MaxTokens
      BY <2>5, TokenProduct
    <2>7. MaxTokens * Cardinality(Request) \in Nat
      BY StreamingCount, TokenProduct
    <2>8. Today(u) \in Nat
      BY TodayIsNat
    <2>9. QED
      BY <2>2, <2>6, <2>7, <2>8, UsageAssumption DEF FreeBound
  <1>7. CASE r \notin Streaming(u)
    <2>1. ~(u = v /\ "free" \in S)
      BY <1>7 DEF Streaming, Answer, TypeOK, RequestType
    <2>2. Today(u)' = Today(u)
      BY <1>4, <1>5, <2>1 DEF EffectOn, Hit, Today
    <2>3. Streaming(u)' \subseteq Streaming(u)
      BY DEF Answer, Update, Idle, Streaming, TypeOK
    <2>4. QED
      BY <1>1, <2>2, <2>3, TodayIsNat, FreeBoundKept
  <1>8. QED
    BY <1>6, <1>7

LEMMA FreeCheck ==
  ASSUME TypeOK, KeysHold, NEW r \in Request, NEW source \in {"free", "paid"}, CheckQuota(r, source),
         TypeOK', NEW u \in User \ Exempt, FreeBound(u)
  PROVE  FreeBound(u)'
  <1>1. Today(u)' = Today(u) /\ Today(u) \in Nat
    BY TodayIsNat DEF CheckQuota, keys, clock, Today, DateOf
  <1>2. CASE request[r].user = u /\ source = "free"
    <2>1. DateOf("free") \in Date /\ DateOf("free") \in Int
      BY DateIsDate DEF Column
    <2>2. FreeTokens - counter[u]["free"][DateOf("free")] >= 1
      BY <1>2 DEF CheckQuota, Source, FreeRemaining
    <2>3. counter[u]["free"][DateOf("free")] = Today(u)
      <3>1. KeyHolds(u, "free", DateOf("free"))
        BY <2>1 DEF KeysHold, Column
      <3>2. QED
        BY <2>1, <3>1, <1>1 DEF KeyHolds, Today
    <2>4. Today(u) < FreeTokens
      BY <1>1, <2>2, <2>3, UsageAssumption
    <2>5. Streaming(u)' \in SUBSET Request
      BY DEF Streaming
    <2>6. QED
      BY <1>1, <2>4, <2>5, BelowFreeTokens DEF FreeBound
  <1>3. CASE ~(request[r].user = u /\ source = "free")
    <2>1. Streaming(u)' \subseteq Streaming(u)
      BY <1>3 DEF CheckQuota, Update, Streaming, TypeOK, RequestType
    <2>2. QED
      BY <1>1, <2>1, FreeBoundKept
  <1>4. QED
    BY <1>2, <1>3

LEMMA FreeOther ==
  ASSUME TypeOK, TypeOK', NEW u \in User, FreeBound(u),
         \/ \E r \in Request : Drop(r) \/ \E v \in User : AssertBudget(r, v)
         \/ StartFlush \/ ReadCounters \/ FlushFails \/ UNCHANGED vars
         \/ (\E v \in User : Upsert(v)) \/ (\E k \in Column : Scan(k))
  PROVE  FreeBound(u)'
  <1>1. UNCHANGED <<clock, keys>>
    BY DEF Drop, AssertBudget, StartFlush, ReadCounters, FlushFails, Upsert, Scan, vars
  <1>2. Streaming(u)' \subseteq Streaming(u)
    <2>1. CASE \E r \in Request : Drop(r) \/ \E v \in User : AssertBudget(r, v)
      BY <2>1, RequestLeaves DEF Drop, AssertBudget, Update, Idle
    <2>2. CASE UNCHANGED request
      BY <2>2 DEF Streaming
    <2>3. QED
      BY <2>1, <2>2 DEF StartFlush, ReadCounters, FlushFails, Upsert, Scan, vars
  <1>3. Today(u)' = Today(u) /\ Today(u) \in Nat
    BY <1>1, TodayIsNat DEF clock, keys, Today, DateOf
  <1>4. QED
    BY <1>2, <1>3, FreeBoundKept

\* However the requests of a user overlap, and across midnight: the free tokens of a
\* day are exceeded by no more than what requests in progress may consume.
THEOREM FreeTokensAreBounded == Spec => []FreeTokensBounded
  <1> DEFINE Bounded == \A u \in User \ Exempt : FreeBound(u)
  <1>1. Init => Bounded
    <2> SUFFICES ASSUME Init, NEW u \in User \ Exempt PROVE FreeBound(u)
      OBVIOUS
    <2>1. TypeOK
      BY InitTypeOK
    <2>2. Today(u) = 0
      BY <2>1, DateIsDate DEF Init, Today, Column
    <2>3. Streaming(u) \in SUBSET Request
      BY DEF Streaming
    <2>4. QED
      BY <2>2, <2>3, BelowFreeTokens, UsageAssumption DEF FreeBound
  <1>2. RowInv /\ Bounded /\ [Next]_vars => Bounded'
    <2> SUFFICES ASSUME RowInv, Bounded, [Next]_vars, NEW u \in User \ Exempt PROVE FreeBound(u)'
      OBVIOUS
    <2>1. TypeOK /\ KeysHold /\ TypeOK' /\ FreeBound(u)
      BY NextTypeOK DEF RowInv
    <2>2. QED
      BY <2>1, FreeTick, FreeCost, FreeAnswer, FreeCheck, FreeOther DEF Next
  <1>3. Bounded => FreeTokensBounded
    BY DEF FreeBound, FreeTokensBounded, Today
  <1> HIDE DEF Bounded
  <1>4. QED
    BY <1>1, <1>2, <1>3, RowInvHolds, PTL DEF Spec
-----------------------------------------------------------------------------
(* The budget *)

\* What requests may still spend, as a sum of integers.
LeftOf(f, S) == MapThenSumSet(LAMBDA r : MaxCost - f[r].cost, S)
Left(f, S) == [r \in S |-> MaxCost - f[r].cost]

LEMMA LeftIsTotal ==
  ASSUME NEW f, NEW S, IsFiniteSet(S), \A r \in S : f[r].cost \in Nat
  PROVE  LeftOf(f, S) = SumOver(Left(f, S), S)
  <1> DEFINE F == Left(f, S)
             Solves(it) == it = [s \in SUBSET S |->
               IF s = {} THEN 0
               ELSE (MaxCost - f[CHOOSE x \in s : TRUE].cost) + it[s \ {CHOOSE x \in s : TRUE}]]
             h == CHOOSE it : it = [s \in SUBSET S |->
               IF s = {} THEN 0
               ELSE (MaxCost - f[CHOOSE x \in s : TRUE].cost) + it[s \ {CHOOSE x \in s : TRUE}]]
  <1>1. \A s \in SUBSET S : s # {} => F[CHOOSE x \in s : TRUE] = MaxCost - f[CHOOSE x \in s : TRUE].cost
    BY DEF Left
  <1>2. \A it : Solves(it) <=> Summed(F, S, it)
    <2> HIDE DEF F
    <2>1. QED
      BY <1>1 DEF Summed, SumFrom, Picked
  <1>3. \A x \in S : F[x] \in Int
    BY UsageAssumption DEF Left
  <1> HIDE DEF F
  <1>4. PICK g \in [SUBSET S -> Int] : Summed(F, S, g)
    BY <1>3, SumExists
  <1>5. h = CHOOSE it : Solves(it)
    OBVIOUS
  <1>6. LeftOf(f, S) = h[S]
    BY DEF LeftOf, MapThenSumSet, MapThenFoldSet
  <1> HIDE DEF Solves, h
  <1>7. Summed(F, S, h)
    BY <1>2, <1>4, <1>5
  <1>8. S \in SUBSET S
    OBVIOUS
  <1>9. SumOver(F, S) = h[S]
    BY <1>7, <1>8, TotalIs
  <1>10. QED
    BY <1>6, <1>9 DEF F

\* It is no more than the requests at their full cost.
LEMMA LeftIsBounded ==
  ASSUME NEW f \in [Request -> RequestType], NEW S \in SUBSET Request
  PROVE  LeftOf(f, S) \in Nat /\ LeftOf(f, S) =< MaxCost * Cardinality(Request)
  <1>1. IsFiniteSet(S) /\ IsFiniteSet(Request) /\ MaxCost \in Nat
        /\ Cardinality(S) \in Nat /\ Cardinality(Request) \in Nat /\ Cardinality(S) =< Cardinality(Request)
    BY UsageAssumption, FS_Subset, FS_CardinalityType
  <1>2. \A r \in S : f[r].cost \in Nat /\ Left(f, S)[r] \in Nat /\ Left(f, S)[r] =< MaxCost
    BY <1>1 DEF RequestType, Left
  <1>3. LeftOf(f, S) = SumOver(Left(f, S), S)
    BY <1>1, <1>2, LeftIsTotal
  <1>4. SumOver(Left(f, S), S) \in Nat /\ SumOver(Left(f, S), S) =< MaxCost * Cardinality(S)
    BY <1>1, <1>2, TotalBelow
  <1>5. ASSUME NEW k \in Nat, NEW n \in Nat, k =< n
        PROVE  MaxCost * k =< MaxCost * n /\ MaxCost * k \in Nat /\ MaxCost * n \in Nat
    BY <1>1, <1>5
  <1>6. /\ MaxCost * Cardinality(S) =< MaxCost * Cardinality(Request)
        /\ MaxCost * Cardinality(S) \in Nat /\ MaxCost * Cardinality(Request) \in Nat
    BY <1>1, <1>5
  <1>7. QED
    BY <1>3, <1>4, <1>6

\* A request that ends gives its part back.
LEMMA LeftWithout ==
  ASSUME NEW f \in [Request -> RequestType], NEW S \in SUBSET Request, NEW r \in S
  PROVE  LeftOf(f, S) = LeftOf(f, S \ {r}) + (MaxCost - f[r].cost)
  <1>1. IsFiniteSet(S) /\ IsFiniteSet(S \ {r}) /\ MaxCost \in Nat
    BY UsageAssumption, FS_Subset
  <1>2. \A q \in S : f[q].cost \in Nat /\ Left(f, S)[q] \in Int
    BY <1>1 DEF RequestType, Left
  <1>3. LeftOf(f, S) = SumOver(Left(f, S), S) /\ LeftOf(f, S \ {r}) = SumOver(Left(f, S \ {r}), S \ {r})
    BY <1>1, <1>2, LeftIsTotal
  <1>4. SumOver(Left(f, S), S) = SumOver(Left(f, S), S \ {r}) + Left(f, S)[r]
    BY <1>1, <1>2, TotalRest
  <1>5. \A q \in S \ {r} : Left(f, S)[q] \in Int /\ Left(f, S)[q] = Left(f, S \ {r})[q]
    BY <1>2 DEF Left
  <1>6. SumOver(Left(f, S), S \ {r}) = SumOver(Left(f, S \ {r}), S \ {r})
    BY <1>1, <1>5, TotalSame
  <1>7. Left(f, S)[r] = MaxCost - f[r].cost
    BY DEF Left
  <1>8. QED
    BY <1>3, <1>4, <1>6, <1>7

LEMMA LeftSame ==
  ASSUME NEW f \in [Request -> RequestType], NEW g \in [Request -> RequestType],
         NEW S \in SUBSET Request, \A q \in S : f[q] = g[q]
  PROVE  LeftOf(f, S) = LeftOf(g, S)
  <1>1. IsFiniteSet(S) /\ MaxCost \in Nat
    BY UsageAssumption, FS_Subset
  <1>2. /\ \A q \in S : f[q].cost \in Nat /\ g[q].cost \in Nat
        /\ \A q \in S : Left(f, S)[q] \in Int /\ Left(f, S)[q] = Left(g, S)[q]
    BY <1>1 DEF RequestType, Left
  <1>3. LeftOf(f, S) = SumOver(Left(f, S), S) /\ LeftOf(g, S) = SumOver(Left(g, S), S)
    BY <1>1, <1>2, LeftIsTotal
  <1>4. QED
    BY <1>1, <1>2, <1>3, TotalSame

\* What a user has spent on the day in UTC, the requests the user has in progress, and
\* the bound on what the day may come to with them.
Spent(u) == used[u]["cost"][date]
Busy(u) == {r \in Request : request[r].at # "idle" /\ request[r].user = u}
BudgetBound(u) ==
  Spent(u) + LeftOf(request, Busy(u)) < SessionLimit + MaxCost * Cardinality(Request)

\* Nothing has been spent for a request before its message is classified.
ChecksAreFree == \A r \in Request : request[r].at = "checked" => request[r].cost = 0

LEMMA SpentIsNat == ASSUME TypeOK, NEW u \in User PROVE Spent(u) \in Nat
  <1>1. "cost" \in Column /\ date \in Date
    BY DateIsDate DEF Column
  <1>2. QED
    BY <1>1 DEF TypeOK, Spent, Table

LEMMA FullCost == MaxCost * Cardinality(Request) \in Nat /\ SessionLimit \in Nat /\ MaxCost \in Nat
  <1>1. Cardinality(Request) \in Nat
    BY UsageAssumption, FS_CardinalityType
  <1>2. QED
    BY <1>1, UsageAssumption

\* Whoever is below the limit is within the bound.
LEMMA BelowLimit ==
  ASSUME NEW t \in Nat, t < SessionLimit, NEW f \in [Request -> RequestType], NEW S \in SUBSET Request
  PROVE  t + LeftOf(f, S) < SessionLimit + MaxCost * Cardinality(Request)
  BY LeftIsBounded, FullCost

\* What is counted for a user is added to what the user has spent.
LEMMA CountSpends ==
  ASSUME TypeOK, NEW u \in User, NEW v \in User, NEW S \in SUBSET Column, "cost" \in S,
         NEW amounts \in [S -> Nat], Count(v, amounts), UNCHANGED clock
  PROVE  Spent(u)' = Spent(u) + (IF u = v THEN amounts["cost"] ELSE 0)
  <1>1. Effect(v, S, amounts)
    BY CountEffect
  <1>2. "cost" \in Column /\ date \in Date /\ DateOf("cost") = date /\ date' = date
    BY DateIsDate DEF Column, DateOf, clock
  <1>3. EffectOn(u, "cost", date, v, S, amounts)
    BY <1>1, <1>2 DEF Effect
  <1>4. used[u]["cost"][date] \in Nat
    BY SpentIsNat DEF Spent
  <1>5. QED
    BY <1>2, <1>3, <1>4 DEF EffectOn, Hit, Spent

\* A request that ends has spent no more than it had left.
LEMMA EndsWithin ==
  ASSUME TypeOK, TypeOK', NEW u \in User, BudgetBound(u), NEW r \in Request, request[r].at # "idle",
         request' = [request EXCEPT ![r] = Idle],
         NEW c \in Nat, request[r].cost + c =< MaxCost,
         Spent(u)' = Spent(u) + (IF u = request[r].user THEN c ELSE 0)
  PROVE  BudgetBound(u)'
  <1>1. /\ request \in [Request -> RequestType] /\ request' \in [Request -> RequestType]
        /\ \A q \in Request : request'[q] = IF q = r THEN Idle ELSE request[q]
        /\ Idle.at = "idle" /\ request[r].cost \in Nat
    BY UsageAssumption DEF TypeOK, Idle, RequestType
  <1>2. Busy(u)' = Busy(u) \ {r} /\ Busy(u) \in SUBSET Request /\ Busy(u) \ {r} \in SUBSET Request
    BY <1>1 DEF Busy
  <1>3. LeftOf(request', Busy(u)') = LeftOf(request, Busy(u) \ {r})
    <2>1. \A q \in Busy(u) \ {r} : request'[q] = request[q]
      BY <1>1 DEF Busy
    <2>2. LeftOf(request', Busy(u) \ {r}) = LeftOf(request, Busy(u) \ {r})
      BY <1>1, <1>2, <2>1, LeftSame
    <2>3. QED
      BY <1>2, <2>2
  <1>4. /\ LeftOf(request, Busy(u) \ {r}) \in Nat /\ LeftOf(request, Busy(u)) \in Nat
        /\ Spent(u) \in Nat /\ MaxCost * Cardinality(Request) \in Nat /\ SessionLimit \in Nat /\ MaxCost \in Nat
    BY <1>1, <1>2, LeftIsBounded, FullCost, SpentIsNat
  <1>5. CASE u = request[r].user
    <2>1. r \in Busy(u)
      BY <1>5 DEF Busy
    <2>2. LeftOf(request, Busy(u)) = LeftOf(request, Busy(u) \ {r}) + (MaxCost - request[r].cost)
      BY <1>1, <1>2, <2>1, LeftWithout
    <2>3. Spent(u)' = Spent(u) + c
      BY <1>5
    <2>4. QED
      BY <1>1, <1>3, <1>4, <2>2, <2>3 DEF BudgetBound
  <1>6. CASE u # request[r].user
    <2>1. Busy(u) \ {r} = Busy(u)
      BY <1>6 DEF Busy
    <2>2. Spent(u)' = Spent(u)
      BY <1>4, <1>6
    <2>3. QED
      BY <1>3, <2>1, <2>2 DEF BudgetBound
  <1>7. QED
    BY <1>5, <1>6

LEMMA BudgetClassify ==
  ASSUME TypeOK, TypeOK', ChecksAreFree, NEW u \in User, BudgetBound(u),
         NEW r \in Request, NEW c \in 0..MaxCost, Classify(r, c)
  PROVE  BudgetBound(u)'
  <1> DEFINE y == [request[r] EXCEPT !.at = "classified", !.cost = c]
  <1>1. /\ request \in [Request -> RequestType] /\ request' \in [Request -> RequestType]
        /\ request[r].at = "checked" /\ request[r].cost = 0 /\ request[r].user \in User
        /\ request[r] \in RequestType
        /\ request' = [request EXCEPT ![r] = y]
    BY DEF TypeOK, Classify, Update, ChecksAreFree, RequestType
  <1>2. y.at = "classified" /\ y.cost = c /\ y.user = request[r].user
    BY <1>1 DEF RequestType
  <1> HIDE DEF y
  <1>3. \A q \in Request : request'[q] = IF q = r THEN y ELSE request[q]
    BY <1>1
  <1>4. Busy(u)' = Busy(u) /\ Busy(u) \in SUBSET Request /\ Busy(u) \ {r} \in SUBSET Request
    BY <1>1, <1>2, <1>3 DEF Busy
  <1>5. LeftOf(request', Busy(u) \ {r}) = LeftOf(request, Busy(u) \ {r})
    BY <1>1, <1>3, <1>4, LeftSame
  <1>6. /\ LeftOf(request, Busy(u) \ {r}) \in Nat /\ c \in Nat
        /\ Spent(u) \in Nat /\ MaxCost * Cardinality(Request) \in Nat /\ SessionLimit \in Nat /\ MaxCost \in Nat
    BY <1>1, <1>4, LeftIsBounded, FullCost, SpentIsNat
  <1>7. Spent(u)' = Spent(u) + (IF u = request[r].user THEN c ELSE 0)
    <2>1. CASE c = 0
      BY <1>6, <2>1 DEF Classify, Spent, clock
    <2>2. CASE c # 0
      <3>1. Costs(c) \in [{"cost"} -> Nat] /\ {"cost"} \in SUBSET Column /\ Costs(c)["cost"] = c
        BY <1>6 DEF Costs, Column
      <3>2. Count(request[r].user, Costs(c)) /\ UNCHANGED clock
        BY <2>2 DEF Classify
      <3>3. QED
        BY <1>1, <3>1, <3>2, CountSpends
    <2>3. QED
      BY <2>1, <2>2
  <1>8. CASE u = request[r].user
    <2>1. r \in Busy(u)
      BY <1>1, <1>8 DEF Busy
    <2>2. LeftOf(request, Busy(u)) = LeftOf(request, Busy(u) \ {r}) + (MaxCost - request[r].cost)
      BY <1>1, <1>4, <2>1, LeftWithout
    <2>3. LeftOf(request', Busy(u)) = LeftOf(request', Busy(u) \ {r}) + (MaxCost - request'[r].cost)
      BY <1>1, <1>4, <2>1, LeftWithout
    <2>4. request'[r].cost = c
      BY <1>2, <1>3
    <2>5. Spent(u)' = Spent(u) + c
      BY <1>7, <1>8
    <2>6. LeftOf(request', Busy(u)) = LeftOf(request, Busy(u)) - c
      BY <1>1, <1>5, <1>6, <2>2, <2>3, <2>4
    <2>7. LeftOf(request, Busy(u)) \in Nat
      BY <1>1, <1>4, LeftIsBounded
    <2>8. QED
      BY <1>4, <1>6, <2>5, <2>6, <2>7 DEF BudgetBound
  <1>9. CASE u # request[r].user
    <2>1. Busy(u) \ {r} = Busy(u)
      BY <1>9 DEF Busy
    <2>2. Spent(u)' = Spent(u)
      BY <1>6, <1>7, <1>9
    <2>3. QED
      BY <1>4, <1>5, <2>1, <2>2 DEF BudgetBound
  <1>10. QED
    BY <1>8, <1>9

LEMMA BudgetAssert ==
  ASSUME TypeOK, TypeOK', KeysHold, NEW u \in User \ (Exempt \cup Funded), BudgetBound(u),
         NEW r \in Request, NEW v \in User, AssertBudget(r, v)
  PROVE  BudgetBound(u)'
  <1>1. /\ request \in [Request -> RequestType] /\ request' \in [Request -> RequestType]
        /\ Busy(u) \in SUBSET Request /\ Busy(u)' \in SUBSET Request
        /\ Spent(u)' = Spent(u) /\ Spent(u) \in Nat
    BY SpentIsNat DEF TypeOK, Busy, AssertBudget, clock, keys, Spent
  <1>2. CASE v = u
    <2>1. counter[u]["cost"][DateOf("cost")] < SessionLimit
      BY <1>2 DEF AssertBudget, WithinBudget
    <2>2. DateOf("cost") = date /\ date \in Date /\ "cost" \in Column
      BY DateIsDate DEF DateOf, Column
    <2>3. KeyHolds(u, "cost", date)
      BY <2>2 DEF KeysHold
    <2>4. counter[u]["cost"][date] = Spent(u)
      <3>1. date \in Int
        BY <2>2, UsageAssumption DEF Date
      <3>2. QED
        BY <2>2, <2>3, <3>1, <1>1 DEF KeyHolds, Spent
    <2>5. Spent(u) < SessionLimit
      BY <2>1, <2>2, <2>4
    <2>6. QED
      BY <1>1, <2>5, BelowLimit DEF BudgetBound
  <1>3. CASE v # u
    <2>1. /\ \A q \in Request \ {r} : request'[q] = request[q]
          /\ request[r].at = "idle" /\ request'[r].user = v
      BY DEF AssertBudget, Update, Idle, TypeOK
    <2>2. Busy(u)' = Busy(u) /\ r \notin Busy(u)
      BY <1>3, <2>1 DEF Busy
    <2>3. LeftOf(request', Busy(u)) = LeftOf(request, Busy(u))
      BY <1>1, <2>1, <2>2, LeftSame
    <2>4. QED
      BY <1>1, <2>2, <2>3 DEF BudgetBound
  <1>4. QED
    BY <1>2, <1>3

LEMMA BudgetTick ==
  ASSUME TypeOK, TypeOK', KeysHold, Tick, NEW u \in User, BudgetBound(u)
  PROVE  BudgetBound(u)'
  <1>1. /\ request' = request /\ used' = used /\ Busy(u)' = Busy(u)
        /\ Busy(u) \in SUBSET Request /\ request \in [Request -> RequestType]
    BY DEF Tick, Busy, TypeOK
  <1>2. CASE date' = date
    BY <1>1, <1>2 DEF BudgetBound, Spent
  <1>3. CASE date' = date + 1
    <2>1. "cost" \in Column /\ DateOf("cost") = date /\ date' \in Date /\ date \in Int
      <3>1. date' \in 0..(MaxDate - 1) /\ MaxDate \in Nat
        BY UsageAssumption DEF TypeOK
      <3>2. date' \in 0..MaxDate
        <4> DEFINE next == date'
        <4>1. next \in 0..(MaxDate - 1)
          BY <3>1
        <4> HIDE DEF next
        <4>2. next \in 0..MaxDate
          BY <3>1, <4>1
        <4>3. QED
          BY <4>2 DEF next
      <3>3. QED
        BY <3>2, DateIsDate DEF Date, Column, DateOf
    <2>2. used[u]["cost"][date'] = 0
      <3> DEFINE next == date'
      <3>1. KeyHolds(u, "cost", next) /\ next = date + 1
        BY <2>1, <1>3 DEF KeysHold
      <3> HIDE DEF next
      <3>2. used[u]["cost"][next] = 0
        BY <2>1, <3>1, UsageAssumption DEF KeyHolds
      <3>3. QED
        BY <3>2 DEF next
    <2>3. Spent(u)' = 0
      BY <1>1, <2>2 DEF Spent
    <2>4. SessionLimit > 0
      BY UsageAssumption
    <2>5. QED
      BY <1>1, <2>3, <2>4, BelowLimit DEF BudgetBound
  <1>4. date' = date \/ date' = date + 1
    BY DEF Tick
  <1>5. QED
    BY <1>2, <1>3, <1>4

LEMMA BudgetEnds ==
  ASSUME TypeOK, TypeOK', NEW u \in User, BudgetBound(u), NEW r \in Request,
         \/ Drop(r)
         \/ \E c \in 0..MaxCost : DrawImage(r, c) \/ \E t \in 1..MaxTokens : Answer(r, t, c)
  PROVE  BudgetBound(u)'
  <1>1. request[r].user \in User /\ request[r].cost \in 0..MaxCost
    BY DEF TypeOK, RequestType
  <1>2. Spent(u) \in Nat /\ MaxCost \in Nat
    BY SpentIsNat, FullCost
  <1>3. CASE Drop(r)
    <2>1. Spent(u)' = Spent(u) + (IF u = request[r].user THEN 0 ELSE 0)
      BY <1>2, <1>3 DEF Drop, Spent, clock, keys
    <2>2. request[r].cost + 0 =< MaxCost
      BY <1>1, <1>2
    <2>3. QED
      BY <1>3, <2>1, <2>2, EndsWithin DEF Drop, Update
  <1>4. ASSUME NEW c \in 0..MaxCost, DrawImage(r, c) PROVE BudgetBound(u)'
    <2>1. Costs(c) \in [{"cost"} -> Nat] /\ {"cost"} \in SUBSET Column /\ Costs(c)["cost"] = c /\ c \in Nat
      BY <1>2 DEF Costs, Column
    <2>2. Spent(u)' = Spent(u) + (IF u = request[r].user THEN c ELSE 0)
      BY <1>1, <1>4, <2>1, CountSpends DEF DrawImage
    <2>3. QED
      BY <1>4, <2>1, <2>2, EndsWithin DEF DrawImage, Update
  <1>5. ASSUME NEW c \in 0..MaxCost, NEW t \in 1..MaxTokens, Answer(r, t, c) PROVE BudgetBound(u)'
    <2> DEFINE S == Column \cap {request[r].source, "cost"}
    <2>1. /\ Amounts(r, t, c) \in [S -> Nat] /\ S \in SUBSET Column /\ "cost" \in S
          /\ Count(request[r].user, Amounts(r, t, c)) /\ c \in Nat
      BY <1>2, <1>5, AmountsType DEF Answer, Amounts, Column
    <2>2. Amounts(r, t, c)["cost"] = c
      BY DEF Amounts, Column
    <2>3. Spent(u)' = Spent(u) + (IF u = request[r].user THEN c ELSE 0)
      <3> HIDE DEF S
      <3>1. UNCHANGED clock
        BY <1>5 DEF Answer
      <3>2. QED
        BY <1>1, <2>1, <2>2, <3>1, CountSpends
    <2>4. QED
      BY <1>5, <2>1, <2>3, EndsWithin DEF Answer, Update
  <1>6. QED
    BY <1>3, <1>4, <1>5

LEMMA BudgetOther ==
  ASSUME TypeOK, TypeOK', NEW u \in User, BudgetBound(u),
         \/ \E r \in Request : \E source \in {"free", "paid"} : CheckQuota(r, source)
         \/ StartFlush \/ ReadCounters \/ FlushFails \/ UNCHANGED vars
         \/ (\E v \in User : Upsert(v)) \/ (\E k \in Column : Scan(k))
  PROVE  BudgetBound(u)'
  <1>1. Spent(u)' = Spent(u)
    BY DEF CheckQuota, StartFlush, ReadCounters, FlushFails, vars, Upsert, Scan, clock, keys, Spent
  <1>2. CASE UNCHANGED request
    BY <1>1, <1>2 DEF BudgetBound, Busy
  <1>3. ASSUME NEW r \in Request, NEW source \in {"free", "paid"}, CheckQuota(r, source)
        PROVE  BudgetBound(u)'
    <2>1. /\ request \in [Request -> RequestType] /\ request' \in [Request -> RequestType]
          /\ \A q \in Request : /\ request'[q].cost = request[q].cost
                                /\ request'[q].user = request[q].user
                                /\ request'[q].at = "idle" <=> request[q].at = "idle"
      BY <1>3 DEF CheckQuota, Update, TypeOK, RequestType
    <2>2. Busy(u)' = Busy(u) /\ Busy(u) \in SUBSET Request
      BY <2>1 DEF Busy
    <2>3. LeftOf(request', Busy(u)) = LeftOf(request, Busy(u))
      <3>1. IsFiniteSet(Busy(u)) /\ MaxCost \in Nat
        BY <2>2, UsageAssumption, FS_Subset
      <3>2. /\ \A q \in Busy(u) : request[q].cost \in Nat /\ request'[q].cost \in Nat
            /\ \A q \in Busy(u) : /\ Left(request, Busy(u))[q] \in Int
                                  /\ Left(request, Busy(u))[q] = Left(request', Busy(u))[q]
        BY <2>1, <2>2, <3>1 DEF RequestType, Left
      <3>3. /\ LeftOf(request, Busy(u)) = SumOver(Left(request, Busy(u)), Busy(u))
            /\ LeftOf(request', Busy(u)) = SumOver(Left(request', Busy(u)), Busy(u))
        BY <3>1, <3>2, LeftIsTotal
      <3>4. QED
        BY <3>1, <3>2, <3>3, TotalSame
    <2>4. QED
      BY <1>1, <2>2, <2>3 DEF BudgetBound
  <1>4. QED
    BY <1>2, <1>3 DEF StartFlush, ReadCounters, FlushFails, vars, Upsert, Scan

BudgetInv == ChecksAreFree /\ \A u \in User \ (Exempt \cup Funded) : BudgetBound(u)

LEMMA InitBudget == Init => BudgetInv
  <1> SUFFICES ASSUME Init PROVE BudgetInv
    OBVIOUS
  <1>1. TypeOK /\ ChecksAreFree
    BY InitTypeOK DEF Init, Idle, ChecksAreFree
  <1>2. ASSUME NEW u \in User PROVE BudgetBound(u)
    <2>1. Spent(u) = 0
      BY <1>1, DateIsDate DEF Init, Spent, Column
    <2>2. Busy(u) \in SUBSET Request /\ request \in [Request -> RequestType] /\ SessionLimit > 0
      BY <1>1, UsageAssumption DEF Busy, TypeOK
    <2>3. QED
      BY <2>1, <2>2, BelowLimit DEF BudgetBound
  <1>3. QED
    BY <1>1, <1>2 DEF BudgetInv

LEMMA StepBudget == TypeOK /\ KeysHold /\ BudgetInv /\ [Next]_vars => BudgetInv'
  <1> SUFFICES ASSUME TypeOK, KeysHold, BudgetInv, [Next]_vars PROVE BudgetInv'
    OBVIOUS
  <1>1. TypeOK'
    BY NextTypeOK
  <1>2. ChecksAreFree'
    <2>1. ASSUME NEW r \in Request, NEW x \in RequestType, x.at = "checked" => x.cost = 0,
                 request' = [request EXCEPT ![r] = x]
          PROVE  ChecksAreFree'
      BY <2>1 DEF ChecksAreFree, BudgetInv, TypeOK
    <2>2. Idle \in RequestType /\ Idle.at = "idle" /\ Idle.cost = 0
      BY UsageAssumption DEF Idle, RequestType
    <2>3. ASSUME NEW r \in Request, NEW u \in User, AssertBudget(r, u) PROVE ChecksAreFree'
      <3> DEFINE y == [Idle EXCEPT !.at = "checked", !.user = u]
      <3>1. y \in RequestType /\ y.cost = 0
        BY <2>2 DEF RequestType
      <3>2. request' = [request EXCEPT ![r] = y]
        BY <2>3 DEF AssertBudget, Update
      <3> HIDE DEF y
      <3>3. QED
        BY <2>1, <3>1, <3>2
    <2>4. ASSUME NEW r \in Request, NEW c \in 0..MaxCost, Classify(r, c) PROVE ChecksAreFree'
      <3> DEFINE y == [request[r] EXCEPT !.at = "classified", !.cost = c]
      <3>1. y \in RequestType /\ y.at # "checked"
        BY DEF TypeOK, RequestType
      <3>2. request' = [request EXCEPT ![r] = y]
        BY <2>4 DEF Classify, Update
      <3> HIDE DEF y
      <3>3. QED
        BY <2>1, <3>1, <3>2
    <2>5. ASSUME NEW r \in Request, NEW source \in {"free", "paid"}, CheckQuota(r, source)
          PROVE  ChecksAreFree'
      <3> DEFINE y == [request[r] EXCEPT !.at = "streaming", !.source = source]
      <3>1. y \in RequestType /\ y.at # "checked"
        BY DEF TypeOK, RequestType
      <3>2. request' = [request EXCEPT ![r] = y]
        BY <2>5 DEF CheckQuota, Update
      <3> HIDE DEF y
      <3>3. QED
        BY <2>1, <3>1, <3>2
    <2>6. ASSUME NEW r \in Request, request' = [request EXCEPT ![r] = Idle] PROVE ChecksAreFree'
      <3>1. Idle.at = "checked" => Idle.cost = 0
        BY <2>2
      <3>2. QED
        BY <2>1, <2>2, <2>6, <3>1
    <2>7. CASE UNCHANGED request
      BY <2>7 DEF ChecksAreFree, BudgetInv
    <2>8. QED
      BY <2>3, <2>4, <2>5, <2>6, <2>7
         DEF Next, Tick, Upsert, StartFlush, ReadCounters, FlushFails, Scan, vars, Drop, DrawImage, Answer, Update
  <1>3. ASSUME NEW u \in User \ (Exempt \cup Funded) PROVE BudgetBound(u)'
    <2>1. BudgetBound(u) /\ ChecksAreFree
      BY DEF BudgetInv
    <2>2. QED
      BY <1>1, <2>1, BudgetTick, BudgetClassify, BudgetAssert, BudgetEnds, BudgetOther DEF Next
  <1>4. QED
    BY <1>2, <1>3 DEF BudgetInv

LEMMA BudgetIsBounded == BudgetInv => BudgetBounded
  BY DEF BudgetInv, BudgetBound, BudgetBounded, Spent, Busy, LeftOf
-----------------------------------------------------------------------------
(* Messages of a user *)

StreamType ==
  [at : {"idle", "preflight", "streaming", "commit"}, mode : Mode, lifetime : Nat,
   read : SUBSET {"today", "window"}, within : SUBSET {"today", "window"},
   todo : SUBSET {"today", "window", "lifetime"}]

\* What a request may hold where it is, and that it was let past no limit of zero.
RequestSound(x) ==
  /\ x.at = "idle" => x.within = {} /\ x.todo = {}
  /\ x.at = "preflight" => x.todo = {}
  /\ x.at = "streaming" => x.within = {"today", "window"} /\ x.todo = {}
  /\ x.at = "commit" => x.within = {}
  /\ "today" \in x.within \cup x.todo => DailyCap[x.mode] # 0
  /\ "window" \in x.within \cup x.todo => WindowCap[x.mode] # 0
RequestsSound == \A s \in Stream : RequestSound(stream[s])

\* Requests that may still count their message for the trial.
Awaits(x) == x.at \in {"preflight", "streaming"} \/ "lifetime" \in x.todo
Awaiting(f) == {s \in Stream : Awaits(f[s])}
MessagesFit == lifetime + Cardinality(Awaiting(stream)) =< MaxMessages

UncountedIn(f, limit) == {s \in Stream : limit \in f[s].within \cup f[s].todo}

\* Nothing is counted ahead of time, and what lies in the shorter window has not been pruned.
DaysAhead == \A d \in MessageDay : d > DayOf(hour) => today[d] = 0
WindowHolds ==
  \A t \in Time : (\A m \in Mode : t > hour - Hours[m]) => window[t] = recorded[t]

QuotaInv ==
  /\ QuotaTypeOK /\ RequestsSound /\ MessagesFit /\ DaysAhead /\ WindowHolds
  /\ DailyCapRespected /\ WindowCapRespected

LEMMA CapsAreCaps ==
  ASSUME NEW caps \in [Mode -> Nat]
  PROVE  Cap(caps) \in Nat /\ \A m \in Mode : caps[m] =< Cap(caps)
  <1> DEFINE S == {caps[m] : m \in Mode}
             Greatest(x) == x \in S /\ \A y \in S : x >= y
  <1>1. caps["trial"] \in Nat /\ caps["plan"] \in Nat /\ S = {caps["trial"], caps["plan"]}
    BY DEF Mode
  <1>2. \E x : Greatest(x)
    <2>1. CASE caps["trial"] >= caps["plan"]
      <3>1. Greatest(caps["trial"])
        BY <1>1, <2>1
      <3>2. QED
        BY <3>1
    <2>2. CASE ~(caps["trial"] >= caps["plan"])
      <3>1. Greatest(caps["plan"])
        BY <1>1, <2>2
      <3>2. QED
        BY <3>1
    <2>3. QED
      BY <2>1, <2>2
  <1>3. Cap(caps) = CHOOSE x : Greatest(x)
    BY DEF Cap, Max
  <1>4. Greatest(Cap(caps))
    <2> HIDE DEF Greatest
    <2>1. QED
      BY <1>2, <1>3
  <1>5. \A m \in Mode : caps[m] \in S
    OBVIOUS
  <1>6. QED
    BY <1>4, <1>5, <1>1

LEMMA ShorterWindow ==
  Min({Hours[m] : m \in Mode}) \in Nat \ {0} /\ \A m \in Mode : Hours[m] \in Nat /\ Hours[m] >= Min({Hours[n] : n \in Mode})
  <1> DEFINE S == {Hours[m] : m \in Mode}
             Least(x) == x \in S /\ \A y \in S : x =< y
  <1>1. Hours["trial"] \in Nat \ {0} /\ Hours["plan"] \in Nat \ {0} /\ S = {Hours["trial"], Hours["plan"]}
    BY ChatQuotaAssumption DEF Mode
  <1>2. \E x : Least(x)
    <2>1. CASE Hours["trial"] =< Hours["plan"]
      <3>1. Least(Hours["trial"])
        BY <1>1, <2>1
      <3>2. QED
        BY <3>1
    <2>2. CASE ~(Hours["trial"] =< Hours["plan"])
      <3>1. Least(Hours["plan"])
        BY <1>1, <2>2
      <3>2. QED
        BY <3>1
    <2>3. QED
      BY <2>1, <2>2
  <1>3. Min(S) = CHOOSE x : Least(x)
    BY DEF Min
  <1>4. Least(Min(S))
    <2> HIDE DEF Least
    <2>1. QED
      BY <1>2, <1>3
  <1>5. \A m \in Mode : Hours[m] \in S
    OBVIOUS
  <1>6. QED
    BY <1>4, <1>5, <1>1

LEMMA DaysInOrder ==
  ASSUME NEW t \in Nat, NEW u \in Nat, t =< u
  PROVE  DayOf(t) \in Nat /\ DayOf(u) \in Nat /\ DayOf(t) =< DayOf(u)
  <1>1. DayLength \in Nat /\ DayLength > 0
    BY ChatQuotaAssumption
  <1>2. QED
    BY <1>1 DEF DayOf

LEMMA StreamCount ==
  ASSUME NEW S \in SUBSET Stream
  PROVE  IsFiniteSet(S) /\ Cardinality(S) \in Nat /\ Cardinality(Stream) \in Nat
         /\ Cardinality(S) =< Cardinality(Stream)
  BY ChatQuotaAssumption, FS_Subset, FS_CardinalityType

\* The totals are natural numbers, and the limits that are not None are caps.
LEMMA RecordedIsNat ==
  ASSUME NEW f \in [Time -> Nat], NEW S \in SUBSET Time
  PROVE  SumOver(f, S) \in Nat /\ IsFiniteSet(S) /\ IsFiniteSet(Time)
  <1>1. IsFiniteSet(Time)
    BY ChatQuotaAssumption, FS_Interval DEF Time
  <1>2. IsFiniteSet(S) /\ \A x \in S : f[x] \in Int /\ f[x] \in Nat
    BY <1>1, FS_Subset
  <1>3. SumOver(f, S) \in Int
    BY <1>2, TotalType
  <1>4. SumOver(f, {}) = 0 /\ SumOver(f, {}) =< SumOver(f, S)
    <2>1. {} \in SUBSET S
      OBVIOUS
    <2>2. SumOver(f, {}) =< SumOver(f, S)
      BY <1>2, <2>1, TotalSubset
    <2>3. QED
      BY <2>2, TotalEmpty
  <1>5. QED
    BY <1>1, <1>2, <1>3, <1>4

Lately(h, t) == {x \in Time : x > t - h}
Shorter == Min({Hours[m] : m \in Mode})
DailyCapped == None \notin {DailyCap[m] : m \in Mode}
WindowCapped == None \notin {WindowCap[m] : m \in Mode}

DayWithin(d, f, now_) ==
  today[d] > 0 => today[d] + Cardinality(IF d = DayOf(now_) THEN UncountedIn(f, "today") ELSE {})
                    < Cap(DailyCap) + Cardinality(Stream)

\* Days and windows only a step of which counts or lets somebody in can change.
LEMMA DaysKept ==
  ASSUME QuotaTypeOK, DailyCapRespected, today' = today, hour' = hour,
         UncountedIn(stream', "today") \subseteq UncountedIn(stream, "today")
  PROVE  DailyCapRespected'
  <1> SUFFICES ASSUME DailyCapped, NEW d \in MessageDay, today[d] > 0
               PROVE  today[d] + Cardinality(IF d = DayOf(hour) THEN UncountedIn(stream', "today") ELSE {})
                        < Cap(DailyCap) + Cardinality(Stream)
    BY DEF DailyCapRespected, DailyCapped, Uncounted, UncountedIn
  <1>1. today[d] + Cardinality(IF d = DayOf(hour) THEN UncountedIn(stream, "today") ELSE {})
          < Cap(DailyCap) + Cardinality(Stream)
    BY DEF DailyCapRespected, DailyCapped, Uncounted, UncountedIn
  <1>2. UncountedIn(stream, "today") \in SUBSET Stream /\ UncountedIn(stream', "today") \in SUBSET Stream
    BY DEF UncountedIn
  <1>3. /\ Cardinality(UncountedIn(stream', "today")) =< Cardinality(UncountedIn(stream, "today"))
        /\ Cardinality(UncountedIn(stream', "today")) \in Nat /\ Cardinality(UncountedIn(stream, "today")) \in Nat
        /\ Cardinality(Stream) \in Nat
    BY <1>2, StreamCount, FS_Subset
  <1>4. DailyCap \in [Mode -> Nat] /\ Cap(DailyCap) \in Nat
    <2>1. DailyCap \in [Mode -> Nat]
      BY ChatQuotaAssumption DEF DailyCapped
    <2>2. QED
      BY <2>1, CapsAreCaps
  <1>5. today[d] \in Nat
    BY DEF QuotaTypeOK
  <1>6. CASE d = DayOf(hour)
    BY <1>1, <1>3, <1>4, <1>5, <1>6
  <1>7. CASE d # DayOf(hour)
    BY <1>1, <1>7
  <1>8. QED
    BY <1>6, <1>7

LEMMA RecordedIs ==
  ASSUME NEW h
  PROVE  /\ Recorded(h) = SumOver(recorded, Lately(h, hour))
         /\ Recorded(h)' = SumOver(recorded', Lately(h, hour'))
  BY DEF Recorded, SumOver, Lately, MapThenSumSet, MapThenFoldSet

WindowWithin(total, S) == total > 0 => total + Cardinality(S) < Cap(WindowCap) + Cardinality(Stream)

LEMMA WindowIs ==
  /\ WindowCapRespected <=>
       (WindowCapped => WindowWithin(SumOver(recorded, Lately(Shorter, hour)), UncountedIn(stream, "window")))
  /\ WindowCapRespected' <=>
       (WindowCapped => WindowWithin(SumOver(recorded', Lately(Shorter, hour')), UncountedIn(stream', "window")))
  <1>1. Recorded(Shorter) = SumOver(recorded, Lately(Shorter, hour))
        /\ Recorded(Shorter)' = SumOver(recorded', Lately(Shorter, hour'))
    BY RecordedIs
  <1>2. /\ Uncounted("window") = UncountedIn(stream, "window")
        /\ Uncounted("window")' = UncountedIn(stream', "window")
    BY DEF Uncounted, UncountedIn
  <1>3. WindowCapRespected <=>
          (WindowCapped => WindowWithin(Recorded(Shorter), Uncounted("window")))
    BY DEF WindowCapRespected, WindowCapped, WindowWithin, Shorter
  <1>4. WindowCapRespected' <=>
          (WindowCapped => WindowWithin(Recorded(Shorter)', Uncounted("window")'))
    BY DEF WindowCapRespected, WindowCapped, WindowWithin, Shorter
  <1>5. QED
    BY <1>1, <1>2, <1>3, <1>4

LEMMA WindowKept ==
  ASSUME QuotaTypeOK, WindowCapRespected, recorded' = recorded, hour' = hour,
         UncountedIn(stream', "window") \subseteq UncountedIn(stream, "window")
  PROVE  WindowCapRespected'
  <1> SUFFICES ASSUME WindowCapped
               PROVE  WindowWithin(SumOver(recorded, Lately(Shorter, hour)), UncountedIn(stream', "window"))
    BY WindowIs
  <1> DEFINE n == SumOver(recorded, Lately(Shorter, hour))
  <1>1. UncountedIn(stream, "window") \in SUBSET Stream /\ UncountedIn(stream', "window") \in SUBSET Stream
    BY DEF UncountedIn
  <1>2. /\ Cardinality(UncountedIn(stream', "window")) =< Cardinality(UncountedIn(stream, "window"))
        /\ Cardinality(UncountedIn(stream', "window")) \in Nat /\ Cardinality(UncountedIn(stream, "window")) \in Nat
        /\ Cardinality(Stream) \in Nat
    BY <1>1, StreamCount, FS_Subset
  <1>3. Cap(WindowCap) \in Nat
    <2>1. WindowCap \in [Mode -> Nat]
      BY ChatQuotaAssumption DEF WindowCapped
    <2>2. QED
      BY <2>1, CapsAreCaps
  <1>4. n \in Nat
    BY RecordedIsNat DEF QuotaTypeOK, Lately
  <1>5. n > 0 => n + Cardinality(UncountedIn(stream, "window")) < Cap(WindowCap) + Cardinality(Stream)
    BY WindowIs DEF WindowWithin
  <1> HIDE DEF n
  <1>6. n > 0 => n + Cardinality(UncountedIn(stream', "window")) < Cap(WindowCap) + Cardinality(Stream)
    BY <1>2, <1>3, <1>4, <1>5
  <1>7. QED
    BY <1>6 DEF WindowWithin, n

LEMMA FitsKept ==
  ASSUME QuotaTypeOK, MessagesFit, lifetime' = lifetime, Awaiting(stream') \subseteq Awaiting(stream)
  PROVE  MessagesFit'
  <1>1. Awaiting(stream) \in SUBSET Stream /\ Awaiting(stream') \in SUBSET Stream
    BY DEF Awaiting
  <1>2. /\ Cardinality(Awaiting(stream')) =< Cardinality(Awaiting(stream))
        /\ Cardinality(Awaiting(stream')) \in Nat /\ Cardinality(Awaiting(stream)) \in Nat
    BY <1>1, StreamCount, FS_Subset
  <1>3. lifetime \in Nat /\ MaxMessages \in Nat
    BY ChatQuotaAssumption DEF QuotaTypeOK
  <1>4. QED
    BY <1>2, <1>3 DEF MessagesFit

\* A request that goes on.
LEMMA RequestChanges ==
  ASSUME QuotaTypeOK, RequestsSound, NEW s \in Stream, NEW x \in StreamType, RequestSound(x), SetStream(s, x)
  PROVE  /\ stream' \in [Stream -> StreamType] /\ RequestsSound'
         /\ \A q \in Stream : stream'[q] = IF q = s THEN x ELSE stream[q]
         /\ \A limit \in {"today", "window"} :
              /\ limit \notin x.within \cup x.todo =>
                   UncountedIn(stream', limit) = UncountedIn(stream, limit) \ {s}
              /\ limit \in x.within \cup x.todo =>
                   UncountedIn(stream', limit) = UncountedIn(stream, limit) \cup {s}
         /\ ~Awaits(x) => Awaiting(stream') = Awaiting(stream) \ {s}
         /\ Awaits(x) => Awaiting(stream') = Awaiting(stream) \cup {s}
  <1>1. stream \in [Stream -> StreamType]
    BY DEF QuotaTypeOK, StreamType
  <1>2. stream' \in [Stream -> StreamType] /\ \A q \in Stream : stream'[q] = IF q = s THEN x ELSE stream[q]
    BY <1>1 DEF SetStream
  <1>3. RequestsSound'
    BY <1>2 DEF RequestsSound, RequestSound
  <1>4. ASSUME NEW limit
        PROVE  /\ limit \notin x.within \cup x.todo =>
                    UncountedIn(stream', limit) = UncountedIn(stream, limit) \ {s}
               /\ limit \in x.within \cup x.todo =>
                    UncountedIn(stream', limit) = UncountedIn(stream, limit) \cup {s}
    BY <1>2 DEF UncountedIn
  <1>5. /\ ~Awaits(x) => Awaiting(stream') = Awaiting(stream) \ {s}
        /\ Awaits(x) => Awaiting(stream') = Awaiting(stream) \cup {s}
    BY <1>2 DEF Awaiting
  <1>6. QED
    BY <1>2, <1>3, <1>4, <1>5

Parts(x) == x.within \cup x.todo

\* A request that goes on or ends without being let past a limit and without counting.
LEMMA RequestGoesOn ==
  ASSUME QuotaInv, NEW s \in Stream, NEW x \in StreamType, RequestSound(x), SetStream(s, x),
         UNCHANGED <<hour, today, window, user, recorded>>,
         \A limit \in {"today", "window"} : limit \in Parts(x) => limit \in Parts(stream[s]),
         Awaits(x) => Awaits(stream[s])
  PROVE  QuotaInv'
  <1>1. /\ stream' \in [Stream -> StreamType] /\ RequestsSound'
        /\ \A limit \in {"today", "window"} : UncountedIn(stream', limit) \subseteq UncountedIn(stream, limit)
        /\ Awaiting(stream') \subseteq Awaiting(stream)
    <2>1. \A q \in Stream : stream'[q] = IF q = s THEN x ELSE stream[q]
      BY RequestChanges DEF QuotaInv
    <2>2. \A limit \in {"today", "window"} : UncountedIn(stream', limit) \subseteq UncountedIn(stream, limit)
      BY <2>1 DEF UncountedIn, Parts
    <2>3. Awaiting(stream') \subseteq Awaiting(stream)
      BY <2>1 DEF Awaiting
    <2>4. QED
      BY <2>2, <2>3, RequestChanges DEF QuotaInv
  <1>2. QuotaTypeOK'
    BY <1>1 DEF QuotaInv, QuotaTypeOK, StreamType, user
  <1>3. MessagesFit'
    BY <1>1, FitsKept DEF QuotaInv, user
  <1>4. DaysAhead' /\ WindowHolds'
    BY DEF QuotaInv, DaysAhead, WindowHolds
  <1>5. DailyCapRespected' /\ WindowCapRespected'
    BY <1>1, DaysKept, WindowKept DEF QuotaInv
  <1>6. QED
    BY <1>1, <1>2, <1>3, <1>4, <1>5 DEF QuotaInv

LEMMA NoRequestSound ==
  NoRequest \in StreamType /\ RequestSound(NoRequest) /\ ~Awaits(NoRequest) /\ Parts(NoRequest) = {}
  BY DEF NoRequest, StreamType, RequestSound, Awaits, Parts, Mode

LEMMA RequestEnds ==
  ASSUME QuotaInv, NEW s \in Stream, SetStream(s, NoRequest),
         UNCHANGED <<hour, today, window, user, recorded>>
  PROVE  QuotaInv'
  BY NoRequestSound, RequestGoesOn

LEMMA RequestIs == ASSUME QuotaInv, NEW s \in Stream PROVE stream[s] \in StreamType /\ RequestSound(stream[s])
  BY DEF QuotaInv, QuotaTypeOK, StreamType, RequestsSound

LEMMA QuotaAdmit == ASSUME QuotaInv, NEW s \in Stream, Admit(s) PROVE QuotaInv'
  <1> DEFINE y == stream[s]
             x == [y EXCEPT !.at = "streaming"]
  <1>1. y \in StreamType /\ RequestSound(y) /\ y.at = "preflight" /\ y.within = {"today", "window"}
    BY RequestIs DEF Admit
  <1>2. SetStream(s, x) /\ UNCHANGED <<hour, today, window, user, recorded>>
    BY DEF Admit
  <1> HIDE DEF y
  <1>3. x \in StreamType /\ RequestSound(x) /\ Parts(x) = Parts(y) /\ Awaits(x) /\ Awaits(y)
    BY <1>1 DEF StreamType, RequestSound, Parts, Awaits
  <1> HIDE DEF x
  <1>4. QED
    BY <1>2, <1>3, RequestGoesOn DEF y

LEMMA QuotaAnswered == ASSUME QuotaInv, NEW s \in Stream, Answered(s) PROVE QuotaInv'
  <1> DEFINE y == stream[s]
             todo == {"today", "lifetime"} \cup (IF WindowCap[y.mode] = None THEN {} ELSE {"window"})
             x == [y EXCEPT !.at = "commit", !.read = {}, !.within = {}, !.todo = todo]
  <1>1. y \in StreamType /\ RequestSound(y) /\ y.at = "streaming"
    BY RequestIs DEF Answered
  <1>2. SetStream(s, x) /\ UNCHANGED <<hour, today, window, user, recorded>>
    BY DEF Answered
  <1> HIDE DEF y
  <1>3. x \in StreamType /\ x.at = "commit" /\ x.within = {} /\ x.todo = todo /\ x.mode = y.mode
    BY <1>1 DEF StreamType
  <1>4. todo \subseteq {"today", "window", "lifetime"}
    OBVIOUS
  <1> HIDE DEF x, todo
  <1>5. /\ RequestSound(x) /\ Awaits(y)
        /\ \A limit \in {"today", "window"} : limit \in Parts(x) => limit \in Parts(y)
    BY <1>1, <1>3, <1>4 DEF RequestSound, Parts, Awaits
  <1>6. QED
    BY <1>2, <1>3, <1>5, RequestGoesOn DEF y

LEMMA QuotaReadUser == ASSUME QuotaInv, NEW s \in Stream, ReadUser(s) PROVE QuotaInv'
  <1> DEFINE m == IF lifetime < Threshold THEN "trial" ELSE "plan"
             x == [NoRequest EXCEPT !.at = "preflight", !.lifetime = lifetime, !.mode = m]
             busy == {q \in Stream : stream[q].at # "idle"}
  <1>1. /\ SetStream(s, x) /\ stream[s].at = "idle" /\ UNCHANGED <<hour, today, window, user, recorded>>
        /\ lifetime + Cardinality(busy) < MaxMessages
    BY DEF ReadUser
  <1>2. m \in Mode /\ lifetime \in Nat
    BY ChatQuotaAssumption DEF Mode, QuotaInv, QuotaTypeOK
  <1> HIDE DEF m
  <1>3. x \in StreamType /\ x.at = "preflight" /\ x.within = {} /\ x.todo = {} /\ x.mode = m
    BY <1>2 DEF NoRequest, StreamType
  <1> HIDE DEF x
  <1>4. RequestSound(x) /\ Awaits(x) /\ Parts(x) = {}
    BY <1>3 DEF RequestSound, Awaits, Parts
  <1>5. /\ stream' \in [Stream -> StreamType] /\ RequestsSound'
        /\ \A q \in Stream : stream'[q] = IF q = s THEN x ELSE stream[q]
        /\ Awaiting(stream') = Awaiting(stream) \cup {s}
    BY <1>1, <1>3, <1>4, RequestChanges DEF QuotaInv
  <1>6. \A limit \in {"today", "window"} : UncountedIn(stream', limit) \subseteq UncountedIn(stream, limit)
    BY <1>4, <1>5 DEF UncountedIn, Parts
  <1>7. QuotaTypeOK'
    BY <1>1, <1>5 DEF QuotaInv, QuotaTypeOK, StreamType, user
  <1>8. MessagesFit'
    <2>1. Awaiting(stream) \subseteq busy /\ s \notin Awaiting(stream) /\ busy \in SUBSET Stream
          /\ Awaiting(stream) \in SUBSET Stream
      BY <1>1 DEF QuotaInv, RequestsSound, RequestSound, Awaiting, Awaits
    <2>2. /\ IsFiniteSet(Awaiting(stream)) /\ IsFiniteSet(busy)
          /\ Cardinality(Awaiting(stream)) \in Nat /\ Cardinality(busy) \in Nat
      BY <2>1, StreamCount
    <2>3. Cardinality(Awaiting(stream)) =< Cardinality(busy)
      BY <2>1, <2>2, FS_Subset
    <2>4. Cardinality(Awaiting(stream')) = Cardinality(Awaiting(stream)) + 1
      BY <1>5, <2>1, <2>2, FS_AddElement
    <2>5. lifetime' = lifetime /\ MaxMessages \in Nat
      BY <1>1, ChatQuotaAssumption DEF user
    <2> HIDE DEF busy
    <2>6. QED
      BY <1>1, <1>2, <2>2, <2>3, <2>4, <2>5 DEF MessagesFit
  <1>9. DaysAhead' /\ WindowHolds'
    BY <1>1 DEF QuotaInv, DaysAhead, WindowHolds
  <1>10. DailyCapRespected' /\ WindowCapRespected'
    BY <1>1, <1>6, DaysKept, WindowKept DEF QuotaInv
  <1>11. QED
    BY <1>5, <1>7, <1>8, <1>9, <1>10 DEF QuotaInv

LEMMA QuotaHourPasses == ASSUME QuotaInv, HourPasses PROVE QuotaInv'
  <1>1. /\ hour \in Nat /\ hour' = hour + 1 /\ hour' \in Time /\ hour \in Time
        /\ UNCHANGED <<today, window, user, stream, recorded>>
    BY ChatQuotaAssumption DEF QuotaInv, QuotaTypeOK, HourPasses, Time
  <1>2. DayOf(hour) \in Nat /\ DayOf(hour') \in Nat /\ DayOf(hour) =< DayOf(hour')
        /\ DayOf(hour') \in MessageDay
    BY <1>1, DaysInOrder DEF MessageDay
  <1>3. \A d \in MessageDay : d \in Nat
    BY DaysInOrder DEF MessageDay, Time
  <1>4. QuotaTypeOK' /\ RequestsSound' /\ MessagesFit'
    BY <1>1 DEF QuotaInv, QuotaTypeOK, RequestsSound, MessagesFit, user
  <1>5. DaysAhead'
    BY <1>1, <1>2, <1>3 DEF QuotaInv, DaysAhead
  <1>6. WindowHolds'
    <2>1. \A t \in Time, m \in Mode : t \in Nat /\ Hours[m] \in Nat
      BY ChatQuotaAssumption DEF Time
    <2>2. \A t \in Time, m \in Mode : t > hour' - Hours[m] => t > hour - Hours[m]
      BY <1>1, <2>1
    <2>3. QED
      BY <1>1, <2>2 DEF QuotaInv, WindowHolds
  <1>7. DailyCapRespected'
    <2> SUFFICES ASSUME DailyCapped, NEW d \in MessageDay, today[d] > 0
                 PROVE  today[d] + Cardinality(IF d = DayOf(hour') THEN UncountedIn(stream, "today") ELSE {})
                          < Cap(DailyCap) + Cardinality(Stream)
      BY <1>1 DEF DailyCapRespected, DailyCapped, Uncounted, UncountedIn
    <2>1. today[d] + Cardinality(IF d = DayOf(hour) THEN UncountedIn(stream, "today") ELSE {})
            < Cap(DailyCap) + Cardinality(Stream)
      BY DEF QuotaInv, DailyCapRespected, DailyCapped, Uncounted, UncountedIn
    <2>2. UncountedIn(stream, "today") \in SUBSET Stream
      BY DEF UncountedIn
    <2>3. Cardinality(UncountedIn(stream, "today")) \in Nat /\ Cardinality({}) = 0 /\ Cardinality(Stream) \in Nat
      BY <2>2, StreamCount, FS_EmptySet
    <2>4. DailyCap \in [Mode -> Nat] /\ Cap(DailyCap) \in Nat
      <3>1. DailyCap \in [Mode -> Nat]
        BY ChatQuotaAssumption DEF DailyCapped
      <3>2. QED
        BY <3>1, CapsAreCaps
    <2>5. today[d] \in Nat
      BY DEF QuotaInv, QuotaTypeOK
    <2>6. CASE d = DayOf(hour')
      <3>1. ~(d > DayOf(hour))
        BY DEF QuotaInv, DaysAhead
      <3>2. d = DayOf(hour)
        BY <1>2, <1>3, <2>6, <3>1
      <3>3. QED
        BY <2>1, <2>6, <3>2
    <2>7. CASE d # DayOf(hour') /\ d = DayOf(hour)
      BY <2>1, <2>3, <2>4, <2>5, <2>7
    <2>8. CASE d # DayOf(hour') /\ d # DayOf(hour)
      BY <2>1, <2>8
    <2>9. QED
      BY <2>6, <2>7, <2>8
  <1>8. WindowCapRespected'
    <2> DEFINE n == SumOver(recorded, Lately(Shorter, hour))
               k == SumOver(recorded, Lately(Shorter, hour'))
               c == Cardinality(UncountedIn(stream, "window"))
    <2> SUFFICES ASSUME WindowCapped PROVE k > 0 => k + c < Cap(WindowCap) + Cardinality(Stream)
      BY <1>1, WindowIs DEF WindowWithin
    <2>1. n > 0 => n + c < Cap(WindowCap) + Cardinality(Stream)
      BY WindowIs DEF QuotaInv, WindowWithin
    <2>2. Shorter \in Nat
      BY ShorterWindow DEF Shorter
    <2>3. Lately(Shorter, hour) \in SUBSET Time /\ Lately(Shorter, hour') \in SUBSET Lately(Shorter, hour)
      <3>1. \A t \in Time : t \in Nat
        BY DEF Time
      <3>3. ASSUME NEW t \in Time, t > hour' - Shorter PROVE t > hour - Shorter
        <4>1. hour \in Int /\ t \in Int /\ Shorter \in Int /\ hour' = hour + 1
          BY <1>1, <2>2, <3>1
        <4>2. QED
          BY <3>3, <4>1
      <3>4. QED
        BY <3>3 DEF Lately
    <2>4. recorded \in [Time -> Nat]
      BY DEF QuotaInv, QuotaTypeOK
    <2>5. n \in Nat /\ k \in Nat /\ IsFiniteSet(Lately(Shorter, hour))
      BY <2>3, <2>4, RecordedIsNat
    <2>6. k =< n
      <3>1. \A t \in Lately(Shorter, hour) : recorded[t] \in Nat
        BY <2>3, <2>4
      <3>2. QED
        BY <2>3, <2>5, <3>1, TotalSubset
    <2>7. c \in Nat /\ Cardinality(Stream) \in Nat
      <3>1. UncountedIn(stream, "window") \in SUBSET Stream
        BY DEF UncountedIn
      <3>2. QED
        BY <3>1, StreamCount
    <2>8. Cap(WindowCap) \in Nat
      <3>1. WindowCap \in [Mode -> Nat]
        BY ChatQuotaAssumption DEF WindowCapped
      <3>2. QED
        BY <3>1, CapsAreCaps
    <2> HIDE DEF n, k, c
    <2>9. QED
      BY <2>1, <2>5, <2>6, <2>7, <2>8
  <1>9. QED
    BY <1>4, <1>5, <1>6, <1>7, <1>8 DEF QuotaInv

\* A request that reads a counter; what it is let past is for the caller to show.
LEMMA RequestReads ==
  ASSUME QuotaInv, NEW s \in Stream, NEW x \in StreamType, RequestSound(x), SetStream(s, x),
         UNCHANGED <<hour, today, user, recorded>>, window' \in [Time -> Nat], WindowHolds',
         DailyCapRespected', WindowCapRespected', Awaits(x) => Awaits(stream[s])
  PROVE  QuotaInv'
  <1>1. stream' \in [Stream -> StreamType] /\ RequestsSound' /\ Awaiting(stream') \subseteq Awaiting(stream)
    <2>1. \A q \in Stream : stream'[q] = IF q = s THEN x ELSE stream[q]
      BY RequestChanges DEF QuotaInv
    <2>2. Awaiting(stream') \subseteq Awaiting(stream)
      BY <2>1 DEF Awaiting
    <2>3. QED
      BY <2>2, RequestChanges DEF QuotaInv
  <1>2. QuotaTypeOK'
    BY <1>1 DEF QuotaInv, QuotaTypeOK, StreamType, user
  <1>3. MessagesFit' /\ DaysAhead'
    BY <1>1, FitsKept DEF QuotaInv, user, DaysAhead
  <1>4. QED
    BY <1>1, <1>2, <1>3 DEF QuotaInv

\* Whoever finds the day below the limit may be let past it with everybody else.
LEMMA DayHasRoom ==
  ASSUME QuotaTypeOK, DailyCapRespected, today' = today, hour' = hour,
         DailyCapped => today[DayOf(hour)] < Cap(DailyCap)
  PROVE  DailyCapRespected'
  <1> SUFFICES ASSUME DailyCapped, NEW d \in MessageDay, today[d] > 0
               PROVE  today[d] + Cardinality(IF d = DayOf(hour) THEN UncountedIn(stream', "today") ELSE {})
                        < Cap(DailyCap) + Cardinality(Stream)
    BY DEF DailyCapRespected, DailyCapped, Uncounted, UncountedIn
  <1>1. today[d] + Cardinality(IF d = DayOf(hour) THEN UncountedIn(stream, "today") ELSE {})
          < Cap(DailyCap) + Cardinality(Stream)
    BY DEF DailyCapRespected, DailyCapped, Uncounted, UncountedIn
  <1>2. UncountedIn(stream', "today") \in SUBSET Stream
    BY DEF UncountedIn
  <1>3. /\ Cardinality(UncountedIn(stream', "today")) =< Cardinality(Stream)
        /\ Cardinality(UncountedIn(stream', "today")) \in Nat /\ Cardinality(Stream) \in Nat
    BY <1>2, StreamCount
  <1>4. DailyCap \in [Mode -> Nat] /\ Cap(DailyCap) \in Nat
    <2>1. DailyCap \in [Mode -> Nat]
      BY ChatQuotaAssumption DEF DailyCapped
    <2>2. QED
      BY <2>1, CapsAreCaps
  <1>5. today[d] \in Nat
    BY DEF QuotaTypeOK
  <1>6. CASE d = DayOf(hour)
    BY <1>3, <1>4, <1>5, <1>6
  <1>7. CASE d # DayOf(hour)
    BY <1>1, <1>7
  <1>8. QED
    BY <1>6, <1>7

LEMMA CapIsNat == ASSUME WindowCapped PROVE WindowCap \in [Mode -> Nat] /\ Cap(WindowCap) \in Nat
  <1>1. WindowCap \in [Mode -> Nat]
    BY ChatQuotaAssumption DEF WindowCapped
  <1>2. QED
    BY <1>1, CapsAreCaps

LEMMA WindowHasRoom ==
  ASSUME QuotaTypeOK, recorded' = recorded, hour' = hour,
         WindowCapped => SumOver(recorded, Lately(Shorter, hour)) < Cap(WindowCap)
  PROVE  WindowCapRespected'
  <1> DEFINE n == SumOver(recorded, Lately(Shorter, hour))
  <1> SUFFICES ASSUME WindowCapped
               PROVE  n + Cardinality(UncountedIn(stream', "window")) < Cap(WindowCap) + Cardinality(Stream)
    BY WindowIs DEF WindowWithin
  <1>1. UncountedIn(stream', "window") \in SUBSET Stream
    BY DEF UncountedIn
  <1>2. /\ Cardinality(UncountedIn(stream', "window")) =< Cardinality(Stream)
        /\ Cardinality(UncountedIn(stream', "window")) \in Nat /\ Cardinality(Stream) \in Nat
    BY <1>1, StreamCount
  <1>3. Cap(WindowCap) \in Nat
    BY CapIsNat
  <1>4. n \in Nat
    BY RecordedIsNat DEF QuotaTypeOK, Lately
  <1>5. n < Cap(WindowCap)
    OBVIOUS
  <1> HIDE DEF n
  <1>6. QED
    BY <1>2, <1>3, <1>4, <1>5

\* What a request is after it has noted a limit.
Noted(y, limit, ok) == [y EXCEPT !.read = @ \cup {limit}, !.within = IF ok THEN @ \cup {limit} ELSE @]

LEMMA NotedIs ==
  ASSUME NEW y \in StreamType, RequestSound(y), y.at = "preflight", NEW limit \in {"today", "window"},
         NEW ok \in BOOLEAN, ok => (limit = "today" => DailyCap[y.mode] # 0) /\ (limit = "window" => WindowCap[y.mode] # 0)
  PROVE  /\ Noted(y, limit, ok) \in StreamType /\ RequestSound(Noted(y, limit, ok))
         /\ Awaits(Noted(y, limit, ok)) /\ Awaits(y)
         /\ Parts(Noted(y, limit, ok)) = Parts(y) \cup (IF ok THEN {limit} ELSE {})
  <1> DEFINE x == Noted(y, limit, ok)
             within == IF ok THEN y.within \cup {limit} ELSE y.within
  <1>1. /\ x \in StreamType /\ x.at = "preflight" /\ x.mode = y.mode /\ x.todo = y.todo /\ x.within = within
        /\ y.todo = {}
    BY DEF Noted, StreamType, RequestSound
  <1> HIDE DEF x
  <1>2. RequestSound(x)
    BY <1>1 DEF RequestSound
  <1>3. Awaits(x) /\ Awaits(y) /\ Parts(x) = Parts(y) \cup (IF ok THEN {limit} ELSE {})
    BY <1>1 DEF Awaits, Parts
  <1>4. QED
    BY <1>1, <1>2, <1>3 DEF x

LEMMA QuotaReadToday == ASSUME QuotaInv, NEW s \in Stream, ReadToday(s) PROVE QuotaInv'
  <1> DEFINE y == stream[s]
             ok == BelowDailyCap(today[DayOf(hour)], y.mode)
             x == Noted(y, "today", ok)
  <1>1. y \in StreamType /\ RequestSound(y) /\ y.at = "preflight" /\ y.mode \in Mode
    BY RequestIs DEF ReadToday, StreamType
  <1>2. SetStream(s, x) /\ UNCHANGED <<hour, today, window, user, recorded>>
    BY DEF ReadToday, Note, Noted
  <1>3. today[DayOf(hour)] \in Nat
    BY DEF QuotaInv, QuotaTypeOK, MessageDay
  <1>4. ok => DailyCap[y.mode] # 0
    BY <1>3, ChatQuotaAssumption DEF BelowDailyCap
  <1>5. ok \in BOOLEAN
    BY DEF BelowDailyCap
  <1>6. ok /\ DailyCapped => today[DayOf(hour)] < Cap(DailyCap)
    <2> SUFFICES ASSUME ok, DailyCapped PROVE today[DayOf(hour)] < Cap(DailyCap)
      OBVIOUS
    <2>1. DailyCap \in [Mode -> Nat]
      BY ChatQuotaAssumption DEF DailyCapped
    <2>2. DailyCap[y.mode] =< Cap(DailyCap) /\ Cap(DailyCap) \in Nat /\ DailyCap[y.mode] \in Nat
      BY <1>1, <2>1, CapsAreCaps
    <2>3. DailyCap[y.mode] # None
      BY <2>2, ChatQuotaAssumption
    <2>4. today[DayOf(hour)] < DailyCap[y.mode]
      BY <2>3 DEF BelowDailyCap
    <2> HIDE DEF y
    <2>5. QED
      BY <1>3, <2>2, <2>4
  <1> HIDE DEF y, ok
  <1>7. x \in StreamType /\ RequestSound(x) /\ Awaits(x) /\ Awaits(y)
        /\ Parts(x) = Parts(y) \cup (IF ok THEN {"today"} ELSE {})
    BY <1>1, <1>4, <1>5, NotedIs
  <1> HIDE DEF x
  <1>8. CASE ~ok
    BY <1>2, <1>7, <1>8, RequestGoesOn DEF y
  <1>9. CASE ok
    <2>1. DailyCapRespected'
      BY <1>2, <1>6, <1>9, DayHasRoom DEF QuotaInv
    <2>2. \A q \in Stream : stream'[q] = IF q = s THEN x ELSE stream[q]
      BY <1>2, <1>7, RequestChanges DEF QuotaInv
    <2>3. UncountedIn(stream', "window") \subseteq UncountedIn(stream, "window")
      BY <1>7, <2>2 DEF UncountedIn, Parts, y
    <2>4. WindowCapRespected'
      BY <1>2, <2>3, WindowKept DEF QuotaInv
    <2>5. WindowHolds' /\ window' \in [Time -> Nat]
      BY <1>2 DEF QuotaInv, WindowHolds, QuotaTypeOK
    <2>6. Awaits(stream[s])
      BY <1>7 DEF y
    <2>7. QED
      BY <1>2, <1>7, <2>1, <2>4, <2>5, <2>6, RequestReads
  <1>10. QED
    BY <1>8, <1>9

LEMMA QuotaReadWindow == ASSUME QuotaInv, NEW s \in Stream, ReadWindow(s) PROVE QuotaInv'
  <1> DEFINE y == stream[s]
             m == y.mode
             total == MapThenSumSet(LAMBDA t : window'[t], Time)
             ok == WindowCap[m] = None \/ total < WindowCap[m]
             x == Noted(y, "window", ok)
  <1>1. y \in StreamType /\ RequestSound(y) /\ y.at = "preflight" /\ m \in Mode
    BY RequestIs DEF ReadWindow, StreamType
  <1>2. UNCHANGED <<hour, today, user, recorded>>
    BY DEF ReadWindow
  <1>3. total = SumOver(window', Time)
    BY DEF SumOver, MapThenSumSet, MapThenFoldSet
  <1>4. SetStream(s, x)
    <2>1. CASE WindowCap[m] = None
      <3>1. Note(s, "window", TRUE) /\ ok = TRUE
        BY <2>1 DEF ReadWindow
      <3>2. QED
        BY <3>1 DEF Note, Noted
    <2>2. CASE WindowCap[m] # None
      <3>1. Note(s, "window", total < WindowCap[m])
        BY <2>2 DEF ReadWindow
      <3> HIDE DEF total
      <3>2. QED
        BY <2>2, <3>1 DEF Note, Noted
    <2>3. QED
      BY <2>1, <2>2
  <1>5. /\ window' \in [Time -> Nat]
        /\ \A t \in Time : t > hour - Hours[m] => window'[t] = window[t]
    <2>1. window \in [Time -> Nat]
      BY DEF QuotaInv, QuotaTypeOK
    <2>2. CASE WindowCap[m] = None
      BY <2>1, <2>2 DEF ReadWindow
    <2>3. CASE WindowCap[m] # None
      <3>1. window' = Pruned(m)
        BY <2>3 DEF ReadWindow
      <3>2. QED
        BY <2>1, <3>1 DEF Pruned
    <2>4. QED
      BY <2>2, <2>3
  <1> HIDE DEF total
  <1>6. WindowHolds'
    BY <1>1, <1>2, <1>5 DEF QuotaInv, WindowHolds
  <1>7. total \in Nat
    <2>1. Time \in SUBSET Time
      OBVIOUS
    <2>2. QED
      BY <1>3, <1>5, <2>1, RecordedIsNat
  <1>8. ok => WindowCap[m] # 0
    BY <1>7, ChatQuotaAssumption
  <1>9. ok /\ WindowCapped => SumOver(recorded, Lately(Shorter, hour)) < Cap(WindowCap)
    <2> SUFFICES ASSUME ok, WindowCapped PROVE SumOver(recorded, Lately(Shorter, hour)) < Cap(WindowCap)
      OBVIOUS
    <2>1. WindowCap[m] =< Cap(WindowCap) /\ Cap(WindowCap) \in Nat /\ WindowCap[m] \in Nat
      BY <1>1, CapIsNat, CapsAreCaps
    <2>2. total < WindowCap[m]
      BY <2>1, ChatQuotaAssumption
    <2> DEFINE L == Lately(Shorter, hour)
    <2>3. L \in SUBSET Time
      BY DEF Lately
    <2>4. \A t \in L : window'[t] = recorded[t]
      <3>1. Shorter \in Nat /\ hour \in Nat /\ \A n \in Mode : Hours[n] \in Nat /\ Hours[n] >= Shorter
        <4>1. hour \in Nat
          BY DEF QuotaInv, QuotaTypeOK, Time
        <4>2. QED
          BY <4>1, ShorterWindow DEF Shorter
      <3>2. ASSUME NEW t \in L, NEW n \in Mode PROVE t > hour - Hours[n]
        <4>1. t > hour - Shorter /\ t \in Nat
          BY DEF Lately, Time
        <4>2. QED
          BY <3>1, <4>1
      <3>3. QED
        BY <1>2, <1>6, <2>3, <3>2 DEF WindowHolds
    <2> HIDE DEF L
    <2>5. recorded \in [Time -> Nat] /\ IsFiniteSet(L) /\ IsFiniteSet(Time)
      BY <2>3, RecordedIsNat DEF QuotaInv, QuotaTypeOK
    <2>6. SumOver(recorded, L) = SumOver(window', L)
      <3>1. \A t \in L : recorded[t] \in Int /\ recorded[t] = window'[t]
        BY <2>3, <2>4, <2>5
      <3>2. QED
        BY <2>5, <3>1, TotalSame
    <2>7. SumOver(window', L) =< SumOver(window', Time)
      <3>1. \A t \in Time : window'[t] \in Nat
        BY <1>5
      <3>2. QED
        BY <2>3, <2>5, <3>1, TotalSubset
    <2>8. SumOver(recorded, L) \in Nat
      BY <2>3, <2>5, RecordedIsNat
    <2>9. SumOver(recorded, L) =< total
      BY <1>3, <2>6, <2>7
    <2>10. SumOver(recorded, L) < Cap(WindowCap)
      BY <1>7, <2>1, <2>2, <2>8, <2>9
    <2>11. QED
      BY <2>10 DEF L
  <1>10. ok \in BOOLEAN
    BY DEF ok
  <1> HIDE DEF ok
  <1>11. x \in StreamType /\ RequestSound(x) /\ Awaits(x) /\ Awaits(y)
        /\ Parts(x) = Parts(y) \cup (IF ok THEN {"window"} ELSE {})
    BY <1>1, <1>8, <1>10, NotedIs
  <1> HIDE DEF x
  <1>12. \A q \in Stream : stream'[q] = IF q = s THEN x ELSE stream[q]
    BY <1>4, <1>11, RequestChanges DEF QuotaInv
  <1>13. DailyCapRespected'
    <2>1. UncountedIn(stream', "today") \subseteq UncountedIn(stream, "today")
      BY <1>11, <1>12 DEF UncountedIn, Parts
    <2>2. QED
      BY <1>2, <2>1, DaysKept DEF QuotaInv
  <1>14. WindowCapRespected'
    <2>1. CASE ok
      BY <1>2, <1>9, <2>1, WindowHasRoom DEF QuotaInv
    <2>2. CASE ~ok
      <3>1. UncountedIn(stream', "window") \subseteq UncountedIn(stream, "window")
        BY <1>11, <1>12, <2>2 DEF UncountedIn, Parts
      <3>2. QED
        BY <1>2, <3>1, WindowKept DEF QuotaInv
    <2>3. QED
      BY <2>1, <2>2
  <1>15. QED
    BY <1>2, <1>4, <1>5, <1>6, <1>11, <1>13, <1>14, RequestReads

\* A request that writes one of the things it has to write.
LEMMA WroteIs ==
  ASSUME QuotaInv, NEW s \in Stream, NEW what \in {"today", "window", "lifetime"}, Wrote(s, what)
  PROVE  /\ what \in stream[s].todo
         /\ \E x \in StreamType :
              /\ RequestSound(x) /\ SetStream(s, x)
              /\ Parts(x) = Parts(stream[s]) \ {what}
              /\ Awaits(x) <=> Awaits(stream[s]) /\ what # "lifetime"
  <1> DEFINE y == stream[s]
             x == [y EXCEPT !.todo = @ \ {what}]
  <1>1. y \in StreamType /\ RequestSound(y) /\ y.at = "commit" /\ what \in y.todo
    BY RequestIs DEF Wrote
  <1>2. SetStream(s, IF y.todo = {what} THEN NoRequest ELSE x)
    BY DEF Wrote
  <1> HIDE DEF y
  <1>3. CASE y.todo = {what}
    <2>1. NoRequest \in StreamType /\ RequestSound(NoRequest) /\ ~Awaits(NoRequest) /\ Parts(NoRequest) = {}
      BY NoRequestSound
    <2>2. SetStream(s, NoRequest)
      BY <1>2, <1>3
    <2>3. Parts(y) = {what} /\ (Awaits(y) <=> what = "lifetime")
      BY <1>1, <1>3 DEF Parts, Awaits, RequestSound
    <2>4. QED
      BY <1>1, <2>1, <2>2, <2>3 DEF y
  <1>4. CASE y.todo # {what}
    <2>1. x \in StreamType /\ x.at = "commit" /\ x.within = y.within /\ x.todo = y.todo \ {what} /\ x.mode = y.mode
      BY <1>1 DEF StreamType
    <2>2. SetStream(s, x)
      BY <1>2, <1>4
    <2> HIDE DEF x
    <2>3. RequestSound(x)
      BY <1>1, <2>1 DEF RequestSound
    <2>4. Parts(x) = Parts(y) \ {what} /\ (Awaits(x) <=> Awaits(y) /\ what # "lifetime")
      BY <1>1, <2>1 DEF Parts, Awaits, RequestSound
    <2>5. QED
      BY <1>1, <2>1, <2>2, <2>3, <2>4 DEF y
  <1>5. QED
    BY <1>3, <1>4

LEMMA QuotaCountLifetime == ASSUME QuotaInv, NEW s \in Stream, CountLifetime(s) PROVE QuotaInv'
  <1>1. Wrote(s, "lifetime")
    BY DEF CountLifetime
  <1>2. "lifetime" \in stream[s].todo
    BY <1>1, WroteIs
  <1>3. PICK x \in StreamType :
          /\ RequestSound(x) /\ SetStream(s, x)
          /\ Parts(x) = Parts(stream[s]) \ {"lifetime"}
          /\ ~Awaits(x)
    BY <1>1, WroteIs
  <1>4. /\ stream' \in [Stream -> StreamType] /\ RequestsSound'
        /\ \A q \in Stream : stream'[q] = IF q = s THEN x ELSE stream[q]
        /\ Awaiting(stream') = Awaiting(stream) \ {s}
    BY <1>3, RequestChanges DEF QuotaInv
  <1>5. /\ lifetime' = lifetime + 1 /\ UNCHANGED <<hour, today, window, recorded>>
        /\ trialEnded' \in BOOLEAN
    <2>1. EndsTrial(s) \in BOOLEAN
      BY DEF EndsTrial
    <2>2. trialEnded' = (trialEnded \/ EndsTrial(s)) /\ trialEnded \in BOOLEAN
      BY DEF CountLifetime, QuotaInv, QuotaTypeOK
    <2>3. QED
      BY <2>1, <2>2 DEF CountLifetime
  <1>6. \A limit \in {"today", "window"} : UncountedIn(stream', limit) \subseteq UncountedIn(stream, limit)
    BY <1>3, <1>4 DEF UncountedIn, Parts
  <1>7. MessagesFit' /\ lifetime' \in 0..MaxMessages
    <2>1. s \in Awaiting(stream) /\ Awaiting(stream) \in SUBSET Stream
      BY <1>2 DEF Awaiting, Awaits
    <2>2. IsFiniteSet(Awaiting(stream)) /\ Cardinality(Awaiting(stream)) \in Nat
      BY <2>1, StreamCount
    <2>3. Cardinality(Awaiting(stream')) = Cardinality(Awaiting(stream)) - 1
          /\ Cardinality(Awaiting(stream')) \in Nat
      <3>1. Cardinality(Awaiting(stream) \ {s}) = Cardinality(Awaiting(stream)) - 1
        BY <2>1, <2>2, FS_RemoveElement
      <3>2. Awaiting(stream) \ {s} \in SUBSET Stream
        BY <2>1
      <3>3. Cardinality(Awaiting(stream) \ {s}) \in Nat
        BY <3>2, StreamCount
      <3>4. QED
        BY <1>4, <3>1, <3>3
    <2>4. /\ lifetime \in Nat /\ MaxMessages \in Nat
          /\ lifetime + Cardinality(Awaiting(stream)) =< MaxMessages
      BY ChatQuotaAssumption DEF QuotaInv, QuotaTypeOK, MessagesFit
    <2>5. lifetime + 1 \in 0..MaxMessages /\ lifetime + 1 + Cardinality(Awaiting(stream')) =< MaxMessages
      BY <2>2, <2>3, <2>4
    <2>6. QED
      BY <1>5, <2>5 DEF MessagesFit
  <1>8. QuotaTypeOK'
    BY <1>4, <1>5, <1>7 DEF QuotaInv, QuotaTypeOK, StreamType
  <1>9. DaysAhead' /\ WindowHolds'
    BY <1>5 DEF QuotaInv, DaysAhead, WindowHolds
  <1>10. DailyCapRespected' /\ WindowCapRespected'
    BY <1>5, <1>6, DaysKept, WindowKept DEF QuotaInv
  <1>11. QED
    BY <1>4, <1>7, <1>8, <1>9, <1>10 DEF QuotaInv

\* A message that is counted was among those still to be counted.
LEMMA OneLess ==
  ASSUME NEW S \in SUBSET Stream, NEW s \in S
  PROVE  /\ Cardinality(S \ {s}) \in Nat /\ Cardinality(S) = Cardinality(S \ {s}) + 1
         /\ Cardinality(Stream) \in Nat /\ Cardinality(S) =< Cardinality(Stream)
  <1>1. IsFiniteSet(S) /\ Cardinality(S) \in Nat /\ Cardinality(Stream) \in Nat
        /\ Cardinality(S) =< Cardinality(Stream)
    BY StreamCount
  <1>2. Cardinality(S \ {s}) = Cardinality(S) - 1
    BY <1>1, FS_RemoveElement
  <1>3. S \ {s} \in SUBSET Stream
    OBVIOUS
  <1>4. Cardinality(S \ {s}) \in Nat
    BY <1>3, StreamCount
  <1>5. QED
    BY <1>1, <1>2, <1>4

LEMMA QuotaCountToday == ASSUME QuotaInv, NEW s \in Stream, CountToday(s) PROVE QuotaInv'
  <1> DEFINE D == DayOf(hour)
  <1>1. Wrote(s, "today")
    BY DEF CountToday
  <1>2. "today" \in stream[s].todo
    BY <1>1, WroteIs
  <1>3. PICK x \in StreamType :
          /\ RequestSound(x) /\ SetStream(s, x)
          /\ Parts(x) = Parts(stream[s]) \ {"today"}
          /\ Awaits(x) <=> Awaits(stream[s])
    BY <1>1, WroteIs
  <1>4. /\ stream' \in [Stream -> StreamType] /\ RequestsSound'
        /\ \A q \in Stream : stream'[q] = IF q = s THEN x ELSE stream[q]
    BY <1>3, RequestChanges DEF QuotaInv
  <1>5. /\ UncountedIn(stream', "today") = UncountedIn(stream, "today") \ {s}
        /\ s \in UncountedIn(stream, "today") /\ UncountedIn(stream, "today") \in SUBSET Stream
        /\ UncountedIn(stream', "window") \subseteq UncountedIn(stream, "window")
        /\ Awaiting(stream') \subseteq Awaiting(stream)
    <2>1. UncountedIn(stream', "today") = UncountedIn(stream, "today") \ {s}
      BY <1>3, <1>4 DEF UncountedIn, Parts
    <2>2. s \in UncountedIn(stream, "today") /\ UncountedIn(stream, "today") \in SUBSET Stream
      BY <1>2 DEF UncountedIn
    <2>3. UncountedIn(stream', "window") \subseteq UncountedIn(stream, "window")
      BY <1>3, <1>4 DEF UncountedIn, Parts
    <2>4. Awaiting(stream') \subseteq Awaiting(stream)
      BY <1>3, <1>4 DEF Awaiting
    <2>5. QED
      BY <2>1, <2>2, <2>3, <2>4
  <1>6. /\ UNCHANGED <<hour, window, user, recorded>>
        /\ today \in [MessageDay -> Nat] /\ D \in MessageDay
        /\ today' \in [MessageDay -> Nat]
        /\ \A d \in MessageDay : today'[d] = IF d = D THEN today[d] + 1 ELSE today[d]
    BY DEF CountToday, Incr, QuotaInv, QuotaTypeOK, MessageDay
  <1> HIDE DEF D
  <1>7. QuotaTypeOK'
    BY <1>4, <1>6 DEF QuotaInv, QuotaTypeOK, StreamType, user
  <1>8. MessagesFit'
    BY <1>5, <1>6, FitsKept DEF QuotaInv, user
  <1>9. DaysAhead' /\ WindowHolds'
    <2>1. WindowHolds'
      BY <1>6 DEF QuotaInv, WindowHolds
    <2>2. D \in Nat /\ \A d \in MessageDay : d \in Nat
      BY <1>6, DaysInOrder DEF MessageDay, Time
    <2>3. DayOf(hour)' = D /\ DayOf(hour) = D
      BY <1>6 DEF D
    <2>4. DaysAhead'
      BY <1>6, <2>2, <2>3 DEF QuotaInv, DaysAhead
    <2>5. QED
      BY <2>1, <2>4
  <1>10. DailyCapRespected'
    <2> SUFFICES ASSUME DailyCapped, NEW d \in MessageDay, today'[d] > 0
                 PROVE  today'[d] + Cardinality(IF d = D THEN UncountedIn(stream', "today") ELSE {})
                          < Cap(DailyCap) + Cardinality(Stream)
      BY <1>6 DEF DailyCapRespected, DailyCapped, Uncounted, UncountedIn, D
    <2>1. today[d] > 0 =>
            today[d] + Cardinality(IF d = D THEN UncountedIn(stream, "today") ELSE {})
              < Cap(DailyCap) + Cardinality(Stream)
      BY DEF QuotaInv, DailyCapRespected, DailyCapped, Uncounted, UncountedIn, D
    <2>2. CASE d # D
      <3>1. today'[d] = today[d]
        BY <1>6, <2>2
      <3>2. QED
        BY <2>1, <2>2, <3>1
    <2>3. CASE d = D
      <3> DEFINE c == Cardinality(UncountedIn(stream, "today"))
                 e == Cardinality(UncountedIn(stream, "today") \ {s})
      <3>1. e \in Nat /\ c = e + 1 /\ Cardinality(Stream) \in Nat /\ c =< Cardinality(Stream)
        BY <1>5, OneLess
      <3>2. DailyCap \in [Mode -> Nat]
        BY ChatQuotaAssumption DEF DailyCapped
      <3>3. Cap(DailyCap) \in Nat /\ Cap(DailyCap) > 0
        <4>1. stream[s].mode \in Mode /\ DailyCap[stream[s].mode] # 0
          BY <1>2, RequestIs DEF StreamType, RequestSound
        <4>2. DailyCap[stream[s].mode] \in Nat /\ DailyCap[stream[s].mode] =< Cap(DailyCap) /\ Cap(DailyCap) \in Nat
          BY <3>2, <4>1, CapsAreCaps
        <4>3. QED
          BY <4>1, <4>2
      <3>4. today[D] \in Nat /\ today'[D] = today[D] + 1
        BY <1>6
      <3>5. today[D] > 0 => today[D] + c < Cap(DailyCap) + Cardinality(Stream)
        BY <2>1, <2>3
      <3> HIDE DEF c
      <3>6. today'[D] + e < Cap(DailyCap) + Cardinality(Stream)
        <4> HIDE DEF e
        <4>1. CASE today[D] > 0
          BY <3>1, <3>3, <3>4, <3>5, <4>1
        <4>2. CASE today[D] = 0
          BY <3>1, <3>3, <3>4, <4>2
        <4>3. QED
          BY <3>4, <4>1, <4>2
      <3>7. QED
        BY <1>5, <2>3, <3>6
    <2>4. QED
      BY <2>2, <2>3
  <1>11. WindowCapRespected'
    BY <1>5, <1>6, WindowKept DEF QuotaInv
  <1>12. QED
    BY <1>4, <1>7, <1>8, <1>9, <1>10, <1>11 DEF QuotaInv

LEMMA QuotaCountWindow == ASSUME QuotaInv, NEW s \in Stream, CountWindow(s) PROVE QuotaInv'
  <1>1. Wrote(s, "window")
    BY DEF CountWindow
  <1>2. "window" \in stream[s].todo
    BY <1>1, WroteIs
  <1>3. PICK x \in StreamType :
          /\ RequestSound(x) /\ SetStream(s, x)
          /\ Parts(x) = Parts(stream[s]) \ {"window"}
          /\ Awaits(x) <=> Awaits(stream[s])
    BY <1>1, WroteIs
  <1>4. /\ stream' \in [Stream -> StreamType] /\ RequestsSound'
        /\ \A q \in Stream : stream'[q] = IF q = s THEN x ELSE stream[q]
    BY <1>3, RequestChanges DEF QuotaInv
  <1>5. /\ UncountedIn(stream', "window") = UncountedIn(stream, "window") \ {s}
        /\ s \in UncountedIn(stream, "window") /\ UncountedIn(stream, "window") \in SUBSET Stream
        /\ UncountedIn(stream', "today") \subseteq UncountedIn(stream, "today")
        /\ Awaiting(stream') \subseteq Awaiting(stream)
    <2>1. UncountedIn(stream', "window") = UncountedIn(stream, "window") \ {s}
      BY <1>3, <1>4 DEF UncountedIn, Parts
    <2>2. s \in UncountedIn(stream, "window") /\ UncountedIn(stream, "window") \in SUBSET Stream
      BY <1>2 DEF UncountedIn
    <2>3. UncountedIn(stream', "today") \subseteq UncountedIn(stream, "today")
      BY <1>3, <1>4 DEF UncountedIn, Parts
    <2>4. Awaiting(stream') \subseteq Awaiting(stream)
      BY <1>3, <1>4 DEF Awaiting
    <2>5. QED
      BY <2>1, <2>2, <2>3, <2>4
  <1>6. /\ UNCHANGED <<hour, today, user>> /\ hour \in Time /\ hour \in Nat
        /\ window \in [Time -> Nat] /\ recorded \in [Time -> Nat]
        /\ window' \in [Time -> Nat] /\ recorded' \in [Time -> Nat]
        /\ \A t \in Time : /\ window'[t] = IF t = hour THEN window[t] + 1 ELSE window[t]
                           /\ recorded'[t] = IF t = hour THEN recorded[t] + 1 ELSE recorded[t]
    BY DEF CountWindow, QuotaInv, QuotaTypeOK, Time
  <1>7. QuotaTypeOK'
    BY <1>4, <1>6 DEF QuotaInv, QuotaTypeOK, StreamType, user
  <1>8. MessagesFit'
    BY <1>5, <1>6, FitsKept DEF QuotaInv, user
  <1>9. DaysAhead' /\ WindowHolds'
    BY <1>6 DEF QuotaInv, DaysAhead, WindowHolds
  <1>10. DailyCapRespected'
    BY <1>5, <1>6, DaysKept DEF QuotaInv
  <1>11. WindowCapRespected'
    <2> DEFINE L == Lately(Shorter, hour)
               n == SumOver(recorded, L)
               k == SumOver(recorded', L)
               c == Cardinality(UncountedIn(stream, "window"))
               e == Cardinality(UncountedIn(stream, "window") \ {s})
    <2> SUFFICES ASSUME WindowCapped PROVE k + e < Cap(WindowCap) + Cardinality(Stream)
      BY <1>5, <1>6, WindowIs DEF WindowWithin
    <2>1. n > 0 => n + c < Cap(WindowCap) + Cardinality(Stream)
      BY WindowIs DEF QuotaInv, WindowWithin
    <2>2. e \in Nat /\ c = e + 1 /\ Cardinality(Stream) \in Nat /\ c =< Cardinality(Stream)
      BY <1>5, OneLess
    <2>3. L \in SUBSET Time /\ hour \in L
      <3>1. Shorter \in Nat \ {0}
        BY ShorterWindow DEF Shorter
      <3>2. hour > hour - Shorter
        BY <1>6, <3>1
      <3>3. QED
        BY <1>6, <3>2 DEF Lately
    <2> HIDE DEF L
    <2>4. n \in Nat /\ IsFiniteSet(L)
      BY <1>6, <2>3, RecordedIsNat
    <2>5. k = n + 1
      <3>1. \A t \in L : recorded[t] \in Int /\ recorded'[t] \in Int
        BY <1>6, <2>3
      <3>2. \A t \in L \ {hour} : recorded[t] = recorded'[t]
        BY <1>6, <2>3
      <3>3. k = n - recorded[hour] + recorded'[hour]
        <4> DEFINE g == recorded'
        <4>1. /\ \A t \in L : recorded[t] \in Int /\ g[t] \in Int
              /\ \A t \in L \ {hour} : recorded[t] = g[t]
          BY <3>1, <3>2
        <4> HIDE DEF g
        <4>2. SumOver(g, L) = SumOver(recorded, L) - recorded[hour] + g[hour]
          BY <2>3, <2>4, <4>1, TotalReplace
        <4>3. QED
          BY <4>2 DEF g
      <3>4. recorded[hour] \in Nat /\ recorded'[hour] = recorded[hour] + 1
        BY <1>6
      <3> HIDE DEF n, k
      <3>5. QED
        BY <2>4, <3>3, <3>4
    <2>6. Cap(WindowCap) \in Nat /\ Cap(WindowCap) > 0
      <3>1. stream[s].mode \in Mode /\ WindowCap[stream[s].mode] # 0
        BY <1>2, RequestIs DEF StreamType, RequestSound
      <3>2. WindowCap[stream[s].mode] \in Nat /\ WindowCap[stream[s].mode] =< Cap(WindowCap) /\ Cap(WindowCap) \in Nat
        BY <3>1, CapIsNat, CapsAreCaps
      <3>3. QED
        BY <3>1, <3>2
    <2> HIDE DEF n, k, c, e
    <2>7. CASE n > 0
      BY <2>1, <2>2, <2>4, <2>5, <2>6, <2>7
    <2>8. CASE n = 0
      BY <2>2, <2>5, <2>6, <2>8
    <2>9. QED
      BY <2>4, <2>7, <2>8
  <1>12. QED
    BY <1>4, <1>7, <1>8, <1>9, <1>10, <1>11 DEF QuotaInv

LEMMA InitQuota == QuotaInit => QuotaInv
  <1> SUFFICES ASSUME QuotaInit PROVE QuotaInv
    OBVIOUS
  <1>1. /\ hour = 0 /\ lifetime = 0 /\ trialEnded = FALSE
        /\ today = [d \in MessageDay |-> 0] /\ window = [t \in Time |-> 0] /\ recorded = [t \in Time |-> 0]
        /\ stream = [s \in Stream |-> NoRequest]
    BY DEF QuotaInit
  <1>2. stream \in [Stream -> StreamType] /\ RequestsSound
    BY <1>1, NoRequestSound DEF RequestsSound
  <1>3. QuotaTypeOK
    <2>1. 0 \in Time /\ 0 \in 0..MaxMessages
      BY ChatQuotaAssumption DEF Time
    <2>2. /\ today \in [MessageDay -> Nat] /\ window \in [Time -> Nat] /\ recorded \in [Time -> Nat]
          /\ hour \in Time /\ lifetime \in 0..MaxMessages
      BY <1>1, <2>1
    <2>3. trialEnded \in BOOLEAN
      BY <1>1
    <2>4. QED
      BY <1>2, <2>2, <2>3 DEF QuotaTypeOK, StreamType
  <1>4. MessagesFit
    <2>1. Awaiting(stream) = {}
      BY <1>1, NoRequestSound DEF Awaiting
    <2>2. Cardinality(Awaiting(stream)) = 0
      BY <2>1, FS_EmptySet
    <2>3. QED
      BY <1>1, <2>2, ChatQuotaAssumption DEF MessagesFit
  <1>5. DaysAhead /\ WindowHolds /\ DailyCapRespected
    BY <1>1 DEF DaysAhead, WindowHolds, DailyCapRespected
  <1>6. WindowCapRespected
    <2>1. Lately(Shorter, hour) \in SUBSET Time
      BY DEF Lately
    <2>2. IsFiniteSet(Lately(Shorter, hour))
      BY <1>3, <2>1, RecordedIsNat DEF QuotaTypeOK
    <2>3. SumOver(recorded, Lately(Shorter, hour)) = 0
      BY <1>1, <2>1, <2>2, TotalZero
    <2>4. QED
      BY <2>3, WindowIs DEF WindowWithin
  <1>7. QED
    BY <1>2, <1>3, <1>4, <1>5, <1>6 DEF QuotaInv

LEMMA StepQuota == QuotaInv /\ [QuotaNext]_quotaVars => QuotaInv'
  <1> SUFFICES ASSUME QuotaInv, [QuotaNext]_quotaVars PROVE QuotaInv'
    OBVIOUS
  <1>1. ASSUME NEW s \in Stream, Refuse(s) \/ Fail(s) PROVE QuotaInv'
    BY <1>1, RequestEnds DEF Refuse, Fail
  <1>2. CASE UNCHANGED quotaVars
    <2>1. QuotaTypeOK' /\ RequestsSound' /\ MessagesFit' /\ DaysAhead' /\ WindowHolds'
      BY <1>2 DEF quotaVars, user, QuotaInv, QuotaTypeOK, RequestsSound, MessagesFit, DaysAhead, WindowHolds
    <2>2. DailyCapRespected' /\ WindowCapRespected'
      BY <1>2, DaysKept, WindowKept DEF quotaVars, QuotaInv
    <2>3. QED
      BY <2>1, <2>2 DEF QuotaInv
  <1>3. QED
    BY <1>1, <1>2, QuotaReadUser, QuotaReadToday, QuotaReadWindow, QuotaAdmit, QuotaAnswered,
       QuotaCountToday, QuotaCountWindow, QuotaCountLifetime, QuotaHourPasses DEF QuotaNext
-----------------------------------------------------------------------------
(* Visitors *)

AnonRequest ==
  [at : {"idle", "check", "count", "ask", "answer", "record"}, browser : SUBSET Browser,
   pastFree : BOOLEAN, day : AnonDay, first : BOOLEAN, owes : SUBSET {"lifetime", "daily"}]

AnonTypeOK ==
  /\ lifetimeOf \in Nat /\ dailyOf \in [AnonDay -> Nat] /\ anonToday \in AnonDay
  /\ transcript \in [Browser -> Seq({"USER", "ASSISTANT"})]
  /\ anonStream \in [AnonStream -> AnonRequest]
  /\ anonSaved \in [Kind -> Nat] /\ uncounted \in [Kind -> Nat]

AnonSound(x) ==
  /\ x.at # "idle" => \E b \in Browser : x.browser = {b}
  /\ x.at # "record" => x.owes = {}
  /\ "daily" \in x.owes => x.pastFree
AllAnonSound == \A r \in AnonStream : AnonSound(anonStream[r])

\* A request that may still answer with a message of the kind, and one that has
\* answered and not counted it yet.
Holds(x, k) ==
  \/ k = 0 /\ ~x.pastFree /\ x.at \in {"check", "count", "ask", "answer"}
  \/ k # 0 /\ x.pastFree /\ x.day = k /\ x.at \in {"count", "ask", "answer"}
Owes(x, k) ==
  \/ k = 0 /\ ~x.pastFree /\ "lifetime" \in x.owes
  \/ k # 0 /\ x.day = k /\ "daily" \in x.owes
Holders(f, k) == {r \in AnonStream : Holds(f[r], k)}
Owers(f, k) == {r \in AnonStream : Owes(f[r], k)}

CountOf(lifetime_, daily, k) == IF k = 0 THEN lifetime_ ELSE daily[k]
LimitOfKind(k) == IF k = 0 THEN FreeLimit ELSE AnonPerDay

\* Answers of a kind are counted, about to be, or could not be; with those that may
\* still come they fit below the limit and the other requests.
KindCounted(saved, count, lost, S) == saved =< count + lost + Cardinality(S)
KindFits(k, saved, lost, S) == saved + Cardinality(S) =< LimitOfKind(k) + Cardinality(AnonStream) - 1 + lost
KindSound(k) ==
  /\ KindCounted(anonSaved[k], CountOf(lifetimeOf, dailyOf, k), uncounted[k], Owers(anonStream, k))
  /\ KindFits(k, anonSaved[k], uncounted[k], Holders(anonStream, k))
KindsSound == \A k \in Kind : KindSound(k)

Seen == event \union emitting \union lostEvent
Entered == \E b \in Browser : <<b, "ENTERED_LIMITED_ZONE">> \in Seen

\* Whoever is past the free messages has been seen entering the limited zone, and
\* whoever asks without announcing a first message is not the first to ask.
FunnelSound ==
  /\ turnedAway => Entered
  /\ \A d \in AnonDay : dailyOf[d] > 0 => Entered
  /\ \A r \in AnonStream :
       anonStream[r].pastFree /\ anonStream[r].at \in {"count", "ask", "answer", "record"} => Entered
  /\ \A b \in Browser : transcript[b] # <<>> => <<b, "FIRST_MESSAGE_SENT">> \in Seen
  /\ \A r \in AnonStream, b \in Browser :
       /\ anonStream[r].browser = {b}
       /\ (anonStream[r].at = "ask" /\ ~anonStream[r].first) \/ anonStream[r].at = "answer"
       => transcript[b] # <<>>

AnonInv == AnonTypeOK /\ AllAnonSound /\ KindsSound /\ FunnelSound

LEMMA AnonCount ==
  ASSUME NEW S \in SUBSET AnonStream
  PROVE  IsFiniteSet(S) /\ Cardinality(S) \in Nat /\ Cardinality(AnonStream) \in Nat \ {0}
         /\ Cardinality(S) =< Cardinality(AnonStream)
  BY AnonChatAssumption, FS_Subset, FS_CardinalityType, FS_EmptySet

\* A request that joins or leaves a set of requests.
LEMMA AnonJoins ==
  ASSUME NEW S \in SUBSET AnonStream, NEW r \in AnonStream, r \notin S
  PROVE  Cardinality(S \cup {r}) = Cardinality(S) + 1
  BY AnonCount, FS_AddElement

LEMMA AnonLeaves ==
  ASSUME NEW S \in SUBSET AnonStream, NEW r \in S
  PROVE  Cardinality(S \ {r}) = Cardinality(S) - 1
  BY AnonCount, FS_RemoveElement

\* Requests that hold and requests that owe are not the same.
LEMMA AnonApart ==
  ASSUME NEW S \in SUBSET AnonStream, NEW T \in SUBSET AnonStream, S \cap T = {}
  PROVE  Cardinality(S) + Cardinality(T) =< Cardinality(AnonStream)
  <1>1. IsFiniteSet(S) /\ IsFiniteSet(T) /\ S \cup T \in SUBSET AnonStream
    BY AnonCount
  <1>2. Cardinality(S \cup T) = Cardinality(S) + Cardinality(T) - Cardinality(S \cap T)
    BY <1>1, FS_Union
  <1>3. Cardinality(S \cap T) = 0 /\ Cardinality(S) \in Nat /\ Cardinality(T) \in Nat
        /\ Cardinality(S \cup T) =< Cardinality(AnonStream)
    BY <1>1, AnonCount, FS_EmptySet
  <1>4. QED
    BY <1>2, <1>3

\* The kind of a request's answer.
KindOfRequest(x) == IF x.pastFree THEN x.day ELSE 0

LEMMA AnonIdleIs ==
  AnonIdle \in AnonRequest /\ AnonSound(AnonIdle) /\ AnonIdle.at = "idle" /\ AnonIdle.owes = {}
  /\ \A k : ~Holds(AnonIdle, k) /\ ~Owes(AnonIdle, k)
  BY AnonChatAssumption DEF AnonIdle, AnonRequest, AnonSound, Holds, Owes, AnonDay

\* What a step may do to the answers of a kind: nothing, count one or lose its count,
\* give one, or let a request in that found the count below the limit.
KindStays(k) ==
  /\ anonSaved'[k] = anonSaved[k] /\ uncounted'[k] >= uncounted[k]
  /\ CountOf(lifetimeOf', dailyOf', k) >= CountOf(lifetimeOf, dailyOf, k)
  /\ Owers(anonStream', k) = Owers(anonStream, k)
  /\ Holders(anonStream', k) \subseteq Holders(anonStream, k)
KindPays(k, r) ==
  /\ anonSaved'[k] = anonSaved[k] /\ uncounted'[k] >= uncounted[k]
  /\ CountOf(lifetimeOf', dailyOf', k) + uncounted'[k] >= CountOf(lifetimeOf, dailyOf, k) + uncounted[k] + 1
  /\ r \in Owers(anonStream, k) /\ Owers(anonStream', k) = Owers(anonStream, k) \ {r}
  /\ Holders(anonStream', k) \subseteq Holders(anonStream, k)
KindAnswers(k, r) ==
  /\ anonSaved'[k] = anonSaved[k] + 1 /\ uncounted'[k] = uncounted[k]
  /\ CountOf(lifetimeOf', dailyOf', k) = CountOf(lifetimeOf, dailyOf, k)
  /\ r \notin Owers(anonStream, k) /\ Owers(anonStream', k) = Owers(anonStream, k) \cup {r}
  /\ r \in Holders(anonStream, k) /\ Holders(anonStream', k) = Holders(anonStream, k) \ {r}
KindEnters(k) ==
  /\ anonSaved'[k] = anonSaved[k] /\ uncounted'[k] = uncounted[k]
  /\ CountOf(lifetimeOf', dailyOf', k) = CountOf(lifetimeOf, dailyOf, k)
  /\ CountOf(lifetimeOf, dailyOf, k) < LimitOfKind(k)
  /\ Owers(anonStream', k) = Owers(anonStream, k)
  /\ Holders(anonStream', k) \cap Owers(anonStream, k) = {}
KindChange(k) ==
  KindStays(k) \/ KindEnters(k) \/ \E r \in AnonStream : KindPays(k, r) \/ KindAnswers(k, r)

LEMMA KindNumbers ==
  ASSUME AnonTypeOK, NEW k \in Kind
  PROVE  anonSaved[k] \in Nat /\ uncounted[k] \in Nat /\ CountOf(lifetimeOf, dailyOf, k) \in Nat
         /\ LimitOfKind(k) \in Nat
  BY AnonChatAssumption DEF AnonTypeOK, Kind, CountOf, LimitOfKind

LEMMA KindStep ==
  ASSUME AnonTypeOK, AnonTypeOK', NEW k \in Kind, KindSound(k), KindChange(k)
  PROVE  KindSound(k)'
  <1> DEFINE n == Cardinality(AnonStream)
             saved == anonSaved[k]
             lost == uncounted[k]
             count == CountOf(lifetimeOf, dailyOf, k)
             O == Owers(anonStream, k)
             H == Holders(anonStream, k)
             saved2 == anonSaved'[k]
             lost2 == uncounted'[k]
             count2 == CountOf(lifetimeOf', dailyOf', k)
             O2 == Owers(anonStream', k)
             H2 == Holders(anonStream', k)
             limit == LimitOfKind(k)
  <1>1. O \in SUBSET AnonStream /\ H \in SUBSET AnonStream /\ O2 \in SUBSET AnonStream /\ H2 \in SUBSET AnonStream
    BY DEF Owers, Holders
  <1>2. /\ Cardinality(O) \in Nat /\ Cardinality(H) \in Nat /\ Cardinality(O2) \in Nat /\ Cardinality(H2) \in Nat
        /\ n \in Nat \ {0} /\ IsFiniteSet(H)
    BY <1>1, AnonCount
  <1>3. saved \in Nat /\ lost \in Nat /\ count \in Nat /\ limit \in Nat
    BY KindNumbers
  <1>4. saved2 \in Nat /\ lost2 \in Nat /\ count2 \in Nat
    <2>1. /\ lifetimeOf' \in Nat /\ dailyOf' \in [AnonDay -> Nat]
          /\ anonSaved' \in [Kind -> Nat] /\ uncounted' \in [Kind -> Nat]
      BY DEF AnonTypeOK
    <2>2. QED
      BY <2>1 DEF CountOf, Kind
  <1>5. saved =< count + lost + Cardinality(O) /\ saved + Cardinality(H) =< limit + n - 1 + lost
    BY DEF KindSound, KindCounted, KindFits
  <1>6. SUFFICES saved2 =< count2 + lost2 + Cardinality(O2) /\ saved2 + Cardinality(H2) =< limit + n - 1 + lost2
    BY DEF KindSound, KindCounted, KindFits
  <1>7. H2 \subseteq H => Cardinality(H2) =< Cardinality(H)
    BY <1>2, FS_Subset
  <1>8. CASE KindStays(k)
    <2>1. saved2 = saved /\ lost2 >= lost /\ count2 >= count /\ O2 = O /\ H2 \subseteq H
      BY <1>8 DEF KindStays
    <2> HIDE DEF n, saved, lost, count, O, H, saved2, lost2, count2, O2, H2, limit
    <2>2. QED
      BY <1>2, <1>3, <1>4, <1>5, <1>7, <2>1
  <1>9. ASSUME NEW r \in AnonStream, KindPays(k, r)
        PROVE  saved2 =< count2 + lost2 + Cardinality(O2) /\ saved2 + Cardinality(H2) =< limit + n - 1 + lost2
    <2>1. saved2 = saved /\ lost2 >= lost /\ count2 + lost2 >= count + lost + 1 /\ r \in O /\ O2 = O \ {r}
          /\ H2 \subseteq H
      BY <1>9 DEF KindPays
    <2> HIDE DEF n, saved, lost, count, O, H, saved2, lost2, count2, O2, H2, limit
    <2>2. Cardinality(O2) = Cardinality(O) - 1
      BY <1>1, <2>1, AnonLeaves
    <2>3. QED
      BY <1>2, <1>3, <1>4, <1>5, <1>7, <2>1, <2>2
  <1>10. ASSUME NEW r \in AnonStream, KindAnswers(k, r)
        PROVE  saved2 =< count2 + lost2 + Cardinality(O2) /\ saved2 + Cardinality(H2) =< limit + n - 1 + lost2
    <2>1. saved2 = saved + 1 /\ lost2 = lost /\ count2 = count /\ r \notin O /\ O2 = O \cup {r}
          /\ r \in H /\ H2 = H \ {r}
      BY <1>10 DEF KindAnswers
    <2> HIDE DEF n, saved, lost, count, O, H, saved2, lost2, count2, O2, H2, limit
    <2>2. Cardinality(O2) = Cardinality(O) + 1 /\ Cardinality(H2) = Cardinality(H) - 1
      BY <1>1, <2>1, AnonLeaves, AnonJoins
    <2>3. QED
      BY <1>2, <1>3, <1>4, <1>5, <2>1, <2>2
  <1>11. CASE KindEnters(k)
    <2>1. saved2 = saved /\ lost2 = lost /\ count2 = count /\ count < limit /\ O2 = O /\ H2 \cap O = {}
      BY <1>11 DEF KindEnters
    <2> HIDE DEF saved, lost, count, O, H, saved2, lost2, count2, O2, H2, limit
    <2>2. Cardinality(H2) + Cardinality(O) =< n
      BY <1>1, <2>1, AnonApart
    <2> HIDE DEF n
    <2>3. QED
      BY <1>2, <1>3, <1>4, <1>5, <2>1, <2>2
  <1>12. QED
    BY <1>8, <1>9, <1>10, <1>11 DEF KindChange

LEMMA FunnelStep ==
  ASSUME AnonTypeOK, FunnelSound, NEW r \in AnonStream, NEW x \in AnonRequest,
         anonStream' = [anonStream EXCEPT ![r] = x], Seen \subseteq Seen',
         turnedAway' => turnedAway \/ Entered',
         \A d \in AnonDay : dailyOf'[d] > 0 => dailyOf[d] > 0 \/ Entered',
         x.pastFree /\ x.at \in {"count", "ask", "answer", "record"} => Entered',
         \A b \in Browser : transcript[b] # <<>> => transcript'[b] # <<>>,
         \A b \in Browser : transcript'[b] # <<>> => \/ transcript[b] # <<>>
                                                     \/ <<b, "FIRST_MESSAGE_SENT">> \in Seen',
         \A b \in Browser :
           /\ x.browser = {b}
           /\ (x.at = "ask" /\ ~x.first) \/ x.at = "answer"
           => transcript'[b] # <<>>
  PROVE  FunnelSound'
  <1>1. Entered => Entered'
    BY DEF Entered
  <1>2. \A q \in AnonStream : anonStream'[q] = IF q = r THEN x ELSE anonStream[q]
    BY DEF AnonTypeOK
  <1>3. turnedAway' => Entered'
    BY <1>1 DEF FunnelSound
  <1>4. \A d \in AnonDay : dailyOf'[d] > 0 => Entered'
    BY <1>1 DEF FunnelSound
  <1>5. \A q \in AnonStream :
          anonStream'[q].pastFree /\ anonStream'[q].at \in {"count", "ask", "answer", "record"} => Entered'
    BY <1>1, <1>2 DEF FunnelSound
  <1>6. \A b \in Browser : transcript'[b] # <<>> => <<b, "FIRST_MESSAGE_SENT">> \in Seen'
    BY DEF FunnelSound
  <1>7. \A q \in AnonStream, b \in Browser :
          /\ anonStream'[q].browser = {b}
          /\ (anonStream'[q].at = "ask" /\ ~anonStream'[q].first) \/ anonStream'[q].at = "answer"
          => transcript'[b] # <<>>
    BY <1>2 DEF FunnelSound
  <1>8. QED
    BY <1>3, <1>4, <1>5, <1>6, <1>7 DEF FunnelSound

LEMMA SoundStep ==
  ASSUME AnonTypeOK, AllAnonSound, NEW r \in AnonStream, NEW x \in AnonRequest, AnonSound(x),
         anonStream' = [anonStream EXCEPT ![r] = x]
  PROVE  anonStream' \in [AnonStream -> AnonRequest] /\ AllAnonSound'
  <1>1. anonStream' \in [AnonStream -> AnonRequest]
        /\ \A q \in AnonStream : anonStream'[q] = IF q = r THEN x ELSE anonStream[q]
    BY DEF AnonTypeOK
  <1>2. QED
    BY <1>1 DEF AllAnonSound, AnonSound

\* A request that goes on without touching any count.
LEMMA VisitorGoesOn ==
  ASSUME AnonInv, NEW r \in AnonStream, NEW x \in AnonRequest, AnonSound(x),
         anonStream' = [anonStream EXCEPT ![r] = x],
         UNCHANGED <<lifetimeOf, dailyOf, anonToday, anonSaved, uncounted>>,
         transcript' \in [Browser -> Seq({"USER", "ASSISTANT"})], FunnelSound',
         \A k \in Kind : /\ Owes(x, k) <=> Owes(anonStream[r], k)
                         /\ Holds(x, k) => Holds(anonStream[r], k)
  PROVE  AnonInv'
  <1>1. anonStream' \in [AnonStream -> AnonRequest] /\ AllAnonSound'
    BY SoundStep DEF AnonInv
  <1>2. AnonTypeOK'
    BY <1>1 DEF AnonInv, AnonTypeOK
  <1>3. ASSUME NEW k \in Kind PROVE KindSound(k)'
    <2>1. \A q \in AnonStream : anonStream'[q] = IF q = r THEN x ELSE anonStream[q]
      BY DEF AnonInv, AnonTypeOK
    <2>2. Owers(anonStream', k) = Owers(anonStream, k) /\ Holders(anonStream', k) \subseteq Holders(anonStream, k)
      BY <2>1 DEF Owers, Holders
    <2>3. anonSaved[k] \in Nat /\ uncounted[k] \in Nat /\ CountOf(lifetimeOf, dailyOf, k) \in Nat
      BY KindNumbers DEF AnonInv
    <2>4. CountOf(lifetimeOf', dailyOf', k) = CountOf(lifetimeOf, dailyOf, k)
      BY DEF CountOf
    <2>5. KindStays(k)
      <3>1. anonSaved'[k] = anonSaved[k] /\ uncounted'[k] = uncounted[k]
        OBVIOUS
      <3> DEFINE c == CountOf(lifetimeOf, dailyOf, k)
                 e == uncounted[k]
      <3>2. c >= c /\ e >= e
        <4>1. c \in Nat /\ e \in Nat
          BY <2>3
        <4> HIDE DEF c, e
        <4>2. QED
          BY <4>1
      <3>3. QED
        BY <2>2, <2>4, <3>1, <3>2 DEF KindStays
    <2>6. KindChange(k)
      BY <2>5 DEF KindChange
    <2>7. AnonTypeOK /\ KindSound(k)
      BY DEF AnonInv, KindsSound
    <2>8. QED
      BY <1>2, <2>6, <2>7, KindStep
  <1>4. QED
    BY <1>1, <1>2, <1>3 DEF AnonInv, KindsSound

\* A request that ends without an answer.
LEMMA VisitorGivesUp ==
  ASSUME AnonInv, NEW r \in AnonStream, anonStream[r].at # "record",
         anonStream' = [anonStream EXCEPT ![r] = AnonIdle], Seen \subseteq Seen',
         UNCHANGED <<lifetimeOf, dailyOf, anonToday, anonSaved, uncounted, transcript>>,
         turnedAway' => turnedAway \/ Entered'
  PROVE  AnonInv'
  <1>1. anonStream[r] \in AnonRequest /\ AnonSound(anonStream[r])
    BY DEF AnonInv, AnonTypeOK, AllAnonSound
  <1>2. \A k \in Kind : ~Owes(anonStream[r], k)
    BY <1>1 DEF AnonSound, Owes
  <1>3. FunnelSound'
    BY AnonIdleIs, FunnelStep DEF AnonInv
  <1>4. transcript' \in [Browser -> Seq({"USER", "ASSISTANT"})]
    BY DEF AnonInv, AnonTypeOK
  <1>5. QED
    BY <1>2, <1>3, <1>4, AnonIdleIs, VisitorGoesOn

LEMMA MineIs ==
  ASSUME AnonInv, NEW r \in AnonStream, anonStream[r].at # "idle"
  PROVE  Mine(r) \in Browser /\ anonStream[r].browser = {Mine(r)}
  <1>1. \E b \in Browser : anonStream[r].browser = {b}
    BY DEF AnonInv, AllAnonSound, AnonSound
  <1>2. QED
    BY <1>1 DEF Mine

LEMMA ApartHere ==
  ASSUME AllAnonSound, NEW k
  PROVE  Holders(anonStream, k) \cap Owers(anonStream, k) = {}
  BY DEF AllAnonSound, AnonSound, Holders, Owers, Holds, Owes

\* A kind no count of which changes.
LEMMA KindIsKept ==
  ASSUME AnonTypeOK, NEW k \in Kind,
         anonSaved'[k] = anonSaved[k], uncounted'[k] = uncounted[k],
         CountOf(lifetimeOf', dailyOf', k) = CountOf(lifetimeOf, dailyOf, k),
         Owers(anonStream', k) = Owers(anonStream, k),
         Holders(anonStream', k) \subseteq Holders(anonStream, k)
  PROVE  KindStays(k)
  <1> DEFINE c == CountOf(lifetimeOf, dailyOf, k)
             e == uncounted[k]
  <1>1. c >= c /\ e >= e
    <2>1. c \in Nat /\ e \in Nat
      BY KindNumbers
    <2> HIDE DEF c, e
    <2>2. QED
      BY <2>1
  <1>2. QED
    BY <1>1 DEF KindStays

LEMMA KindIsLeft ==
  ASSUME AnonTypeOK, NEW k \in Kind,
         UNCHANGED <<lifetimeOf, dailyOf, anonSaved, uncounted>>,
         Owers(anonStream', k) = Owers(anonStream, k),
         Holders(anonStream', k) \subseteq Holders(anonStream, k)
  PROVE  KindChange(k)
  <1>1. CountOf(lifetimeOf', dailyOf', k) = CountOf(lifetimeOf, dailyOf, k)
        /\ uncounted'[k] = uncounted[k] /\ anonSaved'[k] = anonSaved[k]
    BY DEF CountOf
  <1>2. QED
    BY <1>1, KindIsKept DEF KindChange

LEMMA AnonConclude ==
  ASSUME AnonInv, AnonTypeOK', AllAnonSound', FunnelSound', \A k \in Kind : KindChange(k)
  PROVE  AnonInv'
  <1>1. ASSUME NEW k \in Kind PROVE KindSound(k)'
    <2>1. AnonTypeOK /\ KindSound(k)
      BY DEF AnonInv, KindsSound
    <2>2. QED
      BY <2>1, KindStep
  <1>2. QED
    BY <1>1 DEF AnonInv, KindsSound

\* What a step does to the requests.
LEMMA SetsStep ==
  ASSUME AnonTypeOK, NEW r \in AnonStream, NEW x \in AnonRequest,
         anonStream' = [anonStream EXCEPT ![r] = x], NEW k
  PROVE  /\ r \in Owers(anonStream, k) <=> Owes(anonStream[r], k)
         /\ r \in Holders(anonStream, k) <=> Holds(anonStream[r], k)
         /\ (Owes(x, k) <=> Owes(anonStream[r], k)) => Owers(anonStream', k) = Owers(anonStream, k)
         /\ ~Owes(x, k) => Owers(anonStream', k) = Owers(anonStream, k) \ {r}
         /\ Owes(x, k) => Owers(anonStream', k) = Owers(anonStream, k) \cup {r}
         /\ (Holds(x, k) => Holds(anonStream[r], k)) => Holders(anonStream', k) \subseteq Holders(anonStream, k)
         /\ ~Holds(x, k) => Holders(anonStream', k) = Holders(anonStream, k) \ {r}
         /\ Holds(x, k) => Holders(anonStream', k) = Holders(anonStream, k) \cup {r}
  <1>1. \A q \in AnonStream : anonStream'[q] = IF q = r THEN x ELSE anonStream[q]
    BY DEF AnonTypeOK
  <1> DEFINE g == anonStream'
  <1>2. \A q \in AnonStream : g[q] = IF q = r THEN x ELSE anonStream[q]
    BY <1>1
  <1> HIDE DEF g
  <1>3. /\ (Owes(x, k) <=> Owes(anonStream[r], k)) => Owers(g, k) = Owers(anonStream, k)
        /\ ~Owes(x, k) => Owers(g, k) = Owers(anonStream, k) \ {r}
        /\ Owes(x, k) => Owers(g, k) = Owers(anonStream, k) \cup {r}
    BY <1>2 DEF Owers
  <1>4. /\ (Holds(x, k) => Holds(anonStream[r], k)) => Holders(g, k) \subseteq Holders(anonStream, k)
        /\ ~Holds(x, k) => Holders(g, k) = Holders(anonStream, k) \ {r}
        /\ Holds(x, k) => Holders(g, k) = Holders(anonStream, k) \cup {r}
    BY <1>2 DEF Holders
  <1>5. /\ r \in Owers(anonStream, k) <=> Owes(anonStream[r], k)
        /\ r \in Holders(anonStream, k) <=> Holds(anonStream[r], k)
    BY DEF Owers, Holders
  <1>6. QED
    BY <1>3, <1>4, <1>5 DEF g

LEMMA ResolveContextStep ==
  ASSUME AnonInv, NEW r \in AnonStream, NEW b \in Browser, ResolveContext(r, b)
  PROVE  AnonInv'
  <1> DEFINE over == lifetimeOf >= FreeLimit
             x == [AnonIdle EXCEPT !.at = "check", !.browser = {b}, !.pastFree = over]
  <1>10. over \in BOOLEAN /\ 1 \in AnonDay
    BY AnonChatAssumption DEF AnonDay
  <1>0. ASSUME NEW o \in BOOLEAN, NEW y, y = [AnonIdle EXCEPT !.at = "check", !.browser = {b}, !.pastFree = o]
        PROVE  y \in AnonRequest /\ y.at = "check" /\ y.browser = {b} /\ y.owes = {} /\ y.pastFree = o
    BY <1>0, <1>10 DEF AnonIdle, AnonRequest
  <1>1. x \in AnonRequest /\ x.at = "check" /\ x.browser = {b} /\ x.owes = {}
    BY <1>0, <1>10
  <1>11. x.pastFree = over
    <2>1. x.pastFree = over
      BY <1>0, <1>10
    <2>2. QED
      BY <2>1
  <1>2. anonStream' = [anonStream EXCEPT ![r] = x] /\ anonStream[r].at = "idle"
        /\ UNCHANGED <<lifetimeOf, dailyOf, anonToday, transcript, event, emitting, anonSaved,
                       uncounted, lostEvent, turnedAway>>
    BY DEF ResolveContext
  <1> HIDE DEF x
  <1>3. AnonSound(x)
    BY <1>1 DEF AnonSound
  <1>4. anonStream[r] \in AnonRequest /\ AnonSound(anonStream[r]) /\ anonStream \in [AnonStream -> AnonRequest]
    BY DEF AnonInv, AnonTypeOK, AllAnonSound
  <1>5. anonStream' \in [AnonStream -> AnonRequest] /\ AllAnonSound'
    BY <1>1, <1>2, <1>3, SoundStep DEF AnonInv
  <1>6. AnonTypeOK'
    BY <1>2, <1>5 DEF AnonInv, AnonTypeOK
  <1>7. FunnelSound'
    <2>1. Seen \subseteq Seen'
      BY <1>2 DEF Seen
    <2>2. QED
      BY <1>1, <1>2, <2>1, FunnelStep DEF AnonInv
  <1>8. ASSUME NEW k \in Kind PROVE KindChange(k)
    <2>0. AnonTypeOK
      BY DEF AnonInv
    <2>6. ~Owes(x, k) /\ ~Owes(anonStream[r], k)
      BY <1>1, <1>2, <1>4 DEF Owes, AnonSound
    <2>1. r \notin Owers(anonStream, k)
      BY <2>6 DEF Owers
    <2>2. Owers(anonStream', k) = Owers(anonStream, k)
      BY <1>1, <1>2, <2>0, <2>6, SetsStep
    <2>3. CASE Holds(x, k)
      <3>1. k = 0 /\ ~(lifetimeOf >= FreeLimit)
        BY <1>1, <1>11, <2>3 DEF Holds
      <3>2. lifetimeOf < FreeLimit
        <4>1. lifetimeOf \in Nat /\ FreeLimit \in Nat
          BY AnonChatAssumption DEF AnonInv, AnonTypeOK
        <4>2. QED
          BY <3>1, <4>1
      <3>3. Holders(anonStream', k) = Holders(anonStream, k) \cup {r}
        BY <1>1, <1>2, <2>0, <2>3, SetsStep
      <3>4. Holders(anonStream', k) \cap Owers(anonStream, k) = {}
        BY <2>1, <3>3, ApartHere DEF AnonInv
      <3>5. CountOf(lifetimeOf', dailyOf', k) = CountOf(lifetimeOf, dailyOf, k)
            /\ CountOf(lifetimeOf, dailyOf, k) < LimitOfKind(k)
        BY <1>2, <3>1, <3>2 DEF CountOf, LimitOfKind
      <3>6. KindEnters(k)
        BY <1>2, <2>2, <3>4, <3>5 DEF KindEnters
      <3>7. QED
        BY <3>6 DEF KindChange
    <2>4. CASE ~Holds(x, k)
      <3>1. Holders(anonStream', k) \subseteq Holders(anonStream, k)
        BY <1>1, <1>2, <2>0, <2>4, SetsStep
      <3>2. QED
        BY <1>2, <2>0, <2>2, <3>1, KindIsLeft
    <2>5. QED
      BY <2>3, <2>4
  <1>9. QED
    BY <1>5, <1>6, <1>7, <1>8, AnonConclude

LEMMA CheckLimitStep ==
  ASSUME AnonInv, NEW r \in AnonStream, CheckLimit(r)
  PROVE  AnonInv'
  <1> DEFINE count == dailyOf[anonToday]
             old == anonStream[r]
             x == [old EXCEPT !.at = "count", !.day = anonToday]
  <1>1. /\ anonStream' = [anonStream EXCEPT ![r] = IF old.pastFree /\ Blocked(count) THEN AnonIdle ELSE x]
        /\ old.at = "check"
        /\ turnedAway' = (turnedAway \/ (old.pastFree /\ Blocked(count)))
        /\ emitting' = emitting \union
              (IF ~old.pastFree THEN {}
               ELSE IF Blocked(count) THEN {<<Mine(r), "HARD_BLOCKED">>}
               ELSE IF EntersLimitedZone(count) THEN {<<Mine(r), "ENTERED_LIMITED_ZONE">>}
               ELSE {})
        /\ UNCHANGED <<lifetimeOf, dailyOf, anonToday, transcript, event, anonSaved, uncounted, lostEvent>>
    BY DEF CheckLimit, Emit
  <1>2. old \in AnonRequest /\ AnonSound(old) /\ anonStream \in [AnonStream -> AnonRequest]
        /\ anonToday \in AnonDay /\ count \in Nat
    BY DEF AnonInv, AnonTypeOK, AllAnonSound
  <1>3. x \in AnonRequest /\ x.at = "count" /\ x.browser = old.browser /\ x.pastFree = old.pastFree
        /\ x.day = anonToday /\ x.owes = old.owes /\ old.owes = {} /\ x.first = old.first
    BY <1>1, <1>2 DEF AnonRequest, AnonSound
  <1>4. Seen \subseteq Seen'
    BY <1>1 DEF Seen
  <1>5. Entered => Entered'
    BY <1>4 DEF Entered
  <1>6. count > 0 => Entered'
    BY <1>2, <1>5 DEF AnonInv, FunnelSound
  <1>7. Mine(r) \in Browser
    BY <1>1, MineIs
  <1> HIDE DEF x, count, old
  <1>8. CASE old.pastFree /\ Blocked(count)
    <2>1. count > 0
      BY <1>2, <1>8, AnonChatAssumption DEF Blocked
    <2>2. turnedAway' => turnedAway \/ Entered'
      BY <1>6, <2>1
    <2>3. anonStream' = [anonStream EXCEPT ![r] = AnonIdle] /\ anonStream[r].at # "record"
      BY <1>1, <1>8 DEF old
    <2>4. QED
      BY <1>1, <1>4, <2>2, <2>3, VisitorGivesUp
  <1>9. CASE ~(old.pastFree /\ Blocked(count))
    <2>1. anonStream' = [anonStream EXCEPT ![r] = x] /\ (turnedAway' => turnedAway)
      BY <1>1, <1>9
    <2>2. AnonSound(x)
      BY <1>1, <1>2, <1>3 DEF AnonSound
    <2>3. anonStream' \in [AnonStream -> AnonRequest] /\ AllAnonSound'
      BY <1>3, <2>1, <2>2, SoundStep DEF AnonInv
    <2>4. AnonTypeOK'
      BY <1>1, <2>3 DEF AnonInv, AnonTypeOK
    <2>5. old.pastFree => Entered'
      <3>1. ASSUME old.pastFree, count = 0 PROVE Entered'
        <4>1. <<Mine(r), "ENTERED_LIMITED_ZONE">> \in emitting'
          BY <1>1, <1>9, <3>1 DEF EntersLimitedZone
        <4>2. QED
          BY <1>7, <4>1 DEF Entered, Seen
      <3>2. QED
        BY <1>2, <1>6, <3>1
    <2>6. FunnelSound'
      <3>1. ~((x.at = "ask" /\ ~x.first) \/ x.at = "answer")
        BY <1>3
      <3>2. AnonTypeOK /\ FunnelSound
        BY DEF AnonInv
      <3>3. /\ turnedAway' => turnedAway \/ Entered'
            /\ \A d \in AnonDay : dailyOf'[d] > 0 => dailyOf[d] > 0 \/ Entered'
            /\ x.pastFree /\ x.at \in {"count", "ask", "answer", "record"} => Entered'
        BY <1>1, <1>3, <2>1, <2>5
      <3>4. QED
        BY <1>1, <1>3, <1>4, <2>1, <3>1, <3>2, <3>3, FunnelStep
    <2>7. ASSUME NEW k \in Kind PROVE KindChange(k)
      <3>3. AnonTypeOK /\ AllAnonSound
        BY DEF AnonInv
      <3>7. ~Owes(x, k) /\ ~Owes(old, k)
        BY <1>3 DEF Owes
      <3>1. r \notin Owers(anonStream, k)
        BY <3>7 DEF Owers, old
      <3>2. Owers(anonStream', k) = Owers(anonStream, k)
        BY <1>3, <2>1, <3>3, <3>7, SetsStep DEF old
      <3>4. CASE ~Holds(x, k) \/ k = 0
        <4>1. Holds(x, k) => Holds(old, k)
          BY <1>1, <1>3, <3>4 DEF Holds
        <4>2. Holders(anonStream', k) \subseteq Holders(anonStream, k)
          BY <1>3, <2>1, <3>3, <4>1, SetsStep DEF old
        <4>3. QED
          BY <1>1, <3>2, <3>3, <4>2, KindIsLeft
      <3>5. CASE Holds(x, k) /\ k # 0
        <4>1. x.pastFree /\ k = anonToday /\ k # 0
          BY <1>3, <3>5 DEF Holds
        <4>2. count < AnonPerDay
          <5>1. old.pastFree
            BY <1>3, <4>1
          <5>2. ~(count >= AnonPerDay)
            BY <1>9, <5>1 DEF Blocked
          <5>3. QED
            BY <1>2, <5>2, AnonChatAssumption
        <4>3. Holders(anonStream', k) = Holders(anonStream, k) \cup {r}
          BY <1>3, <2>1, <3>3, <3>5, SetsStep
        <4>4. Holders(anonStream', k) \cap Owers(anonStream, k) = {}
          BY <3>1, <3>3, <4>3, ApartHere
        <4>5. CountOf(lifetimeOf', dailyOf', k) = CountOf(lifetimeOf, dailyOf, k)
              /\ CountOf(lifetimeOf, dailyOf, k) < LimitOfKind(k)
          BY <1>1, <4>1, <4>2 DEF CountOf, LimitOfKind, count
        <4>6. KindEnters(k)
          BY <1>1, <3>2, <4>4, <4>5 DEF KindEnters
        <4>7. QED
          BY <4>6 DEF KindChange
      <3>6. QED
        BY <3>4, <3>5
    <2>8. QED
      BY <2>3, <2>4, <2>6, <2>7, AnonConclude
  <1>10. QED
    BY <1>8, <1>9

LEMMA RefuseAnonStep ==
  ASSUME AnonInv, NEW r \in AnonStream, RefuseAnon(r) \/ AnswerFails(r)
  PROVE  AnonInv'
  <1>1. /\ anonStream[r].at # "record" /\ anonStream' = [anonStream EXCEPT ![r] = AnonIdle]
        /\ UNCHANGED <<lifetimeOf, dailyOf, anonToday, anonSaved, uncounted, transcript>>
        /\ UNCHANGED <<event, emitting, lostEvent, turnedAway>>
    BY DEF RefuseAnon, AnswerFails
  <1>2. Seen \subseteq Seen'
    BY <1>1 DEF Seen
  <1>3. turnedAway' => turnedAway \/ Entered'
    BY <1>1
  <1>4. QED
    BY <1>1, <1>2, <1>3, VisitorGivesUp

LEMMA CountMessagesStep ==
  ASSUME AnonInv, NEW r \in AnonStream, CountMessages(r)
  PROVE  AnonInv'
  <1> DEFINE old == anonStream[r]
             none == transcript[Mine(r)] = <<>>
             x == [old EXCEPT !.at = "ask", !.first = none]
  <1>1. /\ old.at = "count" /\ anonStream' = [anonStream EXCEPT ![r] = x]
        /\ UNCHANGED <<lifetimeOf, dailyOf, anonToday, anonSaved, uncounted, transcript>>
        /\ UNCHANGED <<event, emitting, lostEvent, turnedAway>>
    BY DEF CountMessages
  <1>2. old \in AnonRequest /\ AnonSound(old) /\ AnonTypeOK /\ FunnelSound
    BY DEF AnonInv, AnonTypeOK, AllAnonSound
  <1>3. ASSUME NEW o \in BOOLEAN, NEW y, y = [old EXCEPT !.at = "ask", !.first = o]
        PROVE  y \in AnonRequest /\ y.at = "ask" /\ y.browser = old.browser /\ y.owes = old.owes
               /\ y.pastFree = old.pastFree /\ y.first = o /\ y.day = old.day
    <2> HIDE DEF old
    <2>1. QED
      BY <1>2, <1>3 DEF AnonRequest
  <1>4. x \in AnonRequest /\ x.at = "ask" /\ x.browser = old.browser /\ x.owes = old.owes
        /\ x.pastFree = old.pastFree /\ x.day = old.day
    BY <1>3
  <1>5. x.first = none
    BY <1>3
  <1>6. Mine(r) \in Browser /\ old.browser = {Mine(r)}
    BY <1>1, MineIs
  <1>7. old.pastFree => Entered
    BY <1>1, <1>2 DEF FunnelSound
  <1>8. transcript' \in [Browser -> Seq({"USER", "ASSISTANT"})]
    BY <1>1, <1>2 DEF AnonTypeOK
  <1> HIDE DEF x, old
  <1>9. Seen \subseteq Seen' /\ (Entered => Entered')
    BY <1>1 DEF Seen, Entered
  <1>10. ASSUME NEW b \in Browser, x.browser = {b}, ~x.first PROVE transcript'[b] # <<>>
    <2>1. b = Mine(r) /\ ~none
      BY <1>4, <1>5, <1>6, <1>10
    <2>2. QED
      BY <1>1, <2>1
  <1>11. FunnelSound'
    <2>1. /\ turnedAway' => turnedAway \/ Entered'
          /\ \A d \in AnonDay : dailyOf'[d] > 0 => dailyOf[d] > 0 \/ Entered'
          /\ x.pastFree /\ x.at \in {"count", "ask", "answer", "record"} => Entered'
          /\ \A b \in Browser : transcript'[b] = transcript[b]
      BY <1>1, <1>4, <1>7, <1>9
    <2>2. \A b \in Browser :
            /\ x.browser = {b}
            /\ (x.at = "ask" /\ ~x.first) \/ x.at = "answer"
            => transcript'[b] # <<>>
      BY <1>4, <1>10
    <2>3. QED
      BY <1>1, <1>2, <1>4, <1>9, <2>1, <2>2, FunnelStep
  <1>12. AnonSound(x)
    BY <1>1, <1>2, <1>4 DEF AnonSound
  <1>13. ASSUME NEW k \in Kind
         PROVE  (Owes(x, k) <=> Owes(old, k)) /\ (Holds(x, k) => Holds(old, k))
    BY <1>1, <1>4 DEF Owes, Holds
  <1>14. QED
    BY <1>1, <1>4, <1>8, <1>11, <1>12, <1>13, VisitorGoesOn DEF old

LEMMA SaidIs ==
  ASSUME NEW t \in Seq({"USER", "ASSISTANT"}), NEW e \in {"USER", "ASSISTANT"}
  PROVE  Append(t, e) \in Seq({"USER", "ASSISTANT"}) /\ Append(t, e) # <<>>
  OBVIOUS

LEMMA SaveQuestionStep ==
  ASSUME AnonInv, NEW r \in AnonStream, SaveQuestion(r)
  PROVE  AnonInv'
  <1> DEFINE old == anonStream[r]
             x == [old EXCEPT !.at = "answer"]
             me == Mine(r)
  <1>1. /\ old.at = "ask" /\ anonStream' = [anonStream EXCEPT ![r] = x]
        /\ transcript' = [transcript EXCEPT ![me] = Append(transcript[me], "USER")]
        /\ emitting' = emitting \union (IF old.first THEN {<<me, "FIRST_MESSAGE_SENT">>} ELSE {})
        /\ UNCHANGED <<lifetimeOf, dailyOf, anonToday, anonSaved, uncounted>>
        /\ UNCHANGED <<event, lostEvent, turnedAway>>
    BY DEF SaveQuestion, GoTo, Emit, SaysFirst
  <1>2. old \in AnonRequest /\ AnonSound(old) /\ AnonTypeOK /\ FunnelSound
    BY DEF AnonInv, AnonTypeOK, AllAnonSound
  <1>3. me \in Browser /\ old.browser = {me}
    BY <1>1, MineIs
  <1>4. old.pastFree => Entered
    BY <1>1, <1>2 DEF FunnelSound
  <1>5. ~old.first => <<me, "FIRST_MESSAGE_SENT">> \in Seen
    <2>1. ~old.first => transcript[me] # <<>>
      BY <1>1, <1>2, <1>3 DEF FunnelSound
    <2>2. QED
      BY <1>2, <1>3, <2>1 DEF FunnelSound
  <1>6. transcript \in [Browser -> Seq({"USER", "ASSISTANT"})]
    BY <1>2 DEF AnonTypeOK
  <1> HIDE DEF me
  <1>7. x \in AnonRequest /\ x.at = "answer" /\ x.browser = old.browser /\ x.owes = old.owes
        /\ x.pastFree = old.pastFree /\ x.day = old.day
    <2> HIDE DEF old
    <2>1. QED
      BY <1>2 DEF AnonRequest
  <1> HIDE DEF x, old
  <1> DEFINE said == Append(transcript[me], "USER")
  <1>8. said \in Seq({"USER", "ASSISTANT"}) /\ said # <<>>
    <2>1. transcript[me] \in Seq({"USER", "ASSISTANT"})
      BY <1>3, <1>6
    <2>2. QED
      BY <2>1, SaidIs
  <1>9. transcript' \in [Browser -> Seq({"USER", "ASSISTANT"})]
        /\ \A b \in Browser : transcript'[b] = IF b = me THEN said ELSE transcript[b]
    <2>1. transcript' = [transcript EXCEPT ![me] = said]
      BY <1>1
    <2> HIDE DEF said
    <2>2. QED
      BY <1>6, <1>8, <2>1
  <1> HIDE DEF said
  <1>10. Seen \subseteq Seen' /\ <<me, "FIRST_MESSAGE_SENT">> \in Seen'
    <2>1. Seen \subseteq Seen'
      BY <1>1 DEF Seen
    <2>2. old.first => <<me, "FIRST_MESSAGE_SENT">> \in Seen'
      BY <1>1 DEF Seen
    <2>3. QED
      BY <1>5, <2>1, <2>2
  <1>11. Entered => Entered'
    BY <1>10 DEF Entered
  <1>12. FunnelSound'
    <2>1. /\ turnedAway' => turnedAway \/ Entered'
          /\ \A d \in AnonDay : dailyOf'[d] > 0 => dailyOf[d] > 0 \/ Entered'
          /\ x.pastFree /\ x.at \in {"count", "ask", "answer", "record"} => Entered'
      BY <1>1, <1>4, <1>7, <1>11
    <2>2. \A b \in Browser : transcript[b] # <<>> => transcript'[b] # <<>>
      BY <1>8, <1>9
    <2>3. \A b \in Browser : transcript'[b] # <<>> => \/ transcript[b] # <<>>
                                                      \/ <<b, "FIRST_MESSAGE_SENT">> \in Seen'
      BY <1>9, <1>10
    <2>4. \A b \in Browser :
            /\ x.browser = {b}
            /\ (x.at = "ask" /\ ~x.first) \/ x.at = "answer"
            => transcript'[b] # <<>>
      <3>1. \A b \in Browser : x.browser = {b} => b = me
        BY <1>3, <1>7
      <3>2. QED
        BY <1>8, <1>9, <3>1
    <2>5. QED
      BY <1>1, <1>2, <1>7, <1>10, <2>1, <2>2, <2>3, <2>4, FunnelStep
  <1>13. AnonSound(x)
    BY <1>1, <1>2, <1>7 DEF AnonSound
  <1>14. ASSUME NEW k \in Kind
         PROVE  (Owes(x, k) <=> Owes(old, k)) /\ (Holds(x, k) => Holds(old, k))
    BY <1>1, <1>7 DEF Owes, Holds
  <1>15. QED
    BY <1>1, <1>7, <1>9, <1>12, <1>13, <1>14, VisitorGoesOn DEF old

LEMMA SaveAnonAnswerStep ==
  ASSUME AnonInv, NEW r \in AnonStream, SaveAnonAnswer(r)
  PROVE  AnonInv'
  <1> DEFINE old == anonStream[r]
             owed == {"lifetime"} \union (IF old.pastFree THEN {"daily"} ELSE {})
             x == [old EXCEPT !.at = "record", !.owes = owed]
             me == Mine(r)
             kind == KindOfRequest(old)
  <1>1. /\ old.at = "answer" /\ anonStream' = [anonStream EXCEPT ![r] = x]
        /\ transcript' = [transcript EXCEPT ![me] = Append(transcript[me], "ASSISTANT")]
        /\ anonSaved' = [anonSaved EXCEPT ![kind] = anonSaved[kind] + 1]
        /\ UNCHANGED <<lifetimeOf, dailyOf, anonToday, uncounted>>
        /\ UNCHANGED <<event, emitting, lostEvent, turnedAway>>
    BY DEF SaveAnonAnswer, Owed, KindOf, KindOfRequest
  <1>2. old \in AnonRequest /\ AnonSound(old) /\ AnonTypeOK /\ FunnelSound /\ AllAnonSound
    BY DEF AnonInv, AnonTypeOK, AllAnonSound
  <1>3. me \in Browser /\ old.browser = {me}
    BY <1>1, MineIs
  <1>4. (old.pastFree => Entered) /\ transcript[me] # <<>>
    BY <1>1, <1>2, <1>3 DEF FunnelSound
  <1>5. transcript \in [Browser -> Seq({"USER", "ASSISTANT"})] /\ anonSaved \in [Kind -> Nat]
    BY <1>2 DEF AnonTypeOK
  <1> HIDE DEF me
  <1>6. owed \in SUBSET {"lifetime", "daily"} /\ "lifetime" \in owed /\ ("daily" \in owed <=> old.pastFree)
    BY <1>2 DEF AnonRequest
  <1>7. kind \in Kind /\ old.pastFree \in BOOLEAN /\ (old.pastFree => kind = old.day /\ kind # 0) /\ (~old.pastFree => kind = 0)
    BY <1>2 DEF AnonRequest, KindOfRequest, Kind, AnonDay
  <1> HIDE DEF owed, kind
  <1>8. x \in AnonRequest /\ x.at = "record" /\ x.browser = old.browser /\ x.owes = owed
        /\ x.pastFree = old.pastFree /\ x.day = old.day
    <2> HIDE DEF old
    <2>1. QED
      BY <1>2, <1>6 DEF AnonRequest
  <1> HIDE DEF x, old
  <1> DEFINE said == Append(transcript[me], "ASSISTANT")
  <1>9. said \in Seq({"USER", "ASSISTANT"}) /\ said # <<>>
    <2>1. transcript[me] \in Seq({"USER", "ASSISTANT"})
      BY <1>3, <1>5
    <2>2. QED
      BY <2>1, SaidIs
  <1>10. transcript' \in [Browser -> Seq({"USER", "ASSISTANT"})]
        /\ \A b \in Browser : transcript'[b] = IF b = me THEN said ELSE transcript[b]
    <2>1. transcript' = [transcript EXCEPT ![me] = said]
      BY <1>1
    <2> HIDE DEF said
    <2>2. QED
      BY <1>5, <1>9, <2>1
  <1> HIDE DEF said
  <1>11. Seen \subseteq Seen' /\ (Entered => Entered')
    BY <1>1 DEF Seen, Entered
  <1>12. FunnelSound'
    <2>1. /\ turnedAway' => turnedAway \/ Entered'
          /\ \A d \in AnonDay : dailyOf'[d] > 0 => dailyOf[d] > 0 \/ Entered'
          /\ x.pastFree /\ x.at \in {"count", "ask", "answer", "record"} => Entered'
      BY <1>1, <1>4, <1>8, <1>11
    <2>2. \A b \in Browser : transcript[b] # <<>> <=> transcript'[b] # <<>>
      BY <1>4, <1>9, <1>10
    <2>3. ~((x.at = "ask" /\ ~x.first) \/ x.at = "answer")
      BY <1>8
    <2>4. QED
      BY <1>1, <1>2, <1>8, <1>11, <2>1, <2>2, <2>3, FunnelStep
  <1>13. AnonSound(x)
    BY <1>1, <1>2, <1>6, <1>8 DEF AnonSound
  <1>14. anonStream' \in [AnonStream -> AnonRequest] /\ AllAnonSound'
    BY <1>1, <1>2, <1>8, <1>13, SoundStep
  <1>15. anonSaved' \in [Kind -> Nat] /\ \A k \in Kind : anonSaved'[k] = IF k = kind THEN anonSaved[k] + 1 ELSE anonSaved[k]
    BY <1>1, <1>5, <1>7
  <1>16. AnonTypeOK'
    BY <1>1, <1>2, <1>10, <1>14, <1>15 DEF AnonTypeOK
  <1>17. old.owes = {}
    BY <1>1, <1>2 DEF AnonSound
  <1>18. ASSUME NEW k \in Kind PROVE KindChange(k)
    <2>1. ~Holds(x, k) /\ ~Owes(old, k)
      BY <1>8, <1>17 DEF Holds, Owes
    <2>2. CountOf(lifetimeOf', dailyOf', k) = CountOf(lifetimeOf, dailyOf, k) /\ uncounted'[k] = uncounted[k]
      BY <1>1 DEF CountOf
    <2>3. CASE k = kind
      <3>1. Owes(x, k) /\ Holds(old, k)
        BY <1>1, <1>6, <1>7, <1>8, <2>3 DEF Owes, Holds
      <3>2. /\ r \notin Owers(anonStream, k) /\ Owers(anonStream', k) = Owers(anonStream, k) \cup {r}
            /\ r \in Holders(anonStream, k) /\ Holders(anonStream', k) = Holders(anonStream, k) \ {r}
        BY <1>1, <1>2, <1>8, <2>1, <3>1, SetsStep DEF old
      <3>3. KindAnswers(k, r)
        BY <1>15, <2>2, <2>3, <3>2 DEF KindAnswers
      <3>4. QED
        BY <3>3 DEF KindChange
    <2>4. CASE k # kind
      <3>1. ~Owes(x, k)
        BY <1>6, <1>7, <1>8, <2>4 DEF Owes
      <3>2. Owers(anonStream', k) = Owers(anonStream, k) /\ Holders(anonStream', k) \subseteq Holders(anonStream, k)
        BY <1>1, <1>2, <1>8, <2>1, <3>1, SetsStep DEF old
      <3>3. anonSaved'[k] = anonSaved[k]
        BY <1>15, <2>4
      <3>4. KindStays(k)
        BY <1>2, <2>2, <3>2, <3>3, KindIsKept
      <3>5. QED
        BY <3>4 DEF KindChange
    <2>5. QED
      BY <2>3, <2>4
  <1>19. QED
    BY <1>12, <1>14, <1>16, <1>18, AnonConclude

PaysFor(what, k) == (k = 0 /\ what = "lifetime") \/ (k # 0 /\ what = "daily")

LEMMA PaidIs ==
  ASSUME AnonInv, NEW r \in AnonStream, NEW what \in {"lifetime", "daily"},
         anonStream[r].at = "record", what \in anonStream[r].owes, Paid(r, what)
  PROVE  \E x \in AnonRequest :
           /\ anonStream' = [anonStream EXCEPT ![r] = x] /\ AnonSound(x)
           /\ x.at \in {"idle", "record"} /\ (x.at = "record" => x.pastFree = anonStream[r].pastFree)
           /\ \A k \in Kind : /\ ~Holds(x, k)
                              /\ Owes(x, k) <=> Owes(anonStream[r], k) /\ ~PaysFor(what, k)
  <1> DEFINE old == anonStream[r]
             left == old.owes \ {what}
             y == [old EXCEPT !.owes = left]
  <1>1. anonStream' = [anonStream EXCEPT ![r] = IF left = {} THEN AnonIdle ELSE y]
    BY DEF Paid
  <1>2. old \in AnonRequest /\ AnonSound(old) /\ old.at = "record" /\ what \in old.owes
    BY DEF AnonInv, AnonTypeOK, AllAnonSound
  <1>3. left \in SUBSET {"lifetime", "daily"}
    BY <1>2 DEF AnonRequest
  <1>4. y \in AnonRequest /\ y.at = "record" /\ y.browser = old.browser /\ y.owes = left
        /\ y.pastFree = old.pastFree /\ y.day = old.day
    <2> HIDE DEF left, old
    <2>1. QED
      BY <1>2, <1>3 DEF AnonRequest
  <1> HIDE DEF y, old
  <1>5. CASE left = {}
    <2>1. anonStream' = [anonStream EXCEPT ![r] = AnonIdle]
      BY <1>1, <1>5
    <2>2. old.owes = {what}
      BY <1>2, <1>5
    <2>3. \A k \in Kind : ~(Owes(old, k) /\ ~PaysFor(what, k))
      BY <2>2 DEF Owes, PaysFor
    <2>4. QED
      BY <2>1, <2>3, AnonIdleIs DEF old
  <1>6. CASE left # {}
    <2>1. anonStream' = [anonStream EXCEPT ![r] = y]
      BY <1>1, <1>6
    <2>2. AnonSound(y)
      BY <1>2, <1>4 DEF AnonSound
    <2>3. \A k \in Kind : ~Holds(y, k)
      BY <1>4 DEF Holds
    <2>4. ASSUME NEW k \in Kind PROVE Owes(y, k) <=> Owes(old, k) /\ ~PaysFor(what, k)
      BY <1>4 DEF Owes, PaysFor
    <2>5. QED
      BY <1>4, <2>1, <2>2, <2>3, <2>4 DEF old
  <1>7. QED
    BY <1>5, <1>6

\* A request that has answered, when one of its counts is written or fails.
LEMMA PaidStep ==
  ASSUME AnonInv, NEW r \in AnonStream, NEW what \in {"lifetime", "daily"},
         anonStream[r].at = "record", what \in anonStream[r].owes, Paid(r, what),
         UNCHANGED <<anonToday, transcript, event, emitting, anonSaved, lostEvent, turnedAway>>,
         lifetimeOf' \in Nat, dailyOf' \in [AnonDay -> Nat], uncounted' \in [Kind -> Nat],
         \A d \in AnonDay : dailyOf'[d] > 0 => dailyOf[d] > 0 \/ Entered,
         \A k \in Kind :
           /\ uncounted'[k] >= uncounted[k]
           /\ CountOf(lifetimeOf', dailyOf', k) >= CountOf(lifetimeOf, dailyOf, k)
           /\ Owes(anonStream[r], k) /\ PaysFor(what, k) =>
                CountOf(lifetimeOf', dailyOf', k) + uncounted'[k]
                  >= CountOf(lifetimeOf, dailyOf, k) + uncounted[k] + 1
  PROVE  AnonInv'
  <1>1. PICK x \in AnonRequest :
          /\ anonStream' = [anonStream EXCEPT ![r] = x] /\ AnonSound(x)
          /\ x.at \in {"idle", "record"} /\ (x.at = "record" => x.pastFree = anonStream[r].pastFree)
          /\ \A k \in Kind : /\ ~Holds(x, k)
                             /\ Owes(x, k) <=> Owes(anonStream[r], k) /\ ~PaysFor(what, k)
    BY PaidIs
  <1>2. AnonTypeOK /\ AllAnonSound /\ FunnelSound
    BY DEF AnonInv
  <1>3. anonStream' \in [AnonStream -> AnonRequest] /\ AllAnonSound'
    BY <1>1, <1>2, SoundStep
  <1>4. AnonTypeOK'
    BY <1>2, <1>3 DEF AnonTypeOK
  <1>5. Seen \subseteq Seen' /\ (Entered => Entered')
    BY DEF Seen, Entered
  <1>6. anonStream[r].pastFree => Entered
    BY <1>2 DEF FunnelSound
  <1>7. FunnelSound'
    <2>1. /\ turnedAway' => turnedAway \/ Entered'
          /\ \A d \in AnonDay : dailyOf'[d] > 0 => dailyOf[d] > 0 \/ Entered'
          /\ x.pastFree /\ x.at \in {"count", "ask", "answer", "record"} => Entered'
          /\ \A b \in Browser : transcript'[b] = transcript[b]
          /\ ~((x.at = "ask" /\ ~x.first) \/ x.at = "answer")
      BY <1>1, <1>5, <1>6
    <2>2. QED
      BY <1>1, <1>2, <1>5, <2>1, FunnelStep
  <1>8. ASSUME NEW k \in Kind PROVE KindChange(k)
    <2>1. Holders(anonStream', k) \subseteq Holders(anonStream, k) /\ anonSaved'[k] = anonSaved[k]
      BY <1>1, <1>2, SetsStep
    <2>2. CASE Owes(anonStream[r], k) /\ PaysFor(what, k)
      <3>4. ~Owes(x, k)
        BY <1>1, <2>2
      <3>1. r \in Owers(anonStream, k) /\ Owers(anonStream', k) = Owers(anonStream, k) \ {r}
        <4>1. r \in Owers(anonStream, k)
          BY <2>2 DEF Owers
        <4>2. anonStream' = [anonStream EXCEPT ![r] = x]
          BY <1>1
        <4>3. Owers(anonStream', k) = Owers(anonStream, k) \ {r}
          BY <1>2, <3>4, <4>2, SetsStep
        <4>4. QED
          BY <4>1, <4>3
      <3>2. KindPays(k, r)
        BY <2>1, <2>2, <3>1 DEF KindPays
      <3>3. QED
        BY <3>2 DEF KindChange
    <2>3. CASE ~(Owes(anonStream[r], k) /\ PaysFor(what, k))
      <3>1. Owers(anonStream', k) = Owers(anonStream, k)
        BY <1>1, <1>2, <2>3, SetsStep
      <3>2. KindStays(k)
        BY <2>1, <3>1 DEF KindStays
      <3>3. QED
        BY <3>2 DEF KindChange
    <2>4. QED
      BY <2>2, <2>3
  <1>9. QED
    BY <1>3, <1>4, <1>7, <1>8, AnonConclude

LEMMA RecordLifetimeStep ==
  ASSUME AnonInv, NEW r \in AnonStream, RecordLifetime(r)
  PROVE  AnonInv'
  <1>1. /\ anonStream[r].at = "record" /\ "lifetime" \in anonStream[r].owes /\ Paid(r, "lifetime")
        /\ lifetimeOf' = lifetimeOf + 1
        /\ UNCHANGED <<dailyOf, anonToday, transcript, event, emitting, anonSaved, uncounted, lostEvent, turnedAway>>
    BY DEF RecordLifetime
  <1>2. lifetimeOf \in Nat /\ dailyOf \in [AnonDay -> Nat] /\ uncounted \in [Kind -> Nat]
    BY DEF AnonInv, AnonTypeOK
  <1>3. lifetimeOf' \in Nat
    BY <1>1, <1>2
  <1>4. ASSUME NEW k \in Kind
        PROVE  /\ uncounted'[k] >= uncounted[k]
               /\ CountOf(lifetimeOf', dailyOf', k) >= CountOf(lifetimeOf, dailyOf, k)
               /\ Owes(anonStream[r], k) /\ PaysFor("lifetime", k) =>
                    CountOf(lifetimeOf', dailyOf', k) + uncounted'[k]
                      >= CountOf(lifetimeOf, dailyOf, k) + uncounted[k] + 1
    <2>1. uncounted[k] \in Nat /\ uncounted'[k] = uncounted[k] /\ (k # 0 => dailyOf[k] \in Nat)
      BY <1>1, <1>2 DEF Kind
    <2>2. CASE k = 0
      <3>1. CountOf(lifetimeOf', dailyOf', k) = lifetimeOf + 1 /\ CountOf(lifetimeOf, dailyOf, k) = lifetimeOf
        BY <1>1, <2>2 DEF CountOf
      <3>2. QED
        BY <1>2, <2>1, <3>1
    <2>3. CASE k # 0
      <3>1. CountOf(lifetimeOf', dailyOf', k) = dailyOf[k] /\ CountOf(lifetimeOf, dailyOf, k) = dailyOf[k]
            /\ ~PaysFor("lifetime", k)
        BY <1>1, <2>3 DEF CountOf, PaysFor
      <3>2. QED
        BY <2>1, <2>3, <3>1
    <2>4. QED
      BY <2>2, <2>3
  <1>5. QED
    BY <1>1, <1>2, <1>3, <1>4, PaidStep

LEMMA RecordDailyStep ==
  ASSUME AnonInv, NEW r \in AnonStream, RecordDaily(r)
  PROVE  AnonInv'
  <1> DEFINE day == anonStream[r].day
  <1>1. /\ anonStream[r].at = "record" /\ "daily" \in anonStream[r].owes /\ Paid(r, "daily")
        /\ dailyOf' = [dailyOf EXCEPT ![day] = dailyOf[day] + 1]
        /\ UNCHANGED <<lifetimeOf, anonToday, transcript, event, emitting, anonSaved, uncounted, lostEvent, turnedAway>>
    BY DEF RecordDaily
  <1>2. lifetimeOf \in Nat /\ dailyOf \in [AnonDay -> Nat] /\ uncounted \in [Kind -> Nat]
        /\ anonStream[r] \in AnonRequest /\ AnonSound(anonStream[r])
    BY DEF AnonInv, AnonTypeOK, AllAnonSound
  <1>3. day \in AnonDay
    BY <1>2 DEF AnonRequest
  <1>4. Entered
    <2>1. anonStream[r].pastFree
      BY <1>1, <1>2 DEF AnonSound
    <2>2. QED
      BY <1>1, <2>1 DEF AnonInv, FunnelSound
  <1> HIDE DEF day
  <1>5. /\ dailyOf' \in [AnonDay -> Nat]
        /\ \A d \in AnonDay : dailyOf'[d] = IF d = day THEN dailyOf[d] + 1 ELSE dailyOf[d]
    BY <1>1, <1>2, <1>3
  <1>6. ASSUME NEW k \in Kind
        PROVE  /\ uncounted'[k] >= uncounted[k]
               /\ CountOf(lifetimeOf', dailyOf', k) >= CountOf(lifetimeOf, dailyOf, k)
               /\ Owes(anonStream[r], k) /\ PaysFor("daily", k) =>
                    CountOf(lifetimeOf', dailyOf', k) + uncounted'[k]
                      >= CountOf(lifetimeOf, dailyOf, k) + uncounted[k] + 1
    <2>1. uncounted[k] \in Nat /\ uncounted'[k] = uncounted[k] /\ (k # 0 => dailyOf[k] \in Nat /\ k \in AnonDay)
      BY <1>1, <1>2 DEF Kind
    <2>2. CASE k = 0
      <3>1. CountOf(lifetimeOf', dailyOf', k) = lifetimeOf /\ CountOf(lifetimeOf, dailyOf, k) = lifetimeOf
            /\ ~PaysFor("daily", k)
        BY <1>1, <2>2 DEF CountOf, PaysFor
      <3>2. QED
        BY <1>2, <2>1, <3>1
    <2>3. CASE k # 0
      <3>1. CountOf(lifetimeOf', dailyOf', k) = (IF k = day THEN dailyOf[k] + 1 ELSE dailyOf[k])
            /\ CountOf(lifetimeOf, dailyOf, k) = dailyOf[k]
        BY <1>5, <2>1, <2>3 DEF CountOf
      <3>2. Owes(anonStream[r], k) => k = day
        BY <2>3 DEF Owes, day
      <3>3. CASE k = day
        BY <2>1, <2>3, <3>1, <3>3
      <3>4. CASE k # day
        BY <2>1, <2>3, <3>1, <3>2, <3>4
      <3>5. QED
        BY <3>3, <3>4
    <2>4. QED
      BY <2>2, <2>3
  <1>7. QED
    BY <1>1, <1>2, <1>4, <1>5, <1>6, PaidStep

LEMMA RecordFailsStep ==
  ASSUME AnonInv, NEW r \in AnonStream, NEW what \in {"lifetime", "daily"}, RecordFails(r, what)
  PROVE  AnonInv'
  <1> DEFINE key == IF what = "daily" THEN anonStream[r].day ELSE 0
  <1>1. /\ anonStream[r].at = "record" /\ what \in anonStream[r].owes /\ Paid(r, what)
        /\ uncounted' = [uncounted EXCEPT ![key] = uncounted[key] + 1]
        /\ UNCHANGED <<lifetimeOf, dailyOf, anonToday, transcript, event, emitting, anonSaved, lostEvent, turnedAway>>
    BY DEF RecordFails
  <1>2. lifetimeOf \in Nat /\ dailyOf \in [AnonDay -> Nat] /\ uncounted \in [Kind -> Nat]
        /\ anonStream[r] \in AnonRequest
    BY DEF AnonInv, AnonTypeOK
  <1>3. key \in Kind /\ \A k \in Kind : Owes(anonStream[r], k) /\ PaysFor(what, k) => k = key
    BY <1>2 DEF AnonRequest, Kind, Owes, PaysFor
  <1> HIDE DEF key
  <1>4. /\ uncounted' \in [Kind -> Nat]
        /\ \A k \in Kind : uncounted'[k] = IF k = key THEN uncounted[k] + 1 ELSE uncounted[k]
    BY <1>1, <1>2, <1>3
  <1>5. ASSUME NEW k \in Kind
        PROVE  /\ uncounted'[k] >= uncounted[k]
               /\ CountOf(lifetimeOf', dailyOf', k) >= CountOf(lifetimeOf, dailyOf, k)
               /\ Owes(anonStream[r], k) /\ PaysFor(what, k) =>
                    CountOf(lifetimeOf', dailyOf', k) + uncounted'[k]
                      >= CountOf(lifetimeOf, dailyOf, k) + uncounted[k] + 1
    <2> DEFINE c == CountOf(lifetimeOf, dailyOf, k)
               e == uncounted[k]
    <2>1. CountOf(lifetimeOf', dailyOf', k) = c
      BY <1>1 DEF CountOf
    <2>2. c \in Nat /\ e \in Nat
      BY KindNumbers DEF AnonInv
    <2>3. uncounted'[k] = IF k = key THEN e + 1 ELSE e
      BY <1>4
    <2>4. Owes(anonStream[r], k) /\ PaysFor(what, k) => k = key
      BY <1>3
    <2> HIDE DEF c, e
    <2>5. CASE k = key
      <3>1. uncounted'[k] = e + 1
        BY <2>3, <2>5
      <3>2. uncounted'[k] >= e /\ c >= c /\ c + uncounted'[k] >= c + e + 1
        BY <2>2, <3>1
      <3>3. QED
        BY <2>1, <3>2 DEF c, e
    <2>6. CASE k # key
      <3>1. uncounted'[k] = e
        BY <2>3, <2>6
      <3>2. uncounted'[k] >= e /\ c >= c
        BY <2>2, <3>1
      <3>3. QED
        BY <2>1, <2>4, <2>6, <3>2 DEF c, e
    <2>7. QED
      BY <2>5, <2>6
  <1>6. QED
    BY <1>1, <1>2, <1>4, <1>5, PaidStep

LEMMA WriteEventStep ==
  ASSUME AnonInv, NEW e \in emitting, WriteEvent(e)
  PROVE  AnonInv'
  <1>1. /\ emitting' = emitting \ {e}
        /\ (event' = event \union {e} /\ lostEvent' = lostEvent)
           \/ (lostEvent' = lostEvent \union {e} /\ event' = event)
        /\ UNCHANGED <<lifetimeOf, dailyOf, anonToday, transcript, anonStream, anonSaved, uncounted, turnedAway>>
    BY DEF WriteEvent
  <1>2. Seen' = Seen
    BY <1>1 DEF Seen
  <1>3. Entered' = Entered
    BY <1>2 DEF Entered
  <1>4. FunnelSound'
    <2>1. FunnelSound
      BY DEF AnonInv
    <2>2. Entered => Entered'
      BY <1>2 DEF Entered
    <2>3. /\ turnedAway' => Entered'
          /\ \A d \in AnonDay : dailyOf'[d] > 0 => Entered'
          /\ \A r \in AnonStream :
               anonStream'[r].pastFree /\ anonStream'[r].at \in {"count", "ask", "answer", "record"} => Entered'
      BY <1>1, <2>1, <2>2 DEF FunnelSound
    <2>4. \A b \in Browser : transcript'[b] # <<>> => <<b, "FIRST_MESSAGE_SENT">> \in Seen'
      BY <1>1, <1>2, <2>1 DEF FunnelSound
    <2>5. \A r \in AnonStream, b \in Browser :
            /\ anonStream'[r].browser = {b}
            /\ (anonStream'[r].at = "ask" /\ ~anonStream'[r].first) \/ anonStream'[r].at = "answer"
            => transcript'[b] # <<>>
      BY <1>1, <2>1 DEF FunnelSound
    <2>6. QED
      BY <2>3, <2>4, <2>5 DEF FunnelSound
  <1>5. AnonTypeOK' /\ AllAnonSound'
    BY <1>1 DEF AnonInv, AnonTypeOK, AllAnonSound
  <1>6. ASSUME NEW k \in Kind PROVE KindChange(k)
    <2>1. Owers(anonStream', k) = Owers(anonStream, k) /\ Holders(anonStream', k) \subseteq Holders(anonStream, k)
      BY <1>1
    <2>2. AnonTypeOK
      BY DEF AnonInv
    <2>3. QED
      BY <1>1, <2>1, <2>2, KindIsLeft
  <1>7. QED
    BY <1>4, <1>5, <1>6, AnonConclude

LEMMA AnonMidnightStep ==
  ASSUME AnonInv, AnonMidnight
  PROVE  AnonInv'
  <1>1. /\ anonToday' = anonToday + 1 /\ anonToday =< MaxAnonDays
        /\ UNCHANGED <<lifetimeOf, dailyOf, transcript, event, emitting, anonStream,
                       anonSaved, uncounted, lostEvent, turnedAway>>
    BY DEF AnonMidnight
  <1>2. AnonTypeOK /\ AllAnonSound /\ KindsSound /\ FunnelSound
    BY DEF AnonInv
  <1>3. AnonTypeOK'
    <2>1. anonToday' \in AnonDay
      BY <1>1, <1>2, AnonChatAssumption DEF AnonTypeOK, AnonDay
    <2>2. QED
      BY <1>1, <1>2, <2>1 DEF AnonTypeOK
  <1>4. AllAnonSound' /\ KindsSound'
    BY <1>1, <1>2 DEF AllAnonSound, KindsSound, KindSound
  <1>5. FunnelSound'
    BY <1>1, <1>2 DEF FunnelSound, Entered, Seen
  <1>6. QED
    BY <1>3, <1>4, <1>5 DEF AnonInv

LEMMA AnonStutters ==
  ASSUME AnonInv, UNCHANGED anonVars
  PROVE  AnonInv'
  <1>1. UNCHANGED <<lifetimeOf, dailyOf, anonToday, transcript, event, emitting, anonStream,
                    anonSaved, uncounted, lostEvent, turnedAway>>
    BY DEF anonVars
  <1>2. QED
    BY <1>1 DEF AnonInv, AnonTypeOK, AllAnonSound, KindsSound, KindSound, FunnelSound, Entered, Seen

LEMMA StepAnon == AnonInv /\ [AnonChatNext]_anonVars => AnonInv'
  <1> SUFFICES ASSUME AnonInv, [AnonChatNext]_anonVars PROVE AnonInv'
    OBVIOUS
  <1>1. ASSUME NEW r \in AnonStream, NEW b \in Browser, ResolveContext(r, b) PROVE AnonInv'
    BY <1>1, ResolveContextStep
  <1>2. ASSUME NEW r \in AnonStream, CheckLimit(r) PROVE AnonInv'
    BY <1>2, CheckLimitStep
  <1>3. ASSUME NEW r \in AnonStream, RefuseAnon(r) \/ AnswerFails(r) PROVE AnonInv'
    BY <1>3, RefuseAnonStep
  <1>4. ASSUME NEW r \in AnonStream, CountMessages(r) PROVE AnonInv'
    BY <1>4, CountMessagesStep
  <1>5. ASSUME NEW r \in AnonStream, SaveQuestion(r) PROVE AnonInv'
    BY <1>5, SaveQuestionStep
  <1>6. ASSUME NEW r \in AnonStream, SaveAnonAnswer(r) PROVE AnonInv'
    BY <1>6, SaveAnonAnswerStep
  <1>7. ASSUME NEW r \in AnonStream, RecordLifetime(r) PROVE AnonInv'
    BY <1>7, RecordLifetimeStep
  <1>8. ASSUME NEW r \in AnonStream, RecordDaily(r) PROVE AnonInv'
    BY <1>8, RecordDailyStep
  <1>9. ASSUME NEW r \in AnonStream, NEW what \in {"lifetime", "daily"}, RecordFails(r, what) PROVE AnonInv'
    BY <1>9, RecordFailsStep
  <1>10. ASSUME NEW e \in emitting, WriteEvent(e) PROVE AnonInv'
    BY <1>10, WriteEventStep
  <1>11. CASE AnonMidnight
    BY <1>11, AnonMidnightStep
  <1>12. CASE UNCHANGED anonVars
    BY <1>12, AnonStutters
  <1>13. QED
    BY <1>1, <1>2, <1>3, <1>4, <1>5, <1>6, <1>7, <1>8, <1>9, <1>10, <1>11, <1>12 DEF AnonChatNext

LEMMA InitAnon == AnonChatInit => AnonInv
  <1> SUFFICES ASSUME AnonChatInit PROVE AnonInv
    OBVIOUS
  <1>1. /\ lifetimeOf = 0 /\ dailyOf = [d \in AnonDay |-> 0] /\ anonToday = 1
        /\ transcript = [b \in Browser |-> <<>>]
        /\ anonStream = [r \in AnonStream |-> AnonIdle]
        /\ anonSaved = [k \in Kind |-> 0] /\ uncounted = [k \in Kind |-> 0] /\ turnedAway = FALSE
    BY DEF AnonChatInit
  <1>2. AnonTypeOK
    <2>1. anonToday \in AnonDay
      BY <1>1, AnonChatAssumption DEF AnonDay
    <2>2. \A b \in Browser : <<>> \in Seq({"USER", "ASSISTANT"})
      OBVIOUS
    <2>3. QED
      BY <1>1, <2>1, <2>2, AnonIdleIs DEF AnonTypeOK
  <1>3. AllAnonSound
    BY <1>1, AnonIdleIs DEF AllAnonSound
  <1>4. ASSUME NEW k \in Kind PROVE KindSound(k)
    <2>1. Owers(anonStream, k) = {} /\ Holders(anonStream, k) = {}
      BY <1>1, AnonIdleIs DEF Owers, Holders
    <2>2. CountOf(lifetimeOf, dailyOf, k) = 0 /\ anonSaved[k] = 0 /\ uncounted[k] = 0
      BY <1>1 DEF CountOf, Kind
    <2>3. Cardinality({}) = 0 /\ Cardinality(AnonStream) \in Nat \ {0} /\ LimitOfKind(k) \in Nat
      BY AnonCount, FS_EmptySet, <1>2, KindNumbers
    <2>4. KindCounted(0, 0, 0, {}) /\ KindFits(k, 0, 0, {})
      BY <2>3 DEF KindCounted, KindFits
    <2>5. QED
      BY <2>1, <2>2, <2>4 DEF KindSound
  <1>5. FunnelSound
    BY <1>1, AnonIdleIs DEF FunnelSound, AnonIdle
  <1>6. QED
    BY <1>2, <1>3, <1>4, <1>5 DEF AnonInv, KindsSound

LEMMA VisitorsFit == AnonInv => AnonLimitsRespected
  <1> SUFFICES ASSUME AnonInv PROVE AnonLimitsRespected
    OBVIOUS
  <1>1. ASSUME NEW k \in Kind
        PROVE  anonSaved[k] =< LimitOfKind(k) + Cardinality(AnonStream) - 1 + uncounted[k]
    <2> DEFINE s == anonSaved[k]
               u == uncounted[k]
               h == Cardinality(Holders(anonStream, k))
               n == Cardinality(AnonStream)
               l == LimitOfKind(k)
    <2>1. s + h =< l + n - 1 + u
      BY DEF AnonInv, KindsSound, KindSound, KindFits
    <2>2. s \in Nat /\ u \in Nat /\ l \in Nat
      BY KindNumbers DEF AnonInv
    <2>3. h \in Nat /\ n \in Nat
      <3>1. Holders(anonStream, k) \in SUBSET AnonStream
        BY DEF Holders
      <3>2. QED
        BY <3>1, AnonCount
    <2> HIDE DEF s, u, h, n, l
    <2>4. s =< l + n - 1 + u
      BY <2>1, <2>2, <2>3
    <2>5. QED
      BY <2>4 DEF s, u, n, l
  <1>2. 0 \in Kind /\ \A d \in AnonDay : d \in Kind /\ d # 0
    BY DEF Kind, AnonDay
  <1>3. QED
    BY <1>1, <1>2 DEF AnonLimitsRespected, LimitOfKind

LEMMA FunnelIsKept == AnonInv => FunnelKeepsUp
  <1> SUFFICES ASSUME AnonInv PROVE FunnelKeepsUp
    OBVIOUS
  <1>1. FunnelSound
    BY DEF AnonInv
  <1>2. QED
    BY <1>1 DEF FunnelSound, FunnelKeepsUp, Entered, Seen

LEMMA BannerIsKept == AnonInv => BannerIsHonest
  <1> SUFFICES ASSUME AnonInv, \A r \in AnonStream : anonStream[r].at = "idle" PROVE
        /\ Stage \in AnonStage
        /\ (Stage = "normal") = (RemainingFree > 0)
        /\ Stage = "normal" => RemainingFree =< FreeLimit - anonSaved[0] + uncounted[0]
        /\ Stage = "limited" => RemainingToday =< AnonPerDay - anonSaved[anonToday] + uncounted[anonToday]
    BY DEF BannerIsHonest
  <1>1. lifetimeOf \in Nat /\ dailyOf[anonToday] \in Nat /\ anonToday \in AnonDay /\ FreeLimit \in Nat
        /\ AnonPerDay \in Nat \ {0}
    BY AnonChatAssumption DEF AnonInv, AnonTypeOK
  <1>2. ASSUME NEW k \in Kind
        PROVE  anonSaved[k] \in Nat /\ uncounted[k] \in Nat
               /\ anonSaved[k] =< CountOf(lifetimeOf, dailyOf, k) + uncounted[k]
    <2>1. Owers(anonStream, k) = {}
      BY DEF Owers, Owes, AnonInv, AllAnonSound, AnonSound
    <2>2. anonSaved[k] =< CountOf(lifetimeOf, dailyOf, k) + uncounted[k] + Cardinality({})
      BY <2>1 DEF AnonInv, KindsSound, KindSound, KindCounted
    <2> DEFINE s == anonSaved[k]
               u == uncounted[k]
               c == CountOf(lifetimeOf, dailyOf, k)
    <2>3. s \in Nat /\ u \in Nat /\ c \in Nat
      BY KindNumbers DEF AnonInv
    <2>4. s =< c + u + 0
      BY <2>2, FS_EmptySet
    <2> HIDE DEF s, u, c
    <2>5. s =< c + u
      BY <2>3, <2>4
    <2>6. QED
      BY <2>3, <2>5 DEF s, u, c
  <1>3. Stage \in AnonStage
    BY DEF Stage, AnonStage
  <1>4. (Stage = "normal") <=> (RemainingFree > 0)
    BY <1>1 DEF Stage, RemainingFree
  <1>5. (Stage = "normal") = (RemainingFree > 0)
    BY <1>4
  <1>6. Stage = "normal" => RemainingFree =< FreeLimit - anonSaved[0] + uncounted[0]
    <2>1. anonSaved[0] \in Nat /\ uncounted[0] \in Nat /\ anonSaved[0] =< lifetimeOf + uncounted[0]
      BY <1>2 DEF Kind, CountOf
    <2>2. Stage = "normal" => RemainingFree = FreeLimit - lifetimeOf
      BY DEF Stage, RemainingFree
    <2>3. QED
      BY <1>1, <2>1, <2>2
  <1>7. Stage = "limited" => RemainingToday =< AnonPerDay - anonSaved[anonToday] + uncounted[anonToday]
    <2>1. anonSaved[anonToday] \in Nat /\ uncounted[anonToday] \in Nat
          /\ anonSaved[anonToday] =< dailyOf[anonToday] + uncounted[anonToday]
      <3>1. anonToday \in Kind /\ anonToday # 0
        BY <1>1 DEF Kind, AnonDay
      <3>2. QED
        BY <1>2, <3>1 DEF CountOf
    <2>2. Stage = "limited" => RemainingToday = AnonPerDay - dailyOf[anonToday]
      BY DEF Stage, RemainingToday
    <2>3. QED
      BY <1>1, <2>1, <2>2
  <1>8. QED
    BY <1>3, <1>5, <1>6, <1>7
-----------------------------------------------------------------------------
(* The three together *)

LimitsInv == TypeOK /\ KeysHold /\ BudgetInv /\ QuotaInv /\ AnonInv

LEMMA UsageRests ==
  ASSUME TypeOK, KeysHold, BudgetInv, UNCHANGED vars
  PROVE  TypeOK' /\ KeysHold' /\ BudgetInv'
  BY NextTypeOK, StepKeeps, StepBudget

LEMMA QuotaRests ==
  ASSUME QuotaInv, UNCHANGED quotaVars PROVE QuotaInv'
  BY StepQuota

LEMMA VisitorsRest ==
  ASSUME AnonInv, UNCHANGED anonVars PROVE AnonInv'
  BY StepAnon

LEMMA LimitsInvHolds == LimitsSpec => []LimitsInv
  <1>1. LimitsInit => LimitsInv
    BY InitTypeOK, InitKeysHold, InitBudget, InitQuota, InitAnon DEF LimitsInit, LimitsInv
  <1>2. LimitsInv /\ [LimitsNext]_limitVars => LimitsInv'
    <2> SUFFICES ASSUME LimitsInv, [LimitsNext]_limitVars PROVE LimitsInv'
      OBVIOUS
    <2>1. TypeOK /\ KeysHold /\ BudgetInv /\ QuotaInv /\ AnonInv
      BY DEF LimitsInv
    <2>2. CASE Next /\ UNCHANGED <<quotaVars, anonVars>>
      BY <2>1, <2>2, NextTypeOK, StepKeeps, StepBudget, QuotaRests, VisitorsRest DEF LimitsInv
    <2>3. CASE QuotaNext /\ UNCHANGED <<vars, anonVars>>
      BY <2>1, <2>3, UsageRests, StepQuota, VisitorsRest DEF LimitsInv
    <2>4. CASE AnonChatNext /\ UNCHANGED <<vars, quotaVars>>
      BY <2>1, <2>4, UsageRests, QuotaRests, StepAnon DEF LimitsInv
    <2>5. CASE UNCHANGED limitVars
      BY <2>1, <2>5, UsageRests, QuotaRests, VisitorsRest DEF LimitsInv, limitVars
    <2>6. QED
      BY <2>2, <2>3, <2>4, <2>5 DEF LimitsNext
  <1>3. QED
    BY <1>1, <1>2, PTL DEF LimitsSpec

\* However the requests of a user or of an address overlap: the day's cost, the messages
\* of a day and of a window and a visitor's free and daily answers, compared before the
\* answer and counted after it, exceed their limit by no more than the requests in
\* progress, what they may cost, and the answers whose count was never written.
THEOREM OveruseIsBounded == LimitsSpec => []OveruseBounded
  <1>1. LimitsInv => OveruseBounded
    BY BudgetIsBounded, VisitorsFit DEF LimitsInv, QuotaInv, QuotaRespected, OveruseBounded
  <1>2. QED
    BY <1>1, LimitsInvHolds, PTL

\* Whatever visitors do at once: who was turned away has been seen entering the limited
\* zone and who said something has a first message, unless the event was lost; and the
\* banner offers an address that waits for nothing no more messages than its limits leave.
THEOREM VisitorsKnow == LimitsSpec => []VisitorsAreTold
  <1>1. LimitsInv => VisitorsAreTold
    BY FunnelIsKept, BannerIsKept DEF LimitsInv, VisitorsAreTold
  <1>2. QED
    BY <1>1, LimitsInvHolds, PTL

(* The wallet *)

WInv == WalletTypeOK /\ OwnersKnown

LEMMA InitWInv == WalletInit => WInv
  BY WalletAssumption DEF WalletInit, WInv, WalletTypeOK, OwnersKnown

LEMMA NextWInv == WInv /\ [WalletNext]_walletVars => WInv'
  <1> SUFFICES ASSUME WInv, [WalletNext]_walletVars PROVE WInv'
    OBVIOUS
  <1> USE WalletAssumption DEF WInv, WalletTypeOK, OwnersKnown
  <1>1. ASSUME NEW u \in Account, TopUp(u) PROVE WInv'
    BY <1>1 DEF TopUp, messages, refunds
  <1>2. ASSUME NEW u \in Account, NEW m \in Message, Gate(m, u) PROVE WInv'
    BY <1>2 DEF Gate, wallets, refunds
  <1>3. ASSUME NEW m \in Message, ReadWallet(m) PROVE WInv'
    BY <1>3 DEF ReadWallet, wallets, refunds
  <1>4. ASSUME NEW m \in Message, Debit(m) PROVE WInv'
    BY <1>4 DEF Debit, DebitRow, EndMessage, refunds
  <1>5. ASSUME NEW m \in Message, Unpaid(m) PROVE WInv'
    BY <1>5 DEF Unpaid, EndMessage, wallets, refunds
  <1>6. ASSUME NEW f \in Refund, NEW u \in Account, RefundRead(f, u) PROVE WInv'
    BY <1>6 DEF RefundRead, HasBalance, wallets, messages
  <1>7. ASSUME NEW f \in Refund, RefundCommit(f) PROVE WInv'
    BY <1>7 DEF RefundCommit, messages
  <1>8. ASSUME NEW f \in Refund, Downgrade(f) PROVE WInv'
    BY <1>8 DEF Downgrade, EndRefund, messages
  <1>9. ASSUME NEW f \in Refund, RefundAborts(f) PROVE WInv'
    BY <1>9 DEF RefundAborts, EndRefund, wallets, messages
  <1>10. CASE UNCHANGED walletVars
    BY <1>10 DEF walletVars, wallets, messages, refunds
  <1>11. QED
    BY <1>1, <1>2, <1>3, <1>4, <1>5, <1>6, <1>7, <1>8, <1>9, <1>10 DEF WalletNext

LEMMA WInvHolds == WalletSpec => []WInv
  BY InitWInv, NextWInv, PTL DEF WalletSpec

-----------------------------------------------------------------------------
(* The overdraft *)

\* The number of messages of a user between check and transaction is a natural
\* number not above the number of messages.
LEMMA DebitingCount ==
  ASSUME NEW u \in Account
  PROVE  /\ IsFiniteSet(Debiting(u))
         /\ Cardinality(Debiting(u)) \in Nat
         /\ Cardinality(Message) \in Nat
         /\ Cardinality(Debiting(u)) <= Cardinality(Message)
  BY WalletAssumption, FS_Subset, FS_CardinalityType DEF Debiting

\* The bound as a number.
Room(u) == Cardinality(Message) - Cardinality(Debiting(u))

LEMMA Product ==
  ASSUME NEW k \in Nat, NEW n \in Nat, k <= n
  PROVE  k * MaxMessageCost \in Nat /\ k * MaxMessageCost <= n * MaxMessageCost /\ (k + 1) * MaxMessageCost = k * MaxMessageCost + MaxMessageCost
  BY WalletAssumption

LEMMA RoomIsNat == ASSUME NEW u \in Account PROVE Room(u) \in Nat /\ Room(u)' \in Nat
  <1>1. Room(u) \in Nat
    BY DebitingCount DEF Room
  <1>2. /\ IsFiniteSet(Debiting(u)')
        /\ Cardinality(Debiting(u)') \in Nat
        /\ Cardinality(Debiting(u)') <= Cardinality(Message)
    BY WalletAssumption, FS_Subset, FS_CardinalityType DEF Debiting
  <1>3. QED
    BY <1>1, <1>2, DebitingCount DEF Room

\* A step that takes nothing from the wallet and lets no message into the
\* window between check and transaction keeps the bound.
LEMMA BoundKept ==
  ASSUME WInv, WInv', NEW u \in Account, balance[u] >= -(Room(u) * MaxMessageCost),
         balance'[u] >= balance[u] \/ balance'[u] >= 0,
         Debiting(u)' \subseteq Debiting(u)
  PROVE  balance'[u] >= -(Room(u)' * MaxMessageCost)
  <1>1. Cardinality(Debiting(u)') <= Cardinality(Debiting(u))
    BY DebitingCount, FS_Subset
  <1>2. Room(u) <= Room(u)'
    <2>1. Cardinality(Debiting(u)') \in Nat
      BY DebitingCount, FS_Subset, FS_CardinalityType
    <2>2. QED
      BY <1>1, <2>1, DebitingCount DEF Room
  <1>3. /\ Room(u) * MaxMessageCost \in Nat
        /\ Room(u)' * MaxMessageCost \in Nat
        /\ Room(u) * MaxMessageCost <= Room(u)' * MaxMessageCost
    BY <1>2, RoomIsNat, Product
  <1>4. balance[u] \in Int /\ balance'[u] \in Int
    BY DEF WInv, WalletTypeOK
  <1>5. QED
    BY <1>3, <1>4

LEMMA NextOverdraft == WInv /\ OverdraftBounded /\ [WalletNext]_walletVars => OverdraftBounded'
  <1> SUFFICES ASSUME WInv, OverdraftBounded, [WalletNext]_walletVars, NEW u \in Account
               PROVE  balance'[u] >= -(Room(u)' * MaxMessageCost)
    BY DEF OverdraftBounded, Room
  <1>1. WInv'
    BY NextWInv
  <1>2. balance[u] >= -(Room(u) * MaxMessageCost)
    BY DEF OverdraftBounded, Room
  <1>3. ASSUME NEW v \in Account, TopUp(v) PROVE balance'[u] >= balance[u] /\ Debiting(u)' \subseteq Debiting(u)
    BY <1>3, WalletAssumption DEF TopUp, messages, Debiting, WInv, WalletTypeOK
  <1>4. ASSUME NEW v \in Account, NEW m \in Message, Gate(m, v)
        PROVE  balance'[u] = balance[u] /\ Debiting(u)' \subseteq Debiting(u)
    BY <1>4 DEF Gate, wallets, Debiting, WInv, WalletTypeOK
  <1>5. ASSUME NEW m \in Message, ReadWallet(m), owner[m] = u
        PROVE  balance'[u] >= 0
    BY <1>5, WalletAssumption DEF ReadWallet, Affordable, wallets, WInv, WalletTypeOK
  <1>6. ASSUME NEW m \in Message, ReadWallet(m), owner[m] # u
        PROVE  balance'[u] = balance[u] /\ Debiting(u)' \subseteq Debiting(u)
    BY <1>6 DEF ReadWallet, wallets, Debiting, WInv, WalletTypeOK
  <1>7. ASSUME NEW m \in Message, Debit(m), owner[m] = u
        PROVE  balance'[u] >= -(Room(u)' * MaxMessageCost)
    <2>1. m \in Debiting(u) /\ Debiting(u)' = Debiting(u) \ {m}
      BY <1>7, WalletAssumption DEF Debit, EndMessage, Debiting, WInv, WalletTypeOK
    <2>2. Cardinality(Debiting(u)') = Cardinality(Debiting(u)) - 1
      BY <2>1, DebitingCount, FS_RemoveElement
    <2>3. Room(u)' = Room(u) + 1
      BY <2>2, DebitingCount DEF Room
    <2>4. (Room(u) + 1) * MaxMessageCost = Room(u) * MaxMessageCost + MaxMessageCost /\ Room(u) * MaxMessageCost \in Nat
      BY RoomIsNat, Product
    <2>5. balance'[u] = balance[u] - cost[m] /\ cost[m] \in 0..MaxMessageCost /\ balance[u] \in Int
      BY <1>7 DEF Debit, WInv, WalletTypeOK
    <2>6. QED
      BY <1>2, <2>3, <2>4, <2>5, WalletAssumption
  <1>8. ASSUME NEW m \in Message, Debit(m), owner[m] # u
        PROVE  balance'[u] = balance[u] /\ Debiting(u)' \subseteq Debiting(u)
    BY <1>8, WalletAssumption DEF Debit, EndMessage, Debiting, WInv, WalletTypeOK, OwnersKnown
  <1>9. ASSUME NEW m \in Message, Unpaid(m)
        PROVE  balance'[u] = balance[u] /\ Debiting(u)' \subseteq Debiting(u)
    BY <1>9, WalletAssumption DEF Unpaid, EndMessage, wallets, Debiting, WInv, WalletTypeOK
  <1>10. ASSUME NEW f \in Refund, (\E v \in Account : RefundRead(f, v)) \/ RefundAborts(f) \/ Downgrade(f)
         PROVE  balance'[u] = balance[u] /\ Debiting(u)' \subseteq Debiting(u)
    BY <1>10, WalletAssumption DEF RefundRead, RefundAborts, Downgrade, EndRefund, wallets,
       messages, Debiting, WInv, WalletTypeOK
  <1>11. ASSUME NEW f \in Refund, RefundCommit(f)
         PROVE  (balance'[u] = balance[u] \/ balance'[u] = 0) /\ Debiting(u)' \subseteq Debiting(u)
    BY <1>11, WalletAssumption DEF RefundCommit, messages, Debiting, WInv, WalletTypeOK, OwnersKnown
  <1>12. CASE UNCHANGED walletVars
    BY <1>2, <1>12 DEF walletVars, wallets, messages, Room, Debiting
  <1>13. ASSUME balance'[u] >= 0 PROVE balance'[u] >= -(Room(u)' * MaxMessageCost)
    <2>1. Room(u)' * MaxMessageCost \in Nat
      BY RoomIsNat, Product
    <2>2. balance'[u] \in Int
      BY <1>1 DEF WInv, WalletTypeOK
    <2>3. QED
      BY <1>13, <2>1, <2>2
  <1>14. ASSUME balance'[u] = balance[u] \/ balance'[u] >= balance[u] \/ balance'[u] = 0,
                Debiting(u)' \subseteq Debiting(u)
         PROVE  balance'[u] >= -(Room(u)' * MaxMessageCost)
    <2>1. balance'[u] >= balance[u] \/ balance'[u] >= 0
      BY <1>14, <1>1 DEF WInv, WalletTypeOK
    <2>2. QED
      BY <1>1, <1>2, <1>14, <2>1, BoundKept
  <1>15. QED
    BY <1>3, <1>4, <1>5, <1>6, <1>7, <1>8, <1>9, <1>10, <1>11, <1>12, <1>13, <1>14 DEF WalletNext

\* However many messages, top-ups and refunds interleave, a wallet is overdrawn by
\* no more than the messages that can be charged at the same time may cost.
THEOREM OverdraftIsBounded == WalletSpec => []OverdraftBounded
  <1>1. WalletInit => OverdraftBounded
    <2> SUFFICES ASSUME WalletInit, NEW u \in Account PROVE balance[u] >= -(Room(u) * MaxMessageCost)
      BY DEF OverdraftBounded, Room
    <2>1. Room(u) * MaxMessageCost \in Nat
      BY RoomIsNat, Product
    <2>2. QED
      BY <2>1 DEF WalletInit
  <1>2. QED
    BY <1>1, NextOverdraft, WInvHolds, PTL DEF WalletSpec
(* The ledger *)

\* The DEBIT and CREDIT rows add up to the balance of every user none of whose
\* refunds was overtaken.
THEOREM LedgerIsKept == WalletSpec => []LedgerIsSound
  <1>1. WalletInit => LedgerAddsUp
    BY DEF WalletInit, LedgerAddsUp
  <1>2. WInv /\ LedgerAddsUp /\ [WalletNext]_walletVars => LedgerAddsUp'
    <2> SUFFICES ASSUME WInv, LedgerAddsUp, [WalletNext]_walletVars, NEW u \in Account, u \notin overtaken'
                 PROVE  balance'[u] = credited'[u] - debited'[u]
      BY DEF LedgerAddsUp
    <2> USE DEF LedgerAddsUp, WInv, WalletTypeOK
    <2>1. ASSUME NEW v \in Account, TopUp(v) PROVE balance'[u] = credited'[u] - debited'[u]
      BY <2>1, WalletAssumption DEF TopUp
    <2>2. ASSUME NEW m \in Message, Debit(m) PROVE balance'[u] = credited'[u] - debited'[u]
      BY <2>2, WalletAssumption DEF Debit, DebitRow, OwnersKnown
    <2>3. ASSUME NEW f \in Refund, RefundCommit(f) PROVE balance'[u] = credited'[u] - debited'[u]
      <3>1. u \notin overtaken /\ (owner[f] = u => amount[f] = balance[u])
        BY <2>3 DEF RefundCommit
      <3>2. CASE owner[f] = u
        <4>1. balance'[u] = 0 /\ debited'[u] = debited[u] + balance[u] /\ credited' = credited
          BY <2>3, <3>1, <3>2 DEF RefundCommit
        <4>2. QED
          BY <3>1, <4>1
      <3>3. CASE owner[f] # u
        BY <2>3, <3>1, <3>3 DEF RefundCommit
      <3>4. QED
        BY <3>2, <3>3
    <2>4. CASE UNCHANGED <<balance, credited, debited, overtaken>>
      BY <2>4
    <2>5. QED
      BY <2>1, <2>2, <2>3, <2>4
      DEF WalletNext, Gate, ReadWallet, Unpaid, RefundRead, Downgrade, RefundAborts, walletVars, wallets
  <1>3. WInv /\ LedgerAddsUp => LedgerIsSound
    BY DEF WInv, LedgerIsSound
  <1>4. QED
    BY <1>1, <1>2, <1>3, WInvHolds, PTL DEF WalletSpec
=============================================================================
