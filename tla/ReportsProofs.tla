---------------------------- MODULE ReportsProofs ----------------------------
(***************************************************************************)
(* Proofs about the reports that MCPlatform.tla takes from UsageReports    *)
(* and AnonFunnel, for any users, plans, visitors and histories: reports   *)
(* of one table agree with one another and with what they leave out, and   *)
(* those of two tables differ only by named causes.                        *)
(***************************************************************************)
EXTENDS MCPlatform, SumProofs

(* Reports of usage *)

LEMMA ReportsStep == [PlatformNext]_platformVars => [UsageReportsNext]_reportVars
  BY DEF PlatformNext, platformVars

\* What the diary holds.
DiaryEntry == [kind : {"message", "call", "payment", "snapshot", "visitor", "migrated", "nothing"},
               who : Client \cup {"nobody"}, model : Model2 \cup {"none"}]
DiaryTypes ==
  /\ diary \in Seq(DiaryEntry)
  /\ \A i \in DOMAIN diary :
       /\ diary[i].kind \notin {"visitor", "nothing"} => diary[i].who \in Client
       /\ diary[i].kind \in {"message", "visitor", "migrated"} => diary[i].model \in Model2

(* A cost is counted once, when it is there and not under a date before its own, and a row
   of DailyUsage holds what was counted. *)
Costly(i) == i \in DOMAIN diary /\ diary[i].kind \in {"message", "call"}
CountedOnce ==
  /\ IsFiniteSet(counters) /\ daily \subseteq counters
  /\ \A c \in counters : /\ c = [date |-> c.date, entry |-> c.entry]
                         /\ c.date \in Int /\ DateOf(c.entry) =< c.date /\ c.date =< Today
                         /\ Costly(c.entry)
  /\ \A c, d \in counters : c.entry = d.entry => c = d

UsageInv == DiaryTypes /\ CountedOnce

LEMMA InitDiary == UsageReportsInit => UsageInv
  BY FS_EmptySet DEF UsageReportsInit, UsageInv, DiaryTypes, CountedOnce

LEMMA DatesGrow ==
  ASSUME NEW i \in Int, NEW j \in Int, i =< j
  PROVE  DateOf(i) \in Int /\ DateOf(j) \in Int /\ DateOf(i) =< DateOf(j)
  BY DEF DateOf

\* What is counted stays so when entries are added, or get another kind, as a visitor's does.
LEMMA CountsStay ==
  ASSUME UsageInv, UNCHANGED <<counters, daily>>, diary' \in Seq(DiaryEntry), Len(diary) =< Len(diary'),
         \A i \in DOMAIN diary : diary[i].kind \in {"message", "call"} => diary'[i].kind = diary[i].kind
  PROVE  CountedOnce'
  <1>1. /\ diary \in Seq(DiaryEntry) /\ DOMAIN diary = 1..Len(diary) /\ DOMAIN diary' = 1..Len(diary')
        /\ Len(diary) \in Nat /\ Len(diary') \in Nat
    BY DEF UsageInv, DiaryTypes
  <1>2. Today \in Int /\ Today' \in Int /\ Today =< Today'
    BY <1>1, DatesGrow DEF Today
  <1>3. \A i : Costly(i) => Costly(i)'
    BY <1>1 DEF Costly
  <1>4. ASSUME NEW c \in counters
        PROVE  /\ c = [date |-> c.date, entry |-> c.entry] /\ c.date \in Int
               /\ DateOf(c.entry) =< c.date /\ c.date =< Today' /\ Costly(c.entry)'
    BY <1>2, <1>3 DEF UsageInv, CountedOnce
  <1>5. QED
    BY <1>4 DEF UsageInv, CountedOnce

LEMMA NextWritten ==
  ASSUME UsageInv, NEW kind, NEW who, NEW model, Write(kind, who, model),
         [kind |-> kind, who |-> who, model |-> model] \in DiaryEntry,
         kind \notin {"visitor", "nothing"} => who \in Client,
         kind \in {"message", "visitor", "migrated"} => model \in Model2
  PROVE  UsageInv'
  <1> DEFINE e == [kind |-> kind, who |-> who, model |-> model]
  <1>1. diary' = Append(diary, e) /\ diary \in Seq(DiaryEntry) /\ e \in DiaryEntry /\ UNCHANGED <<counters, daily>>
    BY DEF Write, UsageInv, DiaryTypes
  <1>2. e.kind = kind /\ e.who = who /\ e.model = model
    OBVIOUS
  <1> HIDE DEF e
  <1>3. diary' \in Seq(DiaryEntry) /\ Len(diary) =< Len(diary')
    BY <1>1
  <1>4. \A i \in DOMAIN diary' : diary'[i] = e \/ (i \in DOMAIN diary /\ diary'[i] = diary[i])
    BY <1>1
  <1>5. DiaryTypes'
    BY <1>2, <1>3, <1>4 DEF UsageInv, DiaryTypes
  <1>6. \A i \in DOMAIN diary : diary'[i] = diary[i]
    BY <1>1
  <1>7. QED
    BY <1>1, <1>3, <1>5, <1>6, CountsStay DEF UsageInv

LEMMA NextMigrated == ASSUME UsageInv, NEW u \in Client, Migrate(u) PROVE UsageInv'
  <1> DEFINE moved(i) == [diary[i] EXCEPT !.kind = "migrated", !.who = u]
  <1>1. /\ diary' = [i \in DOMAIN diary |-> IF diary[i].kind = "visitor" THEN moved(i) ELSE diary[i]]
        /\ UNCHANGED <<counters, daily>>
    BY DEF Migrate
  <1>2. diary \in Seq(DiaryEntry) /\ DOMAIN diary = 1..Len(diary) /\ \A i \in DOMAIN diary : diary[i] \in DiaryEntry
    BY DEF UsageInv, DiaryTypes
  <1>3. \A i \in DOMAIN diary : /\ moved(i) \in DiaryEntry /\ moved(i).kind = "migrated"
                                /\ moved(i).who = u /\ moved(i).model = diary[i].model
    BY <1>2 DEF DiaryEntry
  <1> HIDE DEF moved
  <1>4. /\ DOMAIN diary' = DOMAIN diary
        /\ \A i \in DOMAIN diary : diary'[i] = IF diary[i].kind = "visitor" THEN moved(i) ELSE diary[i]
    BY <1>1
  <1>5. diary' \in Seq(DiaryEntry) /\ Len(diary') = Len(diary)
    <2>1. diary' \in [1..Len(diary) -> DiaryEntry]
      BY <1>1, <1>2, <1>3
    <2>2. Len(diary) \in Nat
      BY <1>2
    <2>3. QED
      BY <2>1, <2>2
  <1>6. DiaryTypes'
    BY <1>3, <1>4, <1>5 DEF UsageInv, DiaryTypes
  <1>7. \A i \in DOMAIN diary : diary[i].kind \in {"message", "call"} => diary'[i].kind = diary[i].kind
    BY <1>4
  <1>8. QED
    BY <1>1, <1>2, <1>5, <1>6, <1>7, CountsStay DEF UsageInv

LEMMA NextCounted == ASSUME UsageInv, NEW i \in DOMAIN diary, TrackCost(i) PROVE UsageInv'
  <1> DEFINE new == [date |-> Today, entry |-> i]
  <1>1. /\ diary[i].kind \in {"message", "call"} /\ ~Counted(i) /\ counters' = counters \cup {new}
        /\ UNCHANGED <<diary, daily>>
    BY DEF TrackCost
  <1>2. Today \in Int /\ DateOf(i) =< Today /\ Today' = Today
    <2>1. i \in Int /\ Len(diary) \in Int /\ i =< Len(diary)
      BY DEF UsageInv, DiaryTypes
    <2>2. QED
      BY <1>1, <2>1, DatesGrow DEF Today
  <1>3. new.date = Today /\ new.entry = i /\ new = [date |-> new.date, entry |-> new.entry]
    OBVIOUS
  <1> HIDE DEF new
  <1>4. \A c \in counters : c.entry # i
    BY <1>1 DEF Counted
  <1>5. IsFiniteSet(counters')
    BY <1>1, FS_AddElement DEF UsageInv, CountedOnce
  <1>6. Costly(i) /\ \A j : Costly(j)' <=> Costly(j)
    BY <1>1 DEF Costly
  <1>7. CountedOnce'
    <2>1. \A c \in counters' : /\ c = [date |-> c.date, entry |-> c.entry]
                               /\ c.date \in Int /\ DateOf(c.entry) =< c.date /\ c.date =< Today'
                               /\ Costly(c.entry)'
      BY <1>1, <1>2, <1>3, <1>6 DEF UsageInv, CountedOnce
    <2>2. \A c, d \in counters' : c.entry = d.entry => c = d
      BY <1>1, <1>3, <1>4 DEF UsageInv, CountedOnce
    <2>3. QED
      BY <1>1, <1>5, <2>1, <2>2 DEF UsageInv, CountedOnce
  <1>8. DiaryTypes'
    BY <1>1 DEF UsageInv, DiaryTypes
  <1>9. QED
    BY <1>7, <1>8 DEF UsageInv

LEMMA NextFlushed == ASSUME UsageInv, NEW u \in Client, Flush(u) PROVE UsageInv'
  <1>1. /\ daily' = (daily \ OfUser(u, Dating(Today, daily))) \cup Flushed(u)
        /\ UNCHANGED <<diary, counters>>
    BY DEF Flush
  <1>2. Flushed(u) \subseteq counters
    BY DEF Flushed, OfUser, Dating
  <1>3. daily' \subseteq counters' /\ Today' = Today /\ \A i : Costly(i)' <=> Costly(i)
    BY <1>1, <1>2 DEF UsageInv, CountedOnce, Today, Costly
  <1>4. DiaryTypes'
    BY <1>1 DEF UsageInv, DiaryTypes
  <1>5. CountedOnce'
    BY <1>1, <1>3 DEF UsageInv, CountedOnce
  <1>6. QED
    BY <1>4, <1>5 DEF UsageInv

LEMMA NextDiary == UsageInv /\ [UsageReportsNext]_reportVars => UsageInv'
  <1> SUFFICES ASSUME UsageInv, [UsageReportsNext]_reportVars PROVE UsageInv'
    OBVIOUS
  <1>1. CASE UsageReportsNext
    <2>1. ASSUME NEW u \in Client, NEW m \in Model2, Write("message", u, m) PROVE UsageInv'
      BY <2>1, NextWritten DEF DiaryEntry
    <2>2. ASSUME NEW u \in Client, NEW kind \in {"call", "payment", "snapshot"}, Write(kind, u, "none")
          PROVE  UsageInv'
      BY <2>2, NextWritten DEF DiaryEntry
    <2>3. ASSUME Write("visitor", "nobody", "text") PROVE UsageInv'
      BY <2>3, NextWritten DEF DiaryEntry, Model2
    <2>4. ASSUME Write("nothing", "nobody", "none") PROVE UsageInv'
      BY <2>4, NextWritten DEF DiaryEntry
    <2>5. QED
      BY <1>1, <2>1, <2>2, <2>3, <2>4, NextMigrated, NextCounted, NextFlushed DEF UsageReportsNext
  <1>2. CASE UNCHANGED reportVars
    BY <1>2 DEF reportVars, UsageInv, DiaryTypes, CountedOnce, Costly, Today
  <1>3. QED
    BY <1>1, <1>2

\* Days begin with a morning, which no entry but the first day lacks, and end with an evening.
LEMMA Days ==
  ASSUME NEW i \in Int
  PROVE  /\ DateOf(i) \in Int /\ Morning(i) \in Int /\ Evening(i) \in Int
         /\ Morning(DateOf(i)) =< i /\ i =< Morning(DateOf(i)) + 1 /\ i =< Evening(DateOf(i))
         /\ DateOf(Morning(i)) = i /\ DateOf(Evening(i)) = i
         /\ Evening(i) = Morning(i) + 1
         /\ \A j \in Int : /\ i =< j => DateOf(i) =< DateOf(j)
                           /\ i =< Evening(j) <=> Morning(DateOf(i)) =< Evening(j)
                           /\ i >= Morning(j) <=> Morning(DateOf(i)) >= Morning(j)
                           /\ i < Morning(j) <=> Evening(DateOf(i)) < Morning(j)
  BY DEF DateOf, Morning, Evening

\* A range ends with a day, and need not begin with one.
LEMMA RangesKnown ==
  ASSUME DiaryTypes, NEW r \in Ranges
  PROVE  /\ r.from \in Int /\ r.to \in Int /\ r.from =< r.to
         /\ \E day \in Int : r.to = Evening(day)
         /\ r = [from |-> r.from, to |-> r.to]
  <1>1. Len(diary) \in Nat /\ Today \in Int /\ \A d \in DaysSoFar : d \in Int
    BY DEF DiaryTypes, Today, DateOf, DaysSoFar
  <1>2. r.from =< r.to
    BY DEF Ranges
  <1>3. CASE r \in Chosen
    <2>1. PICK first \in DaysSoFar, last \in DaysSoFar : r = WholeDays(first, last)
      BY <1>3 DEF Chosen
    <2>2. r.from = Morning(first) /\ r.to = Evening(last) /\ first \in Int /\ last \in Int
      BY <1>1, <2>1 DEF WholeDays
    <2>3. QED
      BY <1>2, <2>1, <2>2 DEF WholeDays, Morning, Evening
  <1>4. CASE r \notin Chosen
    <2>1. PICK back \in DaysSoFar : r = Default(Len(diary), back)
      BY <1>4 DEF Ranges
    <2>2. r.from = Len(diary) - 2 * back /\ r.to = Evening(Today) /\ back \in Int
      BY <1>1, <2>1 DEF Default, Today
    <2>3. QED
      BY <1>1, <1>2, <2>1, <2>2 DEF Default, Today, Evening
  <1>5. QED
    BY <1>3, <1>4

\* Entries are finitely many, and each set of them has a cost.
Weight == [i \in DOMAIN diary |-> CostOf(diary[i])]
Who == [i \in DOMAIN diary |-> diary[i].who]
Day == [i \in DOMAIN diary |-> DateOf(i)]

LEMMA EntriesFinite ==
  ASSUME DiaryTypes, NEW is \in SUBSET (DOMAIN diary)
  PROVE  /\ IsFiniteSet(is) /\ Cardinality(is) \in Nat /\ is \subseteq 1..Len(diary) /\ Len(diary) \in Nat
         /\ \A i \in is : i \in Int /\ Weight[i] \in Nat /\ Weight[i] \in Int
  <1>1. DOMAIN diary = 1..Len(diary) /\ Len(diary) \in Nat
    BY DEF DiaryTypes
  <1>2. IsFiniteSet(DOMAIN diary)
    BY <1>1, FS_Interval
  <1>3. QED
    BY <1>1, <1>2, FS_Subset, FS_CardinalityType DEF Weight, CostOf

LEMMA TotalIsWeight ==
  ASSUME DiaryTypes, NEW is \in SUBSET (DOMAIN diary)
  PROVE  Total(is) = SumOver(Weight, is) /\ Total(is) \in Nat
  <1> DEFINE f == [i \in is |-> CostOf(diary[i])]
  <1>1. DOMAIN f = is /\ \A i \in is : f[i] = Weight[i] /\ Weight[i] \in Nat /\ Weight[i] \in Int
    <2>1. \A i \in is : Weight[i] \in Nat /\ Weight[i] \in Int
      BY EntriesFinite
    <2>2. \A i \in is : f[i] = Weight[i]
      BY DEF Weight
    <2>3. QED
      BY <2>1, <2>2
  <1>2. Total(is) = SumFunction(f)
    BY DEF Total
  <1>3. IsFiniteSet(is)
    BY EntriesFinite
  <1> HIDE DEF f
  <1>4. Total(is) = SumOver(Weight, is)
    BY <1>1, <1>2, <1>3, TableIs
  <1>5. SumOver(Weight, {}) = 0 /\ SumOver(Weight, {}) =< SumOver(Weight, is) /\ SumOver(Weight, is) \in Int
    <2>1. SumOver(Weight, is) \in Int
      BY <1>1, <1>3, TotalType
    <2>2. SumOver(Weight, {}) =< SumOver(Weight, is)
      BY <1>1, <1>3, TotalSubset
    <2>3. QED
      BY <2>1, <2>2, TotalEmpty
  <1>6. QED
    BY <1>4, <1>5

\* The cost of two sets without common entries, and of all the sets by a key.
LEMMA CostsAdd ==
  ASSUME DiaryTypes, NEW is \in SUBSET (DOMAIN diary), NEW js \in SUBSET (DOMAIN diary), is \cap js = {}
  PROVE  /\ Total(is \cup js) = Total(is) + Total(js)
         /\ Cardinality(is \cup js) = Cardinality(is) + Cardinality(js)
  <1>1. is \cup js \in SUBSET (DOMAIN diary)
    OBVIOUS
  <1>2. IsFiniteSet(is) /\ IsFiniteSet(js) /\ \A i \in is \cup js : Weight[i] \in Int
    BY <1>1, EntriesFinite
  <1>3. SumOver(Weight, is \cup js) = SumOver(Weight, is) + SumOver(Weight, js)
    BY <1>2, TotalUnion
  <1>4. Cardinality(is \cap js) = 0
    BY FS_EmptySet
  <1>5. Cardinality(is \cup js) = Cardinality(is) + Cardinality(js)
    <2>1. Cardinality(is) \in Nat /\ Cardinality(js) \in Nat
      BY EntriesFinite
    <2>2. Cardinality(is \cup js) = Cardinality(is) + Cardinality(js) - Cardinality(is \cap js)
      BY <1>2, FS_Union
    <2>3. QED
      BY <1>4, <2>1, <2>2
  <1>6. QED
    BY <1>1, <1>3, <1>5, TotalIsWeight

LEMMA CostsByKey ==
  ASSUME DiaryTypes, NEW is \in SUBSET (DOMAIN diary), NEW K,
         NEW f, IsFiniteSet(DOMAIN f), \A i \in is : K[i] \in DOMAIN f,
         \A k \in DOMAIN f : f[k] = Total({i \in is : K[i] = k})
  PROVE  SumFunction(f) = Total(is)
  <1>1. IsFiniteSet(is) /\ \A i \in is : Weight[i] \in Int
    BY EntriesFinite, Zenon
  <1>2. \A k \in DOMAIN f : f[k] = SumOver(Weight, {i \in is : K[i] = k})
    <2>1. \A k \in DOMAIN f : {i \in is : K[i] = k} \in SUBSET (DOMAIN diary)
      OBVIOUS
    <2>2. QED
      BY <2>1, TotalIsWeight
  <1>3. SumFunction(f) = SumOver(Weight, is)
    BY <1>1, <1>2, TableAddsUp
  <1>4. QED
    BY <1>3, TotalIsWeight

\* Counted costs are finitely many too, and cost what their entries cost.
RowWeight == [c \in counters |-> CostOf(diary[c.entry])]
RowEntry == [c \in counters |-> c.entry]
RowDay == [c \in counters |-> c.date]
Entered(cs) == {c.entry : c \in cs}

LEMMA RowsFinite ==
  ASSUME UsageInv, NEW cs \in SUBSET counters
  PROVE  /\ IsFiniteSet(cs) /\ Entered(cs) \in SUBSET (DOMAIN diary)
         /\ \A c \in cs : /\ RowWeight[c] = CostOf(diary[c.entry]) /\ RowWeight[c] \in Nat /\ RowWeight[c] \in Int
                            /\ RowWeight[c] = Weight[c.entry] /\ RowEntry[c] = c.entry /\ RowDay[c] = c.date
  <1>1. IsFiniteSet(cs)
    BY FS_Subset DEF UsageInv, CountedOnce
  <1>2. \A c \in counters : c.entry \in DOMAIN diary
    BY DEF UsageInv, CountedOnce, Costly
  <1>3. \A e : CostOf(e) \in Nat /\ CostOf(e) \in Int
    BY DEF CostOf
  <1>4. \A c \in cs : /\ RowWeight[c] = CostOf(diary[c.entry]) /\ RowWeight[c] \in Nat /\ RowWeight[c] \in Int
                        /\ RowWeight[c] = Weight[c.entry] /\ RowEntry[c] = c.entry /\ RowDay[c] = c.date
    BY <1>2, <1>3 DEF RowWeight, RowEntry, RowDay, Weight
  <1>5. QED
    BY <1>1, <1>2, <1>4 DEF Entered

LEMMA RowsCost ==
  ASSUME UsageInv, NEW cs \in SUBSET counters
  PROVE  CostIn(cs) = SumOver(RowWeight, cs) /\ CostIn(cs) = Total(Entered(cs)) /\ CostIn(cs) \in Nat
  <1> DEFINE f == [c \in cs |-> CostOf(diary[c.entry])]
             E == Entered(cs)
             t == [i \in E |-> Weight[i]]
  <1>1. DOMAIN f = cs /\ \A c \in cs : f[c] = RowWeight[c] /\ RowWeight[c] \in Int
    BY RowsFinite
  <1>2. CostIn(cs) = SumFunction(f)
    BY DEF CostIn
  <1>3. IsFiniteSet(cs) /\ E \in SUBSET (DOMAIN diary)
    BY RowsFinite
  <1>4. DiaryTypes
    BY DEF UsageInv
  <1>5. IsFiniteSet(E) /\ \A i \in E : Weight[i] \in Int
    BY <1>3, <1>4, EntriesFinite
  <1>6. ASSUME NEW i \in E PROVE Weight[i] = SumOver(RowWeight, {c \in cs : RowEntry[c] = i})
    <2>1. PICK c \in cs : c.entry = i
      BY DEF Entered
    <2>2. {x \in cs : RowEntry[x] = i} = {} \cup {c}
      <3>1. \A x \in cs : RowEntry[x] = x.entry
        BY RowsFinite
      <3>2. \A x \in cs : x.entry = i => x = c
        BY <2>1 DEF UsageInv, CountedOnce
      <3>3. QED
        BY <2>1, <3>1, <3>2
    <2>3. SumOver(RowWeight, {} \cup {c}) = SumOver(RowWeight, {}) + RowWeight[c]
      <3>1. \A x \in {} \cup {c} : RowWeight[x] \in Int
        BY <1>1, <2>1
      <3>2. IsFiniteSet({}) /\ c \notin {}
        BY FS_EmptySet
      <3>3. QED
        BY <3>1, <3>2, TotalAdd
    <2>4. RowWeight[c] = Weight[i] /\ Weight[i] \in Int /\ RowWeight[c] \in Int
      <3>1. RowWeight[c] = Weight[c.entry]
        BY RowsFinite
      <3>2. QED
        BY <1>1, <1>5, <2>1, <3>1
    <2>5. SumOver(RowWeight, {}) = 0
      BY TotalEmpty
    <2>6. SumOver(RowWeight, {} \cup {c}) = Weight[i]
      BY <2>3, <2>4, <2>5
    <2>7. QED
      BY <2>2, <2>6, Zenon
  <1>7. \A c \in cs : RowEntry[c] \in E
    BY RowsFinite DEF Entered
  <1>8. /\ DOMAIN t = E /\ \A i \in E : t[i] = Weight[i]
        /\ \A i \in DOMAIN t : t[i] = SumOver(RowWeight, {c \in cs : RowEntry[c] = i})
    BY <1>6
  <1>9. Total(E) = SumOver(Weight, E) /\ Total(E) \in Nat
    BY <1>3, <1>4, TotalIsWeight
  <1> HIDE DEF f, E, t
  <1>10. SumFunction(f) = SumOver(RowWeight, cs)
    BY <1>1, <1>3, TableIs
  <1>11. SumFunction(t) = SumOver(RowWeight, cs)
    BY <1>1, <1>3, <1>5, <1>7, <1>8, TableAddsUp
  <1>12. SumFunction(t) = SumOver(Weight, E)
    BY <1>5, <1>8, TableIs
  <1>13. CostIn(cs) = SumOver(RowWeight, cs) /\ CostIn(cs) = Total(E) /\ CostIn(cs) \in Nat
    BY <1>2, <1>9, <1>10, <1>11, <1>12
  <1>14. QED
    BY <1>13 DEF E

\* Two sets of entries differ in cost by what only one of them has.
LEMMA CostsDiffer ==
  ASSUME DiaryTypes, NEW is \in SUBSET (DOMAIN diary), NEW js \in SUBSET (DOMAIN diary)
  PROVE  Total(is) + Total(js \ is) = Total(js) + Total(is \ js)
  <1>1. /\ is \cap (js \ is) = {} /\ js \cap (is \ js) = {}
        /\ is \cup (js \ is) = is \cup js /\ js \cup (is \ js) = is \cup js
        /\ js \ is \in SUBSET (DOMAIN diary) /\ is \ js \in SUBSET (DOMAIN diary)
    OBVIOUS
  <1>2. Total(is \cup (js \ is)) = Total(is) + Total(js \ is)
    BY <1>1, CostsAdd
  <1>3. Total(js \cup (is \ js)) = Total(js) + Total(is \ js)
    BY <1>1, CostsAdd
  <1>4. QED
    BY <1>1, <1>2, <1>3

(* Rows of DailyUsage and messages of one window: a row that is not of a message in it is a
   call's or came over midnight, and a message without a row there has one of the reasons. *)
LEMMA WindowExplained ==
  ASSUME UsageInv, NEW r, NEW day \in Int, r.from \in Int, r.to = Evening(day),
         NEW cs \in SUBSET daily, NEW wrote \in SUBSET MessageRows,
         \A c \in cs : r.from =< Morning(c.date) /\ Morning(c.date) =< r.to,
         \A c \in cs : diary[c.entry].kind = "message" =>
           c.entry \in wrote \/ c.entry < r.from \/ c.entry > r.to,
         \A i \in wrote : r.from =< i,
         \A c \in daily : c.entry \in wrote =>
           c \in cs \/ Morning(c.date) < r.from \/ Morning(c.date) > r.to
  PROVE  Explained(cs, wrote, r)
  <1> DEFINE entered == Entered(cs)
  <1>1. cs \in SUBSET counters /\ wrote \in SUBSET (DOMAIN diary) /\ DiaryTypes
    BY DEF UsageInv, CountedOnce, MessageRows, Happens
  <1>2. entered \in SUBSET (DOMAIN diary)
    BY <1>1, RowsFinite
  <1>3. CostIn(cs) + Total(wrote \ entered) = Total(wrote) + Total(entered \ wrote)
    <2>1. CostIn(cs) = Total(entered)
      BY <1>1, RowsCost
    <2> HIDE DEF entered
    <2>2. QED
      BY <1>1, <1>2, <2>1, CostsDiffer
  <1>4. \A i \in DOMAIN diary : i \in Int
    BY <1>1, EntriesFinite
  <1>5. \A c \in counters : /\ c.entry \in Int /\ c.date \in Int /\ DateOf(c.entry) =< c.date
                            /\ diary[c.entry].kind \in {"message", "call"}
    BY <1>4 DEF UsageInv, CountedOnce, Costly
  <1>6. ASSUME NEW i \in entered \ wrote
        PROVE  diary[i].kind = "call" \/ (AfterMidnight(i) /\ i < r.from)
    <2>1. PICK c \in cs : c.entry = i
      BY DEF Entered
    <2>2. c \in counters /\ i \in Int /\ c.date \in Int /\ DateOf(i) =< c.date
          /\ diary[i].kind \in {"message", "call"}
      BY <1>1, <1>5, <2>1
    <2>3. CASE diary[i].kind = "message"
      <3>1. i < r.from \/ i > r.to
        BY <1>6, <2>1, <2>3
      <3>2. r.from =< Morning(c.date) /\ Morning(c.date) =< Evening(day)
        BY <2>1
      <3>3. i =< r.to
        <4>1. c.date =< day
          BY <2>2, <3>2 DEF Morning, Evening
        <4>2. DateOf(i) =< day
          BY <2>2, <4>1 DEF DateOf
        <4>3. QED
          BY <2>2, <4>2 DEF DateOf, Evening
      <3>4. i < r.from /\ DateOf(i) < c.date
        BY <2>2, <3>1, <3>2, <3>3 DEF Morning, Evening, DateOf
      <3>5. QED
        BY <2>1, <2>2, <3>4 DEF AfterMidnight
    <2>4. QED
      BY <2>2, <2>3
  <1>7. ASSUME NEW i \in wrote \ entered, CostOf(diary[i]) > 0, Counted(i), ~AfterFlush(i)
        PROVE  CutOff(r, i) \/ \E c \in counters : c.entry = i /\ c.date > DateOf(r.to)
    <2>1. PICK c \in counters : c.entry = i
      BY <1>7 DEF Counted
    <2>2. c \in daily /\ c \notin cs
      BY <1>7, <2>1 DEF AfterFlush, Entered
    <2>3. /\ i \in Int /\ r.from =< i /\ c.date \in Int /\ DateOf(i) =< c.date
      BY <1>1, <1>4, <1>5, <1>7, <2>1
    <2>4. CASE Morning(c.date) > r.to
      <3>1. c.date > DateOf(r.to)
        BY <2>3, <2>4 DEF Morning, Evening, DateOf
      <3>2. QED
        BY <2>1, <3>1
    <2>5. CASE Morning(c.date) < r.from
      <3>1. r.from = i /\ i # Morning(DateOf(i))
        BY <2>3, <2>5 DEF Morning, DateOf
      <3>2. QED
        BY <3>1 DEF CutOff
    <2>6. QED
      BY <2>1, <2>2, <2>4, <2>5, <1>7
  <1>8. entered = {c.entry : c \in cs}
    BY DEF Entered
  <1> HIDE DEF entered
  <1>9. QED
    BY <1>3, <1>6, <1>7, <1>8 DEF Explained

\* Messages are texts or images.
LEMMA ModelsAddUp ==
  ASSUME DiaryTypes, NEW is \in SUBSET MessageRows
  PROVE  /\ Total(is) = Total(Of("text", is)) + Total(Of("image", is))
         /\ Cardinality(is) = Cardinality(Of("text", is)) + Cardinality(Of("image", is))
  <1>1. \A i \in is : i \in DOMAIN diary /\ diary[i].model \in {"text", "image"}
    BY DEF DiaryTypes, MessageRows, Happens, Model2
  <1>2. /\ Of("text", is) \in SUBSET (DOMAIN diary) /\ Of("image", is) \in SUBSET (DOMAIN diary)
        /\ Of("text", is) \cap Of("image", is) = {}
        /\ Of("text", is) \cup Of("image", is) = is
    BY <1>1 DEF Of
  <1>3. /\ Total(Of("text", is) \cup Of("image", is)) = Total(Of("text", is)) + Total(Of("image", is))
        /\ Cardinality(Of("text", is) \cup Of("image", is))
             = Cardinality(Of("text", is)) + Cardinality(Of("image", is))
    BY <1>2, CostsAdd
  <1>4. QED
    BY <1>2, <1>3

\* The points of a range are its days, and each has the rows of its day.
LEMMA PointsOfDays ==
  ASSUME UsageInv, NEW r
  PROVE  /\ IsFiniteSet(Points(r)) /\ IsFiniteSet(Weeks(r)) /\ Accounted(r) \in SUBSET counters
         /\ \A c \in Accounted(r) : RowDay[c] \in Points(r)
         /\ \A d \in Points(r) : /\ Point(d) = SumOver(RowWeight, {c \in Accounted(r) : RowDay[c] = d})
                                 /\ Point(d) \in Int
  <1>1. Accounted(r) \in SUBSET counters /\ daily \in SUBSET counters
    BY DEF Accounted, UsageInv, CountedOnce
  <1>2. \A c \in counters : RowDay[c] = c.date
    BY RowsFinite
  <1>3. Points(r) = {RowDay[c] : c \in Accounted(r)}
    BY <1>1, <1>2 DEF Points
  <1>4. IsFiniteSet(Points(r))
    BY <1>1, <1>3, KeysFinite, RowsFinite
  <1>5. IsFiniteSet(Weeks(r))
    <2> DEFINE K == [d \in Points(r) |-> WeekOf(d)]
    <2>1. Weeks(r) = {K[d] : d \in Points(r)}
      BY DEF Weeks
    <2> HIDE DEF K
    <2>2. QED
      BY <1>4, <2>1, KeysFinite
  <1>6. ASSUME NEW d \in Points(r)
        PROVE  Point(d) = SumOver(RowWeight, {c \in Accounted(r) : RowDay[c] = d}) /\ Point(d) \in Int
    <2>1. PICK b \in Accounted(r) : b.date = d
      BY DEF Points
    <2>2. Within(r, Morning(d))
      BY <2>1 DEF Accounted
    <2> DEFINE own == {c \in Accounted(r) : RowDay[c] = d}
    <2>3. Dating(d, daily) = own
      BY <1>1, <1>2, <2>2 DEF Dating, Accounted
    <2>4. Point(d) = CostIn(own) /\ own \in SUBSET counters
      BY <1>1, <2>3 DEF Point
    <2> HIDE DEF own
    <2>5. Point(d) = SumOver(RowWeight, own) /\ Point(d) \in Int
      BY <2>4, RowsCost
    <2>6. QED
      BY <2>5 DEF own
  <1>7. QED
    BY <1>1, <1>3, <1>4, <1>5, <1>6

\* The days of a range, and its weeks, add up to what it counts.
LEMMA DaysAddUp ==
  ASSUME UsageInv, NEW r PROVE SumFunction([d \in Points(r) |-> Point(d)]) = CostIn(Accounted(r))
  <1> DEFINE f == [d \in Points(r) |-> Point(d)]
             S == Accounted(r)
  <1>1. /\ IsFiniteSet(DOMAIN f) /\ S \in SUBSET counters /\ \A c \in S : RowDay[c] \in DOMAIN f
        /\ \A d \in DOMAIN f : f[d] = SumOver(RowWeight, {c \in S : RowDay[c] = d})
    BY PointsOfDays
  <1> HIDE DEF f, S
  <1>2. IsFiniteSet(S) /\ (\A c \in S : RowWeight[c] \in Int) /\ CostIn(S) = SumOver(RowWeight, S)
    BY <1>1, RowsFinite, RowsCost
  <1>3. SumFunction(f) = SumOver(RowWeight, S)
    BY <1>1, <1>2, TableAddsUp
  <1>4. QED
    BY <1>2, <1>3 DEF f, S

LEMMA WeeksAddUp ==
  ASSUME UsageInv, NEW r PROVE SumFunction([w \in Weeks(r) |-> Bucket(r, w)]) = CostIn(Accounted(r))
  <1> DEFINE K == [d \in Points(r) |-> WeekOf(d)]
             f == [w \in Weeks(r) |-> Bucket(r, w)]
             g == [d \in Points(r) |-> Point(d)]
  <1>1. IsFiniteSet(Points(r)) /\ IsFiniteSet(Weeks(r)) /\ Weeks(r) = {K[d] : d \in Points(r)}
    BY PointsOfDays DEF Weeks
  <1>2. DOMAIN g = Points(r) /\ \A d \in Points(r) : g[d] \in Int
    BY PointsOfDays
  <1>3. ASSUME NEW w \in DOMAIN f
        PROVE  f[w] = SumFunction([d \in {x \in Points(r) : K[x] = w} |-> g[d]])
    <2> DEFINE days == {x \in Points(r) : K[x] = w}
    <2>1. days = {d \in Points(r) : WeekOf(d) = w}
      OBVIOUS
    <2>2. f[w] = SumFunction([d \in days |-> Point(d)])
      BY <2>1 DEF Bucket
    <2>3. [d \in days |-> Point(d)] = [d \in days |-> g[d]]
      OBVIOUS
    <2> HIDE DEF f, g
    <2>4. QED
      BY <2>2, <2>3
  <1>4. DOMAIN f = {K[d] : d \in Points(r)} /\ IsFiniteSet(DOMAIN f)
    BY <1>1
  <1>5. SumFunction(g) = CostIn(Accounted(r))
    BY DaysAddUp
  <1> HIDE DEF f, g, K
  <1>6. SumFunction(f) = SumFunction(g)
    BY <1>1, <1>2, <1>3, <1>4, TableGathers
  <1>7. QED
    BY <1>5, <1>6 DEF f

\* Users and their groups.
SegmentOf(r) == [u \in Listed(r) |-> UserRow(u, r).segment]

LEMMA ListedKnown ==
  ASSUME DiaryTypes, NEW r
  PROVE  /\ IsFiniteSet(Listed(r)) /\ IsFiniteSet(Labels(r))
         /\ Labels(r) = {SegmentOf(r)[u] : u \in Listed(r)}
         /\ \A i \in Messages(r) \cup Snapshots(r) : Who[i] \in Listed(r)
         /\ \A u \in Client : \A is \in SUBSET (DOMAIN diary) : By(u, is) = {i \in is : Who[i] = u}
  <1>1. IsFiniteSet(Listed(r))
    BY UsageReportsAssumption, FS_Subset DEF Listed
  <1>2. Labels(r) = {SegmentOf(r)[u] : u \in Listed(r)}
    BY DEF Labels, SegmentOf
  <1>3. IsFiniteSet(Labels(r))
    BY <1>1, <1>2, KeysFinite
  <1>4. ASSUME NEW i \in Messages(r) \cup Snapshots(r) PROVE Who[i] \in Listed(r)
    <2>1. i \in DOMAIN diary /\ Who[i] = diary[i].who /\ diary[i].kind \notin {"visitor", "nothing"}
      BY DEF Messages, MessageRows, Snapshots, Happens, Who
    <2>2. Who[i] \in Client
      BY <2>1 DEF DiaryTypes
    <2>3. i \in By(Who[i], Messages(r)) \/ i \in By(Who[i], Snapshots(r))
      BY <2>1 DEF By
    <2>4. QED
      BY <2>2, <2>3 DEF Listed
  <1>5. \A u \in Client : \A is \in SUBSET (DOMAIN diary) : By(u, is) = {i \in is : Who[i] = u}
    BY DEF By, Who
  <1>6. QED
    BY <1>1, <1>2, <1>3, <1>4, <1>5

\* A row of a user, field by field.
LEMMA UserRowIs ==
  ASSUME DiaryTypes, NEW r \in Ranges, NEW u \in Listed(r)
  PROVE  /\ UserRow(u, r).cost = Total({i \in Messages(r) : Who[i] = u})
         /\ UserRow(u, r).text.cost + UserRow(u, r).image.cost = UserRow(u, r).cost
         /\ UserRow(u, r).messages = Cardinality({i \in Messages(r) : Who[i] = u})
         /\ UserRow(u, r).liara = Cardinality({i \in Snapshots(r) : Who[i] = u})
         /\ UserRow(u, r).revenue = PlanPrice * Cardinality(By(u, Payments(r)))
         /\ UserRow(u, r).cost \in Int /\ UserRow(u, r).revenue \in Int
  <1>1. u \in Client /\ Messages(r) \in SUBSET (DOMAIN diary) /\ Snapshots(r) \in SUBSET (DOMAIN diary)
        /\ By(u, Payments(r)) \in SUBSET (DOMAIN diary)
    BY DEF Listed, Messages, MessageRows, Snapshots, Payments, Happens, By
  <1> DEFINE own == By(u, Messages(r))
  <1>2. /\ UserRow(u, r).cost = Total(own) /\ UserRow(u, r).messages = Cardinality(own)
        /\ UserRow(u, r).text.cost = Total(Of("text", own)) /\ UserRow(u, r).image.cost = Total(Of("image", own))
        /\ UserRow(u, r).liara = Cardinality(By(u, Snapshots(r)))
        /\ UserRow(u, r).revenue = PlanPrice * Cardinality(By(u, Payments(r)))
    BY DEF UserRow, Breakdown
  <1>3. own = {i \in Messages(r) : Who[i] = u} /\ By(u, Snapshots(r)) = {i \in Snapshots(r) : Who[i] = u}
    BY <1>1, ListedKnown
  <1>4. own \in SUBSET MessageRows /\ own \in SUBSET (DOMAIN diary)
    BY DEF Messages, MessageRows, By, Happens
  <1>5. Total(own) = Total(Of("text", own)) + Total(Of("image", own)) /\ Total(own) \in Nat
    BY <1>4, ModelsAddUp, TotalIsWeight
  <1>6. PlanPrice * Cardinality(By(u, Payments(r))) \in Int
    BY <1>1, EntriesFinite, UsageReportsAssumption
  <1>7. QED
    BY <1>2, <1>3, <1>5, <1>6

\* The users of a range, and their segments, add up to its messages.
LEMMA UsersAddUp ==
  ASSUME DiaryTypes, NEW r \in Ranges
  PROVE  /\ SumFunction([u \in Listed(r) |-> UserRow(u, r).cost]) = Total(Messages(r))
         /\ SumFunction([u \in Listed(r) |-> UserRow(u, r).text.cost + UserRow(u, r).image.cost]) = Total(Messages(r))
         /\ SumFunction([u \in Listed(r) |-> UserRow(u, r).messages]) = Cardinality(Messages(r))
         /\ SumFunction([u \in Listed(r) |-> UserRow(u, r).liara]) = Cardinality(Snapshots(r))
  <1>1. Messages(r) \in SUBSET (DOMAIN diary) /\ Snapshots(r) \in SUBSET (DOMAIN diary)
    BY DEF Messages, MessageRows, Snapshots, Happens
  <1>2. SumFunction([u \in Listed(r) |-> UserRow(u, r).cost]) = Total(Messages(r))
    <2> DEFINE f == [u \in Listed(r) |-> UserRow(u, r).cost]
    <2>1. IsFiniteSet(DOMAIN f) /\ (\A i \in Messages(r) : Who[i] \in DOMAIN f)
          /\ \A u \in DOMAIN f : f[u] = Total({i \in Messages(r) : Who[i] = u})
      BY ListedKnown, UserRowIs
    <2> HIDE DEF f
    <2>2. SumFunction(f) = Total(Messages(r))
      BY <1>1, <2>1, CostsByKey
    <2>3. QED
      BY <2>2 DEF f
  <1>3. [u \in Listed(r) |-> UserRow(u, r).text.cost + UserRow(u, r).image.cost] = [u \in Listed(r) |-> UserRow(u, r).cost]
    BY UserRowIs
  <1>4. ASSUME NEW is \in SUBSET (DOMAIN diary), NEW f, DOMAIN f = Listed(r), \A i \in is : Who[i] \in Listed(r),
               \A u \in Listed(r) : f[u] = Cardinality({i \in is : Who[i] = u})
        PROVE  SumFunction(f) = Cardinality(is)
    <2>1. IsFiniteSet(is) /\ Cardinality(is) \in Nat /\ IsFiniteSet(DOMAIN f)
      BY <1>4, EntriesFinite, ListedKnown
    <2>2. ASSUME NEW u \in DOMAIN f, NEW c, c = Cardinality({i \in is : Who[i] = u}) PROVE f[u] = 1 * c
      <3>1. {i \in is : Who[i] = u} \in SUBSET (DOMAIN diary)
        OBVIOUS
      <3>2. c \in Nat
        BY <2>2, <3>1, EntriesFinite
      <3>3. f[u] = c
        BY <1>4, <2>2
      <3>4. QED
        BY <3>2, <3>3
    <2>3. SumFunction(f) = 1 * Cardinality(is)
      BY <1>4, <2>1, <2>2, TableCounts
    <2>4. QED
      BY <2>1, <2>3
  <1>5. SumFunction([u \in Listed(r) |-> UserRow(u, r).messages]) = Cardinality(Messages(r))
    <2> DEFINE f == [u \in Listed(r) |-> UserRow(u, r).messages]
    <2>1. DOMAIN f = Listed(r) /\ \A u \in Listed(r) : f[u] = Cardinality({i \in Messages(r) : Who[i] = u})
      BY UserRowIs
    <2>2. \A i \in Messages(r) : Who[i] \in Listed(r)
      BY ListedKnown
    <2> HIDE DEF f
    <2>3. SumFunction(f) = Cardinality(Messages(r))
      BY <1>1, <1>4, <2>1, <2>2
    <2>4. QED
      BY <2>3 DEF f
  <1>6. SumFunction([u \in Listed(r) |-> UserRow(u, r).liara]) = Cardinality(Snapshots(r))
    <2> DEFINE f == [u \in Listed(r) |-> UserRow(u, r).liara]
    <2>1. DOMAIN f = Listed(r) /\ \A u \in Listed(r) : f[u] = Cardinality({i \in Snapshots(r) : Who[i] = u})
      BY UserRowIs
    <2>2. \A i \in Snapshots(r) : Who[i] \in Listed(r)
      BY ListedKnown
    <2> HIDE DEF f
    <2>3. SumFunction(f) = Cardinality(Snapshots(r))
      BY <1>1, <1>4, <2>1, <2>2
    <2>4. QED
      BY <2>3 DEF f
  <1>7. QED
    BY <1>2, <1>3, <1>5, <1>6

LEMMA SegmentsAddUp ==
  ASSUME DiaryTypes, NEW r \in Ranges
  PROVE  /\ SumFunction([l \in Labels(r) |-> SegmentRow(l, r).cost]) = Total(Messages(r))
         /\ SumFunction([l \in Labels(r) |-> SegmentRow(l, r).users]) = Cardinality(Listed(r))
  <1> DEFINE K == SegmentOf(r)
  <1>1. IsFiniteSet(Listed(r)) /\ IsFiniteSet(Labels(r)) /\ Labels(r) = {K[u] : u \in Listed(r)}
    BY ListedKnown
  <1>2. \A l : {u \in Listed(r) : UserRow(u, r).segment = l} = {u \in Listed(r) : K[u] = l}
    BY DEF SegmentOf
  <1>3. SumFunction([l \in Labels(r) |-> SegmentRow(l, r).cost]) = Total(Messages(r))
    <2> DEFINE f == [l \in Labels(r) |-> SegmentRow(l, r).cost]
               g == [u \in Listed(r) |-> UserRow(u, r).cost]
    <2>1. DOMAIN g = Listed(r) /\ \A u \in Listed(r) : g[u] \in Int
      BY UserRowIs
    <2>2. ASSUME NEW l \in DOMAIN f
          PROVE  f[l] = SumFunction([u \in {x \in Listed(r) : K[x] = l} |-> g[u]])
      <3> DEFINE group == {x \in Listed(r) : K[x] = l}
      <3>1. group = {u \in Listed(r) : UserRow(u, r).segment = l}
        BY <1>2
      <3> HIDE DEF K
      <3>2. f[l] = SumFunction([u \in group |-> UserRow(u, r).cost])
        BY <3>1 DEF SegmentRow
      <3>3. [u \in group |-> UserRow(u, r).cost] = [u \in group |-> g[u]]
        OBVIOUS
      <3> HIDE DEF f, g
      <3>4. QED
        BY <3>2, <3>3
    <2>3. DOMAIN f = {K[u] : u \in Listed(r)} /\ IsFiniteSet(DOMAIN f)
      BY <1>1
    <2>4. SumFunction(g) = Total(Messages(r))
      BY UsersAddUp
    <2> HIDE DEF f, g, K
    <2>5. SumFunction(f) = SumFunction(g)
      BY <1>1, <2>1, <2>2, <2>3, TableGathers
    <2>6. QED
      BY <2>4, <2>5 DEF f
  <1>4. SumFunction([l \in Labels(r) |-> SegmentRow(l, r).users]) = Cardinality(Listed(r))
    <2> DEFINE f == [l \in Labels(r) |-> SegmentRow(l, r).users]
               S == Listed(r)
    <2>1. IsFiniteSet(DOMAIN f) /\ IsFiniteSet(S) /\ \A u \in S : K[u] \in DOMAIN f
      BY <1>1
    <2>2. \A l \in DOMAIN f : f[l] = Cardinality({u \in S : K[u] = l})
      BY <1>2 DEF SegmentRow
    <2>3. \A l : Cardinality({u \in S : K[u] = l}) \in Nat
      BY <2>1, FS_Subset, FS_CardinalityType
    <2> HIDE DEF f, S, K
    <2>4. \A l \in DOMAIN f : f[l] = 1 * Cardinality({u \in S : K[u] = l})
      BY <2>2, <2>3
    <2>5. SumFunction(f) = 1 * Cardinality(S) /\ Cardinality(S) \in Nat
      BY <2>1, <2>4, TableCounts, FS_CardinalityType
    <2>6. QED
      BY <2>5 DEF f, S
  <1>5. QED
    BY <1>3, <1>4

\* One table, one cost.
LEMMA OneCost == UsageInv => ReportsTellOneCost
  <1> SUFFICES ASSUME UsageInv, NEW r \in Ranges
      PROVE LET o == OverviewOf(r)
                listed == Listed(r)
            IN  /\ o.cost = SumFunction([d \in Points(r) |-> Point(d)])
                /\ o.cost = SumFunction([w \in Weeks(r) |-> Bucket(r, w)])
                /\ o.text.cost + o.image.cost
                     = SumFunction([u \in listed |-> UserRow(u, r).text.cost + UserRow(u, r).image.cost])
                /\ o.text.cost + o.image.cost = SumFunction([l \in Labels(r) |-> SegmentRow(l, r).cost])
                /\ o.text.messages + o.image.messages = SumFunction([u \in listed |-> UserRow(u, r).messages])
                /\ Cardinality(listed) = SumFunction([l \in Labels(r) |-> SegmentRow(l, r).users])
                /\ o.liara = SumFunction([u \in listed |-> UserRow(u, r).liara])
    BY DEF ReportsTellOneCost
  <1> DEFINE o == OverviewOf(r)
  <1>1. DiaryTypes
    BY DEF UsageInv
  <1>2. /\ o.cost = CostIn(Accounted(r)) /\ o.liara = Cardinality(Snapshots(r))
        /\ o.text.cost = Total(Of("text", Messages(r))) /\ o.image.cost = Total(Of("image", Messages(r)))
        /\ o.text.messages = Cardinality(Of("text", Messages(r)))
        /\ o.image.messages = Cardinality(Of("image", Messages(r)))
    BY DEF OverviewOf, Breakdown
  <1>3. Messages(r) \in SUBSET MessageRows
    BY DEF Messages
  <1> HIDE DEF o
  <1>4. /\ o.text.cost + o.image.cost = Total(Messages(r))
        /\ o.text.messages + o.image.messages = Cardinality(Messages(r))
    BY <1>1, <1>2, <1>3, ModelsAddUp
  <1>5. /\ o.cost = SumFunction([d \in Points(r) |-> Point(d)])
        /\ o.cost = SumFunction([w \in Weeks(r) |-> Bucket(r, w)])
    BY <1>2, DaysAddUp, WeeksAddUp
  <1>6. /\ o.text.cost + o.image.cost
             = SumFunction([u \in Listed(r) |-> UserRow(u, r).text.cost + UserRow(u, r).image.cost])
        /\ o.text.messages + o.image.messages = SumFunction([u \in Listed(r) |-> UserRow(u, r).messages])
        /\ o.liara = SumFunction([u \in Listed(r) |-> UserRow(u, r).liara])
    BY <1>1, <1>2, <1>4, UsersAddUp
  <1>7. /\ o.text.cost + o.image.cost = SumFunction([l \in Labels(r) |-> SegmentRow(l, r).cost])
        /\ Cardinality(Listed(r)) = SumFunction([l \in Labels(r) |-> SegmentRow(l, r).users])
    BY <1>1, <1>4, SegmentsAddUp
  <1>8. QED
    BY <1>5, <1>6, <1>7 DEF o

\* A period and the one before it.
LEMMA Neighbours == UsageInv => GrowthComparesNeighbours
  <1> SUFFICES ASSUME UsageInv, NEW r \in Ranges
      PROVE LET p == PreviousPeriod(r)
            IN  /\ DaysBetween(p) = DaysBetween(r)
                /\ p.to + 1 = r.from
                /\ Payments(p) \cap Payments(r) = {} /\ Accounted(p) \cap Accounted(r) = {}
                /\ OverviewOf([from |-> p.from, to |-> r.to]).revenue = OverviewOf(p).revenue + OverviewOf(r).revenue
    BY DEF GrowthComparesNeighbours
  <1> DEFINE p == PreviousPeriod(r)
             both == [from |-> p.from, to |-> r.to]
  <1>1. r.from \in Int /\ r.to \in Int /\ r.from =< r.to
    BY RangesKnown DEF UsageInv
  <1>2. p.from = r.from - (r.to - r.from) - 1 /\ p.to = r.from - 1 /\ p.from =< p.to + 1
        /\ p.to - p.from = r.to - r.from
    BY <1>1 DEF PreviousPeriod
  <1>3. both.from = p.from /\ both.to = r.to
    OBVIOUS
  <1> HIDE DEF p, both
  <1>4. DaysBetween(p) = DaysBetween(r)
    BY <1>2 DEF DaysBetween
  <1>5. (\A i \in DOMAIN diary : i \in Int) /\ \A c \in daily : Morning(c.date) \in Int
    BY EntriesFinite DEF UsageInv, CountedOnce, Morning
  <1>6. \A i \in Int : ~(Within(p, i) /\ Within(r, i)) /\ (Within(both, i) <=> Within(p, i) \/ Within(r, i))
    BY <1>1, <1>2, <1>3 DEF Within
  <1>7. Payments(p) \cap Payments(r) = {} /\ Payments(both) = Payments(p) \cup Payments(r)
        /\ Payments(p) \in SUBSET (DOMAIN diary) /\ Payments(r) \in SUBSET (DOMAIN diary)
    BY <1>5, <1>6 DEF Payments, Happens
  <1>8. Accounted(p) \cap Accounted(r) = {}
    BY <1>5, <1>6 DEF Accounted
  <1>9. Cardinality(Payments(both)) = Cardinality(Payments(p)) + Cardinality(Payments(r))
        /\ Cardinality(Payments(p)) \in Nat /\ Cardinality(Payments(r)) \in Nat /\ PlanPrice \in Nat
    BY <1>7, CostsAdd, EntriesFinite, UsageReportsAssumption DEF UsageInv
  <1>10. \A x : OverviewOf(x).revenue = PlanPrice * Cardinality(Payments(x))
    BY DEF OverviewOf
  <1>11. ASSUME NEW a \in Nat, NEW b \in Nat PROVE PlanPrice * (a + b) = PlanPrice * a + PlanPrice * b
    BY <1>9
  <1>12. OverviewOf(both).revenue = OverviewOf(p).revenue + OverviewOf(r).revenue
    BY <1>9, <1>10, <1>11
  <1>13. QED
    BY <1>2, <1>1, <1>4, <1>7, <1>8, <1>12 DEF p, both

\* Payments, split into those a table shows and the others.
LEMMA RevenueByKey ==
  ASSUME DiaryTypes, NEW is \in SUBSET (DOMAIN diary), NEW rest \in SUBSET is, NEW K,
         NEW f, IsFiniteSet(DOMAIN f), \A i \in is \ rest : K[i] \in DOMAIN f,
         \A k \in DOMAIN f : f[k] = PlanPrice * Cardinality({i \in is \ rest : K[i] = k})
  PROVE  PlanPrice * Cardinality(is) = SumFunction(f) + PlanPrice * Cardinality(rest)
  <1> DEFINE S == is \ rest
  <1>1. S \in SUBSET (DOMAIN diary) /\ rest \in SUBSET (DOMAIN diary) /\ S \cap rest = {} /\ S \cup rest = is
    OBVIOUS
  <1>2. IsFiniteSet(S) /\ Cardinality(S) \in Nat /\ Cardinality(rest) \in Nat /\ PlanPrice \in Int
    BY <1>1, EntriesFinite, UsageReportsAssumption
  <1>3. Cardinality(is) = Cardinality(S) + Cardinality(rest)
    <2> HIDE DEF S
    <2>1. Cardinality(S \cup rest) = Cardinality(S) + Cardinality(rest)
      BY <1>1, CostsAdd
    <2>2. QED
      BY <1>1, <2>1
  <1>4. SumFunction(f) = PlanPrice * Cardinality(S)
    <2>1. (\A i \in S : K[i] \in DOMAIN f)
          /\ \A k \in DOMAIN f : f[k] = PlanPrice * Cardinality({i \in S : K[i] = k})
      OBVIOUS
    <2> HIDE DEF S
    <2>2. QED
      BY <1>2, <2>1, TableCounts
  <1>5. ASSUME NEW a \in Nat, NEW b \in Nat PROVE PlanPrice * (a + b) = PlanPrice * a + PlanPrice * b
    BY <1>2
  <1>6. QED
    BY <1>2, <1>3, <1>4, <1>5

\* What the table by user misses, and the chart by day.
LEMMA SilentByUser ==
  ASSUME DiaryTypes, NEW r \in Ranges,
         NEW silent, silent = {i \in Payments(r) : By(diary[i].who, Messages(r) \cup Snapshots(r)) = {}}
  PROVE  OverviewOf(r).revenue = SumFunction([u \in Listed(r) |-> UserRow(u, r).revenue]) + PlanPrice * Cardinality(silent)
  <1> DEFINE is == Payments(r)
             f == [u \in Listed(r) |-> UserRow(u, r).revenue]
  <1>1. is \in SUBSET (DOMAIN diary) /\ silent \in SUBSET is
    BY DEF Payments, Happens
  <1>2. \A i \in is : Who[i] = diary[i].who /\ diary[i].who \in Client
    BY DEF Payments, Happens, Who, DiaryTypes
  <1>3. \A u \in Client : u \in Listed(r) <=> By(u, Messages(r) \cup Snapshots(r)) # {}
    BY DEF Listed, By
  <1>4. \A i \in is : i \notin silent <=> Who[i] \in Listed(r)
    BY <1>2, <1>3
  <1>5. ASSUME NEW u \in DOMAIN f PROVE f[u] = PlanPrice * Cardinality({i \in is \ silent : Who[i] = u})
    <2>1. By(u, is) = {i \in is \ silent : Who[i] = u}
      BY <1>2, <1>4 DEF By
    <2>2. f[u] = PlanPrice * Cardinality(By(u, is))
      BY UserRowIs
    <2>3. QED
      BY <2>1, <2>2
  <1>6. IsFiniteSet(DOMAIN f) /\ \A i \in is \ silent : Who[i] \in DOMAIN f
    BY <1>4, ListedKnown
  <1>7. OverviewOf(r).revenue = PlanPrice * Cardinality(is)
    BY DEF OverviewOf
  <1> HIDE DEF is, f
  <1>8. PlanPrice * Cardinality(is) = SumFunction(f) + PlanPrice * Cardinality(silent)
    <2>1. ASSUME NEW rest \in SUBSET is, \A i \in is \ rest : Who[i] \in DOMAIN f,
                 \A u \in DOMAIN f : f[u] = PlanPrice * Cardinality({i \in is \ rest : Who[i] = u})
          PROVE  PlanPrice * Cardinality(is) = SumFunction(f) + PlanPrice * Cardinality(rest)
      BY <1>1, <1>6, <2>1, RevenueByKey
    <2>2. QED
      BY <1>1, <1>5, <1>6, <2>1
  <1>9. QED
    BY <1>7, <1>8 DEF f

LEMMA IdleByDay ==
  ASSUME UsageInv, NEW idle, idle = {i \in Happens("payment") : DateOf(i) \notin ChartDays}
  PROVE  OverviewOf(Everything).revenue = SumFunction([d \in ChartDays |-> ChartRow(d).revenue]) + PlanPrice * Cardinality(idle)
  <1> DEFINE is == Happens("payment")
             f == [d \in ChartDays |-> ChartRow(d).revenue]
  <1>1. is \in SUBSET (DOMAIN diary) /\ idle \in SUBSET is /\ DiaryTypes
    BY DEF Happens, UsageInv
  <1>2. \A i \in DOMAIN diary : i \in 1..Len(diary) /\ i \in Int /\ Day[i] = DateOf(i)
    BY <1>1, EntriesFinite DEF Day
  <1>3. Len(diary) \in Nat /\ Today = DateOf(Len(diary)) /\ Today \in Int
    BY <1>1, EntriesFinite, Days DEF Today
  <1>4. Payments(Everything) = is
    <2>1. Everything.from = 0 /\ Everything.to = Evening(Today)
      BY DEF Everything, WholeDays, Morning
    <2>2. ASSUME NEW i \in 1..Len(diary) PROVE i =< Evening(Today)
      <3>1. Len(diary) =< Evening(Today) /\ Evening(Today) \in Int
        BY <1>3, Days
      <3>2. QED
        BY <1>3, <3>1
    <2>3. QED
      BY <1>1, <1>2, <2>1, <2>2 DEF Payments, Within
  <1>5. \A i \in is : i \notin idle <=> Day[i] \in ChartDays
    BY <1>1, <1>2
  <1>6. ASSUME NEW d \in DOMAIN f PROVE f[d] = PlanPrice * Cardinality({i \in is \ idle : Day[i] = d})
    <2>1. {i \in is : DateOf(i) = d} = {i \in is \ idle : Day[i] = d}
      BY <1>1, <1>2, <1>5
    <2>2. f[d] = PlanPrice * Cardinality({i \in is : DateOf(i) = d})
      BY DEF ChartRow
    <2>3. QED
      BY <2>1, <2>2
  <1>7. IsFiniteSet(DOMAIN f)
    <2>1. daily \in SUBSET counters
      BY DEF UsageInv, CountedOnce
    <2>2. \A c \in daily : RowDay[c] = c.date
      BY <2>1, RowsFinite
    <2>3. IsFiniteSet(daily)
      BY <2>1, RowsFinite
    <2>4. ChartDays = {RowDay[c] : c \in daily}
      BY <2>2 DEF ChartDays
    <2>5. QED
      BY <2>3, <2>4, KeysFinite
  <1>8. \A i \in is \ idle : Day[i] \in DOMAIN f
    BY <1>5
  <1>9. OverviewOf(Everything).revenue = PlanPrice * Cardinality(is)
    BY <1>4 DEF OverviewOf
  <1> HIDE DEF is, f
  <1>10. PlanPrice * Cardinality(is) = SumFunction(f) + PlanPrice * Cardinality(idle)
    BY <1>1, <1>6, <1>7, <1>8, RevenueByKey
  <1>11. QED
    BY <1>9, <1>10 DEF f

LEMMA LeftOutAreSilent == UsageInv => RevenueLeftOutIsOfTheSilent
  <1> SUFFICES ASSUME UsageInv PROVE RevenueLeftOutIsOfTheSilent
    OBVIOUS
  <1>1. \A r \in Ranges :
          LET silent == {i \in Payments(r) : By(diary[i].who, Messages(r) \union Snapshots(r)) = {}}
          IN OverviewOf(r).revenue = SumFunction([u \in Listed(r) |-> UserRow(u, r).revenue]) + PlanPrice * Cardinality(silent)
    BY SilentByUser DEF UsageInv
  <1>2. LET idle == {i \in Happens("payment") : DateOf(i) \notin ChartDays}
        IN OverviewOf(Everything).revenue = SumFunction([d \in ChartDays |-> ChartRow(d).revenue]) + PlanPrice * Cardinality(idle)
    BY IdleByDay
  <1>3. QED
    BY <1>1, <1>2 DEF RevenueLeftOutIsOfTheSilent

\* The window of a user's list begins with a day.
LEMMA WindowBegins ==
  ASSUME DiaryTypes, NEW u
  PROVE  /\ \E day \in Int : WindowStart(u) = Morning(day)
         /\ Subscribed(u) => PeriodStart(u) \in 1..Len(diary)
  <1> DEFINE is == By(u, Happens("payment"))
  <1>1. is \subseteq 1..Len(diary) /\ Len(diary) \in Nat
    <2>1. is \in SUBSET (DOMAIN diary)
      BY DEF By, Happens
    <2>2. QED
      BY <2>1, EntriesFinite
  <1>2. CASE Subscribed(u)
    <2>1. is # {} /\ is \in SUBSET (0..Len(diary))
      BY <1>1, <1>2 DEF Subscribed
    <2> HIDE DEF is
    <2>2. Max(is) \in is
      BY <1>1, <2>1, GreatestIs
    <2>3. PeriodStart(u) \in 1..Len(diary)
      BY <1>1, <2>2 DEF PeriodStart, is
    <2>4. DateOf(PeriodStart(u)) \in Int
      BY <1>1, <2>3, Days
    <2>5. QED
      BY <1>2, <2>3, <2>4 DEF WindowStart
  <1>3. CASE ~Subscribed(u)
    BY <1>3 DEF WindowStart, Morning
  <1>4. QED
    BY <1>2, <1>3

\* Two tables, and what they differ by, in a range and in the window of a user.
LEMMA RangeExplained == ASSUME UsageInv, NEW r \in Ranges PROVE Explained(Accounted(r), Messages(r), r)
  <1>1. r.from \in Int /\ r.to \in Int /\ \E day \in Int : r.to = Evening(day)
    BY RangesKnown DEF UsageInv
  <1>2. PICK day \in Int : r.to = Evening(day)
    BY <1>1
  <1>3. Accounted(r) \in SUBSET daily /\ Messages(r) \in SUBSET MessageRows
    BY DEF Accounted, Messages
  <1>4. \A c \in Accounted(r) : r.from =< Morning(c.date) /\ Morning(c.date) =< r.to
    BY DEF Accounted, Within
  <1>5. \A c \in counters : c.entry \in DOMAIN diary /\ c.entry \in Int /\ c.date \in Int
    BY EntriesFinite DEF UsageInv, CountedOnce, Costly
  <1>6. \A c \in daily : c \in counters
    BY DEF UsageInv, CountedOnce
  <1>7. \A c \in Accounted(r) : diary[c.entry].kind = "message" =>
          c.entry \in Messages(r) \/ c.entry < r.from \/ c.entry > r.to
    BY <1>1, <1>3, <1>5, <1>6 DEF Messages, MessageRows, Happens, Within
  <1>8. \A i \in Messages(r) : r.from =< i
    BY DEF Messages, Within
  <1>9. \A c \in daily : c.entry \in Messages(r) =>
          c \in Accounted(r) \/ Morning(c.date) < r.from \/ Morning(c.date) > r.to
    BY <1>1, <1>5, <1>6 DEF Accounted, Within, Morning
  <1>10. QED
    BY <1>1, <1>2, <1>3, <1>4, <1>7, <1>8, <1>9, WindowExplained

LEMMA PeriodExplained ==
  ASSUME UsageInv, NEW u \in Client
  PROVE  /\ Explained(AiRows(u), AiMessages(u), [from |-> WindowStart(u), to |-> Evening(Today)])
         /\ AiCostBy(u, "text") + AiCostBy(u, "image") = Total(AiMessages(u))
  <1> DEFINE r == [from |-> WindowStart(u), to |-> Evening(Today)]
  <1>1. PICK first \in Int : WindowStart(u) = Morning(first)
    BY WindowBegins DEF UsageInv
  <1>2. Today \in Int
    BY DatesGrow, EntriesFinite DEF Today, UsageInv
  <1>3. r.from = WindowStart(u) /\ r.from \in Int /\ r.to = Evening(Today)
    BY <1>1 DEF Morning
  <1>4. AiRows(u) \in SUBSET daily /\ AiMessages(u) \in SUBSET MessageRows
    BY DEF AiRows, AiMessages, OfUser, By
  <1>5. \A c \in counters : /\ c.entry \in DOMAIN diary /\ c.entry \in Int /\ c.date \in Int /\ c.date =< Today
    BY EntriesFinite DEF UsageInv, CountedOnce, Costly
  <1>6. \A c \in daily : c \in counters
    BY DEF UsageInv, CountedOnce
  <1> HIDE DEF r
  <1>7. \A c \in AiRows(u) : r.from =< Morning(c.date) /\ Morning(c.date) =< r.to
    BY <1>2, <1>3, <1>4, <1>5, <1>6 DEF AiRows, Morning, Evening
  <1>8. \A c \in AiRows(u) : diary[c.entry].kind = "message" =>
          c.entry \in AiMessages(u) \/ c.entry < r.from \/ c.entry > r.to
    BY <1>3, <1>4, <1>5, <1>6 DEF AiRows, OfUser, AiMessages, By, MessageRows, Happens
  <1>9. \A i \in AiMessages(u) : r.from =< i
    <2>1. \A i \in AiMessages(u) : i \in DOMAIN diary /\ i >= WindowStart(u)
      BY DEF AiMessages, By, MessageRows, Happens
    <2>2. QED
      BY <1>3, <2>1, EntriesFinite DEF UsageInv
  <1>10. \A c \in daily : c.entry \in AiMessages(u) =>
           c \in AiRows(u) \/ Morning(c.date) < r.from \/ Morning(c.date) > r.to
    BY <1>3, <1>5, <1>6 DEF AiRows, OfUser, AiMessages, By, Morning
  <1>11. Explained(AiRows(u), AiMessages(u), r)
    BY <1>2, <1>3, <1>4, <1>7, <1>8, <1>9, <1>10, WindowExplained
  <1>12. AiCostBy(u, "text") + AiCostBy(u, "image") = Total(AiMessages(u))
    BY <1>4, ModelsAddUp DEF AiCostBy, UsageInv
  <1>13. QED
    BY <1>11, <1>12 DEF r

LEMMA TablesDiffer == UsageInv => TablesDifferByCause
  BY RangeExplained, PeriodExplained DEF TablesDifferByCause

\* A division by a positive number keeps the order.
LEMMA QuotientsInOrder ==
  ASSUME NEW n \in Nat \ {0}
  PROVE  /\ \A a \in Nat : a \div n \in Nat /\ (a * n) \div n =< a
         /\ \A a, b \in Nat : a =< b => a \div n =< b \div n
  OBVIOUS

LEMMA ProductsInOrder ==
  ASSUME NEW a \in Nat, NEW b \in Nat, NEW n \in Nat, a =< b
  PROVE  n * a \in Nat /\ n * b \in Nat /\ n * a =< n * b
  OBVIOUS

\* Categories in their order.
LEMMA RankIs ==
  Rank("inactive") = 1 /\ Rank("light") = 2 /\ Rank("moderate") = 3 /\ Rank("heavy") = 4
  <1> DEFINE t == <<"inactive", "light", "moderate", "heavy">>
  <1>1. t[1] = "inactive" /\ t[2] = "light" /\ t[3] = "moderate" /\ t[4] = "heavy"
    OBVIOUS
  <1>2. \A i \in 1..4 : i = 1 \/ i = 2 \/ i = 3 \/ i = 4
    OBVIOUS
  <1>3. \A c : Rank(c) = CHOOSE i \in 1..4 : t[i] = c
    BY DEF Rank
  <1> HIDE DEF t
  <1>4. \A i \in 1..4 : (t[i] = "inactive" <=> i = 1) /\ (t[i] = "light" <=> i = 2)
                        /\ (t[i] = "moderate" <=> i = 3) /\ (t[i] = "heavy" <=> i = 4)
    BY <1>1, <1>2
  <1>5. /\ 1 \in 1..4 /\ 2 \in 1..4 /\ 3 \in 1..4 /\ 4 \in 1..4
    OBVIOUS
  <1>6. Rank("inactive") = 1
    BY <1>3, <1>4, <1>5
  <1>7. Rank("light") = 2
    BY <1>3, <1>4, <1>5
  <1>8. Rank("moderate") = 3
    BY <1>3, <1>4, <1>5
  <1>9. Rank("heavy") = 4
    BY <1>3, <1>4, <1>5
  <1>10. QED
    BY <1>6, <1>7, <1>8, <1>9

LEMMA RankOfCategory ==
  ASSUME NEW c \in Nat, NEW e \in Nat
  PROVE  Rank(Category(c, e)) = IF c = 0 THEN 1 ELSE IF e = 0 \/ 2 * c < e THEN 2
                                ELSE IF 2 * c < 3 * e THEN 3 ELSE 4
  BY RankIs DEF Category

\* A period is at most as long as it lasts.
LEMMA DaysPassedBound ==
  ASSUME DiaryTypes, NEW u, Subscribed(u) PROVE DaysPassed(u, Len(diary)) \in 1..PeriodDays
  <1> DEFINE q == (Len(diary) - PeriodStart(u)) \div 2 + 1
  <1>1. PeriodStart(u) \in Int /\ Len(diary) \in Int
    BY WindowBegins, EntriesFinite
  <1>2. q \in Int
    BY <1>1
  <1>3. PeriodDays \in Nat \ {0}
    BY UsageReportsAssumption
  <1> HIDE DEF q
  <1>4. Max({q, 1}) \in Int /\ Max({q, 1}) >= 1
    BY <1>2, GreaterOfTwo
  <1>5. DaysPassed(u, Len(diary)) = Min({Max({q, 1}), PeriodDays})
    BY DEF DaysPassed, q
  <1>6. Min({Max({q, 1}), PeriodDays}) \in 1..PeriodDays
    <2> DEFINE m == Max({q, 1})
    <2>1. m \in Int /\ m >= 1
      BY <1>4
    <2> HIDE DEF m
    <2>2. Min({m, PeriodDays}) = IF m >= PeriodDays THEN PeriodDays ELSE m
      BY <1>3, <2>1, GreaterOfTwo
    <2>3. Min({m, PeriodDays}) \in 1..PeriodDays
      BY <1>3, <2>1, <2>2
    <2>4. QED
      BY <2>3 DEF m
  <1>7. QED
    BY <1>5, <1>6

LEMMA CategoriesFair == UsageInv => CategoriesAreFair
  <1> SUFFICES ASSUME UsageInv, NEW u \in Client, Subscribed(u)
      PROVE LET passed == DaysPassed(u, Len(diary))
                expected(p) == ExpectedByNow(PlanPrice, p)
                rank(c, p) == Rank(Category(c, expected(p)))
            IN  /\ expected(passed) =< (PlanPrice * SharePct) \div 100
                /\ \A c \in 0..AiCost(u) : rank(c, passed) =< rank(AiCost(u), passed)
                /\ \A p \in 1..passed : expected(p) > 0 => rank(AiCost(u), passed) =< rank(AiCost(u), p)
    BY DEF CategoriesAreFair
  <1> DEFINE passed == DaysPassed(u, Len(diary))
             cost == AiCost(u)
             share == (PlanPrice * SharePct) \div 100
             expected(p) == ExpectedByNow(PlanPrice, p)
             rank(c, p) == Rank(Category(c, expected(p)))
  <1>1. passed \in 1..PeriodDays /\ PeriodDays \in Nat \ {0}
    BY DaysPassedBound, UsageReportsAssumption DEF UsageInv
  <1>2. cost \in Nat
    <2>1. AiRows(u) \in SUBSET counters
      BY DEF AiRows, OfUser, UsageInv, CountedOnce
    <2>2. QED
      BY <2>1, RowsCost DEF AiCost
  <1>3. share \in Nat
    <2>1. PlanPrice \in Nat /\ SharePct \in Nat
      BY UsageReportsAssumption
    <2>2. PlanPrice * SharePct \in Nat
      BY <2>1
    <2>3. QED
      BY <2>2, QuotientsInOrder
  <1>4. \A p : expected(p) = (share * p) \div PeriodDays
    BY DEF ExpectedByNow
  <1> HIDE DEF passed, cost, share, expected
  <1>5. \A p \in 1..PeriodDays : /\ expected(p) \in Nat /\ expected(p) =< share
                                 /\ \A q \in 1..p : expected(q) \in Nat /\ expected(q) =< expected(p)
    <2> SUFFICES ASSUME NEW p \in 1..PeriodDays, NEW q \in 1..p
        PROVE  expected(p) \in Nat /\ expected(p) =< share /\ expected(q) \in Nat /\ expected(q) =< expected(p)
      BY <1>1
    <2>1. p \in Nat /\ q \in Nat /\ q =< p /\ p =< PeriodDays /\ PeriodDays \in Nat
      BY <1>1
    <2>2. /\ share * q \in Nat /\ share * p \in Nat /\ share * PeriodDays \in Nat
          /\ share * q =< share * p /\ share * p =< share * PeriodDays
      BY <1>3, <2>1, ProductsInOrder
    <2>3. /\ (share * q) \div PeriodDays \in Nat /\ (share * p) \div PeriodDays \in Nat
          /\ (share * q) \div PeriodDays =< (share * p) \div PeriodDays
          /\ (share * p) \div PeriodDays =< (share * PeriodDays) \div PeriodDays
          /\ (share * PeriodDays) \div PeriodDays =< share
          /\ (share * PeriodDays) \div PeriodDays \in Nat
      BY <1>1, <1>3, <2>2, QuotientsInOrder
    <2>4. QED
      BY <1>3, <1>4, <2>3
  <1>6. expected(passed) =< share /\ expected(passed) \in Nat
    BY <1>1, <1>5
  <1>7. ASSUME NEW c \in 0..cost PROVE rank(c, passed) =< rank(cost, passed)
    <2>1. c \in Nat /\ c =< cost
      BY <1>2
    <2> DEFINE e == expected(passed)
    <2>2. e \in Nat
      BY <1>6
    <2> HIDE DEF e
    <2>3. Rank(Category(c, e)) =< Rank(Category(cost, e))
      BY <1>2, <2>1, <2>2, RankOfCategory
    <2>4. QED
      BY <2>3 DEF e
  <1>8. ASSUME NEW p \in 1..passed, expected(p) > 0 PROVE rank(cost, passed) =< rank(cost, p)
    <2> DEFINE e == expected(passed)
               d == expected(p)
    <2>1. e \in Nat /\ d \in Nat /\ d > 0 /\ d =< e
      BY <1>1, <1>5, <1>8
    <2> HIDE DEF e, d
    <2>2. Rank(Category(cost, e)) =< Rank(Category(cost, d))
      BY <1>2, <2>1, RankOfCategory
    <2>3. QED
      BY <2>2 DEF e, d
  <1>9. QED
    BY <1>6, <1>7, <1>8 DEF passed, cost, share, expected

\* Alerts in their order.
LEMMA AlertRankIs == AlertRank("safe") = 1 /\ AlertRank("warning") = 2 /\ AlertRank("critical") = 3
  <1> DEFINE t == <<"safe", "warning", "critical">>
  <1>1. t[1] = "safe" /\ t[2] = "warning" /\ t[3] = "critical"
    OBVIOUS
  <1>2. \A i \in 1..3 : i = 1 \/ i = 2 \/ i = 3
    OBVIOUS
  <1>3. \A c : AlertRank(c) = CHOOSE i \in 1..3 : t[i] = c
    BY DEF AlertRank
  <1> HIDE DEF t
  <1>4. \A i \in 1..3 : (t[i] = "safe" <=> i = 1) /\ (t[i] = "warning" <=> i = 2) /\ (t[i] = "critical" <=> i = 3)
    BY <1>1, <1>2
  <1>5. 1 \in 1..3 /\ 2 \in 1..3 /\ 3 \in 1..3
    OBVIOUS
  <1>6. AlertRank("safe") = 1
    BY <1>3, <1>4, <1>5
  <1>7. AlertRank("warning") = 2
    BY <1>3, <1>4, <1>5
  <1>8. AlertRank("critical") = 3
    BY <1>3, <1>4, <1>5
  <1>9. QED
    BY <1>6, <1>7, <1>8

LEMMA AlertFollows == UsageInv => AlertFollowsTheMargin
  <1> SUFFICES ASSUME UsageInv
      PROVE LET o == OverviewOf(Everything)
                alert(c, v) == AlertRank(AlertLevel(c, v))
            IN  /\ \A less \in 0..o.cost : alert(less, o.revenue) =< alert(o.cost, o.revenue)
                /\ \A less \in 1..o.revenue : alert(o.cost, less) >= alert(o.cost, o.revenue)
    BY DEF AlertFollowsTheMargin
  <1> DEFINE cost == OverviewOf(Everything).cost
             revenue == OverviewOf(Everything).revenue
  <1>1. cost = CostIn(Accounted(Everything)) /\ revenue = PlanPrice * Cardinality(Payments(Everything))
    BY DEF OverviewOf
  <1>2. Accounted(Everything) \in SUBSET counters /\ Payments(Everything) \in SUBSET (DOMAIN diary)
    BY DEF Accounted, Payments, Happens, UsageInv, CountedOnce
  <1>3. cost \in Nat
    BY <1>1, <1>2, RowsCost
  <1>4. revenue \in Nat
    <2>1. Cardinality(Payments(Everything)) \in Nat /\ PlanPrice \in Nat
      BY <1>2, EntriesFinite, UsageReportsAssumption DEF UsageInv
    <2>2. PlanPrice * Cardinality(Payments(Everything)) \in Nat
      BY <2>1
    <2>3. QED
      BY <1>1, <2>2
  <1> HIDE DEF cost, revenue
  <1>5. \A c, v \in Nat : AlertRank(AlertLevel(c, v)) = IF v > 0 /\ 100 * c >= 75 * v THEN 3
                                                       ELSE IF v > 0 /\ 100 * c >= 60 * v THEN 2 ELSE 1
    BY AlertRankIs DEF AlertLevel
  <1>6. \A less \in 0..cost : AlertRank(AlertLevel(less, revenue)) =< AlertRank(AlertLevel(cost, revenue))
    BY <1>3, <1>4, <1>5
  <1>7. \A less \in 1..revenue : AlertRank(AlertLevel(cost, less)) >= AlertRank(AlertLevel(cost, revenue))
    BY <1>3, <1>4, <1>5
  <1>8. QED
    BY <1>6, <1>7 DEF cost, revenue

-----------------------------------------------------------------------------
(* Reports on the trial *)

LEMMA FunnelStep == [PlatformNext]_platformVars => [AnonFunnelNext]_funnelVars
  BY DEF PlatformNext, platformVars

\* What the log holds; only customers write and buy.
OfVisitors == {"ask"} \cup Stages
FunnelEntry == [kind : {"SESSION_CREATED", "signup", "write", "buy"} \cup OfVisitors, who : Visitor \cup Customer,
                of : Utm \cup {NoUtm} \cup Customer, amount : Price \cup {0}]
FunnelTypes ==
  /\ log \in Seq(FunnelEntry)
  /\ \A i \in DOMAIN log : log[i].kind \in {"SESSION_CREATED"} \cup OfVisitors => log[i].who \in Visitor

\* A session begins once, and before all that is said of it.
BegunOnce ==
  \A i, j \in DOMAIN log :
    log[i].kind = "SESSION_CREATED" /\ log[j].kind = "SESSION_CREATED" /\ log[i].who = log[j].who => i = j
BegunBefore ==
  \A i \in DOMAIN log : log[i].kind \in OfVisitors =>
    \E j \in DOMAIN log : j < i /\ log[j].kind = "SESSION_CREATED" /\ log[j].who = log[i].who

FunnelInv == FunnelTypes /\ BegunOnce /\ BegunBefore

LEMMA InitFunnel == AnonFunnelInit => FunnelInv
  BY DEF AnonFunnelInit, FunnelInv, FunnelTypes, BegunOnce, BegunBefore

\* An entry keeps the order: the first of its visitor's, or one of a visitor who has begun.
LEMMA LogKeeps ==
  ASSUME FunnelInv, NEW e \in FunnelEntry, Log(e),
         e.kind = "SESSION_CREATED" => e.who \in Visitor /\ ~Known(e.who),
         e.kind \in OfVisitors => e.who \in Visitor /\ Known(e.who)
  PROVE  FunnelInv'
  <1>1. log' = Append(log, e) /\ log \in Seq(FunnelEntry)
    BY DEF Log, FunnelInv, FunnelTypes
  <1>2. /\ Len(log) \in Nat /\ DOMAIN log = 1..Len(log) /\ DOMAIN log' = 1..Len(log) + 1
        /\ log' \in Seq(FunnelEntry)
        /\ \A i \in DOMAIN log' : \/ i = Len(log) + 1 /\ log'[i] = e
                                  \/ i \in DOMAIN log /\ log'[i] = log[i]
        /\ \A i \in DOMAIN log : i \in DOMAIN log' /\ log'[i] = log[i] /\ i < Len(log) + 1 /\ i # Len(log) + 1
    BY <1>1
  <1>3. FunnelTypes'
    BY <1>2 DEF FunnelInv, FunnelTypes
  <1>4. Known(e.who) <=> \E j \in DOMAIN log : log[j].kind = "SESSION_CREATED" /\ log[j].who = e.who
    BY DEF Known, Happened
  <1>5. BegunOnce'
    BY <1>2, <1>4 DEF FunnelInv, BegunOnce
  <1>6. BegunBefore'
    <2> SUFFICES ASSUME NEW i \in DOMAIN log', log'[i].kind \in OfVisitors
                 PROVE  \E j \in DOMAIN log' : j < i /\ log'[j].kind = "SESSION_CREATED" /\ log'[j].who = log'[i].who
      BY DEF BegunBefore
    <2>1. CASE i = Len(log) + 1 /\ log'[i] = e
      BY <1>2, <1>4, <2>1
    <2>2. CASE i \in DOMAIN log /\ log'[i] = log[i]
      BY <1>2, <2>2 DEF FunnelInv, BegunBefore
    <2>3. QED
      BY <1>2, <2>1, <2>2
  <1>7. QED
    BY <1>3, <1>5, <1>6 DEF FunnelInv

\* Who has said something has begun.
LEMMA SpokenIsKnown ==
  ASSUME FunnelInv, NEW v, NEW kind \in OfVisitors, Happened(kind, v) # {}
  PROVE  Known(v) /\ v \in Visitor
  BY DEF FunnelInv, FunnelTypes, BegunBefore, Happened, Known

LEMMA NextFunnel == FunnelInv /\ [AnonFunnelNext]_funnelVars => FunnelInv'
  <1> SUFFICES ASSUME FunnelInv, [AnonFunnelNext]_funnelVars PROVE FunnelInv'
    OBVIOUS
  <1>1. ASSUME NEW v \in Visitor, NEW utm \in Utm \union {NoUtm}, Visits(v, utm) PROVE FunnelInv'
    <2> DEFINE x == [LogEntry("SESSION_CREATED", v) EXCEPT !.of = utm]
    <2>1. Log(x) /\ x \in FunnelEntry /\ x.kind = "SESSION_CREATED" /\ x.who = v /\ ~Known(v) /\ x.kind \notin OfVisitors
      BY <1>1 DEF Visits, LogEntry, FunnelEntry, OfVisitors, Stages, NoUtm
    <2> HIDE DEF x
    <2>2. QED
      BY <1>1, <2>1, LogKeeps
  <1>2. ASSUME NEW v \in Visitor, Asks(v) PROVE FunnelInv'
    <2> DEFINE x == LogEntry("ask", v)
    <2>1. Log(x) /\ x \in FunnelEntry /\ x.kind # "SESSION_CREATED" /\ x.who = v /\ Known(v)
      BY <1>2 DEF Asks, LogEntry, FunnelEntry, OfVisitors, NoUtm
    <2> HIDE DEF x
    <2>2. QED
      BY <1>2, <2>1, LogKeeps
  <1>3. ASSUME NEW v \in Visitor, NEW stage \in Stages, Reaches(v, stage) PROVE FunnelInv'
    <2> DEFINE x == LogEntry(stage, v)
    <2>1. Log(x) /\ x \in FunnelEntry /\ x.kind # "SESSION_CREATED" /\ x.who = v
      BY <1>3 DEF Reaches, LogEntry, FunnelEntry, OfVisitors, Stages, NoUtm
    <2>2. Known(v)
      BY <1>3, SpokenIsKnown DEF Reaches, OfVisitors
    <2> HIDE DEF x
    <2>3. QED
      BY <1>3, <2>1, <2>2, LogKeeps
  <1>4. ASSUME NEW v \in Visitor, NEW u \in Customer, SignsUp(v, u) PROVE FunnelInv'
    <2> DEFINE x == [LogEntry("signup", v) EXCEPT !.of = u]
    <2>1. Log(x) /\ x \in FunnelEntry /\ x.kind # "SESSION_CREATED" /\ x.kind \notin OfVisitors
      BY <1>4 DEF SignsUp, LogEntry, FunnelEntry, OfVisitors, Stages, NoUtm
    <2> HIDE DEF x
    <2>2. QED
      BY <2>1, LogKeeps
  <1>5. ASSUME NEW u \in Customer, Writes(u) PROVE FunnelInv'
    <2> DEFINE x == LogEntry("write", u)
    <2>1. Log(x) /\ x \in FunnelEntry /\ x.kind # "SESSION_CREATED" /\ x.kind \notin OfVisitors
      BY <1>5 DEF Writes, LogEntry, FunnelEntry, OfVisitors, Stages, NoUtm
    <2> HIDE DEF x
    <2>2. QED
      BY <2>1, LogKeeps
  <1>6. ASSUME NEW u \in Customer, NEW amount \in Price, Buys(u, amount) PROVE FunnelInv'
    <2> DEFINE x == [LogEntry("buy", u) EXCEPT !.amount = amount]
    <2>1. Log(x) /\ x \in FunnelEntry /\ x.kind # "SESSION_CREATED" /\ x.kind \notin OfVisitors
      BY <1>6 DEF Buys, LogEntry, FunnelEntry, OfVisitors, Stages, NoUtm
    <2> HIDE DEF x
    <2>2. QED
      BY <2>1, LogKeeps
  <1>7. CASE UNCHANGED funnelVars
    BY <1>7 DEF funnelVars, FunnelInv, FunnelTypes, BegunOnce, BegunBefore
  <1>8. QED
    BY <1>1, <1>2, <1>3, <1>4, <1>5, <1>6, <1>7 DEF AnonFunnelNext

\* Entries are finitely many, and so are sessions.
LEMMA LogFinite ==
  ASSUME FunnelInv, NEW is \in SUBSET (DOMAIN log)
  PROVE  IsFiniteSet(is) /\ Cardinality(is) \in Nat /\ is \subseteq 1..Len(log) /\ Len(log) \in Nat
         /\ \A i \in is : i \in Int
  <1>1. DOMAIN log = 1..Len(log) /\ Len(log) \in Nat
    BY DEF FunnelInv, FunnelTypes
  <1>2. IsFiniteSet(DOMAIN log)
    BY <1>1, FS_Interval
  <1>3. QED
    BY <1>1, <1>2, FS_Subset, FS_CardinalityType

\* Sessions and the entries that begin them.
Beginnings(from, to) == {i \in from..to : i \in DOMAIN log /\ log[i].kind = "SESSION_CREATED"}

LEMMA SessionsFinite ==
  ASSUME NEW from, NEW to, NEW S \in SUBSET SessionsIn(from, to)
  PROVE  IsFiniteSet(S) /\ Cardinality(S) \in Nat /\ S \subseteq Visitor /\ IsFiniteSet(Groups(from, to))
  <1>1. IsFiniteSet(Visitor) /\ SessionsIn(from, to) \subseteq Visitor
    BY AnonFunnelAssumption DEF SessionsIn
  <1>2. IsFiniteSet(S) /\ IsFiniteSet(SessionsIn(from, to)) /\ S \subseteq Visitor
    BY <1>1, FS_Subset
  <1>3. IsFiniteSet(Groups(from, to))
    <2> DEFINE K == [v \in SessionsIn(from, to) |-> UtmOf(v)]
    <2>1. Groups(from, to) = {K[v] : v \in SessionsIn(from, to)}
      BY DEF Groups
    <2> HIDE DEF K
    <2>2. QED
      BY <1>2, <2>1, KeysFinite
  <1>4. QED
    BY <1>2, <1>3, FS_CardinalityType

\* One entry begins each session.
LEMMA SessionsBegin ==
  ASSUME FunnelInv, NEW from \in Int, NEW to \in Int
  PROVE  Cardinality(Beginnings(from, to)) = Cardinality(SessionsIn(from, to))
  <1> DEFINE C == Beginnings(from, to)
             S == SessionsIn(from, to)
             K == [i \in C |-> log[i].who]
             g == [v \in S |-> 1]
  <1>1. C \in SUBSET (DOMAIN log)
    BY DEF Beginnings
  <1>2. IsFiniteSet(C) /\ IsFiniteSet(S) /\ Cardinality(S) \in Nat
    BY <1>1, LogFinite, SessionsFinite
  <1>3. \A i \in C : i \in Int /\ log[i].kind = "SESSION_CREATED" /\ log[i].who \in Visitor /\ from =< i /\ i =< to
    BY <1>1, LogFinite DEF Beginnings, FunnelInv, FunnelTypes
  <1>4. \A i \in C : K[i] \in S
    BY <1>1, <1>3 DEF SessionsIn, CreatedIn, Happened
  <1>5. ASSUME NEW v \in S PROVE g[v] = Cardinality({i \in C : K[i] = v})
    <2>1. PICK i \in Happened("SESSION_CREATED", v) : from =< i /\ i =< to
      BY DEF SessionsIn, CreatedIn
    <2>2. i \in C /\ K[i] = v
      <3>1. i \in DOMAIN log /\ log[i].kind = "SESSION_CREATED" /\ log[i].who = v
        BY DEF Happened
      <3>2. i \in Int
        BY <3>1, LogFinite
      <3>3. QED
        BY <2>1, <3>1, <3>2 DEF Beginnings
    <2>3. \A j \in C : K[j] = v => j = i
      BY <1>1, <1>3, <2>2 DEF FunnelInv, BegunOnce
    <2>4. {j \in C : K[j] = v} = {i}
      BY <2>2, <2>3
    <2>5. Cardinality({i}) = 1
      BY FS_Singleton
    <2>6. QED
      BY <2>4, <2>5
  <1>6. DOMAIN g = S /\ \A v \in S : g[v] = 1
    OBVIOUS
  <1> HIDE DEF C, S, K, g
  <1>7. SumFunction(g) = Cardinality(C)
    BY <1>2, <1>4, <1>5, <1>6, CountsByKey
  <1>8. SumFunction(g) = SumOver(g, S)
    BY <1>6, FunctionSum
  <1>9. SumOver(g, S) = Cardinality(S)
    BY <1>2, <1>6, TotalOnes
  <1>10. QED
    BY <1>2, <1>7, <1>8, <1>9 DEF C, S

\* The rows by day are the days, and each has the entries of its day.
LEMMA TimesAddUp ==
  ASSUME FunnelInv, NEW from \in Int, NEW to \in Int
  PROVE  /\ Overview(from, to).sessions = SumFunction([day \in Timeseries(from, to) |-> day.sessions])
         /\ Overview(from, to).messages >= SumFunction([day \in Timeseries(from, to) |-> day.messages])
  <1> DEFINE C == Beginnings(from, to)
             A == {i \in from..to : i \in DOMAIN log /\ log[i].kind = "ask"}
             days == {DayOf(i) : i \in C}
             On(d, kind) == Cardinality({j \in from..to : j \in DOMAIN log /\ log[j].kind = kind /\ DayOf(j) = d})
             row == [d \in days |-> [day |-> d, sessions |-> On(d, "SESSION_CREATED"), messages |-> On(d, "ask")]]
             T == Timeseries(from, to)
             s == [d \in days |-> Cardinality({i \in C : DayOf(i) = d})]
             m == [d \in days |-> Cardinality({i \in A : DayOf(i) = d})]
  <1>1. C \in SUBSET (DOMAIN log) /\ A \in SUBSET (DOMAIN log)
    BY DEF Beginnings
  <1>2. IsFiniteSet(C) /\ IsFiniteSet(A) /\ Cardinality(A) \in Nat
    BY <1>1, LogFinite
  <1>3. T = {row[d] : d \in days}
    BY DEF Timeseries, Beginnings
  <1>4. \A d \in days : row[d] = [day |-> d, sessions |-> s[d], messages |-> m[d]]
    <2>1. \A d : {j \in from..to : j \in DOMAIN log /\ log[j].kind = "SESSION_CREATED" /\ DayOf(j) = d}
                   = {i \in C : DayOf(i) = d}
      BY DEF Beginnings
    <2>2. \A d : {j \in from..to : j \in DOMAIN log /\ log[j].kind = "ask" /\ DayOf(j) = d} = {i \in A : DayOf(i) = d}
      OBVIOUS
    <2> HIDE DEF C, A, days
    <2>3. QED
      BY <2>1, <2>2
  <1>5. IsFiniteSet(days)
    <2> DEFINE K == [i \in C |-> DayOf(i)]
    <2>1. days = {K[i] : i \in C}
      OBVIOUS
    <2> HIDE DEF K, C, days
    <2>2. QED
      BY <1>2, <2>1, KeysFinite
  <1> HIDE DEF row, T
  <1>6. IsFiniteSet(T)
    <2> HIDE DEF days
    <2>1. QED
      BY <1>3, <1>5, KeysFinite
  <1>7. \A i \in C : DayOf(i) \in days
    OBVIOUS
  <1> HIDE DEF days
  <1>8. ASSUME NEW d \in days PROVE row[d].day = d /\ row[d].sessions = s[d] /\ row[d].messages = m[d]
    <2> DEFINE r == row[d]
    <2>1. r = [day |-> d, sessions |-> s[d], messages |-> m[d]]
      BY <1>4
    <2> HIDE DEF r, s, m
    <2>2. r.day = d /\ r.sessions = s[d] /\ r.messages = m[d]
      BY <2>1
    <2>3. QED
      BY <2>2 DEF r
  <1>9. \A x \in T : x.day \in days /\ x = row[x.day] /\ x.sessions = s[x.day] /\ x.messages = m[x.day]
    <2> HIDE DEF s, m, days
    <2>1. QED
      BY <1>3, <1>8
  <1>10. SumFunction([x \in T |-> x.sessions]) = Cardinality(C)
    <2> DEFINE f == [x \in T |-> x.sessions]
               K == [i \in C |-> row[DayOf(i)]]
    <2>1. \A i \in C : K[i] \in T
      BY <1>3, <1>7
    <2>2. ASSUME NEW x \in T PROVE f[x] = Cardinality({i \in C : K[i] = x})
      <3>1. {i \in C : K[i] = x} = {i \in C : DayOf(i) = x.day}
        <4> HIDE DEF s, m
        <4>1. QED
          BY <1>7, <1>9, <1>8
      <3>2. f[x] = Cardinality({i \in C : DayOf(i) = x.day})
        <4>1. s[x.day] = Cardinality({i \in C : DayOf(i) = x.day})
          BY <1>9
        <4> HIDE DEF s
        <4>2. f[x] = s[x.day]
          BY <1>9
        <4>3. QED
          BY <4>1, <4>2
      <3>3. QED
        BY <3>1, <3>2
    <2>3. DOMAIN f = T
      OBVIOUS
    <2> HIDE DEF f, K, C
    <2>4. SumFunction(f) = Cardinality(C)
      BY <1>2, <1>6, <2>1, <2>2, <2>3, CountsByKey
    <2>5. QED
      BY <2>4 DEF f
  <1>11. SumFunction([x \in T |-> x.messages]) =< Cardinality(A) /\ SumFunction([x \in T |-> x.messages]) \in Int
    <2> DEFINE f == [x \in T |-> x.messages]
               B == {i \in A : DayOf(i) \in days}
               K == [i \in B |-> row[DayOf(i)]]
    <2>1. \A i \in B : K[i] \in T
      BY <1>3
    <2>2. ASSUME NEW x \in T PROVE f[x] = Cardinality({i \in B : K[i] = x})
      <3>1. {i \in B : K[i] = x} = {i \in A : DayOf(i) = x.day}
        <4> HIDE DEF s, m
        <4>1. QED
          BY <1>8, <1>9
      <3>2. f[x] = Cardinality({i \in A : DayOf(i) = x.day})
        <4>1. m[x.day] = Cardinality({i \in A : DayOf(i) = x.day})
          BY <1>9
        <4> HIDE DEF m
        <4>2. f[x] = m[x.day]
          BY <1>9
        <4>3. QED
          BY <4>1, <4>2
      <3>3. QED
        BY <3>1, <3>2
    <2>3. DOMAIN f = T
      OBVIOUS
    <2>4. B \in SUBSET A
      OBVIOUS
    <2> HIDE DEF f, K, A, B
    <2>5. IsFiniteSet(B) /\ Cardinality(B) =< Cardinality(A)
      BY <1>2, <2>4, FS_Subset
    <2>6. SumFunction(f) = Cardinality(B) /\ Cardinality(B) \in Nat
      BY <1>6, <2>1, <2>2, <2>3, <2>5, CountsByKey
    <2>7. QED
      BY <2>5, <2>6 DEF f
  <1>12. Overview(from, to).sessions = Cardinality(SessionsIn(from, to)) /\ Overview(from, to).messages = Cardinality(A)
    BY DEF Overview
  <1>13. Cardinality(C) = Cardinality(SessionsIn(from, to))
    BY SessionsBegin
  <1> HIDE DEF C, A
  <1>14. QED
    BY <1>2, <1>10, <1>11, <1>12, <1>13 DEF T

\* A row of a campaign and a row of a path, field by field.
LEMMA CampaignRowIs ==
  ASSUME NEW g, NEW from, NEW to
  PROVE  LET those == {v \in SessionsIn(from, to) : UtmOf(v) = g}
             r == CampaignRow(g, from, to)
         IN  /\ r.sessions = Cardinality(those)
             /\ r.messages = SumFunction([v \in those |-> Cardinality(Happened("ask", v))])
             /\ r.signups = Cardinality({v \in those : Migrated(v)})
             /\ r.purchases = Cardinality({v \in {x \in those : Migrated(x)} : PaymentsOf(UserOf(v)) # {}})
  <1> DEFINE those == {v \in SessionsIn(from, to) : UtmOf(v) = g}
             signups == {v \in those : Migrated(v)}
             buyers == {v \in signups : PaymentsOf(UserOf(v)) # {}}
             a == Cardinality(those)
             b == SumFunction([v \in those |-> Cardinality(Happened("ask", v))])
             c == Cardinality(signups)
             d == Cardinality(buyers)
             e == SumFunction([v \in buyers |-> RevenueOf(UserOf(v))])
             r == CampaignRow(g, from, to)
  <1>1. r = [sessions |-> a, messages |-> b, signups |-> c, purchases |-> d, revenue |-> e]
    BY DEF CampaignRow
  <1> HIDE DEF a, b, c, d, e, r
  <1>2. r.sessions = a /\ r.messages = b /\ r.signups = c /\ r.purchases = d
    BY <1>1
  <1>3. QED
    BY <1>2 DEF a, b, c, d, r

LEMMA PathRowIs ==
  ASSUME NEW p, NEW from, NEW to
  PROVE  LET those == OnPath(p, from, to)
             r == PathRow(p, from, to)
         IN  /\ r.sessions = Cardinality(those)
             /\ r.wrote = Cardinality({v \in those : Migrated(v) /\ AfterSignup(v) # {}})
             /\ r.bought = Cardinality({v \in those : Migrated(v) /\ PaymentsOf(UserOf(v)) # {}})
  <1> DEFINE those == OnPath(p, from, to)
             a == Cardinality(those)
             b == Cardinality({v \in those : Migrated(v) /\ AfterSignup(v) # {}})
             c == Cardinality({v \in those : Migrated(v) /\ PaymentsOf(UserOf(v)) # {}})
             r == PathRow(p, from, to)
  <1>1. r = [sessions |-> a, wrote |-> b, bought |-> c]
    BY DEF PathRow
  <1> HIDE DEF a, b, c, r
  <1>2. r.sessions = a /\ r.wrote = b /\ r.bought = c
    BY <1>1
  <1>3. QED
    BY <1>2 DEF a, b, c, r

\* The counts of sessions by campaign, and of the signed-up ones by path.
LEMMA CampaignCounts ==
  ASSUME NEW from, NEW to, NEW S \in SUBSET SessionsIn(from, to),
         NEW f, DOMAIN f = Groups(from, to),
         \A g \in Groups(from, to) : f[g] = Cardinality({v \in S : UtmOf(v) = g})
  PROVE  SumFunction(f) = Cardinality(S)
  <1> DEFINE K == [v \in S |-> UtmOf(v)]
  <1>1. IsFiniteSet(S) /\ IsFiniteSet(DOMAIN f)
    BY SessionsFinite
  <1>2. \A v \in S : K[v] \in DOMAIN f
    BY DEF Groups
  <1>3. \A g \in DOMAIN f : f[g] = Cardinality({v \in S : K[v] = g})
    <2>1. \A g : {v \in S : UtmOf(v) = g} = {v \in S : K[v] = g}
      OBVIOUS
    <2> HIDE DEF K
    <2>2. QED
      BY <2>1
  <1> HIDE DEF K
  <1>4. QED
    BY <1>1, <1>2, <1>3, CountsByKey

\* The paths of sessions that signed up.
SignedUp == {"early", "limitedZone", "forced"}

LEMMA PathCounts ==
  ASSUME NEW from, NEW to, NEW S \in SUBSET SessionsIn(from, to), \A v \in S : PathOf(v) \in SignedUp,
         NEW f, DOMAIN f = SignedUp,
         \A p \in SignedUp : f[p] = Cardinality({v \in S : PathOf(v) = p})
  PROVE  SumFunction(f) = Cardinality(S)
  <1> DEFINE K == [v \in S |-> PathOf(v)]
  <1>1. IsFiniteSet(S) /\ IsFiniteSet(DOMAIN f)
    <2>1. IsFiniteSet({"early"} \cup {"limitedZone"} \cup {"forced"})
      BY FS_Singleton, FS_Union
    <2>2. SignedUp = {"early"} \cup {"limitedZone"} \cup {"forced"}
      BY DEF SignedUp
    <2>3. QED
      BY <2>1, <2>2, SessionsFinite
  <1>2. \A v \in S : K[v] \in DOMAIN f
    OBVIOUS
  <1>3. \A p \in DOMAIN f : f[p] = Cardinality({v \in S : K[v] = p})
    <2>1. \A p : {v \in S : PathOf(v) = p} = {v \in S : K[v] = p}
      OBVIOUS
    <2> HIDE DEF K
    <2>2. QED
      BY <2>1
  <1> HIDE DEF K
  <1>4. QED
    BY <1>1, <1>2, <1>3, CountsByKey

\* The paths of the sessions that signed up are those of the three signed-up ones.
LEMMA PathsOfSignedUp ==
  \A v : /\ Migrated(v) <=> PathOf(v) \in SignedUp
         /\ HasEvent(v, "HARD_BLOCKED") <=> PathOf(v) \in {"forced", "blockedLost"}
  BY DEF PathOf, SignedUp

\* The campaigns add up to the sessions, the signups and the purchases of a window.
LEMMA CampaignsAddUp ==
  ASSUME NEW from, NEW to
  PROVE  /\ Overview(from, to).sessions = Totalled(LAMBDA g : g.sessions, from, to)
         /\ Overview(from, to).converted = Totalled(LAMBDA g : g.signups, from, to)
         /\ FirstPurchase(from, to) = Totalled(LAMBDA g : g.purchases, from, to)
  <1> DEFINE G == Groups(from, to)
             S == SessionsIn(from, to)
             M == {v \in S : Migrated(v)}
             B == {v \in S : Migrated(v) /\ PaymentsOf(UserOf(v)) # {}}
             f == [g \in G |-> CampaignRow(g, from, to).sessions]
             h == [g \in G |-> CampaignRow(g, from, to).signups]
             k == [g \in G |-> CampaignRow(g, from, to).purchases]
  <1>1. /\ Overview(from, to).sessions = Cardinality(S) /\ Overview(from, to).converted = Cardinality(M)
        /\ FirstPurchase(from, to) = Cardinality(B)
    BY DEF Overview, FirstPurchase
  <1>2. /\ Totalled(LAMBDA g : g.sessions, from, to) = SumFunction(f)
        /\ Totalled(LAMBDA g : g.signups, from, to) = SumFunction(h)
        /\ Totalled(LAMBDA g : g.purchases, from, to) = SumFunction(k)
    BY DEF Totalled
  <1>3. ASSUME NEW g \in G
        PROVE  /\ f[g] = Cardinality({v \in S : UtmOf(v) = g})
               /\ h[g] = Cardinality({v \in M : UtmOf(v) = g})
               /\ k[g] = Cardinality({v \in B : UtmOf(v) = g})
    <2> DEFINE those == {v \in S : UtmOf(v) = g}
    <2>1. {v \in those : Migrated(v)} = {v \in M : UtmOf(v) = g}
      OBVIOUS
    <2>2. {v \in {x \in those : Migrated(x)} : PaymentsOf(UserOf(v)) # {}} = {v \in B : UtmOf(v) = g}
      OBVIOUS
    <2>3. /\ CampaignRow(g, from, to).sessions = Cardinality(those)
          /\ CampaignRow(g, from, to).signups = Cardinality({v \in those : Migrated(v)})
          /\ CampaignRow(g, from, to).purchases
               = Cardinality({v \in {x \in those : Migrated(x)} : PaymentsOf(UserOf(v)) # {}})
      BY CampaignRowIs
    <2>4. f[g] = CampaignRow(g, from, to).sessions /\ h[g] = CampaignRow(g, from, to).signups
          /\ k[g] = CampaignRow(g, from, to).purchases
      OBVIOUS
    <2> HIDE DEF f, h, k, M, B, S
    <2>5. QED
      BY <2>1, <2>2, <2>3, <2>4
  <1>4. M \in SUBSET S /\ B \in SUBSET S /\ S \in SUBSET S /\ DOMAIN f = G /\ DOMAIN h = G /\ DOMAIN k = G
    OBVIOUS
  <1> HIDE DEF f, h, k, M, B
  <1>5. SumFunction(f) = Cardinality(S)
    <2>1. \A g \in Groups(from, to) : f[g] = Cardinality({v \in S : UtmOf(v) = g})
      BY <1>3
    <2>2. DOMAIN f = Groups(from, to) /\ S \in SUBSET SessionsIn(from, to)
      BY <1>4
    <2> HIDE DEF S, G
    <2>3. QED
      BY <2>1, <2>2, CampaignCounts
  <1>6. SumFunction(h) = Cardinality(M)
    <2>1. \A g \in Groups(from, to) : h[g] = Cardinality({v \in M : UtmOf(v) = g})
      BY <1>3
    <2>2. DOMAIN h = Groups(from, to) /\ M \in SUBSET SessionsIn(from, to)
      BY <1>4
    <2> HIDE DEF S, G
    <2>3. QED
      BY <2>1, <2>2, CampaignCounts
  <1>7. SumFunction(k) = Cardinality(B)
    <2>1. \A g \in Groups(from, to) : k[g] = Cardinality({v \in B : UtmOf(v) = g})
      BY <1>3
    <2>2. DOMAIN k = Groups(from, to) /\ B \in SUBSET SessionsIn(from, to)
      BY <1>4
    <2> HIDE DEF S, G
    <2>3. QED
      BY <2>1, <2>2, CampaignCounts
  <1>8. QED
    BY <1>1, <1>2, <1>5, <1>6, <1>7

\* So do the paths, and to the stages after the signup.
LEMMA PathsAddUp ==
  ASSUME NEW from, NEW to
  PROVE  /\ Overview(from, to).converted = SumFunction([p \in SignedUp |-> PathRow(p, from, to).sessions])
         /\ FirstPurchase(from, to) = SumFunction([p \in SignedUp |-> PathRow(p, from, to).bought])
         /\ FirstMessageAfterSignup(from, to) = SumFunction([p \in SignedUp |-> PathRow(p, from, to).wrote])
  <1> DEFINE S == SessionsIn(from, to)
             M == {v \in S : Migrated(v)}
             B == {v \in S : Migrated(v) /\ PaymentsOf(UserOf(v)) # {}}
             W == {v \in S : Migrated(v) /\ AfterSignup(v) # {}}
             f == [p \in SignedUp |-> PathRow(p, from, to).sessions]
             h == [p \in SignedUp |-> PathRow(p, from, to).bought]
             k == [p \in SignedUp |-> PathRow(p, from, to).wrote]
  <1>1. /\ Overview(from, to).converted = Cardinality(M) /\ FirstPurchase(from, to) = Cardinality(B)
        /\ FirstMessageAfterSignup(from, to) = Cardinality(W)
    BY DEF Overview, FirstPurchase, FirstMessageAfterSignup
  <1>2. ASSUME NEW p \in SignedUp
        PROVE  /\ f[p] = Cardinality({v \in M : PathOf(v) = p})
               /\ h[p] = Cardinality({v \in B : PathOf(v) = p})
               /\ k[p] = Cardinality({v \in W : PathOf(v) = p})
    <2> DEFINE those == OnPath(p, from, to)
    <2>1. those = {v \in M : PathOf(v) = p}
      BY PathsOfSignedUp DEF OnPath
    <2>2. {v \in those : Migrated(v) /\ AfterSignup(v) # {}} = {v \in W : PathOf(v) = p}
      BY DEF OnPath
    <2>3. {v \in those : Migrated(v) /\ PaymentsOf(UserOf(v)) # {}} = {v \in B : PathOf(v) = p}
      BY DEF OnPath
    <2>4. /\ PathRow(p, from, to).sessions = Cardinality(those)
          /\ PathRow(p, from, to).wrote = Cardinality({v \in those : Migrated(v) /\ AfterSignup(v) # {}})
          /\ PathRow(p, from, to).bought = Cardinality({v \in those : Migrated(v) /\ PaymentsOf(UserOf(v)) # {}})
      BY PathRowIs
    <2>5. f[p] = PathRow(p, from, to).sessions /\ h[p] = PathRow(p, from, to).bought /\ k[p] = PathRow(p, from, to).wrote
      OBVIOUS
    <2> HIDE DEF f, h, k, M, B, W, S
    <2>6. QED
      BY <2>1, <2>2, <2>3, <2>4, <2>5
  <1>3. /\ M \in SUBSET S /\ B \in SUBSET S /\ W \in SUBSET S
        /\ DOMAIN f = SignedUp /\ DOMAIN h = SignedUp /\ DOMAIN k = SignedUp
    OBVIOUS
  <1>4. (\A v \in M : PathOf(v) \in SignedUp) /\ (\A v \in B : PathOf(v) \in SignedUp) /\ (\A v \in W : PathOf(v) \in SignedUp)
    BY PathsOfSignedUp
  <1> HIDE DEF f, h, k, M, B, W
  <1>5. SumFunction(f) = Cardinality(M) /\ SumFunction(h) = Cardinality(B) /\ SumFunction(k) = Cardinality(W)
    BY <1>2, <1>3, <1>4, PathCounts
  <1>6. QED
    BY <1>1, <1>5 DEF f, h, k

\* The messages of a window from the first entry on are of visitors whose sessions are in it.
LEMMA MessagesAddUp ==
  ASSUME FunnelInv, NEW to \in 1..Len(log)
  PROVE  Overview(1, to).messages =< Totalled(LAMBDA g : g.messages, 1, to)
  <1> DEFINE S == SessionsIn(1, to)
             G == Groups(1, to)
             A == {i \in 1..to : i \in DOMAIN log /\ log[i].kind = "ask"}
             B == {i \in DOMAIN log : log[i].kind = "ask" /\ log[i].who \in S}
             h == [v \in S |-> Cardinality(Happened("ask", v))]
             K == [v \in S |-> UtmOf(v)]
             f == [g \in G |-> CampaignRow(g, 1, to).messages]
  <1>1. Overview(1, to).messages = Cardinality(A) /\ Totalled(LAMBDA g : g.messages, 1, to) = SumFunction(f)
    BY DEF Overview, Totalled
  <1>2. IsFiniteSet(S) /\ IsFiniteSet(G)
    BY SessionsFinite
  <1>3. IsFiniteSet(B) /\ IsFiniteSet(A) /\ Cardinality(A) \in Nat /\ Cardinality(B) \in Nat
    <2>1. A \in SUBSET (DOMAIN log) /\ B \in SUBSET (DOMAIN log)
      OBVIOUS
    <2> HIDE DEF A, B
    <2>2. QED
      BY <2>1, LogFinite
  <1>4. A \subseteq B
    <2> SUFFICES ASSUME NEW i \in A PROVE log[i].who \in S
      OBVIOUS
    <2>1. i \in DOMAIN log /\ log[i].kind = "ask" /\ i =< to /\ i \in Int /\ to \in Int
      BY FunnelInv DEF FunnelInv, FunnelTypes
    <2>2. log[i].who \in Visitor
      BY <2>1 DEF FunnelInv, FunnelTypes, OfVisitors
    <2>3. PICK j \in DOMAIN log : j < i /\ log[j].kind = "SESSION_CREATED" /\ log[j].who = log[i].who
      BY <2>1 DEF FunnelInv, BegunBefore, OfVisitors
    <2>4. DOMAIN log = 1..Len(log) /\ Len(log) \in Nat
      BY DEF FunnelInv, FunnelTypes
    <2>5. 1 =< j /\ j =< to
      BY <2>1, <2>3, <2>4
    <2>6. QED
      BY <2>2, <2>3, <2>5 DEF SessionsIn, CreatedIn, Happened
  <1>5. Cardinality(A) =< Cardinality(B)
    <2> HIDE DEF A, B
    <2>1. QED
      BY <1>3, <1>4, FS_Subset
  <1>6. SumFunction(h) = Cardinality(B) /\ \A v \in S : h[v] \in Int
    <2> DEFINE L == [i \in B |-> log[i].who]
    <2>1. \A i \in B : L[i] \in S
      OBVIOUS
    <2>2. ASSUME NEW v \in S PROVE h[v] = Cardinality({i \in B : L[i] = v}) /\ h[v] \in Int
      <3>1. {i \in B : L[i] = v} = Happened("ask", v)
        BY DEF Happened
      <3>2. h[v] = Cardinality(Happened("ask", v))
        OBVIOUS
      <3>3. Cardinality(Happened("ask", v)) \in Nat
        <4>1. Happened("ask", v) \in SUBSET (DOMAIN log)
          BY DEF Happened
        <4>2. QED
          BY <4>1, LogFinite
      <3>4. Cardinality(Happened("ask", v)) \in Int
        BY <3>3
      <3> HIDE DEF h, L, B
      <3>5. QED
        BY <3>1, <3>2, <3>4
    <2>3. DOMAIN h = S
      OBVIOUS
    <2> HIDE DEF h, L, B, S
    <2>4. SumFunction(h) = Cardinality(B)
      BY <1>2, <1>3, <2>1, <2>2, <2>3, CountsByKey
    <2>5. QED
      BY <2>2, <2>4
  <1>7. ASSUME NEW g \in G PROVE f[g] = SumFunction([v \in {x \in S : K[x] = g} |-> h[v]])
    <2> DEFINE those == {v \in S : UtmOf(v) = g}
    <2>1. CampaignRow(g, 1, to).messages = SumFunction([v \in those |-> Cardinality(Happened("ask", v))])
      BY CampaignRowIs, Zenon
    <2>2. those = {x \in S : K[x] = g}
      OBVIOUS
    <2>3. [v \in those |-> Cardinality(Happened("ask", v))] = [v \in those |-> h[v]]
      OBVIOUS
    <2>4. f[g] = CampaignRow(g, 1, to).messages
      OBVIOUS
    <2> HIDE DEF those, f, h, K, S
    <2>5. QED
      BY <2>1, <2>2, <2>3, <2>4
  <1>8. DOMAIN f = {K[v] : v \in S} /\ DOMAIN f = G /\ DOMAIN h = S
    BY DEF Groups
  <1> HIDE DEF f, h, K, S, G, A, B
  <1>9. SumFunction(f) = SumFunction(h)
    BY <1>2, <1>6, <1>7, <1>8, TableGathers
  <1>10. QED
    BY <1>1, <1>5, <1>6, <1>9

LEMMA ReportsOfTheTrialAgree == FunnelInv => ReportsAgree
  <1> SUFFICES ASSUME FunnelInv, NEW w \in Window
               PROVE  LET from == w[1]
                          to == w[2]
                          o == Overview(from, to)
                      IN  /\ o.sessions = SumFunction([day \in Timeseries(from, to) |-> day.sessions])
                          /\ o.messages >= SumFunction([day \in Timeseries(from, to) |-> day.messages])
                          /\ o.sessions = Totalled(LAMBDA g : g.sessions, from, to)
                          /\ o.converted = Totalled(LAMBDA g : g.signups, from, to)
                          /\ o.converted = SumFunction([p \in SignedUp |-> PathRow(p, from, to).sessions])
                          /\ FirstPurchase(from, to) = SumFunction([p \in SignedUp |-> PathRow(p, from, to).bought])
                          /\ FirstPurchase(from, to) = Totalled(LAMBDA g : g.purchases, from, to)
                          /\ FirstMessageAfterSignup(from, to)
                               = SumFunction([p \in SignedUp |-> PathRow(p, from, to).wrote])
                          /\ from = 1 => o.messages =< Totalled(LAMBDA g : g.messages, from, to)
    BY DEF ReportsAgree, SignedUp
  <1> DEFINE from == w[1]
             to == w[2]
  <1>1. from \in 1..Len(log) /\ to \in 1..Len(log) /\ from \in Int /\ to \in Int
    BY DEF Window, FunnelInv, FunnelTypes
  <1> HIDE DEF from, to
  <1>2. /\ Overview(from, to).sessions = SumFunction([day \in Timeseries(from, to) |-> day.sessions])
        /\ Overview(from, to).messages >= SumFunction([day \in Timeseries(from, to) |-> day.messages])
    BY <1>1, TimesAddUp
  <1>3. /\ Overview(from, to).sessions = Totalled(LAMBDA g : g.sessions, from, to)
        /\ Overview(from, to).converted = Totalled(LAMBDA g : g.signups, from, to)
        /\ FirstPurchase(from, to) = Totalled(LAMBDA g : g.purchases, from, to)
    BY CampaignsAddUp
  <1>4. /\ Overview(from, to).converted = SumFunction([p \in SignedUp |-> PathRow(p, from, to).sessions])
        /\ FirstPurchase(from, to) = SumFunction([p \in SignedUp |-> PathRow(p, from, to).bought])
        /\ FirstMessageAfterSignup(from, to) = SumFunction([p \in SignedUp |-> PathRow(p, from, to).wrote])
    BY PathsAddUp
  <1>5. from = 1 => Overview(from, to).messages =< Totalled(LAMBDA g : g.messages, from, to)
    BY <1>1, MessagesAddUp
  <1>6. QED
    BY <1>2, <1>3, <1>4, <1>5 DEF from, to

\* The sessions behind the block.
LEMMA BlockedArePushed == FunnelInv => BlockedArePushedOrLost
  <1> SUFFICES ASSUME FunnelInv, NEW w \in Window
               PROVE  /\ OnPath("forced", w[1], w[2]) \union OnPath("blockedLost", w[1], w[2])
                           = {v \in SessionsIn(w[1], w[2]) : HasEvent(v, "HARD_BLOCKED")}
                      /\ w = <<1, Len(log)>> => EventStage(w[1], w[2], "HARD_BLOCKED")
                           = PathRow("forced", w[1], w[2]).sessions + PathRow("blockedLost", w[1], w[2]).sessions
    BY DEF BlockedArePushedOrLost
  <1> DEFINE from == w[1]
             to == w[2]
             F == OnPath("forced", from, to)
             L == OnPath("blockedLost", from, to)
             B == {v \in SessionsIn(from, to) : HasEvent(v, "HARD_BLOCKED")}
  <1>1. F \cup L = B
    BY PathsOfSignedUp DEF OnPath
  <1>2. ASSUME w = <<1, Len(log)>>
        PROVE  EventStage(from, to, "HARD_BLOCKED") = PathRow("forced", from, to).sessions + PathRow("blockedLost", from, to).sessions
    <2>1. from = 1 /\ to = Len(log) /\ Len(log) \in Nat /\ DOMAIN log = 1..Len(log)
      BY <1>2 DEF FunnelInv, FunnelTypes
    <2> DEFINE R == {v \in Visitor : \E i \in Happened("HARD_BLOCKED", v) : from =< i /\ i =< to}
    <2>2. R = B
      <3>1. ASSUME NEW v \in R PROVE v \in B
        <4>1. PICK i \in DOMAIN log : log[i].kind = "HARD_BLOCKED" /\ log[i].who = v
          BY DEF Happened
        <4>2. PICK j \in DOMAIN log : j < i /\ log[j].kind = "SESSION_CREATED" /\ log[j].who = v
          BY <4>1 DEF FunnelInv, BegunBefore, OfVisitors, Stages
        <4>3. from =< j /\ j =< to
          BY <2>1
        <4>4. QED
          BY <4>1, <4>2, <4>3 DEF SessionsIn, CreatedIn, HasEvent, Happened
      <3>2. ASSUME NEW v \in B PROVE v \in R
        <4>1. v \in Visitor
          BY DEF SessionsIn
        <4>2. PICK i \in Happened("HARD_BLOCKED", v) : TRUE
          BY DEF HasEvent
        <4>3. from =< i /\ i =< to
          BY <2>1 DEF Happened
        <4>4. QED
          BY <4>1, <4>3
      <3>3. QED
        BY <3>1, <3>2
    <2>3. EventStage(from, to, "HARD_BLOCKED") = Cardinality(R)
      BY DEF EventStage
    <2>4. F \in SUBSET SessionsIn(from, to) /\ L \in SUBSET SessionsIn(from, to) /\ F \cap L = {}
      BY DEF OnPath
    <2>5. PathRow("forced", from, to).sessions = Cardinality(F) /\ PathRow("blockedLost", from, to).sessions = Cardinality(L)
      <3> HIDE DEF from, to
      <3>1. PathRow("forced", from, to).sessions = Cardinality(OnPath("forced", from, to))
        BY PathRowIs, Zenon
      <3>2. PathRow("blockedLost", from, to).sessions = Cardinality(OnPath("blockedLost", from, to))
        BY PathRowIs, Zenon
      <3>3. QED
        BY <3>1, <3>2
    <2>6. R = F \cup L
      BY <1>1, <2>2
    <2> HIDE DEF F, L, B, R, from, to
    <2>7. IsFiniteSet(F) /\ IsFiniteSet(L) /\ Cardinality(F) \in Nat /\ Cardinality(L) \in Nat
      BY <2>4, SessionsFinite
    <2>8. Cardinality(F \cup L) = Cardinality(F) + Cardinality(L) - Cardinality(F \cap L)
      BY <2>7, FS_Union
    <2>9. Cardinality(F \cap L) = 0
      BY <2>4, FS_EmptySet
    <2>10. Cardinality(R) = Cardinality(F) + Cardinality(L)
      BY <2>7, <2>8, <2>9, <2>6
    <2>11. QED
      BY <2>3, <2>5, <2>10
  <1>3. QED
    BY <1>1, <1>2

\* The first payment is one of the payments, and messages before it are counted.
LEMMA FirstBuyIsFirst ==
  ASSUME FunnelInv, NEW u, PaymentsOf(u) # {}
  PROVE  FirstBuy(u) \in Int
  <1>1. PaymentsOf(u) \subseteq DOMAIN log
    BY DEF PaymentsOf, Happened
  <1>2. PaymentsOf(u) \subseteq Nat
    BY <1>1 DEF FunnelInv, FunnelTypes
  <1>3. \E i \in PaymentsOf(u) : \A j \in PaymentsOf(u) : i =< j
    BY <1>2, LeastNumber
  <1>4. FirstBuy(u) \in PaymentsOf(u)
    BY <1>3 DEF FirstBuy
  <1>5. QED
    BY <1>2, <1>4

LEMMA MessagesBeforePurchase == FunnelInv => PurchaseMessagesCounted
  <1> SUFFICES ASSUME FunnelInv, NEW v \in Purchasers(1, Len(log))
               PROVE  Reported(v) >= Cardinality({i \in Happened("ask", v) : i < FirstBuy(UserOf(v))})
                                     + Cardinality({i \in Happened("write", UserOf(v)) : i < FirstBuy(UserOf(v))})
    BY DEF PurchaseMessagesCounted
  <1> DEFINE u == UserOf(v)
             A == Happened("ask", v)
             P == OwnBeforePurchase(v)
             Q == {i \in A : i < FirstBuy(u)}
             R == {i \in Happened("write", u) : i < FirstBuy(u)}
  <1>1. FirstBuy(u) \in Int
    BY FirstBuyIsFirst DEF Purchasers
  <1>2. /\ A \in SUBSET (DOMAIN log) /\ Q \in SUBSET (DOMAIN log)
        /\ R \in SUBSET (DOMAIN log) /\ P \in SUBSET (DOMAIN log)
    BY DEF Happened, OwnBeforePurchase, MessagesOf
  <1>3. \A i \in DOMAIN log : i \in Int
    BY LogFinite
  <1>4. R \subseteq P /\ Q \subseteq A
    <2>1. ASSUME NEW i \in R PROVE i \in P
      <3>1. i =< FirstBuy(u)
        BY <1>1, <1>2, <1>3
      <3>2. QED
        BY <3>1 DEF OwnBeforePurchase, MessagesOf
    <2>2. QED
      BY <2>1
  <1>5. Reported(v) = Cardinality(A) + Cardinality(P)
    BY DEF Reported
  <1> HIDE DEF A, P, Q, R
  <1>6. /\ IsFiniteSet(A) /\ IsFiniteSet(P) /\ Cardinality(A) \in Nat /\ Cardinality(P) \in Nat
        /\ Cardinality(Q) \in Nat /\ Cardinality(R) \in Nat
    BY <1>2, LogFinite
  <1>7. Cardinality(Q) =< Cardinality(A) /\ Cardinality(R) =< Cardinality(P)
    BY <1>4, <1>6, FS_Subset
  <1>8. Reported(v) >= Cardinality(Q) + Cardinality(R)
    BY <1>5, <1>6, <1>7
  <1>9. QED
    BY <1>8 DEF A, Q, R

(* What the entries of the two tables are, and the order of those of a session. *)
ReportsInv == UsageInv /\ FunnelInv

LEMMA ReportsFollow == ReportsInv => ReportsAddUp
  BY OneCost, Neighbours, LeftOutAreSilent, TablesDiffer, CategoriesFair, AlertFollows,
     ReportsOfTheTrialAgree, BlockedArePushed, MessagesBeforePurchase DEF ReportsInv, ReportsAddUp, UsageReportsAddUp

(* Reports of one window agree with one another and with what they leave out. Of the usage:
   the days and the weeks add up to the cost of the overview, all of DailyUsage; the users
   and the segments to that of its models, all of Message. The two tables are filled apart,
   and their costs, of a range as of the period of a user, differ by what the classifiers
   cost and by messages from before the window that were counted after midnight on the one
   side; on the other by messages whose cost was never counted, after the day's last flush or
   past the end of the window, or of a day in the middle of which it begins. The growth
   compares two periods that share nothing and leave nothing between them; revenue that the
   tables miss is of users and of days without usage; categories and alerts grow with the
   cost. Of the trial: days, campaigns and paths
   add up to the sessions, the signups and the purchases; who was blocked is on one of the
   two paths behind the block; no message before the first purchase is missing.
   (usage-analytics.service.ts, admin.service.ts, token-flush.processor.ts,
   anon-analytics.service.ts) *)
THEOREM ReportsAlwaysAddUp == PlatformSpec => []ReportsAddUp
  <1>1. PlatformInit => ReportsInv
    BY InitDiary, InitFunnel DEF PlatformInit, ReportsInv
  <1>2. ReportsInv /\ [PlatformNext]_platformVars => ReportsInv'
    BY ReportsStep, FunnelStep, NextDiary, NextFunnel DEF ReportsInv
  <1>3. ReportsInv => ReportsAddUp
    BY ReportsFollow
  <1>4. QED
    BY <1>1, <1>2, <1>3, PTL DEF PlatformSpec
=============================================================================
