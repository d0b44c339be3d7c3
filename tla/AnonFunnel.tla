------------------------------ MODULE AnonFunnel ------------------------------
(***************************************************************************)
(* The reports on the trial chat (anon-analytics.service.ts), as functions *)
(* of what has happened.  The tables are kept as one log: the position of  *)
(* an entry is its createdAt.                                              *)
(***************************************************************************)
EXTENDS Integers, Sequences, FiniteSets, FiniteSetsExt, SequencesExt

CONSTANTS
  Visitor,   \* browsers
  Customer,  \* users they sign up as
  Utm,       \* campaigns, as source and name
  Price,     \* amounts of a payment
  MaxLog     \* bound: entries

ASSUME AnonFunnelAssumption ==
  /\ IsFiniteSet(Visitor) /\ IsFiniteSet(Customer) /\ IsFiniteSet(Utm)
  /\ Price \subseteq Nat \ {0} /\ MaxLog \in Nat

NoUtm == "none"

VARIABLE log
funnelVars == <<log>>

AnonFunnelInit == log = <<>>

LogEntry(kind, who) == [kind |-> kind, who |-> who, of |-> NoUtm, amount |-> 0]
Happened(kind, who) == {i \in DOMAIN log : log[i].kind = kind /\ log[i].who = who}
Known(v) == Happened("SESSION_CREATED", v) # {}
SignupOf(v) == {i \in DOMAIN log : log[i].kind = "signup" /\ log[i].who = v}
Migrated(v) == SignupOf(v) # {}
UserOf(v) == log[CHOOSE i \in SignupOf(v) : TRUE].of
MigratedAt(v) == CHOOSE i \in SignupOf(v) : TRUE
Log(e) == Len(log) < MaxLog /\ log' = Append(log, e)

\* initSession writes the campaign once; the event is the session's first.
Visits(v, utm) == ~Known(v) /\ Log([LogEntry("SESSION_CREATED", v) EXCEPT !.of = utm])

\* An anonymous message, also after the signup; and the events of the funnel, each once.
Asks(v) == Known(v) /\ Log(LogEntry("ask", v))
Stages == {"ENTERED_LIMITED_ZONE", "HARD_BLOCKED"}
Reaches(v, stage) ==
  /\ Happened("ask", v) # {} /\ Happened(stage, v) = {}
  /\ Log(LogEntry(stage, v))

\* migrateSessionToUser, as one entry: the copies keep the createdAt of the originals.
SignsUp(v, u) ==
  /\ Known(v) /\ ~Migrated(v)
  /\ Log([LogEntry("signup", v) EXCEPT !.of = u])
IsUser(u) == \E v \in Visitor : Migrated(v) /\ UserOf(v) = u
Writes(u) == IsUser(u) /\ Log(LogEntry("write", u))
Buys(u, amount) == IsUser(u) /\ Log([LogEntry("buy", u) EXCEPT !.amount = amount])

AnonFunnelNext ==
  \/ \E v \in Visitor :
       \/ \E utm \in Utm \union {NoUtm} : Visits(v, utm)
       \/ Asks(v) \/ (\E stage \in Stages : Reaches(v, stage))
       \/ \E u \in Customer : SignsUp(v, u)
  \/ \E u \in Customer : Writes(u) \/ \E amount \in Price : Buys(u, amount)
-----------------------------------------------------------------------------
(* The reports, for the window from..to *)

CreatedIn(v, from, to) == \E i \in Happened("SESSION_CREATED", v) : from =< i /\ i =< to
SessionsIn(from, to) == {v \in Visitor : CreatedIn(v, from, to)}
UtmOf(v) == log[CHOOSE i \in Happened("SESSION_CREATED", v) : TRUE].of

\* A Conversation row's messages: those written as a user, and the copies.
MessagesOf(u) ==
  Happened("write", u)
  \union UNION {{i \in Happened("ask", v) : i < MigratedAt(v)} :
                v \in {x \in Visitor : Migrated(x) /\ UserOf(x) = u}}
PaymentsOf(u) == Happened("buy", u)

Overview(from, to) ==
  [sessions |-> Cardinality(SessionsIn(from, to)),
   messages |-> Cardinality({i \in from..to : i \in DOMAIN log /\ log[i].kind = "ask"}),
   converted |-> Cardinality({v \in SessionsIn(from, to) : Migrated(v)})]

\* timeseries: a day without sessions has no row, and its messages are in none.
DayOf(i) == (i + 1) \div 2    \* two entries a day
Timeseries(from, to) ==
  LET days == {DayOf(i) : i \in {j \in from..to : j \in DOMAIN log /\ log[j].kind = "SESSION_CREATED"}}
      On(d, kind) == Cardinality({j \in from..to : j \in DOMAIN log /\ log[j].kind = kind /\ DayOf(j) = d})
  IN  {[day |-> d, sessions |-> On(d, "SESSION_CREATED"), messages |-> On(d, "ask")] : d \in days}

\* funnel: the events by their own time, the last two stages by the session's.
EventStage(from, to, stage) ==
  Cardinality({v \in Visitor : \E i \in Happened(stage, v) : from =< i /\ i =< to})
AfterSignup(v) == {i \in MessagesOf(UserOf(v)) : i > MigratedAt(v)}
FirstMessageAfterSignup(from, to) ==
  Cardinality({v \in SessionsIn(from, to) : Migrated(v) /\ AfterSignup(v) # {}})
FirstPurchase(from, to) ==
  Cardinality({v \in SessionsIn(from, to) : Migrated(v) /\ PaymentsOf(UserOf(v)) # {}})

\* conversionPaths
Path == {"early", "limitedZone", "forced", "blockedLost", "none"}
HasEvent(v, type) == Happened(type, v) # {}

PathOf(v) ==
  IF HasEvent(v, "HARD_BLOCKED") THEN (IF Migrated(v) THEN "forced" ELSE "blockedLost")
  ELSE IF ~Migrated(v) THEN "none"
  ELSE IF HasEvent(v, "ENTERED_LIMITED_ZONE") THEN "limitedZone" ELSE "early"
OnPath(p, from, to) == {v \in SessionsIn(from, to) : PathOf(v) = p}

PathRow(p, from, to) ==
  LET rows == OnPath(p, from, to)
  IN  [sessions |-> Cardinality(rows),
       wrote |-> Cardinality({v \in rows : Migrated(v) /\ AfterSignup(v) # {}}),
       bought |-> Cardinality({v \in rows : Migrated(v) /\ PaymentsOf(UserOf(v)) # {}})]

\* campaigns: one group for each pair of source and name, those without one included.
RevenueOf(u) == SumFunction([i \in PaymentsOf(u) |-> log[i].amount])

Groups(from, to) == {UtmOf(v) : v \in SessionsIn(from, to)}

CampaignRow(utm, from, to) ==
  LET rows == {v \in SessionsIn(from, to) : UtmOf(v) = utm}
      signups == {v \in rows : Migrated(v)}
      buyers == {v \in signups : PaymentsOf(UserOf(v)) # {}}
  IN  [sessions |-> Cardinality(rows),
       messages |-> SumFunction([v \in rows |-> Cardinality(Happened("ask", v))]),
       signups |-> Cardinality(signups), purchases |-> Cardinality(buyers),
       revenue |-> SumFunction([v \in buyers |-> RevenueOf(UserOf(v))])]

\* conversionQuality: the messages of the browser and of the user up to the first payment.
FirstBuy(u) == CHOOSE i \in PaymentsOf(u) : \A j \in PaymentsOf(u) : i =< j
Purchasers(from, to) == {v \in SessionsIn(from, to) : Migrated(v) /\ PaymentsOf(UserOf(v)) # {}}

OwnBeforePurchase(v) == {i \in MessagesOf(UserOf(v)) : i =< FirstBuy(UserOf(v))}
Reported(v) == Cardinality(Happened("ask", v)) + Cardinality(OwnBeforePurchase(v))
-----------------------------------------------------------------------------
Window == {w \in (1..Len(log)) \X (1..Len(log)) : w[1] =< w[2]}
Totalled(field(_), from, to) ==
  SumFunction([g \in Groups(from, to) |-> field(CampaignRow(g, from, to))])

(* The reports tell the same story: in every window the campaigns add up to the sessions
   and the signups of the overview, and so do the paths to the signups, whose purchases
   are the last stage of the funnel. *)
ReportsAgree ==
  \A w \in Window :
    LET from == w[1]
        to == w[2]
        o == Overview(from, to)
        signedUp == {"early", "limitedZone", "forced"}
    IN  /\ o.sessions = SumFunction([day \in Timeseries(from, to) |-> day.sessions])
        /\ o.messages >= SumFunction([day \in Timeseries(from, to) |-> day.messages])
        /\ o.sessions = Totalled(LAMBDA g : g.sessions, from, to)
        /\ o.converted = Totalled(LAMBDA g : g.signups, from, to)
        /\ o.converted = SumFunction([p \in signedUp |-> PathRow(p, from, to).sessions])
        /\ FirstPurchase(from, to) = SumFunction([p \in signedUp |-> PathRow(p, from, to).bought])
        /\ FirstPurchase(from, to) = Totalled(LAMBDA g : g.purchases, from, to)
        /\ FirstMessageAfterSignup(from, to) = SumFunction([p \in signedUp |-> PathRow(p, from, to).wrote])
        /\ from = 1 => o.messages =< Totalled(LAMBDA g : g.messages, from, to)

(* Nobody who was blocked is reported as having converted before: the two paths behind
   the block are the sessions with the event. *)
BlockedArePushedOrLost ==
  \A w \in Window :
  /\ OnPath("forced", w[1], w[2]) \union OnPath("blockedLost", w[1], w[2])
      = {v \in SessionsIn(w[1], w[2]) : HasEvent(v, "HARD_BLOCKED")}
  /\ w = <<1, Len(log)>> => EventStage(w[1], w[2], "HARD_BLOCKED")
       = PathRow("forced", w[1], w[2]).sessions + PathRow("blockedLost", w[1], w[2]).sessions

(* The messages before the first purchase are never understated: each message of the
   browser and of its user until then is in the number, which counts the copies again. *)
PurchaseMessagesCounted ==
  \A v \in Purchasers(1, Len(log)) :
    LET u == UserOf(v)
        before(is) == {i \in is : i < FirstBuy(u)}
    IN  Reported(v) >= Cardinality(before(Happened("ask", v))) + Cardinality(before(Happened("write", u)))
=============================================================================
