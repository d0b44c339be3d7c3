-------------------------------- MODULE Sales --------------------------------
(***************************************************************************)
(* The sales assistant of the public site (sales.service.ts) and what the  *)
(* back office does with its leads (sales-admin.service.ts).  A request    *)
(* is one chat call; each await is a step of its own, and the history of   *)
(* the session is saved after the answer has gone out, awaited by nobody.  *)
(***************************************************************************)
EXTENDS Integers, Sequences, FiniteSets, FiniteSetsExt

CONSTANTS
  Visit,            \* sessionIds of the site's visitors
  SalesCall,        \* chat calls that may be in flight at once
  HourLimit,        \* 30 requests per hour and address
  DiscountMin,      \* discountMinMessages
  Lengths,          \* bound: how many messages a call may carry
  MaxSalesCalls,    \* bound: chat calls
  MaxForms,         \* bound: lead forms and follow-ups
  MaxSalesHours          \* bound: hours and midnights that pass

ASSUME SalesAssumption ==
  /\ IsFiniteSet(Visit) /\ IsFiniteSet(SalesCall) /\ HourLimit \in Nat /\ DiscountMin \in Nat
  /\ Lengths \subseteq Nat \ {0} /\ MaxSalesCalls \in Nat /\ MaxForms \in Nat /\ MaxSalesHours \in Nat

VARIABLES
  limiter,    \* the Redis counter of today's key: its count and whether it has an expiry
  lead,       \* LeadProfile of each session
  session,    \* SalesChatSession.messageCount, 0 while there is no row
  call,       \* chat calls
  saves,      \* saveChatSession calls that have not reached the database
  answered,   \* history: the answers of each session, in order
  offers,     \* history: discounts offered to each session
  texting,    \* sendLeadSms calls: the status each has read, by session
  settled,    \* history: the follow-up an operator last chose for each lead
  spent,      \* for the bounds: chat calls, forms and hours so far
  excused     \* history: what explains the exceptions of the properties

salesVars == <<limiter, lead, session, call, saves, answered, offers, texting, settled, spent, excused>>

Follow == {"NEW", "CONTACTED", "CONVERTED"}
NoText == "none"
FreshLimiter == [count |-> 0, expires |-> FALSE, day |-> 0]
NoLead == [phone |-> FALSE, offered |-> FALSE, status |-> "NEW"]
NoSalesCall == [at |-> "idle", of |-> CHOOSE s \in Visit : TRUE, length |-> 0, count |-> 0, day |-> 0,
           plan |-> FALSE, missed |-> FALSE]

SalesInit ==
  /\ limiter = FreshLimiter /\ lead = [s \in Visit |-> NoLead] /\ session = [s \in Visit |-> 0]
  /\ call = [q \in SalesCall |-> NoSalesCall] /\ saves = {}
  /\ answered = [s \in Visit |-> <<>>] /\ offers = [s \in Visit |-> 0]
  /\ texting = [s \in Visit |-> NoText] /\ settled = [s \in Visit |-> "NEW"]
  /\ spent = [calls |-> 0, forms |-> 0, hours |-> 0]
  /\ excused = [limiter |-> FALSE, offer |-> {}, history |-> {}, status |-> {}]

Doing(q, at) == call[q].at = at
MoveOn(q, at) == call' = [call EXCEPT ![q].at = at]

(* chat: the request is counted under today's key of the address. *)
CountCall(q, s, n) ==
  /\ Doing(q, "idle") /\ spent.calls < MaxSalesCalls
  /\ limiter' = [limiter EXCEPT !.count = @ + 1]
  /\ call' = [call EXCEPT ![q] = [at |-> "counted", of |-> s, length |-> n, count |-> limiter.count + 1,
                                  day |-> limiter.day, plan |-> FALSE, missed |-> FALSE]]
  /\ spent' = [spent EXCEPT !.calls = @ + 1]
  /\ UNCHANGED <<lead, session, saves, answered, offers, texting, settled, excused>>

FirstOfKey(q) == call[q].count = 1

(* The first request of a key gives it an hour; one past the limit is refused. *)
LimitCall(q) ==
  /\ Doing(q, "counted")
  /\ limiter' = [limiter EXCEPT !.expires = @ \/ (FirstOfKey(q) /\ call[q].day = limiter.day)]
  /\ IF call[q].count > HourLimit
       THEN call' = [call EXCEPT ![q] = NoSalesCall]
       ELSE MoveOn(q, "asking")
  /\ UNCHANGED <<lead, session, saves, answered, offers, texting, settled, spent, excused>>

(* generateText answers, naming a plan or not; when it fails nothing of the *)
(* call is recorded.                                                        *)
SalesAnswer(q, plan) ==
  /\ Doing(q, "asking")
  /\ call' = [call EXCEPT ![q].at = "answered", ![q].plan = plan]
  /\ UNCHANGED <<limiter, lead, session, saves, answered, offers, texting, settled, spent, excused>>

SalesModelFails(q) ==
  /\ Doing(q, "asking")
  /\ call' = [call EXCEPT ![q] = NoSalesCall]
  /\ UNCHANGED <<limiter, lead, session, saves, answered, offers, texting, settled, spent, excused>>

Offerable(s) == ~lead[s].phone /\ ~lead[s].offered

(* maybeOfferDiscount up to its findUnique. *)
CheckLead(q) ==
  /\ Doing(q, "answered")
  /\ LET c == call[q] IN
     IF c.length >= DiscountMin /\ ~c.plan /\ Offerable(c.of)
       THEN MoveOn(q, "offering")
       ELSE MoveOn(q, "returning")
  /\ UNCHANGED <<limiter, lead, session, saves, answered, offers, texting, settled, spent, excused>>

(* The upsert that marks the lead; the offer is then in the answer. *)
OfferDiscount(q) ==
  /\ Doing(q, "offering")
  /\ LET s == call[q].of IN
     /\ lead' = [lead EXCEPT ![s].offered = TRUE]
     /\ offers' = [offers EXCEPT ![s] = @ + 1]
     /\ excused' = IF call[q].missed THEN [excused EXCEPT !.offer = @ \cup {s}] ELSE excused
     \* calls of the session that have read the lead do not see this offer
     /\ call' = [p \in SalesCall |->
                   IF p = q THEN [call[q] EXCEPT !.at = "returning"]
                   ELSE IF call[p].of = s /\ call[p].at = "offering" THEN [call[p] EXCEPT !.missed = TRUE]
                   ELSE call[p]]
  /\ UNCHANGED <<limiter, session, saves, answered, texting, settled, spent>>

(* The answer goes out; saveChatSession is left running. *)
ReturnAnswer(q) ==
  /\ Doing(q, "returning")
  /\ LET s == call[q].of
         length == call[q].length + 1
     IN /\ answered' = [answered EXCEPT ![s] = Append(@, length)]
        /\ saves' = saves \cup {[of |-> s, nth |-> Len(answered[s]) + 1, length |-> length]}
  /\ call' = [call EXCEPT ![q] = NoSalesCall]
  /\ UNCHANGED <<limiter, lead, session, offers, texting, settled, spent, excused>>

Overwritten(old, new) == new

(* saveChatSession: the whole history replaces the one saved before. *)
SaveSession(w) ==
  /\ w \in saves /\ saves' = saves \ {w}
  /\ session' = [session EXCEPT ![w.of] = Overwritten(@, w.length)]
  /\ excused' = IF w.nth = Len(answered[w.of]) THEN [excused EXCEPT !.history = @ \ {w.of}]
                ELSE [excused EXCEPT !.history = @ \cup {w.of}]
  /\ UNCHANGED <<limiter, lead, call, answered, offers, texting, settled, spent>>

(* Its failure is swallowed. *)
SaveSessionFails(w) ==
  /\ w \in saves /\ saves' = saves \ {w}
  /\ excused' = [excused EXCEPT !.history = @ \cup {w.of}]
  /\ UNCHANGED <<limiter, lead, session, call, answered, offers, texting, settled, spent>>

Requests == {"unsaid", "yes", "no"}

(* saveLead: a phone number, an answer about the discount, or both. *)
SaveLead(s, phone, asked) ==
  /\ spent.forms < MaxForms /\ spent' = [spent EXCEPT !.forms = @ + 1]
  /\ lead' = [lead EXCEPT ![s].phone = @ \/ phone,
                          ![s].offered = IF asked = "unsaid" THEN @ ELSE asked = "yes"]
  /\ excused' = IF asked = "no" THEN [excused EXCEPT !.offer = @ \cup {s}] ELSE excused
  /\ UNCHANGED <<limiter, session, call, saves, answered, offers, texting, settled>>

(* updateLeadFollowUp. *)
SetFollowUp(s, status) ==
  /\ spent.forms < MaxForms /\ spent' = [spent EXCEPT !.forms = @ + 1]
  /\ lead' = [lead EXCEPT ![s].status = status]
  /\ settled' = [settled EXCEPT ![s] = status]
  /\ excused' = [excused EXCEPT !.status = IF texting[s] # NoText THEN @ \cup {s} ELSE @ \ {s}]
  /\ UNCHANGED <<limiter, session, call, saves, answered, offers, texting>>

(* sendLeadSms reads the lead and texts it ... *)
TextLead(s) ==
  /\ texting[s] = NoText /\ lead[s].phone
  /\ spent.forms < MaxForms /\ spent' = [spent EXCEPT !.forms = @ + 1]
  /\ texting' = [texting EXCEPT ![s] = lead[s].status]
  /\ UNCHANGED <<limiter, lead, session, call, saves, answered, offers, settled, excused>>

Contacted(status) == IF status = "NEW" THEN "CONTACTED" ELSE status

(* ... and writes a status computed from the one it read. *)
TextSent(s) ==
  /\ texting[s] # NoText
  /\ lead' = [lead EXCEPT ![s].status = Contacted(texting[s])]
  /\ texting' = [texting EXCEPT ![s] = NoText]
  /\ UNCHANGED <<limiter, session, call, saves, answered, offers, settled, spent, excused>>

(* The text message fails: the status stays. *)
TextFails(s) ==
  /\ texting[s] # NoText
  /\ texting' = [texting EXCEPT ![s] = NoText]
  /\ UNCHANGED <<limiter, lead, session, call, saves, answered, offers, settled, spent, excused>>

(* The key expires, if it has an expiry. *)
LimiterExpires ==
  /\ limiter.expires /\ spent.hours < MaxSalesHours
  /\ limiter' = [limiter EXCEPT !.count = 0, !.expires = FALSE]
  /\ spent' = [spent EXCEPT !.hours = @ + 1]
  /\ UNCHANGED <<lead, session, call, saves, answered, offers, texting, settled, excused>>

(* Midnight in Tehran: the key of the address changes. *)
SalesMidnight ==
  /\ spent.hours < MaxSalesHours /\ spent' = [spent EXCEPT !.hours = @ + 1]
  /\ limiter' = [FreshLimiter EXCEPT !.day = limiter.day + 1]
  /\ excused' = [excused EXCEPT !.limiter = FALSE]
  /\ UNCHANGED <<lead, session, call, saves, answered, offers, texting, settled>>

(* The process dies in the middle of a call. *)
SalesDies(q) ==
  /\ ~Doing(q, "idle")
  /\ excused' = [excused EXCEPT !.limiter = @ \/ (Doing(q, "counted") /\ call[q].count = 1
                                                     /\ call[q].day = limiter.day)]
  /\ call' = [call EXCEPT ![q] = NoSalesCall]
  /\ UNCHANGED <<limiter, lead, session, saves, answered, offers, texting, settled, spent>>

SalesNext ==
  \/ \E q \in SalesCall, s \in Visit, n \in Lengths : CountCall(q, s, n)
  \/ \E q \in SalesCall :
       \/ LimitCall(q) \/ SalesModelFails(q) \/ CheckLead(q) \/ OfferDiscount(q) \/ ReturnAnswer(q)
       \/ SalesDies(q)
       \/ \E plan \in BOOLEAN : SalesAnswer(q, plan)
  \/ \E w \in saves : SaveSession(w) \/ SaveSessionFails(w)
  \/ \E s \in Visit :
       \/ \E phone \in BOOLEAN, asked \in Requests : SaveLead(s, phone, asked)
       \/ \E status \in Follow : SetFollowUp(s, status)
       \/ TextLead(s) \/ TextSent(s) \/ TextFails(s)
  \/ LimiterExpires \/ SalesMidnight

(***************************************************************************)
(* Properties                                                              *)
(***************************************************************************)

(* A counter that refuses visitors goes away: once a request has been      *)
(* counted the key has an expiry, unless the request that was to set it is *)
(* on its way or died between the two Redis commands of chat.              *)
LimiterGoesAway ==
  limiter.count > 0 => \/ limiter.expires \/ excused.limiter
                       \/ \E q \in SalesCall : /\ Doing(q, "counted") /\ call[q].count = 1
                                               /\ call[q].day = limiter.day

(* A visitor is offered the discount once, unless two of its requests had  *)
(* both read the lead (maybeOfferDiscount checks and then writes) or the   *)
(* lead form has taken the mark away (discountRequested false).            *)
OfferedOnceUnlessTogether ==
  \A s \in Visit : offers[s] > 1 => s \in excused.offer

(* The history the back office sees is the one of the last answer once no  *)
(* save is on its way, unless saves of the session were lost or overtook   *)
(* each other: saveChatSession overwrites and nobody waits for it.         *)
HistoryIsLatest ==
  \A s \in Visit : (answered[s] # <<>> /\ \A w \in saves : w.of # s)
                     => (session[s] = answered[s][Len(answered[s])] \/ s \in excused.history)

(* The follow-up an operator chose stays, or moves from NEW to CONTACTED   *)
(* by a text message, unless it was chosen while a text message was on its *)
(* way: sendLeadSms writes back the status it read.                        *)
FollowUpsKept ==
  \A s \in Visit : \/ lead[s].status = settled[s] \/ s \in excused.status
                   \/ settled[s] = "NEW" /\ lead[s].status = "CONTACTED"
=============================================================================
