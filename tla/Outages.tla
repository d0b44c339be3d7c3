------------------------------- MODULE Outages -------------------------------
(***************************************************************************)
(* Network outages: network-outage.service.ts. An administrator starts an  *)
(* outage and ends it; the end lengthens every active paid subscription by *)
(* the outage's length in one statement and then closes the row in         *)
(* another. The comment in the code promises exactly the outage's length,  *)
(* which two requests at once or a failure between the statements break.   *)
(***************************************************************************)
EXTENDS Integers, Sequences, FiniteSets, Functions

CONSTANTS
  Operator,    \* requests of administrators that may be in progress at once
  Subscriber,  \* subscriptions that stay active
  PaidPlan,    \* those of them on a plan with a price
  MaxRequests, \* bound: requests
  MaxClock     \* bound: time

ASSUME OutagesAssumption ==
  /\ IsFiniteSet(Operator) /\ IsFiniteSet(Subscriber) /\ PaidPlan \subseteq Subscriber
  /\ MaxRequests \in Nat /\ MaxClock \in Nat

VARIABLES
  outage,      \* NetworkOutage rows: startedAt, endedAt (Open if null), their length
  extended,    \* how much each periodEnd has moved
  operator,    \* requests: what they do next, the outage they have found, endedAt
  clock,       \* the time
  requests,    \* requests so far, for the bound
  startsMet,   \* history: an outage was found absent while another request was to make one
  endsMet      \* history: two requests have found one outage open, or one failed in between

outageVars == <<outage, extended, operator, clock, requests, startsMet, endsMet>>

Open == -1
OperatorIdle == [at |-> "idle", outage |-> 0, endedAt |-> 0]

OutagesInit ==
  /\ outage = <<>> /\ extended = [s \in Subscriber |-> 0]
  /\ operator = [o \in Operator |-> OperatorIdle] /\ clock = 0 /\ requests = 0
  /\ startsMet = FALSE /\ endsMet = FALSE

\* getCurrent: any row without endedAt
Current == {i \in DOMAIN outage : outage[i].endedAt = Open}

\* start, up to the create
MayStart == Current = {}

FindNoneOpen(o) ==
  /\ operator[o].at = "idle" /\ requests < MaxRequests /\ requests' = requests + 1
  /\ MayStart
  /\ operator' = [operator EXCEPT ![o].at = "create"]
  /\ startsMet' = (startsMet \/ \E x \in Operator : operator[x].at = "create")
  /\ UNCHANGED <<outage, extended, clock, endsMet>>

CreateOutage(o) ==
  /\ operator[o].at = "create"
  /\ outage' = Append(outage, [startedAt |-> clock, endedAt |-> Open])
  /\ operator' = [operator EXCEPT ![o] = OperatorIdle]
  /\ UNCHANGED <<extended, clock, requests, startsMet, endsMet>>

\* end: the outage and the time, then the subscriptions, then the row
FindCurrent(o, i) ==
  /\ operator[o].at = "idle" /\ requests < MaxRequests /\ requests' = requests + 1
  /\ i \in Current
  /\ operator' = [operator EXCEPT ![o] = [at |-> "extend", outage |-> i, endedAt |-> clock]]
  /\ endsMet' = (endsMet \/ \E x \in Operator :
                             operator[x].at \in {"extend", "close"} /\ operator[x].outage = i)
  /\ UNCHANGED <<outage, extended, clock, startsMet>>

Duration(o) == operator[o].endedAt - outage[operator[o].outage].startedAt

Extend(o) ==
  /\ operator[o].at = "extend"
  /\ extended' = [s \in Subscriber |-> extended[s] + (IF s \in PaidPlan THEN Duration(o) ELSE 0)]
  /\ operator' = [operator EXCEPT ![o].at = "close"]
  /\ UNCHANGED <<outage, clock, requests, startsMet, endsMet>>

CloseOutage(o) ==
  /\ operator[o].at = "close"
  /\ outage' = [outage EXCEPT ![operator[o].outage].endedAt = operator[o].endedAt]
  /\ operator' = [operator EXCEPT ![o] = OperatorIdle]
  /\ UNCHANGED <<extended, clock, requests, startsMet, endsMet>>

\* The database or the process fails; the outage stays open and may be ended again.
OperatorFails(o) ==
  /\ operator[o].at # "idle"
  /\ operator' = [operator EXCEPT ![o] = OperatorIdle]
  /\ endsMet' = (endsMet \/ operator[o].at = "close")
  /\ UNCHANGED <<outage, extended, clock, requests, startsMet>>

ClockTicks ==
  /\ clock < MaxClock /\ clock' = clock + 1
  /\ UNCHANGED <<outage, extended, operator, requests, startsMet, endsMet>>

OutagesNext ==
  \/ \E o \in Operator :
       \/ FindNoneOpen(o) \/ CreateOutage(o) \/ Extend(o) \/ CloseOutage(o) \/ OperatorFails(o)
       \/ \E i \in DOMAIN outage : FindCurrent(o, i)
  \/ ClockTicks
-----------------------------------------------------------------------------
(* There is one outage at a time, unless two administrators started one together. *)
OneOutageOpen == Cardinality(Current) =< 1 \/ startsMet

(* Whoever pays gets back exactly the time of the outages that have ended, and of the one that
   that is being closed, unless its end was asked for twice at once or failed half-way;
   without two outages at a time no second is given back twice. *)
OutagesMadeUp ==
  LET ended == {i \in DOMAIN outage : outage[i].endedAt # Open}
      closing == {o \in Operator : operator[o].at = "close"}
      given == [i \in ended |-> outage[i].endedAt - outage[i].startedAt]
      total == SumFunction(given) + SumFunction([o \in closing |-> Duration(o)])
  IN  endsMet \/ \A s \in Subscriber : extended[s] = (IF s \in PaidPlan THEN total ELSE 0)
=============================================================================
