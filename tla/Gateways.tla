------------------------------- MODULE Gateways -------------------------------
(***************************************************************************)
(* The payment gateways behind payments.service.ts: which of them an order *)
(* goes to (payment-gateway.registry.ts) and what the answers of each mean *)
(* (zarinpal, vandar and zibal.gateway.ts).  A verification changes the    *)
(* order at the gateway before its answer is read, and the answer may not  *)
(* arrive; a restart may bring another PAYMENT_GATEWAYS and other keys     *)
(* while orders are open.  Amounts, texts and addresses are left out.      *)
(***************************************************************************)
EXTENDS Integers, FiniteSets

CONSTANTS
  PayOrder,       \* payments
  Verification,   \* verifications that may be in progress at once
  MaxVerifyCalls, \* bound: verifications
  MaxReboots      \* bound: restarts with another configuration

ASSUME GatewaysAssumption ==
  /\ IsFiniteSet(PayOrder) /\ IsFiniteSet(Verification)
  /\ MaxVerifyCalls \in Nat /\ MaxReboots \in Nat

VARIABLES
  config,       \* the gateways of PAYMENT_GATEWAYS, and those whose key is set
  payOrder,     \* orders: the gateway of the Payment row, and the order's state there
  verification, \* verifications: the order, the HTTP status and the code on their way back
  verifyCalls, reboots, \* so far, for the bounds
  yes,          \* history: orders a verification said yes to
  denied        \* history: paid orders a verification said no to, by an answer with HTTP status ok

gatewayVars == <<config, payOrder, verification, verifyCalls, reboots, yes, denied>>

Provider == {"ZARINPAL", "VANDAR", "ZIBAL"}
Unplaced == [by |-> "none", at |-> "none", repeated |-> FALSE, unkeyed |-> FALSE]
VerificationIdle == [of |-> {}, code |-> 0, ok |-> TRUE, paid |-> FALSE]

GatewaysInit ==
  /\ config = [enabled |-> Provider, keys |-> Provider]
  /\ payOrder = [o \in PayOrder |-> Unplaced]
  /\ verification = [v \in Verification |-> VerificationIdle]
  /\ verifyCalls = 0 /\ reboots = 0 /\ yes = {} /\ denied = {}

\* onModuleInit: an enabled gateway has its key (Zibal's test mode is one), at least one is enabled.
Reboot(enabled, keys) ==
  /\ reboots < MaxReboots /\ reboots' = reboots + 1
  /\ enabled # {} /\ enabled \subseteq keys
  /\ config' = [enabled |-> enabled, keys |-> keys]
  /\ UNCHANGED <<payOrder, verification, verifyCalls, yes, denied>>

\* resolve: the only gateway, whatever was asked for, or the one asked for if it is enabled
Resolve(requested) ==
  IF Cardinality(config.enabled) = 1 THEN config.enabled ELSE {requested} \intersect config.enabled

Place(o, g) == payOrder[o] = Unplaced /\ payOrder' = [payOrder EXCEPT ![o].by = g, ![o].at = "open"]

\* createPayment of each: code 100, status 1, result 100; anything else opens nothing.
CreateZarinpal(o) == Place(o, "ZARINPAL")
CreateVandar(o) == Place(o, "VANDAR")
CreateZibal(o) == Place(o, "ZIBAL")

CreatePayment(o, requested) ==
  /\ \/ "ZARINPAL" \in Resolve(requested) /\ CreateZarinpal(o)
     \/ "VANDAR" \in Resolve(requested) /\ CreateVandar(o)
     \/ "ZIBAL" \in Resolve(requested) /\ CreateZibal(o)
  /\ UNCHANGED <<config, verification, verifyCalls, reboots, yes, denied>>

\* The payer pays at the gateway.
PayAtGateway(o) ==
  /\ payOrder[o].at = "open"
  /\ payOrder' = [payOrder EXCEPT ![o].at = "paid"]
  /\ UNCHANGED <<config, verification, verifyCalls, reboots, yes, denied>>
-----------------------------------------------------------------------------
(* verifyPayment *)

\* byName: the gateway of the row, enabled or not
ByName(g) == {g} \intersect Provider

\* What the gateways answer: to the first verification of a paid order, to another one, and to
\* any they refuse. Vandar's answer to a second verification is not known here.
Codes(o) ==
  IF payOrder[o].by \notin config.keys THEN {-1}
  ELSE CASE payOrder[o].at = "paid" -> {IF payOrder[o].by = "VANDAR" THEN 1 ELSE 100}
         [] payOrder[o].at = "verified" ->
              (CASE payOrder[o].by = "ZARINPAL" -> {101} [] payOrder[o].by = "ZIBAL" -> {201}
                 [] OTHER -> {1, -1})
         [] OTHER -> {-1}

SendVerification(v, o) ==
  /\ verification[v].of = {} /\ ByName(payOrder[o].by) # {}
  /\ verifyCalls < MaxVerifyCalls /\ verifyCalls' = verifyCalls + 1
  /\ \E code \in Codes(o), ok \in BOOLEAN :
       verification' = [verification EXCEPT ![v] =
         [of |-> {o}, code |-> code, ok |-> ok, paid |-> payOrder[o].at \in {"paid", "verified"}]]
  /\ payOrder' = IF payOrder[o].by \notin config.keys THEN [payOrder EXCEPT ![o].unkeyed = TRUE]
                 ELSE [payOrder EXCEPT ![o].at = IF @ = "paid" THEN "verified" ELSE @,
                                       ![o].repeated = @ \/ payOrder[o].at = "verified"]
  /\ UNCHANGED <<config, reboots, yes, denied>>

\* What each class takes for a yes.
ZarinpalVerifies_First(x) == x.ok /\ x.code = 100
ZarinpalVerifies(x) == x.ok /\ x.code \in {100, 101}
VandarVerifies(x) == x.ok /\ x.code = 1
ZibalVerifies(x) == x.ok /\ x.code \in {100, 201}

Verifies(g, x) ==
  CASE g = "ZARINPAL" -> ZarinpalVerifies(x) [] g = "VANDAR" -> VandarVerifies(x)
    [] g = "ZIBAL" -> ZibalVerifies(x)

ReadVerification(v, o) ==
  LET x == verification[v]
      success == Verifies(payOrder[o].by, x)
  IN  /\ o \in x.of
      /\ yes' = IF success THEN yes \union {o} ELSE yes
      /\ denied' = IF ~success /\ x.paid /\ x.ok THEN denied \union {o} ELSE denied
      /\ verification' = [verification EXCEPT ![v] = VerificationIdle]
      /\ UNCHANGED <<config, payOrder, verifyCalls, reboots>>

\* The answer does not arrive, and the caller has an exception.
LoseAnswer(v) ==
  /\ verification[v].of # {}
  /\ verification' = [verification EXCEPT ![v] = VerificationIdle]
  /\ UNCHANGED <<config, payOrder, verifyCalls, reboots, yes, denied>>

GatewaysNext ==
  \/ \E enabled, keys \in SUBSET Provider : Reboot(enabled, keys)
  \/ \E o \in PayOrder :
       \/ \E g \in Provider : CreatePayment(o, g)
       \/ PayAtGateway(o)
       \/ \E v \in Verification : SendVerification(v, o) \/ ReadVerification(v, o)
  \/ \E v \in Verification : LoseAnswer(v)
-----------------------------------------------------------------------------
(* A verification says yes only to an order that has been paid. *)
YesOnlyIfPaid == \A o \in yes : payOrder[o].at = "verified"

(* A paid order whose verification is repeated, because the callback came twice or the first
   answer was lost, is not denied; only a second verification at Vandar may be, or one after
   a restart that left out the key of a gateway with open orders. *)
RepeatsAreNotDenied ==
  \A o \in denied :
    payOrder[o].unkeyed \/ (payOrder[o].by = "VANDAR" /\ payOrder[o].repeated)

(* A verification tells what happened at the gateway: yes to what was paid and to nothing
   else, the second time too, but for the exceptions of the parts. *)
VerificationsAreTrue == YesOnlyIfPaid /\ RepeatsAreNotDenied
=============================================================================
