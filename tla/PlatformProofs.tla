--------------------------- MODULE PlatformProofs ---------------------------
(***************************************************************************)
(* Proofs about the parts of MCPlatform.tla, for any number of callers,    *)
(* processes, orders and events. Each part is looked at alone: a step of   *)
(* the composition is a step of the part or leaves its variables alone.    *)
(***************************************************************************)
EXTENDS MCPlatform, SumProofs

(* Payment gateways *)

LEMMA GatewaysStep == [PlatformNext]_platformVars => [GatewaysNext]_gatewayVars
  BY DEF PlatformNext, platformVars

GatewayTypes ==
  /\ payOrder \in [PayOrder -> [by : Provider \cup {"none"}, at : {"none", "open", "paid", "verified"},
                                repeated : BOOLEAN, unkeyed : BOOLEAN]]
  /\ verification \in [Verification -> [of : SUBSET PayOrder, code : {-1, 0, 1, 100, 101, 201},
                                        ok : BOOLEAN, paid : BOOLEAN]]
  /\ \A o \in PayOrder : payOrder[o].by = "none" => payOrder[o] = Unplaced
  /\ yes \subseteq PayOrder /\ denied \subseteq PayOrder

\* Orders a no of the gateway may be wrong about.
MayBeDenied(o) == payOrder[o].unkeyed \/ (payOrder[o].by = "VANDAR" /\ payOrder[o].repeated)

\* The answers on their way say what happened to the order, and what happened does not unhappen.
AnswersAreTrue ==
  \A v \in Verification : \A o \in verification[v].of :
    /\ payOrder[o].by \in Provider
    /\ Verifies(payOrder[o].by, verification[v]) => payOrder[o].at = "verified"
    /\ verification[v].paid /\ verification[v].ok /\ ~Verifies(payOrder[o].by, verification[v])
         => MayBeDenied(o)

GatewaysInv == GatewayTypes /\ AnswersAreTrue /\ VerificationsAreTrue

LEMMA InitGateways == GatewaysInit => GatewaysInv
  BY DEF GatewaysInit, GatewaysInv, GatewayTypes, AnswersAreTrue, VerificationsAreTrue, YesOnlyIfPaid,
     RepeatsAreNotDenied, Unplaced, VerificationIdle, Provider

\* Orders only go forward, so that what was true of them remains true.
LEMMA OrdersGoOn ==
  ASSUME GatewaysInv, GatewayTypes',
         \A o \in PayOrder :
           payOrder'[o] = payOrder[o] \/ /\ payOrder[o].by \in Provider => payOrder'[o].by = payOrder[o].by
                                         /\ payOrder[o].at = "verified" => payOrder'[o].at = "verified"
                                         /\ payOrder[o].repeated => payOrder'[o].repeated
                                         /\ payOrder[o].unkeyed => payOrder'[o].unkeyed
                                         /\ payOrder'[o].by \in Provider
  PROVE  /\ \A v \in Verification : \A o \in verification[v].of :
              /\ payOrder'[o].by = payOrder[o].by /\ payOrder'[o].by \in Provider
              /\ Verifies(payOrder'[o].by, verification[v]) => payOrder'[o].at = "verified"
              /\ verification[v].paid /\ verification[v].ok /\ ~Verifies(payOrder'[o].by, verification[v])
                   => MayBeDenied(o)'
         /\ yes' = yes => YesOnlyIfPaid'
         /\ denied' = denied => RepeatsAreNotDenied'
  <1>1. \A v \in Verification : verification[v].of \subseteq PayOrder
    BY DEF GatewaysInv, GatewayTypes
  <1>2. \A o \in PayOrder : MayBeDenied(o) => MayBeDenied(o)'
    BY DEF GatewaysInv, GatewayTypes, MayBeDenied, Provider
  <1>3. \A o \in PayOrder : payOrder[o].by \in Provider => payOrder'[o].by = payOrder[o].by
    OBVIOUS
  <1>4. \A o \in PayOrder : payOrder[o].at = "verified" => payOrder'[o].at = "verified"
    OBVIOUS
  <1>5. ASSUME NEW v \in Verification, NEW o \in verification[v].of
        PROVE  /\ payOrder'[o].by = payOrder[o].by /\ payOrder'[o].by \in Provider
               /\ Verifies(payOrder'[o].by, verification[v]) => payOrder'[o].at = "verified"
               /\ verification[v].paid /\ verification[v].ok /\ ~Verifies(payOrder'[o].by, verification[v])
                    => MayBeDenied(o)'
    <2>1. o \in PayOrder /\ payOrder[o].by \in Provider
      BY <1>1 DEF GatewaysInv, AnswersAreTrue
    <2>2. QED
      BY <1>2, <1>3, <1>4, <2>1 DEF GatewaysInv, AnswersAreTrue
  <1>6. yes' = yes => YesOnlyIfPaid'
    BY <1>4 DEF GatewaysInv, GatewayTypes, VerificationsAreTrue, YesOnlyIfPaid
  <1>7. denied' = denied => RepeatsAreNotDenied'
    BY <1>2 DEF GatewaysInv, GatewayTypes, VerificationsAreTrue, RepeatsAreNotDenied, MayBeDenied
  <1>8. QED
    BY <1>5, <1>6, <1>7

LEMMA RefusalIsNoYes ==
  ASSUME NEW g \in Provider, NEW x, x.code = -1
  PROVE  ~Verifies(g, x)
  <1>1. x.code \notin {100, 101} /\ x.code # 1 /\ x.code \notin {100, 201}
    OBVIOUS
  <1>2. ~ZarinpalVerifies(x) /\ ~VandarVerifies(x) /\ ~ZibalVerifies(x)
    BY <1>1 DEF ZarinpalVerifies, VandarVerifies, ZibalVerifies
  <1>3. QED
    BY <1>2 DEF Verifies, Provider

LEMMA SendingIsTrue ==
  ASSUME GatewaysInv, NEW v \in Verification, NEW o \in PayOrder, SendVerification(v, o)
  PROVE  GatewaysInv'
  <1>1. /\ payOrder[o].by \in Provider
        /\ payOrder \in [PayOrder -> [by : Provider \cup {"none"}, at : {"none", "open", "paid", "verified"},
                                      repeated : BOOLEAN, unkeyed : BOOLEAN]]
        /\ yes' = yes /\ denied' = denied
    BY DEF SendVerification, ByName, GatewaysInv, GatewayTypes
  <1>2. PICK code \in Codes(o), ok \in BOOLEAN :
          verification' = [verification EXCEPT ![v] =
            [of |-> {o}, code |-> code, ok |-> ok, paid |-> payOrder[o].at \in {"paid", "verified"}]]
    BY DEF SendVerification
  <1>3. code \in {-1, 0, 1, 100, 101, 201}
    BY <1>1 DEF Codes, Provider
  <1>4. /\ \A p \in PayOrder : p # o => payOrder'[p] = payOrder[p]
        /\ payOrder'[o].by = payOrder[o].by
        /\ payOrder'[o] \in [by : Provider \cup {"none"}, at : {"none", "open", "paid", "verified"},
                             repeated : BOOLEAN, unkeyed : BOOLEAN]
        /\ payOrder'[o].unkeyed = (payOrder[o].unkeyed \/ payOrder[o].by \notin config.keys)
        /\ payOrder[o].by \in config.keys =>
             /\ payOrder'[o].repeated = (payOrder[o].repeated \/ payOrder[o].at = "verified")
             /\ payOrder'[o].at = IF payOrder[o].at = "paid" THEN "verified" ELSE payOrder[o].at
        /\ payOrder[o].by \notin config.keys =>
             payOrder'[o].repeated = payOrder[o].repeated /\ payOrder'[o].at = payOrder[o].at
        /\ payOrder' \in [PayOrder -> [by : Provider \cup {"none"}, at : {"none", "open", "paid", "verified"},
                                       repeated : BOOLEAN, unkeyed : BOOLEAN]]
    <2>1. CASE payOrder[o].by \in config.keys
      <3> DEFINE at == IF payOrder[o].at = "paid" THEN "verified" ELSE payOrder[o].at
                 repeated == payOrder[o].repeated \/ payOrder[o].at = "verified"
      <3>1. payOrder' = [payOrder EXCEPT ![o].at = at, ![o].repeated = repeated]
        BY <2>1 DEF SendVerification
      <3>2. at \in {"none", "open", "paid", "verified"} /\ repeated \in BOOLEAN
        BY <1>1
      <3>3. /\ at = IF payOrder[o].at = "paid" THEN "verified" ELSE payOrder[o].at
            /\ repeated = (payOrder[o].repeated \/ payOrder[o].at = "verified")
        OBVIOUS
      <3> HIDE DEF at, repeated
      <3>4. /\ \A p \in PayOrder : p # o => payOrder'[p] = payOrder[p]
            /\ payOrder'[o].at = at /\ payOrder'[o].repeated = repeated
            /\ payOrder'[o].by = payOrder[o].by /\ payOrder'[o].unkeyed = payOrder[o].unkeyed
        BY <1>1, <3>1
      <3>5. payOrder' \in [PayOrder -> [by : Provider \cup {"none"}, at : {"none", "open", "paid", "verified"},
                                        repeated : BOOLEAN, unkeyed : BOOLEAN]]
        BY <1>1, <3>1, <3>2
      <3>6. payOrder'[o] \in [by : Provider \cup {"none"}, at : {"none", "open", "paid", "verified"},
                              repeated : BOOLEAN, unkeyed : BOOLEAN]
        BY <3>5
      <3>7. QED
        BY <1>1, <2>1, <3>3, <3>4, <3>5, <3>6
    <2>2. CASE payOrder[o].by \notin config.keys
      <3>1. payOrder' = [payOrder EXCEPT ![o].unkeyed = TRUE]
        BY <2>2 DEF SendVerification
      <3>2. /\ \A p \in PayOrder : p # o => payOrder'[p] = payOrder[p]
            /\ payOrder'[o].by = payOrder[o].by /\ payOrder'[o].at = payOrder[o].at
            /\ payOrder'[o].repeated = payOrder[o].repeated /\ payOrder'[o].unkeyed = TRUE
        BY <1>1, <3>1
      <3>3. payOrder' \in [PayOrder -> [by : Provider \cup {"none"}, at : {"none", "open", "paid", "verified"},
                                        repeated : BOOLEAN, unkeyed : BOOLEAN]]
        BY <1>1, <3>1
      <3>4. QED
        BY <2>2, <3>2, <3>3
    <2>3. QED
      BY <2>1, <2>2
  <1>5. GatewayTypes'
    <2>1. verification' \in [Verification -> [of : SUBSET PayOrder, code : {-1, 0, 1, 100, 101, 201},
                                              ok : BOOLEAN, paid : BOOLEAN]]
      BY <1>2, <1>3 DEF GatewaysInv, GatewayTypes
    <2>2. \A p \in PayOrder : payOrder'[p].by = "none" => payOrder'[p] = Unplaced
      BY <1>1, <1>4 DEF GatewaysInv, GatewayTypes, Provider
    <2>3. QED
      BY <1>1, <1>4, <2>1, <2>2 DEF GatewaysInv, GatewayTypes
  <1>6. \A p \in PayOrder :
          payOrder'[p] = payOrder[p] \/ /\ payOrder[p].by \in Provider => payOrder'[p].by = payOrder[p].by
                                        /\ payOrder[p].at = "verified" => payOrder'[p].at = "verified"
                                        /\ payOrder[p].repeated => payOrder'[p].repeated
                                        /\ payOrder[p].unkeyed => payOrder'[p].unkeyed
                                        /\ payOrder'[p].by \in Provider
    BY <1>1, <1>4
  <1>7. AnswersAreTrue'
    <2>1. ASSUME NEW w \in Verification, NEW p \in verification'[w].of, w # v
          PROVE  verification'[w] = verification[w]
      BY <1>2, <2>1 DEF GatewaysInv, GatewayTypes
    <2>2. /\ verification'[v].of = {o} /\ verification'[v].code = code /\ verification'[v].ok = ok
          /\ verification'[v].paid = (payOrder[o].at \in {"paid", "verified"})
      BY <1>2 DEF GatewaysInv, GatewayTypes
    <2>3. payOrder'[o].at = "verified" \/ ~Verifies(payOrder'[o].by, verification'[v])
      <3>1. CASE code = -1
        BY <1>1, <1>4, <2>2, <3>1, RefusalIsNoYes
      <3>2. CASE code # -1
        <4>1. payOrder[o].by \in config.keys /\ payOrder[o].at \in {"paid", "verified"}
          BY <3>2 DEF Codes
        <4>2. QED
          BY <1>4, <4>1
      <3>3. QED
        BY <3>1, <3>2
    <2>4. ASSUME verification'[v].paid, verification'[v].ok, ~Verifies(payOrder'[o].by, verification'[v])
          PROVE  MayBeDenied(o)'
      <3>1. CASE payOrder[o].by \notin config.keys
        BY <1>4, <3>1 DEF MayBeDenied
      <3>2. CASE payOrder[o].by \in config.keys
        <4>1. payOrder[o].at = "verified" /\ payOrder[o].by = "VANDAR"
          BY <1>1, <1>4, <2>2, <2>4, <3>2
          DEF Codes, Verifies, ZarinpalVerifies, VandarVerifies, ZibalVerifies, Provider
        <4>2. QED
          BY <1>4, <3>2, <4>1 DEF MayBeDenied
      <3>3. QED
        BY <3>1, <3>2
    <2>5. QED
      BY <1>1, <1>4, <1>5, <1>6, <2>1, <2>2, <2>3, <2>4, OrdersGoOn DEF AnswersAreTrue
  <1>8. VerificationsAreTrue'
    BY <1>1, <1>5, <1>6, OrdersGoOn DEF VerificationsAreTrue
  <1>9. QED
    BY <1>5, <1>7, <1>8 DEF GatewaysInv

LEMMA NextGateways == GatewaysInv /\ [GatewaysNext]_gatewayVars => GatewaysInv'
  <1> SUFFICES ASSUME GatewaysInv, [GatewaysNext]_gatewayVars PROVE GatewaysInv'
    OBVIOUS
  <1>1. CASE UNCHANGED <<payOrder, verification, yes, denied>>
    BY <1>1 DEF GatewaysInv, GatewayTypes, AnswersAreTrue, VerificationsAreTrue, YesOnlyIfPaid,
                RepeatsAreNotDenied, MayBeDenied
  <1>2. ASSUME NEW o \in PayOrder, PayAtGateway(o) \/ \E g \in Provider : CreatePayment(o, g)
        PROVE  GatewaysInv'
    <2>1. UNCHANGED <<verification, yes, denied>>
      BY <1>2 DEF PayAtGateway, CreatePayment
    <2>2. /\ \A p \in PayOrder : p # o => payOrder'[p] = payOrder[p]
          /\ payOrder'[o].by \in Provider /\ payOrder'[o].at # "none"
          /\ payOrder[o].by \in Provider => payOrder'[o].by = payOrder[o].by
          /\ payOrder[o].at # "verified"
          /\ payOrder'[o].repeated = payOrder[o].repeated /\ payOrder'[o].unkeyed = payOrder[o].unkeyed
          /\ payOrder' \in [PayOrder -> [by : Provider \cup {"none"}, at : {"none", "open", "paid", "verified"},
                                         repeated : BOOLEAN, unkeyed : BOOLEAN]]
      <3>1. CASE PayAtGateway(o)
        <4>1. payOrder[o].by # "none"
          BY <3>1 DEF PayAtGateway, GatewaysInv, GatewayTypes, Unplaced
        <4>2. QED
          BY <3>1, <4>1 DEF PayAtGateway, GatewaysInv, GatewayTypes
      <3>2. CASE \E g \in Provider : CreatePayment(o, g)
        <4>1. PICK g \in Provider : Place(o, g)
          BY <3>2 DEF CreatePayment, CreateZarinpal, CreateVandar, CreateZibal, Provider
        <4>2. QED
          BY <4>1 DEF Place, GatewaysInv, GatewayTypes, Unplaced, Provider
      <3>3. QED
        BY <1>2, <3>1, <3>2
    <2>3. GatewayTypes'
      BY <2>1, <2>2 DEF GatewaysInv, GatewayTypes, Provider
    <2>4. QED
      BY <2>1, <2>2, <2>3, OrdersGoOn DEF GatewaysInv, AnswersAreTrue, VerificationsAreTrue
  <1>3. ASSUME NEW v \in Verification, NEW o \in PayOrder, ReadVerification(v, o) PROVE GatewaysInv'
    <2> DEFINE x == verification[v]
    <2>1. /\ o \in x.of
          /\ yes' = IF Verifies(payOrder[o].by, x) THEN yes \cup {o} ELSE yes
          /\ denied' = IF ~Verifies(payOrder[o].by, x) /\ x.paid /\ x.ok THEN denied \cup {o} ELSE denied
          /\ verification' = [verification EXCEPT ![v] = VerificationIdle] /\ payOrder' = payOrder
      BY <1>3 DEF ReadVerification
    <2>2. GatewayTypes'
      BY <2>1 DEF GatewaysInv, GatewayTypes, VerificationIdle
    <2>3. \A w \in Verification : verification'[w] = verification[w] \/ verification'[w].of = {}
      BY <2>1 DEF GatewaysInv, GatewayTypes, VerificationIdle
    <2>4. AnswersAreTrue'
      BY <2>1, <2>3 DEF GatewaysInv, AnswersAreTrue, MayBeDenied
    <2>5. VerificationsAreTrue'
      BY <2>1 DEF GatewaysInv, AnswersAreTrue, MayBeDenied, VerificationsAreTrue, YesOnlyIfPaid,
         RepeatsAreNotDenied
    <2>6. QED
      BY <2>2, <2>4, <2>5 DEF GatewaysInv
  <1>4. ASSUME NEW v \in Verification, LoseAnswer(v) PROVE GatewaysInv'
    <2>1. verification' = [verification EXCEPT ![v] = VerificationIdle] /\ UNCHANGED <<payOrder, yes, denied>>
      BY <1>4 DEF LoseAnswer
    <2>2. \A w \in Verification : verification'[w] = verification[w] \/ verification'[w].of = {}
      BY <2>1 DEF GatewaysInv, GatewayTypes, VerificationIdle
    <2>3. GatewayTypes'
      BY <2>1 DEF GatewaysInv, GatewayTypes, VerificationIdle
    <2>4. QED
      BY <2>1, <2>2, <2>3 DEF GatewaysInv, AnswersAreTrue, MayBeDenied, VerificationsAreTrue,
         YesOnlyIfPaid, RepeatsAreNotDenied
  <1>5. QED
    BY <1>1, <1>2, <1>3, <1>4, SendingIsTrue DEF GatewaysNext, Reboot, gatewayVars

\* For any number of orders, verifications and restarts with other gateways or keys: the
\* answers of verifyPayment are true, the second time too, but for the exceptions its parts name.
THEOREM GatewaysTellTheTruth == PlatformSpec => []VerificationsAreTrue
  <1>1. PlatformInit => GatewaysInv
    BY InitGateways DEF PlatformInit
  <1>2. GatewaysInv => VerificationsAreTrue
    BY DEF GatewaysInv
  <1>3. QED
    BY <1>1, <1>2, NextGateways, GatewaysStep, PTL DEF PlatformSpec
-----------------------------------------------------------------------------
(* Keys at the AI gateway *)

LEMMA LiaraKeysStep == [PlatformNext]_platformVars => [LiaraKeysNext]_liaraVars
  BY DEF PlatformNext, platformVars

AttemptRecord == [at : {"idle", "find", "create", "save", "clear", "record"}, key : Nat]

KeyTypes ==
  /\ keyRow \in Nat /\ issue \in Nat /\ unclear \in BOOLEAN
  /\ IsFiniteSet(gateway) /\ gateway \subseteq Nat \ {0}
  /\ attempt \in [Attempt -> AttemptRecord]

\* What a call holds where: nothing until it has made a key, the one it made until that is
\* saved or abandoned, then the one on record.
Holding(a) ==
  /\ attempt[a].at \in {"idle", "find", "create"} => attempt[a].key = 0
  /\ attempt[a].at = "save" => attempt[a].key # 0
  /\ attempt[a].at = "clear" => attempt[a].key = keyRow /\ keyRow # 0
  /\ attempt[a].at = "record" => attempt[a].key \in {0} \cup abandoned

\* An issue of a user who has a key is about to be deleted.
Clearing == issue > 0 /\ keyRow # 0 /\ ~unclear => \E a \in Attempt : attempt[a].at = "clear"

KeysInv == KeyTypes /\ (\A a \in Attempt : Holding(a)) /\ Clearing /\ OneKeyPerUser

LEMMA InitKeys == LiaraKeysInit => KeysInv
  <1> SUFFICES ASSUME LiaraKeysInit PROVE KeysInv
    OBVIOUS
  <1>1. KeyTypes
    BY FS_EmptySet DEF LiaraKeysInit, KeyTypes, NoAttempt, AttemptRecord
  <1>2. (\A a \in Attempt : Holding(a)) /\ Clearing /\ OneKeyPerUser
    BY DEF LiaraKeysInit, Holding, Clearing, OneKeyPerUser, NoAttempt
  <1>3. QED
    BY <1>1, <1>2 DEF KeysInv

LEMMA NextKeys == KeysInv /\ [LiaraKeysNext]_liaraVars => KeysInv'
  <1> SUFFICES ASSUME KeysInv, [LiaraKeysNext]_liaraVars PROVE KeysInv'
    OBVIOUS
  <1>1. attempt \in [Attempt -> AttemptRecord] /\ keyRow \in Nat /\ IsFiniteSet(gateway)
    BY DEF KeysInv, KeyTypes
  <1>2. ASSUME UNCHANGED keyVars PROVE KeysInv'
    BY <1>2 DEF keyVars, KeysInv, KeyTypes, Holding, Clearing, OneKeyPerUser
  <1>3. ASSUME NEW a \in Attempt, \E retry \in BOOLEAN : Begin(a, retry) PROVE KeysInv'
    <2>1. /\ attempt' = [attempt EXCEPT ![a].at = "find"] /\ attempt[a].at = "idle"
          /\ UNCHANGED <<keyRow, gateway, issue, returned, abandoned, unclear>>
      BY <1>3 DEF Begin, Goes, Provisioning
    <2>2. /\ attempt'[a].at = "find" /\ attempt'[a].key = attempt[a].key
          /\ \A b \in Attempt : b # a => attempt'[b] = attempt[b]
          /\ attempt' \in [Attempt -> AttemptRecord]
      BY <1>1, <2>1 DEF AttemptRecord
    <2>3. KeyTypes' /\ \A b \in Attempt : Holding(b)'
      BY <2>1, <2>2 DEF KeysInv, KeyTypes, Holding
    <2>4. Clearing' /\ OneKeyPerUser'
      BY <2>1, <2>2 DEF KeysInv, Clearing, OneKeyPerUser
    <2>5. QED
      BY <2>3, <2>4 DEF KeysInv
  <1>4. ASSUME NEW a \in Attempt, Find(a) PROVE KeysInv'
    <2>1. /\ attempt[a].at = "find"
          /\ UNCHANGED <<keyRow, gateway, issue, returned, abandoned, unclear>>
      BY <1>4 DEF Find
    <2>2. PICK at \in {"create", "clear", "record"}, key \in Nat :
            /\ attempt' = [attempt EXCEPT ![a].at = at, ![a].key = key]
            /\ at = "create" => key = 0
            /\ at = "clear" => key = keyRow /\ keyRow # 0
            /\ at = "record" => key = 0
      <3>1. attempt[a].key = 0
        BY <2>1 DEF KeysInv, Holding
      <3>2. CASE attempt' = [attempt EXCEPT ![a].at = IF keyRow # 0 THEN "clear" ELSE "create", ![a].key = keyRow]
        BY <1>1, <3>2
      <3>3. CASE Goes(a, "record")
        <4>1. attempt' = [attempt EXCEPT ![a].at = "record", ![a].key = 0]
          BY <1>1, <3>1, <3>3 DEF Goes, AttemptRecord
        <4>2. QED
          BY <4>1
      <3>4. QED
        BY <1>4, <3>2, <3>3 DEF Find
    <2>3. /\ attempt'[a].at = at /\ attempt'[a].key = key
          /\ \A b \in Attempt : b # a => attempt'[b] = attempt[b]
          /\ attempt' \in [Attempt -> AttemptRecord]
      BY <1>1, <2>2 DEF AttemptRecord
    <2>4. KeyTypes' /\ \A b \in Attempt : Holding(b)'
      BY <2>1, <2>2, <2>3 DEF KeysInv, KeyTypes, Holding
    <2>5. Clearing'
      BY <2>1, <2>2, <2>3 DEF KeysInv, Clearing
    <2>6. OneKeyPerUser'
      <3>1. attempt[a].key = 0 /\ 0 \notin gateway
        BY <2>1 DEF KeysInv, Holding, KeyTypes
      <3>2. QED
        BY <2>1, <2>3, <3>1 DEF KeysInv, OneKeyPerUser
    <2>7. QED
      BY <2>4, <2>5, <2>6 DEF KeysInv
  <1>5. ASSUME NEW a \in Attempt, CreateAtGateway(a) PROVE KeysInv'
    <2> DEFINE new == Cardinality(gateway) + 1
    <2>1. /\ new \in Nat \ {0} /\ IsFiniteSet(gateway \cup {new})
          /\ attempt[a].at = "create" /\ attempt[a].key = 0 /\ 0 \notin gateway
          /\ UNCHANGED <<keyRow, issue, returned, unclear>>
      BY <1>1, <1>5, FS_AddElement, FS_CardinalityType DEF CreateAtGateway, KeysInv, Holding, KeyTypes
    <2>2. \/ /\ gateway' = gateway \cup {new} /\ abandoned' = abandoned
             /\ attempt' = [attempt EXCEPT ![a].at = "save", ![a].key = new]
          \/ /\ gateway' = gateway \cup {new} /\ abandoned' = abandoned \cup {new}
             /\ attempt' = [attempt EXCEPT ![a].at = "record"]
          \/ /\ gateway' = gateway /\ abandoned' = abandoned
             /\ attempt' = [attempt EXCEPT ![a].at = "record"]
      BY <1>5 DEF CreateAtGateway, Goes
    <2> HIDE DEF new
    <2>3. /\ attempt'[a].at \in {"save", "record"}
          /\ attempt'[a].at = "save" => attempt'[a].key = new
          /\ attempt'[a].at = "record" => attempt'[a].key = 0
          /\ \A b \in Attempt : b # a => attempt'[b] = attempt[b]
          /\ attempt' \in [Attempt -> AttemptRecord]
      BY <1>1, <2>1, <2>2 DEF AttemptRecord
    <2>4. KeyTypes'
      BY <2>1, <2>2, <2>3 DEF KeysInv, KeyTypes
    <2>5. \A b \in Attempt : Holding(b)'
      BY <2>1, <2>2, <2>3 DEF KeysInv, Holding
    <2>6. Clearing'
      BY <2>1, <2>3 DEF KeysInv, Clearing
    <2>7. OneKeyPerUser'
      <3>1. CASE attempt'[a].at = "save"
        BY <2>1, <2>2, <2>3, <3>1 DEF KeysInv, OneKeyPerUser
      <3>2. CASE attempt'[a].at = "record"
        <4>1. gateway' \subseteq gateway \cup {new} /\ abandoned \subseteq abandoned'
              /\ (new \in gateway' => new \in abandoned' \/ new \in gateway)
          BY <1>1, <2>2, <3>2 DEF AttemptRecord
        <4>2. QED
          BY <2>1, <2>3, <3>2, <4>1 DEF KeysInv, OneKeyPerUser
      <3>3. QED
        BY <2>3, <3>1, <3>2
    <2>8. QED
      BY <2>4, <2>5, <2>6, <2>7 DEF KeysInv
  <1>6. ASSUME NEW a \in Attempt, SaveKey(a) PROVE KeysInv'
    <2> DEFINE mine == attempt[a].key
    <2>1. /\ attempt[a].at = "save" /\ mine \in Nat \ {0}
          /\ UNCHANGED <<gateway, issue, returned, unclear>>
      BY <1>1, <1>6 DEF SaveKey, KeysInv, Holding, AttemptRecord
    <2>2. \/ /\ keyRow = 0 /\ keyRow' = mine /\ abandoned' = abandoned
             /\ attempt' = [attempt EXCEPT ![a].at = "clear"]
          \/ /\ keyRow # 0 /\ keyRow' = keyRow /\ abandoned' = abandoned \cup {mine}
             /\ attempt' = [attempt EXCEPT ![a].at = "clear", ![a].key = keyRow]
          \/ /\ keyRow' = keyRow /\ abandoned' = abandoned \cup {mine}
             /\ attempt' = [attempt EXCEPT ![a].at = "record"]
      BY <1>6 DEF SaveKey, Goes, LoserKey
    <2> HIDE DEF mine
    <2>3. /\ attempt'[a].at \in {"clear", "record"}
          /\ attempt'[a].at = "clear" => attempt'[a].key = keyRow' /\ keyRow' # 0
          /\ attempt'[a].at = "record" => attempt'[a].key = mine /\ mine \in abandoned' /\ keyRow' = keyRow
          /\ \A b \in Attempt : b # a => attempt'[b] = attempt[b]
          /\ attempt' \in [Attempt -> AttemptRecord]
      BY <1>1, <2>1, <2>2 DEF AttemptRecord, mine
    <2>4. KeyTypes'
      BY <2>1, <2>2, <2>3 DEF KeysInv, KeyTypes
    <2>5. /\ abandoned \subseteq abandoned'
          /\ keyRow # 0 => keyRow' = keyRow
          /\ mine = keyRow' \/ mine \in abandoned'
      BY <2>2
    <2>6. \A b \in Attempt : Holding(b)'
      <3>1. ASSUME NEW b \in Attempt, b # a PROVE Holding(b)'
        BY <2>3, <2>5, <3>1 DEF KeysInv, Holding
      <3>2. Holding(a)'
        BY <2>3 DEF Holding
      <3>3. QED
        BY <3>1, <3>2
    <2>7. Clearing'
      BY <2>1, <2>2, <2>3 DEF KeysInv, Clearing
    <2>8. OneKeyPerUser'
      <3>1. returned' \subseteq {0, keyRow'}
        BY <2>1, <2>5 DEF KeysInv, OneKeyPerUser
      <3>2. ASSUME NEW key \in gateway
            PROVE  key = keyRow' \/ key \in abandoned' \/ \E b \in Attempt : attempt'[b].key = key
        <4>1. CASE key = keyRow
          BY <2>1, <2>5, <3>2, <4>1 DEF KeysInv, KeyTypes
        <4>2. CASE key \in abandoned
          BY <2>5, <4>2
        <4>3. CASE \E b \in Attempt : attempt[b].key = key
          BY <2>3, <2>5, <4>3 DEF mine
        <4>4. QED
          BY <4>1, <4>2, <4>3 DEF KeysInv, OneKeyPerUser
      <3>3. QED
        BY <2>1, <3>1, <3>2 DEF OneKeyPerUser
    <2>9. QED
      BY <2>4, <2>6, <2>7, <2>8 DEF KeysInv
  <1>7. ASSUME NEW a \in Attempt, ClearIssue(a) \/ RecordIssue(a) PROVE KeysInv'
    <2>1. /\ attempt' = [attempt EXCEPT ![a] = NoAttempt]
          /\ UNCHANGED <<keyRow, gateway, abandoned>>
          /\ attempt[a].at \in {"clear", "record"}
      BY <1>7 DEF ClearIssue, RecordIssue, Return
    <2>2. /\ attempt'[a].at = "idle" /\ attempt'[a].key = 0
          /\ \A b \in Attempt : b # a => attempt'[b] = attempt[b]
          /\ attempt' \in [Attempt -> AttemptRecord]
      BY <1>1, <2>1 DEF AttemptRecord, NoAttempt
    <2>3. issue' \in Nat /\ unclear' \in BOOLEAN
      <3>1. issue \in Nat /\ unclear \in BOOLEAN
        BY DEF KeysInv, KeyTypes
      <3>2. issue' \in {0, issue, issue + 1}
        BY <1>7 DEF ClearIssue, RecordIssue, Cleared
      <3>3. \/ unclear' = unclear
            \/ unclear' = (unclear \/ issue > 0)
            \/ unclear' = (unclear \/ keyRow # 0)
        BY <1>7, Zenon DEF ClearIssue, RecordIssue
      <3>4. issue' \in Nat
        BY <3>1, <3>2
      <3>5. unclear' \in BOOLEAN
        BY <3>1, <3>3, Zenon
      <3>6. QED
        BY <3>4, <3>5
    <2>4. KeyTypes' /\ \A b \in Attempt : Holding(b)'
      BY <2>1, <2>2, <2>3 DEF KeysInv, KeyTypes, Holding
    <2>5. Clearing'
      <3>1. CASE ClearIssue(a)
        <4>1. issue' = 0 \/ (issue' = issue /\ unclear' = (unclear \/ issue > 0))
          BY <3>1 DEF ClearIssue, Cleared
        <4>2. QED
          BY <2>1, <2>3, <4>1 DEF KeysInv, Clearing, KeyTypes
      <3>2. CASE RecordIssue(a)
        <4>1. unclear' = (unclear \/ keyRow # 0)
          BY <3>2 DEF RecordIssue
        <4>2. QED
          BY <2>1, <4>1 DEF Clearing
      <3>3. QED
        BY <1>7, <3>1, <3>2
    <2>6. OneKeyPerUser'
      <3>1. returned' = returned \cup {IF attempt[a].at = "clear" THEN attempt[a].key ELSE 0}
        BY <1>7 DEF ClearIssue, RecordIssue, Return
      <3>2. attempt[a].key = keyRow \/ attempt[a].key \in {0} \cup abandoned
        BY <2>1 DEF KeysInv, Holding
      <3>3. attempt[a].at = "clear" => attempt[a].key = keyRow
        BY DEF KeysInv, Holding
      <3>4. returned' \subseteq {0, keyRow'}
        BY <2>1, <3>1, <3>3 DEF KeysInv, OneKeyPerUser
      <3>5. ASSUME NEW key \in gateway
            PROVE  key = keyRow' \/ key \in abandoned' \/ \E b \in Attempt : attempt'[b].key = key
        BY <2>1, <2>2, <3>2 DEF KeysInv, KeyTypes, OneKeyPerUser
      <3>6. QED
        BY <2>1, <3>4, <3>5 DEF OneKeyPerUser
    <2>7. QED
      BY <2>4, <2>5, <2>6 DEF KeysInv
  <1>8. QED
    BY <1>2, <1>3, <1>4, <1>5, <1>6, <1>7
    DEF LiaraKeysNext, UseGateway, UtcMidnight, BeginSync, FetchUsage, WriteUsage, liaraVars

SyncRecord == [at : {"idle", "fetch", "write"}, day : UtcDay, count : Nat]

SyncTypes ==
  /\ utcDay \in UtcDay /\ sync \in [Sync -> SyncRecord] /\ syncedTogether \in BOOLEAN
  /\ usedOn \in [UtcDay -> Nat] /\ snapshotOf \in [UtcDay -> Nat] /\ reported \in [UtcDay -> Nat]

(* What a snapshot, a report or a sync under way counts, the gateway has seen on that day. *)
Seen ==
  /\ \A d \in UtcDay : snapshotOf[d] =< usedOn[d] /\ reported[d] =< usedOn[d]
  /\ \A s \in Sync : sync[s].at # "idle" => sync[s].count =< usedOn[sync[s].day]

(* As long as no two syncs have run at once, the one under way, if any, is ahead of every
   count that was written for its day. *)
Alone ==
  ~syncedTogether =>
    /\ \A s, t \in Sync : sync[s].at # "idle" /\ sync[t].at # "idle" => s = t
    /\ \A s \in Sync : sync[s].at # "idle" => sync[s].count >= reported[sync[s].day]
    /\ \A d \in UtcDay : snapshotOf[d] >= reported[d]

SyncsInv == SyncTypes /\ Seen /\ Alone

LEMMA Idle == 1 \in UtcDay /\ NoSync \in SyncRecord /\ NoSync.at = "idle"
  <1>1. 1 \in UtcDay
    BY LiaraKeysAssumption DEF UtcDay
  <1>2. QED
    BY <1>1 DEF NoSync, SyncRecord

LEMMA InitSyncs == LiaraKeysInit => SyncsInv
  <1> SUFFICES ASSUME LiaraKeysInit PROVE SyncsInv
    OBVIOUS
  <1>1. /\ sync = [s \in Sync |-> NoSync] /\ utcDay = 1 /\ syncedTogether = FALSE
        /\ usedOn = [d \in UtcDay |-> 0] /\ snapshotOf = [d \in UtcDay |-> 0]
        /\ reported = [d \in UtcDay |-> 0]
    BY DEF LiaraKeysInit
  <1>2. SyncTypes
    BY <1>1, Idle DEF SyncTypes
  <1>3. Seen /\ Alone
    BY <1>1, Idle DEF Seen, Alone
  <1>4. QED
    BY <1>2, <1>3 DEF SyncsInv

LEMMA NextSyncs == SyncsInv /\ [LiaraKeysNext]_liaraVars => SyncsInv'
  <1> SUFFICES ASSUME SyncsInv, [LiaraKeysNext]_liaraVars PROVE SyncsInv'
    OBVIOUS
  <1>1. /\ utcDay \in UtcDay /\ sync \in [Sync -> SyncRecord] /\ syncedTogether \in BOOLEAN
        /\ usedOn \in [UtcDay -> Nat] /\ snapshotOf \in [UtcDay -> Nat] /\ reported \in [UtcDay -> Nat]
    BY DEF SyncsInv, SyncTypes
  <1>2. ASSUME UNCHANGED syncVars PROVE SyncsInv'
    BY <1>2 DEF syncVars, SyncsInv, SyncTypes, Seen, Alone
  <1>3. ASSUME UseGateway PROVE SyncsInv'
    <2>1. /\ usedOn' = [usedOn EXCEPT ![utcDay] = usedOn[utcDay] + 1]
          /\ UNCHANGED <<utcDay, snapshotOf, sync, syncedTogether, reported>>
      BY <1>3 DEF UseGateway
    <2>2. usedOn' \in [UtcDay -> Nat] /\ \A d \in UtcDay : usedOn[d] =< usedOn'[d]
      BY <1>1, <2>1
    <2>3. SyncTypes' /\ Alone'
      BY <2>1, <2>2 DEF SyncsInv, SyncTypes, Alone
    <2>4. ASSUME NEW d \in UtcDay PROVE snapshotOf[d] =< usedOn'[d] /\ reported[d] =< usedOn'[d]
      BY <1>1, <2>2 DEF SyncsInv, Seen
    <2>5. ASSUME NEW s \in Sync, sync[s].at # "idle" PROVE sync[s].count =< usedOn'[sync[s].day]
      <3>1. sync[s].day \in UtcDay /\ sync[s].count \in Nat
        BY <1>1 DEF SyncRecord
      <3>2. QED
        BY <1>1, <2>2, <2>5, <3>1 DEF SyncsInv, Seen
    <2>6. QED
      BY <2>1, <2>3, <2>4, <2>5 DEF SyncsInv, Seen
  <1>4. ASSUME UtcMidnight PROVE SyncsInv'
    <2>1. utcDay' \in UtcDay
      BY <1>1, <1>4, LiaraKeysAssumption DEF UtcMidnight, UtcDay
    <2>2. QED
      BY <1>4, <2>1 DEF UtcMidnight, SyncsInv, SyncTypes, Seen, Alone
  <1>5. ASSUME NEW s \in Sync, BeginSync(s) PROVE SyncsInv'
    <2>1. /\ sync' = [sync EXCEPT ![s] = [at |-> "fetch", day |-> utcDay, count |-> usedOn[utcDay]]]
          /\ syncedTogether' = (syncedTogether \/ \E t \in Sync : sync[t].at # "idle")
          /\ UNCHANGED <<usedOn, utcDay, snapshotOf, reported>>
      BY <1>5, Zenon DEF BeginSync
    <2>2. /\ sync'[s].at = "fetch" /\ sync'[s].day = utcDay /\ sync'[s].count = usedOn[utcDay]
          /\ \A t \in Sync : t # s => sync'[t] = sync[t]
          /\ sync' \in [Sync -> SyncRecord]
      BY <1>1, <2>1 DEF SyncRecord
    <2>3. SyncTypes' /\ Seen'
      BY <1>1, <2>1, <2>2 DEF SyncsInv, SyncTypes, Seen
    <2>4. Alone'
      <3>1. ~syncedTogether' => ~syncedTogether /\ \A t \in Sync : sync[t].at = "idle"
        BY <2>1
      <3>2. QED
        BY <1>1, <2>1, <2>2, <3>1 DEF SyncsInv, Seen, Alone
    <2>5. QED
      BY <2>3, <2>4 DEF SyncsInv
  <1>6. ASSUME NEW s \in Sync, FetchUsage(s) PROVE SyncsInv'
    <2>1. /\ sync[s].at = "fetch" /\ UNCHANGED <<usedOn, utcDay, snapshotOf, reported, syncedTogether>>
          /\ \/ sync' = [sync EXCEPT ![s] = NoSync]
             \/ sync' = [sync EXCEPT ![s].at = "write"]
      BY <1>6 DEF FetchUsage
    <2>2. /\ \A t \in Sync : t # s => sync'[t] = sync[t]
          /\ sync'[s].at # "idle" => sync'[s].day = sync[s].day /\ sync'[s].count = sync[s].count
      BY <1>1, <2>1, Idle DEF SyncRecord
    <2>3. sync' \in [Sync -> SyncRecord]
      BY <1>1, <2>1, Idle DEF SyncRecord
    <2>4. QED
      BY <2>1, <2>2, <2>3 DEF SyncsInv, SyncTypes, Seen, Alone
  <1>7. ASSUME NEW s \in Sync, WriteUsage(s) PROVE SyncsInv'
    <2> DEFINE d == sync[s].day
               n == sync[s].count
    <2>1. /\ sync[s].at = "write" /\ d \in UtcDay /\ n \in Nat /\ n =< usedOn[d]
          /\ ~syncedTogether => n >= reported[d]
          /\ UNCHANGED <<usedOn, utcDay, syncedTogether>>
          /\ snapshotOf' = [snapshotOf EXCEPT ![d] = n]
          /\ reported' = [reported EXCEPT ![d] = IF n > reported[d] THEN n ELSE reported[d]]
          /\ sync' = [sync EXCEPT ![s] = NoSync]
      BY <1>1, <1>7 DEF WriteUsage, Snapshot, SyncsInv, Seen, Alone, SyncRecord
    <2> HIDE DEF d, n
    <2>2. /\ snapshotOf' \in [UtcDay -> Nat] /\ reported' \in [UtcDay -> Nat]
          /\ snapshotOf'[d] = n /\ reported'[d] \in {n, reported[d]}
          /\ \A e \in UtcDay : e # d => snapshotOf'[e] = snapshotOf[e] /\ reported'[e] = reported[e]
          /\ ~syncedTogether => reported'[d] = n
      BY <1>1, <2>1
    <2>3. /\ sync'[s].at = "idle" /\ \A t \in Sync : t # s => sync'[t] = sync[t]
          /\ sync' \in [Sync -> SyncRecord]
      BY <1>1, <2>1, Idle DEF SyncRecord
    <2>4. SyncTypes'
      BY <2>1, <2>2, <2>3 DEF SyncsInv, SyncTypes
    <2>5. Seen'
      BY <1>1, <2>1, <2>2, <2>3 DEF SyncsInv, Seen
    <2>6. Alone'
      <3>1. ASSUME ~syncedTogether, NEW t \in Sync, sync'[t].at # "idle" PROVE FALSE
        BY <2>1, <2>3, <3>1 DEF SyncsInv, Alone
      <3>2. ASSUME ~syncedTogether, NEW e \in UtcDay PROVE snapshotOf'[e] >= reported'[e]
        BY <1>1, <2>1, <2>2, <3>2 DEF SyncsInv, Alone
      <3>3. QED
        BY <2>1, <3>1, <3>2 DEF Alone
    <2>7. QED
      BY <2>4, <2>5, <2>6 DEF SyncsInv
  <1>8. QED
    BY <1>2, <1>3, <1>4, <1>5, <1>6, <1>7
    DEF LiaraKeysNext, liaraVars, Begin, Find, CreateAtGateway, SaveKey, ClearIssue, RecordIssue

(* Every call for a user's own key answers with the key on record or with the shared one,
   also the call that lost the race for the row; an issue stays open only while there is
   no key, and a usage snapshot never claims more than the gateway saw nor, unless two
   syncs ran at once, falls behind one that was written: whatever the calls, the retries
   and the syncs, and however they interleave. *)
THEOREM KeysKept == PlatformSpec => []KeysAreKept
  <1>1. KeysInv => OneKeyPerUser /\ IssuesAreOpen
    <2>1. ASSUME KeysInv PROVE IssuesAreOpen
      BY <2>1 DEF KeysInv, KeyTypes, Clearing, IssuesAreOpen, Provisioning
    <2>2. QED
      BY <2>1 DEF KeysInv
  <1>2. SyncsInv => SnapshotsHold
    BY DEF SyncsInv, SyncTypes, Seen, Alone, SnapshotsHold
  <1>3. PlatformInit => KeysInv /\ SyncsInv
    BY InitKeys, InitSyncs DEF PlatformInit
  <1>4. KeysInv /\ SyncsInv /\ [PlatformNext]_platformVars => KeysInv' /\ SyncsInv'
    BY LiaraKeysStep, NextKeys, NextSyncs
  <1>5. QED
    BY <1>1, <1>2, <1>3, <1>4, PTL DEF PlatformSpec, KeysAreKept
-----------------------------------------------------------------------------
(* Processes that start, and processes that remember *)

LEMMA SchedulesStep == [PlatformNext]_platformVars => [SchedulesNext]_scheduleVars
  BY DEF PlatformNext, platformVars

StartRecord ==
  [at : {"down", "up", "list", "remove"}, cron : SUBSET Cron, queue : QueueNo, keys : SUBSET Cron]

ScheduleTypes ==
  /\ repeatable \in [QueueNo -> SUBSET Cron] /\ complete \in [QueueNo -> SUBSET Cron]
  /\ starting \in [Process -> StartRecord]
  /\ together \in BOOLEAN /\ halted \in BOOLEAN
  /\ \A p \in Process : Busy(p) => starting[p].cron # {}

(* A process that starts alone, after starts that all went through, knows the jobs it still
   has to remove. *)
AloneAtTheQueue ==
  ~halted /\ ~together =>
    /\ \A p, r \in Process : Busy(p) /\ Busy(r) => p = r
    /\ \A p \in Process :
         starting[p].at = "remove" => starting[p].keys = repeatable[starting[p].queue]

SchedulesInv == ScheduleTypes /\ AloneAtTheQueue /\ OneSchedulePerQueue /\ NoQueueForgotten

LEMMA DownIsARecord == Down \in StartRecord /\ 1 \in QueueNo
  <1>1. 1 \in QueueNo
    BY SchedulesAssumption DEF QueueNo
  <1>2. QED
    BY <1>1 DEF Down, StartRecord

LEMMA InitSchedules == SchedulesInit => SchedulesInv
  <1> SUFFICES ASSUME SchedulesInit PROVE SchedulesInv
    OBVIOUS
  <1>1. /\ repeatable = [q \in QueueNo |-> {}] /\ complete = [q \in QueueNo |-> {}]
        /\ starting = [p \in Process |-> Down] /\ together = FALSE /\ halted = FALSE
    BY DEF SchedulesInit
  <1>2. \A p \in Process : ~Busy(p) /\ starting[p].at = "down"
    BY <1>1 DEF Busy, Down
  <1>3. ScheduleTypes
    BY <1>1, <1>2, DownIsARecord DEF ScheduleTypes
  <1>4. AloneAtTheQueue /\ OneSchedulePerQueue /\ NoQueueForgotten
    BY <1>1, <1>2 DEF AloneAtTheQueue, OneSchedulePerQueue, NoQueueForgotten
  <1>5. QED
    BY <1>3, <1>4 DEF SchedulesInv

LEMMA NextSchedules == SchedulesInv /\ [SchedulesNext]_scheduleVars => SchedulesInv'
  <1> SUFFICES ASSUME SchedulesInv, [SchedulesNext]_scheduleVars PROVE SchedulesInv'
    OBVIOUS
  <1>1. /\ repeatable \in [QueueNo -> SUBSET Cron] /\ complete \in [QueueNo -> SUBSET Cron]
        /\ starting \in [Process -> StartRecord]
        /\ together \in BOOLEAN /\ halted \in BOOLEAN
        /\ \A p \in Process : Busy(p) => starting[p].cron # {}
    BY DEF SchedulesInv, ScheduleTypes
  <1>2. ASSUME UNCHANGED scheduleVars PROVE SchedulesInv'
    BY <1>2 DEF scheduleVars, SchedulesInv, ScheduleTypes, AloneAtTheQueue, OneSchedulePerQueue,
       NoQueueForgotten, Busy
  <1>3. ASSUME NEW p \in Process, NEW cron \in Cron, Start(p, cron) PROVE SchedulesInv'
    <2>1. /\ starting' = [starting EXCEPT ![p] = [Down EXCEPT !.at = "list", !.cron = {cron}]]
          /\ starting[p].at = "down" /\ UNCHANGED <<repeatable, complete, halted>>
          /\ together' = (together \/ \E x \in Process : Busy(x))
      BY <1>3, Zenon DEF Start
    <2>2. /\ starting'[p].at = "list" /\ starting'[p].cron = {cron}
          /\ \A r \in Process : r # p => starting'[r] = starting[r]
          /\ starting' \in [Process -> StartRecord]
      BY <1>1, <2>1, DownIsARecord DEF StartRecord, Down
    <2>3. ~Busy(p) /\ Busy(p)' /\ \A r \in Process : r # p => Busy(r)' = Busy(r)
      BY <2>1, <2>2 DEF Busy
    <2>4. ScheduleTypes'
      BY <1>1, <2>1, <2>2, <2>3 DEF ScheduleTypes
    <2>5. AloneAtTheQueue'
      BY <2>1, <2>2, <2>3 DEF SchedulesInv, AloneAtTheQueue
    <2>6. OneSchedulePerQueue'
      BY <2>1, <2>2, <2>3 DEF SchedulesInv, OneSchedulePerQueue
    <2>7. NoQueueForgotten'
      BY <2>1, <2>2, <2>3 DEF SchedulesInv, NoQueueForgotten
    <2>8. QED
      BY <2>4, <2>5, <2>6, <2>7 DEF SchedulesInv
  <1>4. ASSUME NEW p \in Process, ListJobs(p) PROVE SchedulesInv'
    <2> DEFINE keys == repeatable[starting[p].queue]
    <2>1. /\ starting' = [starting EXCEPT ![p].at = "remove", ![p].keys = keys]
          /\ starting[p].at = "list" /\ UNCHANGED <<repeatable, complete, halted, together>>
          /\ keys \in SUBSET Cron
      BY <1>1, <1>4 DEF ListJobs, StartRecord
    <2> HIDE DEF keys
    <2>2. /\ starting'[p].at = "remove" /\ starting'[p].keys = keys
          /\ starting'[p].cron = starting[p].cron /\ starting'[p].queue = starting[p].queue
          /\ \A r \in Process : r # p => starting'[r] = starting[r]
          /\ starting' \in [Process -> StartRecord]
      BY <1>1, <2>1 DEF StartRecord
    <2>3. Busy(p) /\ Busy(p)' /\ \A r \in Process : r # p => Busy(r)' = Busy(r)
      BY <2>1, <2>2 DEF Busy
    <2>4. ScheduleTypes'
      BY <1>1, <2>1, <2>2, <2>3 DEF ScheduleTypes
    <2>5. AloneAtTheQueue'
      BY <2>1, <2>2, <2>3 DEF SchedulesInv, AloneAtTheQueue, keys
    <2>6. OneSchedulePerQueue'
      BY <2>1, <2>2, <2>3 DEF SchedulesInv, OneSchedulePerQueue
    <2>7. NoQueueForgotten'
      BY <2>1, <2>2, <2>3 DEF SchedulesInv, NoQueueForgotten
    <2>8. QED
      BY <2>4, <2>5, <2>6, <2>7 DEF SchedulesInv
  <1>5. ASSUME NEW p \in Process, RemoveJob(p) PROVE SchedulesInv'
    <2> DEFINE q == starting[p].queue
    <2>1. PICK key \in starting[p].keys :
            /\ repeatable' = [repeatable EXCEPT ![q] = repeatable[q] \ {key}]
            /\ starting' = [starting EXCEPT ![p].keys = starting[p].keys \ {key}]
      BY <1>5 DEF RemoveJob, Removed
    <2>2. starting[p].at = "remove" /\ q \in QueueNo /\ UNCHANGED <<complete, halted, together>>
      BY <1>1, <1>5 DEF RemoveJob, StartRecord
    <2> HIDE DEF q
    <2>3. /\ repeatable' \in [QueueNo -> SUBSET Cron] /\ repeatable'[q] = repeatable[q] \ {key}
          /\ \A w \in QueueNo : w # q => repeatable'[w] = repeatable[w]
      BY <1>1, <2>1, <2>2
    <2>4. /\ starting'[p].at = "remove" /\ starting'[p].keys = starting[p].keys \ {key}
          /\ starting'[p].cron = starting[p].cron /\ starting'[p].queue = q
          /\ \A r \in Process : r # p => starting'[r] = starting[r]
          /\ starting' \in [Process -> StartRecord]
      BY <1>1, <2>1, <2>2 DEF StartRecord, q
    <2>5. Busy(p) /\ Busy(p)' /\ \A r \in Process : r # p => Busy(r)' = Busy(r)
      BY <2>2, <2>4 DEF Busy
    <2>6. ScheduleTypes'
      BY <1>1, <2>2, <2>3, <2>4, <2>5 DEF ScheduleTypes
    <2>7. AloneAtTheQueue'
      <3>1. ASSUME ~halted, ~together, NEW r \in Process, starting'[r].at = "remove"
            PROVE  starting'[r].keys = repeatable'[starting'[r].queue]
        <4>1. r = p
          BY <2>4, <2>5, <3>1 DEF SchedulesInv, AloneAtTheQueue, Busy
        <4>2. starting[p].keys = repeatable[q]
          BY <2>2, <3>1 DEF SchedulesInv, AloneAtTheQueue, q
        <4>3. QED
          BY <2>3, <2>4, <4>1, <4>2
      <3>2. QED
        BY <2>2, <2>5, <3>1 DEF SchedulesInv, AloneAtTheQueue
    <2>8. \A r \in Process : starting'[r].queue = starting[r].queue
      BY <2>4 DEF q
    <2>9. OneSchedulePerQueue'
      BY <2>2, <2>3, <2>4, <2>5, <2>8 DEF SchedulesInv, OneSchedulePerQueue
    <2>10. NoQueueForgotten'
      <3>1. ASSUME NEW w \in QueueNo, repeatable'[w] = {}
            PROVE  complete'[w] = {} \/ halted' \/ \E r \in Process : Busy(r)' /\ starting'[r].queue = w
        <4>1. CASE w = q
          BY <2>4, <2>5, <4>1
        <4>2. CASE w # q
          BY <2>2, <2>3, <2>5, <2>8, <3>1, <4>2 DEF SchedulesInv, NoQueueForgotten
        <4>3. QED
          BY <4>1, <4>2
      <3>2. QED
        BY <3>1 DEF NoQueueForgotten
    <2>11. QED
      BY <2>6, <2>7, <2>9, <2>10 DEF SchedulesInv
  <1>6. ASSUME NEW p \in Process, AddJob(p) PROVE SchedulesInv'
    <2> DEFINE q == starting[p].queue
               cron == starting[p].cron
               next == IF q = Queue THEN [Down EXCEPT !.at = "up"]
                       ELSE [starting[p] EXCEPT !.at = "list", !.queue = q + 1]
    <2>1. /\ repeatable' = [repeatable EXCEPT ![q] = repeatable[q] \cup cron]
          /\ complete' = [complete EXCEPT ![q] = cron]
          /\ starting' = [starting EXCEPT ![p] = next]
      BY <1>6 DEF AddJob, Added
    <2>2. /\ starting[p].at = "remove" /\ starting[p].keys = {} /\ UNCHANGED <<halted, together>>
          /\ q \in QueueNo /\ cron \in SUBSET Cron
      BY <1>1, <1>6 DEF AddJob, StartRecord
    <2>3. next \in StartRecord
      <3>1. CASE q = Queue
        BY <3>1, DownIsARecord DEF StartRecord, Down
      <3>2. CASE q # Queue
        <4>1. q + 1 \in QueueNo
          BY <2>2, <3>2, SchedulesAssumption DEF QueueNo
        <4>2. QED
          BY <1>1, <3>2, <4>1 DEF StartRecord
      <3>3. QED
        BY <3>1, <3>2
    <2>4. \/ next.at = "up"
          \/ next.at = "list" /\ next.cron = cron /\ next.queue # q
      <3>1. CASE q = Queue
        BY <3>1 DEF Down
      <3>2. CASE q # Queue
        <4>1. q + 1 # q
          BY <2>2 DEF QueueNo
        <4>2. QED
          BY <1>1, <3>2, <4>1 DEF StartRecord
      <3>3. QED
        BY <3>1, <3>2
    <2> HIDE DEF next, cron, q
    <2>5. /\ repeatable' \in [QueueNo -> SUBSET Cron] /\ complete' \in [QueueNo -> SUBSET Cron]
          /\ repeatable'[q] = repeatable[q] \cup cron /\ complete'[q] = cron
          /\ \A w \in QueueNo : w # q => repeatable'[w] = repeatable[w] /\ complete'[w] = complete[w]
          /\ starting' \in [Process -> StartRecord] /\ starting'[p] = next
          /\ \A r \in Process : r # p => starting'[r] = starting[r]
      BY <1>1, <2>1, <2>2, <2>3
    <2>6. /\ Busy(p) /\ (Busy(p)' <=> next.at = "list")
          /\ \A r \in Process : r # p => Busy(r)' = Busy(r)
          /\ cron # {}
      BY <1>1, <2>2, <2>4, <2>5 DEF Busy, cron
    <2>7. ScheduleTypes'
      BY <1>1, <2>2, <2>4, <2>5, <2>6 DEF ScheduleTypes
    <2>8. AloneAtTheQueue'
      <3>1. ASSUME ~halted, ~together, NEW r \in Process, starting'[r].at = "remove" PROVE FALSE
        <4>1. r # p
          BY <2>4, <2>5, <3>1
        <4>2. QED
          BY <2>5, <2>6, <3>1, <4>1 DEF SchedulesInv, AloneAtTheQueue, Busy
      <3>2. QED
        BY <2>2, <2>5, <2>6, <3>1 DEF SchedulesInv, AloneAtTheQueue
    <2>9. OneSchedulePerQueue'
      <3>1. ASSUME ~halted, ~together, NEW w \in QueueNo,
                   \A r \in Process : Busy(r)' => starting'[r].queue # w
            PROVE  repeatable'[w] = complete'[w]
        <4>1. CASE w = q
          BY <2>2, <2>5, <3>1, <4>1 DEF SchedulesInv, AloneAtTheQueue, q
        <4>2. CASE w # q
          BY <2>5, <2>6, <3>1, <4>2 DEF SchedulesInv, OneSchedulePerQueue, q
        <4>3. QED
          BY <4>1, <4>2
      <3>2. QED
        BY <2>2, <3>1 DEF OneSchedulePerQueue
    <2>10. NoQueueForgotten'
      BY <2>2, <2>5, <2>6 DEF SchedulesInv, NoQueueForgotten, q
    <2>11. QED
      BY <2>7, <2>8, <2>9, <2>10 DEF SchedulesInv
  <1>7. ASSUME NEW p \in Process, Stop(p) PROVE SchedulesInv'
    <2>1. /\ starting' = [starting EXCEPT ![p] = Down] /\ halted' = (halted \/ Busy(p))
          /\ UNCHANGED <<repeatable, complete, together>>
      BY <1>7 DEF Stop
    <2>2. /\ starting'[p].at = "down" /\ starting' \in [Process -> StartRecord]
          /\ \A r \in Process : r # p => starting'[r] = starting[r]
      BY <1>1, <2>1, DownIsARecord DEF Down
    <2>3. ~Busy(p)' /\ \A r \in Process : r # p => Busy(r)' = Busy(r)
      BY <2>2 DEF Busy
    <2>4. ScheduleTypes'
      BY <1>1, <2>1, <2>2, <2>3 DEF ScheduleTypes
    <2>5. AloneAtTheQueue'
      BY <2>1, <2>2, <2>3 DEF SchedulesInv, AloneAtTheQueue
    <2>6. OneSchedulePerQueue'
      BY <2>1, <2>2, <2>3 DEF SchedulesInv, OneSchedulePerQueue
    <2>7. NoQueueForgotten'
      BY <2>1, <2>2, <2>3 DEF SchedulesInv, NoQueueForgotten
    <2>8. QED
      BY <2>4, <2>5, <2>6, <2>7 DEF SchedulesInv
  <1>8. QED
    BY <1>2, <1>3, <1>4, <1>5, <1>6, <1>7 DEF SchedulesNext
-----------------------------------------------------------------------------
(* Configurations in memory *)

LEMMA ConfigStep == [PlatformNext]_platformVars => [ConfigCacheNext]_configVars
  BY DEF PlatformNext, platformVars

GetterRecord ==
  [at : {"idle", "read", "fill", "set"}, on : SUBSET Server, began : Nat, value : Nat \cup {NoValue}]
StampRecord == [value : Nat \cup {NoValue}, at : Nat]

ConfigTypes ==
  /\ version \in Nat /\ now \in Nat /\ oldest \in Nat /\ updatesCrossed \in BOOLEAN
  /\ replaced \in Seq(Nat) /\ Len(replaced) = version
  /\ \A i \in 1..version : replaced[i] =< now
  /\ cached \in [Server -> StampRecord] /\ getter \in [Getter -> GetterRecord]

\* The version v had not been replaced when the clock stood at t.
GoodAt(v, t) == v \in Nat /\ v =< version /\ t =< now /\ (v < version => replaced[v + 1] >= t)

(* What a process keeps was the row when it took the time it keeps with it, and what a
   call is about to keep was the row after the call had begun. *)
StampsAreGood ==
  /\ ~updatesCrossed => \A s \in Server : cached[s].value # NoValue => GoodAt(cached[s].value, cached[s].at)
  /\ \A g \in Getter :
       /\ getter[g].began =< now
       /\ getter[g].at = "fill" => GoodAt(getter[g].value, getter[g].began)
       /\ getter[g].at = "set" => getter[g].value \in Nat /\ getter[g].value =< version

ConfigInv == ConfigTypes /\ StampsAreGood /\ UpdatesSeenWithinTtl

LEMMA InitConfig == ConfigCacheInit => ConfigInv
  <1> SUFFICES ASSUME ConfigCacheInit PROVE ConfigInv
    OBVIOUS
  <1>1. ConfigTypes
    <2>1. Stamp(NoValue, 0) \in StampRecord /\ GetterIdle \in GetterRecord
      BY DEF StampRecord, GetterRecord, Stamp, GetterIdle, NoValue
    <2>2. cached \in [Server -> StampRecord] /\ getter \in [Getter -> GetterRecord]
      BY <2>1 DEF ConfigCacheInit
    <2>3. /\ version = 0 /\ now = 0 /\ oldest = 0 /\ replaced = <<>>
          /\ updatesCrossed \in BOOLEAN
      BY DEF ConfigCacheInit
    <2>4. replaced \in Seq(Nat) /\ Len(replaced) = version
      BY <2>3
    <2>5. QED
      BY <2>2, <2>3, <2>4 DEF ConfigTypes
  <1>2. StampsAreGood /\ UpdatesSeenWithinTtl
    BY ConfigCacheAssumption
    DEF ConfigCacheInit, StampsAreGood, UpdatesSeenWithinTtl, Stamp, GetterIdle, NoValue
  <1>3. QED
    BY <1>1, <1>2 DEF ConfigInv

\* A version that was good when the clock stood at t is not old a Ttl later.
LEMMA GoodIsYoung ==
  ASSUME ConfigInv, NEW v, NEW t \in Nat, GoodAt(v, t), NEW u \in Nat, u - t < Ttl, Ttl \in Nat \ {0}
  PROVE  Age(v, u) \in Nat /\ Age(v, u) < Ttl
  <1>1. v \in Nat /\ v =< version /\ version \in Nat
    BY DEF GoodAt, ConfigInv, ConfigTypes
  <1>2. CASE v < version
    <2>1. v + 1 \in 1..version
      BY <1>1, <1>2
    <2>2. replaced[v + 1] \in Nat /\ replaced[v + 1] >= t
      BY <1>2, <2>1 DEF GoodAt, ConfigInv, ConfigTypes
    <2>3. QED
      BY <1>2, <2>2 DEF Age
  <1>3. CASE ~(v < version)
    BY <1>3 DEF Age
  <1>4. QED
    BY <1>2, <1>3

LEMMA NextConfig == ConfigInv /\ [ConfigCacheNext]_configVars => ConfigInv'
  <1> SUFFICES ASSUME ConfigInv, [ConfigCacheNext]_configVars PROVE ConfigInv'
    OBVIOUS
  <1>1. /\ version \in Nat /\ now \in Nat /\ oldest \in Nat /\ updatesCrossed \in BOOLEAN
        /\ replaced \in Seq(Nat) /\ Len(replaced) = version
        /\ \A i \in 1..version : replaced[i] =< now
        /\ cached \in [Server -> StampRecord] /\ getter \in [Getter -> GetterRecord]
        /\ Ttl \in Nat \ {0}
    BY ConfigCacheAssumption DEF ConfigInv, ConfigTypes
  <1>2. ASSUME UNCHANGED <<version, replaced, now, cached, getter, oldest, updatesCrossed>>
        PROVE  ConfigInv'
    BY <1>2 DEF ConfigInv, ConfigTypes, StampsAreGood, UpdatesSeenWithinTtl, GoodAt
  <1>3. ASSUME NEW s \in Server, GetCached(s) PROVE ConfigInv'
    <2>1. /\ UNCHANGED <<version, replaced, now, cached, getter, updatesCrossed>>
          /\ cached[s].value # NoValue /\ now - cached[s].at < Ttl /\ cached[s].at \in Nat
          /\ \/ oldest' = oldest
             \/ oldest' = Age(cached[s].value, now) /\ oldest' > oldest
      BY <1>1, <1>3 DEF GetCached, Fresh, Serve, StampRecord
    <2>2. oldest' \in Nat /\ UpdatesSeenWithinTtl'
      <3>1. CASE oldest' = oldest
        BY <1>1, <2>1, <3>1 DEF ConfigInv, UpdatesSeenWithinTtl
      <3>2. CASE oldest' = Age(cached[s].value, now) /\ ~updatesCrossed
        BY <1>1, <2>1, <3>2, GoodIsYoung DEF ConfigInv, StampsAreGood, UpdatesSeenWithinTtl
      <3>3. CASE oldest' = Age(cached[s].value, now) /\ updatesCrossed
        <4>1. cached[s].value \in Nat
          BY <1>1, <2>1 DEF StampRecord
        <4>2. cached[s].value < version => replaced[cached[s].value + 1] \in Nat
          BY <1>1, <4>1
        <4>3. Age(cached[s].value, now) \in Nat
          BY <1>1, <4>1, <4>2 DEF Age
        <4>4. QED
          BY <2>1, <3>3, <4>3 DEF UpdatesSeenWithinTtl
      <3>4. QED
        BY <2>1, <3>1, <3>2, <3>3
    <2>3. QED
      BY <2>1, <2>2 DEF ConfigInv, ConfigTypes, StampsAreGood, GoodAt
  <1>4. ASSUME NEW g \in Getter, NEW s \in Server, BeginGet(g, s) PROVE ConfigInv'
    <2>1. /\ getter' = [getter EXCEPT ![g] = [at |-> "read", on |-> {s}, began |-> now, value |-> NoValue]]
          /\ UNCHANGED <<version, replaced, now, cached, oldest, updatesCrossed>>
      BY <1>4, Zenon DEF BeginGet
    <2>2. /\ getter' \in [Getter -> GetterRecord] /\ getter'[g].at = "read" /\ getter'[g].began = now
          /\ \A h \in Getter : h # g => getter'[h] = getter[h]
      BY <1>1, <2>1 DEF GetterRecord
    <2>3. ConfigTypes' /\ UpdatesSeenWithinTtl'
      BY <2>1, <2>2 DEF ConfigInv, ConfigTypes, UpdatesSeenWithinTtl
    <2>4. StampsAreGood'
      BY <1>1, <2>1, <2>2 DEF ConfigInv, StampsAreGood, GoodAt
    <2>5. QED
      BY <2>3, <2>4 DEF ConfigInv
  <1>5. ASSUME NEW g \in Getter, NEW s \in Server, UpdateRow(g, s) PROVE ConfigInv'
    <2>1. /\ getter' = [getter EXCEPT
               ![g] = [at |-> "set", on |-> {s}, began |-> now, value |-> version + 1]]
          /\ UNCHANGED <<now, cached, oldest, updatesCrossed>>
          /\ version' = version + 1 /\ replaced' = Append(replaced, now)
      BY <1>5, Zenon DEF UpdateRow
    <2>2. /\ getter' \in [Getter -> GetterRecord] /\ getter'[g].at = "set" /\ getter'[g].began = now
          /\ getter'[g].value = version + 1
          /\ \A h \in Getter : h # g => getter'[h] = getter[h]
      BY <1>1, <2>1 DEF GetterRecord
    <2>3. /\ replaced' \in Seq(Nat) /\ Len(replaced') = version'
          /\ replaced'[version + 1] = now
          /\ \A i \in 1..version : replaced'[i] = replaced[i]
      BY <1>1, <2>1
    <2>4. ASSUME NEW v, NEW t, GoodAt(v, t) PROVE GoodAt(v, t)'
      <3>1. CASE v = version
        BY <1>1, <2>1, <2>3, <2>4, <3>1 DEF GoodAt
      <3>2. CASE v < version
        BY <1>1, <2>1, <2>3, <2>4, <3>2 DEF GoodAt
      <3>3. QED
        BY <1>1, <2>4, <3>1, <3>2 DEF GoodAt
    <2>5. ConfigTypes' /\ UpdatesSeenWithinTtl'
      BY <1>1, <2>1, <2>2, <2>3 DEF ConfigInv, ConfigTypes, UpdatesSeenWithinTtl
    <2>6. StampsAreGood'
      <3>1. ~updatesCrossed' => \A x \in Server :
              cached'[x].value # NoValue => GoodAt(cached[x].value, cached[x].at)'
        BY <2>1, <2>4 DEF ConfigInv, StampsAreGood
      <3>2. ASSUME NEW h \in Getter
            PROVE  /\ getter'[h].began =< now'
                   /\ getter'[h].at = "fill" => GoodAt(getter[h].value, getter[h].began)'
                   /\ getter'[h].at = "set" => getter'[h].value \in Nat /\ getter'[h].value =< version'
        <4>1. CASE h = g
          BY <1>1, <2>1, <2>2, <4>1
        <4>2. CASE h # g
          <5>1. getter'[h] = getter[h]
            BY <2>2, <4>2
          <5>2. getter[h].at = "fill" => GoodAt(getter[h].value, getter[h].began)'
            BY <2>4, <5>1 DEF ConfigInv, StampsAreGood
          <5>3. QED
            BY <1>1, <2>1, <5>1, <5>2 DEF ConfigInv, StampsAreGood
        <4>3. QED
          BY <4>1, <4>2
      <3>3. QED
        BY <3>1, <3>2 DEF StampsAreGood
    <2>7. QED
      BY <2>5, <2>6 DEF ConfigInv
  <1>6. ASSUME NEW g \in Getter, ReadConfig(g) PROVE ConfigInv'
    <2>1. /\ getter' = [getter EXCEPT ![g].at = "fill", ![g].value = version]
          /\ UNCHANGED <<version, replaced, now, cached, oldest, updatesCrossed>>
      BY <1>6 DEF ReadConfig
    <2>2. /\ getter' \in [Getter -> GetterRecord] /\ getter'[g].at = "fill"
          /\ getter'[g].began = getter[g].began /\ getter'[g].value = version
          /\ \A h \in Getter : h # g => getter'[h] = getter[h]
      BY <1>1, <2>1 DEF GetterRecord
    <2>3. ConfigTypes' /\ UpdatesSeenWithinTtl'
      BY <2>1, <2>2 DEF ConfigInv, ConfigTypes, UpdatesSeenWithinTtl
    <2>4. StampsAreGood'
      BY <1>1, <2>1, <2>2 DEF ConfigInv, StampsAreGood, GoodAt
    <2>5. QED
      BY <2>3, <2>4 DEF ConfigInv
  <1>7. ASSUME NEW g \in Getter, FillConfig(g) PROVE ConfigInv'
    <2> DEFINE v == getter[g].value
               t == getter[g].began
    <2>1. /\ getter[g].at = "fill" /\ GoodAt(v, t) /\ t \in Nat /\ v \in Nat
          /\ cached' = [s \in Server |-> IF s \in getter[g].on THEN Stamp(v, t) ELSE cached[s]]
          /\ getter' = [getter EXCEPT ![g] = GetterIdle]
          /\ UNCHANGED <<version, replaced, now, updatesCrossed>>
          /\ oldest' = IF Age(v, t) > oldest THEN Age(v, t) ELSE oldest
      BY <1>1, <1>7 DEF FillConfig, ConfigInv, StampsAreGood, GoodAt, StampedAt, Serve, GetterRecord
    <2> HIDE DEF v, t
    <2>2. Age(v, t) \in Nat /\ Age(v, t) < Ttl
      BY <1>1, <2>1, GoodIsYoung
    <2>3. oldest' \in Nat /\ UpdatesSeenWithinTtl'
      BY <1>1, <2>1, <2>2 DEF ConfigInv, UpdatesSeenWithinTtl
    <2>4. /\ getter' \in [Getter -> GetterRecord] /\ getter'[g].at = "idle" /\ getter'[g].began = 0
          /\ \A h \in Getter : h # g => getter'[h] = getter[h]
      BY <1>1, <2>1 DEF GetterRecord, GetterIdle
    <2>5. Stamp(v, t) \in StampRecord /\ Stamp(v, t).value = v /\ Stamp(v, t).at = t
      BY <2>1 DEF Stamp, StampRecord
    <2>6. cached' \in [Server -> StampRecord]
      BY <1>1, <2>1, <2>5
    <2>7. ASSUME ~updatesCrossed, NEW s \in Server, cached'[s].value # NoValue
          PROVE  GoodAt(cached[s].value, cached[s].at)'
      <3>1. CASE cached'[s] = Stamp(v, t)
        BY <2>1, <2>5, <3>1 DEF GoodAt
      <3>2. CASE cached'[s] = cached[s]
        BY <2>1, <2>7, <3>2 DEF ConfigInv, StampsAreGood, GoodAt
      <3>3. QED
        BY <2>1, <3>1, <3>2
    <2>8. ConfigTypes' /\ StampsAreGood'
      BY <1>1, <2>1, <2>3, <2>4, <2>6, <2>7 DEF ConfigInv, ConfigTypes, StampsAreGood, GoodAt
    <2>9. QED
      BY <2>3, <2>8 DEF ConfigInv
  <1>8. ASSUME NEW g \in Getter, SetCache(g) PROVE ConfigInv'
    <2> DEFINE v == getter[g].value
    <2>1. /\ v \in Nat /\ v =< version
          /\ cached' = [s \in Server |-> IF s \in getter[g].on THEN Stamp(v, now) ELSE cached[s]]
          /\ getter' = [getter EXCEPT ![g] = GetterIdle]
          /\ UNCHANGED <<version, replaced, now, oldest>>
          /\ updatesCrossed' = (updatesCrossed \/ v < version)
      BY <1>8 DEF SetCache, ConfigInv, StampsAreGood
    <2> HIDE DEF v
    <2>2. /\ getter' \in [Getter -> GetterRecord] /\ getter'[g].at = "idle" /\ getter'[g].began = 0
          /\ \A h \in Getter : h # g => getter'[h] = getter[h]
      BY <1>1, <2>1 DEF GetterRecord, GetterIdle
    <2>3. Stamp(v, now) \in StampRecord /\ Stamp(v, now).value = v /\ Stamp(v, now).at = now
      BY <1>1, <2>1 DEF Stamp, StampRecord
    <2>4. cached' \in [Server -> StampRecord]
      BY <1>1, <2>1, <2>3
    <2>5. ASSUME ~updatesCrossed', NEW s \in Server, cached'[s].value # NoValue
          PROVE  GoodAt(cached[s].value, cached[s].at)'
      <3>1. ~updatesCrossed /\ v = version
        <4>1. ~(updatesCrossed \/ v < version)
          BY <2>1, <2>5, Zenon
        <4>2. QED
          BY <1>1, <2>1, <4>1
      <3>2. CASE cached'[s] = Stamp(v, now)
        BY <1>1, <2>1, <2>3, <3>1, <3>2 DEF GoodAt
      <3>3. CASE cached'[s] = cached[s]
        BY <2>1, <2>5, <3>1, <3>3 DEF ConfigInv, StampsAreGood, GoodAt
      <3>4. QED
        BY <2>1, <3>2, <3>3
    <2>6. updatesCrossed' \in BOOLEAN
      BY <1>1, <2>1
    <2>7. ConfigTypes' /\ StampsAreGood'
      BY <1>1, <2>1, <2>2, <2>4, <2>5, <2>6 DEF ConfigInv, ConfigTypes, StampsAreGood, GoodAt
    <2>8. UpdatesSeenWithinTtl'
      BY <2>1 DEF ConfigInv, UpdatesSeenWithinTtl
    <2>9. QED
      BY <2>7, <2>8 DEF ConfigInv
  <1>9. ASSUME PassTime PROVE ConfigInv'
    <2>1. now' = now + 1 /\ UNCHANGED <<version, replaced, cached, getter, oldest, updatesCrossed>>
      BY <1>9 DEF PassTime
    <2>2. ConfigTypes' /\ UpdatesSeenWithinTtl'
      BY <1>1, <2>1 DEF ConfigInv, ConfigTypes, UpdatesSeenWithinTtl
    <2>3. ASSUME NEW v, NEW t, t \in Nat, GoodAt(v, t) PROVE GoodAt(v, t)'
      BY <1>1, <2>1, <2>3 DEF GoodAt
    <2>4. StampsAreGood'
      <3>1. ASSUME NEW h \in Getter
            PROVE  /\ getter'[h].began =< now'
                   /\ getter'[h].at = "fill" => GoodAt(getter[h].value, getter[h].began)'
                   /\ getter'[h].at = "set" => getter'[h].value \in Nat /\ getter'[h].value =< version'
        BY <1>1, <2>1, <2>3 DEF ConfigInv, StampsAreGood, GetterRecord
      <3>2. ~updatesCrossed' => \A x \in Server :
              cached'[x].value # NoValue => GoodAt(cached[x].value, cached[x].at)'
        BY <1>1, <2>1, <2>3 DEF ConfigInv, StampsAreGood, StampRecord
      <3>3. QED
        BY <3>1, <3>2 DEF StampsAreGood
    <2>5. QED
      BY <2>2, <2>4 DEF ConfigInv
  <1>10. QED
    BY <1>2, <1>3, <1>4, <1>5, <1>6, <1>7, <1>8, <1>9 DEF ConfigCacheNext, configVars

(* However many processes start, stop or die while they set their queues up, a queue has the
   one job of the release started last unless two starts overlapped or one died, and is never
   left without one by a start that went through; and however slow the reads and however many
   the processes, nobody is given a configuration that was replaced a minute ago or more,
   unless two updates crossed. *)
THEOREM ProcessesAgreeAlways == PlatformSpec => []ProcessesAgree
  <1>1. SchedulesInv /\ ConfigInv => ProcessesAgree
    BY DEF SchedulesInv, ConfigInv, ProcessesAgree
  <1>2. PlatformInit => SchedulesInv /\ ConfigInv
    BY InitSchedules, InitConfig DEF PlatformInit
  <1>3. SchedulesInv /\ ConfigInv /\ [PlatformNext]_platformVars => SchedulesInv' /\ ConfigInv'
    BY SchedulesStep, ConfigStep, NextSchedules, NextConfig
  <1>4. QED
    BY <1>1, <1>2, <1>3, PTL DEF PlatformSpec
-----------------------------------------------------------------------------
(* The conversations of a browser *)

LEMMA MigrationStep == [PlatformNext]_platformVars => [AnonMigrationNext]_migrationVars
  BY DEF PlatformNext, platformVars

\* The messages of some copies, as a sum of integers.
MessagesIn(S) == MapThenSumSet(LAMBDA x : x.upTo, S)
UpTo(S) == [x \in S |-> x.upTo]

LEMMA MessagesAreTotal ==
  ASSUME NEW S, IsFiniteSet(S), \A x \in S : x.upTo \in Int
  PROVE  MessagesIn(S) = SumOver(UpTo(S), S)
  <1> DEFINE F == UpTo(S)
             Solves(it) == it = [s \in SUBSET S |->
               IF s = {} THEN 0 ELSE (CHOOSE x \in s : TRUE).upTo + it[s \ {CHOOSE x \in s : TRUE}]]
             h == CHOOSE it : it = [s \in SUBSET S |->
               IF s = {} THEN 0 ELSE (CHOOSE x \in s : TRUE).upTo + it[s \ {CHOOSE x \in s : TRUE}]]
  <1>1. \A s \in SUBSET S : s # {} => F[CHOOSE x \in s : TRUE] = (CHOOSE x \in s : TRUE).upTo
    BY DEF UpTo
  <1>2. \A it : Solves(it) <=> Summed(F, S, it)
    <2> HIDE DEF F
    <2>1. QED
      BY <1>1 DEF Summed, SumFrom, Picked
  <1>3. \A x \in S : F[x] \in Int
    BY DEF UpTo
  <1> HIDE DEF F
  <1>4. PICK g \in [SUBSET S -> Int] : Summed(F, S, g)
    BY <1>3, SumExists
  <1>5. h = CHOOSE it : Solves(it)
    OBVIOUS
  <1>6. MessagesIn(S) = h[S]
    BY DEF MessagesIn, MapThenSumSet, MapThenFoldSet
  <1> HIDE DEF Solves, h
  <1>7. Summed(F, S, h)
    BY <1>2, <1>4, <1>5
  <1>8. S \in SUBSET S
    OBVIOUS
  <1>9. SumOver(F, S) = h[S]
    BY <1>7, <1>8, TotalIs
  <1>10. QED
    BY <1>6, <1>9 DEF F


\* One copy more adds its messages.
LEMMA MessagesAdd ==
  ASSUME NEW S, IsFiniteSet(S), \A x \in S : x.upTo \in Int, NEW a, a \notin S, a.upTo \in Int
  PROVE  MessagesIn(S \cup {a}) = MessagesIn(S) + a.upTo
  <1> DEFINE T == S \cup {a}
             F == UpTo(T)
             G == UpTo(S)
  <1>1. IsFiniteSet(T) /\ \A x \in T : x.upTo \in Int
    BY FS_AddElement
  <1>2. /\ \A x \in S \cup {a} : F[x] \in Int
        /\ \A x \in S : F[x] \in Int /\ F[x] = G[x]
        /\ F[a] = a.upTo
    BY DEF UpTo
  <1>3. MessagesIn(T) = SumOver(F, T) /\ MessagesIn(S) = SumOver(G, S)
    <2>1. MessagesIn(S) = SumOver(G, S)
      BY MessagesAreTotal
    <2>2. MessagesIn(T) = SumOver(F, T)
      <3> HIDE DEF T
      <3>1. QED
        BY <1>1, MessagesAreTotal
    <2>3. QED
      BY <2>1, <2>2
  <1> HIDE DEF F, G
  <1>4. SumOver(F, S \cup {a}) = SumOver(F, S) + F[a]
    BY <1>2, TotalAdd
  <1>5. SumOver(F, S) = SumOver(G, S)
    BY <1>2, TotalSame
  <1>6. QED
    BY <1>2, <1>3, <1>4, <1>5

LoginRecord ==
  [at : {"idle", "copy", "add", "emit", "done"}, todo : SUBSET Trial, upTo : [Trial -> Nat], done : Nat]
CopyRecord == [of : Trial, by : LoginOf, upTo : Nat]

MigrationTypes ==
  /\ said \in [Trial -> Nat] /\ late \in [Trial -> Nat] /\ opened \subseteq Trial
  /\ copies \subseteq CopyRecord /\ IsFiniteSet(copies)
  /\ movedTo \subseteq LoginOf /\ login \in [LoginOf -> LoginRecord]
  /\ trialCount \in Nat /\ dropped \in Nat /\ sideBySide \in BOOLEAN

(* A login has not begun before it has copied anything, and copies nothing a second time;
   what it has copied and not counted is forgotten when it goes on. *)
LoginsGoForward ==
  /\ \A x \in copies : login[x.by].at # "idle" /\ x.of \notin login[x.by].todo
  /\ \A l \in LoginOf : login[l].at \notin {"copy", "add"} => login[l].done = 0
  /\ movedTo # {} => \E l \in LoginOf : login[l].at # "idle"

(* A login that migrates alone copies what nobody has copied. *)
OneMigrates ==
  ~sideBySide =>
    /\ \A l, k \in LoginOf : Migrating(l) /\ Migrating(k) => l = k
    /\ \A l \in LoginOf : login[l].at = "copy" => \A c \in login[l].todo : Unmigrated(c)

(* What was read of a conversation is all of it until the visitor goes on writing, and a
   conversation that is not on a login's list any more has been copied or has no messages. *)
NothingForgotten ==
  /\ \A c \in Trial : said[c] # 0 => c \in opened
  /\ \A x \in copies : late[x.of] = 0 => x.upTo = said[x.of]
  /\ \A l \in LoginOf : login[l].at = "copy" => \A c \in Trial : late[c] = 0 =>
       /\ login[l].upTo[c] = said[c]
       /\ c \in login[l].todo \/ said[c] = 0 \/ \E x \in copies : x.of = c

\* What logins have copied and not yet counted.
Uncounted(lg) == [l \in LoginOf |-> lg[l].done]
MessagesCounted == trialCount + dropped + SumOver(Uncounted(login), LoginOf) = MessagesIn(copies)

MigrationInv ==
  /\ MigrationTypes /\ LoginsGoForward /\ OneMigrates /\ CopiedOnce
  /\ NothingForgotten /\ NothingLeftBehind /\ MessagesCounted

LEMMA LoginStartsIdle ==
  LoginIdle \in LoginRecord /\ LoginIdle.at = "idle" /\ LoginIdle.done = 0 /\ LoginIdle.todo = {}
  BY DEF LoginIdle, LoginRecord

LEMMA MessagesOfNone == MessagesIn({}) = 0
  <1>1. IsFiniteSet({}) /\ \A x \in {} : x.upTo \in Int
    BY FS_EmptySet
  <1>2. MessagesIn({}) = SumOver(UpTo({}), {})
    BY <1>1, MessagesAreTotal
  <1>3. QED
    BY <1>2, TotalEmpty

LEMMA NothingUncounted ==
  ASSUME \A l \in LoginOf : login[l].done = 0
  PROVE  SumOver(Uncounted(login), LoginOf) = 0
  <1> DEFINE F == Uncounted(login)
  <1>1. \A l \in LoginOf : F[l] = 0
    BY DEF Uncounted
  <1> HIDE DEF F
  <1>2. SumOver(F, LoginOf) = 0
    BY <1>1, AnonMigrationAssumption, TotalZero
  <1>3. QED
    BY <1>2 DEF F

LEMMA InitMigration == AnonMigrationInit => MigrationInv
  <1> SUFFICES ASSUME AnonMigrationInit PROVE MigrationInv
    OBVIOUS
  <1>1. /\ said = [c \in Trial |-> 0] /\ late = [c \in Trial |-> 0] /\ opened = {} /\ copies = {}
        /\ movedTo = {} /\ trialCount = 0 /\ dropped = 0 /\ sideBySide = FALSE
        /\ login = [l \in LoginOf |-> LoginIdle]
    BY DEF AnonMigrationInit
  <1>2. MigrationTypes
    BY <1>1, LoginStartsIdle, FS_EmptySet DEF MigrationTypes
  <1>3. LoginsGoForward /\ OneMigrates /\ CopiedOnce /\ NothingForgotten /\ NothingLeftBehind
    BY <1>1, LoginStartsIdle
    DEF LoginsGoForward, OneMigrates, CopiedOnce, NothingForgotten, NothingLeftBehind, Migrating
  <1>4. MessagesCounted
    <2>1. \A l \in LoginOf : login[l].done = 0
      BY <1>1, LoginStartsIdle
    <2>2. QED
      BY <1>1, <2>1, NothingUncounted, MessagesOfNone DEF MessagesCounted
  <1>5. QED
    BY <1>2, <1>3, <1>4 DEF MigrationInv

(* A step that counts, drops or copies messages does it with those of its login. *)
LEMMA StillCounted ==
  ASSUME MigrationInv, NEW l \in LoginOf, login' \in [LoginOf -> LoginRecord],
         \A k \in LoginOf : k # l => login'[k] = login[k],
         NEW d \in Int, MessagesIn(copies') = MessagesIn(copies) + d, MessagesIn(copies) \in Int,
         trialCount' \in Int, dropped' \in Int,
         trialCount' + dropped' + login'[l].done = trialCount + dropped + login[l].done + d
  PROVE  MessagesCounted'
  <1> DEFINE F == Uncounted(login)
             G == Uncounted(login')
  <1>1. login \in [LoginOf -> LoginRecord] /\ trialCount \in Nat /\ dropped \in Nat
    BY DEF MigrationInv, MigrationTypes
  <1>2. /\ \A k \in LoginOf : F[k] \in Int /\ G[k] \in Int
        /\ \A k \in LoginOf \ {l} : F[k] = G[k]
        /\ F[l] = login[l].done /\ G[l] = login'[l].done
    BY <1>1 DEF Uncounted, LoginRecord
  <1>3. trialCount + dropped + SumOver(F, LoginOf) = MessagesIn(copies)
    BY DEF MigrationInv, MessagesCounted
  <1> HIDE DEF F
  <1>4. SumOver(F, LoginOf) \in Int
    BY <1>2, AnonMigrationAssumption, TotalType
  <1>5. trialCount' + dropped' + SumOver(G, LoginOf) = MessagesIn(copies')
    <2> HIDE DEF G
    <2>1. SumOver(G, LoginOf) = SumOver(F, LoginOf) - F[l] + G[l]
      BY <1>2, AnonMigrationAssumption, TotalReplace
    <2>2. QED
      BY <1>1, <1>2, <1>3, <1>4, <2>1
  <1>6. QED
    BY <1>5 DEF MessagesCounted

(* What the steps of one login leave as it was, and what the others then still know. *)
LEMMA OthersGoOn ==
  ASSUME MigrationInv, NEW l \in LoginOf,
         login' \in [LoginOf -> LoginRecord], \A k \in LoginOf : k # l => login'[k] = login[k],
         login'[l].at # "idle", login[l].at = "idle" => movedTo # {},
         login'[l].todo \subseteq login[l].todo,
         login'[l].at = "copy" =>
           /\ login[l].at = "copy" /\ login'[l].upTo = login[l].upTo
           /\ \A c \in login[l].todo : c \in login'[l].todo \/ \E x \in copies' : x.of = c,
         login'[l].at \notin {"copy", "add"} => login'[l].done = 0,
         login[l].at \in {"idle", "done"} => login'[l].at = "done",
         copies' = copies, movedTo' \subseteq LoginOf, UNCHANGED <<said, late, opened, sideBySide>>
  PROVE  LoginsGoForward' /\ OneMigrates' /\ CopiedOnce' /\ NothingForgotten'
  <1>1. login \in [LoginOf -> LoginRecord] /\ copies \subseteq CopyRecord
    BY DEF MigrationInv, MigrationTypes
  <1>2. LoginsGoForward'
    <2>1. \A x \in copies : x.by \in LoginOf
      BY <1>1 DEF CopyRecord
    <2>2. \A x \in copies : login'[x.by].at # "idle" /\ x.of \notin login'[x.by].todo
      BY <2>1 DEF MigrationInv, LoginsGoForward
    <2>3. QED
      BY <2>2 DEF MigrationInv, LoginsGoForward
  <1>3. \A k \in LoginOf : Migrating(k)' => Migrating(k)
    BY DEF Migrating
  <1>4. OneMigrates'
    <2>1. ASSUME ~sideBySide, NEW k \in LoginOf, login'[k].at = "copy", NEW c \in login'[k].todo
          PROVE  Unmigrated(c)'
      <3>1. login[k].at = "copy" /\ c \in login[k].todo
        BY <2>1
      <3>2. QED
        BY <2>1, <3>1 DEF MigrationInv, OneMigrates, Unmigrated
    <2>2. QED
      BY <1>3, <2>1 DEF MigrationInv, OneMigrates
  <1>5. CopiedOnce'
    BY DEF MigrationInv, CopiedOnce
  <1>6. NothingForgotten'
    <2>1. ASSUME NEW k \in LoginOf, login'[k].at = "copy", NEW c \in Trial, late[c] = 0
          PROVE  /\ login'[k].upTo[c] = said[c]
                 /\ c \in login'[k].todo \/ said[c] = 0 \/ \E x \in copies' : x.of = c
      <3>1. login[k].at = "copy" /\ login'[k].upTo = login[k].upTo
        BY <2>1
      <3>2. \/ c \in login[k].todo \/ said[c] = 0
            \/ \E x \in copies : x.of = c
        BY <2>1, <3>1 DEF MigrationInv, NothingForgotten
      <3>3. QED
        BY <2>1, <3>1, <3>2 DEF MigrationInv, NothingForgotten
    <2>2. QED
      BY <2>1 DEF MigrationInv, NothingForgotten
  <1>7. QED
    BY <1>2, <1>4, <1>5, <1>6

LEMMA NextMigration == MigrationInv /\ [AnonMigrationNext]_migrationVars => MigrationInv'
  <1> SUFFICES ASSUME MigrationInv, [AnonMigrationNext]_migrationVars PROVE MigrationInv'
    OBVIOUS
  <1>1. /\ said \in [Trial -> Nat] /\ late \in [Trial -> Nat] /\ opened \subseteq Trial
        /\ copies \subseteq CopyRecord /\ IsFiniteSet(copies)
        /\ movedTo \subseteq LoginOf /\ login \in [LoginOf -> LoginRecord]
        /\ trialCount \in Nat /\ dropped \in Nat /\ sideBySide \in BOOLEAN
    BY DEF MigrationInv, MigrationTypes
  <1>2. /\ \A x \in copies : x.upTo \in Int /\ x.of \in Trial /\ x.by \in LoginOf
        /\ \A l \in LoginOf : login[l].done \in Nat
    BY <1>1 DEF CopyRecord, LoginRecord
  <1>3. MessagesIn(copies) \in Int
    <2> DEFINE F == UpTo(copies)
    <2>1. \A x \in copies : F[x] \in Int
      BY <1>2 DEF UpTo
    <2>2. MessagesIn(copies) = SumOver(F, copies)
      BY <1>1, <1>2, MessagesAreTotal
    <2> HIDE DEF F
    <2>3. QED
      BY <1>1, <2>1, <2>2, TotalType
  <1>4. ASSUME UNCHANGED migrationVars PROVE MigrationInv'
    <2>1. MessagesCounted'
      BY <1>4 DEF migrationVars, MigrationInv, MessagesCounted
    <2>2. QED
      BY <1>4, <2>1 DEF migrationVars, MigrationInv, MigrationTypes, LoginsGoForward, OneMigrates, CopiedOnce,
         NothingForgotten, NothingLeftBehind, Migrating, Unmigrated
  <1>5. ASSUME NEW c \in Trial, OpenTrial(c) PROVE MigrationInv'
    <2>1. /\ c \notin opened /\ opened' = opened \cup {c}
          /\ UNCHANGED <<said, copies, movedTo, login, trialCount, dropped, late, sideBySide>>
      BY <1>5 DEF OpenTrial
    <2>2. MessagesCounted'
      BY <2>1 DEF MigrationInv, MessagesCounted
    <2>3. MigrationTypes' /\ LoginsGoForward' /\ OneMigrates' /\ CopiedOnce' /\ NothingForgotten'
      BY <2>1 DEF MigrationInv, MigrationTypes, LoginsGoForward, OneMigrates, CopiedOnce,
         NothingForgotten, Migrating, Unmigrated
    <2>4. NothingLeftBehind'
      BY <1>1, <2>1 DEF MigrationInv, NothingForgotten, NothingLeftBehind
    <2>5. QED
      BY <2>2, <2>3, <2>4 DEF MigrationInv
  <1>6. ASSUME NEW c \in Trial, Say(c) PROVE MigrationInv'
    <2>1. /\ c \in opened /\ said' = [said EXCEPT ![c] = said[c] + 1]
          /\ late' = [late EXCEPT ![c] = IF Read(c) THEN late[c] + 1 ELSE late[c]]
          /\ UNCHANGED <<opened, copies, movedTo, login, trialCount, dropped, sideBySide>>
      BY <1>6 DEF Say
    <2>2. /\ said' \in [Trial -> Nat] /\ late' \in [Trial -> Nat]
          /\ \A b \in Trial : b # c => said'[b] = said[b] /\ late'[b] = late[b]
          /\ Read(c) => late'[c] > 0
      BY <1>1, <2>1
    <2>3. MessagesCounted'
      BY <2>1 DEF MigrationInv, MessagesCounted
    <2>4. MigrationTypes' /\ LoginsGoForward' /\ OneMigrates' /\ CopiedOnce'
      BY <2>1, <2>2 DEF MigrationInv, MigrationTypes, LoginsGoForward, OneMigrates, CopiedOnce,
         Migrating, Unmigrated
    <2>5. \A l \in LoginOf : login[l].at # "idle" => Read(c)
      BY DEF Read
    <2>6. NothingForgotten'
      <3>1. ASSUME NEW b \in Trial, said'[b] # 0 PROVE b \in opened
        BY <2>1, <2>2, <3>1 DEF MigrationInv, NothingForgotten
      <3>2. ASSUME NEW x \in copies, late'[x.of] = 0 PROVE x.upTo = said'[x.of]
        <4>1. x.of # c
          <5>1. login[x.by].at # "idle"
            BY DEF MigrationInv, LoginsGoForward
          <5>2. Read(c)
            BY <1>2, <2>5, <5>1
          <5>3. QED
            BY <2>2, <3>2, <5>2
        <4>2. QED
          BY <1>2, <2>2, <3>2, <4>1 DEF MigrationInv, NothingForgotten
      <3>3. ASSUME NEW l \in LoginOf, login[l].at = "copy", NEW b \in Trial, late'[b] = 0
            PROVE  /\ login[l].upTo[b] = said'[b]
                   /\ b \in login[l].todo \/ said'[b] = 0 \/ \E x \in copies : x.of = b
        <4>1. b # c
          BY <2>2, <2>5, <3>3
        <4>2. QED
          BY <2>2, <3>3, <4>1 DEF MigrationInv, NothingForgotten
      <3>4. QED
        BY <2>1, <3>1, <3>2, <3>3 DEF NothingForgotten
    <2>7. NothingLeftBehind'
      <3>1. movedTo # {} => Read(c)
        BY <2>5 DEF MigrationInv, LoginsGoForward
      <3>2. QED
        BY <1>1, <2>1, <2>2, <3>1 DEF MigrationInv, NothingLeftBehind
    <2>8. QED
      BY <2>3, <2>4, <2>6, <2>7 DEF MigrationInv
  <1>7. ASSUME NEW l \in LoginOf, ReadTrial(l), movedTo = {} PROVE MigrationInv'
    <2> DEFINE todo == {c \in opened : Unmigrated(c)}
    <2>1. /\ login[l].at = "idle" /\ UNCHANGED <<said, opened, copies, movedTo, trialCount, dropped, late>>
          /\ login' = [login EXCEPT ![l] = [login[l] EXCEPT !.at = "copy", !.todo = todo, !.upTo = said]]
          /\ sideBySide' = (sideBySide \/ \E x \in LoginOf : Migrating(x))
      BY <1>7 DEF ReadTrial
    <2>2. /\ todo \subseteq Trial /\ \A c \in todo : c \in opened /\ Unmigrated(c)
          /\ \A c \in opened : c \notin todo => \E x \in copies : x.of = c
      BY <1>1 DEF Unmigrated
    <2> HIDE DEF todo
    <2>3. /\ login' \in [LoginOf -> LoginRecord] /\ login'[l].at = "copy" /\ login'[l].todo = todo
          /\ login'[l].upTo = said /\ login'[l].done = login[l].done
          /\ \A k \in LoginOf : k # l => login'[k] = login[k]
      BY <1>1, <2>1, <2>2 DEF LoginRecord
    <2>4. login[l].done = 0
      BY <2>1 DEF MigrationInv, LoginsGoForward
    <2>5. MessagesCounted'
      <3>1. MessagesIn(copies') = MessagesIn(copies) + 0
        BY <1>3, <2>1
      <3>2. trialCount' + dropped' + login'[l].done = trialCount + dropped + login[l].done + 0
        BY <1>1, <1>2, <2>1, <2>3
      <3>3. trialCount' \in Int /\ dropped' \in Int
        BY <1>1, <2>1
      <3>4. QED
        BY <1>3, <2>3, <3>1, <3>2, <3>3, StillCounted
    <2>6. MigrationTypes'
      BY <1>1, <2>1, <2>3 DEF MigrationTypes
    <2>7. LoginsGoForward'
      <3>1. \A x \in copies : login[x.by].at # "idle" /\ x.of \notin login[x.by].todo
        BY DEF MigrationInv, LoginsGoForward
      <3>2. \A x \in copies : x.by # l
        BY <2>1, <3>1
      <3>3. QED
        BY <1>2, <2>1, <2>3, <3>1, <3>2 DEF MigrationInv, LoginsGoForward
    <2>8. OneMigrates'
      <3>1. ASSUME ~sideBySide' PROVE ~sideBySide /\ \A x \in LoginOf : ~Migrating(x)
        BY <2>1, <3>1
      <3>2. ASSUME ~sideBySide', NEW k \in LoginOf, Migrating(k)' PROVE k = l
        BY <2>3, <3>1, <3>2 DEF Migrating
      <3>3. ASSUME ~sideBySide', NEW k \in LoginOf, login'[k].at = "copy", NEW c \in login'[k].todo
            PROVE  Unmigrated(c)'
        <4>1. k = l
          BY <3>2, <3>3 DEF Migrating
        <4>2. QED
          BY <2>1, <2>2, <2>3, <3>3, <4>1 DEF Unmigrated
      <3>4. QED
        BY <3>2, <3>3 DEF OneMigrates
    <2>9. CopiedOnce' /\ NothingLeftBehind'
      BY <1>7, <2>1 DEF MigrationInv, CopiedOnce, NothingLeftBehind
    <2>10. NothingForgotten'
      <3>1. ASSUME NEW k \in LoginOf, login'[k].at = "copy", NEW c \in Trial, late[c] = 0
            PROVE  /\ login'[k].upTo[c] = said[c]
                   /\ c \in login'[k].todo \/ said[c] = 0 \/ \E x \in copies : x.of = c
        <4>1. CASE k = l
          BY <2>2, <2>3, <3>1, <4>1 DEF MigrationInv, NothingForgotten
        <4>2. CASE k # l
          BY <2>3, <3>1, <4>2 DEF MigrationInv, NothingForgotten
        <4>3. QED
          BY <4>1, <4>2
      <3>2. QED
        BY <2>1, <3>1 DEF MigrationInv, NothingForgotten
    <2>11. QED
      BY <2>5, <2>6, <2>7, <2>8, <2>9, <2>10 DEF MigrationInv
  <1>8. ASSUME NEW l \in LoginOf, ReadTrial(l), movedTo # {} PROVE MigrationInv'
    <2>1. /\ login[l].at = "idle" /\ UNCHANGED <<said, opened, copies, movedTo, trialCount, dropped, late>>
          /\ login' = [login EXCEPT ![l] = [login[l] EXCEPT !.at = "done"]]
          /\ sideBySide' = sideBySide
      BY <1>1, <1>8 DEF ReadTrial
    <2>2. /\ login' \in [LoginOf -> LoginRecord] /\ login'[l].at = "done"
          /\ login'[l].todo = login[l].todo /\ login'[l].done = login[l].done
          /\ \A k \in LoginOf : k # l => login'[k] = login[k]
      BY <1>1, <2>1 DEF LoginRecord
    <2>3. login[l].done = 0
      BY <2>1 DEF MigrationInv, LoginsGoForward
    <2>4. MessagesCounted'
      <3>1. MessagesIn(copies') = MessagesIn(copies) + 0
        BY <1>3, <2>1
      <3>2. trialCount' + dropped' + login'[l].done = trialCount + dropped + login[l].done + 0
        BY <1>1, <1>2, <2>1, <2>2
      <3>3. trialCount' \in Int /\ dropped' \in Int
        BY <1>1, <2>1
      <3>4. QED
        BY <1>3, <2>2, <3>1, <3>2, <3>3, StillCounted
    <2>5. MigrationTypes'
      BY <1>1, <2>1, <2>2 DEF MigrationTypes
    <2>6. LoginsGoForward' /\ OneMigrates' /\ CopiedOnce' /\ NothingForgotten'
      BY <1>1, <1>8, <2>1, <2>2, <2>3, OthersGoOn
    <2>7. NothingLeftBehind'
      BY <2>1 DEF MigrationInv, NothingLeftBehind
    <2>8. QED
      BY <2>4, <2>5, <2>6, <2>7 DEF MigrationInv
  <1>9. ASSUME NEW l \in LoginOf, NEW c \in Trial, CopyTrial(l, c) PROVE MigrationInv'
    <2> DEFINE n == login[l].upTo[c]
               x == [of |-> c, by |-> l, upTo |-> n]
    <2>1. /\ login[l].at = "copy" /\ c \in login[l].todo
          /\ UNCHANGED <<said, opened, movedTo, trialCount, dropped, late, sideBySide>>
          /\ copies' = copies \cup {x}
          /\ login' = [login EXCEPT ![l].todo = login[l].todo \ {c}, ![l].done = login[l].done + n]
      BY <1>9 DEF CopyTrial, Tally
    <2>2. n \in Nat /\ x \in CopyRecord /\ x.of = c /\ x.by = l /\ x.upTo = n
      BY <1>1 DEF CopyRecord, LoginRecord
    <2>3. x \notin copies
      BY <2>1, <2>2 DEF MigrationInv, LoginsGoForward
    <2> HIDE DEF n, x
    <2>4. login'[l].at = "copy" /\ login'[l].todo = login[l].todo \ {c} /\ login'[l].upTo = login[l].upTo
          /\ login'[l].done = login[l].done + n
          /\ \A k \in LoginOf : k # l => login'[k] = login[k]
      BY <1>1, <2>1 DEF LoginRecord
    <2>5. login' \in [LoginOf -> LoginRecord]
      <3>1. login[l].done + n \in Nat /\ login[l].todo \ {c} \in SUBSET Trial
        BY <1>1, <1>2, <2>2 DEF LoginRecord
      <3> DEFINE m == login[l].done + n
                 rest == login[l].todo \ {c}
      <3> HIDE DEF m, rest
      <3>2. login' = [login EXCEPT ![l].todo = rest, ![l].done = m] /\ m \in Nat /\ rest \in SUBSET Trial
        BY <2>1, <3>1 DEF m, rest
      <3>3. login[l] \in LoginRecord /\ [login[l] EXCEPT !.todo = rest, !.done = m] \in LoginRecord
        BY <1>1, <3>2 DEF LoginRecord
      <3>4. login' = [login EXCEPT ![l] = [login[l] EXCEPT !.todo = rest, !.done = m]]
        BY <3>2
      <3>5. QED
        BY <1>1, <3>3, <3>4
    <2>6. MessagesCounted'
      <3>1. MessagesIn(copies \cup {x}) = MessagesIn(copies) + n
        BY <1>1, <1>2, <2>2, <2>3, MessagesAdd
      <3>2. MessagesIn(copies') = MessagesIn(copies) + n
        BY <2>1, <3>1
      <3>3. trialCount' + dropped' + login'[l].done = trialCount + dropped + login[l].done + n
        BY <1>1, <1>2, <2>1, <2>2, <2>4
      <3>4. trialCount' \in Int /\ dropped' \in Int /\ n \in Int
        BY <1>1, <2>1, <2>2
      <3>5. QED
        BY <1>3, <2>4, <2>5, <3>2, <3>3, <3>4, StillCounted
    <2>7. MigrationTypes'
      <3>1. IsFiniteSet(copies \cup {x})
        BY <1>1, FS_AddElement
      <3>2. QED
        BY <1>1, <2>1, <2>2, <2>5, <3>1 DEF MigrationTypes
    <2>8. LoginsGoForward'
      <3>1. ASSUME NEW y \in copies' PROVE login'[y.by].at # "idle" /\ y.of \notin login'[y.by].todo
        <4>1. CASE y = x
          BY <2>2, <2>4, <4>1
        <4>2. CASE y \in copies
          <5>1. login[y.by].at # "idle" /\ y.of \notin login[y.by].todo /\ y.by \in LoginOf
            BY <1>2, <4>2 DEF MigrationInv, LoginsGoForward
          <5>2. QED
            BY <2>4, <5>1
        <4>3. QED
          BY <2>1, <4>1, <4>2
      <3>2. QED
        BY <2>1, <2>4, <3>1 DEF MigrationInv, LoginsGoForward
    <2>9. OneMigrates'
      <3>1. \A k \in LoginOf : Migrating(k)' = Migrating(k)
        BY <2>1, <2>4 DEF Migrating
      <3>2. ASSUME ~sideBySide, NEW k \in LoginOf, login'[k].at = "copy", NEW b \in login'[k].todo
            PROVE  Unmigrated(b)'
        <4>1. k = l
          BY <2>1, <2>4, <3>2 DEF MigrationInv, OneMigrates, Migrating
        <4>2. b \in login[l].todo /\ b # c
          BY <2>4, <3>2, <4>1
        <4>3. QED
          BY <2>1, <2>2, <3>2, <4>2 DEF MigrationInv, OneMigrates, Unmigrated
      <3>3. QED
        BY <2>1, <3>1, <3>2 DEF MigrationInv, OneMigrates
    <2>10. CopiedOnce'
      <3>1. ~sideBySide => \A y \in copies : y.of # c
        BY <2>1 DEF MigrationInv, OneMigrates, Unmigrated
      <3>2. QED
        BY <2>1, <2>2, <3>1 DEF MigrationInv, CopiedOnce
    <2>11. NothingForgotten'
      <3>1. late[c] = 0 => n = said[c]
        BY <2>1 DEF MigrationInv, NothingForgotten, n
      <3>2. \A y \in copies' : late[y.of] = 0 => y.upTo = said[y.of]
        BY <2>1, <2>2, <3>1 DEF MigrationInv, NothingForgotten
      <3>3. ASSUME NEW k \in LoginOf, login'[k].at = "copy", NEW b \in Trial, late[b] = 0
            PROVE  /\ login'[k].upTo[b] = said[b]
                   /\ b \in login'[k].todo \/ said[b] = 0 \/ \E y \in copies' : y.of = b
        <4>1. login[k].at = "copy" /\ login'[k].upTo = login[k].upTo
          BY <2>1, <2>4, <3>3
        <4>2. b \in login[k].todo => b \in login'[k].todo \/ b = c
          BY <2>4
        <4>3. \E y \in copies' : y.of = c
          BY <2>1, <2>2
        <4>4. QED
          BY <2>1, <3>3, <4>1, <4>2, <4>3 DEF MigrationInv, NothingForgotten
      <3>4. \A b \in Trial : said[b] # 0 => b \in opened
        BY DEF MigrationInv, NothingForgotten
      <3>5. UNCHANGED <<said, late, opened>>
        BY <2>1
      <3>6. QED
        BY <3>2, <3>3, <3>4, <3>5 DEF NothingForgotten
    <2>12. NothingLeftBehind'
      BY <2>1 DEF MigrationInv, NothingLeftBehind
    <2>13. QED
      BY <2>6, <2>7, <2>8, <2>9, <2>10, <2>11, <2>12 DEF MigrationInv
  <1>10. ASSUME NEW l \in LoginOf, MarkMigrated(l) PROVE MigrationInv'
    <2>1. /\ login[l].at = "copy" /\ login[l].todo = {} /\ movedTo' = {l}
          /\ login' = [login EXCEPT ![l].at = IF login[l].done > 0 THEN "add" ELSE "emit"]
          /\ UNCHANGED <<said, opened, copies, trialCount, dropped, late, sideBySide>>
      BY <1>10 DEF MarkMigrated, AllCopied
    <2>2. /\ login' \in [LoginOf -> LoginRecord]
          /\ login'[l].at \in {"add", "emit"} /\ login'[l].todo = {} /\ login'[l].done = login[l].done
          /\ login'[l].at = "emit" => login[l].done = 0
          /\ \A k \in LoginOf : k # l => login'[k] = login[k]
      BY <1>1, <1>2, <2>1 DEF LoginRecord
    <2>3. MessagesCounted'
      <3>1. MessagesIn(copies') = MessagesIn(copies) + 0
        BY <1>3, <2>1
      <3>2. trialCount' + dropped' + login'[l].done = trialCount + dropped + login[l].done + 0
        BY <1>1, <1>2, <2>1, <2>2
      <3>3. trialCount' \in Int /\ dropped' \in Int
        BY <1>1, <2>1
      <3>4. QED
        BY <1>3, <2>2, <3>1, <3>2, <3>3, StillCounted
    <2>4. MigrationTypes'
      BY <1>1, <2>1, <2>2 DEF MigrationTypes
    <2>5. LoginsGoForward' /\ OneMigrates' /\ CopiedOnce' /\ NothingForgotten'
      BY <1>1, <2>1, <2>2, OthersGoOn
    <2>6. NothingLeftBehind'
      <3>1. ASSUME NEW c \in opened
            PROVE  late[c] > 0 \/ (\E x \in copies : x.of = c /\ x.upTo = said[c]) \/ said[c] = 0
        <4>1. CASE late[c] = 0
          BY <1>1, <2>1, <4>1 DEF MigrationInv, NothingForgotten
        <4>2. QED
          BY <1>1, <4>1
      <3>2. QED
        BY <2>1, <3>1 DEF NothingLeftBehind
    <2>7. QED
      BY <2>3, <2>4, <2>5, <2>6 DEF MigrationInv
  <1>11. ASSUME NEW l \in LoginOf, AddToTrialCount(l) \/ EmitSignup(l) \/ MigrationDies(l) PROVE MigrationInv'
    <2>1. /\ Migrating(l) /\ UNCHANGED <<said, opened, copies, movedTo, late, sideBySide>>
          /\ \A k \in LoginOf : k # l => login'[k] = login[k]
          /\ login' \in [LoginOf -> LoginRecord]
          /\ login'[l].at \in {"emit", "done"} /\ login'[l].todo = login[l].todo
      <3>1. Migrating(l) /\ UNCHANGED <<said, opened, copies, movedTo, late, sideBySide>>
        BY <1>11 DEF AddToTrialCount, EmitSignup, MigrationDies, Migrating
      <3>2. \/ login' = [login EXCEPT ![l].at = "emit", ![l].done = 0]
            \/ login' = [login EXCEPT ![l].at = "done"]
            \/ login' = [login EXCEPT ![l].at = "done", ![l].done = 0]
        BY <1>11 DEF AddToTrialCount, EmitSignup, MigrationDies
      <3>3. login' \in [LoginOf -> LoginRecord]
        <4>1. ASSUME NEW at \in {"emit", "done"}, NEW done \in Nat
              PROVE  [login EXCEPT ![l].at = at, ![l].done = done] \in [LoginOf -> LoginRecord]
          BY <1>1 DEF LoginRecord
        <4>2. ASSUME login' = [login EXCEPT ![l].at = "done"]
              PROVE  login' = [login EXCEPT ![l].at = "done", ![l].done = login[l].done]
          BY <1>1, <4>2 DEF LoginRecord
        <4>3. \E at \in {"emit", "done"}, done \in {0, login[l].done} :
                login' = [login EXCEPT ![l].at = at, ![l].done = done]
          BY <3>2, <4>2
        <4>4. PICK at \in {"emit", "done"}, done \in {0, login[l].done} :
                login' = [login EXCEPT ![l].at = at, ![l].done = done]
          BY <4>3
        <4>5. done \in Nat
          BY <1>2
        <4>6. QED
          BY <4>1, <4>4, <4>5
      <3>4. \A k \in LoginOf : k # l => login'[k] = login[k]
        BY <1>1, <3>2
      <3>5. login'[l].at \in {"emit", "done"} /\ login'[l].todo = login[l].todo
        BY <1>1, <3>2 DEF LoginRecord
      <3>6. QED
        BY <3>1, <3>3, <3>4, <3>5
    <2>2. login'[l].done = 0
      <3>1. CASE AddToTrialCount(l) \/ MigrationDies(l)
        BY <1>1, <3>1 DEF AddToTrialCount, MigrationDies, LoginRecord
      <3>2. CASE EmitSignup(l)
        <4>1. login[l].done = 0
          BY <3>2 DEF EmitSignup, MigrationInv, LoginsGoForward
        <4>2. login' = [login EXCEPT ![l].at = "done"]
          BY <3>2 DEF EmitSignup
        <4>3. QED
          BY <1>1, <4>1, <4>2 DEF LoginRecord
      <3>3. QED
        BY <1>11, <3>1, <3>2
    <2>3. /\ trialCount' + dropped' + login'[l].done = trialCount + dropped + login[l].done + 0
          /\ trialCount' \in Nat /\ dropped' \in Nat
      <3>1. CASE AddToTrialCount(l)
        BY <1>1, <1>2, <2>2, <3>1 DEF AddToTrialCount
      <3>2. CASE EmitSignup(l)
        <4>1. login[l].done = 0
          BY <3>2 DEF EmitSignup, MigrationInv, LoginsGoForward
        <4>2. QED
          BY <1>1, <2>2, <3>2, <4>1 DEF EmitSignup
      <3>3. CASE MigrationDies(l)
        BY <1>1, <1>2, <2>2, <3>3 DEF MigrationDies
      <3>4. QED
        BY <1>11, <3>1, <3>2, <3>3
    <2>4. MessagesCounted'
      <3>1. MessagesIn(copies') = MessagesIn(copies) + 0
        BY <1>3, <2>1
      <3>2. trialCount' \in Int /\ dropped' \in Int
        BY <2>3
      <3>3. QED
        BY <1>3, <2>1, <2>3, <3>1, <3>2, StillCounted
    <2>5. MigrationTypes'
      BY <1>1, <2>1, <2>3 DEF MigrationTypes
    <2>6. LoginsGoForward' /\ OneMigrates' /\ CopiedOnce' /\ NothingForgotten'
      BY <1>1, <2>1, <2>2, OthersGoOn DEF Migrating
    <2>7. NothingLeftBehind'
      BY <2>1 DEF MigrationInv, NothingLeftBehind
    <2>8. QED
      BY <2>4, <2>5, <2>6, <2>7 DEF MigrationInv
  <1>12. QED
    BY <1>4, <1>5, <1>6, <1>7, <1>8, <1>9, <1>10, <1>11 DEF AnonMigrationNext

(* However many logins migrate a browser, die on the way or meet a visitor who goes on
   writing: no conversation is copied twice unless two of them migrated at once, every
   copied message is in the trial's count or known to be lost to it, and what a migrated
   browser leaves behind was written after a login had read it. *)
THEOREM NothingIsLost == PlatformSpec => []MigrationLosesNothing
  <1>1. MigrationInv => TrialCountIsKept
    <2> SUFFICES ASSUME MigrationInv, \A l \in LoginOf : ~Migrating(l)
                 PROVE  trialCount + dropped = MessagesIn(copies)
      BY DEF TrialCountIsKept, MessagesIn
    <2>1. trialCount \in Nat /\ dropped \in Nat
      BY DEF MigrationInv, MigrationTypes
    <2>2. \A l \in LoginOf : login[l].done = 0
      BY DEF MigrationInv, LoginsGoForward, Migrating
    <2>3. QED
      BY <2>1, <2>2, NothingUncounted DEF MigrationInv, MessagesCounted
  <1>2. MigrationInv => MigrationLosesNothing
    BY <1>1 DEF MigrationInv, MigrationLosesNothing
  <1>3. PlatformInit => MigrationInv
    BY InitMigration DEF PlatformInit
  <1>4. QED
    BY <1>2, <1>3, MigrationStep, NextMigration, PTL DEF PlatformSpec
-----------------------------------------------------------------------------
(* What is given away once *)

LEMMA GiftStep == [PlatformNext]_platformVars => [GrowthGiftNext]_giftVars
  BY DEF PlatformNext, platformVars

CodeRecord == [isActive : BOOLEAN, usedCount : Nat, expiresAt : Nat, after : SUBSET Nat]
PaymentStatus == {"PENDING", "COMPLETED", "FAILED"}
PaymentRecord ==
  [code : Nat, status : PaymentStatus, verifying : BOOLEAN, invoiced : BOOLEAN, after : SUBSET Nat]
ClaimRecord ==
  [at : {"idle", "check", "find", "create"}, unpaid : BOOLEAN, open : BOOLEAN,
   read : SUBSET {"payments", "user"}, after : SUBSET Nat]

GiftTypes ==
  /\ hour \in Nat /\ codes \in Seq(CodeRecord) /\ payments \in Seq(PaymentRecord)
  /\ claim \in [Claim -> ClaimRecord] /\ claimedTogether \in BOOLEAN /\ revived \in BOOLEAN

(* As long as claims came one after the other and no code was switched on again, only the
   newest code may be good, and a claim that makes one has found that it is not. *)
OnlyTheNewest ==
  ~claimedTogether /\ ~revived =>
    /\ \A c, d \in Claim : Claiming(c) /\ Claiming(d) => c = d
    /\ \A i \in DOMAIN codes : Good(codes[i]) => i = Len(codes)
    /\ \A c \in Claim : claim[c].at = "create" => \A i \in DOMAIN codes : ~Good(codes[i])

(* A settled payment is no longer pending and has used its code, so that no payment opened
   later has the same one. *)
Undone(p) == p \in Paid /\ payments[p].status = "FAILED"
SettledOnce ==
  \A p \in DOMAIN payments :
    /\ payments[p].code \in 0..Len(codes)
    /\ payments[p].invoiced =>
         /\ payments[p].status # "PENDING"
         /\ payments[p].code # 0 => codes[payments[p].code].usedCount > 0
OpenedAfter ==
  \A q \in DOMAIN payments : \A p \in payments[q].after :
    p \in Paid /\ (payments[p].code # 0 => payments[p].code # payments[q].code)

(* A claim goes on, and makes a code, only when every payment settled before it read them
   had been undone, which no step takes back. *)
AskedAfter ==
  /\ \A c \in Claim : claim[c].at \in {"find", "create"} => claim[c].unpaid
  /\ \A c \in Claim : claim[c].unpaid => \A p \in claim[c].after : Undone(p)
  /\ \A i \in DOMAIN codes : \A p \in codes[i].after : Undone(p)

GiftInv == GiftTypes /\ OnlyTheNewest /\ SettledOnce /\ OpenedAfter /\ AskedAfter

LEMMA GiftFields ==
  ASSUME GiftTypes
  PROVE  /\ DOMAIN codes = 1..Len(codes) /\ Len(codes) \in Nat
         /\ \A i \in DOMAIN codes : codes[i] \in CodeRecord
         /\ DOMAIN payments = 1..Len(payments) /\ Len(payments) \in Nat
         /\ \A p \in DOMAIN payments : payments[p] \in PaymentRecord
         /\ \A c \in Claim : claim[c] \in ClaimRecord
         /\ Paid \in SUBSET Nat
  BY DEF GiftTypes, Paid

LEMMA NoClaimIsIdle ==
  /\ NoClaim \in ClaimRecord /\ NoClaim.at = "idle" /\ ~NoClaim.unpaid
  /\ [NoClaim EXCEPT !.at = "check"] \in ClaimRecord
  /\ [NoClaim EXCEPT !.at = "check"].at = "check" /\ ~[NoClaim EXCEPT !.at = "check"].unpaid
  BY DEF NoClaim, ClaimRecord

LEMMA InitGift == GrowthGiftInit => GiftInv
  <1> SUFFICES ASSUME GrowthGiftInit PROVE GiftInv
    OBVIOUS
  <1>1. /\ hour = 0 /\ codes = <<>> /\ payments = <<>> /\ claim = [c \in Claim |-> NoClaim]
        /\ claimedTogether = FALSE /\ revived = FALSE
    BY DEF GrowthGiftInit
  <1>2. /\ codes \in Seq(CodeRecord) /\ DOMAIN codes = {}
        /\ payments \in Seq(PaymentRecord) /\ DOMAIN payments = {}
    BY <1>1
  <1>3. claim \in [Claim -> ClaimRecord] /\ \A c \in Claim : claim[c] = NoClaim
    BY <1>1, NoClaimIsIdle
  <1>4. GiftTypes
    BY <1>1, <1>2, <1>3 DEF GiftTypes
  <1>5. OnlyTheNewest /\ SettledOnce /\ OpenedAfter /\ AskedAfter
    BY <1>1, <1>2, <1>3, NoClaimIsIdle DEF OnlyTheNewest, SettledOnce, OpenedAfter, AskedAfter, Claiming
  <1>6. QED
    BY <1>4, <1>5 DEF GiftInv

(* What each action does to a row. *)
LEMMA CodeChanges ==
  ASSUME GiftTypes, NEW i \in DOMAIN codes, NEW isActive \in BOOLEAN, NEW n \in Nat,
         codes' = [codes EXCEPT ![i] = [codes[i] EXCEPT !.isActive = isActive, !.usedCount = n]]
  PROVE  /\ codes' \in Seq(CodeRecord) /\ Len(codes') = Len(codes) /\ DOMAIN codes' = DOMAIN codes
         /\ codes'[i].isActive = isActive /\ codes'[i].usedCount = n
         /\ codes'[i].expiresAt = codes[i].expiresAt /\ codes'[i].after = codes[i].after
         /\ \A j \in DOMAIN codes : j # i => codes'[j] = codes[j]
  <1>1. codes[i] \in CodeRecord /\ codes \in Seq(CodeRecord)
    BY GiftFields DEF GiftTypes
  <1> DEFINE row == [codes[i] EXCEPT !.isActive = isActive, !.usedCount = n]
  <1>2. /\ row \in CodeRecord /\ row.isActive = isActive /\ row.usedCount = n
        /\ row.expiresAt = codes[i].expiresAt /\ row.after = codes[i].after
    BY <1>1 DEF CodeRecord
  <1>3. codes' = [codes EXCEPT ![i] = row]
    OBVIOUS
  <1> HIDE DEF row
  <1>4. codes' \in Seq(CodeRecord) /\ Len(codes') = Len(codes) /\ DOMAIN codes' = DOMAIN codes
    BY <1>1, <1>2, <1>3
  <1>5. codes'[i] = row /\ \A j \in DOMAIN codes : j # i => codes'[j] = codes[j]
    BY <1>1, <1>3
  <1>6. QED
    BY <1>2, <1>4, <1>5

LEMMA PaymentChanges ==
  ASSUME GiftTypes, NEW p \in DOMAIN payments, NEW s \in PaymentStatus, NEW v \in BOOLEAN, NEW i \in BOOLEAN,
         payments' = [payments EXCEPT ![p] = [payments[p] EXCEPT !.status = s, !.verifying = v, !.invoiced = i]]
  PROVE  /\ payments' \in Seq(PaymentRecord) /\ Len(payments') = Len(payments) /\ DOMAIN payments' = DOMAIN payments
         /\ payments'[p].status = s /\ payments'[p].invoiced = i
         /\ payments'[p].code = payments[p].code /\ payments'[p].after = payments[p].after
         /\ \A q \in DOMAIN payments : q # p => payments'[q] = payments[q]
  <1>1. payments[p] \in PaymentRecord /\ payments \in Seq(PaymentRecord)
    BY GiftFields DEF GiftTypes
  <1> DEFINE row == [payments[p] EXCEPT !.status = s, !.verifying = v, !.invoiced = i]
  <1>2. /\ row \in PaymentRecord /\ row.status = s /\ row.invoiced = i
        /\ row.code = payments[p].code /\ row.after = payments[p].after
    BY <1>1 DEF PaymentRecord
  <1>3. payments' = [payments EXCEPT ![p] = row]
    OBVIOUS
  <1> HIDE DEF row
  <1>4. /\ payments' \in Seq(PaymentRecord) /\ Len(payments') = Len(payments)
        /\ DOMAIN payments' = DOMAIN payments
    BY <1>1, <1>2, <1>3
  <1>5. payments'[p] = row /\ \A q \in DOMAIN payments : q # p => payments'[q] = payments[q]
    BY <1>1, <1>3
  <1>6. QED
    BY <1>2, <1>4, <1>5

(* A step that leaves every payment as it is, or moves one of them on. *)
MovesOn ==
  /\ payments' \in Seq(PaymentRecord) /\ Len(payments) =< Len(payments')
  /\ \A p \in DOMAIN payments :
       /\ payments'[p].code = payments[p].code /\ payments'[p].after = payments[p].after
       /\ payments[p].invoiced => payments'[p].invoiced
       /\ Undone(p) => payments'[p].status = "FAILED"

LEMMA UndoneStays == ASSUME GiftTypes, MovesOn, NEW p, Undone(p) PROVE Undone(p)'
  <1>1. DOMAIN payments \subseteq DOMAIN payments'
    BY GiftFields DEF MovesOn
  <1>2. p \in DOMAIN payments /\ payments[p].invoiced
    BY DEF Undone, Paid
  <1>3. p \in DOMAIN payments' /\ payments'[p].invoiced /\ payments'[p].status = "FAILED"
    BY <1>1, <1>2 DEF MovesOn
  <1>4. QED
    BY <1>3 DEF Undone, Paid

LEMMA PaidStays == ASSUME GiftTypes, MovesOn, NEW p \in Paid PROVE p \in Paid'
  <1>1. DOMAIN payments \subseteq DOMAIN payments'
    BY GiftFields DEF MovesOn
  <1>2. QED
    BY <1>1 DEF MovesOn, Paid

(* The part of a step that is about the codes and the claims. *)
LEMMA CodesGoOff ==
  ASSUME GiftTypes, OnlyTheNewest, DOMAIN codes' = DOMAIN codes, Len(codes') = Len(codes),
         claimedTogether' = claimedTogether, claim' = claim, revived => revived',
         ~revived' => \A i \in DOMAIN codes : Good(codes[i])' => Good(codes[i])
  PROVE  OnlyTheNewest'
  BY DEF OnlyTheNewest, Claiming

(* A step of a claim that leaves the codes and the payments alone. *)
LEMMA ClaimGoesOn ==
  ASSUME GiftInv, NEW c \in Claim, UNCHANGED <<hour, codes, payments, claimedTogether, revived>>,
         Claiming(c), claim' \in [Claim -> ClaimRecord], \A d \in Claim : d # c => claim'[d] = claim[d],
         claim'[c].unpaid => \A p \in claim'[c].after : Undone(p),
         claim'[c].at \in {"find", "create"} => claim'[c].unpaid,
         claim'[c].at = "create" => (~revived /\ ~claimedTogether => \A i \in DOMAIN codes : ~Good(codes[i]))
  PROVE  GiftInv'
  <1>1. GiftTypes'
    BY DEF GiftInv, GiftTypes
  <1>2. \A d \in Claim : Claiming(d)' => Claiming(d)
    BY DEF Claiming
  <1>3. OnlyTheNewest'
    BY <1>2 DEF GiftInv, OnlyTheNewest, Good
  <1>4. SettledOnce' /\ OpenedAfter'
    BY DEF GiftInv, SettledOnce, OpenedAfter, Paid
  <1>5. \A p : Undone(p)' <=> Undone(p)
    BY DEF Undone, Paid
  <1>6. AskedAfter'
    BY <1>5 DEF GiftInv, AskedAfter
  <1>7. QED
    BY <1>1, <1>3, <1>4, <1>6 DEF GiftInv

(* A step of a payment: what becomes of it, and of the codes, which may be used. *)
Becomes(p, s, v, i) ==
  /\ payments' = [payments EXCEPT ![p] = [payments[p] EXCEPT !.status = s, !.verifying = v, !.invoiced = i]]
  /\ payments[p].invoiced => i /\ (payments[p].status = "FAILED" => s = "FAILED")
  /\ i => s # "PENDING"
  /\ i /\ payments[p].code # 0 => codes'[payments[p].code].usedCount > 0
CodesAreUsed ==
  /\ codes' \in Seq(CodeRecord) /\ DOMAIN codes' = DOMAIN codes /\ Len(codes') = Len(codes)
  /\ \A j \in DOMAIN codes :
       /\ codes'[j].usedCount \in Nat /\ codes'[j].usedCount >= codes[j].usedCount
       /\ codes'[j].after = codes[j].after /\ (Good(codes[j])' => Good(codes[j]))

LEMMA PaymentGoesOn ==
  ASSUME GiftInv, NEW p \in DOMAIN payments, NEW s \in PaymentStatus, NEW v \in BOOLEAN, NEW i \in BOOLEAN,
         Becomes(p, s, v, i), CodesAreUsed, UNCHANGED <<hour, claim, claimedTogether, revived>>
  PROVE  GiftInv'
  <1> USE DEF Becomes, CodesAreUsed
  <1>1. /\ payments' \in Seq(PaymentRecord) /\ DOMAIN payments' = DOMAIN payments /\ Len(payments') = Len(payments)
        /\ payments'[p].status = s /\ payments'[p].invoiced = i
        /\ payments'[p].code = payments[p].code /\ payments'[p].after = payments[p].after
        /\ \A q \in DOMAIN payments : q # p => payments'[q] = payments[q]
    BY PaymentChanges DEF GiftInv
  <1>2. /\ DOMAIN codes = 1..Len(codes) /\ Len(codes) \in Nat /\ Len(payments) \in Nat
        /\ \A j \in DOMAIN codes : codes[j].usedCount \in Nat
    BY GiftFields DEF GiftInv, CodeRecord
  <1>3. GiftTypes'
    BY <1>1 DEF GiftInv, GiftTypes
  <1>4. OnlyTheNewest'
    BY CodesGoOff DEF GiftInv
  <1>5. \A q \in DOMAIN payments :
          /\ payments'[q].code = payments[q].code /\ payments'[q].after = payments[q].after
          /\ payments[q].invoiced => payments'[q].invoiced
    BY <1>1
  <1>6. \A q \in DOMAIN payments : Undone(q) => payments'[q].status = "FAILED"
    BY <1>1 DEF Undone, Paid
  <1>7. MovesOn
    BY <1>1, <1>2, <1>5, <1>6 DEF MovesOn
  <1>8. SettledOnce'
    <2> SUFFICES ASSUME NEW q \in DOMAIN payments
                 PROVE  /\ payments'[q].code \in 0..Len(codes')
                        /\ payments'[q].invoiced =>
                             /\ payments'[q].status # "PENDING"
                             /\ payments'[q].code # 0 => codes'[payments'[q].code].usedCount > 0
      BY <1>1 DEF SettledOnce
    <2>1. payments[q].code \in 0..Len(codes)
      BY DEF GiftInv, SettledOnce
    <2>2. payments'[q].code \in 0..Len(codes')
      BY <1>5, <2>1
    <2>3. ASSUME payments'[q].invoiced, q # p
          PROVE  /\ payments'[q].status # "PENDING"
                 /\ payments'[q].code # 0 => codes'[payments'[q].code].usedCount > 0
      <3>1. /\ payments[q].status # "PENDING"
            /\ payments[q].code # 0 => codes[payments[q].code].usedCount > 0
        BY <1>1, <2>3 DEF GiftInv, SettledOnce
      <3>2. payments[q].code # 0 => payments[q].code \in DOMAIN codes
        BY <1>2, <2>1
      <3>3. payments[q].code # 0 => codes'[payments[q].code].usedCount > 0
        BY <1>2, <3>1, <3>2
      <3>4. QED
        BY <1>1, <2>3, <3>1, <3>3
    <2>4. QED
      BY <1>1, <2>2, <2>3
  <1>9. OpenedAfter'
    <2> SUFFICES ASSUME NEW q \in DOMAIN payments, NEW o \in payments[q].after
                 PROVE  o \in Paid' /\ (payments'[o].code # 0 => payments'[o].code # payments'[q].code)
      BY <1>1, <1>5 DEF OpenedAfter
    <2>1. o \in Paid /\ (payments[o].code # 0 => payments[o].code # payments[q].code)
      BY DEF GiftInv, OpenedAfter
    <2>2. o \in Paid' /\ o \in DOMAIN payments
      BY <1>7, <2>1, PaidStays DEF GiftInv, Paid
    <2>3. QED
      BY <1>5, <2>1, <2>2
  <1>10. \A q : Undone(q) => Undone(q)'
    BY <1>7, UndoneStays DEF GiftInv
  <1>11. AskedAfter'
    BY <1>10 DEF GiftInv, AskedAfter
  <1>12. QED
    BY <1>3, <1>4, <1>8, <1>9, <1>11 DEF GiftInv

LEMMA NextGift == GiftInv /\ [GrowthGiftNext]_giftVars => GiftInv'
  <1> SUFFICES ASSUME GiftInv, [GrowthGiftNext]_giftVars PROVE GiftInv'
    OBVIOUS
  <1>1. /\ hour \in Nat /\ codes \in Seq(CodeRecord) /\ payments \in Seq(PaymentRecord)
        /\ claim \in [Claim -> ClaimRecord] /\ claimedTogether \in BOOLEAN /\ revived \in BOOLEAN
        /\ DOMAIN codes = 1..Len(codes) /\ Len(codes) \in Nat
        /\ DOMAIN payments = 1..Len(payments) /\ Len(payments) \in Nat
        /\ Paid \in SUBSET Nat
    BY GiftFields DEF GiftInv, GiftTypes
  <1>2. /\ \A i \in DOMAIN codes : codes[i] \in CodeRecord
        /\ \A p \in DOMAIN payments : payments[p] \in PaymentRecord
    BY GiftFields DEF GiftInv
  <1>3. ASSUME UNCHANGED <<hour, codes, payments, claim, claimedTogether, revived>> PROVE GiftInv'
    BY <1>3 DEF GiftInv, GiftTypes, OnlyTheNewest, SettledOnce, OpenedAfter, AskedAfter, Undone, Paid, Good, Claiming
  <1>4. ASSUME PassHour PROVE GiftInv'
    <2>1. hour' = hour + 1 /\ UNCHANGED <<codes, payments, claim, claimedTogether, revived>>
      BY <1>4 DEF PassHour
    <2>2. \A i \in DOMAIN codes : Good(codes[i])' => Good(codes[i])
      BY <1>1, <1>2, <2>1 DEF Good, CodeRecord
    <2>3. OnlyTheNewest'
      BY <2>1, <2>2, CodesGoOff DEF GiftInv
    <2>4. GiftTypes' /\ SettledOnce' /\ OpenedAfter' /\ AskedAfter'
      BY <1>1, <2>1 DEF GiftInv, GiftTypes, SettledOnce, OpenedAfter, AskedAfter, Undone, Paid
    <2>5. QED
      BY <2>3, <2>4 DEF GiftInv
  <1>5. ASSUME NEW i \in DOMAIN codes, NEW isActive \in BOOLEAN, SetActive(i, isActive) PROVE GiftInv'
    <2>1. /\ codes' = [codes EXCEPT ![i].isActive = isActive] /\ revived' = (revived \/ isActive)
          /\ UNCHANGED <<hour, payments, claim, claimedTogether>>
      BY <1>5 DEF SetActive
    <2>2. codes[i] \in CodeRecord /\ codes[i].usedCount \in Nat
      BY <1>2 DEF CodeRecord
    <2>3. codes' = [codes EXCEPT ![i] = [codes[i] EXCEPT !.isActive = isActive, !.usedCount = codes[i].usedCount]]
      BY <1>1, <2>1, <2>2 DEF CodeRecord
    <2>4. /\ codes' \in Seq(CodeRecord) /\ Len(codes') = Len(codes) /\ DOMAIN codes' = DOMAIN codes
          /\ codes'[i].isActive = isActive /\ codes'[i].usedCount = codes[i].usedCount
          /\ codes'[i].expiresAt = codes[i].expiresAt /\ codes'[i].after = codes[i].after
          /\ \A j \in DOMAIN codes : j # i => codes'[j] = codes[j]
      BY <2>2, <2>3, CodeChanges DEF GiftInv
    <2>5. revived' \in BOOLEAN /\ (revived => revived') /\ (~revived' => ~isActive)
      BY <1>1, <2>1
    <2>6. OnlyTheNewest'
      <3>1. ~revived' => \A j \in DOMAIN codes : Good(codes[j])' => Good(codes[j])
        BY <2>1, <2>4, <2>5 DEF Good
      <3>2. QED
        BY <2>1, <2>4, <2>5, <3>1, CodesGoOff DEF GiftInv
    <2>7. GiftTypes'
      BY <1>1, <2>1, <2>4, <2>5 DEF GiftTypes
    <2>8. \A j \in DOMAIN codes : codes'[j].usedCount = codes[j].usedCount /\ codes'[j].after = codes[j].after
      BY <2>4
    <2>9. SettledOnce'
      BY <1>1, <2>1, <2>4, <2>8 DEF GiftInv, SettledOnce
    <2>10. OpenedAfter' /\ AskedAfter'
      BY <2>1, <2>4, <2>8 DEF GiftInv, OpenedAfter, AskedAfter, Undone, Paid
    <2>11. QED
      BY <2>6, <2>7, <2>9, <2>10 DEF GiftInv
  <1>6. ASSUME NEW i \in {0} \union DOMAIN codes, OpenPayment(i) PROVE GiftInv'
    <2> DEFINE row == [code |-> i, status |-> "PENDING", verifying |-> FALSE, invoiced |-> FALSE, after |-> Paid]
    <2>1. /\ payments' = Append(payments, row) /\ (i # 0 => Good(codes[i]))
          /\ UNCHANGED <<hour, codes, claim, claimedTogether, revived>>
      BY <1>6 DEF OpenPayment
    <2>2. /\ row \in PaymentRecord /\ row.code = i /\ ~row.invoiced /\ row.after = Paid
      BY <1>1 DEF PaymentRecord, PaymentStatus
    <2> HIDE DEF row
    <2>3. /\ payments' \in Seq(PaymentRecord) /\ Len(payments') = Len(payments) + 1
          /\ DOMAIN payments' = DOMAIN payments \cup {Len(payments')}
          /\ payments'[Len(payments')] = row /\ \A p \in DOMAIN payments : payments'[p] = payments[p]
      BY <1>1, <2>1, <2>2
    <2>4. GiftTypes' /\ OnlyTheNewest'
      BY <1>1, <2>1, <2>3 DEF GiftInv, GiftTypes, OnlyTheNewest, Good, Claiming
    <2>5. MovesOn
      BY <1>1, <2>3 DEF MovesOn, Undone, Paid
    <2>6. SettledOnce'
      BY <1>1, <2>1, <2>2, <2>3 DEF GiftInv, SettledOnce
    <2>7. Paid' = Paid
      BY <2>2, <2>3, <1>1 DEF Paid
    <2>8. OpenedAfter'
      <3>1. ASSUME NEW p \in Paid, payments[p].code # 0 PROVE payments[p].code # i
        <4>1. payments[p].code \in DOMAIN codes /\ codes[payments[p].code].usedCount > 0
          BY <1>1, <3>1 DEF GiftInv, SettledOnce, Paid
        <4>2. QED
          BY <1>2, <2>1, <3>1, <4>1 DEF Good, CodeRecord
      <3>2. \A p \in Paid : p \in DOMAIN payments
        BY DEF Paid
      <3>3. \A q \in DOMAIN payments : \A p \in payments'[q].after :
              p \in Paid' /\ (payments'[p].code # 0 => payments'[p].code # payments'[q].code)
        BY <2>3, <2>7, <3>2 DEF GiftInv, OpenedAfter
      <3>4. \A p \in row.after :
              p \in Paid' /\ (payments'[p].code # 0 => payments'[p].code # row.code)
        BY <2>2, <2>3, <2>7, <3>1, <3>2
      <3>5. QED
        BY <2>3, <3>3, <3>4 DEF OpenedAfter
    <2>9. AskedAfter'
      BY <2>1, <2>5, UndoneStays DEF GiftInv, AskedAfter
    <2>10. QED
      BY <2>4, <2>6, <2>8, <2>9 DEF GiftInv
  <1>7. ASSUME NEW p \in DOMAIN payments, BeginVerify(p) \/ FailPayment(p) PROVE GiftInv'
    <2>1. /\ UNCHANGED <<hour, codes, claim, claimedTogether, revived>>
          /\ payments[p] \in PaymentRecord
      BY <1>2, <1>7 DEF BeginVerify, FailPayment
    <2>2. CodesAreUsed
      BY <1>1, <1>2, <2>1 DEF CodesAreUsed, CodeRecord, Good
    <2>3. payments[p].invoiced /\ payments[p].code # 0 => codes'[payments[p].code].usedCount > 0
      BY <2>1 DEF GiftInv, SettledOnce
    <2>4. CASE BeginVerify(p)
      <3>1. /\ payments[p].status = "PENDING" /\ "PENDING" \in PaymentStatus /\ TRUE \in BOOLEAN
            /\ payments' = [payments EXCEPT ![p].verifying = TRUE]
        BY <2>4 DEF BeginVerify, PaymentStatus
      <3>2. payments' = [payments EXCEPT ![p] =
              [payments[p] EXCEPT !.status = "PENDING", !.verifying = TRUE, !.invoiced = FALSE]]
        <4>1. payments[p].invoiced = FALSE
          BY <2>1, <3>1 DEF GiftInv, SettledOnce, PaymentRecord
        <4>2. QED
          BY <1>1, <2>1, <3>1, <4>1 DEF PaymentRecord
      <3>3. ~payments[p].invoiced
        BY <3>1 DEF GiftInv, SettledOnce
      <3>4. Becomes(p, "PENDING", TRUE, FALSE)
        BY <3>2, <3>3 DEF Becomes
      <3>5. QED
        BY <2>1, <2>2, <3>1, <3>4, PaymentGoesOn
    <2>5. CASE FailPayment(p)
      <3>1. payments' = [payments EXCEPT ![p].status = "FAILED"] /\ "FAILED" \in PaymentStatus
        BY <2>5 DEF FailPayment, PaymentStatus
      <3>2. payments[p].verifying \in BOOLEAN /\ payments[p].invoiced \in BOOLEAN
        BY <2>1 DEF PaymentRecord
      <3>3. payments' = [payments EXCEPT ![p] = [payments[p] EXCEPT !.status = "FAILED",
              !.verifying = payments[p].verifying, !.invoiced = payments[p].invoiced]]
        BY <1>1, <2>1, <3>1 DEF PaymentRecord
      <3> PICK v \in BOOLEAN, i \in BOOLEAN : v = payments[p].verifying /\ i = payments[p].invoiced
        BY <3>2
      <3>4. Becomes(p, "FAILED", v, i)
        BY <2>3, <3>3 DEF Becomes
      <3>5. QED
        BY <2>1, <2>2, <3>1, <3>4, PaymentGoesOn
    <2>6. QED
      BY <1>7, <2>4, <2>5
  <1>8. ASSUME NEW p \in DOMAIN payments, Settle(p) PROVE GiftInv'
    <2>0. PICK i \in 0..Len(codes) : i = payments[p].code
      BY DEF GiftInv, SettledOnce
    <2>1. /\ ~payments[p].invoiced /\ Redeem(i)
          /\ payments' = [payments EXCEPT ![p].status = "COMPLETED", ![p].invoiced = TRUE]
          /\ UNCHANGED <<hour, claim, claimedTogether, revived>>
      BY <1>8, <2>0 DEF Settle
    <2>2. /\ payments[p] \in PaymentRecord /\ payments[p].verifying \in BOOLEAN
          /\ "COMPLETED" \in PaymentStatus /\ TRUE \in BOOLEAN /\ "COMPLETED" # "PENDING"
      BY <1>2 DEF PaymentRecord, PaymentStatus
    <2>3. payments' = [payments EXCEPT ![p] = [payments[p] EXCEPT !.status = "COMPLETED",
            !.verifying = payments[p].verifying, !.invoiced = TRUE]]
      BY <1>1, <2>1, <2>2 DEF PaymentRecord
    <2>4. CodesAreUsed /\ (i # 0 => codes'[i].usedCount > 0)
      <3>1. CASE i = 0
        <4>1. codes' = codes
          BY <2>1, <3>1 DEF Redeem
        <4>2. \A j \in DOMAIN codes : codes[j].usedCount \in Nat
          BY <1>2 DEF CodeRecord
        <4>3. QED
          BY <1>1, <2>1, <3>1, <4>1, <4>2 DEF Good, CodesAreUsed
      <3>2. CASE i # 0
        <4>1. /\ i \in DOMAIN codes /\ codes[i] \in CodeRecord /\ codes[i].usedCount \in Nat
              /\ codes[i].usedCount + 1 \in Nat /\ codes[i].isActive \in BOOLEAN
          BY <1>1, <1>2, <3>2 DEF CodeRecord
        <4>2. codes' = [codes EXCEPT ![i].usedCount = codes[i].usedCount + 1]
          BY <2>1, <3>2 DEF Redeem
        <4>3. codes' = [codes EXCEPT ![i] =
                [codes[i] EXCEPT !.isActive = codes[i].isActive, !.usedCount = codes[i].usedCount + 1]]
          BY <1>1, <4>1, <4>2 DEF CodeRecord
        <4>4. /\ codes' \in Seq(CodeRecord) /\ Len(codes') = Len(codes) /\ DOMAIN codes' = DOMAIN codes
              /\ codes'[i].isActive = codes[i].isActive /\ codes'[i].usedCount = codes[i].usedCount + 1
              /\ codes'[i].expiresAt = codes[i].expiresAt /\ codes'[i].after = codes[i].after
              /\ \A j \in DOMAIN codes : j # i => codes'[j] = codes[j]
          BY <4>1, <4>3, CodeChanges DEF GiftInv
        <4>5. Good(codes[i])' => Good(codes[i])
          BY <2>1, <4>1, <4>4 DEF Good
        <4>6. ASSUME NEW j \in DOMAIN codes, j # i
              PROVE  /\ codes'[j].usedCount \in Nat /\ codes'[j].usedCount >= codes[j].usedCount
                     /\ codes'[j].after = codes[j].after /\ (Good(codes[j])' => Good(codes[j]))
          BY <1>2, <2>1, <4>4, <4>6 DEF Good, CodeRecord
        <4>7. codes'[i].usedCount \in Nat /\ codes'[i].usedCount >= codes[i].usedCount /\ codes'[i].usedCount > 0
          BY <4>1, <4>4
        <4>8. QED
          BY <4>4, <4>5, <4>6, <4>7 DEF CodesAreUsed
      <3>3. QED
        BY <3>1, <3>2
    <2>5. payments[p].code # 0 => codes'[payments[p].code].usedCount > 0
      BY <2>0, <2>4
    <2> PICK v \in BOOLEAN : v = payments[p].verifying
      BY <2>2
    <2>6. Becomes(p, "COMPLETED", v, TRUE)
      BY <2>1, <2>2, <2>3, <2>5 DEF Becomes
    <2>7. QED
      BY <2>1, <2>2, <2>4, <2>6, PaymentGoesOn
  <1>9. ASSUME NEW c \in Claim, BeginClaim(c) PROVE GiftInv'
    <2>1. /\ claim' = [claim EXCEPT ![c] = [NoClaim EXCEPT !.at = "check"]]
          /\ claimedTogether' = (claimedTogether \/ \E d \in Claim : Claiming(d))
          /\ UNCHANGED <<hour, codes, payments, revived>>
      BY <1>9 DEF BeginClaim
    <2>2. /\ claim' \in [Claim -> ClaimRecord] /\ claim'[c].at = "check" /\ ~claim'[c].unpaid
          /\ \A d \in Claim : d # c => claim'[d] = claim[d]
      BY <1>1, <2>1, NoClaimIsIdle
    <2>3. GiftTypes'
      BY <1>1, <2>1, <2>2 DEF GiftTypes
    <2>4. \A d \in Claim : d # c => Claiming(d)' = Claiming(d)
      BY <2>2 DEF Claiming
    <2>5. ~claimedTogether' => ~claimedTogether /\ \A d \in Claim : ~Claiming(d)
      BY <2>1
    <2>6. OnlyTheNewest'
      BY <2>1, <2>2, <2>4, <2>5 DEF GiftInv, OnlyTheNewest, Claiming, Good
    <2>7. SettledOnce' /\ OpenedAfter'
      BY <2>1 DEF GiftInv, SettledOnce, OpenedAfter, Paid
    <2>8. AskedAfter'
      BY <2>1, <2>2 DEF GiftInv, AskedAfter, Undone, Paid
    <2>9. QED
      BY <2>3, <2>6, <2>7, <2>8 DEF GiftInv
  <1>10. ASSUME NEW c \in Claim, ReadPayments(c) PROVE GiftInv'
    <2>1. /\ claim[c].at = "check" /\ UNCHANGED <<hour, codes, payments, claimedTogether, revived>>
          /\ claim' = [claim EXCEPT ![c].unpaid = ~HasPaid,
                         ![c].read = claim[c].read \cup {"payments"}, ![c].after = Paid]
      BY <1>10 DEF ReadPayments
    <2>2. /\ claim' \in [Claim -> ClaimRecord] /\ claim'[c].at = "check"
          /\ claim'[c].unpaid = ~HasPaid /\ claim'[c].after = Paid
          /\ \A d \in Claim : d # c => claim'[d] = claim[d]
      <3>1. claim[c] \in ClaimRecord
        BY <1>1
      <3>2. PICK unpaid \in BOOLEAN : unpaid = ~HasPaid
        OBVIOUS
      <3> DEFINE row == [claim[c] EXCEPT !.unpaid = unpaid, !.read = claim[c].read \cup {"payments"}, !.after = Paid]
      <3>3. row \in ClaimRecord /\ row.at = claim[c].at /\ row.unpaid = unpaid /\ row.after = Paid
        BY <1>1, <3>1 DEF ClaimRecord
      <3>4. claim' = [claim EXCEPT ![c] = row]
        BY <1>1, <2>1, <3>2
      <3> HIDE DEF row
      <3>5. QED
        BY <1>1, <2>1, <3>2, <3>3, <3>4
    <2>3. ASSUME ~HasPaid, NEW p \in Paid PROVE Undone(p)
      <3>1. p \in DOMAIN payments /\ payments[p].invoiced
        BY DEF Paid
      <3>2. payments[p].status # "PENDING" /\ payments[p].status # "COMPLETED"
        BY <2>3, <3>1 DEF GiftInv, SettledOnce, HasPaid
      <3>3. QED
        BY <1>2, <3>1, <3>2 DEF PaymentRecord, PaymentStatus, Undone
    <2>4. QED
      BY <2>1, <2>2, <2>3, ClaimGoesOn DEF Claiming
  <1>11. ASSUME NEW c \in Claim, ReadTrialEnd(c) PROVE GiftInv'
    <2>1. /\ claim[c].at = "check" /\ UNCHANGED <<hour, codes, payments, claimedTogether, revived>>
          /\ \E b \in BOOLEAN : claim' = [claim EXCEPT ![c].open = b, ![c].read = claim[c].read \cup {"user"}]
      <3>1. \A trial : ((trial /\ InTrial) \/ InGrace) \in BOOLEAN
        OBVIOUS
      <3>2. QED
        BY <1>11, <3>1, Zenon DEF ReadTrialEnd
    <2>2. PICK b \in BOOLEAN : claim' = [claim EXCEPT ![c].open = b, ![c].read = claim[c].read \cup {"user"}]
      BY <2>1
    <2>3. /\ claim' \in [Claim -> ClaimRecord] /\ claim'[c].at = "check"
          /\ claim'[c].unpaid = claim[c].unpaid /\ claim'[c].after = claim[c].after
          /\ \A d \in Claim : d # c => claim'[d] = claim[d]
      <3>1. claim[c] \in ClaimRecord
        BY <1>1
      <3>2. claim' = [claim EXCEPT ![c] = [claim[c] EXCEPT !.open = b, !.read = claim[c].read \cup {"user"}]]
        BY <1>1, <2>2
      <3> DEFINE row == [claim[c] EXCEPT !.open = b, !.read = claim[c].read \cup {"user"}]
      <3>3. /\ row \in ClaimRecord /\ row.at = claim[c].at
            /\ row.unpaid = claim[c].unpaid /\ row.after = claim[c].after
        BY <3>1 DEF ClaimRecord
      <3> HIDE DEF row
      <3>4. claim' = [claim EXCEPT ![c] = row]
        BY <3>2 DEF row
      <3>5. QED
        BY <1>1, <2>1, <3>3, <3>4
    <2>4. claim[c].unpaid => \A p \in claim[c].after : Undone(p)
      BY DEF GiftInv, AskedAfter
    <2>5. QED
      BY <2>1, <2>3, <2>4, ClaimGoesOn DEF Claiming
  <1>12. ASSUME NEW c \in Claim, Decide(c) \/ FindCode(c) PROVE GiftInv'
    <2>1. /\ Claiming(c) /\ UNCHANGED <<hour, codes, payments, claimedTogether, revived>>
      BY <1>12 DEF Decide, FindCode, Claiming
    <2>2. \/ claim' = [claim EXCEPT ![c] = NoClaim]
          \/ /\ claim' = [claim EXCEPT ![c] = [claim[c] EXCEPT !.at = "find"]] /\ claim[c].unpaid
          \/ /\ claim' = [claim EXCEPT ![c] = [claim[c] EXCEPT !.at = "create"]] /\ claim[c].at = "find"
             /\ ~ \E i \in Newest : Reusable(i)
      BY <1>12 DEF Decide, FindCode, Eligible
    <2>3. claim' \in [Claim -> ClaimRecord]
      BY <1>1, <2>2, NoClaimIsIdle DEF ClaimRecord
    <2>4. \A d \in Claim : d # c => claim'[d] = claim[d]
      BY <1>1, <2>2
    <2>5. /\ claim'[c].unpaid => claim[c].unpaid /\ claim'[c].after = claim[c].after
          /\ claim'[c].at \in {"find", "create"} => claim'[c].unpaid
          /\ claim'[c].at = "create" => ~ \E i \in Newest : Reusable(i)
      <3>1. claim[c].at = "find" => claim[c].unpaid
        BY DEF GiftInv, AskedAfter
      <3>2. QED
        BY <1>1, <2>2, <3>1, NoClaimIsIdle DEF ClaimRecord
    <2>6. claim[c].unpaid => \A p \in claim[c].after : Undone(p)
      BY DEF GiftInv, AskedAfter
    <2>7. ASSUME ~ \E i \in Newest : Reusable(i), ~revived, ~claimedTogether, NEW i \in DOMAIN codes, Good(codes[i])
          PROVE  FALSE
      <3>1. i = Len(codes)
        BY <2>7 DEF GiftInv, OnlyTheNewest
      <3>2. i \in Newest
        BY <1>1, <2>7, <3>1 DEF Newest, Good
      <3>3. QED
        BY <2>7, <3>2 DEF Reusable
    <2>8. QED
      BY <2>1, <2>3, <2>4, <2>5, <2>6, <2>7, ClaimGoesOn
  <1>13. ASSUME NEW c \in Claim, CreateCode(c) PROVE GiftInv'
    <2>1. /\ claim[c].at = "create" /\ claim' = [claim EXCEPT ![c] = NoClaim]
          /\ UNCHANGED <<hour, payments, claimedTogether, revived>>
          /\ codes' = codes \/ codes' = Append(codes, NewCode(c))
      BY <1>13 DEF CreateCode
    <2>2. /\ claim' \in [Claim -> ClaimRecord] /\ claim'[c].at = "idle" /\ ~claim'[c].unpaid
          /\ \A d \in Claim : d # c => claim'[d] = claim[d]
      BY <1>1, <2>1, NoClaimIsIdle
    <2>3. CASE codes' = codes
      BY <2>1, <2>2, <2>3, ClaimGoesOn DEF Claiming
    <2>4. CASE codes' = Append(codes, NewCode(c))
      <3>1. NewCode(c) \in CodeRecord /\ NewCode(c).after = claim[c].after
        BY <1>1, GrowthGiftAssumption DEF NewCode, CodeRecord, ClaimRecord
      <3>2. /\ codes' \in Seq(CodeRecord) /\ Len(codes') = Len(codes) + 1
            /\ DOMAIN codes' = DOMAIN codes \cup {Len(codes')} /\ codes'[Len(codes')] = NewCode(c)
            /\ \A i \in DOMAIN codes : codes'[i] = codes[i]
        BY <1>1, <2>4, <3>1
      <3>3. GiftTypes'
        BY <1>1, <2>1, <2>2, <3>2 DEF GiftTypes
      <3>4. \A d \in Claim : Claiming(d)' => Claiming(d) /\ d # c
        BY <2>2 DEF Claiming
      <3>5. OnlyTheNewest'
        <4>1. ~claimedTogether /\ ~revived => \A d \in Claim : claim'[d].at = "idle"
          BY <2>1, <2>2, <3>4 DEF GiftInv, OnlyTheNewest, Claiming
        <4>2. ASSUME ~claimedTogether, ~revived, NEW i \in DOMAIN codes PROVE ~Good(codes[i])'
          BY <2>1, <3>2, <4>2 DEF GiftInv, OnlyTheNewest, Good
        <4>3. QED
          BY <2>1, <3>2, <4>1, <4>2 DEF OnlyTheNewest, Claiming
      <3>6. SettledOnce' /\ OpenedAfter'
        BY <1>1, <2>1, <3>2 DEF GiftInv, SettledOnce, OpenedAfter, Paid
      <3>7. \A p : Undone(p)' <=> Undone(p)
        BY <2>1 DEF Undone, Paid
      <3>8. \A p \in claim[c].after : Undone(p)
        BY <2>1 DEF GiftInv, AskedAfter
      <3>9. AskedAfter'
        <4>1. \A i \in DOMAIN codes' : \A p \in codes'[i].after : Undone(p)'
          BY <3>1, <3>2, <3>7, <3>8 DEF GiftInv, AskedAfter
        <4>2. QED
          BY <2>2, <3>7, <4>1 DEF GiftInv, AskedAfter
      <3>10. QED
        BY <3>3, <3>5, <3>6, <3>9 DEF GiftInv
    <2>5. QED
      BY <2>1, <2>3, <2>4
  <1>14. QED
    BY <1>3, <1>4, <1>5, <1>6, <1>7, <1>8, <1>9, <1>10, <1>11, <1>12, <1>13
    DEF GrowthGiftNext, SendMessage, giftVars

LEMMA GiftsAreGivenOnce == GiftInv => OneGoodCode /\ GiftRedeemedOnce
  <1> SUFFICES ASSUME GiftInv PROVE OneGoodCode /\ GiftRedeemedOnce
    OBVIOUS
  <1>1. ASSUME ~claimedTogether, ~revived PROVE Cardinality({i \in DOMAIN codes : Good(codes[i])}) =< 1
    <2> DEFINE good == {i \in DOMAIN codes : Good(codes[i])}
    <2>1. good \subseteq {Len(codes)}
      BY <1>1 DEF GiftInv, OnlyTheNewest
    <2>2. IsFiniteSet({Len(codes)}) /\ Cardinality({Len(codes)}) = 1
      BY FS_Singleton
    <2> HIDE DEF good
    <2>3. Cardinality(good) =< 1
      BY <2>1, <2>2, FS_Subset
    <2>4. QED
      BY <2>3 DEF good
  <1>2. ASSUME NEW p \in Redeemed, NEW q \in Redeemed, p \in payments[q].after
        PROVE  /\ payments[p].code # payments[q].code
               /\ p \notin codes[payments[q].code].after \/ payments[p].status = "FAILED"
    <2>1. /\ p \in DOMAIN payments /\ q \in DOMAIN payments
          /\ payments[p].code # 0 /\ payments[q].code # 0
      BY DEF Redeemed, Paid
    <2>2. payments[p].code # payments[q].code
      BY <1>2, <2>1 DEF GiftInv, OpenedAfter
    <2>3. payments[q].code \in DOMAIN codes
      BY <2>1, GiftFields DEF GiftInv, SettledOnce
    <2>4. p \in codes[payments[q].code].after => payments[p].status = "FAILED"
      BY <2>3 DEF GiftInv, AskedAfter, Undone
    <2>5. QED
      BY <2>2, <2>4
  <1>3. QED
    BY <1>1, <1>2 DEF OneGoodCode, GiftRedeemedOnce

LEMMA OutagesStep == [PlatformNext]_platformVars => [OutagesNext]_outageVars
  BY DEF PlatformNext, platformVars

OutageRecord == [startedAt : Nat, endedAt : Nat \cup {Open}]
OperatorRecord == [at : {"idle", "create", "extend", "close"}, outage : Nat, endedAt : Nat]

Ending(o) == operator[o].at \in {"extend", "close"}

OutageTypes ==
  /\ clock \in Nat /\ startsMet \in BOOLEAN /\ endsMet \in BOOLEAN
  /\ outage \in Seq(OutageRecord) /\ operator \in [Operator -> OperatorRecord]
  /\ extended \in [Subscriber -> Int]
  /\ \A o \in Operator : Ending(o) => operator[o].outage \in DOMAIN outage

(* Who makes an outage is alone in doing so, and there is none yet. *)
StartsAlone ==
  ~startsMet =>
    /\ \A i, j \in Current : i = j
    /\ \A o \in Operator : operator[o].at = "create" => Current = {}
    /\ \A o, x \in Operator : operator[o].at = "create" /\ operator[x].at = "create" => o = x

(* An outage is ended by one request, and is open until that one closes it. *)
EndsAlone ==
  ~endsMet =>
    /\ \A o, x \in Operator : Ending(o) /\ Ending(x) /\ operator[o].outage = operator[x].outage => o = x
    /\ \A o \in Operator : Ending(o) => outage[operator[o].outage].endedAt = Open

Ended == {i \in DOMAIN outage : outage[i].endedAt # Open}
Closing == {o \in Operator : operator[o].at = "close"}
Length == [i \in DOMAIN outage |-> outage[i].endedAt - outage[i].startedAt]
Owed == [o \in Operator |-> IF Ending(o) THEN Duration(o) ELSE 0]
MadeUp == SumOver(Length, Ended) + SumOver(Owed, Closing)

EverySecondGiven ==
  ~endsMet => \A s \in Subscriber : extended[s] = (IF s \in PaidPlan THEN MadeUp ELSE 0)

OutagesInv == OutageTypes /\ StartsAlone /\ EndsAlone /\ EverySecondGiven

LEMMA IdleOperator == OperatorIdle \in OperatorRecord /\ OperatorIdle.at = "idle"
  BY DEF OperatorIdle, OperatorRecord

LEMMA InitOutages == OutagesInit => OutagesInv
  <1> SUFFICES ASSUME OutagesInit PROVE OutagesInv
    OBVIOUS
  <1>1. /\ outage = <<>> /\ extended = [s \in Subscriber |-> 0] /\ clock = 0
        /\ operator = [o \in Operator |-> OperatorIdle] /\ startsMet = FALSE /\ endsMet = FALSE
    BY DEF OutagesInit
  <1>2. outage \in Seq(OutageRecord) /\ DOMAIN outage = {}
    BY <1>1
  <1>3. operator \in [Operator -> OperatorRecord] /\ \A o \in Operator : operator[o].at = "idle"
    BY <1>1, IdleOperator
  <1>4. OutageTypes
    <2>1. extended \in [Subscriber -> Int]
      BY <1>1
    <2>2. \A o \in Operator : ~Ending(o)
      BY <1>3 DEF Ending
    <2>3. clock \in Nat /\ startsMet \in BOOLEAN /\ endsMet \in BOOLEAN
      BY <1>1
    <2>4. QED
      BY <1>2, <1>3, <2>1, <2>2, <2>3 DEF OutageTypes
  <1>5. Current = {} /\ Ended = {} /\ Closing = {}
    BY <1>2, <1>3 DEF Current, Ended, Closing
  <1>6. StartsAlone /\ EndsAlone
    BY <1>3, <1>5 DEF StartsAlone, EndsAlone, Ending
  <1>7. EverySecondGiven
    BY <1>1, <1>5, TotalEmpty DEF EverySecondGiven, MadeUp
  <1>8. QED
    BY <1>4, <1>6, <1>7 DEF OutagesInv

\* What the sums are of.
LEMMA OutageSums ==
  ASSUME OutagesInv
  PROVE  /\ IsFiniteSet(Ended) /\ IsFiniteSet(Closing)
         /\ \A i \in Ended : Length[i] \in Int
         /\ \A o \in Operator : Owed[o] \in Int
         /\ SumOver(Length, Ended) \in Int /\ SumOver(Owed, Closing) \in Int
  <1>1. outage \in Seq(OutageRecord) /\ operator \in [Operator -> OperatorRecord]
        /\ DOMAIN outage = 1..Len(outage)
    BY DEF OutagesInv, OutageTypes
  <1>2. IsFiniteSet(Ended) /\ IsFiniteSet(Closing)
    <2>1. IsFiniteSet(1..Len(outage))
      BY <1>1, FS_Interval
    <2>2. Ended \subseteq 1..Len(outage) /\ Closing \subseteq Operator
      BY <1>1 DEF Ended, Closing
    <2>3. IsFiniteSet(Ended)
      BY <2>1, <2>2, FS_Subset
    <2>4. IsFiniteSet(Operator)
      BY OutagesAssumption
    <2>5. IsFiniteSet(Closing)
      BY <2>2, <2>4, FS_Subset
    <2>6. QED
      BY <2>3, <2>5
  <1>3. \A i \in DOMAIN outage : outage[i].startedAt \in Nat /\ outage[i].endedAt \in Int
    <2>1. \A i \in DOMAIN outage : outage[i] \in OutageRecord
      BY <1>1
    <2>2. Nat \cup {Open} \subseteq Int
      BY DEF Open
    <2>3. QED
      BY <2>1, <2>2 DEF OutageRecord
  <1>4. \A i \in Ended : Length[i] \in Int
    BY <1>3 DEF Ended, Length
  <1>5. \A o \in Operator : Owed[o] \in Int
    <2>1. \A o \in Operator : operator[o].endedAt \in Nat
      BY <1>1 DEF OperatorRecord
    <2>2. \A o \in Operator : Ending(o) => operator[o].outage \in DOMAIN outage
      BY DEF OutagesInv, OutageTypes
    <2>3. QED
      BY <1>3, <2>1, <2>2 DEF Owed, Duration
  <1>6. SumOver(Length, Ended) \in Int
    BY <1>2, <1>4, TotalType
  <1>7. SumOver(Owed, Closing) \in Int
    <2>1. \A o \in Closing : Owed[o] \in Int
      BY <1>5 DEF Closing
    <2>2. QED
      BY <1>2, <2>1, TotalType
  <1>8. QED
    BY <1>2, <1>4, <1>5, <1>6, <1>7

(* Steps that neither end an outage nor begin or end a closing, and leave what is owed. *)
LEMMA NothingMadeUp ==
  ASSUME OutagesInv, UNCHANGED extended, endsMet => endsMet',
         ~endsMet' => Ended' = Ended /\ Closing' = Closing,
         \A i \in Ended : Length'[i] = Length[i], \A o \in Closing : Owed'[o] = Owed[o]
  PROVE  EverySecondGiven'
  <1>1. CASE ~endsMet'
    <2> DEFINE F == Length
               G == Length'
               P == Owed
               Q == Owed'
    <2>1. /\ IsFiniteSet(Ended) /\ \A i \in Ended : F[i] \in Int /\ F[i] = G[i]
          /\ IsFiniteSet(Closing) /\ \A o \in Closing : P[o] \in Int /\ P[o] = Q[o]
      BY OutageSums DEF Closing
    <2> HIDE DEF F, G, P, Q
    <2>2. SumOver(F, Ended) = SumOver(G, Ended)
      BY <2>1, TotalSame
    <2>3. SumOver(P, Closing) = SumOver(Q, Closing)
      BY <2>1, TotalSame
    <2>4. MadeUp' = MadeUp
      BY <1>1, <2>2, <2>3 DEF MadeUp, F, G, P, Q
    <2>5. QED
      BY <1>1, <2>4 DEF OutagesInv, EverySecondGiven
  <1>2. QED
    BY <1>1 DEF EverySecondGiven

LEMMA NextOutages == OutagesInv /\ [OutagesNext]_outageVars => OutagesInv'
  <1> SUFFICES ASSUME OutagesInv, [OutagesNext]_outageVars PROVE OutagesInv'
    OBVIOUS
  <1>1. /\ clock \in Nat /\ startsMet \in BOOLEAN /\ endsMet \in BOOLEAN
        /\ outage \in Seq(OutageRecord) /\ operator \in [Operator -> OperatorRecord]
        /\ extended \in [Subscriber -> Int] /\ DOMAIN outage = 1..Len(outage)
        /\ \A o \in Operator : Ending(o) => operator[o].outage \in DOMAIN outage
        /\ \A i \in DOMAIN outage : outage[i] \in OutageRecord
    BY DEF OutagesInv, OutageTypes
  <1>2. ASSUME UNCHANGED <<outage, extended, operator, startsMet, endsMet>>, clock' \in Nat PROVE OutagesInv'
    <2>1. OutageTypes' /\ StartsAlone' /\ EndsAlone'
      BY <1>2 DEF OutagesInv, OutageTypes, StartsAlone, EndsAlone, Ending, Current
    <2>2. Ended' = Ended /\ Closing' = Closing /\ Length' = Length /\ Owed' = Owed
      BY <1>2 DEF Ended, Closing, Length, Owed, Ending, Duration
    <2>3. EverySecondGiven'
      BY <1>2, <2>2, NothingMadeUp
    <2>4. QED
      BY <2>1, <2>3 DEF OutagesInv
  <1>3. ASSUME NEW o \in Operator, FindNoneOpen(o) PROVE OutagesInv'
    <2>1. /\ operator[o].at = "idle" /\ Current = {}
          /\ operator' = [operator EXCEPT ![o].at = "create"]
          /\ startsMet' = (startsMet \/ \E x \in Operator : operator[x].at = "create")
          /\ UNCHANGED <<outage, extended, clock, endsMet>>
      BY <1>3 DEF FindNoneOpen, MayStart
    <2>2. /\ operator' \in [Operator -> OperatorRecord] /\ operator'[o].at = "create"
          /\ \A x \in Operator : x # o => operator'[x] = operator[x]
      BY <1>1, <2>1 DEF OperatorRecord
    <2>3. ~Ending(o) /\ ~Ending(o)' /\ \A x \in Operator : x # o => Ending(x)' = Ending(x)
      BY <2>1, <2>2 DEF Ending
    <2>4. ~startsMet' => ~startsMet /\ \A x \in Operator : operator[x].at # "create"
      BY <2>1
    <2>5. OutageTypes'
      BY <1>1, <2>1, <2>2, <2>3 DEF OutageTypes
    <2>6. StartsAlone'
      BY <2>1, <2>2, <2>4 DEF StartsAlone, Current
    <2>7. EndsAlone'
      BY <2>1, <2>2, <2>3 DEF OutagesInv, EndsAlone
    <2>8. Ended' = Ended /\ Closing' = Closing /\ Length' = Length /\ Owed' = Owed
      BY <2>1, <2>2, <2>3 DEF Ended, Closing, Length, Owed, Duration
    <2>9. EverySecondGiven'
      BY <2>1, <2>8, NothingMadeUp
    <2>10. QED
      BY <2>5, <2>6, <2>7, <2>9 DEF OutagesInv
  <1>4. ASSUME NEW o \in Operator, CreateOutage(o) PROVE OutagesInv'
    <2> DEFINE row == [startedAt |-> clock, endedAt |-> Open]
    <2>1. /\ operator[o].at = "create" /\ outage' = Append(outage, row)
          /\ operator' = [operator EXCEPT ![o] = OperatorIdle]
          /\ UNCHANGED <<extended, clock, startsMet, endsMet>>
      BY <1>4 DEF CreateOutage
    <2>2. row \in OutageRecord /\ row.endedAt = Open
      BY <1>1 DEF OutageRecord
    <2> HIDE DEF row
    <2>3. /\ outage' \in Seq(OutageRecord) /\ DOMAIN outage' = 1..(Len(outage) + 1)
          /\ outage'[Len(outage) + 1] = row /\ \A i \in DOMAIN outage : outage'[i] = outage[i]
      BY <1>1, <2>1, <2>2
    <2>4. /\ operator' \in [Operator -> OperatorRecord] /\ operator'[o].at = "idle"
          /\ \A x \in Operator : x # o => operator'[x] = operator[x]
      BY <1>1, <2>1, IdleOperator
    <2>5. ~Ending(o) /\ ~Ending(o)' /\ \A x \in Operator : x # o => Ending(x)' = Ending(x)
      BY <2>1, <2>4 DEF Ending
    <2>6. \A x \in Operator : Ending(x)' => Ending(x) /\ operator'[x] = operator[x]
      BY <2>4, <2>5
    <2>7. OutageTypes'
      BY <1>1, <2>1, <2>3, <2>4, <2>6 DEF OutageTypes
    <2>8. StartsAlone'
      <3>1. ~startsMet => Current = {} /\ \A x \in Operator : operator'[x].at # "create"
        BY <2>1, <2>4 DEF OutagesInv, StartsAlone
      <3>2. ~startsMet => Current' \subseteq {Len(outage) + 1}
        BY <1>1, <2>3, <3>1 DEF Current
      <3>3. QED
        BY <2>1, <3>1, <3>2 DEF StartsAlone
    <2>9. EndsAlone'
      BY <1>1, <2>1, <2>3, <2>6 DEF OutagesInv, EndsAlone
    <2>10. Ended' = Ended
      BY <1>1, <2>2, <2>3 DEF Ended
    <2>11. Closing' = Closing
      BY <2>1, <2>4 DEF Closing
    <2>12. \A i \in Ended : Length'[i] = Length[i]
      BY <1>1, <2>3 DEF Ended, Length
    <2>13. \A x \in Operator : Owed'[x] = Owed[x]
      BY <1>1, <2>3, <2>4, <2>5 DEF Owed, Duration
    <2>14. EverySecondGiven'
      BY <2>1, <2>10, <2>11, <2>12, <2>13, NothingMadeUp DEF Closing
    <2>15. QED
      BY <2>7, <2>8, <2>9, <2>14 DEF OutagesInv
  <1>5. ASSUME NEW o \in Operator, NEW i \in DOMAIN outage, FindCurrent(o, i) PROVE OutagesInv'
    <2> DEFINE found == [at |-> "extend", outage |-> i, endedAt |-> clock]
    <2>1. /\ operator[o].at = "idle" /\ i \in Current /\ operator' = [operator EXCEPT ![o] = found]
          /\ endsMet' = (endsMet \/ \E x \in Operator :
                           operator[x].at \in {"extend", "close"} /\ operator[x].outage = i)
          /\ UNCHANGED <<outage, extended, clock, startsMet>>
      BY <1>5 DEF FindCurrent
    <2>2. found \in OperatorRecord /\ found.at = "extend" /\ found.outage = i
      BY <1>1 DEF OperatorRecord
    <2> HIDE DEF found
    <2>3. /\ operator' \in [Operator -> OperatorRecord] /\ operator'[o] = found
          /\ \A x \in Operator : x # o => operator'[x] = operator[x]
      BY <1>1, <2>1, <2>2
    <2>4. ~Ending(o) /\ Ending(o)' /\ \A x \in Operator : x # o => Ending(x)' = Ending(x)
      BY <2>1, <2>2, <2>3 DEF Ending
    <2>5. ~endsMet' => ~endsMet /\ \A x \in Operator : Ending(x) => operator[x].outage # i
      BY <2>1 DEF Ending
    <2>6. endsMet' \in BOOLEAN /\ (endsMet => endsMet')
      BY <1>1, <2>1
    <2>7. OutageTypes'
      BY <1>1, <2>1, <2>2, <2>3, <2>4, <2>6 DEF OutageTypes
    <2>8. StartsAlone'
      BY <2>1, <2>2, <2>3 DEF OutagesInv, StartsAlone, Current
    <2>9. EndsAlone'
      BY <2>1, <2>2, <2>3, <2>4, <2>5 DEF OutagesInv, EndsAlone, Current
    <2>10. Ended' = Ended /\ Closing' = Closing /\ Length' = Length /\ \A x \in Closing : Owed'[x] = Owed[x]
      BY <2>1, <2>2, <2>3, <2>4 DEF Ended, Closing, Length, Owed, Duration
    <2>11. EverySecondGiven'
      BY <2>1, <2>6, <2>10, NothingMadeUp
    <2>12. QED
      BY <2>7, <2>8, <2>9, <2>11 DEF OutagesInv
  <1>6. ASSUME NEW o \in Operator, Extend(o) PROVE OutagesInv'
    <2>1. /\ operator[o].at = "extend" /\ operator' = [operator EXCEPT ![o].at = "close"]
          /\ extended' = [s \in Subscriber |-> extended[s] + (IF s \in PaidPlan THEN Duration(o) ELSE 0)]
          /\ UNCHANGED <<outage, clock, startsMet, endsMet>>
      BY <1>6 DEF Extend
    <2>2. /\ operator' \in [Operator -> OperatorRecord] /\ operator'[o].at = "close"
          /\ operator'[o].outage = operator[o].outage /\ operator'[o].endedAt = operator[o].endedAt
          /\ \A x \in Operator : x # o => operator'[x] = operator[x]
      BY <1>1, <2>1 DEF OperatorRecord
    <2>3. Ending(o) /\ \A x \in Operator : Ending(x)' = Ending(x) /\ operator'[x].outage = operator[x].outage
      BY <2>1, <2>2 DEF Ending
    <2>4. Duration(o) \in Int /\ Owed[o] = Duration(o)
      BY <2>3, OutageSums DEF Owed
    <2>5. OutageTypes'
      BY <1>1, <2>1, <2>2, <2>3, <2>4 DEF OutageTypes
    <2>6. StartsAlone'
      BY <2>1, <2>2 DEF OutagesInv, StartsAlone, Current
    <2>7. EndsAlone'
      BY <2>1, <2>3 DEF OutagesInv, EndsAlone
    <2>8. Ended' = Ended /\ Length' = Length /\ Closing' = Closing \cup {o} /\ o \notin Closing
      BY <2>1, <2>2 DEF Ended, Length, Closing
    <2>9. Owed' = Owed
      BY <2>1, <2>2, <2>3 DEF Owed, Duration
    <2>10. MadeUp' = MadeUp + Duration(o)
      <3> DEFINE P == Owed
      <3>1. \A x \in Closing \cup {o} : P[x] \in Int
        BY OutageSums DEF Closing
      <3>2. P[o] = Duration(o)
        BY <2>4
      <3> HIDE DEF P
      <3>3. SumOver(P, Closing \cup {o}) = SumOver(P, Closing) + P[o]
        BY <2>8, <3>1, OutageSums, TotalAdd
      <3>4. SumOver(Owed, Closing)' = SumOver(Owed, Closing) + Duration(o)
        BY <2>8, <2>9, <3>2, <3>3 DEF P
      <3>5. SumOver(Length, Ended)' = SumOver(Length, Ended)
        BY <2>8
      <3>6. QED
        BY <2>4, <3>4, <3>5, OutageSums DEF MadeUp
    <2>11. EverySecondGiven'
      <3>1. MadeUp \in Int
        BY OutageSums DEF MadeUp
      <3>2. QED
        BY <1>1, <2>1, <2>4, <2>10, <3>1 DEF OutagesInv, EverySecondGiven
    <2>12. QED
      BY <2>5, <2>6, <2>7, <2>11 DEF OutagesInv
  <1>7. ASSUME NEW o \in Operator, CloseOutage(o) PROVE OutagesInv'
    <2> DEFINE i == operator[o].outage
               end == operator[o].endedAt
    <2>1. /\ operator[o].at = "close" /\ outage' = [outage EXCEPT ![i].endedAt = end]
          /\ operator' = [operator EXCEPT ![o] = OperatorIdle]
          /\ UNCHANGED <<extended, clock, startsMet, endsMet>>
      BY <1>7 DEF CloseOutage
    <2>2. end \in Nat /\ i \in DOMAIN outage /\ end # Open
      BY <1>1, <2>1 DEF OperatorRecord, Ending, Open
    <2>3. Duration(o) = end - outage[i].startedAt
      BY DEF Duration
    <2> HIDE DEF i, end
    <2>4. /\ outage' \in Seq(OutageRecord) /\ DOMAIN outage' = DOMAIN outage
          /\ outage'[i].endedAt = end /\ outage'[i].startedAt = outage[i].startedAt
          /\ \A j \in DOMAIN outage : j # i => outage'[j] = outage[j]
      <3>1. outage' = [outage EXCEPT ![i] = [outage[i] EXCEPT !.endedAt = end]]
        BY <1>1, <2>1, <2>2
      <3>2. [outage[i] EXCEPT !.endedAt = end] \in OutageRecord
        BY <1>1, <2>2 DEF OutageRecord
      <3>3. QED
        BY <1>1, <2>2, <3>1, <3>2 DEF OutageRecord
    <2>5. /\ operator' \in [Operator -> OperatorRecord] /\ operator'[o].at = "idle"
          /\ \A x \in Operator : x # o => operator'[x] = operator[x]
      BY <1>1, <2>1, IdleOperator
    <2>6. Ending(o) /\ ~Ending(o)' /\ \A x \in Operator : x # o => Ending(x)' = Ending(x)
      BY <2>1, <2>5 DEF Ending
    <2>7. \A x \in Operator : Ending(x)' => Ending(x) /\ operator'[x] = operator[x] /\ x # o
      BY <2>5, <2>6
    <2>8. OutageTypes'
      BY <1>1, <2>1, <2>4, <2>5, <2>7 DEF OutageTypes
    <2>9. StartsAlone'
      <3>1. Current' \subseteq Current
        BY <2>2, <2>4 DEF Current
      <3>2. QED
        BY <2>1, <2>5, <3>1 DEF OutagesInv, StartsAlone
    <2>10. EndsAlone'
      <3>1. ASSUME ~endsMet, NEW x \in Operator, Ending(x)' PROVE outage'[operator'[x].outage].endedAt = Open
        <4>1. operator[x].outage # i
          BY <2>6, <2>7, <3>1 DEF OutagesInv, EndsAlone, i
        <4>2. QED
          BY <1>1, <2>4, <2>7, <3>1, <4>1 DEF OutagesInv, EndsAlone
      <3>2. QED
        BY <2>1, <2>7, <3>1 DEF OutagesInv, EndsAlone
    <2>11. EverySecondGiven'
      <3> SUFFICES ASSUME ~endsMet PROVE MadeUp' = MadeUp
        BY <2>1 DEF OutagesInv, EverySecondGiven
      <3>1. i \notin Ended /\ Ended' = Ended \cup {i}
        <4>1. outage[i].endedAt = Open
          BY <2>6 DEF OutagesInv, EndsAlone, i
        <4>2. QED
          BY <2>2, <2>4, <4>1 DEF Ended
      <3>2. o \in Closing /\ Closing' = Closing \ {o}
        BY <2>1, <2>5 DEF Closing
      <3> DEFINE F == Length
                 G == Length'
                 P == Owed
                 Q == Owed'
                 R == Closing \ {o}
      <3>3. /\ \A j \in Ended : F[j] \in Int /\ F[j] = G[j]
            /\ G[i] = Duration(o)
        BY <1>1, <2>2, <2>3, <2>4, <3>1, OutageSums DEF Length, Ended
      <3>4. \A x \in R : P[x] = Q[x]
        <4>1. ASSUME NEW x \in R PROVE P[x] = Q[x]
          <5>1. x \in Operator /\ x # o /\ operator'[x] = operator[x] /\ Ending(x) /\ Ending(x)'
            BY <2>5, <2>6 DEF Closing, Ending
          <5>2. outage'[operator[x].outage].startedAt = outage[operator[x].outage].startedAt
            BY <1>1, <2>4, <5>1
          <5>3. QED
            BY <5>1, <5>2 DEF Owed, Duration
        <4>2. QED
          BY <4>1
      <3>5. Duration(o) \in Int /\ P[o] = Duration(o) /\ \A x \in Closing : P[x] \in Int
        BY <2>6, OutageSums DEF Owed, Closing
      <3>6. IsFiniteSet(R) /\ \A x \in R : P[x] \in Int /\ P[x] = Q[x]
        BY <3>4, <3>5, OutageSums, FS_Subset
      <3> HIDE DEF F, G, P, Q
      <3>7. SumOver(G, Ended \cup {i}) = SumOver(G, Ended) + G[i]
        <4>1. \A j \in Ended \cup {i} : G[j] \in Int
          BY <3>3, <3>5
        <4>2. QED
          BY <3>1, <4>1, OutageSums, TotalAdd
      <3>8. SumOver(F, Ended) = SumOver(G, Ended)
        BY <3>3, OutageSums, TotalSame
      <3>9. SumOver(P, Closing) = SumOver(P, R) + P[o]
        BY <3>2, <3>5, OutageSums, TotalRest
      <3>10. SumOver(P, R) = SumOver(Q, R) /\ SumOver(P, R) \in Int
        <4> HIDE DEF R
        <4>1. SumOver(P, R) = SumOver(Q, R)
          BY <3>6, TotalSame
        <4>2. SumOver(P, R) \in Int
          BY <3>6, TotalType
        <4>3. QED
          BY <4>1, <4>2
      <3>11. SumOver(Length, Ended)' = SumOver(Length, Ended) + Duration(o)
        BY <3>1, <3>3, <3>7, <3>8 DEF F, G
      <3>12. SumOver(Owed, Closing) = SumOver(Owed, Closing)' + Duration(o) /\ SumOver(Owed, Closing)' \in Int
        BY <3>2, <3>5, <3>9, <3>10 DEF P, Q
      <3>13. QED
        BY <3>5, <3>11, <3>12, OutageSums DEF MadeUp
    <2>12. QED
      BY <2>8, <2>9, <2>10, <2>11 DEF OutagesInv
  <1>8. ASSUME NEW o \in Operator, OperatorFails(o) PROVE OutagesInv'
    <2>1. /\ operator' = [operator EXCEPT ![o] = OperatorIdle]
          /\ endsMet' = (endsMet \/ operator[o].at = "close")
          /\ UNCHANGED <<outage, extended, clock, startsMet>>
      BY <1>8 DEF OperatorFails
    <2>2. /\ operator' \in [Operator -> OperatorRecord] /\ operator'[o].at = "idle"
          /\ \A x \in Operator : x # o => operator'[x] = operator[x]
      BY <1>1, <2>1, IdleOperator
    <2>3. \A x \in Operator : Ending(x)' => Ending(x) /\ operator'[x] = operator[x]
      BY <2>2 DEF Ending
    <2>4. /\ endsMet' \in BOOLEAN /\ endsMet => endsMet'
          /\ ~endsMet' => ~endsMet /\ operator[o].at # "close"
      BY <1>1, <2>1
    <2>5. OutageTypes'
      BY <1>1, <2>1, <2>2, <2>3, <2>4 DEF OutageTypes
    <2>6. StartsAlone'
      BY <2>1, <2>2 DEF OutagesInv, StartsAlone, Current
    <2>7. EndsAlone'
      BY <2>1, <2>3, <2>4 DEF OutagesInv, EndsAlone
    <2>8. Ended' = Ended /\ Length' = Length
      BY <2>1 DEF Ended, Length
    <2>9. ~endsMet' => Closing' = Closing /\ \A x \in Closing : Owed'[x] = Owed[x]
      BY <2>1, <2>2, <2>4 DEF Closing, Owed, Ending, Duration
    <2>10. EverySecondGiven'
      <3>1. CASE endsMet'
        BY <3>1 DEF EverySecondGiven
      <3>2. CASE ~endsMet'
        BY <2>1, <2>4, <2>8, <2>9, <3>2, NothingMadeUp
      <3>3. QED
        BY <3>1, <3>2
    <2>11. QED
      BY <2>5, <2>6, <2>7, <2>10 DEF OutagesInv
  <1>9. QED
    BY <1>1, <1>2, <1>3, <1>4, <1>5, <1>6, <1>7, <1>8 DEF OutagesNext, ClockTicks, outageVars

LEMMA OutagesAreMadeUp == OutagesInv => OneOutageOpen /\ OutagesMadeUp
  <1> SUFFICES ASSUME OutagesInv PROVE OneOutageOpen /\ OutagesMadeUp
    OBVIOUS
  <1>1. OneOutageOpen
    <2>1. ASSUME ~startsMet PROVE Cardinality(Current) =< 1
      <3>1. CASE Current = {}
        BY <3>1, FS_EmptySet
      <3>2. CASE Current # {}
        <4>1. PICK i : Current = {i}
          BY <2>1, <3>2 DEF OutagesInv, StartsAlone
        <4>2. Cardinality({i}) = 1
          BY FS_Singleton
        <4>3. Cardinality(Current) = 1
          BY <4>1, <4>2
        <4>4. QED
          BY <4>3
      <3>3. QED
        BY <3>1, <3>2
    <2>2. QED
      BY <2>1 DEF OneOutageOpen
  <1>2. OutagesMadeUp
    <2> DEFINE given == [i \in Ended |-> outage[i].endedAt - outage[i].startedAt]
               due == [o \in Closing |-> Duration(o)]
               F == Length
               P == Owed
    <2>1. \A i \in Ended : F[i] \in Int /\ F[i] = given[i]
      BY OutageSums DEF Length, Ended
    <2>2. \A o \in Closing : P[o] \in Int /\ P[o] = due[o]
      BY OutageSums DEF Owed, Closing, Ending
    <2>3. DOMAIN given = Ended /\ DOMAIN due = Closing
      OBVIOUS
    <2> HIDE DEF given, due, F, P
    <2>4. SumFunction(given) = SumOver(given, Ended) /\ SumFunction(due) = SumOver(due, Closing)
      BY <2>3, FunctionSum
    <2>5. SumOver(F, Ended) = SumOver(given, Ended)
      BY <2>1, OutageSums, TotalSame
    <2>6. SumOver(P, Closing) = SumOver(due, Closing)
      BY <2>2, OutageSums, TotalSame
    <2>7. SumFunction(given) + SumFunction(due) = MadeUp
      BY <2>4, <2>5, <2>6 DEF MadeUp, F, P
    <2>8. QED
      BY <2>7 DEF OutagesInv, EverySecondGiven, OutagesMadeUp, given, due, Ended, Closing
  <1>3. QED
    BY <1>1, <1>2

(* What is given away is given once. A user has one good code of the welcome gift at a time,
   however often it is claimed, expires or is switched off. A payment looks at its code when
   it is opened and redeems it, whatever has become of it, when it is settled: so the gift is
   redeemed again only by payments that were open together, or with another code, claimed
   while the earlier payment was still open or after a failure redirect had undone it. Who
   pays gets back exactly the time of the outages, however many requests start, end and fail.
   All this but for the overlaps and failures that the parts name.
   (discount-code.service.ts, payments.service.ts, network-outage.service.ts) *)
THEOREM DueIsGivenOnce == PlatformSpec => []UsersGetTheirDueOnce
  <1>1. GiftInv /\ OutagesInv => UsersGetTheirDueOnce
    BY GiftsAreGivenOnce, OutagesAreMadeUp DEF UsersGetTheirDueOnce
  <1>2. PlatformInit => GiftInv /\ OutagesInv
    BY InitGift, InitOutages DEF PlatformInit
  <1>3. GiftInv /\ OutagesInv /\ [PlatformNext]_platformVars => GiftInv' /\ OutagesInv'
    BY GiftStep, OutagesStep, NextGift, NextOutages
  <1>4. QED
    BY <1>1, <1>2, <1>3, PTL DEF PlatformSpec
-----------------------------------------------------------------------------
(* What administrators are told *)

LEMMA AlertsStep == [PlatformNext]_platformVars => [AdminAlertsNext]_alertVars
  BY DEF PlatformNext, platformVars

CheckRecord == [at : {"idle", "acquire", "notify"}, since : Minute \cup {-1}]
CallRecord == [minute : Minute \cup {-1}, ok : BOOLEAN]

AlertTypes ==
  /\ minute \in Minute /\ cooldown \in [Alert -> Minute \cup {-1}]
  /\ checker \in [Checker -> [Alert -> CheckRecord]]
  /\ alerts \in [Alert -> [Minute -> Nat]]
  /\ \A p \in Checker, a \in Alert : checker[p][a].at = "notify" => checker[p][a].since \in Minute

\* p is about to write the notification of the cooldown that began at m.
Notifying(p, a, m) == checker[p][a].at = "notify" /\ checker[p][a].since = m
Taken(a, m) == alerts[a][m] > 0 \/ \E p \in Checker : Notifying(p, a, m)

(* A cooldown that was taken belongs to one process and makes one alert. *)
OneAlertEach ==
  \A a \in Alert, m \in Minute :
    /\ alerts[a][m] =< 1
    /\ \A p \in Checker : Notifying(p, a, m) => alerts[a][m] = 0
    /\ \A p, q \in Checker : Notifying(p, a, m) /\ Notifying(q, a, m) => p = q

(* The cooldowns that were taken lie a Cooldown apart, the present one included, and when
   there is none they are over. *)
TakenApart ==
  \A a \in Alert, m \in Minute : Taken(a, m) =>
    /\ m =< minute
    /\ cooldown[a] = -1 => minute >= m + Cooldown
    /\ cooldown[a] # -1 => cooldown[a] = m \/ cooldown[a] >= m + Cooldown
    /\ \A n \in Minute : Taken(a, n) /\ m < n => n >= m + Cooldown

AlertsInv == AlertTypes /\ OneAlertEach /\ TakenApart /\ QuietOnlyAfterAlert

LEMMA Midnight == 0 \in Minute /\ Minute \subseteq Nat /\ Cooldown \in Nat \ {0} /\ -1 \notin Minute
  BY AdminAlertsAssumption DEF Minute

LEMMA InitAlerts == AdminAlertsInit => AlertsInv
  <1> SUFFICES ASSUME AdminAlertsInit PROVE AlertsInv
    OBVIOUS
  <1>1. /\ minute = 0 /\ cooldown = [a \in Alert |-> -1]
        /\ checker = [p \in Checker |-> [a \in Alert |-> [at |-> "idle", since |-> -1]]]
        /\ alerts = [a \in Alert |-> [m \in Minute |-> 0]]
    BY DEF AdminAlertsInit
  <1>2. \A p \in Checker, a \in Alert : checker[p][a] = [at |-> "idle", since |-> -1]
    BY <1>1
  <1>3. [at |-> "idle", since |-> -1] \in CheckRecord
    BY DEF CheckRecord
  <1>4. AlertTypes
    BY <1>1, <1>2, <1>3, Midnight DEF AlertTypes
  <1>5. \A a \in Alert, m \in Minute : alerts[a][m] = 0 /\ \A p \in Checker : ~Notifying(p, a, m)
    BY <1>1, <1>2 DEF Notifying
  <1>6. \A a \in Alert, m \in Minute : ~Taken(a, m)
    BY <1>5 DEF Taken
  <1>7. \A a \in Alert : ~(cooldown[a] >= 0)
    BY <1>1
  <1>8. OneAlertEach /\ TakenApart /\ QuietOnlyAfterAlert
    BY <1>5, <1>6, <1>7 DEF OneAlertEach, TakenApart, QuietOnlyAfterAlert
  <1>9. QED
    BY <1>4, <1>8 DEF AlertsInv

LEMMA NextAlerts == AlertsInv /\ [AdminAlertsNext]_alertVars => AlertsInv'
  <1> SUFFICES ASSUME AlertsInv, [AdminAlertsNext]_alertVars PROVE AlertsInv'
    OBVIOUS
  <1>1. /\ minute \in Minute /\ cooldown \in [Alert -> Minute \cup {-1}]
        /\ checker \in [Checker -> [Alert -> CheckRecord]]
        /\ alerts \in [Alert -> [Minute -> Nat]]
        /\ \A p \in Checker, a \in Alert : checker[p][a].at = "notify" => checker[p][a].since \in Minute
    BY DEF AlertsInv, AlertTypes
  <1>2. ASSUME UNCHANGED <<minute, cooldown, checker, alerts, lost>> PROVE AlertsInv'
    BY <1>2 DEF AlertsInv, AlertTypes, OneAlertEach, TakenApart, QuietOnlyAfterAlert, Taken, Notifying
  <1>3. ASSUME NEW p \in Checker, NEW a \in Alert, NEW x \in CheckRecord, x.at # "notify",
               checker[p][a].at # "notify", checker' = [checker EXCEPT ![p][a] = x],
               UNCHANGED <<minute, cooldown, alerts, lost>>
        PROVE  AlertsInv'
    <2>1. /\ checker' \in [Checker -> [Alert -> CheckRecord]] /\ checker'[p][a] = x
          /\ \A q \in Checker, b \in Alert : q # p \/ b # a => checker'[q][b] = checker[q][b]
      BY <1>1, <1>3
    <2>2. \A q \in Checker, b \in Alert, m \in Minute : Notifying(q, b, m)' = Notifying(q, b, m)
      BY <1>3, <2>1 DEF Notifying
    <2>3. \A b \in Alert, m \in Minute : Taken(b, m)' = Taken(b, m)
      BY <1>3, <2>2 DEF Taken
    <2>4. AlertTypes'
      BY <1>1, <1>3, <2>1 DEF AlertTypes
    <2>5. OneAlertEach' /\ TakenApart'
      BY <1>3, <2>2, <2>3 DEF AlertsInv, OneAlertEach, TakenApart
    <2>6. QuietOnlyAfterAlert'
      <3>1. ASSUME NEW b \in Alert, NEW q \in Checker, checker[q][b] = [at |-> "notify", since |-> cooldown[b]]
            PROVE  checker'[q][b] = [at |-> "notify", since |-> cooldown'[b]]
        BY <1>3, <2>1, <3>1
      <3>2. QED
        BY <1>3, <3>1 DEF AlertsInv, QuietOnlyAfterAlert
    <2>7. QED
      BY <2>4, <2>5, <2>6 DEF AlertsInv
  <1>4. ASSUME NEW p \in Checker, NEW a \in Alert, CheckAlert(p, a) PROVE AlertsInv'
    <2> DEFINE x == [at |-> "acquire", since |-> -1]
    <2>1. x \in CheckRecord /\ x.at # "notify"
      BY DEF CheckRecord
    <2>2. checker' = [checker EXCEPT ![p][a] = x] /\ checker[p][a].at = "idle"
          /\ UNCHANGED <<minute, cooldown, alerts, lost>>
      BY <1>4 DEF CheckAlert, To
    <2> HIDE DEF x
    <2>3. QED
      BY <1>3, <2>1, <2>2
  <1>5. ASSUME NEW p \in Checker, NEW a \in Alert, AcquireCooldown(p, a), ~Free(a) PROVE AlertsInv'
    <2> DEFINE x == [at |-> "idle", since |-> -1]
    <2>1. x \in CheckRecord /\ x.at # "notify"
      BY DEF CheckRecord
    <2>2. checker' = [checker EXCEPT ![p][a] = x] /\ checker[p][a].at = "acquire"
          /\ UNCHANGED <<minute, cooldown, alerts, lost>>
      BY <1>5 DEF AcquireCooldown, To
    <2> HIDE DEF x
    <2>3. QED
      BY <1>3, <2>1, <2>2
  <1>6. ASSUME NEW p \in Checker, NEW a \in Alert, AcquireCooldown(p, a), Free(a) PROVE AlertsInv'
    <2> DEFINE x == [at |-> "notify", since |-> minute]
    <2>1. x \in CheckRecord /\ x.at = "notify" /\ x.since = minute
      BY <1>1 DEF CheckRecord
    <2>2. /\ checker' = [checker EXCEPT ![p][a] = x] /\ checker[p][a].at = "acquire"
          /\ cooldown[a] = -1 /\ cooldown' = [cooldown EXCEPT ![a] = minute]
          /\ UNCHANGED <<minute, alerts, lost>>
      BY <1>6 DEF AcquireCooldown, To, Free
    <2>3. cooldown' \in [Alert -> Minute \cup {-1}] /\ cooldown'[a] = minute
          /\ \A b \in Alert : b # a => cooldown'[b] = cooldown[b]
      BY <1>1, <2>2
    <2>4. x = [at |-> "notify", since |-> cooldown'[a]]
      BY <2>3
    <2> HIDE DEF x
    <2>5. /\ checker' \in [Checker -> [Alert -> CheckRecord]] /\ checker'[p][a] = x
          /\ \A q \in Checker, b \in Alert : q # p \/ b # a => checker'[q][b] = checker[q][b]
      BY <1>1, <2>1, <2>2
    <2>6. /\ \A m \in Minute : ~Notifying(p, a, m) /\ (Notifying(p, a, m)' <=> m = minute)
          /\ \A q \in Checker, b \in Alert, m \in Minute : q # p \/ b # a => Notifying(q, b, m)' = Notifying(q, b, m)
      BY <2>1, <2>2, <2>5 DEF Notifying
    <2>7. \A b \in Alert, m \in Minute : Taken(b, m)' => Taken(b, m) \/ (b = a /\ m = minute)
      BY <2>2, <2>6 DEF Taken
    <2>8. \A m \in Minute : Taken(a, m) => minute >= m + Cooldown
      BY <2>2 DEF AlertsInv, TakenApart
    <2>9. ~Taken(a, minute)
      <3>1. ~(minute >= minute + Cooldown)
        BY <1>1, Midnight
      <3>2. QED
        BY <1>1, <2>8, <3>1
    <2>10. AlertTypes'
      BY <1>1, <2>1, <2>2, <2>3, <2>5 DEF AlertTypes
    <2>11. OneAlertEach'
      <3>1. alerts[a][minute] \in Nat /\ ~(alerts[a][minute] > 0) /\ \A q \in Checker : ~Notifying(q, a, minute)
        BY <1>1, <2>9 DEF Taken
      <3>2. alerts[a][minute] = 0
        BY <3>1
      <3>3. ASSUME NEW b \in Alert, NEW m \in Minute
            PROVE  /\ alerts[b][m] =< 1
                   /\ \A q \in Checker : Notifying(q, b, m)' => alerts[b][m] = 0
                   /\ \A q, r \in Checker : Notifying(q, b, m)' /\ Notifying(r, b, m)' => q = r
        <4>1. CASE b = a /\ m = minute
          BY <2>6, <3>1, <3>2, <4>1 DEF AlertsInv, OneAlertEach
        <4>2. CASE ~(b = a /\ m = minute)
          <5>1. \A q \in Checker : Notifying(q, b, m)' => Notifying(q, b, m)
            BY <2>6, <4>2
          <5>2. QED
            BY <5>1 DEF AlertsInv, OneAlertEach
        <4>3. QED
          BY <4>1, <4>2
      <3>4. QED
        BY <2>2, <3>3 DEF OneAlertEach
    <2>12. TakenApart'
      <3>1. ASSUME NEW b \in Alert, NEW m \in Minute, Taken(b, m)'
            PROVE  /\ m =< minute
                   /\ cooldown'[b] = -1 => minute >= m + Cooldown
                   /\ cooldown'[b] # -1 => cooldown'[b] = m \/ cooldown'[b] >= m + Cooldown
                   /\ \A n \in Minute : Taken(b, n)' /\ m < n => n >= m + Cooldown
        <4>1. CASE b # a
          BY <2>3, <2>7, <3>1, <4>1 DEF AlertsInv, TakenApart
        <4>2. CASE b = a /\ m = minute
          <5>1. ASSUME NEW n \in Minute, Taken(a, n)', minute < n PROVE FALSE
            BY <1>1, <2>7, <5>1, Midnight DEF AlertsInv, TakenApart
          <5>2. QED
            BY <1>1, <2>3, <4>2, <5>1, Midnight
        <4>3. CASE b = a /\ m # minute
          <5>1. Taken(a, m) /\ minute >= m + Cooldown
            BY <2>7, <2>8, <3>1, <4>3
          <5>2. ASSUME NEW n \in Minute, Taken(a, n)', m < n PROVE n >= m + Cooldown
            BY <2>7, <5>1, <5>2 DEF AlertsInv, TakenApart
          <5>3. QED
            BY <1>1, <2>3, <4>3, <5>1, <5>2, Midnight DEF AlertsInv, TakenApart
        <4>4. QED
          BY <4>1, <4>2, <4>3
      <3>2. QED
        BY <2>2, <3>1 DEF TakenApart
    <2>13. QuietOnlyAfterAlert'
      <3>1. ASSUME NEW b \in Alert, b # a, cooldown'[b] >= 0
            PROVE  \/ alerts[b][cooldown'[b]] = 1
                   \/ \E q \in Checker : checker'[q][b] = [at |-> "notify", since |-> cooldown'[b]]
                   \/ <<b, cooldown'[b]>> \in lost
        BY <2>3, <2>5, <3>1 DEF AlertsInv, QuietOnlyAfterAlert
      <3>2. QED
        BY <2>2, <2>4, <2>5, <3>1 DEF QuietOnlyAfterAlert
    <2>14. QED
      BY <2>10, <2>11, <2>12, <2>13 DEF AlertsInv
  <1>7. ASSUME NEW p \in Checker, NEW a \in Alert, NEW ok \in BOOLEAN, Notify(p, a, ok) PROVE AlertsInv'
    <2> DEFINE x == [at |-> "idle", since |-> -1]
    <2>1. x \in CheckRecord /\ x.at = "idle"
      BY DEF CheckRecord
    <2>2. PICK m \in Minute : m = checker[p][a].since
      BY <1>1, <1>7 DEF Notify
    <2>3. /\ checker' = [checker EXCEPT ![p][a] = x] /\ checker[p][a].at = "notify"
          /\ UNCHANGED <<minute, cooldown>>
          /\ ok => alerts' = [alerts EXCEPT ![a][m] = alerts[a][m] + 1] /\ lost' = lost
          /\ ~ok => alerts' = alerts /\ lost' = lost \cup {<<a, m>>}
      BY <1>7, <2>2 DEF Notify, To
    <2> HIDE DEF x
    <2>4. /\ checker' \in [Checker -> [Alert -> CheckRecord]] /\ checker'[p][a] = x
          /\ \A q \in Checker, b \in Alert : q # p \/ b # a => checker'[q][b] = checker[q][b]
      BY <1>1, <2>1, <2>3
    <2>5. Notifying(p, a, m) /\ alerts[a][m] = 0
      BY <2>2, <2>3 DEF Notifying, AlertsInv, OneAlertEach
    <2>6. /\ \A n \in Minute : ~Notifying(p, a, n)'
          /\ \A q \in Checker, b \in Alert, n \in Minute : q # p \/ b # a => Notifying(q, b, n)' = Notifying(q, b, n)
      BY <2>1, <2>4 DEF Notifying
    <2>7. \A q \in Checker, b \in Alert, n \in Minute : Notifying(q, b, n)' => Notifying(q, b, n)
      BY <2>6
    <2>8. /\ alerts' \in [Alert -> [Minute -> Nat]]
          /\ \A b \in Alert, n \in Minute : b # a \/ n # m => alerts'[b][n] = alerts[b][n]
          /\ alerts'[a][m] = IF ok THEN 1 ELSE 0
      <3>1. CASE ok
        <4>1. alerts \in [Alert -> [Minute -> Nat]] /\ alerts' = [alerts EXCEPT ![a][m] = 1]
          BY <1>1, <2>3, <2>5, <3>1
        <4>2. QED
          BY <3>1, <4>1
      <3>2. CASE ~ok
        BY <1>1, <2>3, <2>5, <3>2
      <3>3. QED
        BY <3>1, <3>2
    <2>9. \A b \in Alert, n \in Minute : Taken(b, n)' => Taken(b, n)
      BY <2>5, <2>7, <2>8 DEF Taken
    <2>10. AlertTypes'
      BY <1>1, <2>1, <2>3, <2>4, <2>8 DEF AlertTypes
    <2>11. OneAlertEach'
      <3>1. \A q \in Checker : ~Notifying(q, a, m)'
        BY <2>5, <2>6 DEF AlertsInv, OneAlertEach
      <3>2. ASSUME NEW b \in Alert, NEW n \in Minute
            PROVE  /\ alerts'[b][n] =< 1
                   /\ \A q \in Checker : Notifying(q, b, n)' => alerts'[b][n] = 0
                   /\ \A q, r \in Checker : Notifying(q, b, n)' /\ Notifying(r, b, n)' => q = r
        <4>1. CASE b = a /\ n = m
          BY <2>8, <3>1, <4>1
        <4>2. CASE ~(b = a /\ n = m)
          BY <2>7, <2>8, <4>2 DEF AlertsInv, OneAlertEach
        <4>3. QED
          BY <4>1, <4>2
      <3>3. QED
        BY <3>2 DEF OneAlertEach
    <2>12. TakenApart'
      BY <2>3, <2>9 DEF AlertsInv, TakenApart
    <2>13. QuietOnlyAfterAlert'
      <3>1. ASSUME NEW b \in Alert, cooldown[b] >= 0
            PROVE  \/ alerts'[b][cooldown[b]] = 1
                   \/ \E q \in Checker : checker'[q][b] = [at |-> "notify", since |-> cooldown[b]]
                   \/ <<b, cooldown[b]>> \in lost'
        <4>1. cooldown[b] \in Minute
          BY <1>1, <3>1
        <4>2. CASE alerts[b][cooldown[b]] = 1
          BY <2>5, <2>8, <4>1, <4>2
        <4>3. CASE <<b, cooldown[b]>> \in lost
          BY <2>3, <4>3
        <4>4. ASSUME NEW q \in Checker, checker[q][b] = [at |-> "notify", since |-> cooldown[b]]
              PROVE  \/ alerts'[b][cooldown[b]] = 1
                     \/ checker'[q][b] = [at |-> "notify", since |-> cooldown[b]]
                     \/ <<b, cooldown[b]>> \in lost'
          <5>1. CASE q # p \/ b # a
            BY <2>4, <4>4, <5>1
          <5>2. CASE q = p /\ b = a
            <6>1. cooldown[b] = m
              BY <2>2, <4>4, <5>2
            <6>2. QED
              BY <2>3, <2>8, <5>2, <6>1
          <5>3. QED
            BY <5>1, <5>2
        <4>5. QED
          BY <3>1, <4>2, <4>3, <4>4 DEF AlertsInv, QuietOnlyAfterAlert
      <3>2. QED
        BY <2>3, <3>1 DEF QuietOnlyAfterAlert
    <2>14. QED
      BY <2>10, <2>11, <2>12, <2>13 DEF AlertsInv
  <1>8. ASSUME PassMinute PROVE AlertsInv'
    <2>1. /\ minute' = minute + 1 /\ minute' \in Minute
          /\ cooldown' = [a \in Alert |-> IF Over(a) THEN -1 ELSE cooldown[a]]
          /\ UNCHANGED <<checker, alerts, lost>>
      BY <1>1, <1>8, AdminAlertsAssumption DEF PassMinute, Minute
    <2>2. /\ cooldown' \in [Alert -> Minute \cup {-1}]
          /\ \A a \in Alert : IF Over(a) THEN cooldown'[a] = -1 ELSE cooldown'[a] = cooldown[a]
      BY <1>1, <2>1
    <2>3. AlertTypes' /\ OneAlertEach'
      BY <2>1, <2>2 DEF AlertsInv, AlertTypes, OneAlertEach, Notifying
    <2>4. \A b \in Alert, n \in Minute : Taken(b, n)' = Taken(b, n)
      BY <2>1 DEF Taken, Notifying
    <2>5. ASSUME NEW a \in Alert, NEW m \in Minute, Taken(a, m)
          PROVE  /\ m =< minute + 1
                 /\ cooldown'[a] = -1 => minute + 1 >= m + Cooldown
                 /\ cooldown'[a] # -1 => cooldown'[a] = m \/ cooldown'[a] >= m + Cooldown
                 /\ \A n \in Minute : Taken(a, n) /\ m < n => n >= m + Cooldown
      <3>1. /\ m =< minute
            /\ cooldown[a] = -1 => minute >= m + Cooldown
            /\ cooldown[a] # -1 => cooldown[a] = m \/ cooldown[a] >= m + Cooldown
            /\ \A n \in Minute : Taken(a, n) /\ m < n => n >= m + Cooldown
        BY <2>5 DEF AlertsInv, TakenApart
      <3>2. minute \in Nat /\ m \in Nat /\ cooldown[a] \in Nat \cup {-1} /\ Cooldown \in Nat \ {0}
        BY <1>1, Midnight
      <3>3. CASE Over(a)
        <4>1. cooldown'[a] = -1 /\ cooldown[a] >= 0 /\ minute + 1 >= cooldown[a] + Cooldown
          BY <2>2, <3>3 DEF Over
        <4>2. QED
          BY <3>1, <3>2, <4>1
      <3>4. CASE ~Over(a)
        BY <2>2, <3>1, <3>2, <3>4
      <3>5. QED
        BY <3>3, <3>4
    <2>6. TakenApart'
      BY <2>1, <2>4, <2>5 DEF TakenApart
    <2>7. ASSUME NEW a \in Alert, cooldown'[a] >= 0 PROVE cooldown'[a] = cooldown[a]
      BY <2>2, <2>7
    <2>8. QuietOnlyAfterAlert'
      BY <2>1, <2>7 DEF AlertsInv, QuietOnlyAfterAlert
    <2>9. QED
      BY <2>3, <2>6, <2>8 DEF AlertsInv
  <1>9. ASSUME AdminAlertsNext PROVE AlertsInv'
    <2>1. CASE ServerError
      BY <1>2, <2>1 DEF ServerError
    <2>2. ASSUME NEW c \in Caller, NEW ok \in BOOLEAN, CountResult(c) \/ CallEnds(c, ok) PROVE AlertsInv'
      BY <1>2, <2>2 DEF CountResult, CallEnds
    <2>3. ASSUME NEW c \in Caller, CountResult(c) PROVE AlertsInv'
      BY <2>2, <2>3
    <2>4. QED
      BY <1>4, <1>5, <1>6, <1>7, <1>8, <1>9, <2>1, <2>2, <2>3 DEF AdminAlertsNext
  <1>10. QED
    BY <1>2, <1>9 DEF alertVars

LEMMA MinutesOn == \A m \in Minute : /\ m \in Minute \intersect (m..(m + Cooldown - 1))
                                    /\ IsFiniteSet(Minute \intersect (m..(m + Cooldown - 1)))
  <1>1. IsFiniteSet(Minute)
    BY AdminAlertsAssumption, FS_Interval DEF Minute
  <1>2. ASSUME NEW m \in Minute PROVE m \in Minute \intersect (m..(m + Cooldown - 1))
    BY Midnight
  <1>3. ASSUME NEW m \in Minute PROVE IsFiniteSet(Minute \intersect (m..(m + Cooldown - 1)))
    <2>1. Minute \intersect (m..(m + Cooldown - 1)) \subseteq Minute
      OBVIOUS
    <2>2. QED
      BY <1>1, <2>1, FS_Subset
  <1>4. QED
    BY <1>2, <1>3

LEMMA Spaced == AlertsInv => AlertsAreSpaced
  <1> SUFFICES ASSUME AlertsInv PROVE AlertsAreSpaced
    OBVIOUS
  <1>1. ASSUME NEW a \in Alert, NEW m \in Minute, alerts[a][m] > 0
        PROVE  SumOver(alerts[a], Minute \intersect (m..(m + Cooldown - 1))) = 1
    <2> DEFINE f == alerts[a]
               W == Minute \intersect (m..(m + Cooldown - 1))
    <2>1. m \in W /\ IsFiniteSet(W)
      BY MinutesOn
    <2>2. \A n \in Minute : f[n] \in Nat /\ f[n] =< 1
      BY DEF AlertsInv, AlertTypes, OneAlertEach
    <2>3. f[m] = 1
      BY <1>1, <2>2
    <2>4. \A n \in W \ {m} : n \in Minute /\ m < n /\ ~(n >= m + Cooldown)
      BY Midnight
    <2>5. \A n \in W \ {m} : f[n] = 0
      <3> SUFFICES ASSUME NEW n \in W \ {m}, f[n] > 0 PROVE FALSE
        BY <2>2, <2>4
      <3>1. Taken(a, m) /\ Taken(a, n)
        BY <1>1, <2>4 DEF Taken
      <3>2. QED
        BY <2>4, <3>1 DEF AlertsInv, TakenApart
    <2>6. IsFiniteSet(W \ {m}) /\ \A n \in W : f[n] \in Int
      BY <2>1, <2>2, FS_Subset
    <2> HIDE DEF W, f
    <2>7. SumOver(f, W \ {m}) = 0
      BY <2>5, <2>6, TotalZero
    <2>8. SumOver(f, W) = 0 + 1
      BY <2>1, <2>3, <2>6, <2>7, TotalRest
    <2>9. QED
      BY <2>8 DEF f, W
  <1>2. \A a \in Alert, m \in Minute : alerts[a][m] > 0 =>
          SumOver(alerts[a], Minute \intersect (m..(m + Cooldown - 1))) = 1
    BY <1>1
  <1>3. QED
    BY <1>2 DEF AlertsAreSpaced, FoldFunctionOnSet, SumOver, MapThenSumSet

(* Every failure that is counted, and every call whose result is not, has been counted
   among the calls of its minute. *)
Counting(m) == {c \in Caller : caller[c].minute = m}

CallTypes ==
  /\ minute \in Minute /\ caller \in [Caller -> CallRecord]
  /\ total \in [Minute -> Nat] /\ fail \in [Minute -> Nat]

ResultsPending == \A m \in Minute : fail[m] + Cardinality(Counting(m)) =< total[m]

CallsInv == CallTypes /\ ResultsPending

LEMMA CountingFinite == \A m \in Minute : IsFiniteSet(Counting(m)) /\ Cardinality(Counting(m)) \in Nat
  <1> SUFFICES ASSUME NEW m \in Minute PROVE IsFiniteSet(Counting(m)) /\ Cardinality(Counting(m)) \in Nat
    OBVIOUS
  <1>1. Counting(m) \subseteq Caller
    BY DEF Counting
  <1>2. IsFiniteSet(Counting(m))
    BY <1>1, AdminAlertsAssumption, FS_Subset
  <1>3. QED
    BY <1>2, FS_CardinalityType

LEMMA InitCalls == AdminAlertsInit => CallsInv
  <1> SUFFICES ASSUME AdminAlertsInit PROVE CallsInv
    OBVIOUS
  <1>1. NoCall \in CallRecord /\ NoCall.minute = -1
    BY DEF NoCall, CallRecord
  <1>2. CallTypes /\ \A m \in Minute : total[m] = 0 /\ fail[m] = 0
    BY <1>1, Midnight DEF AdminAlertsInit, CallTypes
  <1>3. \A m \in Minute : Counting(m) = {}
    BY <1>1, Midnight DEF AdminAlertsInit, Counting
  <1>4. \A m \in Minute : Cardinality(Counting(m)) = 0
    BY <1>3, FS_EmptySet
  <1>5. QED
    BY <1>2, <1>4 DEF CallsInv, ResultsPending

LEMMA NextCalls == CallsInv /\ [AdminAlertsNext]_alertVars => CallsInv'
  <1> SUFFICES ASSUME CallsInv, [AdminAlertsNext]_alertVars PROVE CallsInv'
    OBVIOUS
  <1>1. CallTypes /\ minute \in Minute /\ caller \in [Caller -> CallRecord]
        /\ total \in [Minute -> Nat] /\ fail \in [Minute -> Nat]
    BY DEF CallsInv, CallTypes
  <1>2. ASSUME UNCHANGED <<total, fail, caller>>, minute' \in Minute PROVE CallsInv'
    BY <1>2 DEF CallsInv, CallTypes, ResultsPending, Counting
  <1>3. ASSUME NEW c \in Caller, NEW ok \in BOOLEAN, CallEnds(c, ok) PROVE CallsInv'
    <2> DEFINE x == [minute |-> minute, ok |-> ok]
    <2>1. x \in CallRecord /\ x.minute = minute
      BY <1>1 DEF CallRecord
    <2>2. /\ caller[c].minute = -1 /\ caller' = [caller EXCEPT ![c] = x] /\ UNCHANGED <<minute, fail>>
          /\ total' = [total EXCEPT ![minute] = total[minute] + 1]
      BY <1>3 DEF CallEnds, CountField, FirstField, NoCall
    <2> HIDE DEF x
    <2>3. CallTypes' /\ total'[minute] = total[minute] + 1
          /\ \A m \in Minute : m # minute => total'[m] = total[m]
      BY <1>1, <2>1, <2>2 DEF CallTypes
    <2>4. \A m \in Minute : m # minute => Counting(m)' = Counting(m)
      BY <1>1, <2>1, <2>2, Midnight DEF Counting
    <2>5. c \notin Counting(minute) /\ Counting(minute)' = Counting(minute) \cup {c}
      BY <1>1, <2>1, <2>2, Midnight DEF Counting
    <2>6. Cardinality(Counting(minute)') = Cardinality(Counting(minute)) + 1
      BY <1>1, <2>5, CountingFinite, FS_AddElement
    <2>7. ResultsPending'
      <3>1. ASSUME NEW m \in Minute PROVE fail'[m] + Cardinality(Counting(m)') =< total'[m]
        <4>1. fail[m] + Cardinality(Counting(m)) =< total[m] /\ fail[m] \in Nat /\ total[m] \in Nat
              /\ Cardinality(Counting(m)) \in Nat
          BY <1>1, CountingFinite DEF CallsInv, ResultsPending
        <4>2. CASE m = minute
          BY <2>2, <2>3, <2>6, <4>1, <4>2
        <4>3. CASE m # minute
          BY <2>2, <2>3, <2>4, <4>1, <4>3
        <4>4. QED
          BY <4>2, <4>3
      <3>2. QED
        BY <3>1 DEF ResultsPending
    <2>8. QED
      BY <2>3, <2>7 DEF CallsInv
  <1>4. ASSUME NEW c \in Caller, CountResult(c) PROVE CallsInv'
    <2>1. NoCall \in CallRecord /\ NoCall.minute = -1
      BY DEF NoCall, CallRecord
    <2>0. PICK n : n \in Minute \cup {-1} /\ n = caller[c].minute
      BY <1>1 DEF CallRecord
    <2>2. /\ caller' = [caller EXCEPT ![c] = NoCall] /\ UNCHANGED <<minute, total>>
          /\ fail' = IF caller[c].ok THEN fail ELSE [fail EXCEPT ![n] = fail[n] + 1]
      BY <1>4, <2>0 DEF CountResult, CountField, FirstField
    <2>3. CallTypes'
      <3>1. fail' \in [Minute -> Nat]
        <4>1. CASE caller[c].ok
          BY <1>1, <2>2, <4>1
        <4>2. CASE ~caller[c].ok /\ n \in Minute
          <5>1. fail[n] + 1 \in Nat
            BY <1>1, <4>2
          <5>2. QED
            BY <1>1, <2>2, <4>2, <5>1
        <4>3. CASE ~caller[c].ok /\ n \notin Minute
          BY <1>1, <2>2, <4>3
        <4>4. QED
          BY <4>1, <4>2, <4>3
      <3>2. caller' \in [Caller -> CallRecord]
        BY <1>1, <2>1, <2>2
      <3>3. QED
        BY <1>1, <2>2, <3>1, <3>2 DEF CallTypes
    <2>4. \A m \in Minute : m # n => fail'[m] = fail[m] /\ Counting(m)' = Counting(m)
      BY <1>1, <2>0, <2>1, <2>2, Midnight DEF Counting
    <2>5. ASSUME n \in Minute
          PROVE  fail'[n] =< fail[n] + 1 /\ Cardinality(Counting(n)') = Cardinality(Counting(n)) - 1
      <3>1. c \in Counting(n) /\ Counting(n)' = Counting(n) \ {c}
        BY <1>1, <2>0, <2>1, <2>2, <2>5, Midnight DEF Counting
      <3>2. fail'[n] =< fail[n] + 1
        BY <1>1, <2>2, <2>5
      <3>3. QED
        BY <2>5, <3>1, <3>2, CountingFinite, FS_RemoveElement
    <2>6. ResultsPending'
      <3>1. ASSUME NEW m \in Minute PROVE fail'[m] + Cardinality(Counting(m)') =< total'[m]
        <4>1. fail[m] + Cardinality(Counting(m)) =< total[m] /\ fail[m] \in Nat /\ total[m] \in Nat
              /\ Cardinality(Counting(m)) \in Nat
          BY <1>1, CountingFinite DEF CallsInv, ResultsPending
        <4>2. CASE m = n
          BY <2>2, <2>5, <4>1, <4>2
        <4>3. CASE m # n
          BY <2>2, <2>4, <4>1, <4>3
        <4>4. QED
          BY <4>2, <4>3
      <3>2. QED
        BY <3>1 DEF ResultsPending
    <2>7. QED
      BY <2>3, <2>6 DEF CallsInv
  <1>5. ASSUME AdminAlertsNext PROVE CallsInv'
    <2>1. CASE ServerError
      BY <1>1, <1>2, <2>1 DEF ServerError
    <2>2. CASE PassMinute
      BY <1>1, <1>2, <2>2, AdminAlertsAssumption DEF PassMinute, Minute
    <2>3. ASSUME NEW p \in Checker, NEW a \in Alert, NEW ok \in BOOLEAN,
                 CheckAlert(p, a) \/ AcquireCooldown(p, a) \/ Notify(p, a, ok)
          PROVE  CallsInv'
      BY <1>1, <1>2, <2>3 DEF CheckAlert, AcquireCooldown, Notify
    <2>4. ASSUME NEW p \in Checker, NEW a \in Alert, CheckAlert(p, a) \/ AcquireCooldown(p, a) PROVE CallsInv'
      BY <2>3, <2>4
    <2>5. QED
      BY <1>3, <1>4, <1>5, <2>1, <2>2, <2>3, <2>4 DEF AdminAlertsNext
  <1>6. CASE UNCHANGED alertVars
    BY <1>1, <1>2, <1>6 DEF alertVars
  <1>7. QED
    BY <1>5, <1>6

LEMMA FewerFailures == CallsInv => FailuresAmongCalls
  <1> SUFFICES ASSUME CallsInv, NEW m \in Minute PROVE fail[m] =< total[m]
    BY DEF FailuresAmongCalls
  <1>1. fail[m] \in Nat /\ total[m] \in Nat /\ Cardinality(Counting(m)) \in Nat
        /\ fail[m] + Cardinality(Counting(m)) =< total[m]
    BY CountingFinite DEF CallsInv, CallTypes, ResultsPending
  <1>2. QED
    BY <1>1

LEMMA NoticesStep == [PlatformNext]_platformVars => [NotificationsNext]_notificationVars
  BY DEF PlatformNext, platformVars

(* A notification two requests did not find unread at once is held by one of them at
   most, and then nobody has read it. *)
HeldOnce ==
  \A n \in Notice : n \notin atOnce =>
    /\ readBy[n] =< 1
    /\ \A r, q \in Reader : n \in reader[r] =>
         readBy[n] = 0 /\ (n \in reader[q] => q = r)

ReadingInv == readBy \in [Notice -> Nat] /\ reader \in [Reader -> SUBSET Notice] /\ HeldOnce

LEMMA InitReading == NotificationsInit => ReadingInv
  BY DEF NotificationsInit, ReadingInv, HeldOnce

LEMMA NextReading == ReadingInv /\ [NotificationsNext]_notificationVars => ReadingInv'
  <1> SUFFICES ASSUME ReadingInv, [NotificationsNext]_notificationVars PROVE ReadingInv'
    OBVIOUS
  <1>1. readBy \in [Notice -> Nat] /\ reader \in [Reader -> SUBSET Notice] /\ HeldOnce
    BY DEF ReadingInv
  <1>2. ASSUME UNCHANGED <<readBy, reader, atOnce>> PROVE ReadingInv'
    BY <1>2 DEF ReadingInv, HeldOnce
  <1>3. ASSUME NEW r \in Reader, PushReader(r) PROVE ReadingInv'
    <2>1. /\ readBy' = [n \in Notice |-> readBy[n] + (IF n \in reader[r] THEN 1 ELSE 0)]
          /\ reader' = [reader EXCEPT ![r] = {}] /\ atOnce' = atOnce
      BY <1>3 DEF PushReader
    <2>2. readBy' \in [Notice -> Nat] /\ reader' \in [Reader -> SUBSET Notice]
      BY <1>1, <2>1
    <2>3. ASSUME NEW n \in Notice, n \notin atOnce
          PROVE  /\ readBy'[n] =< 1
                 /\ \A p, q \in Reader : n \in reader'[p] => readBy'[n] = 0 /\ (n \in reader'[q] => q = p)
      <3>1. readBy[n] =< 1 /\ readBy[n] \in Nat
            /\ \A p, q \in Reader : n \in reader[p] => readBy[n] = 0 /\ (n \in reader[q] => q = p)
        BY <1>1, <2>3 DEF HeldOnce
      <3>2. \A p \in Reader : n \in reader'[p] => n \in reader[p] /\ p # r
        BY <1>1, <2>1
      <3>3. CASE n \in reader[r]
        <4>1. readBy'[n] = 1
          BY <2>1, <3>1, <3>3
        <4>2. \A p \in Reader : n \notin reader'[p]
          BY <3>1, <3>2, <3>3
        <4>3. QED
          BY <4>1, <4>2
      <3>4. CASE n \notin reader[r]
        <4>1. readBy'[n] = readBy[n]
          BY <2>1, <3>1, <3>4
        <4>2. QED
          BY <3>1, <3>2, <4>1
      <3>5. QED
        BY <3>3, <3>4
    <2>4. HeldOnce'
      BY <2>1, <2>3 DEF HeldOnce
    <2>5. QED
      BY <2>2, <2>4 DEF ReadingInv
  <1>4. ASSUME NEW r \in Reader, NEW n \in Notice, ReadNotice(r, n) PROVE ReadingInv'
    <2>1. /\ readBy[n] = 0 /\ readBy' = readBy /\ reader' = [reader EXCEPT ![r] = {n}]
          /\ atOnce' = IF \E x \in Reader : n \in reader[x] THEN atOnce \cup {n} ELSE atOnce
      BY <1>4 DEF ReadNotice, Unread
    <2>2. reader' \in [Reader -> SUBSET Notice] /\ reader'[r] = {n}
          /\ \A p \in Reader : p # r => reader'[p] = reader[p]
      BY <1>1, <2>1
    <2>3. HeldOnce'
      <3>1. ASSUME NEW m \in Notice, m \notin atOnce'
            PROVE  /\ readBy[m] =< 1
                   /\ \A p, q \in Reader : m \in reader'[p] => readBy[m] = 0 /\ (m \in reader'[q] => q = p)
        <4>1. m \notin atOnce
          BY <2>1, <3>1
        <4>2. readBy[m] =< 1 /\ \A p, q \in Reader : m \in reader[p] => readBy[m] = 0 /\ (m \in reader[q] => q = p)
          BY <1>1, <4>1 DEF HeldOnce
        <4>3. CASE m = n
          <5>1. \A x \in Reader : n \notin reader[x]
            BY <2>1, <3>1, <4>3
          <5>2. \A p \in Reader : n \in reader'[p] => p = r
            BY <2>2, <5>1
          <5>3. QED
            BY <2>1, <4>2, <4>3, <5>2
        <4>4. CASE m # n
          <5>1. \A p \in Reader : m \in reader'[p] => m \in reader[p]
            BY <2>2, <4>4
          <5>2. QED
            BY <4>2, <5>1
        <4>5. QED
          BY <4>3, <4>4
      <3>2. QED
        BY <2>1, <3>1 DEF HeldOnce
    <2>4. QED
      BY <1>1, <2>1, <2>2, <2>3 DEF ReadingInv
  <1>5. ASSUME MarkAllRead PROVE ReadingInv'
    <2>1. /\ readBy' = [n \in Notice |-> IF readBy[n] = 0 THEN readBy[n] + 1 ELSE readBy[n]]
          /\ reader' = reader /\ atOnce' = atOnce \cup {n \in Notice : \E r \in Reader : n \in reader[r]}
      BY <1>5 DEF MarkAllRead, Unread
    <2>2. readBy' \in [Notice -> Nat]
      BY <1>1, <2>1
    <2>3. ASSUME NEW n \in Notice, n \notin atOnce'
          PROVE  readBy'[n] =< 1 /\ \A r \in Reader : n \notin reader[r]
      <3>1. readBy[n] =< 1 /\ readBy[n] \in Nat
        BY <1>1, <2>1, <2>3 DEF HeldOnce
      <3>2. QED
        BY <2>1, <2>3, <3>1
    <2>4. HeldOnce'
      BY <2>1, <2>3 DEF HeldOnce
    <2>5. QED
      BY <1>1, <2>1, <2>2, <2>4 DEF ReadingInv
  <1>6. ASSUME NEW s \in Sender,
               SendToAdmins(s) \/ SendToUsers(s) \/ DeleteInvalid(s) \/ SendFails(s)
                 \/ \E invalid \in SUBSET Token : Send(s, invalid)
        PROVE  ReadingInv'
    BY <1>2, <1>6 DEF SendToAdmins, SendToUsers, StartSend, DeleteInvalid, SendFails, Send
  <1>7. ASSUME NotificationsNext PROVE ReadingInv'
    <2>1. CASE \E d \in Device : (\E t \in Token : Register(d, t)) \/ (\E u \in Person : Attach(d, u))
      BY <1>2, <2>1 DEF Register, Attach
    <2>2. CASE \E t \in Token : RegisterAdmin(t)
      BY <1>2, <2>2 DEF RegisterAdmin
    <2>3. QED
      BY <1>3, <1>4, <1>5, <1>6, <1>7, <2>1, <2>2 DEF NotificationsNext
  <1>8. QED
    BY <1>2, <1>7 DEF notificationVars

(* A row holds the token its device registered last, and is gone only if a send to that
   token failed; what a send is about to delete has failed. *)
DeviceRecord == [token : Token \cup {NoToken}, user : Person \cup {NobodyYet}]
SendRecord == [at : {"idle", "send", "delete"}, to : {"admins", "users"},
               tokens : SUBSET (Token \cup {NoToken}), invalid : SUBSET (Token \cup {NoToken})]

DeviceTypes ==
  /\ device \in [Device -> DeviceRecord] /\ adminToken \subseteq Token
  /\ sender \in [Sender -> SendRecord]
  /\ current \in [Device -> Token \cup {NoToken}]

RowKept(d) == device[d].token = current[d] \/ (device[d].token = NoToken /\ current[d] \in failed)

DevicesInv ==
  /\ DeviceTypes
  /\ \A d \in Device : RowKept(d)
  /\ \A s \in Sender : sender[s].at = "delete" => sender[s].invalid \subseteq failed

LEMMA InitDevices == NotificationsInit => DevicesInv
  <1> SUFFICES ASSUME NotificationsInit PROVE DevicesInv
    OBVIOUS
  <1>1. NoRow \in DeviceRecord /\ NoRow.token = NoToken /\ NoSend \in SendRecord /\ NoSend.at = "idle"
    BY DEF NoRow, NoSend, DeviceRecord, SendRecord
  <1>2. QED
    BY <1>1 DEF NotificationsInit, DevicesInv, DeviceTypes, RowKept

\* A send that goes on, or ends, with what it has found failing.
LEMMA SendGoesOn ==
  ASSUME DevicesInv, NEW s \in Sender, NEW x \in SendRecord, sender' = [sender EXCEPT ![s] = x],
         UNCHANGED <<device, adminToken, current>>, failed \subseteq failed',
         x.at = "delete" => x.invalid \subseteq failed'
  PROVE  DevicesInv'
  <1>1. DeviceTypes'
    BY DEF DevicesInv, DeviceTypes
  <1>2. \A d \in Device : RowKept(d)'
    BY DEF DevicesInv, RowKept
  <1>3. \A r \in Sender : sender'[r].at = "delete" => sender'[r].invalid \subseteq failed'
    BY DEF DevicesInv, DeviceTypes
  <1>4. QED
    BY <1>1, <1>2, <1>3 DEF DevicesInv

LEMMA NextDevices == DevicesInv /\ [NotificationsNext]_notificationVars => DevicesInv'
  <1> SUFFICES ASSUME DevicesInv, [NotificationsNext]_notificationVars PROVE DevicesInv'
    OBVIOUS
  <1>1. /\ device \in [Device -> DeviceRecord] /\ adminToken \subseteq Token
        /\ sender \in [Sender -> SendRecord] /\ current \in [Device -> Token \cup {NoToken}]
        /\ \A d \in Device : RowKept(d)
        /\ \A s \in Sender : sender[s].at = "delete" => sender[s].invalid \subseteq failed
    BY DEF DevicesInv, DeviceTypes
  <1>2. NoRow \in DeviceRecord /\ NoRow.token = NoToken /\ NoSend \in SendRecord /\ NoSend.at = "idle"
    BY DEF NoRow, NoSend, DeviceRecord, SendRecord
  <1>3. ASSUME UNCHANGED <<device, adminToken, sender, current, failed>> PROVE DevicesInv'
    BY <1>3 DEF DevicesInv, DeviceTypes, RowKept
  <1>4. ASSUME NEW d \in Device, NEW t \in Token, Register(d, t) PROVE DevicesInv'
    <2>1. PICK v \in DeviceRecord : v.token = t /\ v = [device[d] EXCEPT !.token = t]
      BY <1>1 DEF DeviceRecord
    <2>2. /\ device' = [device EXCEPT ![d] = v] /\ current' = [current EXCEPT ![d] = t]
          /\ UNCHANGED <<adminToken, sender, failed>>
      BY <1>4, <2>1 DEF Register
    <2>3. device' \in [Device -> DeviceRecord] /\ current' \in [Device -> Token \cup {NoToken}]
      BY <1>1, <2>2
    <2>4. \A e \in Device : RowKept(e)'
      BY <1>1, <2>1, <2>2 DEF RowKept
    <2>5. QED
      BY <1>1, <2>2, <2>3, <2>4 DEF DevicesInv, DeviceTypes
  <1>5. ASSUME NEW d \in Device, NEW u \in Person, Attach(d, u) PROVE DevicesInv'
    <2>1. PICK v \in DeviceRecord : v.token = device[d].token /\ v = [device[d] EXCEPT !.user = u]
      BY <1>1 DEF DeviceRecord
    <2>2. device' = [device EXCEPT ![d] = v] /\ UNCHANGED <<adminToken, sender, current, failed>>
      BY <1>5, <2>1 DEF Attach
    <2>3. device' \in [Device -> DeviceRecord]
      BY <1>1, <2>2
    <2>4. \A e \in Device : RowKept(e)'
      BY <1>1, <2>1, <2>2 DEF RowKept
    <2>5. QED
      BY <1>1, <2>2, <2>3, <2>4 DEF DevicesInv, DeviceTypes
  <1>6. ASSUME NEW t \in Token, RegisterAdmin(t) PROVE DevicesInv'
    BY <1>1, <1>6 DEF RegisterAdmin, DevicesInv, DeviceTypes, RowKept
  <1>7. ASSUME NEW s \in Sender, SendToAdmins(s) \/ SendToUsers(s) PROVE DevicesInv'
    <2>1. PICK to \in {"admins", "users"}, tokens \in SUBSET (Token \cup {NoToken}) : StartSend(s, to, tokens)
      <3>1. \A d \in Device : device[d].token \in Token \cup {NoToken}
        BY <1>1 DEF DeviceRecord
      <3>2. CASE SendToAdmins(s)
        BY <1>1, <3>2 DEF SendToAdmins
      <3>3. ASSUME NEW segment \in Segment,
                   StartSend(s, "users", {device[d].token : d \in {x \in Device : InSegment(x, segment)}})
            PROVE  \E tokens \in SUBSET (Token \cup {NoToken}) : StartSend(s, "users", tokens)
        <4>1. {device[d].token : d \in {x \in Device : InSegment(x, segment)}} \in SUBSET (Token \cup {NoToken})
          BY <3>1
        <4>2. QED
          BY <3>3, <4>1
      <3>4. QED
        BY <1>7, <3>2, <3>3 DEF SendToUsers
    <2>2. PICK x \in SendRecord : x = [at |-> "send", to |-> to, tokens |-> tokens, invalid |-> {}]
      BY DEF SendRecord
    <2>3. /\ sender' = [sender EXCEPT ![s] = x] /\ x.at = "send"
          /\ UNCHANGED <<device, adminToken, current>> /\ failed \subseteq failed'
      BY <2>1, <2>2 DEF StartSend
    <2>4. x.at # "delete"
      BY <2>3
    <2>5. QED
      BY <2>3, <2>4, SendGoesOn
  <1>8. ASSUME NEW s \in Sender, NEW invalid \in SUBSET Token, Send(s, invalid) PROVE DevicesInv'
    <2>1. PICK x \in SendRecord : x = [sender[s] EXCEPT !.at = "delete", !.invalid = invalid] /\ x.invalid = invalid
      <3> DEFINE y == [sender[s] EXCEPT !.at = "delete", !.invalid = invalid]
      <3>1. sender[s] \in SendRecord /\ invalid \in SUBSET (Token \cup {NoToken})
        BY <1>1
      <3>2. y.at = "delete" /\ y.invalid = invalid
        BY <3>1 DEF SendRecord
      <3>3. y \in SendRecord
        BY <3>1 DEF SendRecord
      <3>4. QED
        BY <3>2, <3>3
    <2>2. /\ sender' = [sender EXCEPT ![s] = IF invalid = {} THEN NoSend ELSE x]
          /\ failed' = failed \cup invalid /\ UNCHANGED <<device, adminToken, current>>
      BY <1>8, <2>1 DEF Send
    <2>3. CASE invalid = {}
      <3>1. sender' = [sender EXCEPT ![s] = NoSend] /\ failed \subseteq failed'
        BY <2>2, <2>3
      <3>2. QED
        BY <1>2, <2>2, <3>1, SendGoesOn
    <2>4. CASE invalid # {}
      <3>1. sender' = [sender EXCEPT ![s] = x] /\ failed \subseteq failed' /\ x.invalid \subseteq failed'
        BY <2>1, <2>2, <2>4
      <3>2. QED
        BY <2>2, <3>1, SendGoesOn
    <2>5. QED
      BY <2>3, <2>4
  <1>9. ASSUME NEW s \in Sender, DeleteInvalid(s) PROVE DevicesInv'
    <2>1. PICK gone : gone = sender[s].invalid /\ gone \subseteq failed
      BY <1>1, <1>9 DEF DeleteInvalid
    <2>2. /\ sender' = [sender EXCEPT ![s] = NoSend] /\ UNCHANGED <<current, failed>>
          /\ adminToken' \subseteq Token
          /\ device' = device \/ device' = [d \in Device |-> IF device[d].token \in gone THEN NoRow ELSE device[d]]
      BY <1>1, <1>9, <2>1 DEF DeleteInvalid, Deleted
    <2>3. device' \in [Device -> DeviceRecord]
      BY <1>1, <1>2, <2>2
    <2>4. \A d \in Device : device'[d] = device[d] \/ (device[d].token \in failed /\ device'[d].token = NoToken)
      BY <1>1, <1>2, <2>1, <2>2
    <2>5. \A d \in Device : RowKept(d)'
      BY <1>1, <2>2, <2>4 DEF RowKept
    <2>6. sender' \in [Sender -> SendRecord]
      BY <1>1, <1>2, <2>2
    <2>7. \A r \in Sender : sender'[r].at = "delete" => sender'[r].invalid \subseteq failed
      BY <1>1, <1>2, <2>2
    <2>8. QED
      BY <1>1, <2>2, <2>3, <2>5, <2>6, <2>7 DEF DevicesInv, DeviceTypes
  <1>10. ASSUME NEW s \in Sender, SendFails(s) PROVE DevicesInv'
    <2>1. sender' = [sender EXCEPT ![s] = NoSend] /\ UNCHANGED <<device, adminToken, current, failed>>
      BY <1>10 DEF SendFails
    <2>2. QED
      BY <1>2, <2>1, SendGoesOn
  <1>11. ASSUME NotificationsNext PROVE DevicesInv'
    <2>1. CASE \E r \in Reader : PushReader(r) \/ \E n \in Notice : ReadNotice(r, n)
      BY <1>3, <2>1 DEF PushReader, ReadNotice, pushVars
    <2>2. CASE MarkAllRead
      BY <1>3, <2>2 DEF MarkAllRead, pushVars
    <2>3. QED
      BY <1>4, <1>5, <1>6, <1>7, <1>8, <1>9, <1>10, <1>11, <2>1, <2>2 DEF NotificationsNext
  <1>12. QED
    BY <1>3, <1>11 DEF notificationVars, pushVars

LEMMA Reachable == DevicesInv => ReachableUnlessFailed
  BY DEF DevicesInv, RowKept, ReachableUnlessFailed

(* Administrators are told, once: alerts of a kind are a cooldown apart and no cooldown
   keeps one quiet that was not written, about to be, or lost by a failure; a reader of the
   counters never sees more failures than calls; an administrator is listed once among the
   readers of a notification; and a device that works keeps its row. (admin-alerts.processor.ts,
   live-stats.service.ts, admin-notifications.service.ts, push-notifications.service.ts) *)
THEOREM AdministratorsKnow == PlatformSpec => []AdministratorsAreTold
  <1> DEFINE Inv == AlertsInv /\ CallsInv /\ ReadingInv /\ DevicesInv
  <1>1. Inv => AdministratorsAreTold
    <2>1. ReadingInv => ReadOnce
      BY DEF ReadingInv, HeldOnce, ReadOnce
    <2>2. QED
      BY <2>1, Spaced, FewerFailures, Reachable DEF AlertsInv, AdministratorsAreTold
  <1>2. PlatformInit => Inv
    BY InitAlerts, InitCalls, InitReading, InitDevices DEF PlatformInit
  <1>3. Inv /\ [PlatformNext]_platformVars => Inv'
    BY AlertsStep, NoticesStep, NextAlerts, NextCalls, NextReading, NextDevices
  <1>4. QED
    BY <1>1, <1>2, <1>3, PTL DEF PlatformSpec
-----------------------------------------------------------------------------
(* What users say *)

LEMMA TicketsStep == [PlatformNext]_platformVars => [TicketsNext]_ticketVars
  BY DEF PlatformNext, platformVars

Reply == [admin : BOOLEAN, onClosed : BOOLEAN]
Order == [on : SUBSET Ticket, reply : BOOLEAN, status : TicketStatus \cup {"same"},
          seen : TicketStatus \cup {NoTicket}]

TicketTypes ==
  /\ ticket \in [Ticket -> TicketStatus \cup {NoTicket}]
  /\ decided \in [Ticket -> TicketStatus \cup {NoTicket}]
  /\ replies \in [Ticket -> Seq(Reply)]
  /\ replier \in [Replier -> SUBSET Ticket]
  /\ clerk \in [Clerk -> Order]

\* A ticket that is closed, with a reply on its way, was closed over it.
ClosedOverReplies ==
  \A r \in Replier, t \in Ticket : t \in replier[r] /\ ticket[t] = "CLOSED" => t \in closedOver

TicketsInv == TicketTypes /\ ClosedOverReplies /\ ClosedTakesNoReplies /\ LastDecisionStands

LEMMA InitTickets == TicketsInit => TicketsInv
  <1> SUFFICES ASSUME TicketsInit PROVE TicketsInv
    OBVIOUS
  <1>1. NoOrder \in Order
    BY DEF NoOrder, Order
  <1>2. TicketTypes
    BY <1>1 DEF TicketsInit, TicketTypes
  <1>3. QED
    BY <1>2 DEF TicketsInit, TicketsInv, ClosedOverReplies, ClosedTakesNoReplies, LastDecisionStands

\* A reply that is written on a closed ticket is an administrator's or one it was closed over.
LEMMA ReplyWritten ==
  ASSUME TicketsInv, NEW t \in Ticket, NEW x \in Reply, replies' = [replies EXCEPT ![t] = Append(replies[t], x)],
         ~x.admin /\ x.onClosed => t \in closedOver, closedOver \subseteq closedOver'
  PROVE  ClosedTakesNoReplies' /\ replies' \in [Ticket -> Seq(Reply)]
  <1>1. replies \in [Ticket -> Seq(Reply)] /\ ClosedTakesNoReplies
    BY DEF TicketsInv, TicketTypes
  <1>2. replies' \in [Ticket -> Seq(Reply)]
    BY <1>1
  <1>3. ASSUME NEW u \in Ticket, NEW i \in DOMAIN replies'[u], ~replies'[u][i].admin, replies'[u][i].onClosed
        PROVE  u \in closedOver
    <2>1. CASE u # t
      BY <1>1, <1>3, <2>1 DEF ClosedTakesNoReplies
    <2>2. CASE u = t
      <3>1. replies'[u] = Append(replies[t], x) /\ replies[t] \in Seq(Reply)
        BY <1>1, <2>2
      <3>2. i \in DOMAIN replies[t] \/ replies'[u][i] = x
        BY <1>3, <3>1
      <3>3. i \in DOMAIN replies[t] => replies'[u][i] = replies[t][i]
        BY <3>1
      <3>4. CASE replies'[u][i] = x
        BY <1>3, <2>2, <3>4
      <3>5. CASE i \in DOMAIN replies[t]
        BY <1>1, <1>3, <2>2, <3>3, <3>5 DEF ClosedTakesNoReplies
      <3>6. QED
        BY <3>2, <3>4, <3>5
    <2>3. QED
      BY <2>1, <2>2
  <1>4. QED
    BY <1>2, <1>3 DEF ClosedTakesNoReplies

\* The update of the row, whatever is written beside it.
LEMMA FieldsSet ==
  ASSUME TicketsInv, NEW c \in Clerk, NEW t \in Ticket, SetFields(c, t)
  PROVE  /\ ticket' \in [Ticket -> TicketStatus \cup {NoTicket}]
         /\ decided' \in [Ticket -> TicketStatus \cup {NoTicket}]
         /\ clerk' \in [Clerk -> Order] /\ replier' = replier
         /\ closedOver \subseteq closedOver' /\ ClosedOverReplies' /\ LastDecisionStands'
  <1>1. TicketTypes /\ ClosedOverReplies /\ LastDecisionStands
    BY DEF TicketsInv
  <1>2. PICK o : o = clerk[c].status /\ o \in TicketStatus \cup {"same"}
    BY <1>1 DEF TicketTypes, Order
  <1>3. /\ ticket' = [ticket EXCEPT ![t] = IF o = "same" THEN ticket[t] ELSE o]
        /\ decided' = [decided EXCEPT ![t] = IF o = "same" THEN decided[t] ELSE o]
        /\ closedOver' = IF o = "CLOSED" /\ \E r \in Replier : t \in replier[r]
                         THEN closedOver \cup {t} ELSE closedOver
        /\ clerk' = [clerk EXCEPT ![c] = NoOrder] /\ replier' = replier
    BY <1>2 DEF SetFields, NewStatus
  <1>4. NoOrder \in Order
    BY DEF NoOrder, Order
  <1>5. /\ ticket' \in [Ticket -> TicketStatus \cup {NoTicket}]
        /\ decided' \in [Ticket -> TicketStatus \cup {NoTicket}]
        /\ clerk' \in [Clerk -> Order]
    BY <1>1, <1>2, <1>3, <1>4 DEF TicketTypes
  <1>6. LastDecisionStands'
    BY <1>1, <1>3 DEF TicketTypes, LastDecisionStands
  <1>7. ClosedOverReplies'
    BY <1>1, <1>3 DEF TicketTypes, ClosedOverReplies
  <1>8. QED
    BY <1>3, <1>5, <1>6, <1>7

LEMMA NextTickets == TicketsInv /\ [TicketsNext]_ticketVars => TicketsInv'
  <1> SUFFICES ASSUME TicketsInv, [TicketsNext]_ticketVars PROVE TicketsInv'
    OBVIOUS
  <1>1. TicketTypes /\ ClosedOverReplies /\ ClosedTakesNoReplies /\ LastDecisionStands
    BY DEF TicketsInv
  <1>2. CASE UNCHANGED ticketVars
    BY <1>1, <1>2 DEF ticketVars, TicketsInv, TicketTypes, ClosedOverReplies, ClosedTakesNoReplies,
       LastDecisionStands
  <1>3. ASSUME NEW t \in Ticket, CreateTicket(t) PROVE TicketsInv'
    <2>1. /\ ticket' = [ticket EXCEPT ![t] = "OPEN"] /\ decided' = [decided EXCEPT ![t] = "OPEN"]
          /\ UNCHANGED <<replies, replier, clerk, closedOver>>
      BY <1>3 DEF CreateTicket
    <2>2. QED
      BY <1>1, <2>1 DEF TicketsInv, TicketTypes, ClosedOverReplies, ClosedTakesNoReplies, LastDecisionStands,
         TicketStatus
  <1>4. ASSUME NEW t \in Ticket, NEW r \in Replier, FindOpen(r, t) PROVE TicketsInv'
    <2>1. /\ ticket[t] # "CLOSED" /\ replier' = [replier EXCEPT ![r] = {t}]
          /\ UNCHANGED <<ticket, replies, clerk, closedOver, decided>>
      BY <1>4 DEF FindOpen, TakesReplies
    <2>2. replier' \in [Replier -> SUBSET Ticket] /\ ClosedOverReplies'
      BY <1>1, <2>1 DEF TicketTypes, ClosedOverReplies
    <2>3. QED
      BY <1>1, <2>1, <2>2 DEF TicketsInv, TicketTypes, ClosedTakesNoReplies, LastDecisionStands
  <1>5. ASSUME NEW t \in Ticket, NEW r \in Replier, WriteUserReply(r, t) PROVE TicketsInv'
    <2> DEFINE x == [admin |-> FALSE, onClosed |-> ticket[t] = "CLOSED"]
    <2>1. x \in Reply /\ (~x.admin /\ x.onClosed => ticket[t] = "CLOSED")
      BY DEF Reply
    <2>2. /\ t \in replier[r] /\ replies' = [replies EXCEPT ![t] = Append(replies[t], x)]
          /\ replier' = [replier EXCEPT ![r] = {}] /\ UNCHANGED <<ticket, clerk, closedOver, decided>>
      BY <1>5 DEF WriteUserReply
    <2> HIDE DEF x
    <2>3. ~x.admin /\ x.onClosed => t \in closedOver
      BY <1>1, <2>1, <2>2 DEF ClosedOverReplies
    <2>4. ClosedTakesNoReplies' /\ replies' \in [Ticket -> Seq(Reply)]
      BY <2>1, <2>2, <2>3, ReplyWritten
    <2>5. replier' \in [Replier -> SUBSET Ticket] /\ ClosedOverReplies'
      BY <1>1, <2>2 DEF TicketTypes, ClosedOverReplies
    <2>6. QED
      BY <1>1, <2>2, <2>4, <2>5 DEF TicketsInv, TicketTypes, LastDecisionStands
  <1>6. ASSUME NEW t \in Ticket, NEW c \in Clerk, NEW o \in Order, FindTicket(c, t, o) PROVE TicketsInv'
    <2>1. PICK x : x \in Order /\ clerk' = [clerk EXCEPT ![c] = x]
      <3>1. [o EXCEPT !.on = {t}, !.seen = ticket[t]] \in Order
        BY <1>1, <1>6 DEF FindTicket, TicketTypes, Order
      <3>2. QED
        BY <1>6, <3>1 DEF FindTicket
    <2>2. UNCHANGED <<ticket, replies, replier, closedOver, decided>> /\ clerk' \in [Clerk -> Order]
      BY <1>1, <1>6, <2>1 DEF FindTicket, TicketTypes
    <2>3. QED
      BY <1>1, <2>2 DEF TicketsInv, TicketTypes, ClosedOverReplies, ClosedTakesNoReplies, LastDecisionStands
  <1>7. ASSUME NEW t \in Ticket, NEW c \in Clerk, FindForReply(c, t) \/ FindForStatus(c, t) PROVE TicketsInv'
    <2>1. [NoOrder EXCEPT !.reply = TRUE, !.status = "IN_PROGRESS"] \in Order
      BY DEF NoOrder, Order, TicketStatus
    <2>2. ASSUME NEW s \in TicketStatus \cup {"same"} PROVE [NoOrder EXCEPT !.status = s] \in Order
      BY DEF NoOrder, Order
    <2>3. QED
      BY <1>6, <1>7, <2>1, <2>2 DEF FindForReply, FindForStatus
  <1>8. ASSUME NEW t \in Ticket, NEW c \in Clerk, WriteAdminReply(c, t) PROVE TicketsInv'
    <2> DEFINE x == [admin |-> TRUE, onClosed |-> ticket[t] = "CLOSED"]
    <2>1. x \in Reply /\ x.admin
      BY DEF Reply
    <2>2. SetFields(c, t) /\ replies' = [replies EXCEPT ![t] = Append(replies[t], x)]
      BY <1>8 DEF WriteAdminReply
    <2> HIDE DEF x
    <2>3. /\ ticket' \in [Ticket -> TicketStatus \cup {NoTicket}]
          /\ decided' \in [Ticket -> TicketStatus \cup {NoTicket}]
          /\ clerk' \in [Clerk -> Order] /\ replier' = replier
          /\ closedOver \subseteq closedOver' /\ ClosedOverReplies' /\ LastDecisionStands'
      BY <2>2, FieldsSet
    <2>4. ClosedTakesNoReplies' /\ replies' \in [Ticket -> Seq(Reply)]
      BY <2>1, <2>2, <2>3, ReplyWritten
    <2>5. QED
      BY <1>1, <2>3, <2>4 DEF TicketsInv, TicketTypes
  <1>9. ASSUME NEW t \in Ticket, NEW c \in Clerk, WriteStatus(c, t) PROVE TicketsInv'
    <2>1. SetFields(c, t) /\ replies' = replies
      BY <1>9 DEF WriteStatus
    <2>2. /\ ticket' \in [Ticket -> TicketStatus \cup {NoTicket}]
          /\ decided' \in [Ticket -> TicketStatus \cup {NoTicket}]
          /\ clerk' \in [Clerk -> Order] /\ replier' = replier
          /\ closedOver \subseteq closedOver' /\ ClosedOverReplies' /\ LastDecisionStands'
      BY <2>1, FieldsSet
    <2>3. ClosedTakesNoReplies'
      BY <1>1, <2>1, <2>2 DEF ClosedTakesNoReplies
    <2>4. QED
      BY <1>1, <2>1, <2>2, <2>3 DEF TicketsInv, TicketTypes
  <1>10. QED
    BY <1>2, <1>3, <1>4, <1>5, <1>7, <1>8, <1>9 DEF TicketsNext

LEMMA FeedbackStep == [PlatformNext]_platformVars => [FeedbackNext]_feedbackVars
  BY DEF PlatformNext, platformVars

RowRecord == [on : SUBSET Answer, said : Nat, checked : BOOLEAN]
Pairs == SUBSET (Nat \X Nat)
SummaryRecord == [total : Nat, heard : Pairs]
SummarizerRecord == [at : {"idle", "rows", "write"}, of : Table, previous : SummaryRecord, batch : Pairs]

FeedbackTypes ==
  /\ rows \in [Table -> Seq(RowRecord)] /\ summary \in [Table -> Seq(SummaryRecord)]
  /\ summarizer \in [Summarizer -> SummarizerRecord]

Checked(k) == {i \in DOMAIN rows[k] : rows[k][i].checked}

\* A batch names each of its rows once.
BatchesNameRows ==
  \A s \in Summarizer : summarizer[s].at = "write" =>
    /\ Marked(summarizer[s]) \subseteq DOMAIN rows[summarizer[s].of]
    /\ Cardinality(summarizer[s].batch) = Cardinality(Marked(summarizer[s]))

Working(s, k) == summarizer[s].at # "idle" /\ summarizer[s].of = k

(* Where no two summaries overlapped, the one in progress knows the latest and has read
   rows that are unchecked still. *)
AloneOnTable ==
  \A k \in Table \ overlapped, s \in Summarizer : Working(s, k) =>
    /\ summarizer[s].previous = Latest(k)
    /\ summarizer[s].at = "write" => Marked(summarizer[s]) \intersect Checked(k) = {}
    /\ \A u \in Summarizer : Working(u, k) => u = s

FeedbackInv == FeedbackTypes /\ BatchesNameRows /\ AloneOnTable /\ CountsWhatItRead /\ CheckedWereHeard

LEMMA NothingHeard == /\ Nothing \in SummaryRecord /\ Nothing.total = 0
                      /\ SummarizerIdle \in SummarizerRecord /\ SummarizerIdle.at = "idle"
  <1>1. Nothing \in SummaryRecord /\ Nothing.total = 0
    BY DEF Nothing, SummaryRecord, Pairs
  <1>2. {} \in Pairs /\ "feedback" \in Table
    BY DEF Pairs, Table
  <1>3. QED
    BY <1>1, <1>2 DEF SummarizerIdle, SummarizerRecord

LEMMA InitFeedback == FeedbackInit => FeedbackInv
  <1> SUFFICES ASSUME FeedbackInit PROVE FeedbackInv
    OBVIOUS
  <1>1. /\ rows = [k \in Table |-> <<>>] /\ summary = [k \in Table |-> <<>>]
        /\ summarizer = [s \in Summarizer |-> SummarizerIdle]
    BY DEF FeedbackInit
  <1>2. FeedbackTypes
    BY <1>1, NothingHeard DEF FeedbackTypes
  <1>3. \A s \in Summarizer : summarizer[s].at = "idle"
    BY <1>1, NothingHeard
  <1>4. BatchesNameRows /\ AloneOnTable
    BY <1>3 DEF BatchesNameRows, AloneOnTable, Working
  <1>5. CheckedWereHeard
    BY <1>1 DEF CheckedWereHeard
  <1>6. ASSUME NEW k \in Table PROVE Latest(k).total = Cardinality({i \in DOMAIN rows[k] : rows[k][i].checked})
    <2>1. Latest(k) = Nothing
      BY <1>1 DEF Latest
    <2>2. {i \in DOMAIN rows[k] : rows[k][i].checked} = {}
      BY <1>1
    <2>3. QED
      BY <2>1, <2>2, NothingHeard, FS_EmptySet
  <1>7. QED
    BY <1>2, <1>4, <1>5, <1>6 DEF FeedbackInv, CountsWhatItRead

LEMMA LatestType == ASSUME FeedbackTypes, NEW k \in Table PROVE Latest(k) \in SummaryRecord /\ Latest(k).total \in Nat
  <1>1. summary[k] \in Seq(SummaryRecord)
    BY DEF FeedbackTypes
  <1>2. CASE summary[k] = <<>>
    BY <1>2, NothingHeard DEF Latest, SummaryRecord
  <1>3. CASE summary[k] # <<>>
    <2>1. Len(summary[k]) \in 1..Len(summary[k])
      BY <1>1, <1>3
    <2>2. summary[k][Len(summary[k])] \in SummaryRecord
      BY <1>1, <2>1
    <2>3. QED
      BY <1>3, <2>2 DEF Latest, SummaryRecord
  <1>4. QED
    BY <1>2, <1>3

\* What is said changes no row that is checked.
LEMMA Saying ==
  ASSUME FeedbackInv, NEW k \in Table, NEW v \in Seq(RowRecord), rows' = [rows EXCEPT ![k] = v],
         UNCHANGED <<summary, summarizer, overlapped>>, Len(v) >= Len(rows[k]),
         \A i \in DOMAIN v : v[i].checked <=> i \in Checked(k)
  PROVE  FeedbackInv'
  <1>1. FeedbackTypes /\ BatchesNameRows /\ AloneOnTable /\ CountsWhatItRead /\ CheckedWereHeard
    BY DEF FeedbackInv
  <1>2. rows[k] \in Seq(RowRecord) /\ rows'[k] = v /\ \A m \in Table : m # k => rows'[m] = rows[m]
    BY <1>1 DEF FeedbackTypes
  <1>3. DOMAIN rows[k] \subseteq DOMAIN v
    BY <1>2
  <1>4. FeedbackTypes'
    BY <1>1 DEF FeedbackTypes
  <1>5. \A m \in Table : Latest(m)' = Latest(m)
    BY DEF Latest
  <1>6. \A m \in Table : Checked(m)' = Checked(m)
    BY <1>2, <1>3 DEF Checked
  <1>7. BatchesNameRows'
    BY <1>1, <1>2, <1>3 DEF BatchesNameRows, Marked, FeedbackTypes, SummarizerRecord
  <1>8. AloneOnTable'
    BY <1>1, <1>5, <1>6 DEF AloneOnTable, Working, Marked
  <1>9. CountsWhatItRead'
    BY <1>1, <1>5, <1>6 DEF CountsWhatItRead, Checked
  <1>10. CheckedWereHeard'
    BY <1>1, <1>6 DEF CheckedWereHeard, Checked
  <1>11. QED
    BY <1>4, <1>7, <1>8, <1>9, <1>10 DEF FeedbackInv

LEMMA NextSaying ==
  ASSUME FeedbackInv, GiveFeedback \/ \E a \in Answer : Vote(a)
  PROVE  FeedbackInv'
  <1>1. \A k \in Table : rows[k] \in Seq(RowRecord)
    BY DEF FeedbackInv, FeedbackTypes
  <1>2. ASSUME NEW k \in Table, NEW x \in RowRecord, ~x.checked,
               rows' = [rows EXCEPT ![k] = Append(rows[k], x)], UNCHANGED <<summary, summarizer, overlapped>>
        PROVE  FeedbackInv'
    <2>1. rows[k] \in Seq(RowRecord)
      BY <1>1
    <2> DEFINE v == Append(rows[k], x)
    <2>2. v \in Seq(RowRecord) /\ Len(v) = Len(rows[k]) + 1 /\ Len(rows[k]) \in Nat /\ Len(v) >= Len(rows[k])
      BY <2>1
    <2>3. \A i \in DOMAIN v : (i \in DOMAIN rows[k] /\ v[i] = rows[k][i]) \/ (i \notin DOMAIN rows[k] /\ v[i] = x)
      BY <2>1
    <2>4. \A i \in DOMAIN v : v[i].checked <=> i \in Checked(k)
      BY <1>2, <2>3 DEF Checked
    <2>5. rows' = [rows EXCEPT ![k] = v]
      BY <1>2
    <2> HIDE DEF v
    <2>6. QED
      BY <1>2, <2>2, <2>4, <2>5, Saying
  <1>3. CASE GiveFeedback
    <2> DEFINE x == [on |-> {}, said |-> 1, checked |-> FALSE]
    <2>1. x \in RowRecord /\ ~x.checked /\ "feedback" \in Table
      BY DEF RowRecord, Table
    <2>2. /\ rows' = [rows EXCEPT !["feedback"] = Append(rows["feedback"], x)]
          /\ UNCHANGED <<summary, summarizer, overlapped>>
      BY <1>3 DEF GiveFeedback
    <2> HIDE DEF x
    <2>3. QED
      BY <1>2, <2>1, <2>2
  <1>4. ASSUME NEW a \in Answer, Vote(a) PROVE FeedbackInv'
    <2> DEFINE mine == {i \in DOMAIN rows["votes"] : a \in rows["votes"][i].on}
               x == [on |-> {a}, said |-> 1, checked |-> FALSE]
               w == [i \in DOMAIN rows["votes"] |->
                      IF i \in mine THEN [rows["votes"][i] EXCEPT !.said = rows["votes"][i].said + 1]
                      ELSE rows["votes"][i]]
    <2>1. x \in RowRecord /\ ~x.checked /\ "votes" \in Table
      BY DEF RowRecord, Table
    <2>2. /\ rows' = [rows EXCEPT !["votes"] = IF mine = {} THEN Append(rows["votes"], x) ELSE w]
          /\ UNCHANGED <<summary, summarizer, overlapped>>
      BY <1>4 DEF Vote
    <2>3. rows["votes"] \in Seq(RowRecord)
      BY <1>1, <2>1
    <2>4. CASE mine = {}
      <3>1. rows' = [rows EXCEPT !["votes"] = Append(rows["votes"], x)]
        BY <2>2, <2>4
      <3> HIDE DEF x, mine, w
      <3>2. QED
        BY <1>2, <2>1, <2>2, <3>1
    <2>5. CASE mine # {}
      <3>1. \A i \in DOMAIN rows["votes"] : rows["votes"][i] \in RowRecord
        BY <2>3
      <3>2. ASSUME NEW r \in RowRecord
            PROVE  [r EXCEPT !.said = r.said + 1] \in RowRecord /\ [r EXCEPT !.said = r.said + 1].checked = r.checked
        BY DEF RowRecord
      <3>3. \A i \in DOMAIN rows["votes"] : w[i] \in RowRecord /\ w[i].checked = rows["votes"][i].checked
        BY <2>3, <3>1, <3>2
      <3>4. DOMAIN w = 1..Len(rows["votes"]) /\ DOMAIN w = DOMAIN rows["votes"]
        BY <2>3
      <3>5. w \in Seq(RowRecord) /\ Len(w) = Len(rows["votes"]) /\ Len(w) \in Nat
        <4> HIDE DEF w
        <4>1. w \in [1..Len(rows["votes"]) -> RowRecord]
          <5>1. w = [i \in DOMAIN w |-> w[i]]
            BY DEF w
          <5>2. QED
            BY <3>3, <3>4, <5>1
        <4>2. QED
          BY <2>3, <4>1
      <3>6. \A i \in DOMAIN w : w[i].checked <=> i \in Checked("votes")
        BY <3>3, <3>4 DEF Checked
      <3>7. rows' = [rows EXCEPT !["votes"] = w]
        BY <2>2, <2>5
      <3> HIDE DEF w, mine
      <3>8. Len(w) >= Len(rows["votes"])
        BY <3>5
      <3>9. QED
        BY <2>1, <2>2, <3>5, <3>6, <3>7, <3>8, Saying
    <2>6. QED
      BY <2>4, <2>5
  <1>5. QED
    BY <1>3, <1>4

LEMMA PairsCount ==
  ASSUME NEW S, IsFiniteSet(S), NEW g, NEW B, B = {<<i, g[i]>> : i \in S}
  PROVE  {r[1] : r \in B} = S /\ Cardinality(B) = Cardinality(S)
  <1>1. {r[1] : r \in B} = S
    <2>1. \A i \in S : <<i, g[i]>> \in B /\ <<i, g[i]>>[1] = i
      OBVIOUS
    <2>2. \A r \in B : \E i \in S : r = <<i, g[i]>> /\ r[1] = i
      OBVIOUS
    <2>3. S \subseteq {r[1] : r \in B}
      BY <2>1
    <2>4. {r[1] : r \in B} \subseteq S
      BY <2>2
    <2>5. QED
      BY <2>3, <2>4
  <1> DEFINE f == [i \in S |-> <<i, g[i]>>]
  <1>2. f \in [S -> B] /\ \A i \in S : f[i] = <<i, g[i]>>
    OBVIOUS
  <1>3. \A i, j \in S : f[i] = f[j] => i = j
    BY <1>2
  <1>4. \A b \in B : \E i \in S : f[i] = b
    BY <1>2
  <1> HIDE DEF f
  <1>5. f \in Bijection(S, B)
    BY <1>2, <1>3, <1>4 DEF Bijection, Injection, Surjection, IsInjective
  <1>6. ExistsBijection(S, B)
    BY <1>5 DEF ExistsBijection
  <1>7. QED
    BY <1>1, <1>6, FS_Bijection

\* The oldest rows nobody has checked.
LEMMA OldestRows ==
  ASSUME FeedbackTypes, NEW k \in Table
  PROVE  /\ Oldest(k) \subseteq DOMAIN rows[k] /\ Oldest(k) \intersect Checked(k) = {}
         /\ IsFiniteSet(DOMAIN rows[k]) /\ IsFiniteSet(Oldest(k)) /\ IsFiniteSet(Checked(k))
         /\ DOMAIN rows[k] \subseteq Nat
  <1>1. rows[k] \in Seq(RowRecord)
    BY DEF FeedbackTypes
  <1>2. DOMAIN rows[k] = 1..Len(rows[k]) /\ Len(rows[k]) \in Nat
    BY <1>1
  <1>3. IsFiniteSet(DOMAIN rows[k]) /\ DOMAIN rows[k] \subseteq Nat
    BY <1>2, FS_Interval
  <1>4. Oldest(k) \subseteq DOMAIN rows[k] /\ Checked(k) \subseteq DOMAIN rows[k] /\ Oldest(k) \intersect Checked(k) = {}
    BY DEF Oldest, Unchecked, Checked
  <1>5. IsFiniteSet(Oldest(k))
    BY <1>3, <1>4, FS_Subset
  <1>6. IsFiniteSet(Checked(k))
    BY <1>3, <1>4, FS_Subset
  <1>7. QED
    BY <1>3, <1>4, <1>5, <1>6

\* One summary goes on, and writes nothing.
LEMMA Summarizing ==
  ASSUME FeedbackInv, NEW s \in Summarizer, NEW x \in SummarizerRecord,
         summarizer' = [summarizer EXCEPT ![s] = x], UNCHANGED <<rows, summary>>,
         overlapped \subseteq overlapped',
         x.at = "write" => /\ Marked(x) \subseteq DOMAIN rows[x.of]
                           /\ Cardinality(x.batch) = Cardinality(Marked(x)),
         x.at # "idle" /\ x.of \notin overlapped' =>
           /\ x.previous = Latest(x.of)
           /\ x.at = "write" => Marked(x) \intersect Checked(x.of) = {}
           /\ \A u \in Summarizer : Working(u, x.of) => u = s
  PROVE  FeedbackInv'
  <1>1. FeedbackTypes /\ BatchesNameRows /\ AloneOnTable /\ CountsWhatItRead /\ CheckedWereHeard
    BY DEF FeedbackInv
  <1>2. summarizer'[s] = x /\ \A u \in Summarizer : u # s => summarizer'[u] = summarizer[u]
    BY <1>1 DEF FeedbackTypes
  <1>3. FeedbackTypes'
    BY <1>1 DEF FeedbackTypes
  <1>4. BatchesNameRows'
    BY <1>1, <1>2 DEF BatchesNameRows, Marked
  <1>5. \A m \in Table : Latest(m)' = Latest(m) /\ Checked(m)' = Checked(m)
    BY DEF Latest, Checked
  <1>6. AloneOnTable'
    <2>1. ASSUME NEW m \in Table, m \notin overlapped', NEW u \in Summarizer, Working(u, m)'
          PROVE  /\ summarizer'[u].previous = Latest(m)
                 /\ summarizer'[u].at = "write" => Marked(summarizer'[u]) \intersect Checked(m) = {}
                 /\ \A w \in Summarizer : Working(w, m)' => w = u
      <3>1. m \notin overlapped
        BY <2>1
      <3>2. \A w \in Summarizer : w # s => Working(w, m)' = Working(w, m)
        BY <1>2 DEF Working
      <3>3. Working(s, m)' => x.at # "idle" /\ x.of = m
        BY <1>2 DEF Working
      <3>4. CASE Working(s, m)'
        <4>1. \A w \in Summarizer : Working(w, m)' => w = s
          BY <2>1, <3>2, <3>3, <3>4
        <4>2. u = s
          BY <2>1, <4>1
        <4>3. QED
          BY <1>2, <2>1, <3>3, <3>4, <4>1, <4>2
      <3>5. CASE ~Working(s, m)'
        <4>1. u # s /\ Working(u, m) /\ summarizer'[u] = summarizer[u]
          BY <1>2, <2>1, <3>2, <3>5
        <4>2. QED
          BY <1>1, <3>1, <3>2, <3>5, <4>1 DEF AloneOnTable
      <3>6. QED
        BY <3>4, <3>5
    <2>2. QED
      BY <1>5, <2>1 DEF AloneOnTable, Marked
  <1>7. CountsWhatItRead' /\ CheckedWereHeard'
    BY <1>1, <1>5 DEF CountsWhatItRead, CheckedWereHeard
  <1>8. QED
    BY <1>3, <1>4, <1>6, <1>7 DEF FeedbackInv

LEMMA SummaryGoesOn ==
  ASSUME FeedbackInv, NEW s \in Summarizer, NEW k \in Table,
         ReadLatest(s, k) \/ ReadUnchecked(s) \/ SummaryFails(s)
  PROVE  FeedbackInv'
  <1>1. FeedbackTypes /\ AloneOnTable
    BY DEF FeedbackInv
  <1>2. CASE SummaryFails(s)
    <2>1. summarizer' = [summarizer EXCEPT ![s] = SummarizerIdle] /\ UNCHANGED <<rows, summary, overlapped>>
      BY <1>2 DEF SummaryFails
    <2>2. SummarizerIdle.at # "write" /\ overlapped \subseteq overlapped'
      BY <2>1, NothingHeard
    <2>3. QED
      BY <2>1, <2>2, NothingHeard, Summarizing
  <1>3. CASE ReadLatest(s, k)
    <2> DEFINE x == [at |-> "rows", of |-> k, previous |-> Latest(k), batch |-> {}]
    <2>1. Latest(k) \in SummaryRecord
      BY <1>1, LatestType
    <2>2. x \in SummarizerRecord /\ x.at = "rows" /\ x.of = k /\ x.previous = Latest(k)
      BY <2>1 DEF SummarizerRecord, Pairs
    <2>3. /\ summarizer' = [summarizer EXCEPT ![s] = x] /\ UNCHANGED <<rows, summary>>
          /\ overlapped' = IF \E u \in Summarizer : summarizer[u].at # "idle" /\ summarizer[u].of = k
                           THEN overlapped \cup {k} ELSE overlapped
      BY <1>3 DEF ReadLatest
    <2> HIDE DEF x
    <2>4. overlapped \subseteq overlapped' /\ x.at # "write"
          /\ (x.of \notin overlapped' => \A u \in Summarizer : ~Working(u, x.of))
      BY <2>2, <2>3 DEF Working
    <2>5. QED
      BY <2>2, <2>3, <2>4, Summarizing
  <1>4. CASE ReadUnchecked(s)
    <2>1. PICK m \in Table : m = summarizer[s].of
      BY <1>1 DEF FeedbackTypes, SummarizerRecord
    <2> DEFINE B == {<<i, rows[m][i].said>> : i \in Oldest(m)}
    <2>2. PICK y : y = [summarizer[s] EXCEPT !.at = "write", !.batch = B]
      OBVIOUS
    <2>3. summarizer[s] \in SummarizerRecord /\ summarizer[s].at = "rows"
      BY <1>1, <1>4 DEF FeedbackTypes, ReadUnchecked
    <2>4. B \in Pairs
      <3>1. \A i \in Oldest(m) : i \in Nat /\ rows[m][i].said \in Nat
        <4>1. rows[m] \in Seq(RowRecord)
          BY <1>1 DEF FeedbackTypes
        <4>2. \A i \in Oldest(m) : i \in DOMAIN rows[m] /\ i \in Nat /\ rows[m][i] \in RowRecord
          BY <1>1, <4>1, OldestRows
        <4>3. QED
          BY <4>2 DEF RowRecord
      <3>2. QED
        BY <3>1 DEF Pairs
    <2>5. {r[1] : r \in B} = Oldest(m) /\ Cardinality(B) = Cardinality(Oldest(m))
      <3> DEFINE g == [i \in Oldest(m) |-> rows[m][i].said]
      <3>1. B = {<<i, g[i]>> : i \in Oldest(m)}
        OBVIOUS
      <3>2. IsFiniteSet(Oldest(m))
        BY <1>1, OldestRows
      <3> HIDE DEF B, g
      <3>3. QED
        BY <3>1, <3>2, PairsCount
    <2>6. /\ summarizer' = [summarizer EXCEPT ![s] = IF Unchecked(m) = {} THEN SummarizerIdle ELSE y]
          /\ UNCHANGED <<rows, summary, overlapped>>
      BY <1>4, <2>1, <2>2 DEF ReadUnchecked
    <2> HIDE DEF B
    <2>7. y.at = "write" /\ y.of = m /\ y.previous = summarizer[s].previous /\ y.batch = B
      BY <2>1, <2>2, <2>3 DEF SummarizerRecord
    <2>8. y \in SummarizerRecord
      BY <2>2, <2>3, <2>4 DEF SummarizerRecord
    <2>9. CASE Unchecked(m) = {}
      <3>1. summarizer' = [summarizer EXCEPT ![s] = SummarizerIdle] /\ SummarizerIdle.at # "write"
            /\ overlapped \subseteq overlapped'
        BY <2>6, <2>9, NothingHeard
      <3>2. QED
        BY <2>6, <3>1, NothingHeard, Summarizing
    <2>10. CASE Unchecked(m) # {}
      <3>1. summarizer' = [summarizer EXCEPT ![s] = y] /\ overlapped \subseteq overlapped'
        BY <2>6, <2>10
      <3>2. Marked(y) = Oldest(m) /\ Cardinality(y.batch) = Cardinality(Marked(y))
        BY <2>5, <2>7 DEF Marked
      <3>3. Marked(y) \subseteq DOMAIN rows[m] /\ Marked(y) \intersect Checked(m) = {}
        BY <1>1, <3>2, OldestRows
      <3>4. Working(s, m)
        BY <2>1, <2>3 DEF Working
      <3>5. m \notin overlapped => y.previous = Latest(m) /\ \A u \in Summarizer : Working(u, m) => u = s
        BY <1>1, <2>7, <3>4 DEF AloneOnTable
      <3>6. QED
        BY <2>6, <2>7, <2>8, <3>1, <3>2, <3>3, <3>5, Summarizing
    <2>11. QED
      BY <2>9, <2>10
  <1>5. QED
    BY <1>2, <1>3, <1>4

LEMMA SummaryWritten ==
  ASSUME FeedbackInv, NEW s \in Summarizer, WriteSummaryAndMarks(s) PROVE FeedbackInv'
  <1>1. FeedbackTypes /\ BatchesNameRows /\ AloneOnTable /\ CountsWhatItRead /\ CheckedWereHeard
    BY DEF FeedbackInv
  <1>2. PICK x \in SummarizerRecord : x = summarizer[s]
    BY <1>1 DEF FeedbackTypes
  <1>3. PICK k \in Table : k = x.of
    BY DEF SummarizerRecord
  <1>4. PICK y : y = [total |-> Cardinality(x.batch) + x.previous.total, heard |-> x.batch \cup x.previous.heard]
    OBVIOUS
  <1> DEFINE M == Marked(x)
             w == [i \in DOMAIN rows[k] |->
                     IF i \in M THEN [rows[k][i] EXCEPT !.checked = TRUE] ELSE rows[k][i]]
  <1>5. /\ x.at = "write"
        /\ summary' = [summary EXCEPT ![k] = Append(summary[k], y)]
        /\ rows' = [rows EXCEPT ![k] = w]
        /\ summarizer' = [summarizer EXCEPT ![s] = SummarizerIdle]
        /\ overlapped' = overlapped
    BY <1>2, <1>3, <1>4 DEF WriteSummaryAndMarks
  <1>6. M \subseteq DOMAIN rows[k] /\ Cardinality(x.batch) = Cardinality(M)
    BY <1>1, <1>2, <1>3, <1>5 DEF BatchesNameRows
  <1>7. rows[k] \in Seq(RowRecord) /\ summary[k] \in Seq(SummaryRecord)
    BY <1>1 DEF FeedbackTypes
  <1>8. /\ w \in Seq(RowRecord) /\ DOMAIN w = DOMAIN rows[k]
        /\ \A i \in DOMAIN w : w[i].checked <=> i \in M \/ i \in Checked(k)
    <2>1. \A i \in DOMAIN rows[k] : rows[k][i] \in RowRecord
      BY <1>7
    <2>2. ASSUME NEW r \in RowRecord
          PROVE  [r EXCEPT !.checked = TRUE] \in RowRecord /\ [r EXCEPT !.checked = TRUE].checked
      BY DEF RowRecord
    <2>3. \A i \in DOMAIN rows[k] : w[i] \in RowRecord /\ (w[i].checked <=> i \in M \/ rows[k][i].checked)
      BY <2>1, <2>2
    <2>4. DOMAIN w = 1..Len(rows[k]) /\ DOMAIN w = DOMAIN rows[k] /\ w = [i \in DOMAIN w |-> w[i]]
      BY <1>7
    <2> HIDE DEF w, M
    <2>5. w \in [1..Len(rows[k]) -> RowRecord] /\ Len(rows[k]) \in Nat
      BY <1>7, <2>3, <2>4
    <2>6. QED
      BY <2>3, <2>4, <2>5 DEF Checked
  <1>9. IsFiniteSet(M) /\ Cardinality(M) \in Nat
    <2>1. IsFiniteSet(DOMAIN rows[k])
      BY <1>1, OldestRows
    <2> HIDE DEF M
    <2>2. IsFiniteSet(M)
      BY <1>6, <2>1, FS_Subset
    <2>3. QED
      BY <2>2, FS_CardinalityType
  <1> HIDE DEF w, M
  <1>10. y \in SummaryRecord /\ y.total = Cardinality(M) + x.previous.total /\ x.batch \subseteq y.heard
    BY <1>4, <1>6, <1>9 DEF SummarizerRecord, SummaryRecord, Pairs
  <1>11. /\ Append(summary[k], y) \in Seq(SummaryRecord)
         /\ Append(summary[k], y) # <<>>
         /\ Append(summary[k], y)[Len(Append(summary[k], y))] = y
         /\ Len(Append(summary[k], y)) \in DOMAIN Append(summary[k], y)
         /\ \A n \in DOMAIN summary[k] : n \in DOMAIN Append(summary[k], y) /\ Append(summary[k], y)[n] = summary[k][n]
    BY <1>7, <1>10
  <1>12. PICK z \in Seq(SummaryRecord) :
           /\ z = Append(summary[k], y) /\ z # <<>> /\ z[Len(z)] = y /\ Len(z) \in DOMAIN z
           /\ \A n \in DOMAIN summary[k] : n \in DOMAIN z /\ z[n] = summary[k][n]
    BY <1>11
  <1>13. /\ rows'[k] = w /\ summary'[k] = z
         /\ \A m \in Table : m # k => rows'[m] = rows[m] /\ summary'[m] = summary[m]
    BY <1>1, <1>5, <1>12 DEF FeedbackTypes
  <1>14. FeedbackTypes'
    BY <1>1, <1>5, <1>8, <1>12, NothingHeard DEF FeedbackTypes
  <1>15. /\ summarizer'[s].at = "idle"
         /\ \A u \in Summarizer : u # s => summarizer'[u] = summarizer[u]
    BY <1>1, <1>5, NothingHeard DEF FeedbackTypes
  <1>16. \A m \in Table : DOMAIN rows'[m] = DOMAIN rows[m]
    BY <1>8, <1>13
  <1>17. BatchesNameRows'
    <2>1. ASSUME NEW u \in Summarizer, summarizer'[u].at = "write"
          PROVE  /\ Marked(summarizer'[u]) \subseteq DOMAIN rows'[summarizer'[u].of]
                 /\ Cardinality(summarizer'[u].batch) = Cardinality(Marked(summarizer'[u]))
      <3>1. u # s /\ summarizer'[u] = summarizer[u] /\ summarizer[u].of \in Table
        BY <1>1, <1>15, <2>1 DEF FeedbackTypes, SummarizerRecord
      <3>2. QED
        BY <1>1, <1>16, <2>1, <3>1 DEF BatchesNameRows
    <2>2. QED
      BY <2>1 DEF BatchesNameRows, Marked
  <1>18. /\ Latest(k)' = y /\ Checked(k)' = M \cup Checked(k)
         /\ \A m \in Table : m # k => Latest(m)' = Latest(m) /\ Checked(m)' = Checked(m)
    <2>1. Latest(k)' = y
      BY <1>12, <1>13 DEF Latest
    <2>2. Checked(k)' = M \cup Checked(k)
      BY <1>6, <1>8, <1>13 DEF Checked
    <2>3. ASSUME NEW m \in Table, m # k PROVE Latest(m)' = Latest(m) /\ Checked(m)' = Checked(m)
      BY <1>13, <2>3 DEF Latest, Checked
    <2>4. QED
      BY <2>1, <2>2, <2>3
  <1>19. Working(s, k) /\ \A u \in Summarizer, m \in Table : Working(u, m)' => u # s /\ Working(u, m)
    BY <1>2, <1>3, <1>5, <1>15 DEF Working
  <1>20. AloneOnTable'
    <2>1. ASSUME NEW m \in Table, m \notin overlapped, NEW u \in Summarizer, Working(u, m)'
          PROVE  /\ summarizer'[u].previous = Latest(m)'
                 /\ summarizer'[u].at = "write" => Marked(summarizer'[u]) \intersect Checked(m)' = {}
                 /\ \A v \in Summarizer : Working(v, m)' => v = u
      <3>1. u # s /\ Working(u, m) /\ summarizer'[u] = summarizer[u]
        BY <1>15, <1>19, <2>1
      <3>2. m # k
        BY <1>1, <1>19, <2>1, <3>1 DEF AloneOnTable
      <3>3. QED
        BY <1>1, <1>18, <1>19, <2>1, <3>1, <3>2 DEF AloneOnTable
    <2>2. QED
      BY <1>5, <2>1 DEF AloneOnTable, Marked
  <1>21. CountsWhatItRead'
    <2>1. ASSUME NEW m \in Table, m \notin overlapped PROVE Latest(m)'.total = Cardinality(Checked(m)')
      <3>1. Latest(m).total = Cardinality(Checked(m)) /\ IsFiniteSet(Checked(m))
        BY <1>1, <2>1, OldestRows DEF CountsWhatItRead, Checked
      <3>2. CASE m # k
        BY <1>18, <3>1, <3>2
      <3>3. CASE m = k
        <4>1. M \intersect Checked(k) = {} /\ x.previous = Latest(k)
          BY <1>1, <1>2, <1>5, <1>19, <2>1, <3>3 DEF AloneOnTable, M
        <4>2. Cardinality(M \cup Checked(k)) = Cardinality(M) + Cardinality(Checked(k)) - Cardinality({})
          BY <1>9, <3>1, <3>3, <4>1, FS_Union
        <4>3. Cardinality(Checked(k)) \in Nat /\ Cardinality({}) = 0
          BY <3>1, <3>3, FS_CardinalityType, FS_EmptySet
        <4>4. Latest(m)' = y /\ Checked(m)' = M \cup Checked(k)
          BY <1>18, <3>3
        <4>5. y.total = Cardinality(M) + Cardinality(Checked(k))
          BY <1>10, <3>1, <3>3, <4>1
        <4>6. QED
          BY <1>9, <4>2, <4>3, <4>4, <4>5
      <3>4. QED
        BY <3>2, <3>3
    <2>2. QED
      BY <1>5, <2>1 DEF CountsWhatItRead, Checked
  <1>22. CheckedWereHeard'
    <2>1. ASSUME NEW m \in Table, NEW i \in DOMAIN rows'[m], rows'[m][i].checked
          PROVE  \E n \in DOMAIN summary'[m] : \E r \in summary'[m][n].heard : r[1] = i
      <3>1. CASE m # k
        BY <1>1, <1>13, <2>1, <3>1 DEF CheckedWereHeard
      <3>2. CASE m = k /\ i \in Checked(k)
        <4>1. PICK n \in DOMAIN summary[k] : \E r \in summary[k][n].heard : r[1] = i
          BY <1>1, <3>2 DEF CheckedWereHeard, Checked
        <4>2. n \in DOMAIN z /\ z[n] = summary[k][n]
          BY <1>12
        <4>3. QED
          BY <1>13, <3>2, <4>1, <4>2
      <3>3. CASE m = k /\ i \in M
        <4>1. PICK r \in x.batch : r[1] = i
          BY <3>3 DEF M, Marked
        <4>2. r \in z[Len(z)].heard /\ Len(z) \in DOMAIN z
          BY <1>10, <1>12
        <4>3. QED
          BY <1>13, <3>3, <4>1, <4>2
      <3>4. QED
        BY <1>8, <1>13, <2>1, <3>1, <3>2, <3>3
    <2>2. QED
      BY <2>1 DEF CheckedWereHeard
  <1>23. QED
    BY <1>14, <1>17, <1>20, <1>21, <1>22 DEF FeedbackInv

LEMMA NextFeedback == FeedbackInv /\ [FeedbackNext]_feedbackVars => FeedbackInv'
  <1> SUFFICES ASSUME FeedbackInv, [FeedbackNext]_feedbackVars PROVE FeedbackInv'
    OBVIOUS
  <1>1. CASE UNCHANGED feedbackVars
    <2>1. UNCHANGED <<rows, summary, summarizer, overlapped>>
      BY <1>1 DEF feedbackVars
    <2>2. \A k \in Table : Latest(k)' = Latest(k) /\ Checked(k)' = Checked(k)
      BY <2>1 DEF Latest, Checked
    <2>3. FeedbackTypes' /\ BatchesNameRows' /\ CheckedWereHeard'
      <3>1. FeedbackTypes /\ BatchesNameRows /\ CheckedWereHeard
        BY DEF FeedbackInv
      <3>2. FeedbackTypes'
        BY <2>1, <3>1 DEF FeedbackTypes
      <3>3. BatchesNameRows'
        BY <2>1, <3>1 DEF BatchesNameRows, Marked
      <3>4. CheckedWereHeard'
        BY <2>1, <3>1 DEF CheckedWereHeard
      <3>5. QED
        BY <3>2, <3>3, <3>4
    <2>4. AloneOnTable'
      BY <2>1, <2>2 DEF FeedbackInv, AloneOnTable, Working, Marked
    <2>5. CountsWhatItRead'
      BY <2>1, <2>2 DEF FeedbackInv, CountsWhatItRead
    <2>6. QED
      BY <2>3, <2>4, <2>5 DEF FeedbackInv
  <1>2. ASSUME NEW s \in Summarizer, NEW k \in Table, SummaryStep(s, k) PROVE FeedbackInv'
    BY <1>2, SummaryGoesOn, SummaryWritten DEF SummaryStep
  <1>3. "feedback" \in Table /\ "votes" \in Table
    BY DEF Table
  <1>4. QED
    BY <1>1, <1>2, <1>3, NextSaying DEF FeedbackNext, TriggerSummary, HandleSummarize, RunSummary

LEMMA ListStep == [PlatformNext]_platformVars => [ConversationListNext]_listVars
  BY DEF PlatformNext, platformVars

ChatRecord == [last : Nat, archived : BOOLEAN]
ChatsNumbered == \E n \in Nat : chat \in [1..n -> ChatRecord]

LEMMA ChatOrder ==
  ASSUME ChatsNumbered
  PROVE  /\ IsFiniteSet(DOMAIN chat) /\ DOMAIN chat \subseteq Nat \ {0}
         /\ \A a \in DOMAIN chat : ~Before(a, a)
         /\ \A a, b \in DOMAIN chat : a = b \/ Before(a, b) \/ Before(b, a)
         /\ \A a, b \in DOMAIN chat : ~(Before(a, b) /\ Before(b, a))
         /\ \A a, b, c \in DOMAIN chat : Before(a, b) /\ Before(b, c) => Before(a, c)
  <1>1. PICK n \in Nat : chat \in [1..n -> ChatRecord]
    BY DEF ChatsNumbered
  <1>2. IsFiniteSet(DOMAIN chat) /\ DOMAIN chat \subseteq Nat \ {0}
    BY <1>1, FS_Interval
  <1>3. \A a \in DOMAIN chat : chat[a].last \in Nat /\ a \in Nat
    BY <1>1 DEF ChatRecord
  <1>4. QED
    BY <1>2, <1>3 DEF Before

\* The chats of s that come before c; where c stands among them.
Preds(s, c) == {d \in s : Before(d, c)}
PlaceOf(s, c) == Cardinality(Preds(s, c))

LEMMA Ranks ==
  ASSUME ChatsNumbered, NEW s, s \subseteq DOMAIN chat
  PROVE  /\ \A c \in s : IsFiniteSet(Preds(s, c)) /\ PlaceOf(s, c) \in Nat
         /\ \A c, d \in s : Before(d, c) => PlaceOf(s, d) < PlaceOf(s, c)
  <1>1. \A c \in s : Preds(s, c) \subseteq DOMAIN chat
    BY DEF Preds
  <1>2. \A c \in s : IsFiniteSet(Preds(s, c))
    <2> TAKE c \in s
    <2>1. Preds(s, c) \in SUBSET (DOMAIN chat) /\ IsFiniteSet(DOMAIN chat)
      BY <1>1, ChatOrder
    <2>2. QED
      BY <2>1, FS_Subset
  <1>3. \A c \in s : PlaceOf(s, c) \in Nat
    BY <1>2, FS_CardinalityType DEF PlaceOf
  <1>4. ASSUME NEW c \in s, NEW d \in s, Before(d, c) PROVE PlaceOf(s, d) < PlaceOf(s, c)
    <2>1. Preds(s, d) \in SUBSET Preds(s, c)
      BY <1>4, ChatOrder DEF Preds
    <2>2. d \in Preds(s, c) /\ d \notin Preds(s, d)
      BY <1>4, ChatOrder DEF Preds
    <2>3. PlaceOf(s, d) =< PlaceOf(s, c) /\ PlaceOf(s, d) # PlaceOf(s, c)
      BY <1>2, <2>1, <2>2, FS_Subset DEF PlaceOf
    <2>4. QED
      BY <1>3, <2>3
  <1>5. QED
    BY <1>2, <1>3, <1>4

\* A set of chats has a first one and a last one.
LEMMA FirstAndLast ==
  ASSUME ChatsNumbered, NEW s, s \subseteq DOMAIN chat, s # {}
  PROVE  /\ \E c \in s : Preds(s, c) = {}
         /\ \E c \in s : \A d \in s : ~Before(c, d)
  <1>1. \A c \in s : PlaceOf(s, c) \in Nat /\ \A d \in s : Before(d, c) => PlaceOf(s, d) < PlaceOf(s, c)
    BY Ranks
  <1>2. \E c \in s : Preds(s, c) = {}
    <2> DEFINE T == {PlaceOf(s, c) : c \in s}
    <2>1. T \subseteq Nat /\ T # {}
      BY <1>1
    <2> HIDE DEF T
    <2>2. PICK n \in T : \A m \in T : n =< m
      BY <2>1, LeastNumber
    <2>3. PICK c \in s : PlaceOf(s, c) = n
      BY <2>2 DEF T
    <2>4. ASSUME NEW d \in s, Before(d, c) PROVE FALSE
      <3>1. PlaceOf(s, d) \in T /\ PlaceOf(s, d) < n /\ n \in Nat /\ PlaceOf(s, d) \in Nat
        BY <1>1, <2>3, <2>4 DEF T
      <3>2. QED
        BY <2>2, <3>1
    <2>5. QED
      BY <2>4 DEF Preds
  <1>3. \E c \in s : \A d \in s : ~Before(c, d)
    <2>1. IsFiniteSet(s)
      BY ChatOrder, FS_Subset
    <2>2. \A c \in s : PlaceOf(s, c) =< Cardinality(s)
      <3> TAKE c \in s
      <3>1. Preds(s, c) \in SUBSET s
        BY DEF Preds
      <3>2. QED
        BY <2>1, <3>1, FS_Subset DEF PlaceOf
    <2> DEFINE T == {Cardinality(s) - PlaceOf(s, c) : c \in s}
    <2>3. Cardinality(s) \in Nat
      BY <2>1, FS_CardinalityType
    <2>4. T \subseteq Nat /\ T # {}
      BY <1>1, <2>2, <2>3
    <2> HIDE DEF T
    <2>5. PICK n \in T : \A m \in T : n =< m
      BY <2>4, LeastNumber
    <2>6. PICK c \in s : Cardinality(s) - PlaceOf(s, c) = n
      BY <2>5 DEF T
    <2>7. ASSUME NEW d \in s, Before(c, d) PROVE FALSE
      <3>1. Cardinality(s) - PlaceOf(s, d) \in T
        BY DEF T
      <3>2. n =< Cardinality(s) - PlaceOf(s, d)
        BY <2>5, <3>1
      <3>3. PlaceOf(s, c) < PlaceOf(s, d) /\ PlaceOf(s, c) \in Nat /\ PlaceOf(s, d) \in Nat
        BY <1>1, <2>7
      <3>4. QED
        BY <2>3, <2>6, <3>2, <3>3
    <2>8. QED
      BY <2>7
  <1>4. QED
    BY <1>2, <1>3

\* A page is the beginning of what there is; it is all of it when one more would not show more.
LEMMA Pages ==
  ASSUME ChatsNumbered, NEW s, s \subseteq DOMAIN chat, NEW P \in Nat \ {0},
         NEW items, items = FirstOf(P + 1, s), NEW data, data = FirstOf(P, items)
  PROVE  /\ data \subseteq s /\ \A c \in data, d \in s : Before(d, c) => d \in data
         /\ items = data => data = s
         /\ s # {} => data # {}
  <1>1. \A c \in s : PlaceOf(s, c) \in Nat /\ \A d \in s : Before(d, c) => PlaceOf(s, d) < PlaceOf(s, c)
    BY Ranks
  <1>2. items = {c \in s : PlaceOf(s, c) < P + 1}
    BY DEF FirstOf, PlaceOf, Preds
  <1>3. \A c \in items : Preds(items, c) = Preds(s, c)
    <2> TAKE c \in items
    <2>1. ASSUME NEW d \in s, Before(d, c) PROVE d \in items
      BY <1>1, <1>2, <2>1
    <2>2. QED
      BY <1>2, <2>1 DEF Preds
  <1>4. data = {c \in items : PlaceOf(s, c) < P}
    BY <1>3 DEF FirstOf, PlaceOf, Preds
  <1>5. data = {c \in s : PlaceOf(s, c) < P}
    BY <1>1, <1>2, <1>4
  <1>6. ASSUME NEW c \in data, NEW d \in s, Before(d, c) PROVE d \in data
    BY <1>1, <1>5, <1>6
  <1>7. ASSUME s # {} PROVE data # {}
    <2>1. PICK c \in s : Preds(s, c) = {}
      BY <1>7, FirstAndLast
    <2>2. PlaceOf(s, c) = 0
      BY <2>1, FS_EmptySet DEF PlaceOf
    <2>3. QED
      BY <1>5, <2>2
  <1>8. ASSUME items = data, s \ data # {} PROVE FALSE
    <2> DEFINE T == {PlaceOf(s, c) : c \in s \ data}
    <2>1. T \subseteq Nat /\ T # {}
      BY <1>1, <1>8
    <2> HIDE DEF T
    <2>2. PICK n \in T : \A m \in T : n =< m
      BY <2>1, LeastNumber
    <2>3. PICK c \in s \ data : PlaceOf(s, c) = n
      BY <2>2 DEF T
    <2>4. n \in Nat /\ n >= P
      BY <1>1, <1>5, <2>3
    <2>5. Preds(s, c) # {} /\ Preds(s, c) \subseteq DOMAIN chat
      <3>1. Preds(s, c) # {}
        BY <2>3, <2>4, FS_EmptySet DEF PlaceOf
      <3>2. QED
        BY <3>1 DEF Preds
    <2>6. PICK d \in Preds(s, c) : \A e \in Preds(s, c) : ~Before(d, e)
      BY <2>5, FirstAndLast
    <2>7. d \in s /\ Before(d, c) /\ PlaceOf(s, d) < n /\ PlaceOf(s, d) \in Nat
      BY <1>1, <2>3, <2>6 DEF Preds
    <2>8. d \in data
      <3>1. PlaceOf(s, d) \notin T
        BY <2>2, <2>4, <2>7
      <3>2. QED
        BY <2>7, <3>1 DEF T
    <2>9. Preds(s, c) \in SUBSET (Preds(s, d) \cup {d})
      BY <2>6, <2>7, ChatOrder DEF Preds
    <2>10. IsFiniteSet(Preds(s, d))
      BY <2>7, Ranks
    <2>11. IsFiniteSet(Preds(s, d) \cup {d}) /\ Cardinality(Preds(s, d) \cup {d}) =< PlaceOf(s, d) + 1
      <3>1. /\ IsFiniteSet(Preds(s, d) \cup {d})
            /\ Cardinality(Preds(s, d) \cup {d})
                 = IF d \in Preds(s, d) THEN Cardinality(Preds(s, d)) ELSE Cardinality(Preds(s, d)) + 1
        BY <2>10, FS_AddElement
      <3>2. QED
        BY <2>7, <3>1 DEF PlaceOf
    <2>12. PlaceOf(s, c) =< Cardinality(Preds(s, d) \cup {d})
      BY <2>9, <2>11, FS_Subset DEF PlaceOf
    <2>13. Cardinality(Preds(s, d) \cup {d}) \in Nat
      BY <2>11, FS_CardinalityType
    <2>14. PlaceOf(s, d) < P
      BY <1>5, <2>8
    <2>15. n < P + 1
      BY <2>3, <2>4, <2>7, <2>11, <2>12, <2>13, <2>14
    <2>16. c \in items /\ c \notin data
      BY <1>2, <2>3, <2>15
    <2>17. QED
      BY <1>8, <2>16
  <1>9. data \subseteq s
    BY <1>5
  <1>10. QED
    BY <1>6, <1>7, <1>8, <1>9

\* What a page is taken from, at a cursor that is still there.
LEMMA AfterCursor ==
  ASSUME ChatsNumbered, NEW cursor \in Visible
  PROVE  cursor # NoCursor /\ From(cursor) = {c \in Visible : Before(cursor, c)}
  <1>1. Visible \subseteq DOMAIN chat /\ cursor # NoCursor
    BY ChatOrder DEF Visible, NoCursor
  <1> DEFINE rest == {c \in Visible : ~Before(c, cursor)}
  <1>2. rest \subseteq DOMAIN chat /\ cursor \in rest
    BY <1>1, ChatOrder
  <1>3. \A c \in rest : c = cursor \/ Before(cursor, c)
    BY <1>1, ChatOrder
  <1>4. PlaceOf(rest, cursor) = 0
    <2>1. Preds(rest, cursor) = {}
      BY DEF Preds
    <2>2. QED
      BY <2>1, FS_EmptySet DEF PlaceOf
  <1>5. \A c \in rest : PlaceOf(rest, c) \in Nat /\ (c # cursor => PlaceOf(rest, cursor) < PlaceOf(rest, c))
    <2> HIDE DEF rest
    <2>1. QED
      BY <1>2, <1>3, Ranks
  <1>6. FirstOf(1, rest) = {c \in rest : PlaceOf(rest, c) < 1}
    BY DEF FirstOf, PlaceOf, Preds
  <1>7. FirstOf(1, rest) = {cursor}
    <2> HIDE DEF rest
    <2>1. \A c \in rest : PlaceOf(rest, c) < 1 <=> c = cursor
      BY <1>2, <1>4, <1>5
    <2>2. QED
      BY <1>2, <1>6, <2>1
  <1>8. From(cursor) = rest \ FirstOf(1, rest)
    BY <1>1 DEF From
  <1>9. rest \ {cursor} = {c \in Visible : Before(cursor, c)}
    BY <1>1, <1>3, ChatOrder
  <1>10. QED
    BY <1>1, <1>7, <1>8, <1>9

ListerRecord == [at : {"start", "middle", "end"}, cursor : Nat, shown : SUBSET Nat, twice : SUBSET Nat,
                 moved : SUBSET Nat, lost : BOOLEAN]

(* A client that no cursor has misled has seen, of what did not move, what stands up to its
   cursor and nothing else. *)
SeenUpToCursor(x) ==
  /\ x.at = "start" => x = Unstarted
  /\ x.at = "middle" /\ ~x.lost =>
       /\ x.cursor \in Visible
       /\ \A c \in Visible \ x.moved : (c \in x.shown <=> ~Before(x.cursor, c)) /\ c \notin x.twice
  /\ x.at = "end" /\ ~x.lost => \A c \in Visible \ x.moved : c \in x.shown /\ c \notin x.twice

ListInv ==
  /\ moves \in Nat /\ ChatsNumbered /\ lister \in [Lister -> ListerRecord]
  /\ \A l \in Lister : SeenUpToCursor(lister[l])

LEMMA InitList == ConversationListInit => ListInv
  <1> SUFFICES ASSUME ConversationListInit PROVE ListInv
    OBVIOUS
  <1>1. [last |-> 0, archived |-> FALSE] \in ChatRecord
    BY DEF ChatRecord
  <1>2. ChatsNumbered
    BY <1>1, ConversationListAssumption DEF ConversationListInit, ChatsNumbered
  <1>3. Unstarted \in ListerRecord /\ Unstarted.at = "start"
    BY DEF Unstarted, ListerRecord, NoCursor
  <1>4. QED
    BY <1>2, <1>3 DEF ConversationListInit, ListInv, SeenUpToCursor

\* A chat moves: the others stand as they stood.
LEMMA ChatMoves ==
  ASSUME ListInv, NEW c \in Nat, Moved(c), ChatsNumbered', moves' \in Nat,
         \A d \in DOMAIN chat \ {c} : d \in DOMAIN chat' /\ chat'[d] = chat[d],
         DOMAIN chat' \subseteq DOMAIN chat \cup {c}
  PROVE  ListInv'
  <1>1. lister \in [Lister -> ListerRecord] /\ \A l \in Lister : SeenUpToCursor(lister[l])
    BY DEF ListInv
  <1>2. \A d \in Nat : d # c => (d \in Visible <=> d \in Visible')
    BY DEF Visible
  <1>3. \A d, e \in DOMAIN chat \ {c} : Before(d, e) <=> Before(d, e)'
    BY DEF Before
  <1>4. ASSUME NEW l \in Lister
        PROVE  lister'[l] \in ListerRecord /\ SeenUpToCursor(lister[l])'
    <2>1. lister[l] \in ListerRecord /\ SeenUpToCursor(lister[l])
      BY <1>1
    <2>2. lister' = [k \in Lister |->
            IF lister[k].at = "start" THEN lister[k]
            ELSE [lister[k] EXCEPT !.moved = lister[k].moved \union {c},
                                   !.lost = lister[k].lost \/ lister[k].cursor = c]]
      BY DEF Moved
    <2>3. CASE lister[l].at = "start"
      <3>1. lister'[l] = lister[l]
        BY <2>2, <2>3
      <3>2. QED
        BY <2>1, <2>3, <3>1 DEF SeenUpToCursor
    <2>4. CASE lister[l].at # "start"
      <3>1. PICK x : x = lister[l]
        OBVIOUS
      <3>2. PICK y : y = lister'[l]
        OBVIOUS
      <3>3. y = [x EXCEPT !.moved = x.moved \union {c}, !.lost = x.lost \/ x.cursor = c]
        BY <2>2, <2>4, <3>1, <3>2
      <3>4. x \in ListerRecord
        BY <2>1, <3>1
      <3>5. /\ y.at = x.at /\ y.cursor = x.cursor /\ y.shown = x.shown /\ y.twice = x.twice
            /\ y.moved = x.moved \cup {c}
        BY <3>3, <3>4 DEF ListerRecord
      <3>6. y.lost = (x.lost \/ x.cursor = c)
        BY <3>3, <3>4 DEF ListerRecord
      <3>7. ~y.lost => ~x.lost /\ x.cursor # c
        BY <3>6
      <3>8. y \in ListerRecord
        <4>1. (x.lost \/ x.cursor = c) \in BOOLEAN
          OBVIOUS
        <4>2. x.moved \cup {c} \in SUBSET Nat
          BY <3>4 DEF ListerRecord
        <4>3. QED
          BY <3>3, <3>4, <4>1, <4>2 DEF ListerRecord
      <3>9. SeenUpToCursor(x)
        BY <2>1, <3>1
      <3>10. \A d \in Visible' \ y.moved : d \in Visible \ x.moved /\ d # c /\ d \in DOMAIN chat
        <4>1. \A d \in Visible' : d \in DOMAIN chat \cup {c}
          BY DEF Visible
        <4>2. \A d \in Visible' \ y.moved : d # c /\ d \in DOMAIN chat /\ d \notin x.moved
          BY <3>5, <4>1
        <4>3. DOMAIN chat \subseteq Nat
          BY ChatOrder DEF ListInv
        <4>4. QED
          BY <1>2, <4>2, <4>3
      <3>11. CASE x.at = "end"
        <4>1. y.at = "end"
          BY <3>5, <3>11
        <4>2. ~y.lost => \A d \in Visible' \ y.moved : d \in y.shown /\ d \notin y.twice
          BY <3>5, <3>7, <3>9, <3>10, <3>11 DEF SeenUpToCursor
        <4>3. SeenUpToCursor(y)'
          BY <4>1, <4>2 DEF SeenUpToCursor
        <4>4. QED
          BY <3>2, <3>8, <4>3
      <3>12. CASE x.at = "middle"
        <4>1. y.at = "middle"
          BY <3>5, <3>12
        <4>2. ASSUME ~y.lost
              PROVE  /\ y.cursor \in Visible'
                     /\ \A d \in Visible' \ y.moved : (d \in y.shown <=> ~Before(y.cursor, d)') /\ d \notin y.twice
          <5>1. /\ x.cursor \in Visible /\ x.cursor # c /\ x.cursor \in Nat
                /\ \A d \in Visible \ x.moved : (d \in x.shown <=> ~Before(x.cursor, d)) /\ d \notin x.twice
            BY <3>4, <3>7, <3>9, <3>12, <4>2 DEF SeenUpToCursor, ListerRecord
          <5>2. x.cursor \in DOMAIN chat \ {c} /\ x.cursor \in Visible'
            BY <1>2, <5>1 DEF Visible
          <5>3. QED
            BY <1>3, <3>5, <3>10, <5>1, <5>2
        <4>3. SeenUpToCursor(y)'
          BY <4>1, <4>2 DEF SeenUpToCursor
        <4>4. QED
          BY <3>2, <3>8, <4>3
      <3>13. QED
        BY <2>4, <3>1, <3>4, <3>11, <3>12 DEF ListerRecord
    <2>5. QED
      BY <2>3, <2>4
  <1>5. lister' \in [Lister -> ListerRecord]
    <2>1. lister' = [l \in Lister |-> lister'[l]]
      BY DEF Moved
    <2>2. QED
      BY <1>4, <2>1
  <1>6. QED
    BY <1>4, <1>5 DEF ListInv

\* A client takes a page.
LEMMA PageTaken ==
  ASSUME ListInv, NEW l \in Lister, FindAll(l) PROVE ListInv'
  <1>1. ChatsNumbered /\ lister \in [Lister -> ListerRecord] /\ \A k \in Lister : SeenUpToCursor(lister[k])
    BY DEF ListInv
  <1>2. PICK x \in ListerRecord : x = lister[l] /\ SeenUpToCursor(x)
    BY <1>1
  <1>3. PICK s : s = From(x.cursor)
    OBVIOUS
  <1>4. PICK items : items = FirstOf(PageSize + 1, s)
    OBVIOUS
  <1>5. PICK data : data = FirstOf(PageSize, items)
    OBVIOUS
  <1>6. PICK y : y = [at |-> IF items = data THEN "end" ELSE "middle",
                      cursor |-> IF items = data THEN NoCursor ELSE NextCursor(data, items),
                      shown |-> x.shown \union data, twice |-> x.twice \union (x.shown \intersect data),
                      moved |-> x.moved, lost |-> x.lost]
    OBVIOUS
  <1>7. x.at # "end" /\ lister' = [lister EXCEPT ![l] = y] /\ UNCHANGED <<chat, moves>>
    BY <1>2, <1>3, <1>4, <1>5, <1>6 DEF FindAll
  <1>8. Visible \subseteq DOMAIN chat /\ DOMAIN chat \subseteq Nat /\ s \subseteq Visible
    BY <1>1, <1>3, ChatOrder DEF Visible, From
  <1>9. PageSize \in Nat \ {0}
    BY ConversationListAssumption
  <1>10. /\ data \subseteq s /\ \A c \in data, d \in s : Before(d, c) => d \in data
         /\ items = data => data = s
         /\ s # {} => data # {}
    BY <1>1, <1>4, <1>5, <1>8, <1>9, Pages
  <1>11. ASSUME items # data
         PROVE  /\ NextCursor(data, items) \in data
                /\ \A d \in data : ~Before(NextCursor(data, items), d)
    <2>1. data # {}
      <3>1. s # {}
        BY <1>4, <1>5, <1>11 DEF FirstOf
      <3>2. QED
        BY <1>10, <3>1
    <2>2. data \subseteq DOMAIN chat
      BY <1>8, <1>10
    <2>3. \E c \in data : \A d \in data : ~Before(c, d)
      BY <1>1, <2>1, <2>2, FirstAndLast
    <2>4. QED
      BY <2>3 DEF NextCursor
  <1>12. /\ y.shown = x.shown \cup data /\ y.twice = x.twice \cup (x.shown \cap data)
         /\ y.moved = x.moved /\ y.lost = x.lost
         /\ items = data => y.at = "end"
         /\ items # data => y.at = "middle" /\ y.cursor = NextCursor(data, items)
    BY <1>6
  <1>13. y \in ListerRecord
    <2>1. data \in SUBSET Nat
      BY <1>8, <1>10
    <2>2. x.shown \cup data \in SUBSET Nat /\ x.twice \cup (x.shown \cap data) \in SUBSET Nat
          /\ x.moved \in SUBSET Nat /\ x.lost \in BOOLEAN
      BY <2>1 DEF ListerRecord
    <2>3. (IF items = data THEN NoCursor ELSE NextCursor(data, items)) \in Nat
      BY <1>11, <2>1 DEF NoCursor
    <2>4. QED
      BY <1>6, <2>2, <2>3 DEF ListerRecord
  <1>14. ASSUME ~x.lost, NEW c \in Visible \ x.moved
         PROVE  /\ c \in s => c \notin x.shown
                /\ c \notin s => c \in x.shown /\ \A d \in s : Before(c, d)
                /\ c \notin x.twice
    <2>1. CASE x.at = "start"
      <3>1. x.shown = {} /\ x.twice = {} /\ x.cursor = NoCursor
        BY <1>2, <2>1 DEF SeenUpToCursor, Unstarted
      <3>2. s = Visible
        BY <1>3, <3>1 DEF From
      <3>3. QED
        BY <3>1, <3>2
    <2>2. CASE x.at = "middle"
      <3>1. /\ x.cursor \in Visible
            /\ (c \in x.shown <=> ~Before(x.cursor, c)) /\ c \notin x.twice
        BY <1>2, <1>14, <2>2 DEF SeenUpToCursor
      <3>2. s = {d \in Visible : Before(x.cursor, d)}
        BY <1>1, <1>3, <3>1, AfterCursor
      <3>3. c \in s <=> Before(x.cursor, c)
        BY <3>2
      <3>4. c \notin s => c = x.cursor \/ Before(c, x.cursor)
        BY <1>1, <1>8, <3>1, <3>3, ChatOrder
      <3>5. c \notin s => \A d \in s : Before(c, d)
        BY <1>1, <1>8, <3>1, <3>2, <3>4, ChatOrder
      <3>6. QED
        BY <3>1, <3>3, <3>5
    <2>3. QED
      BY <1>7, <2>1, <2>2 DEF ListerRecord
  <1>15. SeenUpToCursor(y)
    <2>1. ASSUME ~x.lost, NEW c \in Visible \ x.moved PROVE c \notin y.twice
      BY <1>10, <1>12, <1>14, <2>1
    <2>2. CASE items = data
      <3>1. ~y.lost => \A c \in Visible \ y.moved : c \in y.shown /\ c \notin y.twice
        BY <1>10, <1>12, <1>14, <2>1, <2>2
      <3>2. y.at = "end"
        BY <1>12, <2>2
      <3>3. QED
        BY <3>1, <3>2 DEF SeenUpToCursor
    <2>3. CASE items # data
      <3>1. PICK k : k = NextCursor(data, items) /\ k \in data /\ \A d \in data : ~Before(k, d)
        BY <1>11, <2>3
      <3>2. k \in s /\ k \in Visible
        BY <1>8, <1>10, <3>1
      <3>3. ASSUME ~x.lost, NEW c \in Visible \ x.moved PROVE c \in y.shown <=> ~Before(k, c)
        <4>1. CASE c \notin s
          <5>1. c \in x.shown /\ Before(c, k)
            BY <1>14, <3>2, <3>3, <4>1
          <5>2. QED
            BY <1>1, <1>8, <1>12, <3>2, <5>1, ChatOrder
        <4>2. CASE c \in s
          <5>1. c \notin x.shown
            BY <1>14, <3>3, <4>2
          <5>2. c \in data => ~Before(k, c)
            BY <3>1
          <5>3. ~Before(k, c) => c \in data
            BY <1>1, <1>8, <1>10, <3>1, <3>2, <4>2, ChatOrder
          <5>4. QED
            BY <1>12, <5>1, <5>2, <5>3
        <4>3. QED
          BY <4>1, <4>2
      <3>4. y.at = "middle" /\ y.cursor = k /\ y.moved = x.moved /\ y.lost = x.lost
        BY <1>12, <2>3, <3>1
      <3>5. QED
        BY <2>1, <3>2, <3>3, <3>4 DEF SeenUpToCursor
    <2>4. QED
      BY <2>2, <2>3
  <1>16. ASSUME NEW z, SeenUpToCursor(z) PROVE SeenUpToCursor(z)'
    <2>1. Visible' = Visible
      BY <1>7 DEF Visible
    <2>2. \A a, b : Before(a, b)' <=> Before(a, b)
      BY <1>7 DEF Before
    <2>3. QED
      BY <1>16, <2>1, <2>2 DEF SeenUpToCursor
  <1>17. \A k \in Lister : SeenUpToCursor(lister[k])'
    <2>1. \A k \in Lister : lister'[k] = IF k = l THEN y ELSE lister[k]
      BY <1>1, <1>7
    <2>2. ASSUME NEW k \in Lister PROVE SeenUpToCursor(lister[k])'
      <3>1. PICK z : z = lister'[k] /\ SeenUpToCursor(z)
        BY <1>1, <1>15, <2>1
      <3>2. QED
        BY <1>16, <3>1
    <2>3. QED
      BY <2>2
  <1>18. ChatsNumbered' /\ moves' \in Nat /\ lister' \in [Lister -> ListerRecord]
    BY <1>1, <1>7, <1>13 DEF ListInv, ChatsNumbered
  <1>19. QED
    BY <1>17, <1>18 DEF ListInv

LEMMA NextList == ListInv /\ [ConversationListNext]_listVars => ListInv'
  <1> SUFFICES ASSUME ListInv, [ConversationListNext]_listVars PROVE ListInv'
    OBVIOUS
  <1>1. PICK n \in Nat : chat \in [1..n -> ChatRecord]
    BY DEF ListInv, ChatsNumbered
  <1>2. moves \in Nat /\ DOMAIN chat = 1..n
    BY <1>1 DEF ListInv
  <1>3. CASE UNCHANGED listVars
    BY <1>3 DEF listVars, ListInv, ChatsNumbered, SeenUpToCursor, Visible, Before
  <1>4. CASE CreateChat
    <2>1. Cardinality(DOMAIN chat) = n
      BY <1>2, FS_Interval
    <2>2. PICK c \in Nat : c = n + 1
      OBVIOUS
    <2> DEFINE x == [last |-> moves + 1, archived |-> FALSE]
    <2>3. x \in ChatRecord
      BY <1>2 DEF ChatRecord
    <2>4. moves' = moves + 1 /\ chat' = [i \in 1..c |-> IF i = c THEN x ELSE chat[i]] /\ Moved(c)
      BY <1>4, <2>1, <2>2 DEF CreateChat
    <2> HIDE DEF x
    <2>5. \A i \in 1..c : i = c \/ i \in 1..n
      BY <2>2
    <2>6. chat' \in [1..c -> ChatRecord]
      BY <1>1, <2>3, <2>4, <2>5
    <2>7. ChatsNumbered' /\ moves' \in Nat
      BY <1>2, <2>4, <2>6 DEF ChatsNumbered
    <2>8. /\ \A d \in DOMAIN chat \ {c} : d \in DOMAIN chat' /\ chat'[d] = chat[d]
          /\ DOMAIN chat' \subseteq DOMAIN chat \cup {c}
      BY <1>2, <2>2, <2>4, <2>5
    <2>9. QED
      BY <2>4, <2>7, <2>8, ChatMoves
  <1>5. ASSUME NEW c \in DOMAIN chat, NewMessage(c) \/ Archive(c) PROVE ListInv'
    <2>1. chat[c] \in ChatRecord /\ c \in Nat
      BY <1>1, <1>2
    <2>2. PICK x \in ChatRecord : chat' = [chat EXCEPT ![c] = x] /\ moves' = moves + 1 /\ Moved(c)
      <3>1. CASE NewMessage(c)
        <4>1. [chat[c] EXCEPT !.last = moves + 1] \in ChatRecord
          BY <1>2, <2>1 DEF ChatRecord
        <4>2. QED
          BY <3>1, <4>1 DEF NewMessage
      <3>2. CASE Archive(c)
        <4>1. [chat[c] EXCEPT !.archived = TRUE] \in ChatRecord
          BY <2>1 DEF ChatRecord
        <4>2. QED
          BY <3>2, <4>1 DEF Archive
      <3>3. QED
        BY <1>5, <3>1, <3>2
    <2>3. chat' \in [1..n -> ChatRecord]
      BY <1>1, <2>2
    <2>4. ChatsNumbered' /\ moves' \in Nat
      BY <1>2, <2>2, <2>3 DEF ChatsNumbered
    <2>5. /\ \A d \in DOMAIN chat \ {c} : d \in DOMAIN chat' /\ chat'[d] = chat[d]
          /\ DOMAIN chat' \subseteq DOMAIN chat \cup {c}
      BY <1>1, <2>2
    <2>6. QED
      BY <2>1, <2>2, <2>4, <2>5, ChatMoves
  <1>6. QED
    BY <1>3, <1>4, <1>5, PageTaken DEF ConversationListNext

(* Nobody's words are passed over: a user's reply stands on a closed ticket only if it was on
   its way when the ticket was closed, and an update that says nothing of the status leaves
   the last decision; feedback that is marked as read was in a prompt, and is counted once
   unless two summaries overlapped; a client that follows the cursors is shown every
   conversation that did not move, once. (tickets.service.ts, feedback.service.ts,
   message-feedback.service.ts, conversations.service.ts) *)
THEOREM EverybodyIsHeard == PlatformSpec => []UsersAreHeard
  <1> DEFINE Inv == TicketsInv /\ FeedbackInv /\ ListInv
  <1>1. Inv => UsersAreHeard
    <2>1. ListInv => EveryChatListedOnce
      BY DEF ListInv, SeenUpToCursor, EveryChatListedOnce
    <2>2. QED
      BY <2>1 DEF TicketsInv, FeedbackInv, UsersAreHeard
  <1>2. PlatformInit => Inv
    BY InitTickets, InitFeedback, InitList DEF PlatformInit
  <1>3. Inv /\ [PlatformNext]_platformVars => Inv'
    BY TicketsStep, FeedbackStep, ListStep, NextTickets, NextFeedback, NextList
  <1>4. QED
    BY <1>1, <1>2, <1>3, PTL DEF PlatformSpec

-----------------------------------------------------------------------------
(* Sales assistant *)

LEMMA SalesStep == [PlatformNext]_platformVars => [SalesNext]_salesVars
  BY DEF PlatformNext, platformVars

LeadRecord == [phone : BOOLEAN, offered : BOOLEAN, status : Follow]
MessageCallRecord ==
  [at : {"idle", "counted", "asking", "answered", "offering", "returning"},
   of : Visit \cup {NoSalesCall.of}, length : Nat, count : Nat, day : Nat, plan : BOOLEAN, missed : BOOLEAN]
SaveRecord == [of : Visit, nth : Nat, length : Nat]
ExcusedRecord ==
  [limiter : BOOLEAN, offer : SUBSET Visit, history : SUBSET Visit, status : SUBSET Visit]

SalesTypes ==
  /\ limiter \in [count : Nat, expires : BOOLEAN, day : Nat]
  /\ lead \in [Visit -> LeadRecord] /\ session \in [Visit -> Nat]
  /\ call \in [SalesCall -> MessageCallRecord] /\ saves \subseteq SaveRecord
  /\ answered \in [Visit -> Seq(Nat)] /\ offers \in [Visit -> Nat]
  /\ texting \in [Visit -> Follow \cup {NoText}] /\ settled \in [Visit -> Follow]
  /\ excused \in ExcusedRecord
  /\ \A q \in SalesCall : call[q].at # "idle" => call[q].of \in Visit

\* Whoever was offered the discount carries the mark, and calls that had read the lead
\* before know that they missed it.
OffersMarked ==
  /\ \A s \in Visit : offers[s] > 0 => lead[s].offered \/ s \in excused.offer
  /\ \A q \in SalesCall :
       call[q].at = "offering" /\ offers[call[q].of] > 0 =>
         call[q].missed \/ call[q].of \in excused.offer

\* A save carries the answer it was begun for; the last answer is saved, on its way, or
\* its loss is on record.
SavesFollowAnswers ==
  \A w \in saves : w.nth \in 1..Len(answered[w.of]) /\ w.length = answered[w.of][w.nth]
LastIsSaved ==
  \A s \in Visit : answered[s] # <<>> =>
    \/ session[s] = answered[s][Len(answered[s])] \/ s \in excused.history
    \/ \E w \in saves : w.of = s /\ w.nth = Len(answered[s])

\* A text on its way has read the status of the lead, unless an operator has changed it since.
TextsAreFresh ==
  \A s \in Visit : texting[s] # NoText => texting[s] = lead[s].status \/ s \in excused.status

SalesInv ==
  SalesTypes /\ LimiterGoesAway /\ OffersMarked /\ OfferedOnceUnlessTogether
  /\ SavesFollowAnswers /\ LastIsSaved /\ TextsAreFresh /\ FollowUpsKept

LEMMA NoCallIs ==
  NoSalesCall \in MessageCallRecord /\ NoSalesCall.at = "idle"
  BY DEF NoSalesCall, MessageCallRecord

LEMMA InitSales == SalesInit => SalesInv
  <1> SUFFICES ASSUME SalesInit PROVE SalesInv
    OBVIOUS
  <1>1. SalesTypes
    <2>1. \A s \in Visit : <<>> \in Seq(Nat)
      OBVIOUS
    <2>2. QED
      BY <2>1, NoCallIs DEF SalesInit, SalesTypes, FreshLimiter, NoLead, LeadRecord, Follow, NoText, ExcusedRecord
  <1>2. LimiterGoesAway
    BY DEF SalesInit, LimiterGoesAway, FreshLimiter
  <1>3. OffersMarked /\ OfferedOnceUnlessTogether
    BY NoCallIs DEF SalesInit, OffersMarked, OfferedOnceUnlessTogether
  <1>4. SavesFollowAnswers /\ LastIsSaved
    BY DEF SalesInit, SavesFollowAnswers, LastIsSaved
  <1>5. TextsAreFresh /\ FollowUpsKept
    BY DEF SalesInit, TextsAreFresh, FollowUpsKept, NoLead
  <1>6. QED
    BY <1>1, <1>2, <1>3, <1>4, <1>5 DEF SalesInv

\* What a step does to the call that takes it.
LEMMA CallGoesOn ==
  ASSUME SalesTypes, NEW q \in SalesCall, NEW x \in MessageCallRecord, x.at # "idle" => x.of \in Visit,
         call' = [call EXCEPT ![q] = x]
  PROVE  /\ call' \in [SalesCall -> MessageCallRecord]
         /\ \A p \in SalesCall : call'[p] = IF p = q THEN x ELSE call[p]
         /\ \A p \in SalesCall : call'[p].at # "idle" => call'[p].of \in Visit
  <1>1. /\ call' \in [SalesCall -> MessageCallRecord]
        /\ \A p \in SalesCall : call'[p] = IF p = q THEN x ELSE call[p]
    BY DEF SalesTypes
  <1>2. QED
    BY <1>1 DEF SalesTypes

\* A call that moves on keeps what it is about.
LEMMA MovedOn ==
  ASSUME SalesTypes, NEW q \in SalesCall, call[q].at # "idle",
         NEW at \in {"asking", "answered", "offering", "returning"}, MoveOn(q, at)
  PROVE  \E x \in MessageCallRecord :
           /\ call' = [call EXCEPT ![q] = x] /\ x.at = at /\ x.of = call[q].of /\ x.of \in Visit
           /\ x.missed = call[q].missed /\ x.count = call[q].count /\ x.day = call[q].day
           /\ x.length = call[q].length
  <1> DEFINE c == call[q]
             x == [c EXCEPT !.at = at]
  <1>1. c \in MessageCallRecord /\ c.of \in Visit
    BY DEF SalesTypes
  <1>2. call' = [call EXCEPT ![q] = x]
    BY DEF MoveOn
  <1> HIDE DEF c
  <1>3. x \in MessageCallRecord /\ x.at = at /\ x.of = c.of /\ x.missed = c.missed /\ x.count = c.count /\ x.day = c.day
        /\ x.length = c.length
    BY <1>1 DEF MessageCallRecord
  <1> HIDE DEF x
  <1>4. QED
    BY <1>1, <1>2, <1>3 DEF c

\* A step of one call that only says where the call is, or counts it.
LEMMA CallOnly ==
  ASSUME SalesInv, NEW q \in SalesCall, NEW x \in MessageCallRecord, x.at # "idle" => x.of \in Visit,
         call' = [call EXCEPT ![q] = x],
         UNCHANGED <<lead, session, saves, answered, offers, texting, settled>>,
         limiter' \in [count : Nat, expires : BOOLEAN, day : Nat], excused' \in ExcusedRecord,
         excused'.offer = excused.offer, excused'.history = excused.history,
         excused'.status = excused.status, LimiterGoesAway',
         x.at = "offering" /\ offers[x.of] > 0 => x.missed \/ x.of \in excused.offer
  PROVE  SalesInv'
  <1>1. SalesTypes
    BY DEF SalesInv
  <1>2. /\ call' \in [SalesCall -> MessageCallRecord]
        /\ \A p \in SalesCall : call'[p] = IF p = q THEN x ELSE call[p]
        /\ \A p \in SalesCall : call'[p].at # "idle" => call'[p].of \in Visit
    BY <1>1, CallGoesOn
  <1>3. SalesTypes'
    BY <1>1, <1>2 DEF SalesTypes
  <1>4. OffersMarked'
    <2>1. \A s \in Visit : offers'[s] > 0 => lead'[s].offered \/ s \in excused'.offer
      BY DEF SalesInv, OffersMarked
    <2>2. \A p \in SalesCall :
            call'[p].at = "offering" /\ offers'[call'[p].of] > 0 =>
              call'[p].missed \/ call'[p].of \in excused'.offer
      BY <1>2 DEF SalesInv, OffersMarked
    <2>3. QED
      BY <2>1, <2>2 DEF OffersMarked
  <1>5. OfferedOnceUnlessTogether'
    BY DEF SalesInv, OfferedOnceUnlessTogether
  <1>6. SavesFollowAnswers' /\ LastIsSaved'
    BY DEF SalesInv, SavesFollowAnswers, LastIsSaved
  <1>7. TextsAreFresh' /\ FollowUpsKept'
    BY DEF SalesInv, TextsAreFresh, FollowUpsKept
  <1>8. QED
    BY <1>3, <1>4, <1>5, <1>6, <1>7 DEF SalesInv

\* The call that is to set the expiry stays, unless it is the one that moves.
LEMMA LimiterKept ==
  ASSUME SalesInv, NEW q \in SalesCall, call[q].at # "counted",
         \A p \in SalesCall : p # q => call'[p] = call[p],
         limiter' = limiter, excused'.limiter = excused.limiter
  PROVE  LimiterGoesAway'
  <1>1. LimiterGoesAway
    BY DEF SalesInv
  <1>2. \A p \in SalesCall : call[p].at = "counted" => call'[p] = call[p]
    OBVIOUS
  <1>3. QED
    BY <1>1, <1>2 DEF LimiterGoesAway, Doing

LEMMA CountCallStep ==
  ASSUME SalesInv, NEW q \in SalesCall, NEW s \in Visit, NEW n \in Lengths, CountCall(q, s, n)
  PROVE  SalesInv'
  <1> DEFINE x == [at |-> "counted", of |-> s, length |-> n, count |-> limiter.count + 1,
                   day |-> limiter.day, plan |-> FALSE, missed |-> FALSE]
  <1>1. /\ call[q].at = "idle" /\ call' = [call EXCEPT ![q] = x]
        /\ limiter' = [limiter EXCEPT !.count = limiter.count + 1]
        /\ UNCHANGED <<lead, session, saves, answered, offers, texting, settled, excused>>
    BY DEF CountCall, Doing
  <1>2. SalesTypes /\ LimiterGoesAway
    BY DEF SalesInv
  <1>3. limiter \in [count : Nat, expires : BOOLEAN, day : Nat] /\ excused \in ExcusedRecord
    BY <1>2 DEF SalesTypes
  <1>4. n \in Nat
    BY SalesAssumption
  <1>5. x \in MessageCallRecord
    BY <1>3, <1>4 DEF MessageCallRecord
  <1>6. x.at = "counted" /\ x.of = s /\ x.count = limiter.count + 1 /\ x.day = limiter.day
    OBVIOUS
  <1> HIDE DEF x
  <1>7. /\ limiter' \in [count : Nat, expires : BOOLEAN, day : Nat]
        /\ limiter'.expires = limiter.expires /\ limiter'.day = limiter.day
    BY <1>1, <1>3
  <1>8. \A p \in SalesCall : call'[p] = IF p = q THEN x ELSE call[p]
    BY <1>1, <1>2, <1>5, <1>6, CallGoesOn
  <1>9. LimiterGoesAway'
    <2>1. CASE limiter.count = 0
      <3>1. call'[q].at = "counted" /\ call'[q].count = 1 /\ call'[q].day = limiter'.day
        BY <1>6, <1>7, <1>8, <2>1
      <3>2. QED
        BY <3>1 DEF LimiterGoesAway, Doing
    <2>2. CASE limiter.count # 0
      <3>1. limiter.count > 0
        BY <1>3, <2>2
      <3>2. \A p \in SalesCall : call[p].at = "counted" => call'[p] = call[p]
        BY <1>1, <1>8
      <3>3. limiter.expires \/ excused.limiter
            \/ \E p \in SalesCall : call[p].at = "counted" /\ call[p].count = 1 /\ call[p].day = limiter.day
        BY <1>2, <3>1 DEF LimiterGoesAway, Doing
      <3>4. limiter'.expires \/ excused'.limiter
            \/ \E p \in SalesCall : call'[p].at = "counted" /\ call'[p].count = 1 /\ call'[p].day = limiter'.day
        BY <1>1, <1>7, <3>2, <3>3
      <3>5. QED
        BY <3>4 DEF LimiterGoesAway, Doing
    <2>3. QED
      BY <2>1, <2>2
  <1>10. QED
    BY <1>1, <1>3, <1>5, <1>6, <1>7, <1>9, CallOnly

LEMMA LimitCallStep ==
  ASSUME SalesInv, NEW q \in SalesCall, LimitCall(q)
  PROVE  SalesInv'
  <1>1. SalesTypes /\ LimiterGoesAway
    BY DEF SalesInv
  <1>2. limiter \in [count : Nat, expires : BOOLEAN, day : Nat] /\ excused \in ExcusedRecord
        /\ call[q] \in MessageCallRecord
    BY <1>1 DEF SalesTypes
  <1> DEFINE first == call[q].count = 1 /\ call[q].day = limiter.day
             timed == limiter.expires \/ first
  <1>3. /\ call[q].at = "counted"
        /\ limiter' = [limiter EXCEPT !.expires = timed]
        /\ UNCHANGED <<lead, session, saves, answered, offers, texting, settled, excused>>
    BY DEF LimitCall, Doing, FirstOfKey
  <1>4. \E x \in MessageCallRecord :
          call' = [call EXCEPT ![q] = x] /\ x.at \in {"idle", "asking"} /\ (x.at # "idle" => x.of \in Visit)
    <2>1. CASE call[q].count > HourLimit
      BY <2>1, NoCallIs DEF LimitCall
    <2>2. CASE ~(call[q].count > HourLimit)
      <3>1. MoveOn(q, "asking")
        BY <2>2 DEF LimitCall
      <3>2. call[q].at # "idle"
        BY <1>3
      <3>3. QED
        BY <1>1, <3>1, <3>2, MovedOn
    <2>3. QED
      BY <2>1, <2>2
  <1>5. PICK x \in MessageCallRecord :
          call' = [call EXCEPT ![q] = x] /\ x.at \in {"idle", "asking"} /\ (x.at # "idle" => x.of \in Visit)
    BY <1>4
  <1>6. \A p \in SalesCall : call'[p] = IF p = q THEN x ELSE call[p]
    BY <1>1, <1>5, CallGoesOn
  <1>7. timed \in BOOLEAN
    BY <1>2
  <1>8. /\ limiter' \in [count : Nat, expires : BOOLEAN, day : Nat]
        /\ limiter'.expires = timed /\ limiter'.day = limiter.day /\ limiter'.count = limiter.count
    <2> HIDE DEF timed
    <2>1. QED
      BY <1>2, <1>3, <1>7
  <1>9. LimiterGoesAway'
    <2> SUFFICES ASSUME limiter'.count > 0
                 PROVE  limiter'.expires \/ excused'.limiter
                        \/ \E p \in SalesCall : call'[p].at = "counted" /\ call'[p].count = 1 /\ call'[p].day = limiter'.day
      BY DEF LimiterGoesAway, Doing
    <2>1. limiter.expires \/ excused.limiter
          \/ \E p \in SalesCall : call[p].at = "counted" /\ call[p].count = 1 /\ call[p].day = limiter.day
      BY <1>1, <1>8 DEF LimiterGoesAway, Doing
    <2>2. CASE first
      BY <1>8, <2>2
    <2>3. CASE ~first
      <3>1. limiter.expires => limiter'.expires
        BY <1>8
      <3>2. \A p \in SalesCall : call[p].at = "counted" /\ call[p].count = 1 /\ call[p].day = limiter.day
              => call'[p] = call[p]
        BY <1>6, <2>3
      <3>3. QED
        BY <1>3, <1>8, <2>1, <3>1, <3>2
    <2>4. QED
      BY <2>2, <2>3
  <1>10. QED
    BY <1>2, <1>3, <1>5, <1>8, <1>9, CallOnly

LEMMA CallMovesStep ==
  ASSUME SalesInv, NEW q \in SalesCall,
         (\E plan \in BOOLEAN : SalesAnswer(q, plan)) \/ SalesModelFails(q) \/ CheckLead(q)
  PROVE  SalesInv'
  <1>1. SalesTypes /\ OffersMarked
    BY DEF SalesInv
  <1>2. limiter \in [count : Nat, expires : BOOLEAN, day : Nat] /\ excused \in ExcusedRecord
        /\ call[q] \in MessageCallRecord /\ offers \in [Visit -> Nat]
    BY <1>1 DEF SalesTypes
  <1>3. /\ call[q].at \in {"asking", "answered"}
        /\ UNCHANGED <<limiter, lead, session, saves, answered, offers, texting, settled, excused>>
    BY DEF SalesAnswer, SalesModelFails, CheckLead, Doing
  <1>4. call[q].of \in Visit
    BY <1>1, <1>3 DEF SalesTypes
  <1>5. \E x \in MessageCallRecord :
          /\ call' = [call EXCEPT ![q] = x] /\ (x.at # "idle" => x.of \in Visit)
          /\ x.at = "offering" => ~lead[x.of].offered
    <2>1. ASSUME NEW plan \in BOOLEAN, SalesAnswer(q, plan)
          PROVE  \E x \in MessageCallRecord :
                   /\ call' = [call EXCEPT ![q] = x] /\ (x.at # "idle" => x.of \in Visit)
                   /\ x.at = "offering" => ~lead[x.of].offered
      <3> DEFINE c == call[q]
                 x == [c EXCEPT !.at = "answered", !.plan = plan]
      <3>1. call' = [call EXCEPT ![q] = x]
        BY <2>1 DEF SalesAnswer
      <3>2. c \in MessageCallRecord /\ c.of \in Visit
        BY <1>2, <1>4
      <3> HIDE DEF c
      <3>3. x \in MessageCallRecord /\ x.at = "answered" /\ x.of = c.of
        BY <3>2 DEF MessageCallRecord
      <3> HIDE DEF x
      <3>4. QED
        BY <3>1, <3>2, <3>3
    <2>2. CASE SalesModelFails(q)
      BY <2>2, NoCallIs DEF SalesModelFails
    <2>3. CASE CheckLead(q)
      <3>1. \/ MoveOn(q, "offering") /\ ~lead[call[q].of].offered
            \/ MoveOn(q, "returning")
        BY <2>3 DEF CheckLead, Offerable
      <3>2. call[q].at # "idle"
        BY <1>3
      <3>3. QED
        BY <1>1, <3>1, <3>2, MovedOn
    <2>4. QED
      BY <2>1, <2>2, <2>3
  <1>6. PICK x \in MessageCallRecord :
          /\ call' = [call EXCEPT ![q] = x] /\ (x.at # "idle" => x.of \in Visit)
          /\ x.at = "offering" => ~lead[x.of].offered
    BY <1>5
  <1>7. x.at = "offering" /\ offers[x.of] > 0 => x.missed \/ x.of \in excused.offer
    BY <1>1, <1>6 DEF OffersMarked
  <1>8. LimiterGoesAway'
    <2>1. \A p \in SalesCall : p # q => call'[p] = call[p]
      BY <1>1, <1>6, CallGoesOn
    <2>2. call[q].at # "counted" /\ limiter' = limiter /\ excused'.limiter = excused.limiter
      BY <1>3
    <2>3. QED
      BY <2>1, <2>2, LimiterKept
  <1>9. QED
    BY <1>2, <1>3, <1>6, <1>7, <1>8, CallOnly

LEMMA SalesDiesStep ==
  ASSUME SalesInv, NEW q \in SalesCall, SalesDies(q)
  PROVE  SalesInv'
  <1> DEFINE dying == excused.limiter \/ (Doing(q, "counted") /\ call[q].count = 1 /\ call[q].day = limiter.day)
  <1>1. SalesTypes /\ LimiterGoesAway
    BY DEF SalesInv
  <1>2. limiter \in [count : Nat, expires : BOOLEAN, day : Nat] /\ excused \in ExcusedRecord
    BY <1>1 DEF SalesTypes
  <1>3. /\ call' = [call EXCEPT ![q] = NoSalesCall] /\ excused' = [excused EXCEPT !.limiter = dying]
        /\ UNCHANGED <<limiter, lead, session, saves, answered, offers, texting, settled>>
    BY DEF SalesDies
  <1>4. dying \in BOOLEAN
    BY <1>2 DEF ExcusedRecord
  <1>5. excused' \in ExcusedRecord /\ excused'.offer = excused.offer /\ excused'.history = excused.history
        /\ excused'.status = excused.status /\ excused'.limiter = dying
    <2> HIDE DEF dying
    <2>1. QED
      BY <1>2, <1>3, <1>4 DEF ExcusedRecord
  <1>6. LimiterGoesAway'
    <2>1. \A p \in SalesCall : call'[p] = IF p = q THEN NoSalesCall ELSE call[p]
      BY <1>1, <1>3, NoCallIs, CallGoesOn
    <2> SUFFICES ASSUME limiter'.count > 0
                 PROVE  limiter'.expires \/ excused'.limiter
                        \/ \E p \in SalesCall : call'[p].at = "counted" /\ call'[p].count = 1 /\ call'[p].day = limiter'.day
      BY DEF LimiterGoesAway, Doing
    <2>2. limiter.expires \/ excused.limiter
          \/ \E p \in SalesCall : call[p].at = "counted" /\ call[p].count = 1 /\ call[p].day = limiter.day
      BY <1>1, <1>3 DEF LimiterGoesAway, Doing
    <2>3. CASE dying
      BY <1>5, <2>3
    <2>4. CASE ~dying
      <3>1. ~excused.limiter /\ ~(call[q].at = "counted" /\ call[q].count = 1 /\ call[q].day = limiter.day)
        BY <2>4 DEF Doing
      <3>2. QED
        BY <1>3, <2>1, <2>2, <3>1
    <2>5. QED
      BY <2>3, <2>4
  <1>7. QED
    BY <1>2, <1>3, <1>5, <1>6, NoCallIs, CallOnly

LEMMA LimiterGoes ==
  ASSUME SalesInv, LimiterExpires \/ SalesMidnight
  PROVE  SalesInv'
  <1>1. SalesTypes
    BY DEF SalesInv
  <1>2. limiter \in [count : Nat, expires : BOOLEAN, day : Nat] /\ excused \in ExcusedRecord
    BY <1>1 DEF SalesTypes
  <1>3. UNCHANGED <<lead, session, call, saves, answered, offers, texting, settled>>
    BY DEF LimiterExpires, SalesMidnight
  <1>4. limiter' \in [count : Nat, expires : BOOLEAN, day : Nat] /\ limiter'.count = 0
    <2>1. CASE LimiterExpires
      <3>1. limiter' = [limiter EXCEPT !.count = 0, !.expires = FALSE]
        BY <2>1 DEF LimiterExpires
      <3>2. QED
        BY <1>2, <3>1
    <2>2. CASE SalesMidnight
      <3>1. limiter' = [FreshLimiter EXCEPT !.day = limiter.day + 1]
        BY <2>2 DEF SalesMidnight
      <3>2. ASSUME NEW n \in Nat, NEW l, l = [FreshLimiter EXCEPT !.day = n]
            PROVE  l \in [count : Nat, expires : BOOLEAN, day : Nat] /\ l.count = 0
        BY <3>2 DEF FreshLimiter
      <3>3. limiter.day + 1 \in Nat
        BY <1>2
      <3>4. QED
        BY <3>1, <3>2, <3>3
    <2>3. QED
      BY <2>1, <2>2
  <1>5. excused' \in ExcusedRecord /\ excused'.offer = excused.offer /\ excused'.history = excused.history
        /\ excused'.status = excused.status
    BY <1>2 DEF ExcusedRecord, LimiterExpires, SalesMidnight
  <1>6. SalesTypes'
    BY <1>1, <1>3, <1>4, <1>5 DEF SalesTypes
  <1>7. LimiterGoesAway'
    BY <1>4 DEF LimiterGoesAway
  <1>8. OffersMarked' /\ OfferedOnceUnlessTogether'
    BY <1>3, <1>5 DEF SalesInv, OffersMarked, OfferedOnceUnlessTogether
  <1>9. SavesFollowAnswers' /\ LastIsSaved' /\ TextsAreFresh' /\ FollowUpsKept'
    BY <1>3, <1>5 DEF SalesInv, SavesFollowAnswers, LastIsSaved, TextsAreFresh, FollowUpsKept
  <1>10. QED
    BY <1>6, <1>7, <1>8, <1>9 DEF SalesInv

LEMMA OfferDiscountStep ==
  ASSUME SalesInv, NEW q \in SalesCall, OfferDiscount(q)
  PROVE  SalesInv'
  <1> DEFINE s == call[q].of
             mine == [call[q] EXCEPT !.at = "returning"]
             told(p) == [call[p] EXCEPT !.missed = TRUE]
  <1>1. SalesTypes /\ OffersMarked /\ OfferedOnceUnlessTogether
    BY DEF SalesInv
  <1>2. /\ lead \in [Visit -> LeadRecord] /\ call \in [SalesCall -> MessageCallRecord] /\ excused \in ExcusedRecord
        /\ offers \in [Visit -> Nat] /\ call[q] \in MessageCallRecord
    BY <1>1 DEF SalesTypes
  <1>3. /\ call[q].at = "offering"
        /\ lead' = [lead EXCEPT ![s].offered = TRUE]
        /\ offers' = [offers EXCEPT ![s] = offers[s] + 1]
        /\ excused' = IF call[q].missed THEN [excused EXCEPT !.offer = excused.offer \cup {s}] ELSE excused
        /\ call' = [p \in SalesCall |->
                      IF p = q THEN mine
                      ELSE IF call[p].of = s /\ call[p].at = "offering" THEN told(p) ELSE call[p]]
        /\ UNCHANGED <<limiter, session, saves, answered, texting, settled>>
    BY DEF OfferDiscount, Doing
  <1>4. s \in Visit
    BY <1>1, <1>3 DEF SalesTypes
  <1>5. mine \in MessageCallRecord /\ mine.at = "returning" /\ mine.of = s
    BY <1>2 DEF MessageCallRecord
  <1>6. \A p \in SalesCall : told(p) \in MessageCallRecord /\ told(p).at = call[p].at /\ told(p).of = call[p].of
                             /\ told(p).missed
    <2> SUFFICES ASSUME NEW p \in SalesCall
                 PROVE  told(p) \in MessageCallRecord /\ told(p).at = call[p].at /\ told(p).of = call[p].of /\ told(p).missed
      OBVIOUS
    <2>1. call[p] \in MessageCallRecord
      BY <1>2
    <2>2. QED
      BY <2>1 DEF MessageCallRecord
  <1> HIDE DEF mine, told
  <1>7. \A p \in SalesCall :
          call'[p] = IF p = q THEN mine
                     ELSE IF call[p].of = s /\ call[p].at = "offering" THEN told(p) ELSE call[p]
    BY <1>3
  <1> HIDE DEF s
  <1>8. call' \in [SalesCall -> MessageCallRecord] /\ \A p \in SalesCall : call'[p].at # "idle" => call'[p].of \in Visit
    <2>1. \A p \in SalesCall : call'[p] \in MessageCallRecord /\ (call'[p].at # "idle" => call'[p].of \in Visit)
      BY <1>1, <1>2, <1>4, <1>5, <1>6, <1>7 DEF SalesTypes
    <2>2. QED
      BY <1>3, <2>1
  <1>9. /\ lead' \in [Visit -> LeadRecord] /\ lead'[s].offered
        /\ \A v \in Visit : lead'[v].status = lead[v].status /\ (v # s => lead'[v] = lead[v])
    <2> DEFINE l == [lead[s] EXCEPT !.offered = TRUE]
    <2>1. l \in LeadRecord /\ l.offered /\ l.status = lead[s].status
      BY <1>2, <1>4 DEF LeadRecord
    <2>2. lead' = [lead EXCEPT ![s] = l]
      BY <1>3
    <2> HIDE DEF l
    <2>3. QED
      BY <1>2, <1>4, <2>1, <2>2
  <1>10. /\ offers' \in [Visit -> Nat] /\ offers'[s] = offers[s] + 1
         /\ \A v \in Visit : v # s => offers'[v] = offers[v]
    BY <1>2, <1>3, <1>4
  <1>11. /\ excused' \in ExcusedRecord /\ excused'.limiter = excused.limiter
         /\ excused'.history = excused.history /\ excused'.status = excused.status
         /\ excused.offer \subseteq excused'.offer /\ (call[q].missed => s \in excused'.offer)
    BY <1>2, <1>3, <1>4 DEF ExcusedRecord
  <1>12. SalesTypes'
    BY <1>1, <1>3, <1>8, <1>9, <1>10, <1>11 DEF SalesTypes
  <1>13. LimiterGoesAway'
    <2>1. LimiterGoesAway
      BY DEF SalesInv
    <2>2. \A p \in SalesCall : call[p].at = "counted" => call'[p] = call[p]
      BY <1>3, <1>7
    <2>3. limiter' = limiter /\ excused'.limiter = excused.limiter
      BY <1>3, <1>11
    <2>4. QED
      BY <2>1, <2>2, <2>3 DEF LimiterGoesAway, Doing
  <1>14. OffersMarked'
    <2>1. \A v \in Visit : offers'[v] > 0 => lead'[v].offered \/ v \in excused'.offer
      BY <1>1, <1>9, <1>10, <1>11 DEF OffersMarked
    <2>2. \A p \in SalesCall :
            call'[p].at = "offering" /\ offers'[call'[p].of] > 0 =>
              call'[p].missed \/ call'[p].of \in excused'.offer
      <3> SUFFICES ASSUME NEW p \in SalesCall, call'[p].at = "offering", offers'[call'[p].of] > 0
                   PROVE  call'[p].missed \/ call'[p].of \in excused'.offer
        OBVIOUS
      <3>1. p # q
        BY <1>5, <1>7
      <3>2. CASE call[p].of = s /\ call[p].at = "offering"
        BY <1>6, <1>7, <3>1, <3>2
      <3>3. CASE ~(call[p].of = s /\ call[p].at = "offering")
        <4>1. call'[p] = call[p]
          BY <1>7, <3>1, <3>3
        <4>2. call[p].of \in Visit /\ call[p].of # s
          BY <1>1, <3>3, <4>1 DEF SalesTypes
        <4>3. QED
          BY <1>1, <1>10, <1>11, <4>1, <4>2 DEF OffersMarked
      <3>4. QED
        BY <3>2, <3>3
    <2>3. QED
      BY <2>1, <2>2 DEF OffersMarked
  <1>15. OfferedOnceUnlessTogether'
    <2> SUFFICES ASSUME NEW v \in Visit, offers'[v] > 1 PROVE v \in excused'.offer
      BY DEF OfferedOnceUnlessTogether
    <2>1. CASE v # s
      BY <1>1, <1>10, <1>11, <2>1 DEF OfferedOnceUnlessTogether
    <2>2. CASE v = s
      <3>1. offers[s] > 0
        <4>1. offers[s] \in Nat /\ offers'[s] = offers[s] + 1 /\ offers'[s] > 1
          BY <1>2, <1>4, <1>10, <2>2
        <4>2. QED
          BY <4>1
      <3>2. call[q].missed \/ s \in excused.offer
        BY <1>1, <1>3, <3>1 DEF OffersMarked, s
      <3>3. QED
        BY <1>11, <2>2, <3>2
    <2>3. QED
      BY <2>1, <2>2
  <1>16. SavesFollowAnswers' /\ LastIsSaved'
    BY <1>3, <1>11 DEF SalesInv, SavesFollowAnswers, LastIsSaved
  <1>17. TextsAreFresh' /\ FollowUpsKept'
    BY <1>3, <1>9, <1>11 DEF SalesInv, TextsAreFresh, FollowUpsKept
  <1>18. QED
    BY <1>12, <1>13, <1>14, <1>15, <1>16, <1>17 DEF SalesInv

LEMMA ReturnAnswerStep ==
  ASSUME SalesInv, NEW q \in SalesCall, ReturnAnswer(q)
  PROVE  SalesInv'
  <1> DEFINE s == call[q].of
             length == call[q].length + 1
             before == answered[s]
             w == [of |-> s, nth |-> Len(before) + 1, length |-> length]
  <1>1. SalesTypes /\ OffersMarked
    BY DEF SalesInv
  <1>2. /\ call[q] \in MessageCallRecord /\ saves \subseteq SaveRecord /\ answered \in [Visit -> Seq(Nat)]
    BY <1>1 DEF SalesTypes
  <1>3. /\ call[q].at = "returning"
        /\ answered' = [answered EXCEPT ![s] = Append(before, length)]
        /\ saves' = saves \cup {w} /\ call' = [call EXCEPT ![q] = NoSalesCall]
        /\ UNCHANGED <<limiter, lead, session, offers, texting, settled, excused>>
    BY DEF ReturnAnswer, Doing
  <1>4. s \in Visit
    BY <1>1, <1>3 DEF SalesTypes
  <1>5. length \in Nat
    BY <1>2 DEF MessageCallRecord
  <1> HIDE DEF length
  <1>6. before \in Seq(Nat)
    BY <1>2, <1>4
  <1> HIDE DEF before
  <1> DEFINE after == Append(before, length)
  <1>7. /\ after \in Seq(Nat) /\ Len(after) = Len(before) + 1 /\ Len(before) \in Nat
        /\ after[Len(before) + 1] = length /\ \A i \in 1..Len(before) : after[i] = before[i]
    BY <1>5, <1>6
  <1> HIDE DEF after
  <1>8. w \in SaveRecord /\ w.of = s /\ w.nth = Len(before) + 1 /\ w.length = length
    BY <1>4, <1>5, <1>7 DEF SaveRecord
  <1> HIDE DEF w, s
  <1>9. /\ answered' \in [Visit -> Seq(Nat)]
        /\ \A v \in Visit : answered'[v] = IF v = s THEN after ELSE answered[v]
    BY <1>2, <1>3, <1>4, <1>7 DEF after
  <1>10. /\ call' \in [SalesCall -> MessageCallRecord]
         /\ \A p \in SalesCall : call'[p] = IF p = q THEN NoSalesCall ELSE call[p]
         /\ \A p \in SalesCall : call'[p].at # "idle" => call'[p].of \in Visit
    BY <1>1, <1>3, NoCallIs, CallGoesOn
  <1>11. SalesTypes'
    BY <1>1, <1>2, <1>3, <1>8, <1>9, <1>10 DEF SalesTypes
  <1>12. LimiterGoesAway'
    BY <1>3, <1>10, LimiterKept
  <1>13. OffersMarked'
    <2>1. \A v \in Visit : offers'[v] > 0 => lead'[v].offered \/ v \in excused'.offer
      BY <1>1, <1>3 DEF OffersMarked
    <2>2. \A p \in SalesCall :
            call'[p].at = "offering" /\ offers'[call'[p].of] > 0 =>
              call'[p].missed \/ call'[p].of \in excused'.offer
      BY <1>1, <1>3, <1>10, NoCallIs DEF OffersMarked
    <2>3. QED
      BY <2>1, <2>2 DEF OffersMarked
  <1>14. OfferedOnceUnlessTogether'
    BY <1>3 DEF SalesInv, OfferedOnceUnlessTogether
  <1>15. SavesFollowAnswers'
    <2> SUFFICES ASSUME NEW z \in saves'
                 PROVE  z.nth \in 1..Len(answered'[z.of]) /\ z.length = answered'[z.of][z.nth]
      BY DEF SavesFollowAnswers
    <2>1. CASE z = w
      <3>1. answered'[s] = after
        BY <1>4, <1>9
      <3>2. Len(before) + 1 \in 1..Len(after)
        BY <1>7
      <3>3. QED
        BY <1>7, <1>8, <2>1, <3>1, <3>2
    <2>2. CASE z \in saves
      <3>1. z.of \in Visit /\ z.nth \in 1..Len(answered[z.of]) /\ z.length = answered[z.of][z.nth]
        BY <1>2, <2>2 DEF SalesInv, SavesFollowAnswers, SaveRecord
      <3>2. CASE z.of = s
        <4>1. answered[z.of] = before /\ answered'[z.of] = after
          BY <1>4, <1>9, <3>2 DEF before
        <4>2. z.nth \in 1..Len(before) /\ z.length = before[z.nth]
          BY <3>1, <4>1
        <4>3. z.nth \in 1..Len(after)
          BY <1>7, <4>2
        <4>4. QED
          BY <1>7, <4>1, <4>2, <4>3
      <3>3. CASE z.of # s
        BY <1>9, <3>1, <3>3
      <3>4. QED
        BY <3>2, <3>3
    <2>3. QED
      BY <1>3, <2>1, <2>2
  <1>16. LastIsSaved'
    <2> SUFFICES ASSUME NEW v \in Visit, answered'[v] # <<>>
                 PROVE  \/ session'[v] = answered'[v][Len(answered'[v])] \/ v \in excused'.history
                        \/ \E z \in saves' : z.of = v /\ z.nth = Len(answered'[v])
      BY DEF LastIsSaved
    <2>1. CASE v = s
      <3>1. answered'[v] = after
        BY <1>9, <2>1
      <3>2. w \in saves' /\ w.of = v /\ w.nth = Len(answered'[v])
        BY <1>3, <1>7, <1>8, <2>1, <3>1
      <3>3. QED
        BY <3>2
    <2>2. CASE v # s
      <3>1. answered'[v] = answered[v]
        BY <1>9, <2>2
      <3>2. LastIsSaved
        BY DEF SalesInv
      <3>3. QED
        BY <1>3, <3>1, <3>2 DEF LastIsSaved
    <2>3. QED
      BY <2>1, <2>2
  <1>17. TextsAreFresh' /\ FollowUpsKept'
    BY <1>3 DEF SalesInv, TextsAreFresh, FollowUpsKept
  <1>18. QED
    BY <1>11, <1>12, <1>13, <1>14, <1>15, <1>16, <1>17 DEF SalesInv

\* The history is written, or its loss goes on record.
LEMMA SaveSessionStep ==
  ASSUME SalesInv, NEW w \in saves, SaveSession(w) \/ SaveSessionFails(w)
  PROVE  SalesInv'
  <1>1. SalesTypes /\ SavesFollowAnswers /\ LastIsSaved
    BY DEF SalesInv
  <1>2. /\ saves \subseteq SaveRecord /\ answered \in [Visit -> Seq(Nat)] /\ session \in [Visit -> Nat]
        /\ excused \in ExcusedRecord
    BY <1>1 DEF SalesTypes
  <1>3. /\ saves' = saves \ {w}
        /\ UNCHANGED <<limiter, lead, call, answered, offers, texting, settled>>
    BY DEF SaveSession, SaveSessionFails
  <1>4. w.of \in Visit /\ w.length \in Nat /\ w.length = answered[w.of][w.nth]
    BY <1>1, <1>2 DEF SavesFollowAnswers, SaveRecord
  <1> DEFINE last == w.nth = Len(answered[w.of])
  <1>5. /\ session' \in [Visit -> Nat] /\ \A s \in Visit : s # w.of => session'[s] = session[s]
    BY <1>2, <1>4 DEF SaveSession, SaveSessionFails, Overwritten
  <1>6. /\ excused' \in ExcusedRecord /\ excused'.limiter = excused.limiter
        /\ excused'.offer = excused.offer /\ excused'.status = excused.status
        /\ \A s \in Visit : s # w.of /\ s \in excused.history => s \in excused'.history
    <2>1. ASSUME NEW h \in SUBSET Visit, excused' = [excused EXCEPT !.history = h],
                 excused.history \ {w.of} \subseteq h
          PROVE  /\ excused' \in ExcusedRecord /\ excused'.limiter = excused.limiter
                 /\ excused'.offer = excused.offer /\ excused'.status = excused.status
                 /\ \A s \in Visit : s # w.of /\ s \in excused.history => s \in excused'.history
      BY <1>2, <2>1 DEF ExcusedRecord
    <2>2. excused.history \in SUBSET Visit
      BY <1>2 DEF ExcusedRecord
    <2>3. \/ excused' = [excused EXCEPT !.history = excused.history \ {w.of}]
          \/ excused' = [excused EXCEPT !.history = excused.history \cup {w.of}]
      BY DEF SaveSession, SaveSessionFails
    <2>4. /\ excused.history \ {w.of} \in SUBSET Visit /\ excused.history \cup {w.of} \in SUBSET Visit
          /\ excused.history \ {w.of} \subseteq excused.history \cup {w.of}
      BY <1>4, <2>2
    <2>5. CASE excused' = [excused EXCEPT !.history = excused.history \ {w.of}]
      BY <2>1, <2>4, <2>5
    <2>6. CASE excused' = [excused EXCEPT !.history = excused.history \cup {w.of}]
      BY <2>1, <2>4, <2>6
    <2>7. QED
      BY <2>3, <2>5, <2>6
  <1>7. w.of \in excused'.history \/ (last /\ session'[w.of] = w.length)
    <2>1. CASE SaveSession(w)
      <3>1. session' = [session EXCEPT ![w.of] = w.length]
        BY <2>1 DEF SaveSession, Overwritten
      <3>2. last \/ excused' = [excused EXCEPT !.history = excused.history \cup {w.of}]
        BY <2>1 DEF SaveSession
      <3>3. session'[w.of] = w.length
        BY <1>2, <1>4, <3>1
      <3>4. excused' = [excused EXCEPT !.history = excused.history \cup {w.of}] => w.of \in excused'.history
        BY <1>2 DEF ExcusedRecord
      <3>5. QED
        BY <3>2, <3>3, <3>4
    <2>2. CASE SaveSessionFails(w)
      BY <1>2, <2>2 DEF SaveSessionFails, ExcusedRecord
    <2>3. QED
      BY <2>1, <2>2
  <1>8. SalesTypes'
    BY <1>1, <1>3, <1>5, <1>6 DEF SalesTypes
  <1>9. LimiterGoesAway'
    BY <1>3, <1>6 DEF SalesInv, LimiterGoesAway, Doing
  <1>10. OffersMarked' /\ OfferedOnceUnlessTogether'
    BY <1>3, <1>6 DEF SalesInv, OffersMarked, OfferedOnceUnlessTogether
  <1>11. SavesFollowAnswers'
    BY <1>1, <1>3 DEF SavesFollowAnswers
  <1>12. LastIsSaved'
    <2> SUFFICES ASSUME NEW s \in Visit, answered'[s] # <<>>
                 PROVE  \/ session'[s] = answered'[s][Len(answered'[s])] \/ s \in excused'.history
                        \/ \E z \in saves' : z.of = s /\ z.nth = Len(answered'[s])
      BY DEF LastIsSaved
    <2>1. CASE s = w.of
      BY <1>3, <1>4, <1>7, <2>1
    <2>2. CASE s # w.of
      <3>1. session[s] = answered[s][Len(answered[s])] \/ s \in excused.history
            \/ \E z \in saves : z.of = s /\ z.nth = Len(answered[s])
        BY <1>1, <1>3 DEF LastIsSaved
      <3>2. QED
        BY <1>3, <1>5, <1>6, <2>2, <3>1
    <2>3. QED
      BY <2>1, <2>2
  <1>13. TextsAreFresh' /\ FollowUpsKept'
    BY <1>3, <1>6 DEF SalesInv, TextsAreFresh, FollowUpsKept
  <1>14. QED
    BY <1>8, <1>9, <1>10, <1>11, <1>12, <1>13 DEF SalesInv

\* A step of the back office or of the lead form.
LEMMA LeadOnly ==
  ASSUME SalesInv, UNCHANGED <<limiter, session, call, saves, answered, offers>>,
         lead' \in [Visit -> LeadRecord], texting' \in [Visit -> Follow \cup {NoText}],
         settled' \in [Visit -> Follow], excused' \in ExcusedRecord,
         excused'.limiter = excused.limiter, excused'.history = excused.history,
         excused.offer \subseteq excused'.offer,
         \A s \in Visit : lead[s].offered => lead'[s].offered \/ s \in excused'.offer,
         TextsAreFresh', FollowUpsKept'
  PROVE  SalesInv'
  <1>1. SalesTypes'
    BY DEF SalesInv, SalesTypes
  <1>2. LimiterGoesAway'
    BY DEF SalesInv, LimiterGoesAway, Doing
  <1>3. OffersMarked'
    <2>1. \A s \in Visit : offers'[s] > 0 => lead'[s].offered \/ s \in excused'.offer
      BY DEF SalesInv, OffersMarked
    <2>2. \A q \in SalesCall :
            call'[q].at = "offering" /\ offers'[call'[q].of] > 0 =>
              call'[q].missed \/ call'[q].of \in excused'.offer
      BY DEF SalesInv, OffersMarked
    <2>3. QED
      BY <2>1, <2>2 DEF OffersMarked
  <1>4. OfferedOnceUnlessTogether'
    BY DEF SalesInv, OfferedOnceUnlessTogether
  <1>5. SavesFollowAnswers' /\ LastIsSaved'
    BY DEF SalesInv, SavesFollowAnswers, LastIsSaved
  <1>6. QED
    BY <1>1, <1>2, <1>3, <1>4, <1>5 DEF SalesInv

LEMMA LeadTypes ==
  ASSUME SalesInv
  PROVE  /\ lead \in [Visit -> LeadRecord] /\ texting \in [Visit -> Follow \cup {NoText}]
         /\ settled \in [Visit -> Follow] /\ excused \in ExcusedRecord
         /\ TextsAreFresh /\ FollowUpsKept /\ NoText \notin Follow
         /\ \A s \in Visit : lead[s] \in LeadRecord /\ texting[s] \in Follow \cup {NoText} /\ settled[s] \in Follow
  BY DEF SalesInv, SalesTypes, NoText, Follow

LEMMA SaveLeadStep ==
  ASSUME SalesInv, NEW s \in Visit, NEW phone \in BOOLEAN, NEW asked \in Requests, SaveLead(s, phone, asked)
  PROVE  SalesInv'
  <1> DEFINE row == lead[s]
             says == IF asked = "unsaid" THEN row.offered ELSE asked = "yes"
             has == row.phone \/ phone
             l == [row EXCEPT !.phone = has, !.offered = says]
  <1>1. /\ lead' = [lead EXCEPT ![s] = l]
        /\ excused' = IF asked = "no" THEN [excused EXCEPT !.offer = excused.offer \cup {s}] ELSE excused
        /\ UNCHANGED <<limiter, session, call, saves, answered, offers, texting, settled>>
    BY LeadTypes DEF SaveLead
  <1>2. row \in LeadRecord
    BY LeadTypes
  <1> HIDE DEF row
  <1>3. has \in BOOLEAN /\ says \in BOOLEAN
    BY <1>2 DEF LeadRecord
  <1>4. row.offered /\ asked # "no" => says
    BY DEF Requests
  <1> HIDE DEF says, has
  <1>5. l \in LeadRecord /\ l.offered = says /\ l.status = row.status
    BY <1>2, <1>3 DEF LeadRecord
  <1> HIDE DEF l
  <1>6. /\ lead' \in [Visit -> LeadRecord]
        /\ \A v \in Visit : lead'[v] = IF v = s THEN l ELSE lead[v]
    BY <1>1, <1>5, LeadTypes
  <1>7. /\ excused' \in ExcusedRecord /\ excused'.limiter = excused.limiter
        /\ excused'.history = excused.history /\ excused'.status = excused.status
        /\ excused.offer \subseteq excused'.offer /\ (asked = "no" => s \in excused'.offer)
    BY <1>1, LeadTypes DEF ExcusedRecord
  <1>8. \A v \in Visit : lead'[v].status = lead[v].status
    BY <1>5, <1>6 DEF row
  <1>9. \A v \in Visit : lead[v].offered => lead'[v].offered \/ v \in excused'.offer
    BY <1>4, <1>5, <1>6, <1>7 DEF row
  <1>10. TextsAreFresh' /\ FollowUpsKept'
    BY <1>1, <1>7, <1>8, LeadTypes DEF TextsAreFresh, FollowUpsKept
  <1>11. QED
    BY <1>1, <1>6, <1>7, <1>9, <1>10, LeadTypes, LeadOnly

LEMMA StatusSet ==
  ASSUME SalesInv, NEW s \in Visit, NEW status \in Follow, lead' = [lead EXCEPT ![s].status = status]
  PROVE  /\ lead' \in [Visit -> LeadRecord] /\ \A v \in Visit : lead'[v].offered = lead[v].offered
         /\ \A v \in Visit : lead'[v].status = IF v = s THEN status ELSE lead[v].status
  <1> DEFINE row == lead[s]
             l == [row EXCEPT !.status = status]
  <1>1. lead' = [lead EXCEPT ![s] = l] /\ row \in LeadRecord /\ lead \in [Visit -> LeadRecord]
    BY LeadTypes
  <1> HIDE DEF row
  <1>2. l \in LeadRecord /\ l.status = status /\ l.offered = row.offered
    BY <1>1 DEF LeadRecord
  <1> HIDE DEF l
  <1>3. QED
    BY <1>1, <1>2 DEF row

LEMMA SetFollowUpStep ==
  ASSUME SalesInv, NEW s \in Visit, NEW status \in Follow, SetFollowUp(s, status)
  PROVE  SalesInv'
  <1>1. /\ lead' = [lead EXCEPT ![s].status = status] /\ settled' = [settled EXCEPT ![s] = status]
        /\ excused' = [excused EXCEPT !.status = IF texting[s] # NoText THEN excused.status \cup {s}
                                                 ELSE excused.status \ {s}]
        /\ UNCHANGED <<limiter, session, call, saves, answered, offers, texting>>
    BY DEF SetFollowUp
  <1>2. /\ lead' \in [Visit -> LeadRecord] /\ \A v \in Visit : lead'[v].offered = lead[v].offered
        /\ \A v \in Visit : lead'[v].status = IF v = s THEN status ELSE lead[v].status
    BY <1>1, StatusSet
  <1>3. /\ settled' \in [Visit -> Follow] /\ \A v \in Visit : settled'[v] = IF v = s THEN status ELSE settled[v]
    BY <1>1, LeadTypes
  <1>4. /\ excused' \in ExcusedRecord /\ excused'.limiter = excused.limiter
        /\ excused'.history = excused.history /\ excused'.offer = excused.offer
        /\ (texting[s] # NoText => s \in excused'.status)
        /\ \A v \in Visit : v # s => (v \in excused'.status <=> v \in excused.status)
    BY <1>1, LeadTypes DEF ExcusedRecord
  <1>5. TextsAreFresh'
    <2> SUFFICES ASSUME NEW v \in Visit, texting'[v] # NoText
                 PROVE  texting'[v] = lead'[v].status \/ v \in excused'.status
      BY DEF TextsAreFresh
    <2>1. CASE v = s
      BY <1>1, <1>4, <2>1
    <2>2. CASE v # s
      BY <1>1, <1>2, <1>4, <2>2, LeadTypes DEF TextsAreFresh
    <2>3. QED
      BY <2>1, <2>2
  <1>6. FollowUpsKept'
    <2> SUFFICES ASSUME NEW v \in Visit
                 PROVE  \/ lead'[v].status = settled'[v] \/ v \in excused'.status
                        \/ settled'[v] = "NEW" /\ lead'[v].status = "CONTACTED"
      BY DEF FollowUpsKept
    <2>1. CASE v = s
      BY <1>2, <1>3, <2>1
    <2>2. CASE v # s
      BY <1>2, <1>3, <1>4, <2>2, LeadTypes DEF FollowUpsKept
    <2>3. QED
      BY <2>1, <2>2
  <1>7. \A v \in Visit : lead[v].offered => lead'[v].offered \/ v \in excused'.offer
    BY <1>2
  <1>8. texting' \in [Visit -> Follow \cup {NoText}] /\ excused.offer \subseteq excused'.offer
    BY <1>1, <1>4, LeadTypes
  <1>9. QED
    BY <1>1, <1>2, <1>3, <1>4, <1>5, <1>6, <1>7, <1>8, LeadOnly

\* A text that begins, is sent or fails.
LEMMA TextStep ==
  ASSUME SalesInv, NEW s \in Visit, TextLead(s) \/ TextSent(s) \/ TextFails(s)
  PROVE  SalesInv'
  <1>1. UNCHANGED <<limiter, session, call, saves, answered, offers, settled, excused>>
    BY DEF TextLead, TextSent, TextFails
  <1>2. /\ texting' \in [Visit -> Follow \cup {NoText}]
        /\ \A v \in Visit : v # s => texting'[v] = texting[v]
        /\ texting'[s] = NoText \/ (texting'[s] = lead[s].status /\ lead' = lead)
    <2>1. lead[s].status \in Follow /\ NoText \in Follow \cup {NoText}
      BY LeadTypes DEF LeadRecord
    <2>2. \/ texting' = [texting EXCEPT ![s] = lead[s].status] /\ lead' = lead
          \/ texting' = [texting EXCEPT ![s] = NoText]
      BY DEF TextLead, TextSent, TextFails
    <2>3. QED
      BY <2>1, <2>2, LeadTypes
  <1>3. /\ lead' \in [Visit -> LeadRecord] /\ \A v \in Visit : lead'[v].offered = lead[v].offered
        /\ \A v \in Visit : v # s => lead'[v].status = lead[v].status
        /\ \/ lead'[s].status = lead[s].status
           \/ texting[s] \in Follow /\ lead'[s].status = Contacted(texting[s])
    <2>1. CASE lead' = lead
      BY <2>1, LeadTypes
    <2>2. CASE TextSent(s)
      <3>1. texting[s] \in Follow
        BY <2>2, LeadTypes DEF TextSent
      <3>2. Contacted(texting[s]) \in Follow
        BY <3>1 DEF Contacted, Follow
      <3>3. lead' = [lead EXCEPT ![s].status = Contacted(texting[s])]
        BY <2>2 DEF TextSent
      <3> DEFINE st == Contacted(texting[s])
      <3>4. st \in Follow /\ lead' = [lead EXCEPT ![s].status = st]
        BY <3>2, <3>3
      <3> HIDE DEF st
      <3>5. /\ lead' \in [Visit -> LeadRecord] /\ \A v \in Visit : lead'[v].offered = lead[v].offered
            /\ \A v \in Visit : lead'[v].status = IF v = s THEN st ELSE lead[v].status
        BY <3>4, StatusSet
      <3>6. QED
        BY <3>1, <3>5 DEF st
    <2>3. QED
      BY <2>1, <2>2 DEF TextLead, TextFails
  <1>4. TextsAreFresh'
    BY <1>1, <1>2, <1>3, LeadTypes DEF TextsAreFresh
  <1>5. FollowUpsKept'
    <2> SUFFICES ASSUME NEW v \in Visit
                 PROVE  \/ lead'[v].status = settled[v] \/ v \in excused.status
                        \/ settled[v] = "NEW" /\ lead'[v].status = "CONTACTED"
      BY <1>1 DEF FollowUpsKept
    <2>1. \/ lead[v].status = settled[v] \/ v \in excused.status
          \/ settled[v] = "NEW" /\ lead[v].status = "CONTACTED"
      BY LeadTypes DEF FollowUpsKept
    <2>2. CASE lead'[v].status = lead[v].status
      BY <2>1, <2>2
    <2>3. CASE v = s /\ texting[s] \in Follow /\ lead'[s].status = Contacted(texting[s])
      <3>1. texting[s] # NoText
        BY <2>3, LeadTypes
      <3>2. texting[s] = lead[s].status \/ s \in excused.status
        BY <3>1, LeadTypes DEF TextsAreFresh
      <3>3. QED
        BY <2>1, <2>3, <3>2 DEF Contacted
    <2>4. QED
      BY <1>3, <2>2, <2>3
  <1>6. /\ excused' \in ExcusedRecord /\ settled' \in [Visit -> Follow] /\ excused.offer \subseteq excused'.offer
        /\ excused'.limiter = excused.limiter /\ excused'.history = excused.history
        /\ \A v \in Visit : lead[v].offered => lead'[v].offered \/ v \in excused'.offer
    BY <1>1, <1>3, LeadTypes
  <1>7. QED
    BY <1>1, <1>2, <1>3, <1>4, <1>5, <1>6, LeadOnly

LEMMA NextSales == SalesInv /\ [SalesNext]_salesVars => SalesInv'
  <1> SUFFICES ASSUME SalesInv, [SalesNext]_salesVars PROVE SalesInv'
    OBVIOUS
  <1>1. ASSUME NEW q \in SalesCall, NEW s \in Visit, NEW n \in Lengths, CountCall(q, s, n) PROVE SalesInv'
    BY <1>1, CountCallStep
  <1>2. ASSUME NEW q \in SalesCall,
               \/ LimitCall(q) \/ SalesModelFails(q) \/ CheckLead(q) \/ OfferDiscount(q) \/ ReturnAnswer(q)
               \/ SalesDies(q) \/ \E plan \in BOOLEAN : SalesAnswer(q, plan)
        PROVE  SalesInv'
    BY <1>2, LimitCallStep, CallMovesStep, OfferDiscountStep, ReturnAnswerStep, SalesDiesStep
  <1>3. ASSUME NEW w \in saves, SaveSession(w) \/ SaveSessionFails(w) PROVE SalesInv'
    BY <1>3, SaveSessionStep
  <1>4. ASSUME NEW s \in Visit, NEW phone \in BOOLEAN, NEW asked \in Requests, SaveLead(s, phone, asked)
        PROVE  SalesInv'
    BY <1>4, SaveLeadStep
  <1>5. ASSUME NEW s \in Visit, NEW status \in Follow, SetFollowUp(s, status) PROVE SalesInv'
    BY <1>5, SetFollowUpStep
  <1>6. ASSUME NEW s \in Visit, TextLead(s) \/ TextSent(s) \/ TextFails(s) PROVE SalesInv'
    BY <1>6, TextStep
  <1>7. CASE LimiterExpires \/ SalesMidnight
    BY <1>7, LimiterGoes
  <1>8. CASE UNCHANGED salesVars
    BY <1>8 DEF salesVars, SalesInv, SalesTypes, LimiterGoesAway, Doing, OffersMarked,
       OfferedOnceUnlessTogether, SavesFollowAnswers, LastIsSaved, TextsAreFresh, FollowUpsKept
  <1>9. QED
    BY <1>1, <1>2, <1>3, <1>4, <1>5, <1>6, <1>7, <1>8 DEF SalesNext

LEMMA SalesKeepsUp ==
  SalesInv => LimiterGoesAway /\ OfferedOnceUnlessTogether /\ HistoryIsLatest /\ FollowUpsKept
  <1> SUFFICES ASSUME SalesInv PROVE HistoryIsLatest
    BY DEF SalesInv
  <1>1. LastIsSaved
    BY DEF SalesInv
  <1>2. QED
    BY <1>1 DEF LastIsSaved, HistoryIsLatest

-----------------------------------------------------------------------------
(* Its knowledge base *)

LEMMA KbStep == [PlatformNext]_platformVars => [SalesKbNext]_kbVars
  BY DEF PlatformNext, platformVars

KbText == Question \cup {"none", "gone"}
KbModel == Embedder \cup {NoModel, CHOOSE m \in Embedder : TRUE}
VectorRecord == [of : KbText, model : KbModel]
EntryRecord == [text : KbText, active : BOOLEAN, vector : VectorRecord]
ShelfRecord == [text : KbText, vector : VectorRecord]
CuratorRecord ==
  [at : {"idle", "import", "insert", "edit", "save", "drop"}, todo : SUBSET Entry, text : KbText,
   vector : VectorRecord, model : KbModel]
RecomputeRecord ==
  [at : {"idle", "next", "write"}, todo : SUBSET Entry, was : [Entry -> KbText], model : KbModel,
   vector : VectorRecord, failed : BOOLEAN]
RetrieverRecord ==
  [at : {"idle", "reading", "filling", "embedding", "compared"}, model : KbModel,
   rows : SUBSET ShelfRecord, query : KbModel, crossed : BOOLEAN]

KbTypes ==
  /\ entry \in [Entry -> EntryRecord] /\ inUse \in KbModel /\ known \in KbModel
  /\ shelf \in [held : BOOLEAN, rows : SUBSET ShelfRecord]
  /\ curator \in [Curator -> CuratorRecord] /\ recompute \in RecomputeRecord
  /\ retriever \in [Retriever -> RetrieverRecord]
  /\ excusedKb \in [vector : SUBSET Entry, recomputed : SUBSET Entry, shelf : BOOLEAN]

\* Entries to import are not there yet and are imported once; a vector is that of its text.
Importing(c) == curator[c].at \in {"import", "insert", "drop"}
CuratorsSound ==
  /\ \A c \in Curator : Importing(c) => \A x \in curator[c].todo : entry[x] = NoEntry
  /\ \A c, d \in Curator :
       c # d /\ Importing(c) /\ Importing(d) => curator[c].todo \cap curator[d].todo = {}
  /\ \A c \in Curator :
       curator[c].at \in {"insert", "save"} =>
         curator[c].vector = NoVector \/ curator[c].vector.of = curator[c].text
  /\ \A c \in Curator : curator[c].at \in {"edit", "save"} => curator[c].text \in Question

\* What a recomputation still has to do was there when it began; a question that has
\* changed since is on record, and what it has done is of its model.
RecomputeSound ==
  /\ recompute.at = "idle" => recompute.todo = {}
  /\ \A x \in recompute.todo : entry[x].text # "none"
  /\ \A x \in recompute.todo : Exists(x) /\ entry[x].text # recompute.was[x] => x \in excusedKb.vector
  /\ recompute.at = "write" => recompute.vector.model = recompute.model
  /\ recompute.model # NoModel /\ ~recompute.failed =>
       \A x \in Entry : Exists(x) /\ x \notin recompute.todo =>
         entry[x].vector.model = recompute.model \/ x \in excusedKb.recomputed

\* Rows a retrieval has read are those of the database until an edit overtakes it.
RetrieversSound ==
  /\ \A r \in Retriever :
       retriever[r].at = "embedding" => \A w \in retriever[r].rows : w.vector.model = retriever[r].model
  /\ \A r \in Retriever : retriever[r].at = "filling" /\ ~retriever[r].crossed => retriever[r].rows = Shelved

KbInv ==
  KbTypes /\ CuratorsSound /\ RecomputeSound /\ RetrieversSound
  /\ VectorsMatchQuestions /\ ComparedLikeWithLike /\ ShelfIsCurrent

LEMMA NothingThere ==
  /\ NoVector \in VectorRecord /\ NoEntry \in EntryRecord /\ NoEntry.vector = NoVector /\ NoEntry.text = "none"
  /\ Gone \in EntryRecord /\ Gone.text = "gone" /\ Gone.vector = NoVector
  /\ CuratorIdle \in CuratorRecord /\ CuratorIdle.at = "idle"
  /\ RecomputeIdle \in RecomputeRecord /\ RecomputeIdle.at = "idle" /\ RecomputeIdle.todo = {}
  /\ RecomputeIdle.model = NoModel
  /\ RetrieverIdle \in RetrieverRecord /\ RetrieverIdle.at = "idle"
  /\ NoShelf \in [held : BOOLEAN, rows : SUBSET ShelfRecord] /\ ~NoShelf.held /\ NoModel \in KbModel
  <1>1. NoModel \in KbModel
    BY DEF KbModel
  <1>2. NoVector \in VectorRecord
    BY <1>1 DEF NoVector, VectorRecord, KbText, NoModel
  <1>3. NoEntry \in EntryRecord /\ NoEntry.vector = NoVector /\ NoEntry.text = "none"
        /\ Gone \in EntryRecord /\ Gone.text = "gone" /\ Gone.vector = NoVector
    BY <1>2 DEF NoEntry, Gone, EntryRecord, KbText
  <1>4. CuratorIdle \in CuratorRecord /\ CuratorIdle.at = "idle"
    BY <1>1, <1>2 DEF CuratorIdle, CuratorRecord, KbText
  <1>5. RecomputeIdle \in RecomputeRecord /\ RecomputeIdle.at = "idle" /\ RecomputeIdle.todo = {}
        /\ RecomputeIdle.model = NoModel
    BY <1>1, <1>2 DEF RecomputeIdle, RecomputeRecord, KbText
  <1>6. RetrieverIdle \in RetrieverRecord /\ RetrieverIdle.at = "idle"
    BY <1>1 DEF RetrieverIdle, RetrieverRecord
  <1>7. NoShelf \in [held : BOOLEAN, rows : SUBSET ShelfRecord] /\ ~NoShelf.held
    BY DEF NoShelf
  <1>8. QED
    BY <1>1, <1>2, <1>3, <1>4, <1>5, <1>6, <1>7

LEMMA InitKb == SalesKbInit => KbInv
  <1> SUFFICES ASSUME SalesKbInit PROVE KbInv
    OBVIOUS
  <1>1. /\ entry = [x \in Entry |-> NoEntry] /\ inUse = (CHOOSE m \in Embedder : TRUE) /\ known = NoModel
        /\ shelf = NoShelf /\ curator = [c \in Curator |-> CuratorIdle] /\ recompute = RecomputeIdle
        /\ retriever = [r \in Retriever |-> RetrieverIdle]
        /\ excusedKb = [vector |-> {}, recomputed |-> {}, shelf |-> FALSE]
    BY DEF SalesKbInit
  <1>2. inUse \in KbModel
    BY <1>1 DEF KbModel
  <1>3. KbTypes
    BY <1>1, <1>2, NothingThere DEF KbTypes
  <1>4. CuratorsSound
    BY <1>1, NothingThere DEF CuratorsSound, Importing
  <1>5. RecomputeSound
    BY <1>1, NothingThere DEF RecomputeSound
  <1>6. RetrieversSound /\ ComparedLikeWithLike
    BY <1>1, NothingThere DEF RetrieversSound, ComparedLikeWithLike
  <1>7. VectorsMatchQuestions /\ ShelfIsCurrent
    BY <1>1, NothingThere DEF VectorsMatchQuestions, ShelfIsCurrent
  <1>8. QED
    BY <1>3, <1>4, <1>5, <1>6, <1>7 DEF KbInv

LEMMA Models == ASSUME KbTypes PROVE ActiveModel \in KbModel
  BY DEF KbTypes, ActiveModel

LEMMA ShelvedType == ASSUME KbTypes PROVE Shelved \in SUBSET ShelfRecord
  <1>1. \A x \in Entry : entry[x] \in EntryRecord
    BY DEF KbTypes
  <1>2. \A x \in Entry : [text |-> entry[x].text, vector |-> entry[x].vector] \in ShelfRecord
    BY <1>1 DEF EntryRecord, ShelfRecord
  <1>3. QED
    BY <1>2 DEF Shelved

\* Once overtaken, retrievals may find anything in the database.
LEMMA OvertakeSound ==
  ASSUME KbInv, Overtake
  PROVE  retriever' \in [Retriever -> RetrieverRecord] /\ RetrieversSound' /\ ComparedLikeWithLike'
  <1>1. retriever \in [Retriever -> RetrieverRecord] /\ RetrieversSound /\ ComparedLikeWithLike
    BY DEF KbInv, KbTypes
  <1>2. ASSUME NEW r \in Retriever
        PROVE  /\ retriever'[r] \in RetrieverRecord /\ retriever'[r].at = retriever[r].at
               /\ retriever'[r].rows = retriever[r].rows /\ retriever'[r].model = retriever[r].model
               /\ retriever'[r].query = retriever[r].query
               /\ retriever[r].at = "filling" => retriever'[r].crossed
    <2> DEFINE old == retriever[r]
               c == old.crossed \/ old.at = "filling"
    <2>1. old \in RetrieverRecord /\ retriever'[r] = [old EXCEPT !.crossed = c]
      BY <1>1 DEF Overtake
    <2> HIDE DEF old
    <2>2. c \in BOOLEAN /\ (old.at = "filling" => c)
      BY <2>1 DEF RetrieverRecord
    <2> HIDE DEF c
    <2>3. QED
      BY <2>1, <2>2 DEF RetrieverRecord, old
  <1>3. retriever' \in [Retriever -> RetrieverRecord]
    BY <1>2 DEF Overtake
  <1>4. QED
    BY <1>1, <1>2, <1>3 DEF RetrieversSound, ComparedLikeWithLike

\* What a step of one curator leaves.
LEMMA CuratorStep ==
  ASSUME KbTypes, NEW c \in Curator, NEW y \in CuratorRecord, curator' = [curator EXCEPT ![c] = y]
  PROVE  curator' \in [Curator -> CuratorRecord] /\ \A d \in Curator : curator'[d] = IF d = c THEN y ELSE curator[d]
  BY DEF KbTypes

\* A curator goes on without touching a row.
LEMMA CuratorOnly ==
  ASSUME KbInv, NEW c \in Curator, NEW y \in CuratorRecord, curator' = [curator EXCEPT ![c] = y],
         UNCHANGED <<entry, inUse, shelf, recompute, retriever, excusedKb>>, known' \in KbModel,
         curator[c].at # "drop",
         y.at \in {"import", "insert", "drop"} =>
           \A x \in y.todo : entry[x] = NoEntry /\ \A d \in Curator : d # c => x \notin curator[d].todo \/ ~Importing(d),
         y.at \in {"insert", "save"} => y.vector = NoVector \/ y.vector.of = y.text,
         y.at \in {"edit", "save"} => y.text \in Question
  PROVE  KbInv'
  <1>1. KbTypes /\ CuratorsSound
    BY DEF KbInv
  <1>2. curator' \in [Curator -> CuratorRecord] /\ \A d \in Curator : curator'[d] = IF d = c THEN y ELSE curator[d]
    BY <1>1, CuratorStep
  <1>3. KbTypes'
    BY <1>1, <1>2 DEF KbTypes
  <1>4. CuratorsSound'
    <2>1. \A d \in Curator : Importing(d)' => \A x \in curator'[d].todo : entry'[x] = NoEntry
      BY <1>1, <1>2 DEF CuratorsSound, Importing
    <2>2. ASSUME NEW d \in Curator, NEW e \in Curator, d # e, Importing(d)', Importing(e)'
          PROVE  curator'[d].todo \cap curator'[e].todo = {}
      <3>1. CASE d # c /\ e # c
        BY <1>1, <1>2, <2>2, <3>1 DEF CuratorsSound, Importing
      <3>2. CASE d = c
        BY <1>2, <2>2, <3>2 DEF Importing
      <3>3. CASE e = c
        BY <1>2, <2>2, <3>3 DEF Importing
      <3>4. QED
        BY <3>1, <3>2, <3>3
    <2>3. \A d \in Curator :
            /\ curator'[d].at \in {"insert", "save"} =>
                 curator'[d].vector = NoVector \/ curator'[d].vector.of = curator'[d].text
            /\ curator'[d].at \in {"edit", "save"} => curator'[d].text \in Question
      BY <1>1, <1>2 DEF CuratorsSound
    <2>4. QED
      BY <2>1, <2>2, <2>3 DEF CuratorsSound
  <1>5. RecomputeSound' /\ VectorsMatchQuestions'
    BY DEF KbInv, RecomputeSound, VectorsMatchQuestions, Exists
  <1>6. Shelved' = Shelved
    BY DEF Shelved
  <1>7. RetrieversSound' /\ ComparedLikeWithLike'
    BY <1>6 DEF KbInv, RetrieversSound, ComparedLikeWithLike
  <1>8. Dropping => Dropping'
    BY <1>2 DEF Dropping
  <1>9. ShelfIsCurrent'
    BY <1>6, <1>8 DEF KbInv, ShelfIsCurrent
  <1>10. QED
    BY <1>3, <1>4, <1>5, <1>7, <1>9 DEF KbInv

LEMMA ImportEntriesStep ==
  ASSUME KbInv, NEW c \in Curator, NEW todo \in SUBSET Entry, NEW text \in Question, ImportEntries(c, todo, text)
  PROVE  KbInv'
  <1> DEFINE y == [at |-> "import", todo |-> todo, text |-> text, vector |-> NoVector, model |-> ActiveModel]
  <1>1. /\ curator' = [curator EXCEPT ![c] = y] /\ known' = ActiveModel /\ curator[c].at # "drop"
        /\ \A x \in todo : entry[x] = NoEntry /\ \A d \in Curator : x \notin curator[d].todo
        /\ UNCHANGED <<entry, inUse, shelf, recompute, retriever, excusedKb>>
    BY DEF ImportEntries, ReadModel
  <1>2. ActiveModel \in KbModel
    BY Models DEF KbInv
  <1>3. y \in CuratorRecord /\ y.at = "import" /\ y.todo = todo
    BY <1>2, NothingThere DEF CuratorRecord, KbText
  <1> HIDE DEF y
  <1>4. QED
    BY <1>1, <1>2, <1>3, CuratorOnly

LEMMA EditEntryStep ==
  ASSUME KbInv, NEW c \in Curator, NEW x \in Entry, NEW text \in Question, EditEntry(c, x, text)
  PROVE  KbInv'
  <1> DEFINE y == [at |-> "edit", todo |-> {x}, text |-> text, vector |-> NoVector, model |-> ActiveModel]
  <1>1. /\ curator' = [curator EXCEPT ![c] = y] /\ known' = ActiveModel /\ curator[c].at # "drop"
        /\ UNCHANGED <<entry, inUse, shelf, recompute, retriever, excusedKb>>
    BY DEF EditEntry, ReadModel
  <1>2. ActiveModel \in KbModel
    BY Models DEF KbInv
  <1>3. y \in CuratorRecord /\ y.at = "edit" /\ y.text = text
    BY <1>2, NothingThere DEF CuratorRecord, KbText
  <1> HIDE DEF y
  <1>4. QED
    BY <1>1, <1>2, <1>3, CuratorOnly

LEMMA EmbedStep ==
  ASSUME KbInv, NEW c \in Curator, NEW works \in BOOLEAN, EmbedImport(c, works) \/ EmbedEdit(c, works)
  PROVE  KbInv'
  <1> DEFINE old == curator[c]
             v == IF works THEN Vector(old.text, old.model) ELSE NoVector
             at == IF old.at = "import" THEN "insert" ELSE "save"
             y == [old EXCEPT !.at = at, !.vector = v]
  <1>1. /\ old.at \in {"import", "edit"} /\ curator' = [curator EXCEPT ![c] = y]
        /\ UNCHANGED <<entry, inUse, known, shelf, recompute, retriever, excusedKb>>
    BY DEF EmbedImport, EmbedEdit
  <1>2. old \in CuratorRecord /\ known \in KbModel /\ CuratorsSound
    BY DEF KbInv, KbTypes
  <1> HIDE DEF old
  <1>3. v \in VectorRecord /\ (v = NoVector \/ v.of = old.text)
    BY <1>2, NothingThere DEF CuratorRecord, Vector, VectorRecord
  <1>4. at \in {"insert", "save"} /\ (at = "insert" => old.at = "import") /\ (at = "save" => old.at = "edit")
    BY <1>1
  <1> HIDE DEF v, at
  <1>5. y \in CuratorRecord /\ y.at = at /\ y.vector = v /\ y.text = old.text /\ y.todo = old.todo
    BY <1>2, <1>3, <1>4 DEF CuratorRecord
  <1> HIDE DEF y
  <1>6. y.at \in {"import", "insert", "drop"} =>
          \A x \in y.todo : entry[x] = NoEntry /\ \A d \in Curator : d # c => x \notin curator[d].todo \/ ~Importing(d)
    <2> SUFFICES ASSUME y.at \in {"import", "insert", "drop"}, NEW x \in y.todo
                 PROVE  entry[x] = NoEntry /\ \A d \in Curator : d # c => x \notin curator[d].todo \/ ~Importing(d)
      OBVIOUS
    <2>1. Importing(c) /\ x \in curator[c].todo
      BY <1>4, <1>5 DEF Importing, old
    <2>2. entry[x] = NoEntry
      BY <1>2, <2>1 DEF CuratorsSound
    <2>3. \A d \in Curator : d # c /\ Importing(d) => curator[c].todo \cap curator[d].todo = {}
      BY <1>2, <2>1 DEF CuratorsSound
    <2>4. QED
      BY <2>1, <2>2, <2>3
  <1>7. y.at \in {"edit", "save"} => y.text \in Question
    BY <1>2, <1>4, <1>5 DEF CuratorsSound, old
  <1>8. y.at \in {"insert", "save"} => y.vector = NoVector \/ y.vector.of = y.text
    BY <1>3, <1>5
  <1>9. known' \in KbModel /\ curator[c].at # "drop"
    BY <1>1, <1>2 DEF old
  <1>10. QED
    BY <1>1, <1>5, <1>6, <1>7, <1>8, <1>9, CuratorOnly

\* A step of one retrieval.
LEMMA RetrieverOnly ==
  ASSUME KbInv, NEW r \in Retriever, NEW y \in RetrieverRecord, retriever' = [retriever EXCEPT ![r] = y],
         UNCHANGED <<entry, inUse, curator, recompute>>, known' \in KbModel,
         shelf' \in [held : BOOLEAN, rows : SUBSET ShelfRecord],
         excusedKb' \in [vector : SUBSET Entry, recomputed : SUBSET Entry, shelf : BOOLEAN],
         excusedKb'.vector = excusedKb.vector, excusedKb'.recomputed = excusedKb.recomputed,
         y.at = "embedding" => \A w \in y.rows : w.vector.model = y.model,
         y.at = "compared" => \A w \in y.rows : w.vector.model = y.query,
         y.at = "filling" /\ ~y.crossed => y.rows = Shelved,
         ShelfIsCurrent'
  PROVE  KbInv'
  <1>1. KbTypes
    BY DEF KbInv
  <1>2. retriever' \in [Retriever -> RetrieverRecord]
        /\ \A q \in Retriever : retriever'[q] = IF q = r THEN y ELSE retriever[q]
    BY <1>1 DEF KbTypes
  <1>3. KbTypes'
    BY <1>1, <1>2 DEF KbTypes
  <1>4. CuratorsSound'
    BY DEF KbInv, CuratorsSound, Importing
  <1>5. RecomputeSound' /\ VectorsMatchQuestions'
    BY DEF KbInv, RecomputeSound, VectorsMatchQuestions, Exists
  <1>6. Shelved' = Shelved
    BY DEF Shelved
  <1>7. RetrieversSound' /\ ComparedLikeWithLike'
    BY <1>2, <1>6 DEF KbInv, RetrieversSound, ComparedLikeWithLike
  <1>8. QED
    BY <1>3, <1>4, <1>5, <1>7 DEF KbInv

LEMMA ComparableIs ==
  ASSUME NEW picked \in SUBSET ShelfRecord, NEW m
  PROVE  Comparable(picked, m) \in SUBSET ShelfRecord /\ \A w \in Comparable(picked, m) : w.vector.model = m
  BY DEF Comparable

LEMMA ShelfRests ==
  ASSUME KbInv, UNCHANGED <<entry, shelf, curator, recompute, excusedKb>> PROVE ShelfIsCurrent'
  BY DEF KbInv, ShelfIsCurrent, Shelved, Dropping

LEMMA BeginRetrieveStep ==
  ASSUME KbInv, NEW r \in Retriever, BeginRetrieve(r)
  PROVE  KbInv'
  <1> DEFINE model == ActiveModel
             some == Comparable(shelf.rows, model)
             new(at, picked) == [at |-> at, model |-> model, rows |-> picked, query |-> NoModel, crossed |-> FALSE]
  <1>1. /\ \/ retriever' = [retriever EXCEPT ![r] = new("reading", {})]
           \/ retriever' = [retriever EXCEPT ![r] = new("embedding", some)]
        /\ known' = model
        /\ UNCHANGED <<entry, inUse, shelf, curator, recompute, excusedKb>>
    BY DEF BeginRetrieve, ReadModel
  <1>2. model \in KbModel /\ shelf.rows \in SUBSET ShelfRecord
        /\ shelf' \in [held : BOOLEAN, rows : SUBSET ShelfRecord]
        /\ excusedKb' \in [vector : SUBSET Entry, recomputed : SUBSET Entry, shelf : BOOLEAN]
    BY <1>1, Models DEF KbInv, KbTypes
  <1> HIDE DEF model
  <1>3. some \in SUBSET ShelfRecord /\ \A w \in some : w.vector.model = model
    BY <1>2, ComparableIs
  <1> HIDE DEF some
  <1>4. /\ new("reading", {}) \in RetrieverRecord /\ new("reading", {}).at = "reading"
        /\ new("embedding", some) \in RetrieverRecord /\ new("embedding", some).at = "embedding"
        /\ new("embedding", some).rows = some /\ new("embedding", some).model = model
    BY <1>2, <1>3, NothingThere DEF RetrieverRecord
  <1> HIDE DEF new
  <1>5. PICK y \in RetrieverRecord :
          /\ retriever' = [retriever EXCEPT ![r] = y] /\ y.at \in {"reading", "embedding"}
          /\ y.at = "embedding" => \A w \in y.rows : w.vector.model = y.model
    BY <1>1, <1>3, <1>4
  <1>6. ShelfIsCurrent' /\ known' \in KbModel
    BY <1>1, <1>2, ShelfRests
  <1>7. QED
    BY <1>1, <1>2, <1>5, <1>6, RetrieverOnly

LEMMA RetrievalGoesOn ==
  ASSUME KbInv, NEW r \in Retriever,
         ReadEntries(r) \/ EndRetrieve(r) \/ \E works \in BOOLEAN : Retrieve(r, works)
  PROVE  KbInv'
  <1> DEFINE old == retriever[r]
  <1>1. UNCHANGED <<entry, inUse, known, shelf, curator, recompute, excusedKb>>
    BY DEF ReadEntries, EndRetrieve, Retrieve
  <1>2. /\ old \in RetrieverRecord /\ known' \in KbModel /\ RetrieversSound
        /\ shelf' \in [held : BOOLEAN, rows : SUBSET ShelfRecord]
        /\ excusedKb' \in [vector : SUBSET Entry, recomputed : SUBSET Entry, shelf : BOOLEAN]
    BY <1>1 DEF KbInv, KbTypes
  <1>3. Shelved \in SUBSET ShelfRecord
    BY ShelvedType DEF KbInv
  <1>4. \E y \in RetrieverRecord :
          /\ retriever' = [retriever EXCEPT ![r] = y]
          /\ y.at = "embedding" => \A w \in y.rows : w.vector.model = y.model
          /\ y.at = "compared" => \A w \in y.rows : w.vector.model = y.query
          /\ y.at = "filling" /\ ~y.crossed => y.rows = Shelved
    <2>1. CASE ReadEntries(r)
      <3> DEFINE picked == Shelved
                 y == [old EXCEPT !.at = "filling", !.rows = picked, !.crossed = FALSE]
      <3>1. retriever' = [retriever EXCEPT ![r] = y]
        BY <2>1 DEF ReadEntries
      <3>2. picked \in SUBSET ShelfRecord
        BY <1>3
      <3> HIDE DEF picked, old
      <3>3. y \in RetrieverRecord /\ y.at = "filling" /\ y.rows = picked
        BY <1>2, <3>2 DEF RetrieverRecord
      <3> HIDE DEF y
      <3>4. QED
        BY <3>1, <3>3 DEF picked
    <2>2. CASE EndRetrieve(r)
      BY <2>2, NothingThere DEF EndRetrieve
    <2>3. ASSUME NEW works \in BOOLEAN, Retrieve(r, works)
          PROVE  \E y \in RetrieverRecord :
                   /\ retriever' = [retriever EXCEPT ![r] = y]
                   /\ y.at = "embedding" => \A w \in y.rows : w.vector.model = y.model
                   /\ y.at = "compared" => \A w \in y.rows : w.vector.model = y.query
                   /\ y.at = "filling" /\ ~y.crossed => y.rows = Shelved
      <3> DEFINE query == IF works THEN old.model ELSE NoModel
                 picked == IF works THEN old.rows ELSE {}
                 y == [old EXCEPT !.at = "compared", !.query = query, !.rows = picked]
      <3>1. retriever' = [retriever EXCEPT ![r] = y] /\ old.at = "embedding"
        BY <2>3 DEF Retrieve
      <3>2. \A w \in old.rows : w.vector.model = old.model
        BY <1>2, <3>1 DEF RetrieversSound
      <3>3. query \in KbModel /\ picked \in SUBSET ShelfRecord
        BY <1>2, NothingThere DEF RetrieverRecord
      <3>4. \A w \in picked : w.vector.model = query
        BY <3>2
      <3> HIDE DEF query, picked, old
      <3>5. y \in RetrieverRecord /\ y.at = "compared" /\ y.rows = picked /\ y.query = query
        BY <1>2, <3>3 DEF RetrieverRecord
      <3> HIDE DEF y
      <3>6. QED
        BY <3>1, <3>4, <3>5
    <2>4. QED
      BY <2>1, <2>2, <2>3
  <1>5. ShelfIsCurrent'
    BY <1>1, ShelfRests
  <1>6. QED
    BY <1>1, <1>2, <1>4, <1>5, RetrieverOnly

LEMMA FillShelfStep ==
  ASSUME KbInv, NEW r \in Retriever, FillShelf(r)
  PROVE  KbInv'
  <1> DEFINE old == retriever[r]
             some == Comparable(old.rows, old.model)
             y == [old EXCEPT !.at = "embedding", !.crossed = FALSE, !.rows = some]
  <1>1. /\ old.at = "filling" /\ retriever' = [retriever EXCEPT ![r] = y]
        /\ shelf' = [held |-> TRUE, rows |-> old.rows]
        /\ excusedKb' = [excusedKb EXCEPT !.shelf = old.crossed]
        /\ UNCHANGED <<entry, inUse, known, curator, recompute>>
    BY DEF FillShelf
  <1>2. /\ old \in RetrieverRecord /\ known' \in KbModel /\ RetrieversSound
        /\ excusedKb \in [vector : SUBSET Entry, recomputed : SUBSET Entry, shelf : BOOLEAN]
    BY <1>1 DEF KbInv, KbTypes
  <1>3. ~old.crossed => old.rows = Shelved
    BY <1>1, <1>2 DEF RetrieversSound
  <1> HIDE DEF old
  <1>4. old.rows \in SUBSET ShelfRecord /\ old.crossed \in BOOLEAN
    BY <1>2 DEF RetrieverRecord
  <1>5. some \in SUBSET ShelfRecord /\ \A w \in some : w.vector.model = old.model
    BY <1>4, ComparableIs
  <1> HIDE DEF some
  <1>6. y \in RetrieverRecord /\ y.at = "embedding" /\ y.rows = some /\ y.model = old.model
    BY <1>2, <1>5 DEF RetrieverRecord
  <1> HIDE DEF y
  <1>7. /\ shelf' \in [held : BOOLEAN, rows : SUBSET ShelfRecord]
        /\ excusedKb' \in [vector : SUBSET Entry, recomputed : SUBSET Entry, shelf : BOOLEAN]
        /\ excusedKb'.vector = excusedKb.vector /\ excusedKb'.recomputed = excusedKb.recomputed
        /\ excusedKb'.shelf = old.crossed /\ shelf'.rows = old.rows
    BY <1>1, <1>2, <1>4
  <1>8. ShelfIsCurrent'
    <2>1. Shelved' = Shelved
      BY <1>1 DEF Shelved
    <2>2. QED
      BY <1>3, <1>7, <2>1 DEF ShelfIsCurrent
  <1>9. QED
    BY <1>1, <1>2, <1>5, <1>6, <1>7, <1>8, RetrieverOnly

\* Whoever imports finds the entries it has left as they were.
LEMMA CuratorMoves ==
  ASSUME KbInv, NEW c \in Curator, NEW y \in CuratorRecord, curator' = [curator EXCEPT ![c] = y],
         \A z \in Entry : entry'[z] = entry[z] \/ \A d \in Curator : d # c /\ Importing(d) => z \notin curator[d].todo,
         y.at \in {"idle", "import", "drop"},
         y.at # "idle" => \A z \in y.todo : Importing(c) /\ z \in curator[c].todo /\ entry'[z] = entry[z]
  PROVE  curator' \in [Curator -> CuratorRecord] /\ CuratorsSound'
  <1>1. KbTypes /\ CuratorsSound
    BY DEF KbInv
  <1>2. curator' \in [Curator -> CuratorRecord] /\ \A d \in Curator : curator'[d] = IF d = c THEN y ELSE curator[d]
    BY <1>1, CuratorStep
  <1>3. \A d \in Curator : curator[d].todo \subseteq Entry
    BY <1>1 DEF KbTypes, CuratorRecord
  <1>4. \A d \in Curator : Importing(d)' =>
          \A z \in curator'[d].todo : Importing(d) /\ z \in curator[d].todo /\ entry'[z] = entry[z]
    BY <1>2, <1>3 DEF Importing
  <1>5. \A d \in Curator : Importing(d)' => \A z \in curator'[d].todo : entry'[z] = NoEntry
    BY <1>1, <1>4 DEF CuratorsSound
  <1>6. \A d, e \in Curator :
          d # e /\ Importing(d)' /\ Importing(e)' => curator'[d].todo \cap curator'[e].todo = {}
    <2> SUFFICES ASSUME NEW d \in Curator, NEW e \in Curator, d # e, Importing(d)', Importing(e)',
                        NEW z \in curator'[d].todo, z \in curator'[e].todo
                 PROVE  FALSE
      OBVIOUS
    <2>1. Importing(d) /\ Importing(e) /\ z \in curator[d].todo /\ z \in curator[e].todo
      BY <1>4
    <2>2. QED
      BY <1>1, <2>1 DEF CuratorsSound
  <1>7. \A d \in Curator :
          /\ curator'[d].at \in {"insert", "save"} =>
               curator'[d].vector = NoVector \/ curator'[d].vector.of = curator'[d].text
          /\ curator'[d].at \in {"edit", "save"} => curator'[d].text \in Question
    BY <1>1, <1>2 DEF CuratorsSound
  <1>8. QED
    BY <1>2, <1>5, <1>6, <1>7 DEF CuratorsSound

ExcusedKbRecord == [vector : SUBSET Entry, recomputed : SUBSET Entry, shelf : BOOLEAN]

\* An edit of a row, which is still to drop the cache.
LEMMA RowEdited ==
  ASSUME KbInv, NEW x \in Entry, NEW e \in EntryRecord, entry' = [entry EXCEPT ![x] = e], Overtake,
         UNCHANGED <<inUse, recompute, shelf>>, known' \in KbModel, Dropping',
         excusedKb' \in ExcusedKbRecord, curator' \in [Curator -> CuratorRecord], CuratorsSound',
         \A y \in Entry : y # x /\ y \in excusedKb.vector => y \in excusedKb'.vector,
         \A y \in Entry : y # x /\ y \in excusedKb.recomputed => y \in excusedKb'.recomputed,
         x \in recompute.todo =>
           /\ e.text # "none"
           /\ e.text \notin {"none", "gone"} /\ e.text # recompute.was[x] => x \in excusedKb'.vector,
         e.text \notin {"none", "gone"} /\ x \notin recompute.todo /\ recompute.model # NoModel /\ ~recompute.failed
           => e.vector.model = recompute.model \/ x \in excusedKb'.recomputed,
         e.vector # NoVector => e.vector.of = e.text \/ x \in excusedKb'.vector
  PROVE  KbInv'
  <1>1. KbTypes /\ RecomputeSound /\ VectorsMatchQuestions
    BY DEF KbInv
  <1>2. /\ entry' \in [Entry -> EntryRecord]
        /\ \A y \in Entry : entry'[y] = IF y = x THEN e ELSE entry[y]
    BY <1>1 DEF KbTypes
  <1>3. retriever' \in [Retriever -> RetrieverRecord] /\ RetrieversSound' /\ ComparedLikeWithLike'
    BY OvertakeSound
  <1>4. KbTypes'
    BY <1>1, <1>2, <1>3, NothingThere DEF KbTypes, ExcusedKbRecord
  <1>5. recompute.todo \subseteq Entry
    BY <1>1 DEF KbTypes, RecomputeRecord
  <1>6. RecomputeSound'
    <2>1. recompute'.at = "idle" => recompute'.todo = {}
      BY <1>1 DEF RecomputeSound
    <2>2. \A y \in recompute'.todo : entry'[y].text # "none"
      BY <1>1, <1>2, <1>5 DEF RecomputeSound
    <2>3. \A y \in recompute'.todo : Exists(y)' /\ entry'[y].text # recompute'.was[y] => y \in excusedKb'.vector
      BY <1>1, <1>2, <1>5 DEF RecomputeSound, Exists
    <2>4. recompute'.at = "write" => recompute'.vector.model = recompute'.model
      BY <1>1 DEF RecomputeSound
    <2>5. recompute'.model # NoModel /\ ~recompute'.failed =>
            \A y \in Entry : Exists(y)' /\ y \notin recompute'.todo =>
              entry'[y].vector.model = recompute'.model \/ y \in excusedKb'.recomputed
      BY <1>1, <1>2 DEF RecomputeSound, Exists
    <2>6. QED
      BY <2>1, <2>2, <2>3, <2>4, <2>5 DEF RecomputeSound
  <1>7. VectorsMatchQuestions'
    BY <1>1, <1>2 DEF VectorsMatchQuestions
  <1>8. ShelfIsCurrent'
    BY DEF ShelfIsCurrent
  <1>9. QED
    BY <1>3, <1>4, <1>6, <1>7, <1>8 DEF KbInv

\* An entry that is there is nobody's to import.
LEMMA ThereIsNoImport ==
  ASSUME KbInv, NEW x \in Entry, Exists(x), NEW d \in Curator, Importing(d)
  PROVE  x \notin curator[d].todo
  BY NothingThere DEF KbInv, CuratorsSound, Exists

LEMMA CuratorsRest ==
  ASSUME KbInv, NEW x \in Entry, Exists(x), NEW e, entry' = [entry EXCEPT ![x] = e], curator' = curator
  PROVE  curator' \in [Curator -> CuratorRecord] /\ CuratorsSound'
  <1>1. KbTypes /\ CuratorsSound
    BY DEF KbInv
  <1>2. \A d \in Curator : Importing(d) => x \notin curator[d].todo
    BY ThereIsNoImport
  <1>3. \A d \in Curator : Importing(d) => \A z \in curator[d].todo : entry'[z] = entry[z]
    BY <1>1, <1>2 DEF KbTypes, CuratorRecord
  <1>4. QED
    BY <1>1, <1>3 DEF KbTypes, CuratorsSound, Importing

LEMMA ExcusedKbIs ==
  ASSUME KbInv
  PROVE  excusedKb \in ExcusedKbRecord /\ known \in KbModel /\ entry \in [Entry -> EntryRecord]
  BY DEF KbInv, KbTypes, ExcusedKbRecord

\* A curator that has written its row is to drop the cache.
LEMMA WrittenIs ==
  ASSUME KbInv, NEW c \in Curator, Written(c), NEW x \in Entry, Exists(x), NEW e, entry' = [entry EXCEPT ![x] = e]
  PROVE  curator' \in [Curator -> CuratorRecord] /\ CuratorsSound' /\ Dropping'
  <1> DEFINE y == [CuratorIdle EXCEPT !.at = "drop"]
  <1>1. curator' = [curator EXCEPT ![c] = y]
    BY DEF Written
  <1>2. y \in CuratorRecord /\ y.at = "drop" /\ y.todo = {}
    BY NothingThere DEF CuratorRecord, CuratorIdle
  <1> HIDE DEF y
  <1>3. \A z \in Entry : entry'[z] = entry[z] \/ \A d \in Curator : d # c /\ Importing(d) => z \notin curator[d].todo
    BY ThereIsNoImport, ExcusedKbIs
  <1>4. curator' \in [Curator -> CuratorRecord] /\ CuratorsSound'
    BY <1>1, <1>2, <1>3, CuratorMoves
  <1>5. KbTypes
    BY DEF KbInv
  <1>6. curator'[c] = y
    BY <1>1, <1>2, <1>5, CuratorStep
  <1>7. QED
    BY <1>2, <1>4, <1>6 DEF Dropping

LEMMA SwitchEntryStep ==
  ASSUME KbInv, NEW c \in Curator, NEW x \in Entry, SwitchEntry(c, x)
  PROVE  KbInv'
  <1> DEFINE old == entry[x]
             on == ~old.active
             e == [old EXCEPT !.active = on]
  <1>1. /\ Exists(x) /\ entry' = [entry EXCEPT ![x] = e] /\ Overtake /\ Written(c)
        /\ UNCHANGED <<inUse, known, shelf, recompute, excusedKb>>
    BY DEF SwitchEntry, WriteAtOnce
  <1>2. old \in EntryRecord /\ known' \in KbModel /\ excusedKb' \in ExcusedKbRecord
    BY <1>1, ExcusedKbIs
  <1>3. RecomputeSound /\ VectorsMatchQuestions
    BY DEF KbInv
  <1>4. /\ x \in recompute.todo =>
             /\ old.text # "none"
             /\ old.text \notin {"none", "gone"} /\ old.text # recompute.was[x] => x \in excusedKb.vector
        /\ old.text \notin {"none", "gone"} /\ x \notin recompute.todo /\ recompute.model # NoModel /\ ~recompute.failed
             => old.vector.model = recompute.model \/ x \in excusedKb.recomputed
        /\ old.vector # NoVector => old.vector.of = old.text \/ x \in excusedKb.vector
    BY <1>3 DEF RecomputeSound, VectorsMatchQuestions, Exists
  <1> HIDE DEF old
  <1>5. on \in BOOLEAN
    BY <1>2 DEF EntryRecord
  <1> HIDE DEF on
  <1>6. e \in EntryRecord /\ e.text = old.text /\ e.vector = old.vector
    BY <1>2, <1>5 DEF EntryRecord
  <1> HIDE DEF e
  <1>7. curator' \in [Curator -> CuratorRecord] /\ CuratorsSound' /\ Dropping'
    BY <1>1, WrittenIs
  <1>8. QED
    BY <1>1, <1>2, <1>4, <1>6, <1>7, RowEdited

LEMMA RemoveEntryStep ==
  ASSUME KbInv, NEW c \in Curator, NEW x \in Entry, RemoveEntry(c, x)
  PROVE  KbInv'
  <1>1. /\ Exists(x) /\ entry' = [entry EXCEPT ![x] = Gone] /\ Overtake /\ Written(c)
        /\ UNCHANGED <<inUse, known, shelf, recompute, excusedKb>>
    BY DEF RemoveEntry, WriteAtOnce
  <1>2. known' \in KbModel /\ excusedKb' \in ExcusedKbRecord
    BY <1>1, ExcusedKbIs
  <1>3. curator' \in [Curator -> CuratorRecord] /\ CuratorsSound' /\ Dropping'
    BY <1>1, WrittenIs
  <1>4. QED
    BY <1>1, <1>2, <1>3, NothingThere, RowEdited

\* A call that is done with a row takes the next one or ends.
LEMMA ContinueKeeps ==
  ASSUME KbInv, NEW c \in Curator, Importing(c), NEW todo \in SUBSET curator[c].todo, Continue(c, todo),
         UNCHANGED <<entry, inUse, recompute, retriever>>, excusedKb' \in ExcusedKbRecord,
         excusedKb'.vector = excusedKb.vector, excusedKb'.recomputed = excusedKb.recomputed,
         shelf' \in [held : BOOLEAN, rows : SUBSET ShelfRecord], ShelfIsCurrent'
  PROVE  KbInv'
  <1> DEFINE old == curator[c]
             model == ActiveModel
             next == [old EXCEPT !.at = "import", !.todo = todo, !.model = model]
             y == IF todo = {} THEN CuratorIdle ELSE next
  <1>1. curator' = [curator EXCEPT ![c] = y] /\ (known' = model \/ known' = known)
    BY DEF Continue, ReadModel
  <1>2. KbTypes /\ old \in CuratorRecord /\ model \in KbModel /\ known \in KbModel
    BY Models, ExcusedKbIs DEF KbInv, KbTypes
  <1> HIDE DEF model
  <1>3. todo \in SUBSET Entry /\ todo \subseteq curator[c].todo
    BY <1>2 DEF CuratorRecord
  <1> HIDE DEF old
  <1>4. next \in CuratorRecord /\ next.at = "import" /\ next.todo = todo
    BY <1>2, <1>3 DEF CuratorRecord
  <1> HIDE DEF next
  <1>5. y \in CuratorRecord /\ y.at \in {"idle", "import"} /\ (y.at # "idle" => y.todo = todo)
    BY <1>4, NothingThere
  <1> HIDE DEF y
  <1>6. curator' \in [Curator -> CuratorRecord] /\ CuratorsSound'
    BY <1>1, <1>3, <1>5, CuratorMoves
  <1>7. KbTypes'
    BY <1>1, <1>2, <1>6 DEF KbTypes, ExcusedKbRecord
  <1>8. RecomputeSound' /\ VectorsMatchQuestions'
    BY DEF KbInv, RecomputeSound, VectorsMatchQuestions, Exists
  <1>9. Shelved' = Shelved
    BY DEF Shelved
  <1>10. RetrieversSound' /\ ComparedLikeWithLike'
    BY <1>9 DEF KbInv, RetrieversSound, ComparedLikeWithLike
  <1>11. QED
    BY <1>6, <1>7, <1>8, <1>10 DEF KbInv

LEMMA DropShelfStep == ASSUME KbInv, NEW c \in Curator, DropShelf(c) PROVE KbInv'
  <1>1. /\ Importing(c) /\ Continue(c, curator[c].todo) /\ shelf' = NoShelf
        /\ excusedKb' = [excusedKb EXCEPT !.shelf = FALSE] /\ UNCHANGED <<entry, inUse, recompute, retriever>>
    BY DEF DropShelf, Importing
  <1>2. /\ excusedKb' \in ExcusedKbRecord /\ excusedKb'.vector = excusedKb.vector
        /\ excusedKb'.recomputed = excusedKb.recomputed
    BY <1>1, ExcusedKbIs DEF ExcusedKbRecord
  <1>3. ShelfIsCurrent'
    BY <1>1, NothingThere DEF ShelfIsCurrent
  <1>4. QED
    BY <1>1, <1>2, <1>3, NothingThere, ContinueKeeps

LEMMA FailInsertStep == ASSUME KbInv, NEW c \in Curator, NEW x \in Entry, FailInsert(c, x) PROVE KbInv'
  <1> DEFINE left == curator[c].todo \ {x}
  <1>1. /\ Importing(c) /\ curator[c].at # "drop" /\ left \in SUBSET curator[c].todo /\ Continue(c, left)
        /\ UNCHANGED <<entry, inUse, shelf, recompute, retriever, excusedKb>>
    BY DEF FailInsert, Importing
  <1>2. /\ excusedKb' \in ExcusedKbRecord /\ shelf' \in [held : BOOLEAN, rows : SUBSET ShelfRecord]
        /\ curator \in [Curator -> CuratorRecord]
    BY <1>1, ExcusedKbIs DEF KbInv, KbTypes
  <1> HIDE DEF left
  <1>3. \A d \in Curator : d # c => curator'[d] = curator[d]
    BY <1>1, <1>2 DEF Continue
  <1>4. ShelfIsCurrent'
    <2>1. Dropping => Dropping'
      BY <1>1, <1>3 DEF Dropping
    <2>2. Shelved' = Shelved
      BY <1>1 DEF Shelved
    <2>3. QED
      BY <1>1, <2>1, <2>2 DEF KbInv, ShelfIsCurrent
  <1>5. QED
    BY <1>1, <1>2, <1>4, ContinueKeeps

LEMMA InsertEntryStep ==
  ASSUME KbInv, NEW c \in Curator, NEW x \in Entry, InsertEntry(c, x)
  PROVE  KbInv'
  <1> DEFINE old == curator[c]
             left == old.todo \ {x}
             y == [old EXCEPT !.at = "drop", !.todo = left, !.vector = NoVector]
             e == [text |-> old.text, active |-> TRUE, vector |-> old.vector]
             m == excusedKb.recomputed \cup {x}
  <1>1. /\ old.at = "insert" /\ x \in old.todo /\ Overtake
        /\ entry' = [entry EXCEPT ![x] = e] /\ curator' = [curator EXCEPT ![c] = y]
        /\ excusedKb' = [excusedKb EXCEPT !.recomputed = m]
        /\ UNCHANGED <<inUse, known, shelf, recompute>>
    BY DEF InsertEntry
  <1>2. /\ KbTypes /\ CuratorsSound /\ RecomputeSound /\ old \in CuratorRecord
        /\ known' \in KbModel /\ excusedKb \in ExcusedKbRecord
    BY <1>1, ExcusedKbIs DEF KbInv, KbTypes
  <1>3. Importing(c) /\ entry[x] = NoEntry /\ (old.vector = NoVector \/ old.vector.of = old.text)
        /\ \A d \in Curator : d # c /\ Importing(d) => x \notin curator[d].todo
    <2>1. Importing(c)
      BY <1>1 DEF Importing
    <2>2. entry[x] = NoEntry /\ (old.vector = NoVector \/ old.vector.of = old.text)
      BY <1>1, <1>2, <2>1 DEF CuratorsSound
    <2>3. \A d \in Curator : d # c /\ Importing(d) => old.todo \cap curator[d].todo = {}
      BY <1>2, <2>1 DEF CuratorsSound
    <2>4. QED
      BY <1>1, <2>1, <2>2, <2>3
  <1>4. old.todo = curator[c].todo
    OBVIOUS
  <1> HIDE DEF old
  <1>5. left \in SUBSET Entry /\ left \subseteq old.todo /\ x \notin left
    BY <1>2 DEF CuratorRecord
  <1> HIDE DEF left
  <1>6. y \in CuratorRecord /\ y.at = "drop" /\ y.todo = left
    BY <1>2, <1>5, NothingThere DEF CuratorRecord
  <1> HIDE DEF y
  <1>7. e \in EntryRecord /\ e.text = old.text /\ e.vector = old.vector
    BY <1>2 DEF CuratorRecord, EntryRecord
  <1> HIDE DEF e
  <1>8. \A z \in Entry : z # x => entry'[z] = entry[z]
    BY <1>1, <1>2 DEF KbTypes
  <1>9. curator' \in [Curator -> CuratorRecord] /\ CuratorsSound'
    <2>1. \A z \in Entry : entry'[z] = entry[z] \/ \A d \in Curator : d # c /\ Importing(d) => z \notin curator[d].todo
      BY <1>3, <1>8
    <2>2. \A z \in y.todo : Importing(c) /\ z \in curator[c].todo /\ entry'[z] = entry[z]
      BY <1>3, <1>4, <1>5, <1>6, <1>8
    <2>3. QED
      BY <1>1, <1>6, <2>1, <2>2, CuratorMoves
  <1>10. Dropping'
    BY <1>1, <1>2, <1>6, CuratorStep DEF Dropping
  <1>11. /\ excusedKb' \in ExcusedKbRecord /\ excusedKb'.vector = excusedKb.vector
         /\ excusedKb'.recomputed = excusedKb.recomputed \cup {x}
    <2>1. m \in SUBSET Entry
      BY <1>2 DEF ExcusedKbRecord
    <2> HIDE DEF m
    <2>2. excusedKb' \in ExcusedKbRecord /\ excusedKb'.vector = excusedKb.vector /\ excusedKb'.recomputed = m
      BY <1>1, <1>2, <2>1 DEF ExcusedKbRecord
    <2>3. QED
      BY <2>2 DEF m
  <1>12. x \notin recompute.todo
    BY <1>2, <1>3, NothingThere DEF RecomputeSound
  <1>13. e.vector # NoVector => e.vector.of = e.text \/ x \in excusedKb'.vector
    BY <1>3, <1>7
  <1>14. QED
    BY <1>1, <1>2, <1>7, <1>9, <1>10, <1>11, <1>12, <1>13, RowEdited

LEMMA SaveEditStep ==
  ASSUME KbInv, NEW c \in Curator, NEW x \in Entry, SaveEdit(c, x)
  PROVE  KbInv'
  <1> DEFINE old == curator[c]
             row == entry[x]
             vec == Refreshed(row.vector, old.vector)
             e == [row EXCEPT !.text = old.text, !.vector = vec]
             overtaken == recompute.at # "idle" \/ old.vector = NoVector
  <1>1. /\ old.at = "save"
        /\ Exists(x) => /\ entry' = [entry EXCEPT ![x] = e] /\ Written(c) /\ Overtake
                        /\ excusedKb' = [excusedKb EXCEPT !.vector = IF overtaken THEN excusedKb.vector \cup {x}
                                                                     ELSE excusedKb.vector \ {x},
                                                          !.recomputed = excusedKb.recomputed \cup {x}]
        /\ ~Exists(x) => /\ curator' = [curator EXCEPT ![c] = CuratorIdle]
                         /\ UNCHANGED <<entry, retriever, excusedKb>>
        /\ UNCHANGED <<inUse, known, shelf, recompute>>
    BY DEF SaveEdit
  <1>2. /\ KbTypes /\ CuratorsSound /\ RecomputeSound /\ old \in CuratorRecord /\ row \in EntryRecord
        /\ known \in KbModel /\ excusedKb \in ExcusedKbRecord
    BY ExcusedKbIs DEF KbInv, KbTypes
  <1>3. (old.vector = NoVector \/ old.vector.of = old.text) /\ old.text \in Question
    BY <1>1, <1>2 DEF CuratorsSound
  <1>4. CASE Exists(x)
    <2> HIDE DEF old, row
    <2>1. curator' \in [Curator -> CuratorRecord] /\ CuratorsSound' /\ Dropping'
      BY <1>1, <1>4, WrittenIs
    <2>2. vec \in VectorRecord /\ (~overtaken => vec = old.vector /\ vec # NoVector)
      BY <1>2 DEF Refreshed, EntryRecord, CuratorRecord
    <2> HIDE DEF vec
    <2>3. e \in EntryRecord /\ e.text = old.text /\ e.vector = vec
      BY <1>2, <2>2 DEF EntryRecord, CuratorRecord
    <2> HIDE DEF e
    <2>4. entry' = [entry EXCEPT ![x] = e] /\ known' \in KbModel /\ Overtake
      BY <1>1, <1>2, <1>4
    <2>5. /\ excusedKb' \in ExcusedKbRecord /\ x \in excusedKb'.recomputed
          /\ \A y \in Entry : y # x => /\ y \in excusedKb.vector => y \in excusedKb'.vector
                                       /\ y \in excusedKb.recomputed => y \in excusedKb'.recomputed
          /\ overtaken => x \in excusedKb'.vector
      <3> DEFINE v == IF overtaken THEN excusedKb.vector \cup {x} ELSE excusedKb.vector \ {x}
                 m == excusedKb.recomputed \cup {x}
      <3>1. /\ v \in SUBSET Entry /\ m \in SUBSET Entry /\ x \in m
            /\ \A y \in Entry : y # x => (y \in excusedKb.vector => y \in v) /\ (y \in excusedKb.recomputed => y \in m)
            /\ overtaken => x \in v
        BY <1>2 DEF ExcusedKbRecord
      <3>2. excusedKb' = [excusedKb EXCEPT !.vector = v, !.recomputed = m]
        BY <1>1, <1>4
      <3> HIDE DEF v, m
      <3>3. QED
        BY <1>2, <3>1, <3>2 DEF ExcusedKbRecord
    <2>6. x \in recompute.todo => overtaken /\ e.text # "none"
      <3>1. x \in recompute.todo => recompute.at # "idle"
        BY <1>2 DEF RecomputeSound
      <3>2. e.text # "none"
        BY <1>3, <2>3, SalesKbAssumption
      <3>3. QED
        BY <3>1, <3>2
    <2>7. e.vector # NoVector => e.vector.of = e.text \/ x \in excusedKb'.vector
      BY <1>3, <2>2, <2>3, <2>5
    <2> HIDE DEF overtaken
    <2>8. QED
      BY <1>1, <2>1, <2>3, <2>4, <2>5, <2>6, <2>7, RowEdited
  <1>5. CASE ~Exists(x)
    <2>1. /\ curator' = [curator EXCEPT ![c] = CuratorIdle] /\ curator[c].at # "drop"
          /\ UNCHANGED <<entry, shelf, excusedKb, inUse, known, recompute, retriever>>
      BY <1>1, <1>5
    <2>2. known' \in KbModel
      BY <1>2, <2>1
    <2>3. QED
      BY <2>1, <2>2, NothingThere, CuratorOnly
  <1>6. QED
    BY <1>4, <1>5

\* What a step of the recomputation that touches no row leaves.
LEMMA RecomputeOnly ==
  ASSUME KbInv, UNCHANGED <<entry, inUse, curator, retriever>>, known' \in KbModel,
         shelf' \in [held : BOOLEAN, rows : SUBSET ShelfRecord], recompute' \in RecomputeRecord,
         excusedKb' \in ExcusedKbRecord, excusedKb'.vector = excusedKb.vector,
         RecomputeSound', ShelfIsCurrent'
  PROVE  KbInv'
  <1>1. KbTypes' /\ CuratorsSound'
    BY DEF KbInv, KbTypes, CuratorsSound, Importing, ExcusedKbRecord
  <1>2. Shelved' = Shelved
    BY DEF Shelved
  <1>3. RetrieversSound' /\ VectorsMatchQuestions' /\ ComparedLikeWithLike'
    BY <1>2 DEF KbInv, RetrieversSound, VectorsMatchQuestions, ComparedLikeWithLike
  <1>4. QED
    BY <1>1, <1>3 DEF KbInv

LEMMA BeginRecomputeStep == ASSUME KbInv, BeginRecompute PROVE KbInv'
  <1> DEFINE model == ActiveModel
             todo == {x \in Entry : Recomputed(x)}
             was == [x \in Entry |-> entry[x].text]
  <1>1. /\ recompute' = [at |-> "next", todo |-> todo, was |-> was, model |-> model,
                         vector |-> NoVector, failed |-> FALSE]
        /\ known' = model /\ excusedKb' = [excusedKb EXCEPT !.recomputed = {}]
        /\ UNCHANGED <<entry, inUse, shelf, curator, retriever>>
    BY DEF BeginRecompute, ReadModel
  <1>2. KbTypes /\ model \in KbModel /\ excusedKb \in ExcusedKbRecord
    BY Models, ExcusedKbIs DEF KbInv
  <1>3. todo \in SUBSET Entry /\ was \in [Entry -> KbText]
    BY <1>2 DEF KbTypes, EntryRecord
  <1>4. \A x \in Entry : (x \in todo <=> Exists(x)) /\ was[x] = entry[x].text
    BY DEF Recomputed
  <1> HIDE DEF model, todo, was
  <1>5. /\ recompute' \in RecomputeRecord /\ recompute'.at = "next" /\ recompute'.todo = todo
        /\ recompute'.was = was
    BY <1>1, <1>2, <1>3, NothingThere DEF RecomputeRecord
  <1>6. excusedKb' \in ExcusedKbRecord /\ excusedKb'.vector = excusedKb.vector
    BY <1>1, <1>2 DEF ExcusedKbRecord
  <1>7. RecomputeSound'
    BY <1>1, <1>3, <1>4, <1>5 DEF RecomputeSound, Exists
  <1>8. ShelfIsCurrent'
    BY <1>5 DEF ShelfIsCurrent
  <1>9. shelf' \in [held : BOOLEAN, rows : SUBSET ShelfRecord]
    BY <1>1, <1>2 DEF KbTypes
  <1>10. QED
    BY <1>1, <1>2, <1>5, <1>6, <1>7, <1>8, <1>9, RecomputeOnly

LEMMA EmbedRowStep ==
  ASSUME KbInv, NEW x \in Entry, NEW works \in BOOLEAN, EmbedRow(x, works)
  PROVE  KbInv'
  <1> DEFINE left == recompute.todo \ {x}
             v == Vector(recompute.was[x], recompute.model)
  <1>1. /\ recompute.at = "next" /\ UNCHANGED <<entry, inUse, known, shelf, curator, retriever, excusedKb>>
        /\ recompute' = IF works THEN [recompute EXCEPT !.at = "write", !.vector = v]
                        ELSE [recompute EXCEPT !.todo = left, !.failed = TRUE]
    BY DEF EmbedRow
  <1>2. /\ recompute \in RecomputeRecord /\ excusedKb \in ExcusedKbRecord /\ known \in KbModel
        /\ shelf \in [held : BOOLEAN, rows : SUBSET ShelfRecord] /\ RecomputeSound
    BY ExcusedKbIs DEF KbInv, KbTypes
  <1>3. v \in VectorRecord /\ v.model = recompute.model
    BY <1>2 DEF RecomputeRecord, VectorRecord, Vector
  <1>4. left \in SUBSET Entry /\ left \subseteq recompute.todo
    BY <1>2 DEF RecomputeRecord
  <1> HIDE DEF left, v
  <1>5. recompute' \in RecomputeRecord /\ recompute'.at # "idle" /\ RecomputeSound'
    <2>1. CASE works
      <3>1. /\ recompute' \in RecomputeRecord /\ recompute'.at = "write" /\ recompute'.todo = recompute.todo
            /\ recompute'.was = recompute.was /\ recompute'.model = recompute.model
            /\ recompute'.vector = v /\ recompute'.failed = recompute.failed
        BY <1>1, <1>2, <1>3, <2>1 DEF RecomputeRecord
      <3>2. QED
        BY <1>1, <1>2, <1>3, <3>1 DEF RecomputeSound, Exists
    <2>2. CASE ~works
      <3>1. /\ recompute' \in RecomputeRecord /\ recompute'.at = "next" /\ recompute'.todo = left
            /\ recompute'.was = recompute.was /\ recompute'.failed
        BY <1>1, <1>2, <1>4, <2>2 DEF RecomputeRecord
      <3>2. QED
        BY <1>1, <1>2, <1>4, <3>1 DEF RecomputeSound, Exists
    <2>3. QED
      BY <2>1, <2>2
  <1>6. ShelfIsCurrent'
    BY <1>5 DEF ShelfIsCurrent
  <1>7. QED
    BY <1>1, <1>2, <1>5, <1>6, RecomputeOnly

LEMMA EndRecomputeStep == ASSUME KbInv, EndRecompute PROVE KbInv'
  <1>1. /\ recompute.todo = {} /\ shelf' = NoShelf
        /\ recompute' = [RecomputeIdle EXCEPT !.model = recompute.model, !.failed = recompute.failed]
        /\ excusedKb' = [excusedKb EXCEPT !.shelf = FALSE]
        /\ UNCHANGED <<entry, inUse, known, curator, retriever>>
    BY DEF EndRecompute
  <1>2. recompute \in RecomputeRecord /\ excusedKb \in ExcusedKbRecord /\ known \in KbModel /\ RecomputeSound
    BY ExcusedKbIs DEF KbInv, KbTypes
  <1>3. /\ recompute' \in RecomputeRecord /\ recompute'.at = "idle" /\ recompute'.todo = recompute.todo
        /\ recompute'.model = recompute.model /\ recompute'.failed = recompute.failed
    BY <1>1, <1>2, NothingThere DEF RecomputeRecord
  <1>4. /\ excusedKb' \in ExcusedKbRecord /\ excusedKb'.vector = excusedKb.vector
        /\ excusedKb'.recomputed = excusedKb.recomputed
    BY <1>1, <1>2 DEF ExcusedKbRecord
  <1>5. RecomputeSound'
    BY <1>1, <1>2, <1>3, <1>4 DEF RecomputeSound, Exists
  <1>6. ShelfIsCurrent'
    BY <1>1, NothingThere DEF ShelfIsCurrent
  <1>7. QED
    BY <1>1, <1>2, <1>3, <1>4, <1>5, <1>6, NothingThere, RecomputeOnly

\* A vector that is written belongs to the question it was asked for.
LEMMA WriteRowStep == ASSUME KbInv, NEW x \in Entry, WriteRow(x) PROVE KbInv'
  <1>1. /\ recompute.at = "write" /\ x \in recompute.todo /\ recompute.was[x] = recompute.vector.of /\ Overtake
        /\ UNCHANGED <<inUse, known, shelf, curator>>
    BY DEF WriteRow
  <1>2. /\ KbTypes /\ recompute \in RecomputeRecord /\ excusedKb \in ExcusedKbRecord /\ entry[x] \in EntryRecord
        /\ RecomputeSound /\ VectorsMatchQuestions
    BY ExcusedKbIs DEF KbInv, KbTypes
  <1>3. retriever' \in [Retriever -> RetrieverRecord] /\ RetrieversSound' /\ ComparedLikeWithLike'
    BY <1>1, OvertakeSound
  <1>4. CASE Exists(x)
    <2> DEFINE v == recompute.vector
               left == recompute.todo \ {x}
               row == entry[x]
               e == [row EXCEPT !.vector = v]
               explained == IF row.text = recompute.was[x] THEN excusedKb.vector \ {x} ELSE excusedKb.vector
    <2>1. /\ entry' = [entry EXCEPT ![x] = e]
          /\ recompute' = [recompute EXCEPT !.at = "next", !.todo = left]
          /\ excusedKb' = IF row.text = recompute.was[x] THEN [excusedKb EXCEPT !.vector = excusedKb.vector \ {x}]
                          ELSE excusedKb
      BY <1>4 DEF WriteRow
    <2>2. v \in VectorRecord /\ v.model = recompute.model /\ left \in SUBSET Entry
      BY <1>1, <1>2 DEF RecomputeRecord, RecomputeSound
    <2>3. /\ explained \in SUBSET Entry
          /\ \A y \in Entry : y # x /\ y \in excusedKb.vector => y \in explained
          /\ v.of = row.text \/ x \in explained
      BY <1>1, <1>2, <1>4 DEF ExcusedKbRecord, RecomputeSound
    <2>4. excusedKb' \in ExcusedKbRecord /\ excusedKb'.vector = explained /\ excusedKb'.recomputed = excusedKb.recomputed
      <3>1. CASE row.text = recompute.was[x]
        BY <1>2, <2>1, <2>3, <3>1 DEF ExcusedKbRecord
      <3>2. CASE row.text # recompute.was[x]
        BY <1>2, <2>1, <2>3, <3>2 DEF ExcusedKbRecord
      <3>3. QED
        BY <3>1, <3>2
    <2>5. curator' \in [Curator -> CuratorRecord] /\ CuratorsSound'
      BY <1>1, <1>4, <2>1, CuratorsRest
    <2>6. \A y \in left : y # x /\ y \in recompute.todo
      OBVIOUS
    <2>7. \A y \in Entry : y \notin left => y = x \/ y \notin recompute.todo
      OBVIOUS
    <2> HIDE DEF v, left, explained
    <2>8. e \in EntryRecord /\ e.text = row.text /\ e.vector = v
      BY <1>2, <2>2 DEF EntryRecord
    <2> HIDE DEF e
    <2>9. \A y \in Entry : entry'[y] = IF y = x THEN e ELSE entry[y]
      BY <1>2, <2>1 DEF KbTypes
    <2>10. /\ recompute' \in RecomputeRecord /\ recompute'.at = "next" /\ recompute'.todo = left
           /\ recompute'.was = recompute.was /\ recompute'.model = recompute.model
           /\ recompute'.failed = recompute.failed
      BY <1>2, <2>1, <2>2 DEF RecomputeRecord
    <2>11. KbTypes'
      BY <1>1, <1>2, <1>3, <2>1, <2>4, <2>5, <2>8, <2>10 DEF KbTypes, ExcusedKbRecord
    <2>12. RecomputeSound'
      <3>1. \A y \in left : entry'[y].text # "none"
        BY <1>2, <2>2, <2>6, <2>9 DEF RecomputeSound
      <3>2. \A y \in left : Exists(y)' /\ entry'[y].text # recompute.was[y] => y \in excusedKb'.vector
        BY <1>2, <2>2, <2>3, <2>4, <2>6, <2>9 DEF RecomputeSound, Exists
      <3>3. recompute.model # NoModel /\ ~recompute.failed =>
              \A y \in Entry : Exists(y)' /\ y \notin left =>
                entry'[y].vector.model = recompute.model \/ y \in excusedKb'.recomputed
        BY <1>2, <2>2, <2>4, <2>7, <2>8, <2>9 DEF RecomputeSound, Exists
      <3>4. QED
        BY <2>10, <3>1, <3>2, <3>3 DEF RecomputeSound
    <2>13. VectorsMatchQuestions'
      BY <1>2, <2>3, <2>4, <2>8, <2>9 DEF VectorsMatchQuestions
    <2>14. ShelfIsCurrent'
      BY <2>10 DEF ShelfIsCurrent
    <2>15. QED
      BY <1>3, <2>5, <2>11, <2>12, <2>13, <2>14 DEF KbInv
  <1>5. CASE ~Exists(x)
    <2>1. recompute' = RecomputeIdle /\ entry' = entry /\ excusedKb' = [excusedKb EXCEPT !.shelf = TRUE]
      BY <1>5 DEF WriteRow
    <2>2. /\ excusedKb' \in ExcusedKbRecord /\ excusedKb'.vector = excusedKb.vector
          /\ excusedKb'.shelf
      BY <1>2, <2>1 DEF ExcusedKbRecord
    <2>3. KbTypes'
      BY <1>1, <1>2, <1>3, <2>1, <2>2, NothingThere DEF KbTypes, ExcusedKbRecord
    <2>4. CuratorsSound'
      BY <1>1, <2>1 DEF KbInv, CuratorsSound, Importing
    <2>5. RecomputeSound'
      BY <2>1, NothingThere DEF RecomputeSound
    <2>6. VectorsMatchQuestions' /\ ShelfIsCurrent'
      BY <1>2, <2>1, <2>2 DEF VectorsMatchQuestions, ShelfIsCurrent
    <2>7. QED
      BY <1>3, <2>3, <2>4, <2>5, <2>6 DEF KbInv
  <1>6. QED
    BY <1>4, <1>5

\* Another model, or a cache that expires, and nothing else.
LEMMA ModelOnly ==
  ASSUME KbInv, UNCHANGED <<entry, curator, recompute, retriever, excusedKb>>, inUse' \in KbModel, known' \in KbModel,
         shelf' = shelf \/ shelf' = NoShelf
  PROVE  KbInv'
  <1>1. KbTypes' /\ CuratorsSound'
    BY NothingThere DEF KbInv, KbTypes, CuratorsSound, Importing
  <1>2. Shelved' = Shelved
    BY DEF Shelved
  <1>3. RetrieversSound' /\ VectorsMatchQuestions' /\ ComparedLikeWithLike'
    BY <1>2 DEF KbInv, RetrieversSound, VectorsMatchQuestions, ComparedLikeWithLike
  <1>4. RecomputeSound'
    BY DEF KbInv, RecomputeSound, Exists
  <1>5. ShelfIsCurrent'
    BY <1>2, NothingThere DEF KbInv, ShelfIsCurrent, Dropping
  <1>6. QED
    BY <1>1, <1>3, <1>4, <1>5 DEF KbInv

LEMMA CuratorActions ==
  ASSUME KbInv, NEW c \in Curator,
         \/ \E todo \in SUBSET Entry, text \in Question : ImportEntries(c, todo, text)
         \/ \E works \in BOOLEAN : EmbedImport(c, works) \/ EmbedEdit(c, works)
         \/ \E x \in Entry : \/ InsertEntry(c, x) \/ FailInsert(c, x) \/ SaveEdit(c, x)
                             \/ \E text \in Question : EditEntry(c, x, text)
                             \/ SwitchEntry(c, x) \/ RemoveEntry(c, x)
         \/ DropShelf(c)
  PROVE  KbInv'
  BY ImportEntriesStep, EmbedStep, InsertEntryStep, FailInsertStep, EditEntryStep, SaveEditStep,
     SwitchEntryStep, RemoveEntryStep, DropShelfStep

LEMMA RetrieverActions ==
  ASSUME KbInv, NEW r \in Retriever,
         \/ BeginRetrieve(r) \/ ReadEntries(r) \/ FillShelf(r) \/ EndRetrieve(r)
         \/ \E works \in BOOLEAN : Retrieve(r, works)
  PROVE  KbInv'
  BY BeginRetrieveStep, RetrievalGoesOn, FillShelfStep

LEMMA NextKb == KbInv /\ [SalesKbNext]_kbVars => KbInv'
  <1> SUFFICES ASSUME KbInv, [SalesKbNext]_kbVars PROVE KbInv'
    OBVIOUS
  <1>0. inUse \in KbModel /\ known \in KbModel /\ Embedder \subseteq KbModel /\ NoModel \in KbModel
    BY DEF KbInv, KbTypes, KbModel
  <1>1. ASSUME NEW c \in Curator,
               \/ \E todo \in SUBSET Entry, text \in Question : ImportEntries(c, todo, text)
               \/ \E works \in BOOLEAN : EmbedImport(c, works) \/ EmbedEdit(c, works)
               \/ \E x \in Entry : \/ InsertEntry(c, x) \/ FailInsert(c, x) \/ SaveEdit(c, x)
                                   \/ \E text \in Question : EditEntry(c, x, text)
                                   \/ SwitchEntry(c, x) \/ RemoveEntry(c, x)
               \/ DropShelf(c)
        PROVE  KbInv'
    BY <1>1, CuratorActions
  <1>2. ASSUME NEW x \in Entry,
               WriteRow(x) \/ \E works \in BOOLEAN : EmbedRow(x, works)
        PROVE  KbInv'
    BY <1>2, WriteRowStep, EmbedRowStep
  <1>3. CASE BeginRecompute \/ EndRecompute
    BY <1>3, BeginRecomputeStep, EndRecomputeStep
  <1>4. ASSUME NEW r \in Retriever,
               \/ BeginRetrieve(r) \/ ReadEntries(r) \/ FillShelf(r) \/ EndRetrieve(r)
               \/ \E works \in BOOLEAN : Retrieve(r, works)
        PROVE  KbInv'
    BY <1>4, RetrieverActions
  <1>5. ASSUME NEW m \in Embedder, NEW here \in BOOLEAN, ChangeModel(m, here)
        PROVE  KbInv'
    <2>1. /\ inUse' \in KbModel /\ known' \in KbModel /\ shelf' = shelf
          /\ UNCHANGED <<entry, curator, recompute, retriever, excusedKb>>
      BY <1>0, <1>5 DEF ChangeModel
    <2>2. QED
      BY <2>1, ModelOnly
  <1>6. CASE KbCachesExpire
    <2>1. /\ inUse' \in KbModel /\ known' \in KbModel /\ (shelf' = shelf \/ shelf' = NoShelf)
          /\ UNCHANGED <<entry, curator, recompute, retriever, excusedKb>>
      BY <1>0, <1>6 DEF KbCachesExpire
    <2>2. QED
      BY <2>1, ModelOnly
  <1>7. CASE UNCHANGED kbVars
    <2>1. /\ inUse' \in KbModel /\ known' \in KbModel /\ shelf' = shelf
          /\ UNCHANGED <<entry, curator, recompute, retriever, excusedKb>>
      BY <1>0, <1>7 DEF kbVars
    <2>2. QED
      BY <2>1, ModelOnly
  <1>8. QED
    BY <1>1, <1>2, <1>3, <1>4, <1>5, <1>6, <1>7 DEF SalesKbNext

LEMMA KbKeepsUp ==
  KbInv => VectorsMatchQuestions /\ ComparedLikeWithLike /\ RecomputeReachesAll /\ ShelfIsCurrent
  <1> SUFFICES ASSUME KbInv PROVE VectorsMatchQuestions /\ ComparedLikeWithLike /\ RecomputeReachesAll /\ ShelfIsCurrent
    OBVIOUS
  <1>1. RecomputeReachesAll
    BY DEF KbInv, RecomputeSound, RecomputeReachesAll
  <1>2. QED
    BY <1>1 DEF KbInv

(* The sales assistant keeps its word: a counter that refuses visitors expires, unless the
   request that was to set the expiry died; a visitor is offered the discount once, unless two
   requests had both read the lead or the form took the mark away; the saved history is that
   of the last answer, unless saves were lost or overtook each other; the follow-up an operator
   chose stays, unless a text was on its way. An entry's vector is that of its question unless
   it was edited without a new one or while the vectors were recomputed; questions are compared
   with vectors of their own model; a recomputation without failures reaches every entry; the
   cached entries are the current ones unless an edit crossed the read or is still to drop them.
   (sales.service.ts, sales-admin.service.ts, sales-kb.service.ts) *)
THEOREM AssistantKeepsItsWord == PlatformSpec => []AssistantKeepsUp
  <1> DEFINE Inv == SalesInv /\ KbInv
  <1>1. Inv => AssistantKeepsUp
    BY SalesKeepsUp, KbKeepsUp DEF AssistantKeepsUp
  <1>2. PlatformInit => Inv
    BY InitSales, InitKb DEF PlatformInit
  <1>3. Inv /\ [PlatformNext]_platformVars => Inv'
    BY SalesStep, KbStep, NextSales, NextKb
  <1>4. QED
    BY <1>1, <1>2, <1>3, PTL DEF PlatformSpec
=============================================================================
