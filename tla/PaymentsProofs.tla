--------------------------- MODULE PaymentsProofs ---------------------------
(***************************************************************************)
(* Proofs about Payments.tla, for any sets of users, payments, handlers,   *)
(* codes and orders: the types, that settlement is all-or-nothing and      *)
(* happens once (SettledOnce), and that nothing is invoiced unpaid.        *)
(***************************************************************************)
EXTENDS Payments, SumProofs

USE DEF PC, Order

LEMMA InitIInv == Init => IInv
  <1> SUFFICES ASSUME Init PROVE IInv
    OBVIOUS
  <1>1. TypeOK
    BY DEF Init, TypeOK
  <1>2. RowsAndRequests
    BY DEF Init, RowsAndRequests
  <1>3. SettledOnce /\ InvoicedOnlyIfPaid
    BY NoneAssumption DEF Init, SettledOnce, InvoicedOnlyIfPaid, IsTopup, Redeems
  <1>4. QED
    BY <1>1, <1>2, <1>3 DEF IInv

LEMMA InitiateIInv ==
  ASSUME IInv, NEW h \in Handler, Initiate(h) \/ InitiateWalletTopup(h) \/ CheckCode(h)
  PROVE  IInv'
  <1> USE DEF Initiate, InitiateWalletTopup, CheckCode, Goto, rows, payer
  <1>1. TypeOK'
    BY NoneAssumption, OrdersAssumption DEF IInv, TypeOK
  <1>2. RowsAndRequests'
    BY NoneAssumption, OrdersAssumption DEF IInv, TypeOK, RowsAndRequests
  <1>3. SettledOnce' /\ InvoicedOnlyIfPaid'
    BY DEF IInv, SettledOnce, InvoicedOnlyIfPaid, IsTopup, Redeems
  <1>4. QED
    BY <1>1, <1>2, <1>3 DEF IInv

LEMMA CheckoutIInv ==
  ASSUME IInv, NEW h \in Handler, NEW p \in Payment, Checkout(h, p)
  PROVE  IInv'
  <1> USE DEF Checkout, Return, Goto
  <1>1. TypeOK'
    BY NoneAssumption DEF IInv, TypeOK, RowsAndRequests
  <1>2. RowsAndRequests'
    BY NoneAssumption DEF IInv, TypeOK, RowsAndRequests
  <1>3. p \notin invoice
    BY DEF IInv, TypeOK, RowsAndRequests, InvoicedOnlyIfPaid
  <1>4. SettledOnce'
    BY <1>3 DEF IInv, TypeOK, SettledOnce, IsTopup, Redeems
  <1>5. InvoicedOnlyIfPaid'
    BY <1>3 DEF IInv, TypeOK, InvoicedOnlyIfPaid
  <1>6. QED
    BY <1>1, <1>2, <1>4, <1>5 DEF IInv

\* The steps of a callback that write no row, up to the transaction or a refusal.
LEMMA CallbackIInv ==
  ASSUME IInv, NEW h \in Handler,
         \/ \E p \in Payment : FailureCallback(h, p) \/ SuccessCallback(h, p)
         \/ GatewayAnswer(h)
         \/ CountPrior(h)
         \/ RollBack(h)
         \/ Abort(h)
  PROVE  IInv'
  <1> USE DEF FailureCallback, SuccessCallback, GatewayAnswer, GatewayApproves, CountPrior,
              RollBack, Abort, Return, Goto, rows, payer
  <1>1. TypeOK'
    BY NoneAssumption DEF IInv, TypeOK
  <1>2. RowsAndRequests'
    <2>1. ASSUME NEW p \in Payment, FailureCallback(h, p) \/ SuccessCallback(h, p)
          PROVE  RowsAndRequests'
      <3>1. status[p] # "NONE"
        BY <2>1 DEF IInv, RowsAndRequests
      <3>2. QED
        BY <2>1, <3>1, NoneAssumption DEF IInv, TypeOK, RowsAndRequests
    <2>2. CASE GatewayAnswer(h) \/ CountPrior(h)
      BY <2>2 DEF IInv, TypeOK, RowsAndRequests
    <2>3. CASE RollBack(h) \/ Abort(h)
      BY <2>3 DEF IInv, TypeOK, RowsAndRequests
    <2>4. QED
      BY <2>1, <2>2, <2>3
  <1>3. SettledOnce' /\ InvoicedOnlyIfPaid'
    BY DEF IInv, SettledOnce, InvoicedOnlyIfPaid, IsTopup, Redeems
  <1>4. QED
    BY <1>1, <1>2, <1>3 DEF IInv

LEMMA MarkFailedIInv ==
  ASSUME IInv, NEW h \in Handler, MarkFailed(h)
  PROVE  IInv'
  <1> USE DEF MarkFailed, Return, Goto, payer
  <1>1. TypeOK'
    BY NoneAssumption DEF IInv, TypeOK
  <1>2. RowsAndRequests'
    BY NoneAssumption DEF IInv, TypeOK, RowsAndRequests
  <1>3. SettledOnce' /\ InvoicedOnlyIfPaid'
    BY DEF IInv, TypeOK, SettledOnce, InvoicedOnlyIfPaid, IsTopup, Redeems
  <1>4. QED
    BY <1>1, <1>2, <1>3 DEF IInv

\* The unique index on Invoice.paymentId is what the proof rests on: a payment
\* that is settled here had no invoice, hence neither credit nor redemption.
LEMMA SettleSubscriptionIInv ==
  ASSUME IInv, NEW h \in Handler, SettleSubscription(h)
  PROVE  IInv'
  <1> DEFINE p == target[h]
  <1> USE DEF SettleSubscription, Goto, payer
  <1>1. p \in Payment /\ order[p] \in Orders /\ p \notin invoice /\ gateway[p] = "paid"
    BY DEF IInv, TypeOK, RowsAndRequests, InvoiceExists
  <1>2. order[p].user \in User /\ order[p].plan \in Plan \cup {PaygPlan, None}
    BY <1>1, OrdersAssumption
  <1>3. order[p].code # None => order[p].code \in Code
    BY <1>1, OrdersAssumption
  <1>4. TypeOK'
    BY <1>1, <1>2, <1>3 DEF IInv, TypeOK, RecordRedemption
  <1>5. RowsAndRequests'
    BY <1>1, NoneAssumption DEF IInv, TypeOK, RowsAndRequests
  <1>6. SettledOnce'
    <2>1. ASSUME NEW q \in Payment \ {p}
          PROVE  /\ credit'[q] = credit[q] /\ order'[q] = order[q] /\ status'[q] = status[q]
                 /\ q \in invoice' <=> q \in invoice
                 /\ q \in redemption' <=> q \in redemption
      BY <1>1, <2>1 DEF IInv, TypeOK, RecordRedemption
    <2>2. p \notin redemption /\ credit[p] = 0
      BY <1>1 DEF IInv, SettledOnce
    <2>3. p \in redemption' <=> order[p].code # None
      BY <2>2 DEF RecordRedemption
    <2>4. order' = order /\ credit' = credit /\ p \in invoice' /\ order[p] # None
      BY <1>1, NoneAssumption, OrdersAssumption
    <2>5. QED
      BY <1>1, <2>1, <2>2, <2>3, <2>4 DEF IInv, SettledOnce, IsTopup, Redeems
  <1>7. InvoicedOnlyIfPaid'
    BY <1>1 DEF IInv, TypeOK, InvoicedOnlyIfPaid
  <1>8. QED
    BY <1>4, <1>5, <1>6, <1>7 DEF IInv

LEMMA SettleTopupIInv ==
  ASSUME IInv, NEW h \in Handler, SettleTopup(h)
  PROVE  IInv'
  <1> DEFINE p == target[h]
  <1> USE DEF SettleTopup, ToppedUp, Goto, payer
  <1>1. p \in Payment /\ order[p] \in Orders /\ p \notin invoice /\ gateway[p] = "paid"
    BY DEF IInv, TypeOK, RowsAndRequests, InvoiceExists
  <1>2. order[p].user \in User /\ order[p].topup \in Nat /\ order[p].code = None
    BY <1>1, OrdersAssumption
  <1>3. TypeOK'
    BY <1>1, <1>2 DEF IInv, TypeOK
  <1>4. RowsAndRequests'
    BY <1>1, NoneAssumption DEF IInv, TypeOK, RowsAndRequests
  <1>5. SettledOnce'
    <2>1. ASSUME NEW q \in Payment \ {p}
          PROVE  /\ credit'[q] = credit[q] /\ order'[q] = order[q] /\ status'[q] = status[q]
                 /\ q \in invoice' <=> q \in invoice
                 /\ q \in redemption' <=> q \in redemption
      BY <1>1, <2>1 DEF IInv, TypeOK
    <2>2. p \notin redemption /\ credit[p] = 0
      BY <1>1 DEF IInv, SettledOnce
    <2>3. order' = order /\ redemption' = redemption /\ p \in invoice' /\ order[p] # None
      BY <1>1, NoneAssumption, OrdersAssumption
    <2>4. credit'[p] = order[p].topup
      BY <1>1, <1>2, <2>2 DEF IInv, TypeOK
    <2>5. QED
      BY <1>1, <1>2, <2>1, <2>2, <2>3, <2>4 DEF IInv, SettledOnce, IsTopup, Redeems
  <1>6. InvoicedOnlyIfPaid'
    BY <1>1 DEF IInv, TypeOK, InvoicedOnlyIfPaid
  <1>7. QED
    BY <1>3, <1>4, <1>5, <1>6 DEF IInv

LEMMA FinishIInv ==
  ASSUME IInv, NEW h \in Handler, Finish(h)
  PROVE  IInv'
  <1> USE DEF Finish, Return, Goto, payer
  <1>1. IssuesReward(h) => order[target[h]].user \in User
    BY NoneAssumption, OrdersAssumption DEF IInv, TypeOK, RowsAndRequests
  <1>2. TypeOK'
    BY <1>1, NoneAssumption DEF IInv, TypeOK
  <1>3. RowsAndRequests'
    BY NoneAssumption DEF IInv, TypeOK, RowsAndRequests
  <1>4. SettledOnce' /\ InvoicedOnlyIfPaid'
    BY DEF IInv, SettledOnce, InvoicedOnlyIfPaid, IsTopup, Redeems
  <1>5. QED
    BY <1>2, <1>3, <1>4 DEF IInv

LEMMA PayerIInv ==
  ASSUME IInv, NEW p \in Payment, PayerPays(p) \/ PayerReturns(p)
  PROVE  IInv'
  <1> USE DEF PayerPays, PayerReturns, rows, requests
  <1>1. TypeOK'
    BY DEF IInv, TypeOK
  <1>2. RowsAndRequests'
    BY DEF IInv, TypeOK, RowsAndRequests
  <1>3. SettledOnce' /\ InvoicedOnlyIfPaid'
    BY DEF IInv, TypeOK, SettledOnce, InvoicedOnlyIfPaid, IsTopup, Redeems
  <1>4. QED
    BY <1>1, <1>2, <1>3 DEF IInv

LEMMA PeriodEndsIInv ==
  ASSUME IInv, NEW u \in User, PeriodEnds(u)
  PROVE  IInv'
  BY DEF PeriodEnds, payer, requests, IInv, TypeOK, RowsAndRequests, SettledOnce,
         InvoicedOnlyIfPaid, IsTopup, Redeems

LEMMA NextIInv == IInv /\ [Next]_vars => IInv'
  <1> SUFFICES ASSUME IInv, [Next]_vars PROVE IInv'
    OBVIOUS
  <1>1. ASSUME NEW h \in Handler, Serve(h) PROVE IInv'
    BY <1>1, InitiateIInv, CheckoutIInv, CallbackIInv, MarkFailedIInv,
       SettleSubscriptionIInv, SettleTopupIInv, FinishIInv DEF Serve
  <1>2. CASE UNCHANGED vars
    BY <1>2 DEF vars, rows, payer, requests, IInv, TypeOK, RowsAndRequests, SettledOnce,
                InvoicedOnlyIfPaid, IsTopup, Redeems
  <1>3. QED
    BY <1>1, <1>2, PayerIInv, PeriodEndsIInv DEF Next

THEOREM IInvHolds == Spec => []IInv
  BY InitIInv, NextIInv, PTL DEF Spec

\* The types of all variables, for every choice of the constants.
THEOREM TypeCorrect == Spec => []TypeOK
  BY IInvHolds, PTL DEF IInv

\* Whatever callbacks race, repeat or fail, each payment takes effect at most
\* once and all of its effects come together.
THEOREM EffectsExactlyOnce == Spec => []SettledOnce
  BY IInvHolds, PTL DEF IInv

\* No invoice without a payment at the gateway.
THEOREM NothingInvoicedUnpaid == Spec => []InvoicedOnlyIfPaid
  BY IInvHolds, PTL DEF IInv
-----------------------------------------------------------------------------
(* The activation minimum *)

LEMMA ActivationPersists ==
  ASSUME IInv, [Next]_vars, NEW u \in User, HasActivated(u)
  PROVE  HasActivated(u)'
  <1> PICK q \in invoice : IsTopup(q) /\ order[q].user = u /\ order[q].topup >= MinActivation
    BY DEF HasActivated
  <1>1. q \in Payment /\ order[q] # None /\ status[q] # "NONE"
    BY DEF IInv, TypeOK, RowsAndRequests, IsTopup
  <1>2. order'[q] = order[q]
    <2>1. ASSUME NEW h \in Handler, NEW p \in Payment, Checkout(h, p) PROVE order'[q] = order[q]
      BY <1>1, <2>1 DEF Checkout, IInv, TypeOK
    <2>2. CASE UNCHANGED order
      BY <2>2
    <2>3. QED
      BY <2>1, <2>2 DEF Next, Serve, Initiate, CheckCode, InitiateWalletTopup, FailureCallback,
         SuccessCallback, MarkFailed, GatewayAnswer, CountPrior, SettleSubscription, SettleTopup,
         RollBack, Finish, Abort, PayerPays, PayerReturns, PeriodEnds, vars, rows, payer
  <1>3. q \in invoice'
    BY DEF Next, Serve, Initiate, CheckCode, InitiateWalletTopup, Checkout, FailureCallback,
       SuccessCallback, MarkFailed, GatewayAnswer, CountPrior, SettleSubscription, SettleTopup,
       RollBack, Finish, Abort, PayerPays, PayerReturns, PeriodEnds, vars, rows, payer
  <1>4. QED
    BY <1>1, <1>2, <1>3 DEF HasActivated, IsTopup

\* A completed top-up of any size means the activation minimum was met: it is
\* either large itself or was opened after a large one.
LEMMA CompletedMeansActivated ==
  ASSUME IInv, SmallTopupsFollowActivation, NEW u \in User, CompletedTopups(u) # {}
  PROVE  HasActivated(u)
  <1> PICK p \in Payment : status[p] = "COMPLETED" /\ order[p].user = u /\ order[p].kind = "WALLET_TOPUP"
    BY DEF CompletedTopups, Completed
  <1>1. p \in invoice /\ IsTopup(p)
    BY DEF IInv, RowsAndRequests, SettledOnce, IsTopup
  <1>2. order[p].topup \in Nat
    BY <1>1, OrdersAssumption DEF IInv, TypeOK, IsTopup
  <1>3. CASE order[p].topup < MinActivation
    BY <1>1, <1>3 DEF SmallTopupsFollowActivation
  <1>4. CASE order[p].topup >= MinActivation
    BY <1>1, <1>4 DEF HasActivated
  <1>5. QED
    BY <1>2, <1>3, <1>4, AmountAssumption

LEMMA NextSmall ==
  IInv /\ SmallTopupsFollowActivation /\ SmallDraftsFollowActivation /\ [Next]_vars
    => (SmallTopupsFollowActivation /\ SmallDraftsFollowActivation)'
  <1> SUFFICES ASSUME IInv, SmallTopupsFollowActivation, SmallDraftsFollowActivation, [Next]_vars
               PROVE  (SmallTopupsFollowActivation /\ SmallDraftsFollowActivation)'
    OBVIOUS
  <1>1. ASSUME NEW p \in Payment, order'[p] # order[p]
        PROVE  \E h \in Handler : order'[p] = draft[h] /\ draft[h] # None
    <2>1. PICK h \in Handler, q \in Payment : Checkout(h, q)
      BY <1>1 DEF Next, Serve, Initiate, CheckCode, InitiateWalletTopup, FailureCallback,
         SuccessCallback, MarkFailed, GatewayAnswer, CountPrior, SettleSubscription, SettleTopup,
         RollBack, Finish, Abort, PayerPays, PayerReturns, PeriodEnds, vars, rows, payer
    <2>2. draft[h] # None
      BY <2>1 DEF Checkout, IInv, RowsAndRequests
    <2>3. order'[p] = draft[h]
      BY <1>1, <2>1 DEF Checkout, IInv, TypeOK
    <2>4. QED
      BY <2>2, <2>3
  <1>2. ASSUME NEW h \in Handler, draft'[h] # draft[h], draft'[h] # None,
               draft'[h].kind = "WALLET_TOPUP", draft'[h].topup < MinActivation
        PROVE  HasActivated(draft'[h].user)
    <2>1. PICK g \in Handler : Initiate(g) \/ InitiateWalletTopup(g)
      BY <1>2, NoneAssumption DEF IInv, TypeOK, Return, Next, Serve, CheckCode, Checkout,
         FailureCallback, SuccessCallback, MarkFailed, GatewayAnswer, CountPrior,
         SettleSubscription, SettleTopup, RollBack, Finish, Abort, PayerPays, PayerReturns,
         PeriodEnds, vars, requests
    <2>2. CASE Initiate(g)
      <3>1. draft'[h].kind = "SUBSCRIPTION"
        BY <1>2, <2>2 DEF Initiate, IInv, TypeOK
      <3>2. QED
        BY <1>2, <3>1
    <2>3. CASE InitiateWalletTopup(g)
      <3>1. /\ draft'[h] \in Orders
            /\ draft'[h].topup >= MinimumTopup(draft'[h].user)
        BY <1>2, <2>3 DEF InitiateWalletTopup, IInv, TypeOK
      <3>2. draft'[h].user \in User /\ draft'[h].topup \in Nat
        BY <3>1, OrdersAssumption
      <3>3. CompletedTopups(draft'[h].user) # {}
        BY <1>2, <3>1, <3>2, AmountAssumption DEF MinimumTopup
      <3>4. QED
        BY <3>2, <3>3, CompletedMeansActivated
    <2>4. QED
      BY <2>1, <2>2, <2>3
  <1>3. IInv'
    BY NextIInv
  <1>4. SmallTopupsFollowActivation'
    <2> SUFFICES ASSUME NEW p \in Payment, IsTopup(p)', order'[p].topup < MinActivation
                 PROVE  HasActivated(order[p].user)'
      BY DEF SmallTopupsFollowActivation
    <2>1. order'[p].user \in User /\ order'[p] # None /\ order'[p].kind = "WALLET_TOPUP"
      BY <1>3, OrdersAssumption DEF IInv, TypeOK, IsTopup
    <2>2. HasActivated(order'[p].user)
      <3>1. CASE order'[p] = order[p]
        BY <2>1, <3>1 DEF SmallTopupsFollowActivation, IsTopup
      <3>2. CASE order'[p] # order[p]
        BY <1>1, <2>1, <3>2 DEF SmallDraftsFollowActivation
      <3>3. QED
        BY <3>1, <3>2
    <2>3. QED
      BY <2>1, <2>2, ActivationPersists
  <1>5. SmallDraftsFollowActivation'
    <2> SUFFICES ASSUME NEW h \in Handler, draft'[h] # None,
                        draft'[h].kind = "WALLET_TOPUP", draft'[h].topup < MinActivation
                 PROVE  HasActivated(draft[h].user)'
      BY DEF SmallDraftsFollowActivation
    <2>1. draft'[h].user \in User
      BY <1>3, OrdersAssumption DEF IInv, TypeOK
    <2>2. HasActivated(draft'[h].user)
      BY <1>2 DEF SmallDraftsFollowActivation
    <2>3. QED
      BY <2>1, <2>2, ActivationPersists
  <1>6. QED
    BY <1>4, <1>5

\* The two minimums of initiateWalletTopup hold against every interleaving of
\* requests and callbacks.
THEOREM ActivationFirst == Spec => []SmallTopupsFollowActivation
  <1>1. Init => SmallTopupsFollowActivation /\ SmallDraftsFollowActivation
    BY DEF Init, SmallTopupsFollowActivation, SmallDraftsFollowActivation, IsTopup
  <1>2. QED
    BY <1>1, NextSmall, IInvHolds, PTL DEF Spec
-----------------------------------------------------------------------------
(* Payments implements Settlement: opening is Checkout, paying is PayerPays, *)
(* settling is one of the two transactions, every other step stutters.       *)

Paid == {p \in Payment : gateway[p] = "paid"}

LEMMA StutterStep ==
  ASSUME UNCHANGED <<order, gateway, invoice, balance, subscription>>
  PROVE  UNCHANGED Promise!svars
  BY DEF Promise!svars

LEMMA CheckoutOpens ==
  ASSUME IInv, NEW h \in Handler, NEW p \in Payment, Checkout(h, p)
  PROVE  Promise!Open(p)
  <1> USE DEF Checkout
  <1>1. order[p] = None /\ draft[h] \in Orders
    BY DEF IInv, TypeOK, RowsAndRequests
  <1>2. gateway[p] = "none"
    BY DEF IInv, TypeOK, RowsAndRequests
  <1>3. Paid' = Paid
    BY <1>2 DEF IInv, TypeOK, Paid
  <1>4. order' = [order EXCEPT ![p] = draft[h]]
    OBVIOUS
  <1>5. QED
    BY <1>1, <1>3, <1>4 DEF Promise!Open, Paid

LEMMA PayingPays ==
  ASSUME IInv, NEW p \in Payment, PayerPays(p)
  PROVE  Promise!Pay(p)
  <1> USE DEF PayerPays, rows
  <1>1. order[p] # None /\ p \notin Paid
    BY DEF IInv, RowsAndRequests, Paid
  <1>2. Paid' = Paid \cup {p}
    BY DEF IInv, TypeOK, Paid
  <1>3. QED
    BY <1>1, <1>2 DEF Promise!Pay, Paid

LEMMA TransactionSettles ==
  ASSUME IInv, NEW h \in Handler, SettleSubscription(h) \/ SettleTopup(h)
  PROVE  Promise!Settle(target[h])
  <1> DEFINE p == target[h]
  <1> USE DEF payer
  <1>1. p \in Paid \ invoice
    BY DEF IInv, TypeOK, RowsAndRequests, InvoiceExists, Paid, SettleSubscription, SettleTopup
  <1>2. Paid' = Paid
    BY DEF Paid, SettleSubscription, SettleTopup
  <1>3. CASE SettleSubscription(h)
    BY <1>1, <1>2, <1>3 DEF SettleSubscription, Promise!Settle, Paid
  <1>4. CASE SettleTopup(h)
    BY <1>1, <1>2, <1>4 DEF SettleTopup, ToppedUp, Promise!Settle, Paid
  <1>5. QED
    BY <1>3, <1>4

LEMMA StepRefines == IInv /\ [Next]_vars => [Promise!SNext]_Promise!svars
  <1> SUFFICES ASSUME IInv, [Next]_vars PROVE Promise!SNext \/ UNCHANGED Promise!svars
    OBVIOUS
  <1>1. ASSUME NEW h \in Handler, Serve(h) PROVE Promise!SNext \/ UNCHANGED Promise!svars
    <2>1. CASE \E p \in Payment : Checkout(h, p)
      BY <2>1, CheckoutOpens DEF Promise!SNext
    <2>2. CASE SettleSubscription(h) \/ SettleTopup(h)
      <3>1. target[h] \in Payment
        BY <2>2 DEF IInv, TypeOK, RowsAndRequests, SettleSubscription, SettleTopup
      <3>2. QED
        BY <2>2, <3>1, TransactionSettles DEF Promise!SNext
    <2>3. CASE \/ Initiate(h) \/ CheckCode(h) \/ InitiateWalletTopup(h)
               \/ \E p \in Payment : FailureCallback(h, p) \/ SuccessCallback(h, p)
               \/ MarkFailed(h) \/ GatewayAnswer(h) \/ CountPrior(h)
               \/ RollBack(h) \/ Finish(h) \/ Abort(h)
      <3>1. UNCHANGED <<order, gateway, invoice, balance, subscription>>
        BY <2>3 DEF Initiate, CheckCode, InitiateWalletTopup, FailureCallback, SuccessCallback,
                    MarkFailed, GatewayAnswer, CountPrior, RollBack, Finish, Abort, rows, payer
      <3>2. QED
        BY <3>1, StutterStep
    <2>4. QED
      BY <1>1, <2>1, <2>2, <2>3 DEF Serve
  <1>2. ASSUME NEW p \in Payment, PayerPays(p) PROVE Promise!SNext
    BY <1>2, PayingPays DEF Promise!SNext
  <1>3. CASE \/ \E p \in Payment : PayerReturns(p)
             \/ \E u \in User : PeriodEnds(u)
             \/ UNCHANGED vars
    <2>1. UNCHANGED <<order, gateway, invoice, balance, subscription>>
      BY <1>3 DEF PayerReturns, PeriodEnds, vars, rows, payer
    <2>2. QED
      BY <2>1, StutterStep
  <1>4. QED
    BY <1>1, <1>2, <1>3 DEF Next

LEMMA InitRefines == Init => Promise!SInit
  BY DEF Init, Promise!SInit

\* The requests, callbacks and races of the payment service amount to orders
\* that are opened, paid and settled, each at most once.
THEOREM Refinement == Spec => ImplementsSettlement
  BY InitRefines, StepRefines, IInvHolds, PTL DEF Spec, ImplementsSettlement, Promise!SSpec
-----------------------------------------------------------------------------
(* What the tables count twice *)

\* An invoice, and with it a redemption, keeps the columns of its payment.
LEMMA InvoicedKeepRow ==
  ASSUME IInv, [Next]_vars
  PROVE  /\ \A p \in invoice : p \in Payment /\ order[p] \in Orders /\ order'[p] = order[p]
         /\ redemption \subseteq invoice /\ redemption \subseteq Payment /\ invoice \subseteq Payment
         /\ IsFiniteSet(Payment) /\ IsFiniteSet(redemption) /\ IsFiniteSet(invoice)
  <1>1. \A p \in invoice : p \in Payment /\ status[p] # "NONE" /\ order[p] \in Orders
    BY NoneAssumption DEF IInv, TypeOK, RowsAndRequests, InvoicedOnlyIfPaid
  <1>2. redemption \subseteq invoice
    BY DEF IInv, TypeOK, SettledOnce
  <1>3. ASSUME NEW q \in invoice PROVE order'[q] = order[q]
    <2>1. ASSUME NEW h \in Handler, NEW p \in Payment, Checkout(h, p) PROVE order'[q] = order[q]
      BY <1>1, <2>1 DEF Checkout, IInv, TypeOK
    <2>2. CASE UNCHANGED order
      BY <2>2
    <2>3. QED
      BY <2>1, <2>2 DEF Next, Serve, Initiate, CheckCode, InitiateWalletTopup, FailureCallback,
         SuccessCallback, MarkFailed, GatewayAnswer, CountPrior, SettleSubscription, SettleTopup,
         RollBack, Finish, Abort, PayerPays, PayerReturns, PeriodEnds, vars, rows, payer
  <1>4. IsFiniteSet(Payment) /\ invoice \subseteq Payment
    BY PaymentAssumption DEF IInv, TypeOK
  <1>5. IsFiniteSet(invoice) /\ IsFiniteSet(redemption)
    BY <1>2, <1>4, FS_Subset
  <1>6. QED
    BY <1>1, <1>2, <1>3, <1>4, <1>5

RedeemedWith(c) == {p \in redemption : order[p].code = c}

LEMMA NextUses == IInv /\ UsesAreRedemptions /\ [Next]_vars => UsesAreRedemptions'
  <1> SUFFICES ASSUME IInv, UsesAreRedemptions, [Next]_vars, NEW c \in Code
               PROVE  usedCount'[c] = Cardinality(RedeemedWith(c)')
    BY DEF UsesAreRedemptions, RedeemedWith
  <1>1. /\ \A p \in redemption : p \in invoice /\ order'[p] = order[p]
        /\ IsFiniteSet(RedeemedWith(c))
    BY InvoicedKeepRow, FS_Subset DEF RedeemedWith
  <1>2. usedCount[c] = Cardinality(RedeemedWith(c)) /\ usedCount \in [Code -> Nat]
    BY DEF UsesAreRedemptions, RedeemedWith, IInv, TypeOK
  <1>3. CASE UNCHANGED <<redemption, usedCount>>
    <2>1. RedeemedWith(c)' = RedeemedWith(c)
      BY <1>1, <1>3 DEF RedeemedWith
    <2>2. QED
      BY <1>2, <1>3, <2>1
  <1>4. ASSUME NEW h \in Handler, SettleSubscription(h), order[target[h]].code # None
        PROVE  usedCount'[c] = Cardinality(RedeemedWith(c)')
    <2> DEFINE p == target[h]
    <2>1. p \in Payment /\ order[p] \in Orders /\ p \notin invoice
      BY <1>4 DEF SettleSubscription, IInv, TypeOK, RowsAndRequests, InvoiceExists
    <2>2. p \notin redemption /\ order[p].code \in Code
      BY <1>1, <1>4, <2>1, OrdersAssumption
    <2>3. /\ redemption' = redemption \cup {p} /\ order' = order
          /\ usedCount' = [usedCount EXCEPT ![order[p].code] = @ + 1]
      BY <1>4 DEF SettleSubscription, RecordRedemption
    <2>4. CASE order[p].code = c
      <3>1. RedeemedWith(c)' = RedeemedWith(c) \cup {p} /\ p \notin RedeemedWith(c)
        BY <2>2, <2>3, <2>4 DEF RedeemedWith
      <3>2. Cardinality(RedeemedWith(c) \cup {p}) = Cardinality(RedeemedWith(c)) + 1
        BY <1>1, <3>1, FS_AddElement
      <3>3. usedCount'[c] = usedCount[c] + 1
        BY <1>2, <2>3, <2>4
      <3>4. QED
        BY <1>2, <3>1, <3>2, <3>3
    <2>5. CASE order[p].code # c
      <3>1. RedeemedWith(c)' = RedeemedWith(c)
        BY <2>2, <2>3, <2>5 DEF RedeemedWith
      <3>2. usedCount'[c] = usedCount[c]
        BY <1>2, <2>3, <2>5
      <3>3. QED
        BY <1>2, <3>1, <3>2
    <2>6. QED
      BY <2>4, <2>5
  <1>5. QED
    BY <1>3, <1>4 DEF Next, Serve, Initiate, CheckCode, InitiateWalletTopup, Checkout,
       FailureCallback, SuccessCallback, MarkFailed, GatewayAnswer, CountPrior, SettleSubscription,
       RecordRedemption, SettleTopup, RollBack, Finish, Abort, PayerPays, PayerReturns,
       PeriodEnds, vars, rows, payer

\* The sum of the amounts of some payments, as a sum of integers.
TopupsOf(f, S) == MapThenSumSet(LAMBDA p : f[p].topup, S)
Amount(f, S) == [p \in S |-> f[p].topup]

LEMMA TopupsAreTotal ==
  ASSUME NEW f, NEW S, IsFiniteSet(S), \A p \in S : f[p].topup \in Int
  PROVE  TopupsOf(f, S) = SumOver(Amount(f, S), S)
  <1> DEFINE F == Amount(f, S)
             Solves(it) == it = [s \in SUBSET S |->
               IF s = {} THEN 0 ELSE f[CHOOSE x \in s : TRUE].topup + it[s \ {CHOOSE x \in s : TRUE}]]
             h == CHOOSE it : it = [s \in SUBSET S |->
               IF s = {} THEN 0 ELSE f[CHOOSE x \in s : TRUE].topup + it[s \ {CHOOSE x \in s : TRUE}]]
  <1>1. \A s \in SUBSET S : s # {} => F[CHOOSE x \in s : TRUE] = f[CHOOSE x \in s : TRUE].topup
    BY DEF Amount
  <1>2. \A it : Solves(it) <=> Summed(F, S, it)
    <2> HIDE DEF F
    <2>1. QED
      BY <1>1 DEF Summed, SumFrom, Picked
  <1>3. \A x \in S : F[x] \in Int
    BY DEF Amount
  <1> HIDE DEF F
  <1>4. PICK g \in [SUBSET S -> Int] : Summed(F, S, g)
    BY <1>3, SumExists
  <1>5. h = CHOOSE it : Solves(it)
    OBVIOUS
  <1>6. TopupsOf(f, S) = h[S]
    BY DEF TopupsOf, MapThenSumSet, MapThenFoldSet
  <1> HIDE DEF Solves, h
  <1>7. Summed(F, S, h)
    BY <1>2, <1>4, <1>5
  <1>8. S \in SUBSET S
    OBVIOUS
  <1>9. SumOver(F, S) = h[S]
    BY <1>7, <1>8, TotalIs
  <1>10. QED
    BY <1>6, <1>9 DEF F

ToppedUpBy(u) == {p \in invoice : IsTopup(p) /\ order[p].user = u}

BalanceCounted == \A u \in User : balance[u] = TopupsOf(order, ToppedUpBy(u))

LEMMA BalanceIsCounted == BalanceCounted => BalanceIsInvoiced
  BY DEF BalanceCounted, BalanceIsInvoiced, TopupsOf, ToppedUpBy

LEMMA NextBalance == IInv /\ BalanceCounted /\ [Next]_vars => BalanceCounted'
  <1> SUFFICES ASSUME IInv, BalanceCounted, [Next]_vars, NEW u \in User
               PROVE  balance'[u] = TopupsOf(order', ToppedUpBy(u)')
    BY DEF BalanceCounted
  <1> DEFINE S == ToppedUpBy(u)
  <1>1. balance[u] = TopupsOf(order, S)
    BY DEF BalanceCounted
  <1>2. /\ \A p \in invoice : p \in Payment /\ order[p].topup \in Nat /\ order'[p] = order[p]
        /\ IsFiniteSet(invoice) /\ S \subseteq invoice
    BY InvoicedKeepRow, OrdersAssumption DEF ToppedUpBy
  <1>3. IsFiniteSet(S)
    BY <1>2, FS_Subset
  <1>4. balance \in [User -> Nat]
    BY DEF IInv, TypeOK
  <1> HIDE DEF S
  \* The old rows count the same with the old columns and with the new.
  <1>5. TopupsOf(order', S) = TopupsOf(order, S)
    <2>1. \A p \in S : order[p].topup \in Int /\ order'[p].topup \in Int
      BY <1>2
    <2>2. Amount(order', S) = Amount(order, S)
      BY <1>2 DEF Amount
    <2>3. QED
      BY <1>3, <2>1, <2>2, TopupsAreTotal
  <1>6. CASE UNCHANGED <<invoice, balance>>
    <2>1. ToppedUpBy(u)' = S
      BY <1>2, <1>6 DEF ToppedUpBy, IsTopup, S
    <2>2. QED
      BY <1>1, <1>5, <1>6, <2>1
  <1>7. ASSUME NEW h \in Handler, SettleSubscription(h)
        PROVE  balance'[u] = TopupsOf(order', ToppedUpBy(u)')
    <2>1. order[target[h]].kind = "SUBSCRIPTION" /\ invoice' = invoice \cup {target[h]}
          /\ order' = order /\ balance' = balance
      BY <1>7 DEF SettleSubscription
    <2>2. ToppedUpBy(u)' = S
      BY <2>1 DEF ToppedUpBy, IsTopup, S
    <2>3. QED
      BY <1>1, <1>5, <2>1, <2>2
  <1>8. ASSUME NEW h \in Handler, SettleTopup(h)
        PROVE  balance'[u] = TopupsOf(order', ToppedUpBy(u)')
    <2> DEFINE p == target[h]
    <2>1. p \in Payment /\ order[p] \in Orders /\ p \notin invoice
      BY <1>8 DEF SettleTopup, IInv, TypeOK, RowsAndRequests, InvoiceExists
    <2>2. /\ order[p].kind = "WALLET_TOPUP" /\ invoice' = invoice \cup {p} /\ order' = order
          /\ balance' = [balance EXCEPT ![order[p].user] = balance[order[p].user] + order[p].topup]
      BY <1>8 DEF SettleTopup, ToppedUp
    <2>3. order[p] # None /\ order[p].topup \in Nat
      BY <2>1, NoneAssumption, OrdersAssumption
    <2> HIDE DEF p
    <2>4. CASE order[p].user = u
      <3>1. ToppedUpBy(u)' = S \cup {p} /\ p \notin S
        BY <2>1, <2>2, <2>3, <2>4 DEF ToppedUpBy, IsTopup, S
      <3> DEFINE T == S \cup {p}
      <3>2. IsFiniteSet(T) /\ \A q \in T : order[q].topup \in Int
        BY <1>2, <1>3, <2>3, FS_AddElement
      <3>3. TopupsOf(order, T) = SumOver(Amount(order, T), T)
        <4> HIDE DEF T
        <4>1. QED
          BY <3>2, TopupsAreTotal
      <3>4. \A q \in T : Amount(order, T)[q] \in Int /\ Amount(order, T)[q] = order[q].topup
        BY <3>2 DEF Amount
      <3>5. SumOver(Amount(order, T), T) = SumOver(Amount(order, T), S) + order[p].topup
        <4> DEFINE F == Amount(order, T)
        <4>1. \A q \in S \cup {p} : F[q] \in Int
          BY <3>4
        <4>2. F[p] = order[p].topup
          BY <3>4
        <4> HIDE DEF F
        <4>3. SumOver(F, S \cup {p}) = SumOver(F, S) + F[p]
          BY <1>3, <3>1, <4>1, TotalAdd
        <4>4. QED
          BY <4>2, <4>3 DEF F
      <3>6. SumOver(Amount(order, T), S) = SumOver(Amount(order, S), S)
        <4> DEFINE F == Amount(order, T)
                   G == Amount(order, S)
        <4>1. \A q \in S : F[q] \in Int /\ F[q] = G[q]
          BY <3>4 DEF Amount
        <4> HIDE DEF F, G
        <4>2. SumOver(F, S) = SumOver(G, S)
          BY <1>3, <4>1, TotalSame
        <4>3. QED
          BY <4>2 DEF F, G
      <3>7. SumOver(Amount(order, S), S) = balance[u]
        <4>1. \A q \in S : order[q].topup \in Int
          BY <1>2
        <4>2. QED
          BY <1>1, <1>3, <4>1, TopupsAreTotal
      <3>8. balance'[u] = balance[u] + order[p].topup
        BY <1>4, <2>2, <2>4
      <3>9. QED
        BY <2>2, <3>1, <3>3, <3>5, <3>6, <3>7, <3>8
    <2>5. CASE order[p].user # u
      <3>1. ToppedUpBy(u)' = S
        BY <2>2, <2>5 DEF ToppedUpBy, IsTopup, S
      <3>2. balance'[u] = balance[u]
        BY <1>4, <2>2, <2>5
      <3>3. QED
        BY <1>1, <1>5, <3>1, <3>2
    <2>6. QED
      BY <2>4, <2>5
  <1>9. QED
    BY <1>6, <1>7, <1>8 DEF Next, Serve, Initiate, CheckCode, InitiateWalletTopup, Checkout,
       FailureCallback, SuccessCallback, MarkFailed, GatewayAnswer, CountPrior, RollBack,
       Finish, Abort, PayerPays, PayerReturns, PeriodEnds, vars, rows, payer

BoughtBy(u) == {p \in invoice : ~IsTopup(p) /\ order[p].user = u}

\* Settled subscriptions whose reward is still to be issued: each has a handler of its own.
ToReward(u) == {p \in invoice : \E h \in Handler : pc[h] = "settled" /\ target[h] = p /\ IssuesReward(h)
                                                   /\ order[p].user = u}
RewardsCounted ==
  /\ \A h \in Handler : pc[h] = "settled" => target[h] \in invoice
  /\ \A g, h \in Handler : pc[g] = "settled" /\ pc[h] = "settled" /\ target[g] = target[h] => g = h
  /\ \A u \in User : reward[u] + Cardinality(ToReward(u)) =< Cardinality(BoughtBy(u))

LEMMA InitCounted == Init => UsesAreRedemptions /\ BalanceCounted /\ RewardsCounted
  <1> SUFFICES ASSUME Init PROVE UsesAreRedemptions /\ BalanceCounted /\ RewardsCounted
    OBVIOUS
  <1>1. \A c \in Code : {p \in redemption : order[p].code = c} = {}
    BY DEF Init
  <1>2. \A u \in User : ToppedUpBy(u) = {} /\ BoughtBy(u) = {} /\ ToReward(u) = {}
    BY DEF Init, ToppedUpBy, BoughtBy, ToReward
  <1>3. TopupsOf(order, {}) = 0
    <2>1. TopupsOf(order, {}) = SumOver(Amount(order, {}), {})
      BY FS_EmptySet, TopupsAreTotal
    <2>2. QED
      BY <2>1, TotalEmpty
  <1>4. UsesAreRedemptions
    BY <1>1, FS_EmptySet DEF Init, UsesAreRedemptions
  <1>5. BalanceCounted
    BY <1>2, <1>3 DEF Init, BalanceCounted
  <1>6. RewardsCounted
    <2>1. \A h \in Handler : pc[h] # "settled"
      BY DEF Init
    <2>2. \A u \in User : reward[u] = 0
      BY DEF Init
    <2>3. Cardinality({}) = 0
      BY FS_EmptySet
    <2>4. QED
      BY <1>2, <2>1, <2>2, <2>3, SMTT(30) DEF RewardsCounted
  <1>7. QED
    BY <1>4, <1>5, <1>6

LEMMA NextRewards == IInv /\ RewardsCounted /\ [Next]_vars => RewardsCounted'
  <1> SUFFICES ASSUME IInv, RewardsCounted, [Next]_vars PROVE RewardsCounted'
    OBVIOUS
  <1>1. /\ \A p \in invoice : p \in Payment /\ order[p] \in Orders /\ order[p] # None
                              /\ order[p].user \in User /\ order'[p] = order[p]
        /\ IsFiniteSet(invoice)
    BY InvoicedKeepRow, NoneAssumption, OrdersAssumption
  <1>2. \A u \in User : /\ IsFiniteSet(ToReward(u)) /\ IsFiniteSet(BoughtBy(u))
                        /\ Cardinality(ToReward(u)) \in Nat /\ Cardinality(BoughtBy(u)) \in Nat
    BY <1>1, FS_Subset, FS_CardinalityType DEF ToReward, BoughtBy
  <1>3. reward \in [User -> Nat] /\ pc \in [Handler -> PC] /\ target \in [Handler -> Payment \cup {None}]
        /\ first \subseteq Handler
    BY DEF IInv, TypeOK
  \* Handlers that stay out of the last step, and those in it, which stay as they are.
  <1>4. ASSUME UNCHANGED <<invoice, reward>>,
               \A h \in Handler : pc'[h] = "settled" => pc[h] = "settled" /\ target'[h] = target[h]
                                                        /\ (h \in first' <=> h \in first)
        PROVE  RewardsCounted'
    <2>1. ASSUME NEW u \in User PROVE ToReward(u)' \subseteq ToReward(u)
      BY <1>1, <1>4 DEF ToReward, IssuesReward, RewardsCounted
    <2>2. ASSUME NEW u \in User PROVE BoughtBy(u)' = BoughtBy(u)
      BY <1>1, <1>4 DEF BoughtBy, IsTopup
    <2>3. ASSUME NEW u \in User
          PROVE  reward'[u] + Cardinality(ToReward(u)') =< Cardinality(BoughtBy(u)')
      <3>1. Cardinality(ToReward(u)') =< Cardinality(ToReward(u)) /\ Cardinality(ToReward(u)') \in Nat
        BY <1>2, <2>1, FS_Subset, FS_CardinalityType
      <3>2. reward[u] + Cardinality(ToReward(u)) =< Cardinality(BoughtBy(u)) /\ reward[u] \in Nat
        BY <1>3 DEF RewardsCounted
      <3>3. QED
        BY <1>2, <1>4, <2>2, <3>1, <3>2
    <2>4. QED
      BY <1>4, <2>3 DEF RewardsCounted
  <1>5. ASSUME NEW h \in Handler, SettleSubscription(h) \/ SettleTopup(h) PROVE RewardsCounted'
    <2> DEFINE p == target[h]
    <2>1. /\ p \in Payment /\ p \notin invoice /\ pc[h] = "settle"
          /\ order[p] # None /\ order[p] \in Orders
      BY <1>5, NoneAssumption DEF SettleSubscription, SettleTopup, IInv, TypeOK, RowsAndRequests, InvoiceExists
    <2>2. /\ invoice' = invoice \cup {p} /\ pc' = [pc EXCEPT ![h] = "settled"] /\ order' = order
          /\ UNCHANGED <<target, first, reward>>
      BY <1>5 DEF SettleSubscription, SettleTopup, Goto
    <2>2a. order[p].kind \in {"SUBSCRIPTION", "WALLET_TOPUP"}
      BY <2>1, OrdersAssumption
    <2> HIDE DEF p
    <2>3. \A g \in Handler : pc'[g] = "settled" <=> g = h \/ pc[g] = "settled"
      BY <1>3, <2>1, <2>2
    <2>4. \A g \in Handler : pc'[g] = "settled" => target'[g] \in invoice'
      BY <2>2, <2>3 DEF RewardsCounted, p
    <2>5. \A g, k \in Handler : pc'[g] = "settled" /\ pc'[k] = "settled" /\ target'[g] = target'[k] => g = k
      BY <2>1, <2>2, <2>3 DEF RewardsCounted, p
    <2>6. ASSUME NEW u \in User
          PROVE  reward'[u] + Cardinality(ToReward(u)') =< Cardinality(BoughtBy(u)')
      <3>1. reward[u] + Cardinality(ToReward(u)) =< Cardinality(BoughtBy(u)) /\ reward[u] \in Nat
        BY <1>3 DEF RewardsCounted
      <3>2. CASE order[p].kind = "SUBSCRIPTION" /\ order[p].user = u
        <4>1. BoughtBy(u)' = BoughtBy(u) \cup {p} /\ p \notin BoughtBy(u)
          BY <1>1, <2>1, <2>2, <3>2 DEF BoughtBy, IsTopup
        <4>2. ToReward(u)' \subseteq ToReward(u) \cup {p} /\ p \notin ToReward(u)
          BY <2>1, <2>2, <2>3 DEF ToReward, IssuesReward, p
        <4>3. Cardinality(BoughtBy(u)') = Cardinality(BoughtBy(u)) + 1
          BY <1>2, <4>1, FS_AddElement
        <4>4. IsFiniteSet(ToReward(u) \cup {p})
              /\ Cardinality(ToReward(u) \cup {p}) = Cardinality(ToReward(u)) + 1
          BY <1>2, <4>2, FS_AddElement
        <4>5. Cardinality(ToReward(u)') =< Cardinality(ToReward(u)) + 1 /\ Cardinality(ToReward(u)') \in Nat
          BY <4>2, <4>4, FS_Subset, FS_CardinalityType
        <4>6. QED
          BY <1>2, <2>2, <3>1, <4>3, <4>5
      <3>3. CASE ~(order[p].kind = "SUBSCRIPTION" /\ order[p].user = u)
        <4>1. BoughtBy(u)' = BoughtBy(u)
          BY <1>1, <2>1, <2>2, <2>2a, <3>3 DEF BoughtBy, IsTopup
        <4>2. ToReward(u)' \subseteq ToReward(u)
          BY <2>1, <2>2, <2>3, <3>3 DEF ToReward, IssuesReward, p
        <4>3. Cardinality(ToReward(u)') =< Cardinality(ToReward(u)) /\ Cardinality(ToReward(u)') \in Nat
          BY <1>2, <4>2, FS_Subset, FS_CardinalityType
        <4>4. QED
          BY <1>2, <2>2, <3>1, <4>1, <4>3
      <3>4. QED
        BY <3>2, <3>3
    <2>7. QED
      BY <2>4, <2>5, <2>6 DEF RewardsCounted
  <1>6. ASSUME NEW h \in Handler, Finish(h) PROVE RewardsCounted'
    <2> DEFINE p == target[h]
    <2>1. p \in invoice /\ pc[h] = "settled"
      BY <1>6 DEF Finish, RewardsCounted
    <2>2. /\ invoice' = invoice /\ order' = order
          /\ pc' = [pc EXCEPT ![h] = "idle"] /\ target' = [target EXCEPT ![h] = None] /\ first' = first \ {h}
      BY <1>6 DEF Finish, Return, Goto
    <2>3. reward' = IF IssuesReward(h) THEN [reward EXCEPT ![order[p].user] = reward[order[p].user] + 1]
                    ELSE reward
      BY <1>6 DEF Finish
    <2> HIDE DEF p
    <2>4. \A g \in Handler : pc'[g] = "settled" => /\ g # h /\ pc[g] = "settled" /\ target'[g] = target[g]
                                                   /\ (g \in first' <=> g \in first)
      BY <1>3, <2>2
    <2>5. ASSUME NEW u \in User
          PROVE  reward'[u] + Cardinality(ToReward(u)') =< Cardinality(BoughtBy(u)')
      <3>1. reward[u] + Cardinality(ToReward(u)) =< Cardinality(BoughtBy(u)) /\ reward[u] \in Nat
        BY <1>3 DEF RewardsCounted
      <3>2. BoughtBy(u)' = BoughtBy(u)
        BY <2>2 DEF BoughtBy, IsTopup
      <3>3. ToReward(u)' \subseteq ToReward(u)
        BY <2>2, <2>4 DEF ToReward, IssuesReward
      <3>4. CASE IssuesReward(h) /\ order[p].user = u
        <4>1. p \in ToReward(u)
          BY <2>1, <3>4 DEF ToReward, p
        <4>2. p \notin ToReward(u)'
          BY <2>1, <2>2, <2>4 DEF ToReward, RewardsCounted, p
        <4>3. ToReward(u)' \subseteq ToReward(u) \ {p}
          BY <3>3, <4>2
        <4>4. IsFiniteSet(ToReward(u) \ {p}) /\ Cardinality(ToReward(u) \ {p}) = Cardinality(ToReward(u)) - 1
          BY <1>2, <4>1, FS_RemoveElement
        <4>5. Cardinality(ToReward(u)') =< Cardinality(ToReward(u)) - 1 /\ Cardinality(ToReward(u)') \in Nat
          BY <4>3, <4>4, FS_Subset, FS_CardinalityType
        <4>6. reward'[u] = reward[u] + 1
          BY <1>3, <2>3, <3>4
        <4>7. QED
          BY <1>2, <3>1, <3>2, <4>5, <4>6
      <3>5. CASE ~(IssuesReward(h) /\ order[p].user = u)
        <4>1. reward'[u] = reward[u]
          BY <1>1, <1>3, <2>1, <2>3, <3>5
        <4>2. Cardinality(ToReward(u)') =< Cardinality(ToReward(u)) /\ Cardinality(ToReward(u)') \in Nat
          BY <1>2, <3>3, FS_Subset, FS_CardinalityType
        <4>3. QED
          BY <1>2, <3>1, <3>2, <4>1, <4>2
      <3>6. QED
        BY <3>4, <3>5
    <2>6. QED
      BY <2>2, <2>4, <2>5 DEF RewardsCounted
  <1>7. ASSUME NEW h \in Handler,
               \/ Initiate(h) \/ CheckCode(h) \/ InitiateWalletTopup(h)
               \/ \E p \in Payment : Checkout(h, p) \/ FailureCallback(h, p) \/ SuccessCallback(h, p)
               \/ MarkFailed(h) \/ GatewayAnswer(h) \/ CountPrior(h) \/ RollBack(h) \/ Abort(h)
        PROVE  RewardsCounted'
    <2>1. /\ UNCHANGED <<invoice, reward>>
          /\ pc'[h] # "settled"
          /\ \A g \in Handler : g # h => /\ pc'[g] = pc[g] /\ target'[g] = target[g]
                                         /\ (g \in first' <=> g \in first)
      BY <1>3, <1>7 DEF Initiate, CheckCode, InitiateWalletTopup, Checkout, FailureCallback,
         SuccessCallback, MarkFailed, GatewayAnswer, CountPrior, RollBack, Abort, Return, Goto, rows
    <2>2. QED
      BY <1>4, <2>1
  <1>8. CASE \/ \E p \in Payment : PayerPays(p) \/ PayerReturns(p)
             \/ \E u \in User : PeriodEnds(u)
             \/ UNCHANGED vars
    BY <1>4, <1>8 DEF PayerPays, PayerReturns, PeriodEnds, vars, rows, requests
  <1>9. QED
    BY <1>5, <1>6, <1>7, <1>8 DEF Next, Serve

\* What the rows say twice they say alike, for any number of requests, callbacks and
\* failures: a code's counter (recordRedemption), a wallet's balance (completeWalletTopup)
\* and the rewards of a referral (issueReferralRewards) are what the invoices add up to.
THEOREM LedgerAddsUp == Spec => []RowsAddUp
  <1>1. RewardsCounted /\ IInv => RewardsAreEarned
    <2> SUFFICES ASSUME RewardsCounted, IInv, NEW u \in User
                 PROVE  reward[u] <= Cardinality(BoughtBy(u))
      BY DEF RewardsAreEarned, BoughtBy
    <2>1. reward[u] \in Nat /\ reward[u] + Cardinality(ToReward(u)) =< Cardinality(BoughtBy(u))
      BY DEF IInv, TypeOK, RewardsCounted
    <2>2. IsFiniteSet(Payment) /\ invoice \subseteq Payment
      BY PaymentAssumption DEF IInv, TypeOK
    <2>3. IsFiniteSet(ToReward(u)) /\ IsFiniteSet(BoughtBy(u))
      BY <2>2, FS_Subset DEF ToReward, BoughtBy
    <2>4. Cardinality(ToReward(u)) \in Nat /\ Cardinality(BoughtBy(u)) \in Nat
      BY <2>3, FS_CardinalityType
    <2>5. QED
      BY <2>1, <2>4
  <1>2. QED
    BY <1>1, InitCounted, NextUses, NextBalance, NextRewards, BalanceIsCounted, IInvHolds, PTL
    DEF Spec, RowsAddUp
=============================================================================
