------------------------------ MODULE Payments ------------------------------
(***************************************************************************)
(* PaymentsService (src/modules/payments/payments.service.ts): the life of *)
(* a payment from initiate() to the gateway's callback, for subscriptions  *)
(* and wallet top-ups, with the invoice, the discount redemption and the   *)
(* referral reward that hang on it.                                        *)
(*                                                                         *)
(* A handler is one HTTP request being served. Every await of the code     *)
(* that reads or writes shared state is a step of its own, so requests     *)
(* interleave there; a prisma.$transaction is one step. A handler may stop *)
(* at any step (a thrown error, a lost connection, a restart of the        *)
(* process): Abort.                                                        *)
(*                                                                         *)
(* The redirects of the payer's browser are messages that are never        *)
(* consumed: they may be lost, repeated and handled in any order.          *)
(* Prices after credit and discount are left out: nothing in the service   *)
(* branches on them after initiate().                                      *)
(***************************************************************************)
EXTENDS Integers, FiniteSets, FiniteSetsExt

CONSTANTS
  User,             \* accounts
  Payment,          \* identities (providerRef) of payment rows
  Handler,          \* requests that may be in progress at once
  Plan,             \* active ordinary plans
  PaygPlan,         \* the pay-as-you-go plan
  Price,            \* monthly price of each ordinary plan
  Code,             \* discount codes
  MaxUses,          \* maxUses of each code
  Referred,         \* users with referredByUserId set
  MinActivation,    \* payAsYouGoMinActivationToman
  MinTopup,         \* payAsYouGoMinTopupToman
  Orders,           \* the orders users submit, a subset of Order
  None              \* the null value

Order == [user : User, kind : {"SUBSCRIPTION", "WALLET_TOPUP"},
          plan : Plan \cup {PaygPlan, None}, code : Code \cup {None}, topup : Nat]

ASSUME NoneAssumption ==
  None \notin User \cup Payment \cup Plan \cup {PaygPlan} \cup Code \cup Order
ASSUME PlanAssumption == PaygPlan \notin Plan /\ Price \in [Plan -> Nat]
ASSUME CodeAssumption == MaxUses \in [Code -> Nat]
ASSUME AmountAssumption == MinActivation \in Nat /\ MinTopup \in Nat
ASSUME PaymentAssumption == IsFiniteSet(Payment)
\* The two DTOs: a subscription names a plan and perhaps a code, a top-up an amount.
ASSUME OrdersAssumption ==
  /\ Orders \subseteq Order
  /\ \A o \in Orders : IF o.kind = "SUBSCRIPTION"
                       THEN o.plan # None /\ o.topup = 0
                       ELSE o.plan = None /\ o.code = None

VARIABLES
  status,         \* Payment.status; "NONE" before the row exists
  order,          \* the immutable columns of the payment row, None before
  invoice,        \* payments with an Invoice row (Invoice.paymentId is unique)
  redemption,     \* payments with a DiscountCodeRedemption row
  usedCount,      \* DiscountCode.usedCount
  balance,        \* Wallet.balanceToman, as far as top-ups go
  credit,         \* sum of the CREDIT rows written for each payment
  subscription,   \* plan of each user's subscription, None without one
  running,        \* users whose subscription is ACTIVE with periodEnd ahead
  reward,         \* how often issueReferralRewards ran for a referred user
  gateway,        \* the payer's side: "none", "open" (payment page), "paid"
  callback,       \* redirects sent to /payments/callback: <<payment, "OK" or "NOK">>
  pc,             \* where each handler stands
  draft,          \* the order a handler is initiating
  target,         \* the payment a handler is verifying
  first           \* handlers that read isFirstTopup / isFirstCompletedPayment as true

rows     == <<status, order, invoice, redemption, usedCount, balance, credit,
              subscription, running, reward>>
payer    == <<gateway, callback>>
requests == <<pc, draft, target, first>>
vars     == <<rows, payer, requests>>

PC == {"idle", "code", "checkout", "markFailed", "verify", "count", "settle", "settled"}
-----------------------------------------------------------------------------
Init ==
  /\ status = [p \in Payment |-> "NONE"]
  /\ order = [p \in Payment |-> None]
  /\ invoice = {}
  /\ redemption = {}
  /\ usedCount = [c \in Code |-> 0]
  /\ balance = [u \in User |-> 0]
  /\ credit = [p \in Payment |-> 0]
  /\ subscription = [u \in User |-> None]
  /\ running = {}
  /\ reward = [u \in User |-> 0]
  /\ gateway = [p \in Payment |-> "none"]
  /\ callback = {}
  /\ pc = [h \in Handler |-> "idle"]
  /\ draft = [h \in Handler |-> None]
  /\ target = [h \in Handler |-> None]
  /\ first = {}

Goto(h, l) == pc' = [pc EXCEPT ![h] = l]

\* The handler answers or throws: its local state is gone.
Return(h) ==
  /\ Goto(h, "idle")
  /\ draft' = [draft EXCEPT ![h] = None]
  /\ target' = [target EXCEPT ![h] = None]
  /\ first' = first \ {h}

\* payment.count({ userId, status: 'COMPLETED' }), of one kind or of any.
Completed(u) == {p \in Payment : status[p] = "COMPLETED" /\ order[p].user = u}
CompletedTopups(u) == {p \in Completed(u) : order[p].kind = "WALLET_TOPUP"}
-----------------------------------------------------------------------------
(* initiate() and initiateWalletTopup() *)

\* computeUpgradeCredit: a running ordinary plan can only be left for a dearer one.
MayBuy(u, pl) ==
  (pl # PaygPlan /\ u \in running /\ subscription[u] \in Plan) => Price[pl] > Price[subscription[u]]

Initiate(h) ==
  /\ pc[h] = "idle"
  /\ \E o \in Orders :
       /\ o.kind = "SUBSCRIPTION"
       /\ MayBuy(o.user, o.plan)
       /\ draft' = [draft EXCEPT ![h] = o]
       /\ Goto(h, IF o.code = None THEN "checkout" ELSE "code")
  /\ UNCHANGED <<rows, payer, target, first>>

\* findValidCode: the code has uses left. A code that is inactive, expired or
\* another user's is refused, which is Abort.
CheckCode(h) ==
  /\ pc[h] = "code"
  /\ usedCount[draft[h].code] < MaxUses[draft[h].code]
  /\ Goto(h, "checkout")
  /\ UNCHANGED <<rows, payer, draft, target, first>>

MinimumTopup_NoFloor(u) == MinTopup
MinimumTopup(u) == IF CompletedTopups(u) = {} THEN MinActivation ELSE MinTopup

InitiateWalletTopup(h) ==
  /\ pc[h] = "idle"
  /\ \E o \in Orders :
       /\ o.kind = "WALLET_TOPUP"
       /\ o.topup >= MinimumTopup(o.user)
       /\ draft' = [draft EXCEPT ![h] = o]
  /\ Goto(h, "checkout")
  /\ UNCHANGED <<rows, payer, target, first>>

\* gateway.createPayment answers with a fresh providerRef and payment.create
\* stores it; the payment page reaches the payer only with the response.
Checkout(h, p) ==
  /\ pc[h] = "checkout"
  /\ status[p] = "NONE"
  /\ status' = [status EXCEPT ![p] = "PENDING"]
  /\ order' = [order EXCEPT ![p] = draft[h]]
  /\ gateway' = [gateway EXCEPT ![p] = "open"]
  /\ Return(h)
  /\ UNCHANGED <<invoice, redemption, usedCount, balance, credit, subscription, running,
                 reward, callback>>
-----------------------------------------------------------------------------
(* verifyCallback() and verify() *)

\* A redirect that reports failure: findUnique, then an update without a guard.
FailureCallback(h, p) ==
  /\ pc[h] = "idle"
  /\ <<p, "NOK">> \in callback
  /\ target' = [target EXCEPT ![h] = p]
  /\ Goto(h, "markFailed")
  /\ UNCHANGED <<rows, payer, draft, first>>

\* A redirect that reports success goes on only for a PENDING row: COMPLETED is
\* answered again without effect, any other status is a 400.
SuccessCallback(h, p) ==
  /\ pc[h] = "idle"
  /\ <<p, "OK">> \in callback
  /\ status[p] = "PENDING"
  /\ target' = [target EXCEPT ![h] = p]
  /\ Goto(h, "verify")
  /\ UNCHANGED <<rows, payer, draft, first>>

MarkFailed(h) ==
  /\ pc[h] = "markFailed"
  /\ status' = [status EXCEPT ![target[h]] = "FAILED"]
  /\ Return(h)
  /\ UNCHANGED <<order, invoice, redemption, usedCount, balance, credit, subscription, running,
                 reward, payer>>

\* gateway.verifyPayment says yes only for a payment that was paid; it may say
\* no for any (each gateway answers no when the HTTP status is not ok).
GatewayApproves_Always(p) == TRUE
GatewayApproves(p) == gateway[p] = "paid"

\* Whether the code counts the user's completed payments before it settles: for
\* every top-up, and for a subscription when the buyer was referred.
Counts(p) == order[p].kind = "WALLET_TOPUP" \/ order[p].user \in Referred

GatewayAnswer(h) ==
  /\ pc[h] = "verify"
  /\ \/ /\ GatewayApproves(target[h])
        /\ Goto(h, IF Counts(target[h]) THEN "count" ELSE "settle")
        /\ first' = IF Counts(target[h]) THEN first ELSE first \cup {h}
     \/ /\ Goto(h, "markFailed")
        /\ UNCHANGED first
  /\ UNCHANGED <<rows, payer, draft, target>>

\* priorTopups / priorCompletedCount: read before the transaction, used in it.
CountPrior(h) ==
  /\ pc[h] = "count"
  /\ LET o == order[target[h]]
         prior == IF o.kind = "WALLET_TOPUP" THEN CompletedTopups(o.user) ELSE Completed(o.user)
     IN  first' = IF prior = {} THEN first \cup {h} ELSE first
  /\ Goto(h, "settle")
  /\ UNCHANGED <<rows, payer, draft, target>>

\* Invoice.paymentId @unique: invoice.create of the transaction fails.
InvoiceExists_NoIndex(p) == FALSE
InvoiceExists(p) == p \in invoice

\* recordRedemption, inside the transaction.
RecordRedemption_Unconditional(p) ==
  /\ redemption' = redemption \cup {p}
  /\ UNCHANGED usedCount
RecordRedemption(p) ==
  IF order[p].code = None
  THEN UNCHANGED <<redemption, usedCount>>
  ELSE /\ redemption' = redemption \cup {p}
       /\ usedCount' = [usedCount EXCEPT ![order[p].code] = @ + 1]

SettleSubscription(h) ==
  LET p == target[h] IN
  /\ pc[h] = "settle"
  /\ order[p].kind = "SUBSCRIPTION"
  /\ ~InvoiceExists(p)
  /\ status' = [status EXCEPT ![p] = "COMPLETED"]
  /\ subscription' = [subscription EXCEPT ![order[p].user] = order[p].plan]
  /\ running' = running \cup {order[p].user}
  /\ RecordRedemption(p)
  /\ invoice' = invoice \cup {p}
  /\ Goto(h, "settled")
  /\ UNCHANGED <<order, balance, credit, reward, payer, draft, target, first>>

\* wallet.upsert: create with the amount, or increment by it.
ToppedUp_Subtracts(u, n) == balance[u] - n
ToppedUp(u, n) == balance[u] + n

\* completeWalletTopup: only the first top-up moves the user to pay-as-you-go.
SettleTopup(h) ==
  LET p == target[h]
      u == order[p].user IN
  /\ pc[h] = "settle"
  /\ order[p].kind = "WALLET_TOPUP"
  /\ ~InvoiceExists(p)
  /\ status' = [status EXCEPT ![p] = "COMPLETED"]
  /\ balance' = [balance EXCEPT ![u] = ToppedUp(u, order[p].topup)]
  /\ credit' = [credit EXCEPT ![p] = @ + order[p].topup]
  /\ IF h \in first
     THEN /\ subscription' = [subscription EXCEPT ![u] = PaygPlan]
          /\ running' = running \cup {u}
     ELSE UNCHANGED <<subscription, running>>
  /\ invoice' = invoice \cup {p}
  /\ Goto(h, "settled")
  /\ UNCHANGED <<order, redemption, usedCount, reward, payer, draft, target, first>>

\* The unique index rolls the whole transaction back and the request ends in an error.
RollBack(h) ==
  /\ pc[h] = "settle"
  /\ InvoiceExists(target[h])
  /\ Return(h)
  /\ UNCHANGED <<rows, payer>>

\* After the transaction: DEL of the plan cache (see PlanCache.tla), then the
\* reward of a referred buyer's first payment, then the redirect.
IssuesReward(h) ==
  /\ order[target[h]].kind = "SUBSCRIPTION"
  /\ order[target[h]].user \in Referred
  /\ h \in first

Finish(h) ==
  /\ pc[h] = "settled"
  /\ reward' = IF IssuesReward(h)
               THEN [reward EXCEPT ![order[target[h]].user] = @ + 1]
               ELSE reward
  /\ Return(h)
  /\ UNCHANGED <<status, order, invoice, redemption, usedCount, balance, credit, subscription,
                 running, payer>>

\* An exception of the database, Redis or the gateway, or a restart.
Abort(h) ==
  /\ pc[h] # "idle"
  /\ Return(h)
  /\ UNCHANGED <<rows, payer>>
-----------------------------------------------------------------------------
(* The payer at the gateway's page, and time *)

PayerPays(p) ==
  /\ gateway[p] = "open"
  /\ gateway' = [gateway EXCEPT ![p] = "paid"]
  /\ callback' = callback \cup {<<p, "OK">>}
  /\ UNCHANGED <<rows, requests>>

\* The payer comes back without having paid; the page stays open and may still be
\* paid. What the redirect reports is the query string's word, not the gateway's.
PayerReturns(p) ==
  /\ gateway[p] = "open"
  /\ \E result \in {"OK", "NOK"} : /\ <<p, result>> \notin callback
                                  /\ callback' = callback \cup {<<p, result>>}
  /\ UNCHANGED <<rows, gateway, requests>>

\* periodEnd passes. A pay-as-you-go period matters to nothing here.
PeriodEnds(u) ==
  /\ u \in running
  /\ subscription[u] \in Plan
  /\ running' = running \ {u}
  /\ UNCHANGED <<status, order, invoice, redemption, usedCount, balance, credit, subscription,
                 reward, payer, requests>>

Serve(h) ==
  \/ Initiate(h)
  \/ CheckCode(h)
  \/ InitiateWalletTopup(h)
  \/ \E p \in Payment : Checkout(h, p) \/ FailureCallback(h, p) \/ SuccessCallback(h, p)
  \/ MarkFailed(h)
  \/ GatewayAnswer(h)
  \/ CountPrior(h)
  \/ SettleSubscription(h)
  \/ SettleTopup(h)
  \/ RollBack(h)
  \/ Finish(h)
  \/ Abort(h)

Next ==
  \/ \E h \in Handler : Serve(h)
  \/ \E p \in Payment : PayerPays(p) \/ PayerReturns(p)
  \/ \E u \in User : PeriodEnds(u)

Spec == Init /\ [][Next]_vars

-----------------------------------------------------------------------------
(* Properties *)

\* The types of the variables.
TypeOK ==
  /\ status \in [Payment -> {"NONE", "PENDING", "COMPLETED", "FAILED"}]
  /\ order \in [Payment -> Orders \cup {None}]
  /\ invoice \subseteq Payment
  /\ redemption \subseteq Payment
  /\ usedCount \in [Code -> Nat]
  /\ balance \in [User -> Nat]
  /\ credit \in [Payment -> Nat]
  /\ subscription \in [User -> Plan \cup {PaygPlan, None}]
  /\ running \subseteq User
  /\ reward \in [User -> Nat]
  /\ gateway \in [Payment -> {"none", "open", "paid"}]
  /\ callback \subseteq Payment \X {"OK", "NOK"}
  /\ pc \in [Handler -> PC]
  /\ draft \in [Handler -> Orders \cup {None}]
  /\ target \in [Handler -> Payment \cup {None}]
  /\ first \subseteq Handler

IsTopup(p) == order[p] # None /\ order[p].kind = "WALLET_TOPUP"
Redeems(p) == order[p] # None /\ order[p].code # None

\* The effects of a payment come together and once, however many callbacks for
\* it run at the same time: the wallet is credited with its amount if and only
\* if its invoice exists, its code is redeemed if and only if its invoice
\* exists, and a COMPLETED row has an invoice.
SettledOnce ==
  \A p \in Payment :
    /\ credit[p] = IF p \in invoice /\ IsTopup(p) THEN order[p].topup ELSE 0
    /\ p \in redemption <=> (p \in invoice /\ Redeems(p))
    /\ status[p] = "COMPLETED" => p \in invoice

\* Nobody is invoiced for a payment that was not made at the gateway, whatever
\* redirects arrive.
InvoicedOnlyIfPaid == \A p \in invoice : gateway[p] = "paid"

\* The counter of a discount code is the number of its redemption rows.
UsesAreRedemptions ==
  \A c \in Code : usedCount[c] = Cardinality({p \in redemption : order[p].code = c})

\* A wallet holds exactly the amounts of its invoiced top-ups.
BalanceIsInvoiced ==
  \A u \in User :
    balance[u] = MapThenSumSet(LAMBDA p : order[p].topup,
                               {p \in invoice : IsTopup(p) /\ order[p].user = u})

\* The user has settled a top-up of at least the activation minimum.
HasActivated(u) ==
  \E q \in invoice : IsTopup(q) /\ order[q].user = u /\ order[q].topup >= MinActivation

\* A top-up below the activation minimum is only ever opened for a user who has
\* settled one of at least the activation minimum: the two minimums of
\* initiateWalletTopup cannot be evaded by racing requests.
SmallTopupsFollowActivation ==
  \A p \in Payment :
    (IsTopup(p) /\ order[p].topup < MinActivation) => HasActivated(order[p].user)

\* Referral rewards are paid for by invoices: the friend's reward is never issued
\* more often than the friend has settled subscriptions.
RewardsAreEarned ==
  \A u \in User :
    reward[u] <= Cardinality({p \in invoice : ~IsTopup(p) /\ order[p].user = u})

\* What makes the properties above inductive: a row, its columns and its payment
\* page appear together; redirects exist only for rows; a request in progress
\* holds an order or an existing payment, and one that got past the gateway
\* holds a paid one.
RowsAndRequests ==
  /\ \A p \in Payment : /\ status[p] = "NONE" <=> order[p] = None
                        /\ status[p] = "NONE" <=> gateway[p] = "none"
  /\ \A cb \in callback : status[cb[1]] # "NONE"
  /\ \A h \in Handler :
       /\ pc[h] \in {"code", "checkout"} => draft[h] # None
       /\ pc[h] \in {"markFailed", "verify", "count", "settle", "settled"} =>
            target[h] # None /\ status[target[h]] # "NONE"
       /\ pc[h] \in {"count", "settle", "settled"} => gateway[target[h]] = "paid"

IInv == TypeOK /\ RowsAndRequests /\ SettledOnce /\ InvoicedOnlyIfPaid

\* The same for SmallTopupsFollowActivation: a request that is about to open a
\* small top-up has seen a completed one.
SmallDraftsFollowActivation ==
  \A h \in Handler :
    (/\ draft[h] # None
     /\ draft[h].kind = "WALLET_TOPUP"
     /\ draft[h].topup < MinActivation) => HasActivated(draft[h].user)

\* What the whole component promises: every behaviour is one of Settlement.tla.
Promise == INSTANCE Settlement WITH
             paid <- {p \in Payment : gateway[p] = "paid"},
             settled <- invoice,
             plan <- subscription
ImplementsSettlement == Promise!SSpec
-----------------------------------------------------------------------------
(* What a comment of the code says of it; a run refutes it *)

\* growth-public.controller.ts:49: after the first purchase the welcome gift is
\* off. The controller takes a user with a COMPLETED payment for one who has bought.
PurchaseIsRemembered ==
  \A u \in User :
    (\E p \in invoice : order[p].user = u) => Completed(u) # {}

\* What the tables count twice agrees: a code's uses with its redemptions, a balance
\* with the invoices of its top-ups, and nobody is rewarded for more friends than paid.
RowsAddUp == UsesAreRedemptions /\ BalanceIsInvoiced /\ RewardsAreEarned
=============================================================================
