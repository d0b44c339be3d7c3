----------------------------- MODULE Settlement -----------------------------
(***************************************************************************)
(* What the payment component promises, without requests, callbacks or     *)
(* transactions: an order is opened, the payer pays for it at most once,   *)
(* and a paid order takes effect exactly once, all of it in one step.      *)
(* Payments.tla is shown to implement this specification.                  *)
(***************************************************************************)
EXTENDS Integers

CONSTANTS
  User,       \* accounts
  Payment,    \* identities of payment rows
  Orders,     \* what may be ordered: records with user, kind, plan, code, topup
  PaygPlan,   \* the pay-as-you-go plan
  None        \* the null value

VARIABLES
  order,      \* the order behind each payment, None until it is opened
  paid,       \* payments the payer has paid for at the gateway
  settled,    \* payments whose effect has taken place
  balance,    \* wallet balance of each user
  plan        \* plan of each user, None without a subscription

svars == <<order, paid, settled, balance, plan>>

SInit ==
  /\ order = [p \in Payment |-> None]
  /\ paid = {}
  /\ settled = {}
  /\ balance = [u \in User |-> 0]
  /\ plan = [u \in User |-> None]

Open(p) ==
  /\ order[p] = None
  /\ \E o \in Orders : order' = [order EXCEPT ![p] = o]
  /\ UNCHANGED <<paid, settled, balance, plan>>

Pay(p) ==
  /\ order[p] # None
  /\ p \notin paid
  /\ paid' = paid \cup {p}
  /\ UNCHANGED <<order, settled, balance, plan>>

\* A subscription changes the plan of its buyer; a top-up adds its amount to
\* the wallet of its payer and may move that user to the pay-as-you-go plan.
Settle(p) ==
  /\ p \in paid \ settled
  /\ settled' = settled \cup {p}
  /\ \/ /\ order[p].kind = "SUBSCRIPTION"
        /\ plan' = [plan EXCEPT ![order[p].user] = order[p].plan]
        /\ UNCHANGED balance
     \/ /\ order[p].kind = "WALLET_TOPUP"
        /\ balance' = [balance EXCEPT ![order[p].user] = @ + order[p].topup]
        /\ \/ plan' = [plan EXCEPT ![order[p].user] = PaygPlan]
           \/ UNCHANGED plan
  /\ UNCHANGED <<order, paid>>

SNext == \E p \in Payment : Open(p) \/ Pay(p) \/ Settle(p)

SSpec == SInit /\ [][SNext]_svars
=============================================================================
