------------------------------- MODULE Wallet -------------------------------
(***************************************************************************)
(* The pay-as-you-go wallet under concurrent requests: chat and image      *)
(* messages that check the balance, are streamed and are charged           *)
(* afterwards (chat.service.ts, pricing.service.ts debitWallet), top-ups   *)
(* that are settled meanwhile (one transaction, see Payments.tla), and the *)
(* administrator's refund (admin.service.ts, pricing.service.ts).          *)
(*                                                                         *)
(* The ledger (WalletTransaction rows) is kept as two sums per user.       *)
(* The cost of a message is only known when it is over, and the check      *)
(* before it is an estimate: neither bounds the other.                     *)
(***************************************************************************)
EXTENDS Integers, FiniteSets

CONSTANTS
  Account,        \* accounts with a wallet
  Message,        \* chat or image requests that may be in progress at once
  Refund,         \* refundAndDeactivatePayg requests that may be in progress at once
  TopUpAmounts,   \* amounts a top-up may have
  MaxMessageCost, \* bound: the highest price of one message
  CreditBound,    \* bound: top-ups stop when a user's credits reach it
  Nobody          \* the null value

ASSUME WalletAssumption ==
  /\ IsFiniteSet(Message)
  /\ Message \cap Refund = {}
  /\ TopUpAmounts \subseteq Nat \ {0}
  /\ MaxMessageCost \in Nat
  /\ CreditBound \in Nat
  /\ Nobody \notin Account

VARIABLES
  balance,    \* Wallet.balanceToman
  credited,   \* sum of the CREDIT rows of the wallet
  debited,    \* sum of the DEBIT rows of the wallet
  payg,       \* users whose subscription is on the pay-as-you-go plan
  pc,         \* where each message stands
  owner,      \* the user of a message or a refund
  cost,       \* walletCost of a message that debitWallet has found affordable
  rpc,        \* where each refund stands
  amount,     \* the balance a refund has read
  overtaken   \* history: users whose refund was committed over another balance

wallets  == <<balance, credited, debited, payg>>
messages == <<pc, cost>>
refunds  == <<rpc, amount>>
walletVars == <<wallets, messages, refunds, owner, overtaken>>

WalletInit ==
  /\ balance = [u \in Account |-> 0]
  /\ credited = [u \in Account |-> 0]
  /\ debited = [u \in Account |-> 0]
  /\ payg = {}
  /\ pc = [m \in Message |-> "idle"]
  /\ owner = [x \in Message \cup Refund |-> Nobody]
  /\ cost = [m \in Message |-> 0]
  /\ rpc = [f \in Refund |-> "idle"]
  /\ amount = [f \in Refund |-> 0]
  /\ overtaken = {}

\* The transaction of completeWalletTopup. Whether it is the user's first one,
\* and so moves the user to the plan, is Payments' business.
TopUp(u) ==
  /\ credited[u] < CreditBound
  /\ \E a \in TopUpAmounts : /\ balance' = [balance EXCEPT ![u] = @ + a]
                        /\ credited' = [credited EXCEPT ![u] = @ + a]
  /\ payg' \in {payg, payg \cup {u}}
  /\ UNCHANGED <<debited, messages, refunds, owner, overtaken>>
-----------------------------------------------------------------------------
(* A message *)

\* The gate of streamChat and of handleImageGeneration: the balance covers the
\* estimated worst case.
Gate(m, u) ==
  /\ pc[m] = "idle"
  /\ u \in payg
  /\ \E worstCase \in 1..MaxMessageCost : balance[u] >= worstCase
  /\ pc' = [pc EXCEPT ![m] = "streaming"]
  /\ owner' = [owner EXCEPT ![m] = u]
  /\ UNCHANGED <<wallets, cost, refunds, overtaken>>

EndMessage_Retried(m) == UNCHANGED <<pc, owner, cost>>
EndMessage(m) ==
  /\ pc' = [pc EXCEPT ![m] = "idle"]
  /\ owner' = [owner EXCEPT ![m] = Nobody]
  /\ cost' = [cost EXCEPT ![m] = 0]

\* debitWallet, first half: it goes on only if the wallet covers the cost.
Affordable(u, c) == balance[u] >= c

ReadWallet(m) ==
  /\ pc[m] = "streaming"
  /\ \E c \in 1..MaxMessageCost :
       /\ Affordable(owner[m], c)
       /\ cost' = [cost EXCEPT ![m] = c]
  /\ pc' = [pc EXCEPT ![m] = "debit"]
  /\ UNCHANGED <<wallets, refunds, owner, overtaken>>

\* debitWallet, second half: a transaction that does not look at the balance again.
DebitRow_Forgotten(m) == UNCHANGED debited
DebitRow(m) == debited' = [debited EXCEPT ![owner[m]] = @ + cost[m]]

Debit(m) ==
  /\ pc[m] = "debit"
  /\ balance' = [balance EXCEPT ![owner[m]] = @ - cost[m]]
  /\ DebitRow(m)
  /\ EndMessage(m)
  /\ UNCHANGED <<credited, payg, refunds, overtaken>>

\* The message ends unpaid: the stream failed, debitWallet answered false, which
\* is only logged, or an exception or a restart came between.
Unpaid(m) ==
  /\ pc[m] # "idle"
  /\ EndMessage(m)
  /\ UNCHANGED <<wallets, refunds, overtaken>>
-----------------------------------------------------------------------------
(* refundAndDeactivatePayg *)

\* refundWallet reads the balance; with nothing in the wallet it returns at once.
HasBalance_Unguarded(u) == TRUE
HasBalance(u) == balance[u] > 0

RefundRead(f, u) ==
  /\ rpc[f] = "idle"
  /\ owner' = [owner EXCEPT ![f] = u]
  /\ IF HasBalance(u)
     THEN /\ rpc' = [rpc EXCEPT ![f] = "commit"]
          /\ amount' = [amount EXCEPT ![f] = balance[u]]
     ELSE /\ rpc' = [rpc EXCEPT ![f] = "downgrade"]
          /\ UNCHANGED amount
  /\ UNCHANGED <<wallets, messages, overtaken>>

\* Its transaction sets the balance to zero and books the balance it read.
RefundCommit(f) ==
  /\ rpc[f] = "commit"
  /\ balance' = [balance EXCEPT ![owner[f]] = 0]
  /\ debited' = [debited EXCEPT ![owner[f]] = @ + amount[f]]
  /\ rpc' = [rpc EXCEPT ![f] = "downgrade"]
  /\ overtaken' = IF amount[f] = balance[owner[f]] THEN overtaken ELSE overtaken \cup {owner[f]}
  /\ UNCHANGED <<credited, payg, messages, amount, owner>>

EndRefund(f) ==
  /\ rpc' = [rpc EXCEPT ![f] = "idle"]
  /\ owner' = [owner EXCEPT ![f] = Nobody]
  /\ amount' = [amount EXCEPT ![f] = 0]

\* changeUserPlan to the free plan.
Downgrade(f) ==
  /\ rpc[f] = "downgrade"
  /\ payg' = payg \ {owner[f]}
  /\ EndRefund(f)
  /\ UNCHANGED <<balance, credited, debited, messages, overtaken>>

RefundAborts(f) ==
  /\ rpc[f] # "idle"
  /\ EndRefund(f)
  /\ UNCHANGED <<wallets, messages, overtaken>>

WalletNext ==
  \/ \E u \in Account : TopUp(u) \/ \E m \in Message : Gate(m, u)
  \/ \E m \in Message : ReadWallet(m) \/ Debit(m) \/ Unpaid(m)
  \/ \E f \in Refund : \/ \E u \in Account : RefundRead(f, u)
                       \/ RefundCommit(f)
                       \/ Downgrade(f)
                       \/ RefundAborts(f)

WalletSpec == WalletInit /\ [][WalletNext]_walletVars
-----------------------------------------------------------------------------
(* Properties *)

\* The types of the variables.
WalletTypeOK ==
  /\ balance \in [Account -> Int]
  /\ credited \in [Account -> Nat]
  /\ debited \in [Account -> Nat]
  /\ payg \subseteq Account
  /\ pc \in [Message -> {"idle", "streaming", "debit"}]
  /\ owner \in [Message \cup Refund -> Account \cup {Nobody}]
  /\ cost \in [Message -> 0..MaxMessageCost]
  /\ rpc \in [Refund -> {"idle", "commit", "downgrade"}]
  /\ amount \in [Refund -> Nat]
  /\ overtaken \subseteq Account

\* Messages of a user between the two halves of debitWallet.
Debiting(u) == {m \in Message : pc[m] = "debit" /\ owner[m] = u}

\* A wallet can go below zero, but never further than the messages that can be
\* charged at the same time: what is still between check and transaction is
\* not yet lost. Holds with refunds in between, too.
OverdraftBounded ==
  \A u \in Account :
    balance[u] >= -((Cardinality(Message) - Cardinality(Debiting(u))) * MaxMessageCost)

\* The rows of the ledger add up to the balance, whatever messages, top-ups and
\* refunds interleave, except for a user whose refund was overtaken by a charge or
\* a top-up (or by another refund) between its two halves.
LedgerAddsUp ==
  \A u \in Account \ overtaken : balance[u] = credited[u] - debited[u]

\* Wallets and the requests that work with them are well formed, and the ledger adds up.
LedgerIsSound == WalletTypeOK /\ LedgerAddsUp

\* What makes OverdraftBounded inductive: a request in progress has a user.
OwnersKnown ==
  /\ \A m \in Message : pc[m] # "idle" => owner[m] # Nobody
  /\ \A f \in Refund : rpc[f] # "idle" => owner[f] # Nobody
-----------------------------------------------------------------------------
(* What a comment of the code says of it; a run refutes it *)

\* pricing.service.ts:251: a refund makes the balance zero and books a DEBIT row of
\* exactly the refunded amount, which keeps the history of the wallet traceable.
RefundIsTraceable == \A u \in Account : balance[u] = credited[u] - debited[u]
=============================================================================
