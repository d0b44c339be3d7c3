----------------------------- MODULE MCPayments -----------------------------
(* Instances of Payments for TLC. *)
EXTENDS Payments, TLC

CONSTANTS u1, u2, p1, p2, p3, h1, h2, basic, pro, payg, c1

MCPrice == basic :> 1 @@ pro :> 2
MCMaxUses == c1 :> 1

Subscribe(u, pl, c) == [user |-> u, kind |-> "SUBSCRIPTION", plan |-> pl, code |-> c, topup |-> 0]
TopUp(u, n) == [user |-> u, kind |-> "WALLET_TOPUP", plan |-> None, code |-> None, topup |-> n]

\* Subscriptions and top-ups of one user, large and small, and a second user
\* who shares a single-use code with the first.
MixedOrders == {Subscribe(u1, basic, None), Subscribe(u1, pro, c1), Subscribe(u2, basic, c1),
                TopUp(u1, 1), TopUp(u1, 2)}
SubscriptionOrders == {Subscribe(u1, basic, None), Subscribe(u1, pro, None)}

Symmetry == Permutations(Payment) \cup Permutations(Handler)
=============================================================================
