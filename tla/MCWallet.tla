------------------------------ MODULE MCWallet ------------------------------
(* Instances of Wallet for TLC. *)
EXTENDS Wallet, TLC

CONSTANTS u1, u2, m1, m2, m3, f1, f2

Symmetry == Permutations(Account) \cup Permutations(Message) \cup Permutations(Refund)
=============================================================================
