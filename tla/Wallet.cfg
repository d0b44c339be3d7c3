SPECIFICATION WalletSpec
CONSTANTS
  u1 = u1  u2 = u2  m1 = m1  m2 = m2  m3 = m3  f1 = f1  f2 = f2
  Account = {u1}
  Message = {m1, m2, m3}
  Refund = {f1, f2}
  TopUpAmounts = {1, 3}
  MaxMessageCost = 2
  CreditBound = 3
  Nobody = Nobody
SYMMETRY Symmetry
\* Top-ups stop at CreditBound: an empty wallet is then the end.
CHECK_DEADLOCK FALSE
INVARIANTS
  OverdraftBounded
  LedgerIsSound
