SPECIFICATION WalletSpec
CONSTANTS
  u1 = u1  u2 = u2  m1 = m1  m2 = m2  m3 = m3  f1 = f1  f2 = f2
  Account = {u1}
  Message = {m1}
  Refund = {f1}
  TopUpAmounts = {1, 3}
  MaxMessageCost = 2
  CreditBound = 4
  Nobody = Nobody
\* Top-ups stop at CreditBound: an empty wallet is then the end.
CHECK_DEADLOCK FALSE
INVARIANT RefundIsTraceable
