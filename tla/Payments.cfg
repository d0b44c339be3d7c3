SPECIFICATION Spec
CONSTANTS
  u1 = u1  u2 = u2  p1 = p1  p2 = p2  p3 = p3  h1 = h1  h2 = h2
  basic = basic  pro = pro  payg = payg  c1 = c1
  User = {u1, u2}
  Payment = {p1, p2}
  Handler = {h1, h2}
  Plan = {basic, pro}
  PaygPlan = payg
  Price <- MCPrice
  Code = {c1}
  MaxUses <- MCMaxUses
  Referred = {u1}
  MinActivation = 2
  MinTopup = 1
  Orders <- MixedOrders
  None = None
SYMMETRY Symmetry
PROPERTY ImplementsSettlement
INVARIANTS
  TypeOK
  SettledOnce
  InvoicedOnlyIfPaid
  RowsAddUp
  SmallTopupsFollowActivation

