SPECIFICATION Spec
CONSTANTS
  u1 = u1  u2 = u2  p1 = p1  p2 = p2  p3 = p3  h1 = h1  h2 = h2
  basic = basic  pro = pro  payg = payg  c1 = c1
  User = {u1}
  Payment = {p1}
  Handler = {h1, h2}
  Plan = {basic, pro}
  PaygPlan = payg
  Price <- MCPrice
  Code = {c1}
  MaxUses <- MCMaxUses
  Referred = {}
  MinActivation = 2
  MinTopup = 1
  Orders <- SubscriptionOrders
  None = None
INVARIANT PurchaseIsRemembered
