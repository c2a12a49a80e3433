\* Two customers on the promo code, one order: who is served by the worker.
CONSTANTS
  u1 = u1
  u2 = u2
  o1 = o1
  k1 = k1
  Users <- MCUsers
  Orders = {o1}
  ManualKeys = {k1}
  Admin = Admin
  None = None
  Days = 1
  PromoDays = 1
  MaxUses = 2
  MaxNow = 2
  MaxInbox = 1
  MaxCrashes = 0

SPECIFICATION MCLiveSpec

PROPERTY
  ExpiryServed
