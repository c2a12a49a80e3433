\* One customer, two orders, the promo code, a crash.
CONSTANTS
  u1 = u1
  o1 = o1
  o2 = o2
  Users = {u1}
  Orders = {o1, o2}
  ManualKeys = {}
  Admin = Admin
  None = None
  Days = 2
  PromoDays = 1
  MaxUses = 1
  MaxNow = 3
  MaxInbox = 1
  MaxCrashes = 1

SPECIFICATION Spec

SYMMETRY Symmetry

INVARIANTS
  TypeOK
  PaidDays
  PaymentsMatchOrders
  ServerFollows
  RemindersOfPeriod
