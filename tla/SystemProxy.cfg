SPECIFICATION ProxySpec
CONSTANTS
  Clients = {c1, c2}
  UserProxy = UserProxy
INVARIANTS
  RebootRestores
  Restored
