\* Sessions and the navigation stack; every request settles.
CONSTANTS
  Account = {a1, a2}
  NoUser = NoUser
  MaxRequests = 3
SPECIFICATION FairSpec
INVARIANTS
  SessionInvariant
  SequentialInvariant
PROPERTY RequestsSettle
