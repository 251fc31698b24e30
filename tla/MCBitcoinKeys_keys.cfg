SPECIFICATION Spec
CONSTANTS
  alice = alice
  bob = bob
  t1 = t1
  t2 = t2
  n1 = n1
  NoKey = NoKey
  NoPage = NoPage
  NoUser = NoUser
  Users = {alice, bob}
  Tabs = {t1, t2}
  Sets = {n1}
  KeysPerPage = 1
  RangesPerPage = 1
  MaxHuge = 2
  MaxEvents = 3
INVARIANTS
  TypeOK
  PagesAreThere
  OneRangePerPage
  KeysAreExclusive
  OneKeyPerRequest
  CreditedOnce
CHECK_DEADLOCK FALSE
SYMMETRY Alike
