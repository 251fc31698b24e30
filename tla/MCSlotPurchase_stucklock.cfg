SPECIFICATION StuckLockSpec
CONSTANTS
  alice = alice
  bob = bob
  s1 = s1
  s2 = s2
  a1 = a1
  a2 = a2
  b1 = b1
  r1 = r1
  r2 = r2
  NoFiller = NoFiller
  NoUser = NoUser
  Users = {alice}
  Sessions = {s1}
  Recoverers = {r1}
  Fillers = {a1}
  UserOf <- UserOfOne
  OwnerOf <- OwnerOfFiller
  MaxSlot = 0
  MinPrice = 1
  StartBalance <- StartBalances
  MaxFaults = 1
  MaxOthers = 1
  OtherAmounts <- Withdrawals
PROPERTY SoldIsPublished
