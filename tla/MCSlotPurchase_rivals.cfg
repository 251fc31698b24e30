SPECIFICATION Spec
CONSTANTS
  alice = alice
  bob = bob
  s1 = s1
  s2 = s2
  a1 = a1
  a2 = a2
  b1 = b1
  r1 = r1
  r2 = r2
  NoFiller = NoFiller
  NoUser = NoUser
  Users = {alice, bob}
  Sessions = {s1, s2}
  Recoverers = {r1}
  Fillers = {a1, b1}
  UserOf <- UserOfRivals
  OwnerOf <- OwnerOfFiller
  MaxSlot = 1
  MinPrice = 1
  StartBalance <- StartBalances
  MaxFaults = 1
  MaxOthers = 0
  OtherAmounts <- Withdrawals
INVARIANTS
  TypeOK
  PaperworkOrder
  TransactionMatchesSlot
  NoGaps
PROPERTIES
  StoresStayOrderly
  ImplementsSale
SYMMETRY RivalsSymmetry
