SPECIFICATION Spec
CONSTANTS
  alice = alice
  x1 = x1
  x2 = x2
  q1 = q1
  q2 = q2
  NoRequest = NoRequest
  Users = {alice}
  Processors = {x1, x2}
  Requests = {q1}
  UserOf <- UserOfRequest
  Amount <- Amounts
  StartBalance <- StartBalances
  OtherAmounts <- OtherChanges
  MaxFaults = 1
  MaxReverts = 1
  MaxOthers = 1
INVARIANTS
  BooksInv
  BalancesReconcile
