SPECIFICATION Spec
CONSTANTS
  alice = alice
  x1 = x1
  x2 = x2
  q1 = q1
  q2 = q2
  NoRequest = NoRequest
  Users = {alice}
  Processors = {x1}
  Requests = {q1, q2}
  UserOf <- UserOfRequest
  Amount <- Amounts
  StartBalance <- StartBalances
  OtherAmounts <- OtherChanges
  MaxFaults = 2
  MaxReverts = 1
  MaxOthers = 2
INVARIANTS
  TypeOK
  PaidOncePerOrder
  PaymentIsHeld
  DeductedOnlyIfPaid
  ProcessingIsLocked
  PaidIsAccountedFor
PROPERTY DoneIsFinal
