SPECIFICATION Spec
CONSTANTS
  j1 = j1
  j2 = j2
  n1 = n1
  k1 = k1
  NoKey = NoKey
  Sessions <- JsSession
  Js <- JsSessions
  Keys <- TheCampaign
  MaxVersion = 2
  MaxSent <- Browsing
  MaxErrors = 0
  MaxEvents = 3
INVARIANTS
  SubscriptionIsKept
CHECK_DEADLOCK FALSE
