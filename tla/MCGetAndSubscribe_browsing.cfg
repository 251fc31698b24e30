SPECIFICATION FairSpec
CONSTANTS
  j1 = j1
  j2 = j2
  n1 = n1
  k1 = k1
  NoKey = NoKey
  Sessions <- ThreeSessions
  Js <- JsSessions
  Keys <- TheCampaign
  MaxVersion = 2
  MaxSent <- Browsing
  MaxErrors = 1
  MaxEvents = 3
INVARIANTS
  TypeOK
  OnePollPerItem
  SubscriptionsMatchPages
  SinglesAreFresh
PROPERTIES
  PagesGoForward
  FinishedMeansIdle
  ViewersKeepUp
  PagesAreRendered
  ShutdownCompletes
CHECK_DEADLOCK FALSE
