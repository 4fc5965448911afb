SPECIFICATION Spec
CONSTANTS
  i1 = i1
  i2 = i2
  live = live
  paper = paper
  raw1 = raw1
  env1 = env1
  raw2 = raw2
  NoDelivery = NoDelivery
  Intent <- MCIntent
  Delivery <- MCDelivery
  IntentOf <- MCIntentOf
  Bot <- MCBot
  BotOf <- MCBotOf
  LiveBot <- MCLive
  Connected <- MCBot
  Reply = {"submitted", "filled"}
  MaxQueue = 1
SYMMETRY MCSymmetry
INVARIANTS
  TypeOK
  AtMostOnePlacement
  OutboxMatchesOrder
  InboxMeansDecided
PROPERTIES
  ImplementsOrderOnce
  AutoStopHolds
