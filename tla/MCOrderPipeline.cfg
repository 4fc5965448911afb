SPECIFICATION Spec
CONSTANTS
  b = b
  NoDelivery = NoDelivery
  NoIntent = NoIntent
  Intent = {i1}
  Bot = {b}
  BotOf <- MCBotOf
  LiveBot = {b}
  Connected = {b}
  Reply = {"submitted", "filled"}
  MaxQueue = 2
  MaxRetries = 2
  MaxFaults = 2
INVARIANTS
  TypeOK
  OrderHasSignal
PROPERTIES
  ImplementsExecutor
  EveryIntentDecided
