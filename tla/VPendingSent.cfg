SPECIFICATION Spec
CONSTANTS
  b = b
  NoDelivery = NoDelivery
  NoIntent = NoIntent
  Intent = {i1, i2}
  Bot = {b}
  BotOf <- MCBotOf
  LiveBot = {b}
  Connected = {b}
  Reply = {"submitted"}
  MaxQueue = 2
  MaxRetries = 2
  MaxFaults = 1
INVARIANTS
  PendingNotSent
