SPECIFICATION Spec
CONSTANTS
  b = b
  NoDelivery = NoDelivery
  NoIntent = NoIntent
  Intent = {i1, i2}
  Bot = {b}
  BotOf <- MCBotOf
  LiveBot = {}
  Connected = {b}
  Reply = {"submitted"}
  MaxQueue = 2
  MaxRetries = 2
  MaxFaults = 0
PROPERTIES
  IntentDecisionFinal
