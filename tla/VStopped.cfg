SPECIFICATION Spec
CONSTANTS
  b1 = b1
  b2 = b2
  b3 = b3
  r1 = r1
  r2 = r2
  NoBot = NoBot
  Bot <- MCBot
  Request <- MCRequest
  HasAccount = {b1, b2}
  Losing = {}
  MaxPaperBots = 1
  MaxLiveBots = 1
PROPERTIES
  StoppedIsFinal
