SPECIFICATION AssistantSpec
CONSTANTS
  t1 = t1
  t2 = t2
  Text = {t1, t2}
  Prefix <- MCPrefix
  Padded = {}
  MaxOutages = 1
INVARIANTS
  HelpIsTrue
CHECK_DEADLOCK FALSE
