SPECIFICATION WebSpec
CONSTANTS
  t1 = t1
  t2 = t2
  t3 = t3
  Text = {t1, t2, t3}
  Prefix <- MCPrefix
  Padded = {t2}
  MaxOutages = 2
  NoData = NoData
  Bot = {b1, b2}
  NoBot = NoBot
  First = {b1}
  FirstStatus = {"live_pending_approval"}
  MaxWrites = 2
  MaxCalls = 1
  BotId = {r1, r2}
  NoBotId = NoBotId
  Limit = {1}
  FirstLimit = 1
  Empty = 0
  MaxChanges = 2
  MaxChoices = 2
  Tab = {x1, x2}
  Call = {1, 2, 3}
  MaxTokens = 3
  User = {u1, u2}
  Nobody = Nobody
  Symbol = {"s1"}
  Bots <- MCBots
  Wallets <- MCWallets
  SignalLists <- MCSignals
  Transactions <- MCTransactions
  Others <- MCOthers
  c1 = c1
  c2 = c2
  Conn <- MCConn
  NoConn = NoConn
  Published <- MCPublished
  Attempts = 1
  Buffer = 2
  MaxFrames = 1
  MaxTimers = 1
  MaxMounts = 2
SYMMETRY MCSymmetry
INVARIANTS
  WebTypeOK
  LostOnlyByOutage AnswersAccountedFor
  ReadYourWrites FormIsOfChosenBot
  TabAgreesWithStorage LateSignInNeedsTwoCalls
  EmptyIsHonest OwnRowsOnceSettled FiguresAgree
  ClosedOnce SingleFeed ExecutionsOnce
PROPERTIES
  RefusedOnlyWhenStale LiftedOnlyByRequestOrRace StepsBackOnlyByOverlap
CHECK_DEADLOCK FALSE
