CONSTANTS
  linkA = linkA
  linkB = linkB
  unsafe = unsafe
  none = none
  unfit = unfit
  Proposals <- MCProposals
  HitLists <- MCHitLists
  SafeLinks = {linkA, linkB}
  NoLink = none
  Unfit = unfit
  MaxSources = 2
  MaxAttempts = 3
  Chats = {v1, v2}
  MaxPosts = 2
  Reads = {v1, v2}
  Tables <- MCTables
  MaxPages = 2
  MaxTables = 2
  MaxTries = 2
  Life = 5
  Margin = 4
  Timeout = 1
  Pause = 1
  MaxTime = 7
  MaxSize = 3
  MaxAsked = 3
  MaxHits = 2
SPECIFICATION PartsSpec
INVARIANTS
  PartsTypeOK
  GraphSound InOrder AnswersBacked
  CallsHonest
  ChatsHonest
  TokensServe NothingSkipped
  PageWithinCap
PROPERTIES SentOnce PartsEnd
CHECK_DEADLOCK FALSE
