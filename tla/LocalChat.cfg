SPECIFICATION ClientSpec
CONSTANTS
  Processes = {p1, p2}
  Sessions = {s1, s2}
  Packs = {k1, k2}
  QuestionSizes = {1}
  AnswerSizes = {1, 2}
  MaxPairs = 1
  Budget = 3
  None = none
  MaxExchanges = 3
  MaxRequests = 3
  MaxOther = 2
SYMMETRY Symmetry
INVARIANTS AnswerFollowsItsHistory RequestStoredOnce PinnedToItsPack ContinuesWhatWasShown
CHECK_DEADLOCK FALSE
