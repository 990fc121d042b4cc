CONSTANTS
  IntBuf = 5
  IntMax = 127
  Sources <- MCSources
  Delims <- MCDelims
  Questions <- MCQuestions
  SourceLen = 4
  LookLen = 3
  LookBytes = {65, 97, 95, 32}
  InitCap = 2
  StackBuf = 2
  MaxLen = 8
SPECIFICATION Spec
INVARIANTS
  CallsRight
  NothingLeaks
  TokenizersAgree
  LooksAgree
