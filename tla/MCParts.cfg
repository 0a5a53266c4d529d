SPECIFICATION Spec
CONSTANTS
  MaxLine = 19
  Line <- MCLine
  MaxMiddle = 3
  LoginFree <- MCLoginFree
  LoginOnly <- MCLoginOnly
  Nickname <- MCNickname
  Username <- MCUsername
  Ip <- MCIp
  ServerName <- MCServerName
  Numeric <- MCNumeric
  Verb <- MCVerb
  QUIT <- MCQuit
  OwnVerb <- MCOwnVerb
  BareVerb <- MCBareVerb
  Param <- MCParam
  MaxArgs = 2
  Trail <- MCTrail
  NoText = NoText
  NoReply = NoReply
  Data = {10, 13, 97}
  RecvSize = 3
  InMax = 2
  MaxStream = 7
  Reply <- MCReply
  ErrorLine <- MCErrorLine
  MAX_SENDQ = 30
  MaxReplies = 3
  Alphabet = {35, 32, 44, 48, 57, 64, 65, 91, 94, 123, 126, 195, 226, 130, 240}
  MaxTopic = 3
  MaxDigits = 3
  IntTop = 1024
  MaxText = 4
  Members <- MCMembers
  Size <- MCSize
  MaxEntry = 3
  PrefixSizes = {8, 11, 13, 15, 16}
  Fd = {f1, f2, f3}
  Port = {0, 1, 65535, 65536}
INVARIANTS
  CleanMessage
  ReadsAsMeant
  KeepsCharacters
  ReadBack
  ChunkingInvisible
  FloodLimit
  PeerReadsReplies
  FlushedHasError
  NamesAreSafe
  KeptAsMeant
  EveryoneListed
  ClosedAtExit
PROPERTIES
  StopsOnSignal
CHECK_DEADLOCK FALSE
