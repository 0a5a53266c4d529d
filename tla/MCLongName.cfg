SPECIFICATION WireSpec
CONSTANTS
  Line = {}
  MaxLine = 510
  MaxMiddle = 14
  LoginFree = {}
  LoginOnly = {}
  Nickname <- OneNickname
  Username <- LongUsername
  Ip <- LocalIp
  ServerName <- Ircserv
  Numeric = {}
  Verb <- RealVerb
  QUIT <- RealQuit
  OwnVerb = {}
  BareVerb = {}
  Param = {}
  MaxArgs = 0
  Trail <- PingTimeout
  NoText = NoText
  NoReply = NoReply
INVARIANTS
  QuitIsSeen
CHECK_DEADLOCK FALSE
