SPECIFICATION RosterSpec
CONSTANTS
  c1 = c1  c2 = c2  c3 = c3
  Client = {c1, c2, c3}
  Lower = Lower
  ChannelName = {Lower}
  lower <- MClower
  nobody = nobody
  Param = {c1, c2, c3, nobody}
  ValidKey = {}
  Numeral = {}
  atoi <- MCatoi
  Topic = {}
  ModeLine <- GiveOp
  ParamLine = {}
  Empty = Empty
  BadName = BadName
  NULL = NULL
  bob = bob  BOB = BOB  amy = amy  dan = dan
  Nick = {bob, BOB, amy, dan}
  lowerNick <- MClowerNick
  BadNick = BadNick
  right = right  wrong = wrong
  Password = {right, wrong}
  password = right
  BadUser = BadUser
SYMMETRY Interchangeable
VIEW ButSent
INVARIANTS
  RosterExact
