SPECIFICATION RefSpec
CONSTANTS
  Client = {c1, c2}
  c1 = c1
  c2 = c2
  Lower = Lower
  NotAKey = NotAKey
  one = one
  ChannelName = {Lower}
  lower <- MClower
  Param = {c1, c2, NotAKey, one}
  ValidKey = {c1, c2, one}
  Numeral = {one}
  atoi <- MCatoi
  Topic = {}
  ModeLine <- Lines
  ParamLine <- Arguments
  Empty = Empty
  BadName = BadName
  NULL = NULL
SYMMETRY Interchangeable
INVARIANTS
  TypeOK
  NoBranchLeft
PROPERTIES
  TwoReadings
  Announced
