SPECIFICATION FaultSpec
CONSTANTS
  Client = {c1, c2}
  c1 = c1
  c2 = c2
  Lower = Lower
  Upper = Upper
  Other = Other
  one = one
  ChannelName = {Lower, Other}
  lower <- MClower
  Param = {c1, c2}
  ValidKey = {}
  Numeral = {}
  atoi <- MCatoi
  Topic = {}
  ModeLine <- FewModes
  ParamLine <- OneParam
  Empty = Empty
  BadName = BadName
  NULL = NULL
SYMMETRY Interchangeable
VIEW ButSent
INVARIANTS
  PointersSurvive
  ChannelSideFirst
