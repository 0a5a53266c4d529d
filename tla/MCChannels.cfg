SPECIFICATION ViewSpec
CONSTANTS
  c1 = c1  c2 = c2  c3 = c3
  Client = {c1, c2, c3}
  Lower = Lower
  Upper = Upper
  top = top
  two = two
  ChannelName = {Upper, Lower}
  lower <- MClower
  Param = {c1, c2, c3, two}
  ValidKey = {two}
  Numeral = {two}
  atoi <- MCatoi
  Topic = {top}
  ModeLine <- FewModes
  ParamLine <- TwoParams
  Empty = Empty
  BadName = BadName
  NULL = NULL
SYMMETRY Interchangeable
VIEW ButSent
INVARIANTS
  MembershipAgrees
  NoDanglingPointer
  InvitesAgree
  OperatorsAreMembers
  NoEmptyChannel
  MirrorExact
PROPERTIES
  FrozenWithoutOperators
  Implements
