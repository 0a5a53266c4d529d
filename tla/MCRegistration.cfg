SPECIFICATION Spec
CONSTANTS
  c1 = c1  c2 = c2  c3 = c3
  bob = bob  BOB = BOB  amy = amy
  Client = {c1, c2, c3}
  Nick = {bob, BOB, amy}
  lower <- MCLower
  BadNick = BadNick
  right = right wrong = wrong
  Password = {right, wrong}
  password = right
  Empty = Empty
  BadUser = BadUser
SYMMETRY Symmetry
INVARIANTS
  NickUnique
  RegisteredIsComplete
  NobodyLingers
