\* A patient client with the right password after, between or before one that
\* may stop at any point of its login, one whose A is degenerate and one with
\* an unknown user; frames are delayed and reordered, never repeated.
SPECIFICATION FairSpec
CONSTANTS
  c1 = c1
  c2 = c2
  c3 = c3
  c4 = c4
  root = root
  admin = admin
  nobody = nobody
  right = right
  wrong = wrong
  NoUser = NoUser
  NoKey = NoKey
  Clients = {c1, c2, c3, c4}
  User <- UnknownUser
  Password <- RightPassword
  Passwd <- MCPasswd
  Degenerate = {c3}
  Impatient = {c2}
  Duplicates = FALSE
  Faults = {}
  MaxExponent = 3
PROPERTIES LoneClientServed
CHECK_DEADLOCK FALSE
