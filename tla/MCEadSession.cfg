\* Three clients of two users, one with a wrong password, and two sessions: every frame
\* may be repeated, delayed, lost or replayed into a later session, the
\* server may be restarted, a command may fail. Two clients, one of them with
\* the wrong password, may give up with an answer on its way.
SPECIFICATION Spec
CONSTANTS
  c1 = c1
  c2 = c2
  c3 = c3
  c4 = c4
  root = root
  admin = admin
  nobody = nobody
  right = right
  wrong = wrong
  NoUser = NoUser
  NoKey = NoKey
  Clients = {c1, c2, c3}
  User <- TwoUsers
  Password <- MixedPassword
  Passwd <- MCPasswd
  Degenerate = {}
  Impatient = {c1, c2}
  Duplicates = TRUE
  Faults = {"command", "restart"}
  MaxExponent = 2
INVARIANTS TypeOK SessionCoherent SessionOwned AtMostOnceRun
PROPERTIES ImplementsAccess
CHECK_DEADLOCK FALSE
