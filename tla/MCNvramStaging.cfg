\* Space for all three variables with short values, not with long ones.
SPECIFICATION Spec
CONSTANTS
  lan = lan  init = init  ncdl = ncdl
  ten = ten  hexten = hexten  one = one
  Names <- SomeNames
  Values <- SomeValues
  Sdram <- SomeSdram
  Numbers <- SomeNumbers
  Number <- SomeNumber
  Text <- SomeText
  Default <- SomeDefault
  Size <- SomeSize
  Space = 3
  MaxEdits = 1
  Faults = {"power", "open", "write"}
  Unset = Unset
  Nothing = Nothing
  Empty = Empty
  Torn = Torn
INVARIANTS TypeOK HeaderAgrees ChangesKept
PROPERTIES ImplementsStore
CHECK_DEADLOCK FALSE
