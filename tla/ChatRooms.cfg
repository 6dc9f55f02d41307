\* Three connections, two rooms, five commands, one recent message.
SPECIFICATION Spec
CONSTANTS
  Connections = {c1, c2, c3}
  Rooms = {lobby, attic}
  RecentLimit = 1
  MaxCommands = 5
SYMMETRY Interchangeable
INVARIANTS
  MembershipAgrees
  EveryChangeOnce
  NothingFromOutside
  HistoryHasNoGap
PROPERTIES
  InOrderPerSender
CHECK_DEADLOCK FALSE
