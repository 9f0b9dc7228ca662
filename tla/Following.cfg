CONSTANTS
  None = None
  Slots = {1, 2}
  Processes = {1, 2}
  MaxLines = 2
  KeptLines = 2
  MaxTroubles = 2
  Units = {u1, u2}
  Folders = {f1}
  Ways = {plain}
  Plain = plain
  Filters = {fa, fb}
  MaxWorkers = 1
  MaxCommands = 2
  Logins = {"ana"}
  Master = "root"
  Addresses = {"/"}
  MaxActs = 1
  MaxBreaks = 1
SPECIFICATION FairSpec
INVARIANTS
  OneStreamOfTheProcesses
  LinesInTheOrderWritten
PROPERTIES
  TheGroupIsFollowed
  TheStatusIsShownInTheEnd
  TheFilterWins
  WhoStaysIsConnected
CHECK_DEADLOCK FALSE
