CONSTANTS
  None = None
  Names = {q1}
  Instances = {i1}
  Messages = {m1}
  Consumers = {c1, c2}
  Callers = {k1}
  Sweeper = sweeper
  Requests = {"publish", "bind", "respond", "await", "collect", "respondLate", "take", "disconnect", "sweep"}
  Kinds <- OnlyRpc
  Options <- NoOptions
  Defaults <- Brief
  Disposable = {}
  DisposableSettings <- Thrown
  EmptyLifetime = 1
  MaxNow = 1
SPECIFICATION Spec
INVARIANTS
  NoAnswerIsKeptFromAWaiter
PROPERTIES
  KeepsTheLifeOfAMessage
  OnlyTheHolderLetsGo
SYMMETRY Symmetry
CHECK_DEADLOCK FALSE
