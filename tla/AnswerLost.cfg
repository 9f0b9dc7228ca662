CONSTANTS
  None = None
  Names = {q1}
  Instances = {i1}
  Messages = {m1}
  Consumers = {c1, c2}
  Callers = {k1}
  Sweeper = sweeper
  Requests = {"publish", "bind", "respond", "disconnect"}
  Kinds <- OnlyRpc
  Options <- NoOptions
  Defaults <- Kept
  Disposable = {}
  DisposableSettings <- Thrown
  EmptyLifetime = 1
  MaxNow = 0
SPECIFICATION Spec
INVARIANTS
  NoAnswerIsLost
SYMMETRY Symmetry
CHECK_DEADLOCK FALSE
