CONSTANTS
  None = None
  Names = {q1}
  Instances = {i1}
  Messages = {m1, m2}
  Consumers = {c1}
  Callers = {k1, k2}
  Sweeper = sweeper
  Requests = {"publish", "bind", "take", "configure", "pause", "purge"}
  Kinds <- OnlyPlain
  Options <- PauseOptions
  Defaults <- Kept
  Disposable = {}
  DisposableSettings <- Thrown
  EmptyLifetime = 1
  MaxNow = 0
SPECIFICATION Spec
PROPERTIES
  PauseIsBarrier
SYMMETRY Symmetry
CHECK_DEADLOCK FALSE
