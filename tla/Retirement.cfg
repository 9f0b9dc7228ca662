CONSTANTS
  None = None
  Names = {q1}
  Instances = {i1, i2}
  Messages = {m1, m2}
  Consumers = {c1}
  Callers = {k1}
  Sweeper = sweeper
  Requests = {"publish", "bind", "unbind", "take", "sweep"}
  Kinds <- OnlyPlain
  Options <- NoOptions
  Defaults <- Kept
  Disposable = {}
  DisposableSettings <- Thrown
  EmptyLifetime = 0
  MaxNow = 1
SPECIFICATION FairThreads
INVARIANTS
  RetiredQueueHoldsNothing
  NothingIsStranded
PROPERTIES
  CallsEnd
CHECK_DEADLOCK FALSE
