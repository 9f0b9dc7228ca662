CONSTANTS
  None = None
  Names = {q1}
  Instances = {i1}
  Messages = {m1, m2}
  Consumers = {c1, c2}
  Callers = {k1}
  Sweeper = sweeper
  Requests = {"publish", "bind", "confirm", "disconnect", "take", "unbind"}
  Kinds <- OnlyPlain
  Options <- NoOptions
  Defaults <- Returned
  Disposable = {}
  DisposableSettings <- Thrown
  EmptyLifetime = 1
  MaxNow = 0
SPECIFICATION Spec
INVARIANTS
  TypeOK
  InOnePlace
  NoMessageSleeps
PROPERTIES
  KeepsTheLifeOfAMessage
SYMMETRY Symmetry
CHECK_DEADLOCK FALSE
