CONSTANTS
  None = None
  Names = {q1}
  Instances = {i1}
  Messages = {m1, m2, m3}
  Consumers = {c1}
  Callers = {k1}
  Sweeper = sweeper
  Requests = {"publish", "requeue", "discard", "configure", "sweep"}
  Kinds <- PlainOrShort
  Options <- NarrowOptions
  Defaults <- TwoLetters
  Disposable = {}
  DisposableSettings <- Thrown
  EmptyLifetime = 1
  MaxNow = 2
SPECIFICATION Spec
INVARIANTS
  LettersTellTheTruth
SYMMETRY Symmetry
CHECK_DEADLOCK FALSE
