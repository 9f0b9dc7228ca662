CONSTANTS
  None = None
  Names = {q1, q2}
  Instances = {i1, i2}
  Messages = {m1, m2}
  Consumers = {c1}
  Callers = {k1}
  Sweeper = sweeper
  Requests = {"publish", "bind", "confirm", "disconnect"}
  Kinds <- OnlyPlain
  Options <- NoOptions
  Defaults <- Kept
  Disposable = {}
  DisposableSettings <- Thrown
  EmptyLifetime = 1
  MaxNow = 0
SPECIFICATION FairClients
INVARIANTS
  WhatConsumersHold
PROPERTIES
  EveryMessageIsServed
CHECK_DEADLOCK FALSE
