CONSTANTS
  None = None
  Slots = {1, 2}
  Queues = {qa, qb}
  Definitions = {blank, d1}
  Blank = blank
  Letters = {1}
  Kept = 2
  Watched = {1, 2, 3}
  Units = {u1, u2}
  Folders = {f1}
  Ways = {plain, c1}
  Plain = plain
  Filters = {fa, fb}
  MaxWorkers = 2
  MaxCommands = 2
  Groups = {"g1", "g2"}
  NewGroup = "g2"
  MaxGroups = 1
  Broken = Broken
  Fields = {"f1", "f2"}
  Fallen = {"f1"}
  WorkedOut = {"f2"}
  Optional = {"f1"}
  Values = {"v1"}
  InUse = "v1"
  Off = "off"
  MaxElsewhere = 1
  Logins = {"ana", "root"}
  Master = "root"
  Addresses = {"/usuarios"}
  MaxActs = 1
  MaxBreaks = 1
  Addressed = {"q1", "q2"}
  Bodies = {"b1", "b3"}
  NotJson = {"b3"}
  Names = {"n1"}
  MaxWrites = 1
  Things = {"t1", "t2"}
  Periods = {1, 2}
  Finds <- Words
  Lower <- SmallLetters
  Empty = ""
  TextLines = {"", "x"}
  MaxLines = 4
  TooMuch = 20
  Context = 1
  Folded <- InSmall
  Windows = {60}
  MaxWindows = 0
SPECIFICATION Spec
INVARIANTS
  WhatIsShownIsOfItsQueue
  WatchSaysTheFurthest
  OnlyWhatWasChosenChanges
  UnsavedIsMarked
  LiveWhileInside
  PublishedAsAsked
  ChangesAreOfTheFilters
  ComparisonIsWhole
  MarksAreTheText
  DrawnAsWhatItIs
SYMMETRY Symmetry
CHECK_DEADLOCK FALSE
