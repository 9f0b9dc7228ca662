CONSTANTS
  None = None
  Slots = {1, 2}
  Objects = {1, 2}
  Drafts = {1, 2}
  Made <- ThreeAndOne
  Texts = {"name"}
  Searches = {"a", "b", "c"}
  TooShort = {"c"}
  Routes = {"r1", "r2"}
  MaxRuns = 1
  Versions = {"v1", "v2"}
  MadeHere = {"v2"}
  Items = {1}
  MaxOrders = 1
  TargetFiles = {"f1", "f2"}
  MaxEdits = 1
  NoFolder <- Missing
  Sought = {"cart"}
  Loose = "modules"
  MaxTasks = 2
  Packages = {1, 2}
SPECIFICATION Spec
INVARIANTS
  WhatIsToldIsIn
  EveryVersionIsListedOnce
  ListIsOfTheSearch
  ComparisonIsOfTheRoute
  OneDecisionAtATime
  UnreadIsSaid
  PackedOrSaid
  NothingLeftHalfMade
CHECK_DEADLOCK FALSE
