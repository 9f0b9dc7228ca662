CONSTANTS
  None = None
  Slots = {1, 2}
  Apps <- AppsToldOf
  AddressOf <- NamesOfTheDns
  MaxSwaps = 1
  Folded = None
  Windows = {15, 60}
  MaxWindows = 2
SPECIFICATION WebFairSpec
PROPERTY
  WhoAnswersIsShown
  WindowIsShown
CHECK_DEADLOCK FALSE
