SPECIFICATION Spec
CONSTANTS
  passport = passport
  clock = clock
  Boards = {b1, b2}
  Widgets = {passport, clock}
  Passport = passport
  Default <- DefaultHeights
  Floor = 2
  MaxHeight = 3
  MaxEdits = 2
  MaxFaults = 1
  None = None
PROPERTIES ResizeStands
CHECK_DEADLOCK FALSE
