SPECIFICATION Spec
CONSTANTS
  Requests = {r1, r2}
  Overlays = {o1, o2, o3}
  MaxEntries = 5
  MaxPending = 2
  MaxStarts = 6
  Docs = {idc, intl}
  IdCard = idc
  MaxAttempts = 2
  MaxClock = 2
  Codes = {c1}
  MaxTicks = 2
  Devices = {d1}
  MaxEvents = 1
  MaxCalls = 2
  MaxWeek = 2
  MaxComments = 1
  First = p1
  Second = p2
  MaxDay = 3
  Window = 3
  Handlers = {h1}
  MaxDuties = 3
  Boards = {b1, b2}
  Widgets = {passport, clock}
  Passport = passport
  Default <- DefaultHeights
  Floor = 2
  MaxHeight = 3
  MaxEdits = 2
  MaxFaults = 1
  None = None
INVARIANTS
  EffectOnce
  SettledAgree
  OneViewer
  AttemptsInOrder
  OneClaim
  ListCurrent
  ModalIsHonest
  ThreadIsOfTheWeek
PROPERTIES
  FailedHintDropped
  NoFlash
  StaysInApp
  HydrationKeeps
  NightlySettlesOnce
  DecisionStands
  MigrationSound
CHECK_DEADLOCK FALSE
