SPECIFICATION Spec
CONSTANTS
  NumSlots = 2
  Figures = {x}
  Halves = {}
  Combos = {}
  Foreign = {f1}
  None = None
  Images = {fresh, played}
  Fresh = fresh
  NoOrder = NoOrder
  Repeats = 2
  QueueLen = 3
  MaxChanges = 3
  MaxFailures = 1
  MaxRefusals = 1
INVARIANTS
  TypeOK
  TablesAgree
  ChangesFirst
  FigureOnOnePosition
PROPERTIES
  CleanMeansStored
  DirtyLostOnlyIfRefused
  AskingIsEnough
