SPECIFICATION Spec
CONSTANTS
  NumSlots = 3
  Figures = {f1}
  Halves = {h1, h2, h3}
  h1 = h1
  h2 = h2
  h3 = h3
  Combos <- MCCombos
  Foreign = {x}
  None = None
  Images = {fresh, played}
  Fresh = fresh
  Debounce = 1
  Off = Off
  MaxChanges = 3
  MaxRefusals = 2
INVARIANTS
  TypeOK
  FigureOnOneSlot
PROPERTIES
  CleanMeansStored
  DirtyLostOnlyIfRefused
  
