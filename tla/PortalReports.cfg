SPECIFICATION Spec
CONSTANTS
  NumSlots = 2
  Figures = {f1}
  Halves = {h1, h2}
  h1 = h1
  h2 = h2
  Combos <- MCCombos
  Foreign = {}
  None = None
  NoFigure = None
  Hold = 2
  QueuedSlots = 8
  QueueLen = 8
  MaxOutstanding = 2
  MaxChanges = 2
  MaxFailures = 1
  MaxAudio = 1
INVARIANTS
  TypeOK
  SlotsConsistent
  PlacementFollows
PROPERTIES
  WholeWalkQueued
  SelectionIsShown
  CommandsAreAnswered
