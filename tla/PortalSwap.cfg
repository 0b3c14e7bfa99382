SPECIFICATION Spec
CONSTANTS
  NumSlots = 2
  Figures = {f1, f2, f3}
  Halves = {}
  h1 = h1
  h2 = h2
  Combos <- NoCombos
  Foreign = {}
  None = None
  NoFigure = None
  Hold = 2
  QueuedSlots = 8
  QueueLen = 8
  MaxOutstanding = 0
  MaxChanges = 3
  MaxFailures = 0
  MaxAudio = 0
PROPERTY
  SwapIsSeen
