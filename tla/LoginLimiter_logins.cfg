\* Two clients, three handlers, two failures in a window of two ticks of three.
SPECIFICATION Spec
CONSTANTS
  c1 = c1 c2 = c2 h1 = h1 h2 = h2 h3 = h3
  Clients = {c1, c2}
  Handlers = {h1, h2, h3}
  Limit = 2
  Window = 2
  MaxTime = 3
  None = None
SYMMETRY LimiterSymmetry
INVARIANTS WindowIsBounded
PROPERTIES RefusedOnlyWhenFull
