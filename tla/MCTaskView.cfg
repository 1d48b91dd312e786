SPECIFICATION ViewSpec
CONSTANTS
  Program = {p1}
  Group = {A, B}
  Parallelism = 2
  None = None
INVARIANT StoppedOutcome
PROPERTIES
  ImplementsLifecycle
  ThrownSurfaces
  EventuallySettles
  OutputsAreShown
