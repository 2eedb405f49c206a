SPECIFICATION Spec
CONSTANTS
  p1 = p1
  p2 = p2
  Pages <- MCPages
  Extent <- MCExtent
  Viewport <- MCViewport
  TILE = 2
  PREVIEW_EDGE = 2
  BASE_EDGE = 4
  MAX_LEVEL = 2
  MAX_JOBS = 3
  Density = 1
  Views <- MCViews
  NoView = NoView
  MaxClock = 10
INVARIANTS
  Accounting
  SightCovered
  CentreComesFirst
PROPERTIES
  NoThrash
  ImplementsLru
