SPECIFICATION ViewerSpec
CONSTANTS
  d1 = d1
  d2 = d2
  Docs = {d1, d2}
  Pages = {0, 1}
  Tiles <- TwoPlaces
  Views <- PreviewOrAll
  Keys <- AllKeys
  Capacity = 1
  MaxJobs = 2
  MaxSession = 2
PROPERTIES
  ErrorsAreCurrent
CHECK_DEADLOCK FALSE
