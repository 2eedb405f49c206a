SPECIFICATION Spec
CONSTANTS
  plan = plan
  detail = detail
  number = number
  author = author
  rough = rough
  neat = neat
  Blank = Blank
  Paths = {plan, detail}
  Sheets <- MCSheets
  Fields = {number, author}
  Once = {author}
  Values = {Blank, rough, neat}
  Clean <- MCClean
  Templates <- MCTemplates
  Default <- MCDefault
  Names = {typed}
  typed = typed
  Read <- MCRead
  Typed = {Blank, rough}
  MaxVersion = 2
  MaxSteps = 3
INVARIANTS
  NamesFollow
  RowsOfTheSet
  EditsReachCaptures
  SavedIsReviewed
PROPERTIES
  OrderIsAsAsked
  LayoutSurvives
CHECK_DEADLOCK FALSE
