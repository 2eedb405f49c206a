SPECIFICATION Spec
CONSTANTS
  DrawingSet = DrawingSet
  None = None
  Docs <- MCDocs
  Pages <- MCPages
  Boxes <- MCBoxes
  MaxUndo = 1
  MaxMoves = 3
PROPERTIES
  DrawnIsThere
