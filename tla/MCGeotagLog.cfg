SPECIFICATION Spec
CONSTANTS
  Bssids = {b1, b2}
  Times = {0, 1, 3}
  Powers = {0, 50}
  GeotagLag = 1
  Positions <- SomePositions
  MaxLines = 5
SYMMETRY Symmetry
INVARIANT ParserInv
INVARIANT ParsedSession
INVARIANT SelectedNearest
INVARIANT TagsAreCoordinates
CHECK_DEADLOCK FALSE
