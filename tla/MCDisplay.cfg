CONSTANTS
  Width = 5
  Height = 12
  Pitch = 6
  MaxDrms = 2
  CharWidth = 2
  CharHeight = 4
  Glyph <- MCGlyph
  FallbackGlyph <- MCFallback
  Cpus = {c1, c2}
  Calls <- MCCalls
  ScrollStep = 2
  MaxPrints = 2
  MaxSwitches = 1
  NoOne = NoOne
SPECIFICATION Spec
INVARIANTS
  TypeOK
  CursorInside
  DirtyCovers
  PictureTrue
  NumbersReadBack
PROPERTIES
  OutsideAfterBackspace
\* The bounds of prints and switches end the behaviour.
CHECK_DEADLOCK FALSE
