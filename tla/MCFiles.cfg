CONSTANTS
  NULL = NULL
  Wild = Wild
  Width = 6
  Height = 5
  Pitch = 6
  MaxDrms = 2
  CharWidth = 2
  CharHeight = 4
  Glyph <- MCGlyph
  FallbackGlyph <- MCFallback
  Trees <- MCTrees
  Directories <- MCDirectories
  Paths <- MCPaths
  Figures <- MCFigures
  Transfers <- MCTransfers
  MaxOps = 6
SPECIFICATION Spec
INVARIANTS
  FilesFound
  ReadsReach
  FiguresWhole
PROPERTIES
  DrmReadsBack
\* The bound of calls ends the behaviour, or undefined behaviour does.
CHECK_DEADLOCK FALSE
