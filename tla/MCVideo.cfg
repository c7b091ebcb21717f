CONSTANTS
  VGA_WIDTH = 2
  VGA_HEIGHT = 3
  Glyphs = {"nul"}
  Colors = {15}
  MaxHead = 7
SPECIFICATION Spec
INVARIANTS TypeOK CursorInRow RowExtents
PROPERTIES IsTerminal
