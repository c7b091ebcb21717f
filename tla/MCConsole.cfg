CONSTANTS
  VGA_WIDTH = 2
  VGA_HEIGHT = 2
  Glyphs = {"a", "k"}
  Colors = {15}
  MaxHead = 5
  TextChars = {"a", "newline"}
  KeyChars = {"k", "newline", "backspace"}
  MaxText = 5
  MaxKeys = 3
SPECIFICATION ConsoleSpec
INVARIANTS ConsoleTypeOK CallsAtomic CursorSafe
