CONSTANTS
  Funcs = {"d1", "d2"}
  ATEXIT_MAX_FUNCS = 3
  MaxCalls = 3
SPECIFICATION Spec
INVARIANTS DestroyedOnce
