CONSTANTS
  DeviceLines = {0, 4, 5, 8}
  Scancodes = {30, 31, 128, 158}
  Faults = {0, 6, 14}
  Garbage = {0, 1}
  Hz = 1
  MaxKeys = 2
  MaxFrames = 3
SPECIFICATION Spec
INVARIANTS OnlyRequestedLinesOpen
