CONSTANTS
  PageCount = 128
  KernelBase = 65536
  KernelEnd = 5000
  Clearable = {0, 5, 63, 64, 127, 128}
SPECIFICATION Spec
INVARIANTS TypeOK ExclusiveGrant GrantInRange NothingLost HasZeroExact BitmapOwned
PROPERTIES FullSetPanics
