CONSTANTS
  PageCount = 70
  KernelBase = 65536
  KernelEnd = 5000
  Clearable = {0, 63, 69, 70, 127}
SPECIFICATION Spec
PROPERTIES FullSetPanics
