CONSTANTS
  Sizes = {8, 16, 20}
  MaxTags = 3
  MaxExceptions = 2
  Ports = {"working", "absent", "stuck"}
SPECIFICATION Spec
INVARIANTS TypeOK MachineAlive WireIsLog OnATag ReportsLast
PROPERTIES PanicReached StartupEnds
