CONSTANTS
  Pages = {"p1", "p2", "p3", "p4"}
SPECIFICATION Spec
INVARIANTS Linked
PROPERTIES InnerOperationsSafe
