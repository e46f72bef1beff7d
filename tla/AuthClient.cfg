CONSTANTS
  Callbacks = {c1, c2, c3}
  None = None
SPECIFICATION Spec
INVARIANT TypeOK
PROPERTIES LoginImplemented LoginEnds
CHECK_DEADLOCK FALSE
