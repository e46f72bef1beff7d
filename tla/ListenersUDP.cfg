CONSTANTS
  Ids = {a}
  FixedPort = {}
  Loops = {g1, g2}
  NoLoop = NoLoop
SPECIFICATION Spec
INVARIANT ActiveIsReported
