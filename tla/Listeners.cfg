CONSTANTS
  Ids = {a}
  FixedPort = {}
  Loops = {g1, g2}
  NoLoop = NoLoop
SPECIFICATION Spec
INVARIANTS TypeOK ListedIsServed LiveIsListed LastStatusIsTrue
PROPERTY StoppedEnds
