CONSTANTS
  Conns = {c}
  Subs = {s1, s2}
  MaxEvents = 3
SPECIFICATION Spec
PROPERTIES PublishersGoOn StopEndsStreams
INVARIANTS TypeOK RegisteredIsOpen NoGap CaughtUp
