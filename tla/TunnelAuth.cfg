CONSTANTS
  Runs = {r1, r2}
  Tokens = {t1}
  Flag = {"foreign"}
  AccountFile = {"torn"}
  UseTLS = TRUE
  NoRun = NoRun
SPECIFICATION Spec
PROPERTIES EventsInOrder StopEndsRuns
INVARIANTS TypeOK TunnelerReady SecondAttemptFresh NoNeedlessLogin
