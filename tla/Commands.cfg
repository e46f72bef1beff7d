CONSTANTS
  Procs = {p1, p2}
  Tokens = {t1, t2}
  Account = {}
SPECIFICATION Spec
SYMMETRY Symmetry
INVARIANTS TypeOK OnlyRealTokens OneLoginServesAll
PROPERTY ServedIsKept
