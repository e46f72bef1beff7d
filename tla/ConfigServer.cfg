CONSTANTS
  t = t
  u = u
  Ids = {a, b}
  Tags = {t, u}
  NoId = NoId
  TagLists <- MCTagLists
  Inputs <- MCInputs
  Selectors <- MCSelectors
  Payloads <- MCPayloads
  MaxLoadable = 9
SPECIFICATION Spec
INVARIANTS TypeOK IndexConsistent AckedIsDurable CallsExact ListeningHasConn
PROPERTY StoreImplemented
