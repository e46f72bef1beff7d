CONSTANTS
  t = t
  u = u
  Ids = {a, b}
  Tags = {t, u}
  NoId = NoId
  TagLists <- MCTagListsRepeated
  Inputs <- MCInputsRepeated
  Selectors <- MCSelectors
  Payloads <- MCPayloads
  MaxLoadable = 9
SPECIFICATION Spec
INVARIANT NoTagIndexBug
