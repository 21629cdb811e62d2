SPECIFICATION Spec
CONSTANTS
  add = add
  revise = revise
  remove = remove
  Intents = {add, revise, remove}
  Kind <- MCKind
  Wants <- MCWants
  Ids = {"r1", "r2"}
  Old = {"r1"}
  Tags = {"line", "group", "memo", "rate"}
  Texts = {"", "a", "b", "7"}
  EmptyText = ""
  seven = seven
  Scalars = {seven}
  Str <- MCStr
  Contents <- MCContents
  MaxTries = 2
  MaxSeq = 4
  NoId = NoId
INVARIANTS
  TypeOK
  OutcomeTrue
PROPERTIES
  NoLostUpdate
  AppliedAsAsked
