SPECIFICATION Spec
CONSTANTS
  Fields <- MCFields
  Page <- MCPage
  Kind <- MCKind
  Seed <- MCSeed
  Default <- MCDefault
  Texts <- MCTexts
  Numerals = {"600", "45", "1", "0"}
  Environments <- MCEnvironments
  Forms <- MCForms
  Saves = {s1, s2}
  People = {p1, p2}
  A = A
  B = B
  Passwords = {A, B}
  Secrets = {x, y}
  NotGiven = NotGiven
  NoPassword = NoPassword
  NoSecret = NoSecret
SYMMETRY Interchangeable
INVARIANTS
  TypeOK
  SavedIsOnDisk
  CookiesStayValid
  LetInWithPassword
  FirstLoginIsOver
PROPERTIES
  RunsAsSaved
