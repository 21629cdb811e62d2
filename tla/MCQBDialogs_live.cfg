SPECIFICATION FairSpec
CONSTANTS
  backup = backup
  trial = trial
  login = login
  Loop = Loop
  NoDialog = NoDialog
  Dialogs = {backup, trial, login}
  Signatures = {"backup", "trial", "login"}
  Sig <- MCSig
  Recognized = {"backup", "trial"}
  Anything = Anything
  Stubborn = {trial}
  Calls = {}
  People = {}
  WarnInterval = 1
  RetryInterval = 1
  Span = 1
INVARIANTS
  TypeOK
  SweepEndsWell
PROPERTIES
  RecognizedGoesAway
  UnrecognizedIsWarned
  GoneIsForgotten
