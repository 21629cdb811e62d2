SPECIFICATION FairSpec
CONSTANTS
  backup = backup
  trial = trial
  login = login
  Loop = Loop
  NoDialog = NoDialog
  Dialogs = {backup}
  Signatures = {"backup", "trial", "login"}
  Sig <- MCSig
  Recognized = {"backup", "trial"}
  Anything = Anything
  Stubborn = {}
  Calls = {c1}
  People = {p1}
  WarnInterval = 1
  RetryInterval = 1
  Span = 1
PROPERTIES
  RecognizedGoesAway
  GoneIsForgotten
