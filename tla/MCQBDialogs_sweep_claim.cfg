SPECIFICATION Spec
CONSTANTS
  backup = backup
  trial = trial
  login = login
  Loop = Loop
  NoDialog = NoDialog
  Dialogs = {backup, login}
  Signatures = {"backup", "trial", "login"}
  Sig <- MCSig
  Recognized = {"backup", "trial"}
  Anything = Anything
  Stubborn = {}
  Calls = {c1}
  People = {}
  WarnInterval = 1
  RetryInterval = 1
  Span = 1
INVARIANTS
  SweepEndsWell
