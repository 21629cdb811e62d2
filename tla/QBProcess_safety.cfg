SPECIFICATION FairSpec
CONSTANTS
  Calls = {c1, c2}
  MaxAttempts = 3
  Monitor = Monitor
  Nobody = Nobody
INVARIANTS
  TypeOK
  NobodyCallsWhileClosing
  
PROPERTIES
  IdleQBIsClosed
