SPECIFICATION Spec
CONSTANTS
  Calls = {c1, c2}
  MaxAttempts = 3
  Monitor = Monitor
  Nobody = Nobody
PROPERTIES
  CallsKeepQBOpen
