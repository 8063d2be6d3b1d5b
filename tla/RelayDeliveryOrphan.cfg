SPECIFICATION Spec
CONSTANTS
  r1 = r1
  r2 = r2
  Recipient = {r1, r2}
  MaxAttempts = 2
  RelayTries = 2
  ManyCopies = 2
  MaxFaults = 1
INVARIANT GatewaySurvives
CHECK_DEADLOCK FALSE
