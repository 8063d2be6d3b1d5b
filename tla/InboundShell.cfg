SPECIFICATION FairSpec
CONSTANTS
  alice = alice
  mallory = mallory
  Sender = {alice}
  Allowed = {alice}
  Denied = {}
  Tool = {"shell"}
  Answers <- Shells
  MaxMails = 1
  MaxRuns = 1
  MaxTurns = 2
  MaxAttempts = 1
  MaxToolUses = 1
  DefaultDepth = 1
  MaxFaults = 0
PROPERTIES RunsEnd
CHECK_DEADLOCK FALSE
