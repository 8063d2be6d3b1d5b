SPECIFICATION FairSpec
CONSTANTS
  alice = alice
  mallory = mallory
  Sender = {alice, mallory}
  Allowed = {alice, mallory}
  Denied = {mallory}
  Tool = {"send_email", "shell", "search_email", "unknown"}
  Answers <- Some
  MaxMails = 3
  MaxRuns = 2
  MaxTurns = 2
  MaxAttempts = 2
  MaxToolUses = 2
  DefaultDepth = 1
  MaxFaults = 1
INVARIANTS TypeOK TakenIsStored RequestWellFormed TraceExplains RecursionBounded
PROPERTIES RunsEndWithShells
CHECK_DEADLOCK FALSE
