SPECIFICATION Spec
CONSTANTS
  k1 = k1
  k2 = k2
  bad = bad
  s1 = s1
  s2 = s2
  NoKey = NoKey
  NoSocket = NoSocket
  Key = {k1, k2, bad}
  Malformed = {bad}
  Socket = {s1, s2}
  Mail = {1}
  MaxRecipients = 2
  MaxRecords = 2
  MaxChallenges = 2
INVARIANT AcceptedReached
