SPECIFICATION FairSpec
CONSTANTS
  Personas <- TwoPersonas
  Keymap <- DefaultKeymap
  Limit = 1
  MaxThreads = 2
  MaxMails = 1
  MaxSends = 2
  MaxReplies = 2
  MaxText = 1
  MaxFaults = 1
INVARIANTS TypeOK ComposeIsSafe RepliesStayHome
PROPERTIES InboxCatchesUp
CHECK_DEADLOCK FALSE
