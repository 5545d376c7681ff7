SPECIFICATION LiveSpec
CONSTANTS
  None = None
  Configured = TRUE
  MaxFailures = 3
  MaxTip = 1
  MaxFaults = 1
INVARIANTS ConnectionKept
PROPERTIES ViewFollows
