SPECIFICATION MintSpec
CONSTANTS
  Period = 2
  Leads = {1, 2, 3}
  MinLead = 2
  MintMargin = 3
  Deadline = 3
  Fresh = 4
  MinTokens = 1
  Tsas = 1
  Keys <- KeyHistory
  Lag = 1
  MaxTime = 7
  MaxMinted = 4
INVARIANT RetiredNeverSign
CHECK_DEADLOCK FALSE
