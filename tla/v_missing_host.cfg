SPECIFICATION RoutingSpec
CONSTANTS
  None = None
  Null = Null
  Lowercase <- MCLowercase
  Alphanumeric <- MCAlphanumeric
  Digits = {"1"}
  MaxLabel = 3
  DefaultLimit <- MCDefaultLimit
  DefaultTimeout <- MCDefaultTimeout
  DefaultSticky <- MCDefaultSticky
  DefaultInterval = 5000
  OptionInputs <- MCOptionInputs
  RequestInputs <- MCRequestInputs
  UpstreamInputs <- MCUpstreamInputs
  MaxAffinityKey = 3
  GeneratedKey <- MCGeneratedKey
  OtherCookies <- MCOtherCookies
  ControlCharacters = {"^"}
  Aborted = Aborted
INVARIANTS DefaultIsCatchAll
CHECK_DEADLOCK FALSE
