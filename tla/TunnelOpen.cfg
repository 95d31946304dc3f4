CONSTANTS
  Setups <- MCSetups
  Lookups <- MCLookups
  AddressTexts <- Texts
  maxHostnameLength = 6
  maxLabelLength = 3
  MinTokenBytes = 3
  clientMax = 12
SPECIFICATION FairSpec
CHECK_DEADLOCK FALSE
INVARIANTS
  OpenedIsUsable
  NothingLeaks
  OnlyAllowedDialed
  
PROPERTIES
  RefinesContract
  OpenReturns
