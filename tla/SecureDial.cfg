CONSTANTS
  Names = {"h", "b", "c", "d", "x"}
  hostname = "h"
  aliasHops = 3
  HTTPSAnswers <- MCHTTPSAnswers
  AddressAnswers <- MCAddressAnswers
SPECIFICATION FairSpec
CHECK_DEADLOCK FALSE
INVARIANTS
  AddressesAreTraced
  NameIsConcealed
PROPERTIES
  FailuresAreFinal
  AttemptEnds
