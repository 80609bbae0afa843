SPECIFICATION Spec
CONSTANTS
  MaxHeight = 5
  MaxU32 = 3
  MaxU64 = 7
  Ids <- SomeIds
  OtherRequests <- SomeRequests
  DigitsAsBase64 <- FourDigits
  Fragments <- SomeFragments
  MaxErrors = 2
INVARIANTS
  NeverAnotherBlob
  OwnIdIsAccepted
  JobCanBeAskedFor
CHECK_DEADLOCK FALSE
