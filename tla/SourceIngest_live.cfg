SPECIFICATION FairSpec
CONSTANTS
  a = a
  b = b
  Sources = {a, b}
  Kind <- FileAndPbi
  Content <- OtherContent
  Table <- SameTable
  Patient = TRUE
  Faults = TRUE
  Deletable = {}
  MaxConfirms = 1
CHECK_DEADLOCK FALSE
PROPERTIES  IngestEnds
