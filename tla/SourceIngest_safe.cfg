SPECIFICATION Spec
CONSTANTS
  a = a
  b = b
  Sources = {a, b}
  Kind <- BothFile
  Content <- SameContent
  Table <- OtherTable
  Patient = TRUE
  Faults = TRUE
  Deletable = {a}
  MaxConfirms = 1
CHECK_DEADLOCK FALSE
INVARIANTS NoDuplicateContent StatusMatchesData
