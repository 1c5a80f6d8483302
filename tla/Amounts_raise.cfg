\* A superscript, which is a digit to one function and not to another.
SPECIFICATION AmountSpec
CONSTANTS
  Meant <- SomeAmounts
  None = None
  Raised = Raised
INVARIANTS
  BadAmountAskedAgain
CHECK_DEADLOCK FALSE
