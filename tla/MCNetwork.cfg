\* Two outputs and a multicast to both.
SPECIFICATION FairSpec
CONSTANTS
  None = None
  NumInputs = 2
  NumOutputs = 2
  InputSize = 1
  OutputSize = 1
  Destinations = {{0}, {1}, {0, 1}}
  MaxLength = 2
  GapsSettle = TRUE
INVARIANTS
  AssertionsHold
PROPERTIES
  ImplementsCrossbar
  EveryFlitLeaves
