CONSTANTS
  Builds <- MCBuilds
  MaxText = 3
  Bits = 4
  MemWords = 6
  Calls <- MCCalls
  Addresses = {4}
  Arrays <- MCArrays
  Shapes <- MCShapes
SPECIFICATION KernelsSpec
INVARIANTS KernelsTypeOK MaskShowsText DenseIdsFit SurvivorsOffered SampledIsTaken AllocatedSuffices
PROPERTIES WritesOnlyBuffer FillsOnlyArray
