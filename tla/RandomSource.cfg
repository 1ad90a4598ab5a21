SPECIFICATION SourceSpec
CONSTANTS
  Handles = {h1, h2}
  Seeds = {s1}
  ByteBits = 1
  LimbBytes = 2
  WordBytes = 4
  Outputs <- SomeOutputs
  Requests <- SomeRequests
  MaxSources = 2
  MaxCalls = 3
INVARIANTS DrawInv Reproducible
SYMMETRY Symmetry
