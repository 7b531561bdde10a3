CONSTANTS
  NamesLens = {0, 13, 370}
  CommLens = {5, 16}
  ExeLens = {27}
  CmdlineLens = {300, 5000}
  CgroupLens = {21}
  SeclabelLens = {9}
  Masks <- MCMasks
  MayFail = TRUE
  MaxCalls = 2
SPECIFICATION Spec
INVARIANTS
  TruncatedReadAborts
