SPECIFICATION Spec
CONSTANTS
  Presets = {1, 2, 4}
  LargestAuto = 2
  Adds = {a1, a2}
  Seeds = {s1, s2}
  Removes = {r1, r2}
  Inputs <- MCInputs
  Mixes <- MCMixes
  MaxOverlap = 2
  Known <- MCKnown
  DefaultPiece = 4
  NoSession = NoSession
SYMMETRY Symmetry
INVARIANTS
  MapsAgree
  RegistryAgrees
  DestroyLeavesNothing
  SeedsTheInput
  SeedsAreComplete
CHECK_DEADLOCK FALSE
