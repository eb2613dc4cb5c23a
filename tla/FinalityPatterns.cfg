SPECIFICATION Spec
CONSTANTS
  A = A
  B = B
  v1 = v1
  v2 = v2
  v3 = v3
  Trunk = A
  UINT64_MAX = 1000
  Chains = {A}
  Validators = {v1, v2, v3}
  EffectiveBalance <- EqualBalances
  MaySlash = {v1}
  EmptyEpochs <- EmptyAtTwo
  MaxEpoch = 5
INVARIANTS
  TypeOK
  CheckpointOrder
  FinalizedIsLatestSupported
  JustificationSound
PROPERTIES
  FinalityMonotone
CHECK_DEADLOCK FALSE
SYMMETRY ValidatorSymmetry
