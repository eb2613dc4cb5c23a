SPECIFICATION Spec
CONSTANTS
  A = A
  B = B
  v1 = v1
  v2 = v2
  v3 = v3
  Trunk = A
  UINT64_MAX = 1000
  Chains = {A, B}
  Validators = {v1}
  EffectiveBalance <- WholeBalance
  MaySlash = {}
  EmptyEpochs = {}
  MaxEpoch = 6
INVARIANTS
  AccountableSafety
CHECK_DEADLOCK FALSE
