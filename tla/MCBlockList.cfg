SPECIFICATION Spec
CONSTANTS
  d1 = d1
  d2 = d2
  g1 = g1
  Doc = {d1, d2}
  Guardian = {g1}
  Guardians <- MCGuardians
  Quorum <- MCQuorum
  BansMe = {d2}
  Broken = Broken
  None = None
  MaxSigs = 2
INVARIANT EnforcedSigned
