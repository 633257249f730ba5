SPECIFICATION Spec
CONSTANTS
  Run = {r1, r2}
  Tool = {t1}
  Key = {k1, k2, k3, k4}
  NoKey = NoKey
  Absent = Absent
  Broken = Broken
INVARIANTS PairMatches IdentityKept OneIdentity
