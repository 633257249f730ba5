SPECIFICATION Spec
CONSTANTS
  r = r
  p = p
  q = q
  ur = ur
  up = up
  uq1 = uq1
  uq2 = uq2
  Node = {r, p, q}
  Addr = {ur, up, uq1, uq2}
  Home <- MCHome
  Modes <- MCModes
  Seeds <- MCSeeds
  NoEntry = NoEntry
  MaxNet = 1
  Users = {p}
  Wanted = {q}
  Claims <- MCClaims
INVARIANTS TypeOK SilentNodesTrue AddressesOfNodes RelaysWereRelays
