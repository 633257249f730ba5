SPECIFICATION Spec
CONSTANTS
  a = a
  b = b
  g = g
  me1 = me1
  me2 = me2
  p1 = p1
  e1 = e1
  e2 = e2
  f1 = f1
  r1 = r1
  r2 = r2
  None = None
  Address <- MCAddress
  Mail = {p1, e1, e2, f1}
  To <- MCTo
  From <- MCFrom
  Id <- MCId
  PrefixOf <- MCPrefix
  Req = {r1, r2}
  c1 = c1
  c2 = c2
  Conn = {c1, c2}
  Area = {g}
  Contact = {a}
  Self = {me1, me2}
  Host = {h1}
  NoHost = NoHost
  Missing = Missing
  MaxStores = 2
SYMMETRY MCSymmetry
INVARIANTS TypeOK EchoCounted AnsweredKept
PROPERTIES AreasKept PeersKept ApiIsMailbox
