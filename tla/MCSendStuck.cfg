SPECIFICATION FairSendSpec
CONSTANTS
  a = a
  b = b
  me = me
  m1 = m1
  m2 = m2
  m3 = m3
  c1 = c1
  c2 = c2
  None = None
  Conn = {c1}
  Address <- MCAddress
  Mail = {m1, m2}
  To <- MCTo
  From <- MCFrom
  Id <- MCId
  PrefixOf <- MCPrefix
  Me = me
  Subject <- MCSubject
  Whitelist = {}
  Enabled = TRUE
  Banned = {}
  MaxQueue = 1
  MaxSends = 2
  Calls <- MCTcp
PROPERTY SendEnds
