SPECIFICATION Spec
CONSTANTS
  a = a
  b = b
  me = me
  m1 = m1
  m2 = m2
  m3 = m3
  c1 = c1
  c2 = c2
  None = None
  Conn = {c1, c2}
  Address <- MCAddress
  Mail = {m1, m2, m3}
  To <- MCTo
  From <- MCFrom
  Id <- MCUnique
  PrefixOf <- MCNoPrefix
  Me = me
  Subject <- MCSubject
  Whitelist = {a}
  Enabled = TRUE
  Banned = {a}
  MaxQueue = 1
  MaxSends = 2
SYMMETRY MCSymmetry
INVARIANTS TypeOK MailConserved OnlyRecipientTakes StoredOncePerSend
PROPERTIES IsMailbox PolicyHolds
