SPECIFICATION Spec
CONSTANTS
  None = None  Empty = Empty  Absent = Absent
  u1 = u1  broken = broken  svc = svc
  k1 = k1  blank = blank
  Urls = {u1, broken, svc}
  Keys = {k1, blank}
  ServiceUrl = svc
  BadUrls = {broken}
  BlankKeys = {blank}
  SecretNames = {mine, theirs}
  ServiceNames = {svc1, svc2}
  mine = mine  theirs = theirs
  svc1 = svc1  svc2 = svc2
INVARIANTS
  TypeOK
  KeyPrecedence
  LookupIsFirstMatch
