SPECIFICATION FairSpec
CONSTANTS
  None = None  Empty = Empty
  inst = inst  s1 = s1
  admin = admin  root = root
  apikey = apikey  own = own
  Resources = {inst}
  Self = inst
  Servers = {s1}
  DefaultServer = s1
  Budget <- Limits22111
  Users = {admin, root}
  Passwords = {apikey, own}
  Quantities = {4001, 5000}
  Rates = {0, 5}
  ApplicationSpecs <- AllSpecs
INVARIANTS
  TypeOK
PROPERTIES
  ManualPasswordKept
  Converges
