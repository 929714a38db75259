SPECIFICATION FairSpec
CONSTANTS
  None = None  Empty = Empty  Absent = Absent
  inst = inst  s1 = s1
  u1 = u1  svc = svc  broken = broken
  k1 = k1  k2 = k2  blank = blank
  v1 = v1  latest = latest
  config = config  config_root = config_root  data_root = data_root
  tls_config = tls_config
  Resources = {inst}
  Self = inst
  Servers = {s1}
  DefaultServer = s1
  Budget <- Limits2000
  Urls = {u1, svc, broken}
  BadUrls = {broken}
  ServiceUrl = svc
  Keys = {k1, k2, blank}
  BlankKeys = {blank}
  Images = {v1, latest}
  DefaultImage = latest
  Volumes = {config, config_root, data_root}
  ConfigRoot = config_root  DataRoot = data_root
  TlsVolume = tls_config
  InstanceSpecs <- KeySpecs
  UserSecrets = {}
  Edits = {}
PROPERTIES
  DependentsConnect
