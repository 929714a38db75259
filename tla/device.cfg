SPECIFICATION FairSpec
CONSTANTS
  None = None
  nas = nas  phone = phone  tablet = tablet
  s1 = s1  s2 = s2
  d1 = d1  d2 = d2
  Resources = {nas, phone}
  Servers = {s1}
  DefaultServer = s1
  Budget <- Limits31111
  DeviceIds = {d1, d2}
  WebUiNames = {tablet}
  DeviceSpecs <- AnyIds
INVARIANTS
  TypeOK
  StaleReadCovered
  NoForgottenDevice
  OrphanPending
PROPERTIES
  ManualSettingsKept
  KeepsPromise
  Converges
  CalmDeletion
