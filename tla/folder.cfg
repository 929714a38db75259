SPECIFICATION FairSpec
CONSTANTS
  None = None
  f1 = f1  f2 = f2
  s1 = s1  s2 = s2
  d1 = d1  d2 = d2
  nas = nas  phone = phone
  old = old  new = new
  stfolder = stfolder  custom = custom
  Resources = {f1}
  FolderIds = {f1, f2}
  Servers = {s1}
  DefaultServer = s1
  Budget <- Limits21111
  DeviceIds = {d1, d2}
  DeviceNames = {nas}
  Settings = {old, new}
  Markers = {stfolder, custom}
  DefaultMarker = stfolder
  FolderSpecs <- LocalSpecs
INVARIANTS
  TypeOK
  StaleReadCovered
  NoForgottenFolder
  OrphanPending
PROPERTIES
  UnknownFoldersLeftAlone
  ManualSettingsKept
  KeepsPromise
  Converges
  Quiesces
  CalmDeletion
