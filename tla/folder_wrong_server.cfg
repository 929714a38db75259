SPECIFICATION Spec
CONSTANTS
  None = None
  f1 = f1  f2 = f2
  s1 = s1  s2 = s2
  d1 = d1  d2 = d2
  nas = nas  phone = phone
  old = old  new = new
  stfolder = stfolder  custom = custom
  Resources = {f1}
  FolderIds = {f1, f2}
  Servers = {s1, s2}
  DefaultServer = s1
  Budget <- Limits21000
  DeviceIds = {d1}
  DeviceNames = {nas}
  Settings = {old, new}
  Markers = {stfolder, custom}
  DefaultMarker = stfolder
  FolderSpecs <- RemoteSpecs
PROPERTIES
  UnknownFoldersLeftAlone
