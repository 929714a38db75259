SPECIFICATION FairSpec
CONSTANTS
  None = None
  pics = pics  nas = nas  phone = phone
  s1 = s1  d1 = d1  d2 = d2
  settings = settings  stfolder = stfolder
  Servers = {s1}
  DefaultServer = s1
  Budget <- Limits31001
  Folders = {pics}
  FolderIds = {pics}
  Settings = {settings}
  Markers = {stfolder}
  DefaultMarker = stfolder
  FolderSpecs <- SharedSpecs
  Devices = {nas, phone}
  DeviceIds = {d1, d2}
  WebUiNames = {}
  DeviceSpecs <- AnyIds
INVARIANTS
  TypeOK
  SharedAsAsked
PROPERTIES
  SharesFollowNames
  FoldersSettle
