------------------------------ MODULE MCFolder ------------------------------
(***************************************************************************)
(* Values for model-checking FolderController: budgets and specs.          *)
(***************************************************************************)
EXTENDS FolderController, TLC

CONSTANTS
  f1, f2,           \* resources
  s1, s2,           \* servers
  d1, d2,           \* devices
  nas, phone,       \* device names
  old, new,         \* settings
  stfolder, custom  \* markers

Limits(user, edit, fault, misread, crash) ==
  [kind \in Disturbances |->
    CASE kind = "user" -> user
      [] kind = "edit" -> edit
      [] kind = "fault" -> fault
      [] kind = "misread" -> misread
      [] kind = "crash" -> crash]

Limits21111 == Limits(2, 1, 1, 1, 1)
Limits20001 == Limits(2, 0, 0, 0, 1)
Limits21000 == Limits(2, 1, 0, 0, 0)

FolderCr(server, settings, marker, ids, names) ==
  [server |-> server, settings |-> settings, marker |-> marker,
   ids |-> ids, names |-> names]

\* A folder shared by name, and one shared by id and by name that has another
\* marker.
LocalSpecs ==
  {FolderCr(None, old, stfolder, {}, {nas}),
   FolderCr(None, new, custom, {d1}, {nas})}

TwoSpecs ==
  {FolderCr(None, old, stfolder, {}, {}),
   FolderCr(None, new, stfolder, {d1}, {nas})}

\* The same folder on the default server and on a named one.
RemoteSpecs ==
  {FolderCr(None, old, stfolder, {}, {}),
   FolderCr(s2, old, stfolder, {}, {})}

=============================================================================
