----------------------------- MODULE MCOperator -----------------------------
(***************************************************************************)
(* Values for model-checking Operator.                                     *)
(***************************************************************************)
EXTENDS Operator, TLC

CONSTANTS
  pics,       \* the Folder resource
  nas, phone, \* Device resources
  s1,         \* the server
  d1, d2,     \* device ids
  settings, stfolder

Limits31001 ==
  [user |-> 3, edit |-> 0, fault |-> 1, misread |-> 0, crash |-> 1]

FolderCr(ids, names) ==
  [server |-> None, settings |-> settings, marker |-> stfolder, ids |-> ids,
   names |-> names]

\* Shared by the name of one resource, or with a device by id and another by name.
SharedSpecs == {FolderCr({}, {nas}), FolderCr({d1}, {phone})}

DeviceCr(id) == [server |-> None, id |-> id, autoAccept |-> TRUE]

\* The resources may claim the same device, and nas may change its mind.
AnyIds == (nas :> {DeviceCr(d1), DeviceCr(d2)}) @@ (phone :> {DeviceCr(d2)})

=============================================================================
