------------------------------ MODULE Operator ------------------------------
(***************************************************************************)
(* The operator as main.go puts it together: the Folder controller and the *)
(* Device controller in one process, each with its own queue and worker,   *)
(* on the same Syncthing servers.  They never talk to each other: what the *)
(* Device controller does reaches the Folder controller as the names of    *)
(* devices it reads from the configuration, and as shares that go with a   *)
(* device.                                                                 *)
(*                                                                         *)
(* Both are the modules FolderController and DeviceController, unchanged;  *)
(* the Syncthing configuration, the process and the budget are shared.     *)
(***************************************************************************)
EXTENDS Naturals

CONSTANTS
  None, Servers, DefaultServer, Budget,  \* see Controller
  Folders,                               \* names of the Folder resources
  FolderIds, Settings, Markers, DefaultMarker, FolderSpecs,  \* see FolderController
  Devices,                               \* names of the Device resources
  DeviceIds, WebUiNames, DeviceSpecs     \* see DeviceController

VARIABLES
  up, left,    \* the process, and what is left of Budget
  stFolders,   \* the folders on the servers
  stDevices,   \* the devices on the servers
  fQueue, fDelayed, fCurrent, fCr, fPc, fSpec, folder, shared,  \* FolderController
  fUndisturbed, fDeclared,
  dQueue, dDelayed, dCurrent, dCr, dPc, dSpec, target, device,  \* DeviceController
  dUndisturbed, dDeclared,
  asked        \* history: <<k, d>>, <<k, n>>: folder k was to be shared with id d, name n

folderVars == <<fQueue, fDelayed, fCurrent, fCr, fPc, fSpec, folder, shared, fDeclared>>
deviceVars == <<dQueue, dDelayed, dCurrent, dCr, stDevices, dPc, dSpec, target, device,
                dUndisturbed, dDeclared>>
vars == <<up, left, stFolders, folderVars, fUndisturbed, deviceVars, asked>>

\* What the Folder controller reads of the devices in config.Devices.
DeviceNamesOn ==
  [s \in Servers |-> [d \in DeviceIds |->
    IF stDevices[s][d] = None THEN None ELSE stDevices[s][d].name]]

F == INSTANCE FolderController WITH
  Resources <- Folders, DeviceNames <- Devices \cup WebUiNames,
  queue <- fQueue, delayed <- fDelayed, current <- fCurrent, cr <- fCr,
  folders <- stFolders, devices <- DeviceNamesOn, pc <- fPc, spec <- fSpec,
  undisturbed <- fUndisturbed, declared <- fDeclared

D == INSTANCE DeviceController WITH
  Resources <- Devices,
  queue <- dQueue, delayed <- dDelayed, current <- dCurrent, cr <- dCr,
  devices <- stDevices, pc <- dPc, spec <- dSpec,
  undisturbed <- dUndisturbed, declared <- dDeclared

\* What FolderController and DeviceController assume, of the same constants.
ASSUME NoneIsNoValue == None \notin Folders \cup Devices \cup Servers
ASSUME DefaultServerIsServer == DefaultServer \in Servers \cup {None}
ASSUME BudgetIsBound == Budget \in [F!Disturbances -> Nat]
ASSUME FoldersHaveIds == Folders \subseteq FolderIds
ASSUME NoneIsNoData ==
  None \notin FolderSpecs \cup F!FolderElement \cup DeviceIds \cup WebUiNames
                \cup D!Specs \cup D!DeviceElement
ASSUME FolderSpecsAreSpecs == FolderSpecs \subseteq F!FolderSpec
ASSUME DefaultMarkerIsMarker == DefaultMarker \in Markers
ASSUME DeviceSpecsAreSpecs == DeviceSpecs \in [Devices -> SUBSET D!DeviceSpec]

TypeOK ==
  /\ F!TypeOK
  /\ D!TypeOK
  /\ asked \subseteq Folders \X (DeviceIds \cup Devices \cup WebUiNames)

Init ==
  /\ D!Init
  /\ F!ControllerInit
  /\ fCr = [k \in Folders |-> None]
  /\ stFolders = [s \in Servers |-> [f \in FolderIds |-> None]]
  /\ fPc = "idle"
  /\ fSpec = None
  /\ folder = None
  /\ shared = {}
  /\ fUndisturbed = TRUE
  /\ fDeclared = {}
  /\ asked = {}

-----------------------------------------------------------------------------
\* Something happens on the side of the Folder controller.
FolderSide(step) ==
  /\ UNCHANGED deviceVars
  /\ step

\* Something happens on the side of the Device controller.  With a device go its
\* shares (Syncthing, external), and what the Folder controller has fetched is old.
DeviceSide(step) ==
  /\ step
  /\ stFolders' = [s \in Servers |-> [f \in FolderIds |->
       IF stFolders[s][f] = None THEN None
       ELSE [stFolders[s][f] EXCEPT !.devices = {d \in @ : stDevices'[s][d] # None}]]]
  /\ fUndisturbed' = (fUndisturbed /\ stDevices' = stDevices)
  /\ UNCHANGED <<folderVars, asked>>

FolderReconcile == FolderSide(F!Reconcile) /\ UNCHANGED asked

DeviceReconcile == DeviceSide(D!Reconcile)

\* A user creates, changes or deletes a Folder resource.
DeclareFolder(k, new) ==
  /\ FolderSide(F!Declare(k, new))
  /\ asked' = asked \cup ({k} \X (new.ids \cup new.names))

UndeclareFolder(k) == FolderSide(F!Undeclare(k)) /\ UNCHANGED asked

\* A user creates, changes or deletes a Device resource.
ChangeDevice(k) ==
  \/ \E new \in DeviceSpecs[k] : DeviceSide(D!Declare(k, new))
  \/ DeviceSide(D!Undeclare(k))

FolderTimer(k) == FolderSide(F!TimerExpires(k)) /\ UNCHANGED asked

DeviceTimer(k) == DeviceSide(D!TimerExpires(k))

PeriodicResync ==
  \/ FolderSide(F!PeriodicResync) /\ UNCHANGED asked
  \/ DeviceSide(D!PeriodicResync)

\* The process takes both controllers with it, and starts both.
ProcessDies == D!ProcessDies /\ F!ProcessDies /\ UNCHANGED asked

ProcessStarts == D!ProcessStarts /\ F!ProcessStarts /\ UNCHANGED asked

Next ==
  \/ FolderReconcile
  \/ DeviceReconcile
  \/ \E k \in Folders :
       \/ \E new \in FolderSpecs : DeclareFolder(k, new)
       \/ UndeclareFolder(k)
       \/ FolderTimer(k)
  \/ \E k \in Devices : ChangeDevice(k) \/ DeviceTimer(k)
  \/ PeriodicResync
  \/ ProcessDies
  \/ ProcessStarts

Spec == Init /\ [][Next]_vars

\* As for each controller alone.  The workers are goroutines of one process: neither
\* keeps the other from running.
Fairness ==
  /\ WF_vars(FolderReconcile)
  /\ WF_vars(DeviceReconcile)
  /\ \A k \in Folders :
       SF_vars(FolderSide(F!Begin(k)) /\ UNCHANGED asked) /\ WF_vars(FolderTimer(k))
  /\ \A k \in Devices : SF_vars(DeviceSide(D!Begin(k))) /\ WF_vars(DeviceTimer(k))
  /\ WF_vars(ProcessStarts)

FairSpec == Spec /\ Fairness

-----------------------------------------------------------------------------
(* What the controllers achieve together.                                  *)

\* A folder is shared with a device only if its resource has listed the id of the
\* device, or a name under which a Device resource has declared it: no order in which
\* names are given, taken away and given to other devices while the Folder controller
\* works from an older configuration shares it with somebody else.
SharedAsAsked ==
  \A s \in Servers, k \in Folders :
    stFolders[s][k] # None => \A d \in stFolders[s][k].devices :
      \/ <<k, d>> \in asked
      \/ \E n \in Devices : <<k, n>> \in asked /\ <<s, d, n>> \in dDeclared

\* Folder k is to be shared with the device of resource n on server s.
SharesWith(k, n, s) ==
  /\ fCr[k] # None /\ dCr[n] # None
  /\ n \in fCr[k].names
  /\ F!Endpoint(fCr[k]) = s /\ D!Endpoint(dCr[n]) = s

\* Once users come to rest, a folder is shared with the device that the resource it
\* names declares, whichever of the two came first, whatever call failed and wherever
\* the two controllers were when the process died.  (When no other resource claims
\* the device, and the resource has had no other id.)
SharesFollowNames ==
  \A k \in Folders, n \in Devices, s \in Servers :
    <>[](SharesWith(k, n, s) /\ D!KeptId(n) /\ D!Claimants(s, dCr[n].id) = {n}
           => stFolders[s][k] # None /\ dCr[n].id \in stFolders[s][k].devices)

\* The controllers do not keep each other busy: even if two Device resources go on
\* renaming one device in turn, the Folder controller sends no PUT any more.
FoldersSettle == F!Quiesces

=============================================================================
