-------------------------- MODULE FolderController --------------------------
(***************************************************************************)
(* The Folder controller (controllers/folder_controller.go) and the part   *)
(* of the Syncthing REST API it uses (pkg/syncthing-client/st_api.go).     *)
(*                                                                         *)
(* Reconcile reads the custom resource, reads the whole Syncthing          *)
(* configuration once, and then sends up to two PUTs computed from that    *)
(* snapshot: the settings first, the shares second.  Every API call is a   *)
(* step of its own, so that users, the WebUI, the device controller, a     *)
(* failing call or the death of the process can come between any two.      *)
(*                                                                         *)
(* Label, path, type, order, the permission and pause flags and the rescan *)
(* interval are compared and set in the same way: together they are one    *)
(* value, "settings".  The marker, which is treated differently, is its    *)
(* own.                                                                    *)
(***************************************************************************)
EXTENDS Controller

CONSTANTS
  FolderIds,      \* Syncthing folder ids: of the resources, and others
  DeviceIds,      \* Syncthing device ids
  DeviceNames,    \* display names of devices
  Settings,       \* values of the settings the custom resource determines
  Markers,        \* names of the marker file
  DefaultMarker,  \* ".stfolder"
  FolderSpecs     \* the specs users write

\* FolderSpec of api/v1/folder_types.go, after fillFolderDefaults.
FolderSpec ==
  [server   : Servers \cup {None},
   settings : Settings,
   marker   : Markers,
   ids      : SUBSET DeviceIds,
   names    : SUBSET DeviceNames]

\* FolderElement of st_api.go: the fields of a folder the operator knows.
\* ignoreDelete stands for those it knows and never sets on an existing folder.
FolderElement ==
  [settings     : Settings,
   marker       : Markers,
   ignoreDelete : BOOLEAN,
   devices      : SUBSET DeviceIds]

ASSUME ResourcesNameFolders == Resources \subseteq FolderIds
ASSUME NoneIsNoData ==
  None \notin FolderSpecs \cup DeviceIds \cup DeviceNames \cup FolderElement
ASSUME FolderSpecsAreSpecs == FolderSpecs \subseteq FolderSpec
ASSUME DefaultMarkerIsMarker == DefaultMarker \in Markers

VARIABLES
  cr,       \* cr[k]: the spec of custom resource k, None if there is none
  folders,  \* folders[s][f]: the folder with id f on server s, or None
  devices,  \* devices[s][d]: the name server s knows device d by, or None
  pc,       \* where Reconcile is
  spec,     \* folderCr.Spec, None once the resource was not found
  folder,   \* the FolderElement Reconcile is working on
  shared,   \* the devices the folder is to be shared with
  undisturbed, \* history: config is what the server has had since it was fetched
  declared     \* history: <<s, f>> such that a resource put f on server s

worldVars == <<cr, folders, devices, declared>>
localVars == <<pc, spec, folder, shared, undisturbed>>
vars == <<controllerVars, worldVars, localVars>>

TypeOK ==
  /\ ControllerTypeOK
  /\ cr \in [Resources -> FolderSpecs \cup {None}]
  /\ folders \in [Servers -> [FolderIds -> FolderElement \cup {None}]]
  /\ devices \in [Servers -> [DeviceIds -> DeviceNames \cup {None}]]
  /\ pc \in {"idle", "fetch", "delete", "settings", "shares"}
  /\ spec \in FolderSpecs \cup {None}
  /\ folder \in FolderElement \cup {None}
  /\ shared \in SUBSET DeviceIds
  /\ undisturbed \in BOOLEAN
  /\ declared \in SUBSET (Servers \X Resources)

Init ==
  /\ ControllerInit
  /\ cr = [k \in Resources |-> None]
  /\ folders = [s \in Servers |-> [f \in FolderIds |-> None]]
  /\ devices \in [Servers -> [DeviceIds -> DeviceNames \cup {None}]]
  /\ pc = "idle"
  /\ spec = None
  /\ folder = None
  /\ shared = {}
  /\ undisturbed = TRUE
  /\ declared = {}

Existing == {k \in Resources : cr[k] # None}

-----------------------------------------------------------------------------
(* The Syncthing server, external.                                         *)

KnownDevices(s) == {d \in DeviceIds : devices[s][d] # None}

\* Wrong: the request goes to the list of folders, and replaces all of them.
PutFolderList(s, f, element) ==
  folders' = [folders EXCEPT ![s] =
    [g \in FolderIds |->
      IF g = f THEN element ELSE None]]

\* PUT /rest/config/folders/<id> replaces the folder; references to devices the
\* server does not know are dropped.  (So are, to their defaults, the settings
\* FolderElement has no field for; they are not modelled.)
PutFolder(s, f, element) ==
  folders' = [folders EXCEPT ![s][f] =
    [element EXCEPT !.devices = @ \cap KnownDevices(s)]]

RemoveFolder(s, f) == folders' = [folders EXCEPT ![s][f] = None]

-----------------------------------------------------------------------------
(* What Reconcile computes.                                                *)

\* AddDeviceById, for several ids: who the folder is shared with afterwards.
AddDevices(element, ids) == element.devices \cup ids

\* generateStFolderConfig: the element of a folder Syncthing does not have yet.
GeneratedFolder(s) ==
  [settings |-> s.settings, marker |-> DefaultMarker, ignoreDelete |-> FALSE,
   devices |-> {}]

\* Wrong: the element is built from the spec alone, whatever Syncthing has.
ConfiguredFromScratch(element, s) ==
  [GeneratedFolder(s) EXCEPT !.marker = s.marker]

\* Wrong: the devices are set to those of the spec with the rest.
ConfiguredUnshared(element, s) ==
  [element EXCEPT !.settings = s.settings,
                  !.marker = IF s.marker # DefaultMarker THEN s.marker ELSE @,
                  !.devices = s.ids]

\* The comparison with the spec: what differs is set, but a marker is only
\* looked at when the spec asks for another one than the default.
Configured(element, s) ==
  [element EXCEPT !.settings = s.settings,
                  !.marker = IF s.marker # DefaultMarker THEN s.marker ELSE @]

\* Wrong: the empty id of a name no device has is added like any other.
ResolvedUnchecked(s, names) ==
  {{IF \E d \in DeviceIds : devices[s][d] = n
      THEN CHOOSE d \in DeviceIds : devices[s][d] = n ELSE None : n \in names}}

\* Wrong: a name no device has is taken for the first device in the list.
ResolvedToFirst(s, names) ==
  {{resolve[n] : n \in names} : resolve \in
     {g \in [names -> KnownDevices(s)] : \A n \in names :
        devices[s][g[n]] = n \/ ~(\E d \in DeviceIds : devices[s][d] = n)}}

\* resolveDeviceNameToId for every name in the spec: the first device of that
\* name in the list, and the list is in no particular order.  Names no device
\* has are skipped.
ResolvedNames(s, names) ==
  LET found == {n \in names : \E d \in DeviceIds : devices[s][d] = n}
  IN  {{resolve[n] : n \in found} : resolve \in
        {g \in [found -> DeviceIds] : \A n \in found : devices[s][g[n]] = n}}

-----------------------------------------------------------------------------
(* Reconcile.                                                              *)

\* Reconcile returns (or dies): its variables go out of scope.
Return ==
  /\ pc' = "idle"
  /\ spec' = None
  /\ folder' = None
  /\ shared' = {}
  /\ undisturbed' = TRUE

\* Reconcile starts and gets the custom resource.
Begin(k) ==
  /\ Take(k)
  /\ pc' = "fetch"
  /\ spec' = cr[k]
  /\ UNCHANGED <<folder, shared, undisturbed, left, worldVars>>

\* Wrong: "not (yet) available" is logged, and that is all.
UnreachableForgotten ==
  /\ pc = "fetch"
  /\ \/ Endpoint(spec) = None /\ UNCHANGED left
     \/ Spend("fault")
  /\ Forget
  /\ Return
  /\ UNCHANGED worldVars

\* No usable connection, no answer to the ping, or no configuration: every one of
\* these returns asks for another attempt.
Unreachable ==
  /\ pc = "fetch"
  /\ \/ Endpoint(spec) = None /\ UNCHANGED left
     \/ Spend("fault")
  /\ Requeue
  /\ Return
  /\ UNCHANGED worldVars

\* Wrong: a resource that is not found needs no reconcile (IgnoreNotFound).
NotFoundIgnored ==
  /\ pc = "fetch"
  /\ spec = None
  /\ Forget
  /\ Return
  /\ UNCHANGED <<worldVars, left>>

\* The configuration is fetched and the resource was not found.
FetchForDeletion ==
  /\ pc = "fetch"
  /\ spec = None
  /\ Endpoint(spec) # None
  /\ pc' = "delete"
  /\ UNCHANGED <<controllerVars, worldVars, spec, folder, shared, undisturbed>>

\* DeleteFolder, whose error is ignored: Reconcile is done either way.
DeleteFolder ==
  /\ pc = "delete"
  /\ \/ RemoveFolder(Endpoint(spec), current) /\ UNCHANGED left
     \/ /\ Spend("fault")
        /\ UNCHANGED folders \/ RemoveFolder(Endpoint(spec), current)
  /\ Forget
  /\ Return
  /\ UNCHANGED <<cr, devices, declared>>

\* The configuration is fetched: Reconcile finds or generates the folder, sets
\* what the spec determines and decides whether that is worth a PUT.
FetchForUpdate ==
  /\ pc = "fetch"
  /\ spec # None
  /\ Endpoint(spec) # None
  /\ LET stored == folders[Endpoint(spec)][current]
         found  == IF stored = None THEN GeneratedFolder(spec) ELSE stored
         wanted == Configured(found, spec)
     IN  /\ folder' = wanted
         /\ \E ids \in ResolvedNames(Endpoint(spec), spec.names) :
              shared' = AddDevices(wanted, spec.ids \cup ids)
         /\ pc' = IF stored = None \/ wanted # found THEN "settings" ELSE "shares"
  /\ undisturbed' = TRUE
  /\ UNCHANGED <<controllerVars, worldVars, spec>>

\* GetConfig decodes whatever it is answered and looks at no status: an error
\* document in JSON is an empty configuration, without folders and devices.
FetchMisread ==
  /\ pc = "fetch"
  /\ spec # None
  /\ Endpoint(spec) # None
  /\ Spend("misread")
  /\ folder' = Configured(GeneratedFolder(spec), spec)
  /\ shared' = AddDevices(GeneratedFolder(spec), spec.ids)
  /\ pc' = "settings"
  /\ undisturbed' = FALSE
  /\ UNCHANGED <<up, queue, delayed, current, worldVars, spec>>

\* The outcome of a PUT of element: it succeeds, or it fails and the server has
\* or has not carried it out.
PutSucceeds(element) ==
  /\ PutFolder(Endpoint(spec), current, element)
  /\ UNCHANGED left

PutFails(element) ==
  /\ Spend("fault")
  /\ UNCHANGED folders \/ PutFolder(Endpoint(spec), current, element)

\* The first ReplaceFolder.  An error ends Reconcile, to be retried.
ReplaceSettings ==
  /\ pc = "settings"
  /\ \/ /\ PutSucceeds(folder)
        /\ pc' = "shares"
        /\ UNCHANGED <<up, queue, delayed, current, spec, folder, shared, undisturbed>>
     \/ /\ PutFails(folder)
        /\ Requeue
        /\ Return
  /\ UNCHANGED <<cr, devices, declared>>

\* The second ReplaceFolder, if a device is missing.  Whatever comes of it,
\* Reconcile returns with a delay until the next look.
ReplaceShares ==
  /\ pc = "shares"
  /\ shared # folder.devices
  /\ LET wanted == [folder EXCEPT !.devices = shared]
     IN  PutSucceeds(wanted) \/ PutFails(wanted)
  /\ Requeue
  /\ Return
  /\ UNCHANGED <<cr, devices, declared>>

\* Wrong: with nothing left to do no further look is scheduled.
SharesUnchangedForgotten ==
  /\ pc = "shares"
  /\ shared = folder.devices
  /\ Forget
  /\ Return
  /\ UNCHANGED <<worldVars, left>>

\* No device is missing: the periodic look is all that is left to schedule.
SharesUnchanged ==
  /\ pc = "shares"
  /\ shared = folder.devices
  /\ Requeue
  /\ Return
  /\ UNCHANGED <<worldVars, left>>

-----------------------------------------------------------------------------
(* The surroundings.                                                       *)

\* A user creates or changes the custom resource k.
Declare(k, new) ==
  /\ new # cr[k]
  /\ Spend("user")
  /\ cr' = [cr EXCEPT ![k] = new]
  /\ declared' = IF Endpoint(new) = None THEN declared
                 ELSE declared \cup {<<Endpoint(new), k>>}
  /\ Notify(k)
  /\ UNCHANGED <<folders, devices, localVars>>

\* Wrong: the watch filters deletions out.
UndeclareUnwatched(k) ==
  /\ cr[k] # None
  /\ Spend("user")
  /\ cr' = [cr EXCEPT ![k] = None]
  /\ UNCHANGED <<up, queue, delayed, current, folders, devices, declared, localVars>>

\* A user deletes the custom resource k.  There is no finalizer: it is gone at once.
Undeclare(k) ==
  /\ cr[k] # None
  /\ Spend("user")
  /\ cr' = [cr EXCEPT ![k] = None]
  /\ Notify(k)
  /\ UNCHANGED <<folders, devices, declared, localVars>>

Disturb(s) ==
  /\ undisturbed' =
       (undisturbed /\ ~(pc \in {"settings", "shares"} /\ Endpoint(spec) = s))
  /\ UNCHANGED <<pc, spec, folder, shared>>

\* Somebody edits, adds or removes a folder in the WebUI.
WebUiFolder(s, f, new) ==
  /\ new # folders[s][f]
  /\ new # None => new.devices \subseteq KnownDevices(s)
  /\ Spend("edit")
  /\ folders' = [folders EXCEPT ![s][f] = new]
  /\ Disturb(s)
  /\ UNCHANGED <<up, queue, delayed, current, cr, devices, declared>>

\* Somebody - in the WebUI, or the device controller - names, adds or removes a
\* device.  With a device go its shares.
EditDevice(s, d, name) ==
  /\ name # devices[s][d]
  /\ Spend("edit")
  /\ devices' = [devices EXCEPT ![s][d] = name]
  /\ folders' =
       IF name # None THEN folders
       ELSE [folders EXCEPT ![s] =
              [f \in FolderIds |->
                IF folders[s][f] = None THEN None
                ELSE [folders[s][f] EXCEPT !.devices = @ \ {d}]]]
  /\ Disturb(s)
  /\ UNCHANGED <<up, queue, delayed, current, cr, declared>>

TimerExpires(k) == TimerFires(k) /\ UNCHANGED <<worldVars, localVars>>

PeriodicResync == Resync(Existing) /\ UNCHANGED <<worldVars, localVars>>

ProcessDies == Crash /\ Return /\ UNCHANGED worldVars

ProcessStarts == Restart(Existing) /\ UNCHANGED <<worldVars, localVars>>

-----------------------------------------------------------------------------
Reconcile ==
  \/ \E k \in Resources : Begin(k)
  \/ Unreachable
  \/ FetchForDeletion
  \/ DeleteFolder
  \/ FetchForUpdate
  \/ FetchMisread
  \/ ReplaceSettings
  \/ ReplaceShares
  \/ SharesUnchanged

Environment ==
  \/ \E k \in Resources :
       \/ \E new \in FolderSpecs : Declare(k, new)
       \/ Undeclare(k)
       \/ TimerExpires(k)
  \/ \E s \in Servers :
       \/ \E f \in FolderIds, new \in FolderElement \cup {None} :
            WebUiFolder(s, f, new)
       \/ \E d \in DeviceIds, name \in DeviceNames \cup {None} :
            EditDevice(s, d, name)
  \/ PeriodicResync
  \/ ProcessDies
  \/ ProcessStarts

Next == Reconcile \/ Environment

Spec == Init /\ [][Next]_vars

\* Syncthing answers or refuses every request (the client sets no timeout of its own,
\* client.go:119), so Reconcile does not block; timers expire, and the Deployment of the
\* operator restarts a dead process.  The work queue is first-in first-out, so a name that
\* waits is taken even if others keep coming back: strong fairness for Begin(k).
Fairness ==
  /\ \A k \in Resources : SF_vars(Begin(k)) /\ WF_vars(TimerExpires(k))
  /\ WF_vars(Unreachable)
  /\ WF_vars(FetchForDeletion)
  /\ WF_vars(DeleteFolder)
  /\ WF_vars(FetchForUpdate)
  /\ WF_vars(ReplaceSettings)
  /\ WF_vars(ReplaceShares)
  /\ WF_vars(SharesUnchanged)
  /\ WF_vars(ProcessStarts)

FairSpec == Spec /\ Fairness

-----------------------------------------------------------------------------
(* Safety.                                                                 *)

\* A reconcile that works from an outdated custom resource has a successor: the
\* resource changed after r.Get, and that change has put k back into the queue.
StaleReadCovered ==
  current # None => spec = cr[current] \/ current \in queue

\* While the process runs, every existing resource is being reconciled or will
\* be: no return path of Reconcile leaves an existing folder unattended, because
\* nothing else would notice a later change in Syncthing.
NoForgottenFolder ==
  up => \A k \in Resources : cr[k] # None => Pending(k)

\* So far no call has failed, the process has not died and nobody has edited
\* anything in Syncthing.
Calm == \A kind \in {"fault", "crash", "edit"} : left[kind] = Budget[kind]

\* While that is so, a folder whose resource is deleted and that is still on the
\* server is still going to be looked at, even if a reconcile that began before
\* the deletion has just put it there.
OrphanPending ==
  Calm => \A k \in Resources :
    /\ cr[k] = None
    /\ <<DefaultServer, k>> \in declared
    /\ folders[DefaultServer][k] # None
    => Pending(k)

\* "Device/folder unknown? Leave it alone" (README.md): Reconcile touches folder f
\* on server s only if a resource has declared f there.
UnknownFoldersLeftAlone ==
  [][Reconcile => \A s \in Servers, f \in FolderIds :
       folders'[s][f] # folders[s][f] => <<s, f>> \in declared]_vars

\* "Configuration setting not supported by the operator? Use the WebUI"
\* (README.md), for what FolderElement has fields for: unless somebody writes
\* between GetConfig and the PUT, a PUT keeps the settings the resource cannot
\* express, and shares are only added, though both PUTs send whole folders from
\* one snapshot.
ManualSettingsKept ==
  [][(pc \in {"settings", "shares"} /\ Reconcile /\ undisturbed)
       => \A s \in Servers, f \in FolderIds :
            (folders[s][f] # None /\ folders'[s][f] # folders[s][f]) =>
              /\ folders'[s][f] # None
              /\ folders'[s][f].ignoreDelete = folders[s][f].ignoreDelete
              /\ folders[s][f].devices \subseteq folders'[s][f].devices]_vars

-----------------------------------------------------------------------------
(* Liveness.                                                               *)

\* The folder of k on its server is as the resource asks, as far as the server
\* knows the devices in question.
Applied(k) ==
  LET s == Endpoint(cr[k])
      stored == folders[s][k]
  IN  /\ stored # None
      /\ stored = Configured(stored, cr[k])
      /\ cr[k].ids \cap KnownDevices(s) \subseteq stored.devices
      /\ \A n \in cr[k].names :
           (\E d \in DeviceIds : devices[s][d] = n) =>
             \E d \in stored.devices : devices[s][d] = n

\* Once users, the WebUI and failures come to rest, every folder resource is and
\* stays applied: also after failed calls, half-finished updates, restarts and
\* devices that appear under their name only later.
Converges ==
  \A k \in Resources :
    <>[](cr[k] # None /\ Endpoint(cr[k]) # None => Applied(k))

\* After that, a folder that is as the resource asks gets no PUT any more, which
\* would reset what FolderElement has no field for (st_api.go:37) every few minutes:
\* what Reconcile computes is what it finds.  (Unless the resource lists a device id
\* Syncthing does not know and drops from every PUT.)
Quiesces ==
  <>[](pc = "settings" \/ (pc = "shares" /\ shared # folder.devices) =>
         ~(spec.ids \subseteq KnownDevices(Endpoint(spec))))

\* As long as nothing fails, dies or is edited, a folder goes when its resource is
\* deleted.
CalmDeletion ==
  \A k \in Resources :
    <>[](Calm /\ <<DefaultServer, k>> \in declared /\ cr[k] = None
           => folders[DefaultServer][k] = None)

\* A folder the operator has put on a server goes when its resource is deleted:
\* "we need to make sure it is deleted in syncthing as well"
\* (folder_controller.go:54).
DeletionReachesSyncthing ==
  \A s \in Servers, k \in Resources :
    <>[](<<s, k>> \in declared /\ cr[k] = None => folders[s][k] = None)

-----------------------------------------------------------------------------
(* Refinement.                                                             *)

Promise == INSTANCE LevelTriggered WITH
  Names    <- Resources,
  Objects  <- Servers \X FolderIds,
  wish     <- cr,
  running  <- up,
  attended <- {k \in Resources : Pending(k)},
  claims   <- {<<c[2], c>> : c \in declared},
  objects  <- [o \in Servers \X FolderIds |-> folders[o[1]][o[2]]],
  edits    <- left["edit"]

\* Every call Reconcile makes, and every return, is a step of LevelTriggered or no
\* step at all: no path of the code does more than look after a folder that was
\* claimed, or gives up one that is wanted.  (If all resources are about one server.)
KeepsPromise == Promise!Spec

=============================================================================
