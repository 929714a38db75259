-------------------------- MODULE DeviceController --------------------------
(***************************************************************************)
(* The Device controller (controllers/device_controller.go) and the part   *)
(* of the Syncthing REST API it uses (pkg/syncthing-client/st_api.go).     *)
(*                                                                         *)
(* A device is found by the id in the resource while the resource exists,  *)
(* and by the name of the resource once it is deleted, because nothing but *)
(* the name is left then.  Reconcile fetches the configuration once and    *)
(* sends at most one PUT or DELETE computed from it; every API call is a   *)
(* step of its own.                                                        *)
(***************************************************************************)
EXTENDS Controller

CONSTANTS
  DeviceIds,    \* Syncthing device ids
  WebUiNames,   \* names users give to devices in the WebUI
  DeviceSpecs   \* DeviceSpecs[k]: the specs users write for resource k

Names == Resources \cup WebUiNames

\* DeviceSpec of api/v1/device_types.go, as far as the controller reads it.
DeviceSpec ==
  [server     : Servers \cup {None},
   id         : DeviceIds,
   autoAccept : BOOLEAN]

\* DeviceElement of st_api.go.  "manual" stands for the fields the controller
\* never sets on an existing device: addresses, compression, rates, ...
DeviceElement ==
  [name       : Names,
   autoAccept : BOOLEAN,
   manual     : BOOLEAN]

\* The specs users write for any resource.
Specs == UNION {DeviceSpecs[k] : k \in Resources}

ASSUME NoneIsNoDeviceData ==
  None \notin DeviceIds \cup WebUiNames \cup Specs \cup DeviceElement
ASSUME DeviceSpecsAreSpecs == DeviceSpecs \in [Resources -> SUBSET DeviceSpec]

VARIABLES
  cr,       \* cr[k]: the spec of custom resource k, None if there is none
  devices,  \* devices[s][d]: how server s has device d configured, or None
  pc,       \* where Reconcile is
  spec,     \* deviceCr.Spec, None once the resource was not found
  target,   \* id of the device the pending request is about
  device,   \* the DeviceElement the pending request carries
  undisturbed, \* history: config is what the server has had since it was fetched
  declared     \* history: <<s, d, k>> such that resource k put d on server s

worldVars == <<cr, devices, declared>>
localVars == <<pc, spec, target, device, undisturbed>>
vars == <<controllerVars, worldVars, localVars>>

TypeOK ==
  /\ ControllerTypeOK
  /\ cr \in [Resources -> Specs \cup {None}]
  /\ devices \in [Servers -> [DeviceIds -> DeviceElement \cup {None}]]
  /\ pc \in {"idle", "fetch", "delete", "replace"}
  /\ spec \in Specs \cup {None}
  /\ target \in DeviceIds \cup {None}
  /\ device \in DeviceElement \cup {None}
  /\ undisturbed \in BOOLEAN
  /\ declared \in SUBSET (Servers \X DeviceIds \X Resources)

Init ==
  /\ ControllerInit
  /\ cr = [k \in Resources |-> None]
  /\ devices = [s \in Servers |-> [d \in DeviceIds |-> None]]
  /\ pc = "idle"
  /\ spec = None
  /\ target = None
  /\ device = None
  /\ undisturbed = TRUE
  /\ declared = {}

Existing == {k \in Resources : cr[k] # None}

-----------------------------------------------------------------------------
(* Reconcile.                                                              *)

\* generateStDeviceConfig: the element of a device Syncthing does not have yet.
GeneratedDevice(name) == [name |-> name, autoAccept |-> FALSE, manual |-> FALSE]

\* Wrong: a known device is built anew as well.
ConfiguredFromScratch(element, name, s) ==
  [GeneratedDevice(name) EXCEPT !.autoAccept = s.autoAccept]

\* Wrong: the device is named after its id.
ConfiguredById(element, name, s) ==
  [element EXCEPT !.name = s.id, !.autoAccept = s.autoAccept]

\* The comparison with the spec: what differs is set.
Configured(element, name, s) ==
  [element EXCEPT !.name = name, !.autoAccept = s.autoAccept]

\* Reconcile returns (or dies): its variables go out of scope.
Return ==
  /\ pc' = "idle"
  /\ spec' = None
  /\ target' = None
  /\ device' = None
  /\ undisturbed' = TRUE

\* Reconcile starts and gets the custom resource.
Begin(k) ==
  /\ Take(k)
  /\ pc' = "fetch"
  /\ spec' = cr[k]
  /\ UNCHANGED <<target, device, undisturbed, left, worldVars>>

\* Wrong: "not (yet) available" is logged, and that is all.
UnreachableForgotten ==
  /\ pc = "fetch"
  /\ \/ Endpoint(spec) = None /\ UNCHANGED left
     \/ Spend("fault")
  /\ Forget
  /\ Return
  /\ UNCHANGED worldVars

\* No usable connection, no answer to the ping, or no configuration: every one of
\* these returns asks for another attempt.
Unreachable ==
  /\ pc = "fetch"
  /\ \/ Endpoint(spec) = None /\ UNCHANGED left
     \/ Spend("fault")
  /\ Requeue
  /\ Return
  /\ UNCHANGED worldVars

\* Wrong: every device of an unknown name counts as deleted.
DevicesNamedOrUnknown(s, name) ==
  {d \in DeviceIds : devices[s][d] # None /\ devices[s][d].name \in {name} \cup WebUiNames}

\* The devices of the snapshot ReconcileDeletion takes for the deleted one.
DevicesNamed(s, name) ==
  {d \in DeviceIds : devices[s][d] # None /\ devices[s][d].name = name}

\* The configuration is fetched, the resource was not found: ReconcileDeletion
\* takes the first device of its name; the list is in no particular order.
FetchForDeletion ==
  /\ pc = "fetch"
  /\ spec = None
  /\ Endpoint(spec) # None
  /\ pc' = "delete"
  /\ target' \in DevicesNamed(Endpoint(spec), current)
  /\ undisturbed' = TRUE
  /\ UNCHANGED <<controllerVars, worldVars, spec, device>>

\* ReconcileDeletion finds no such device: it is already gone.
AlreadyGone ==
  /\ pc = "fetch"
  /\ spec = None
  /\ Endpoint(spec) # None
  /\ DevicesNamed(Endpoint(spec), current) = {}
  /\ Forget
  /\ Return
  /\ UNCHANGED <<worldVars, left>>

\* PUT and DELETE /rest/config/devices/<id>, external: a device is replaced as a
\* whole, whatever was there.
PutDevice(s, d, element) == devices' = [devices EXCEPT ![s][d] = element]

RemoveDevice(s, d) == devices' = [devices EXCEPT ![s][d] = None]

\* Wrong: the error of DeleteDevice is ignored, as folder_controller.go does.
DeleteDeviceErrorIgnored ==
  /\ pc = "delete"
  /\ \/ RemoveDevice(Endpoint(spec), target) /\ UNCHANGED left
     \/ /\ Spend("fault")
        /\ UNCHANGED devices \/ RemoveDevice(Endpoint(spec), target)
  /\ Forget
  /\ Return
  /\ UNCHANGED <<cr, declared>>

\* DeleteDevice.  An error is returned, to be retried; "not found" is one too, when
\* somebody else has removed the device since the configuration was fetched.
DeleteDevice ==
  /\ pc = "delete"
  /\ \/ /\ devices[Endpoint(spec)][target] # None
        /\ RemoveDevice(Endpoint(spec), target)
        /\ Forget
        /\ UNCHANGED left
     \/ /\ devices[Endpoint(spec)][target] = None
        /\ Requeue
        /\ UNCHANGED <<devices, left>>
     \/ /\ Spend("fault")
        /\ UNCHANGED devices \/ RemoveDevice(Endpoint(spec), target)
        /\ Requeue
  /\ Return
  /\ UNCHANGED <<cr, declared>>

\* The configuration is fetched: what Reconcile would make of the device.
FoundDevice ==
  LET stored == devices[Endpoint(spec)][spec.id]
  IN  IF stored = None THEN GeneratedDevice(current) ELSE stored

NeedsReplace ==
  \/ devices[Endpoint(spec)][spec.id] = None
  \/ Configured(FoundDevice, current, spec) # FoundDevice

FetchForUpdate ==
  /\ pc = "fetch"
  /\ spec # None
  /\ Endpoint(spec) # None
  /\ NeedsReplace
  /\ pc' = "replace"
  /\ target' = spec.id
  /\ device' = Configured(FoundDevice, current, spec)
  /\ undisturbed' = TRUE
  /\ UNCHANGED <<controllerVars, worldVars, spec>>

\* Wrong: a device that is as it should be is not looked at again.
NotChangedForgotten ==
  /\ pc = "fetch"
  /\ spec # None
  /\ Endpoint(spec) # None
  /\ ~NeedsReplace
  /\ Forget
  /\ Return
  /\ UNCHANGED <<worldVars, left>>

\* The device is as the resource asks: Reconcile looks again in ten minutes.
NotChanged ==
  /\ pc = "fetch"
  /\ spec # None
  /\ Endpoint(spec) # None
  /\ ~NeedsReplace
  /\ Requeue
  /\ Return
  /\ UNCHANGED <<worldVars, left>>

\* GetConfig decodes whatever it is answered and looks at no status: an error
\* document in JSON is an empty configuration, in which every device is new and
\* every deleted one already gone.
FetchMisread ==
  /\ pc = "fetch"
  /\ Endpoint(spec) # None
  /\ Spend("misread")
  /\ \/ /\ spec # None
        /\ pc' = "replace"
        /\ target' = spec.id
        /\ device' = Configured(GeneratedDevice(current), current, spec)
        /\ undisturbed' = FALSE
        /\ UNCHANGED <<up, queue, delayed, current, spec>>
     \/ /\ spec = None
        /\ Forget
        /\ Return
  /\ UNCHANGED worldVars

\* ReplaceDevice: a PUT that succeeds, or fails and has or has not been carried
\* out.  Reconcile comes back in ten seconds either way.
ReplaceDevice ==
  /\ pc = "replace"
  /\ LET put == PutDevice(Endpoint(spec), target, device)
     IN  \/ put /\ UNCHANGED left
         \/ Spend("fault") /\ (UNCHANGED devices \/ put)
  /\ Requeue
  /\ Return
  /\ UNCHANGED <<cr, declared>>

-----------------------------------------------------------------------------
(* The surroundings.                                                       *)

\* A user creates or changes the custom resource k.
Declare(k, new) ==
  /\ new # cr[k]
  /\ Spend("user")
  /\ cr' = [cr EXCEPT ![k] = new]
  /\ declared' = IF Endpoint(new) = None THEN declared
                 ELSE declared \cup {<<Endpoint(new), new.id, k>>}
  /\ Notify(k)
  /\ UNCHANGED <<devices, localVars>>

\* Wrong: the watch filters deletions out.
UndeclareUnwatched(k) ==
  /\ cr[k] # None
  /\ Spend("user")
  /\ cr' = [cr EXCEPT ![k] = None]
  /\ UNCHANGED <<up, queue, delayed, current, devices, declared, localVars>>

\* A user deletes the custom resource k.  There is no finalizer: it is gone at once.
Undeclare(k) ==
  /\ cr[k] # None
  /\ Spend("user")
  /\ cr' = [cr EXCEPT ![k] = None]
  /\ Notify(k)
  /\ UNCHANGED <<devices, declared, localVars>>

\* Somebody edits, adds or removes a device in the WebUI.
WebUiDevice(s, d, new) ==
  /\ new # devices[s][d]
  /\ new # None => new.name \in WebUiNames \cup
       (IF devices[s][d] = None THEN {} ELSE {devices[s][d].name})
  /\ Spend("edit")
  /\ devices' = [devices EXCEPT ![s][d] = new]
  /\ undisturbed' =
       (undisturbed /\ ~(pc \in {"delete", "replace"} /\ Endpoint(spec) = s))
  /\ UNCHANGED <<up, queue, delayed, current, cr, declared, pc, spec, target, device>>

TimerExpires(k) == TimerFires(k) /\ UNCHANGED <<worldVars, localVars>>

PeriodicResync == Resync(Existing) /\ UNCHANGED <<worldVars, localVars>>

ProcessDies == Crash /\ Return /\ UNCHANGED worldVars

ProcessStarts == Restart(Existing) /\ UNCHANGED <<worldVars, localVars>>

-----------------------------------------------------------------------------
Reconcile ==
  \/ \E k \in Resources : Begin(k)
  \/ Unreachable
  \/ FetchForDeletion
  \/ AlreadyGone
  \/ DeleteDevice
  \/ FetchForUpdate
  \/ NotChanged
  \/ FetchMisread
  \/ ReplaceDevice

Environment ==
  \/ \E k \in Resources :
       \/ \E new \in DeviceSpecs[k] : Declare(k, new)
       \/ Undeclare(k)
       \/ TimerExpires(k)
  \/ \E s \in Servers, d \in DeviceIds, new \in DeviceElement \cup {None} :
       WebUiDevice(s, d, new)
  \/ PeriodicResync
  \/ ProcessDies
  \/ ProcessStarts

Next == Reconcile \/ Environment

Spec == Init /\ [][Next]_vars

\* As in FolderController: Syncthing answers, timers expire, a dead process
\* is restarted, and the work queue is first-in first-out.
Fairness ==
  /\ \A k \in Resources : SF_vars(Begin(k)) /\ WF_vars(TimerExpires(k))
  /\ WF_vars(Unreachable)
  /\ WF_vars(FetchForDeletion)
  /\ WF_vars(AlreadyGone)
  /\ WF_vars(DeleteDevice)
  /\ WF_vars(FetchForUpdate)
  /\ WF_vars(NotChanged)
  /\ WF_vars(ReplaceDevice)
  /\ WF_vars(ProcessStarts)

FairSpec == Spec /\ Fairness

-----------------------------------------------------------------------------
(* Safety.                                                                 *)

\* A reconcile that works from an outdated custom resource has a successor: the
\* resource changed after r.Get, and that change has put k back into the queue.
StaleReadCovered ==
  current # None => spec = cr[current] \/ current \in queue

\* While the process runs, every existing resource is being reconciled or will
\* be, on whatever path Reconcile returns.
NoForgottenDevice ==
  up => \A k \in Resources : cr[k] # None => Pending(k)

\* So far nobody has edited anything in Syncthing, the process has not died and
\* every answer has been read for what it was.  Calls may have failed.
Calm == \A kind \in {"edit", "crash", "misread"} : left[kind] = Budget[kind]

\* The resource k has had one id, and is about one server.
KeptId(k) == \A c, e \in declared : c[3] = k /\ e[3] = k => c = e

\* While that is so, a device that still bears the name of a deleted resource is
\* still going to be looked at: ReconcileDeletion gives up only what it has deleted,
\* although it only knows the name, calls fail, other resources may claim the same
\* device, and a reconcile that began before the deletion may put the device back.
OrphanPending ==
  Calm => \A k \in Resources, d \in DeviceIds :
    /\ cr[k] = None
    /\ KeptId(k)
    /\ DefaultServer # None
    /\ devices[DefaultServer][d] # None
    /\ devices[DefaultServer][d].name = k
    => Pending(k)

\* "Configuration setting not supported by the operator? Use the WebUI"
\* (README.md): a PUT keeps the fields the controller does not manage, unless
\* somebody writes between GetConfig and the PUT.
ManualSettingsKept ==
  [][(pc = "replace" /\ Reconcile /\ undisturbed)
       => \A s \in Servers, d \in DeviceIds :
            devices[s][d] # None =>
              /\ devices'[s][d] # None
              /\ devices'[s][d].manual = devices[s][d].manual]_vars

-----------------------------------------------------------------------------
(* Liveness.                                                               *)

\* The device of k on its server is as the resource asks.
Applied(k) ==
  LET stored == devices[Endpoint(cr[k])][cr[k].id]
  IN  stored # None /\ stored = Configured(stored, k, cr[k])

\* The resources that claim device d of server s.
Claimants(s, d) == {k \in Existing : Endpoint(cr[k]) = s /\ cr[k].id = d}

\* Once users, the WebUI and failures come to rest, every device some resource
\* claims is and stays as a resource that claims it asks, though resources that
\* share an id keep renaming it in turn, and though the deletion of one that has
\* given its device up, as in renaming a resource, may take the device with it.
Converges ==
  \A s \in Servers, d \in DeviceIds :
    <>[](Claimants(s, d) # {} => \E k \in Claimants(s, d) : Applied(k))

\* The device goes when all resources that have declared it are deleted.
DeletionOf(s, d) ==
  LET declarers == {k \in Resources : <<s, d, k>> \in declared}
  IN  declarers # {} /\ declarers \cap Existing = {} => devices[s][d] = None

\* As long as nobody edits, nothing dies and every answer is read, a device goes
\* when its resources are deleted, though calls may fail.  (For resources that have
\* kept their id.)
CalmDeletion ==
  \A d \in DeviceIds :
    <>[](Calm /\ (\A k \in Resources : KeptId(k)) /\ DefaultServer # None
           => DeletionOf(DefaultServer, d))

\* A device the operator has put on a server goes when the resources that declared
\* it are deleted: "we need to make sure it is deleted in syncthing as well"
\* (device_controller.go:54).
DeletionReachesSyncthing ==
  \A s \in Servers, d \in DeviceIds : <>[]DeletionOf(s, d)

-----------------------------------------------------------------------------
(* Refinement.                                                             *)

Promise == INSTANCE LevelTriggered WITH
  Names    <- Resources,
  Objects  <- Servers \X DeviceIds,
  wish     <- cr,
  running  <- up,
  attended <- {k \in Resources : Pending(k)},
  claims   <- {<<c[3], <<c[1], c[2]>>>> : c \in declared},
  objects  <- [o \in Servers \X DeviceIds |-> devices[o[1]][o[2]]],
  edits    <- left["edit"]

\* Every call Reconcile makes, and every return, is a step of LevelTriggered or no
\* step at all.  "Device/folder unknown? Leave it alone" (README.md): a deletion that
\* only knows a name still removes nothing but what the resource of that name had
\* claimed.  (No device is given the name of a resource in the WebUI.)
KeepsPromise == Promise!Spec

=============================================================================
