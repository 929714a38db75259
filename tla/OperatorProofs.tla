--------------------------- MODULE OperatorProofs ---------------------------
(***************************************************************************)
(* Proofs about Operator, for any resources, servers, devices and specs    *)
(* and any budget of disturbances: with both controllers at work on the    *)
(* same servers, the types are kept and no folder is shared with a device  *)
(* that its resource has not asked for.                                    *)
(*                                                                         *)
(* The steps of each controller are those of its module, but the theorems  *)
(* of an instance cannot be cited: what is needed of DeviceController and  *)
(* FolderController is shown again here, of the instances D and F, whose   *)
(* variables the other controller shares.                                  *)
(***************************************************************************)
EXTENDS Operator, TLAPS

-----------------------------------------------------------------------------
(* The Device controller: types, and who bears which name.                 *)

\* The specs of a resource are specs.
LEMMA DeviceSpecsTyped ==
  /\ D!Specs \subseteq D!DeviceSpec
  /\ \A k \in Devices : DeviceSpecs[k] \subseteq D!Specs
BY DeviceSpecsAreSpecs DEF D!Specs

\* A spec or the namespace names a server, or there is none.
LEMMA DeviceEndpoint ==
  \A s \in D!Specs \cup {None} : D!Endpoint(s) # None => D!Endpoint(s) \in Servers
BY DeviceSpecsTyped, DefaultServerIsServer DEF D!Endpoint, D!DeviceSpec

\* A device that is generated for a resource is a device.
LEMMA GeneratedDeviceType ==
  \A k \in Devices : D!GeneratedDevice(k) \in D!DeviceElement
BY DEF D!GeneratedDevice, D!DeviceElement, D!Names

\* Setting what a spec determines makes a device of a device, with the name of the
\* resource.
LEMMA DeviceConfigured ==
  \A element \in D!DeviceElement, k \in Devices, s \in D!Specs :
    /\ D!Configured(element, k, s) \in D!DeviceElement
    /\ D!Configured(element, k, s).name = k
BY DeviceSpecsTyped DEF D!Configured, D!DeviceElement, D!DeviceSpec, D!Names

\* Replacing or removing a device keeps the devices devices.
LEMMA PutDeviceType ==
  ASSUME stDevices \in [Servers -> [DeviceIds -> D!DeviceElement \cup {None}]],
         NEW s \in Servers, NEW d \in DeviceIds,
         NEW element \in D!DeviceElement \cup {None},
         \/ stDevices' = [stDevices EXCEPT ![s][d] = element]
         \/ UNCHANGED stDevices
  PROVE  stDevices' \in [Servers -> [DeviceIds -> D!DeviceElement \cup {None}]]
OBVIOUS

\* A disturbance leaves a budget of a natural number each.
LEMMA SpendType ==
  ASSUME left \in [D!Disturbances -> Nat], NEW kind \in D!Disturbances, D!Spend(kind)
  PROVE  left' \in [D!Disturbances -> Nat]
BY DEF D!Spend

\* What the place Reconcile has reached says about its variables.
DeviceConsistent ==
  /\ dCurrent = None <=> dPc = "idle"
  /\ dPc = "delete" =>
       dSpec = None /\ D!Endpoint(dSpec) \in Servers /\ target \in DeviceIds
  /\ dPc = "replace" =>
       /\ dSpec \in D!Specs /\ D!Endpoint(dSpec) \in Servers
       /\ target \in DeviceIds /\ device \in D!DeviceElement

DeviceTypes == D!TypeOK /\ DeviceConsistent

\* Reconcile keeps the types, from whatever place it has reached.
LEMMA DeviceReconcileTypes == DeviceTypes /\ D!Reconcile => DeviceTypes'
<1> SUFFICES ASSUME DeviceTypes, D!Reconcile PROVE DeviceTypes'
  OBVIOUS
<1> USE DEF DeviceTypes, D!TypeOK, D!ControllerTypeOK, DeviceConsistent, D!worldVars,
            D!localVars, D!controllerVars
<1>1. CASE \E k \in Devices : D!Begin(k)
  BY <1>1, NoneIsNoValue DEF D!Begin, D!Take
<1>2. CASE D!Unreachable
  <2>1. left' \in [D!Disturbances -> Nat]
    BY <1>2, SpendType DEF D!Unreachable, D!Disturbances
  <2> QED
    BY <1>2, <2>1 DEF D!Unreachable, D!Requeue, D!Return
<1>3. CASE D!FetchForDeletion
  <2>1. target' \in DeviceIds
    BY <1>3 DEF D!FetchForDeletion, D!DevicesNamed
  <2>2. D!Endpoint(dSpec) \in Servers
    BY <1>3, DeviceEndpoint DEF D!FetchForDeletion
  <2>3. /\ dPc' = "delete" /\ dUndisturbed' = TRUE
        /\ UNCHANGED <<D!controllerVars, D!worldVars, dSpec, device>>
    BY <1>3 DEF D!FetchForDeletion
  <2>4. D!Endpoint(dSpec)' = D!Endpoint(dSpec)
    BY <2>3 DEF D!Endpoint
  <2>5. dCurrent # None /\ dSpec = None
    BY <1>3 DEF D!FetchForDeletion
  <2> QED
    BY <2>1, <2>2, <2>3, <2>4, <2>5
<1>4. CASE D!AlreadyGone
  BY <1>4 DEF D!AlreadyGone, D!Forget, D!Return
<1>5. CASE D!DeleteDevice
  <2>1. left' \in [D!Disturbances -> Nat]
    BY <1>5, SpendType DEF D!DeleteDevice, D!Disturbances
  <2>2. stDevices' \in [Servers -> [DeviceIds -> D!DeviceElement \cup {None}]]
    BY <1>5, PutDeviceType DEF D!DeleteDevice, D!RemoveDevice
  <2> QED
    BY <1>5, <2>1, <2>2 DEF D!DeleteDevice, D!Forget, D!Requeue, D!Return
<1>6. CASE D!FetchForUpdate
  <2>1. dSpec \in D!Specs /\ D!Endpoint(dSpec) \in Servers /\ dCurrent \in Devices
    BY <1>6, DeviceEndpoint DEF D!FetchForUpdate
  <2>2. dSpec.id \in DeviceIds
    BY <2>1, DeviceSpecsTyped DEF D!DeviceSpec
  <2>3. D!FoundDevice \in D!DeviceElement
    BY <2>1, <2>2, GeneratedDeviceType DEF D!FoundDevice
  <2>4. device' \in D!DeviceElement
    BY <1>6, <2>1, <2>3, DeviceConfigured DEF D!FetchForUpdate
  <2>5. /\ dPc' = "replace" /\ target' = dSpec.id /\ dUndisturbed' = TRUE
        /\ UNCHANGED <<D!controllerVars, D!worldVars, dSpec>>
    BY <1>6 DEF D!FetchForUpdate
  <2>6. D!Endpoint(dSpec)' = D!Endpoint(dSpec)
    BY <2>5 DEF D!Endpoint
  <2> QED
    BY <2>1, <2>2, <2>4, <2>5, <2>6, NoneIsNoValue
<1>7. CASE D!NotChanged
  BY <1>7 DEF D!NotChanged, D!Requeue, D!Return
<1>8. CASE D!FetchMisread
  <2>1. left' \in [D!Disturbances -> Nat]
    BY <1>8, SpendType DEF D!FetchMisread, D!Disturbances
  <2>2. CASE dSpec # None
    <3>1. dSpec \in D!Specs /\ D!Endpoint(dSpec) \in Servers /\ dCurrent \in Devices
      BY <1>8, <2>2, DeviceEndpoint DEF D!FetchMisread
    <3>2. dSpec.id \in DeviceIds
      BY <3>1, DeviceSpecsTyped DEF D!DeviceSpec
    <3>3. device' \in D!DeviceElement
      BY <1>8, <2>2, <3>1, GeneratedDeviceType, DeviceConfigured DEF D!FetchMisread
    <3>4. /\ dPc' = "replace" /\ target' = dSpec.id /\ dUndisturbed' = FALSE
          /\ UNCHANGED <<up, dQueue, dDelayed, dCurrent, D!worldVars, dSpec>>
      BY <1>8, <2>2 DEF D!FetchMisread
    <3>5. D!Endpoint(dSpec)' = D!Endpoint(dSpec)
      BY <3>4 DEF D!Endpoint
    <3> QED
      BY <2>1, <3>1, <3>2, <3>3, <3>4, <3>5, NoneIsNoValue
  <2>3. CASE dSpec = None
    BY <1>8, <2>1, <2>3 DEF D!FetchMisread, D!Forget, D!Return
  <2> QED
    BY <2>2, <2>3
<1>9. CASE D!ReplaceDevice
  <2>1. left' \in [D!Disturbances -> Nat]
    BY <1>9, SpendType DEF D!ReplaceDevice, D!Disturbances
  <2>2. stDevices' \in [Servers -> [DeviceIds -> D!DeviceElement \cup {None}]]
    BY <1>9, PutDeviceType DEF D!ReplaceDevice, D!PutDevice
  <2> QED
    BY <1>9, <2>1, <2>2 DEF D!ReplaceDevice, D!Requeue, D!Return
<1> QED
  BY <1>1, <1>2, <1>3, <1>4, <1>5, <1>6, <1>7, <1>8, <1>9 DEF D!Reconcile

\* So do its surroundings.
DeviceWorld ==
  \/ \E k \in Devices :
       \/ \E new \in DeviceSpecs[k] : D!Declare(k, new)
       \/ D!Undeclare(k)
       \/ D!TimerExpires(k)
  \/ D!PeriodicResync
  \/ D!ProcessDies
  \/ D!ProcessStarts

LEMMA DeviceWorldTypes == DeviceTypes /\ DeviceWorld => DeviceTypes'
<1> SUFFICES ASSUME DeviceTypes, DeviceWorld PROVE DeviceTypes'
  OBVIOUS
<1> USE DEF DeviceTypes, D!TypeOK, D!ControllerTypeOK, DeviceConsistent, D!worldVars,
            D!localVars, D!controllerVars
<1>1. ASSUME NEW k \in Devices, NEW new \in DeviceSpecs[k], D!Declare(k, new)
      PROVE  DeviceTypes'
  <2>1. left' \in [D!Disturbances -> Nat]
    BY <1>1, SpendType DEF D!Declare, D!Disturbances
  <2>2. new \in D!Specs /\ new.id \in DeviceIds
    BY DeviceSpecsTyped DEF D!DeviceSpec
  <2>3. dDeclared' \in SUBSET (Servers \X DeviceIds \X Devices)
    BY <1>1, <2>2, DeviceEndpoint DEF D!Declare
  <2>4. dCr' \in [Devices -> D!Specs \cup {None}]
    BY <1>1, <2>2 DEF D!Declare
  <2> QED
    BY <1>1, <2>1, <2>3, <2>4 DEF D!Declare, D!Notify, D!Endpoint
<1>2. ASSUME NEW k \in Devices, D!Undeclare(k)
      PROVE  DeviceTypes'
  <2>1. left' \in [D!Disturbances -> Nat]
    BY <1>2, SpendType DEF D!Undeclare, D!Disturbances
  <2> QED
    BY <1>2, <2>1 DEF D!Undeclare, D!Notify, D!Endpoint
<1>3. ASSUME NEW k \in Devices, D!TimerExpires(k)
      PROVE  DeviceTypes'
  BY <1>3 DEF D!TimerExpires, D!TimerFires, D!Endpoint
<1>4. CASE D!PeriodicResync
  BY <1>4 DEF D!PeriodicResync, D!Resync, D!Existing, D!Endpoint
<1>5. CASE D!ProcessDies
  <2>1. left' \in [D!Disturbances -> Nat]
    BY <1>5, SpendType DEF D!ProcessDies, D!Crash, D!Disturbances
  <2> QED
    BY <1>5, <2>1 DEF D!ProcessDies, D!Crash, D!Die, D!Return
<1>6. CASE D!ProcessStarts
  BY <1>6 DEF D!ProcessStarts, D!Restart, D!Existing, D!Endpoint
<1> QED
  BY <1>1, <1>2, <1>3, <1>4, <1>5, <1>6 DEF DeviceWorld

\* Every device bears the name of a resource that has declared it: nobody uses the
\* WebUI here, and Reconcile names a device after the resource it has read.
DevicesDeclared ==
  \A s \in Servers, d \in DeviceIds :
    stDevices[s][d] # None => <<s, d, stDevices[s][d].name>> \in dDeclared

SpecsDeclared ==
  \A k \in Devices :
    dCr[k] # None /\ D!Endpoint(dCr[k]) # None
      => <<D!Endpoint(dCr[k]), dCr[k].id, k>> \in dDeclared

\* What Reconcile has read, and what it is about to send.
DeviceInHandDeclared ==
  /\ dSpec # None /\ D!Endpoint(dSpec) # None
       => <<D!Endpoint(dSpec), dSpec.id, dCurrent>> \in dDeclared
  /\ dPc = "replace" =>
       /\ <<D!Endpoint(dSpec), target, dCurrent>> \in dDeclared
       /\ device.name = dCurrent

Declared == DevicesDeclared /\ SpecsDeclared /\ DeviceInHandDeclared

LEMMA DeviceReconcileDeclared ==
  ASSUME DeviceTypes, Declared, D!Reconcile
  PROVE  Declared' /\ dDeclared' = dDeclared
<1> USE DEF D!worldVars, D!controllerVars
<1>1. UNCHANGED <<dCr, dDeclared>>
  BY DEF D!Reconcile, D!Begin, D!Unreachable, D!FetchForDeletion, D!AlreadyGone,
     D!DeleteDevice, D!FetchForUpdate, D!NotChanged, D!FetchMisread, D!ReplaceDevice
<1>2. SpecsDeclared'
  BY <1>1 DEF SpecsDeclared, Declared, D!Endpoint
<1>3. DevicesDeclared'
  <2>1. CASE UNCHANGED stDevices
    BY <1>1, <2>1 DEF DevicesDeclared, Declared
  <2>2. CASE D!DeleteDevice
    <3>1. D!Endpoint(dSpec) \in Servers /\ target \in DeviceIds
      BY <2>2 DEF D!DeleteDevice, DeviceTypes, DeviceConsistent
    <3>2. UNCHANGED stDevices \/ D!RemoveDevice(D!Endpoint(dSpec), target)
      BY <2>2 DEF D!DeleteDevice
    <3> QED
      BY <1>1, <3>1, <3>2
      DEF D!RemoveDevice, DevicesDeclared, Declared, DeviceTypes, D!TypeOK
  <2>3. CASE D!ReplaceDevice
    <3>1. /\ <<D!Endpoint(dSpec), target, dCurrent>> \in dDeclared
          /\ device.name = dCurrent
          /\ D!Endpoint(dSpec) \in Servers /\ target \in DeviceIds
      BY <2>3
      DEF D!ReplaceDevice, Declared, DeviceInHandDeclared, DeviceTypes, DeviceConsistent
    <3>2. UNCHANGED stDevices \/ D!PutDevice(D!Endpoint(dSpec), target, device)
      BY <2>3 DEF D!ReplaceDevice
    <3> QED
      BY <1>1, <3>1, <3>2
      DEF D!PutDevice, DevicesDeclared, Declared, DeviceTypes, D!TypeOK
  <2> QED
    BY <2>1, <2>2, <2>3
    DEF D!Reconcile, D!Begin, D!Unreachable, D!FetchForDeletion, D!AlreadyGone,
        D!FetchForUpdate, D!NotChanged, D!FetchMisread
<1>4. DeviceInHandDeclared'
  <2>1. ASSUME NEW k \in Devices, D!Begin(k)
        PROVE  DeviceInHandDeclared'
    BY <2>1 DEF D!Begin, D!Take, DeviceInHandDeclared, Declared, SpecsDeclared, D!Endpoint
  <2>2. CASE D!Return
    BY <2>2 DEF D!Return, DeviceInHandDeclared
  <2>3. CASE D!FetchForDeletion
    BY <2>3 DEF D!FetchForDeletion, DeviceInHandDeclared, Declared, D!Endpoint
  <2>4. CASE (D!FetchForUpdate \/ D!FetchMisread) /\ ~D!Return
    <3>1. /\ UNCHANGED <<dSpec, dCurrent>>
          /\ target' = dSpec.id
          /\ device' \in {D!Configured(D!FoundDevice, dCurrent, dSpec),
                          D!Configured(D!GeneratedDevice(dCurrent), dCurrent, dSpec)}
          /\ dSpec # None /\ D!Endpoint(dSpec) # None
      BY <2>4 DEF D!FetchForUpdate, D!FetchMisread
    <3>2. dSpec \in D!Specs /\ D!Endpoint(dSpec) \in Servers /\ dCurrent \in Devices
      BY <2>4, <3>1, DeviceEndpoint
      DEF D!FetchForUpdate, D!FetchMisread, DeviceTypes, D!TypeOK, D!ControllerTypeOK,
          DeviceConsistent
    <3>3. /\ D!FoundDevice \in D!DeviceElement
          /\ D!GeneratedDevice(dCurrent) \in D!DeviceElement
      <4>1. dSpec.id \in DeviceIds
        BY <3>2, DeviceSpecsTyped DEF D!DeviceSpec
      <4> QED
        BY <3>2, <4>1, GeneratedDeviceType DEF D!FoundDevice, DeviceTypes, D!TypeOK
    <3>4. device'.name = dCurrent
      BY <3>1, <3>2, <3>3, DeviceConfigured
    <3> QED
      BY <1>1, <3>1, <3>4 DEF DeviceInHandDeclared, Declared, D!Endpoint
  <2> QED
    BY <2>1, <2>2, <2>3, <2>4
    DEF D!Reconcile, D!Unreachable, D!AlreadyGone, D!DeleteDevice, D!NotChanged,
        D!ReplaceDevice
<1> QED
  BY <1>1, <1>2, <1>3, <1>4 DEF Declared

LEMMA DeviceWorldDeclared ==
  ASSUME DeviceTypes, Declared, DeviceWorld
  PROVE  Declared' /\ dDeclared \subseteq dDeclared' /\ UNCHANGED stDevices
<1> USE DEF D!worldVars, D!localVars, D!controllerVars, Declared
<1>1. ASSUME NEW k \in Devices, NEW new \in DeviceSpecs[k], D!Declare(k, new)
      PROVE  Declared' /\ dDeclared \subseteq dDeclared' /\ UNCHANGED stDevices
  <2>1. /\ dDeclared \subseteq dDeclared'
        /\ D!Endpoint(new) # None => <<D!Endpoint(new), new.id, k>> \in dDeclared'
        /\ dCr' = [dCr EXCEPT ![k] = new]
        /\ UNCHANGED <<stDevices, D!localVars, dCurrent>>
    BY <1>1 DEF D!Declare, D!Notify
  <2>2. SpecsDeclared'
    BY <2>1 DEF SpecsDeclared, D!Endpoint, DeviceTypes, D!TypeOK
  <2>3. DevicesDeclared'
    BY <2>1 DEF DevicesDeclared
  <2>4. DeviceInHandDeclared'
    BY <2>1 DEF DeviceInHandDeclared, D!Endpoint
  <2> QED
    BY <2>1, <2>2, <2>3, <2>4
<1>2. ASSUME NEW k \in Devices, D!Undeclare(k)
      PROVE  Declared' /\ UNCHANGED <<dDeclared, stDevices>>
  <2>1. SpecsDeclared'
    BY <1>2 DEF D!Undeclare, SpecsDeclared, D!Endpoint, DeviceTypes, D!TypeOK
  <2> QED
    BY <1>2, <2>1
    DEF D!Undeclare, D!Notify, DevicesDeclared, DeviceInHandDeclared, D!Endpoint
<1>3. CASE D!ProcessDies
  BY <1>3 DEF D!ProcessDies, D!Return, SpecsDeclared, DevicesDeclared,
     DeviceInHandDeclared, D!Endpoint
<1>4. CASE UNCHANGED <<D!worldVars, D!localVars, dCurrent>>
  BY <1>4 DEF SpecsDeclared, DevicesDeclared, DeviceInHandDeclared, D!Endpoint
<1>5. ASSUME \/ \E k \in Devices : D!TimerExpires(k)
             \/ D!PeriodicResync \/ D!ProcessStarts
      PROVE  UNCHANGED <<D!worldVars, D!localVars, dCurrent>>
  BY <1>5 DEF D!TimerExpires, D!TimerFires, D!PeriodicResync, D!Resync,
     D!ProcessStarts, D!Restart
<1> QED
  BY <1>1, <1>2, <1>3, <1>4, <1>5 DEF DeviceWorld

-----------------------------------------------------------------------------
(* The Folder controller: types.                                           *)

\* A folder generated from a spec has the fields of FolderElement.
LEMMA GeneratedFolderType ==
  \A s \in FolderSpecs : F!GeneratedFolder(s) \in F!FolderElement
BY FolderSpecsAreSpecs, DefaultMarkerIsMarker
   DEF F!GeneratedFolder, F!FolderElement, F!FolderSpec

\* Setting what a spec determines makes a folder of a folder, and does not touch its
\* shares.
LEMMA FolderConfigured ==
  \A element \in F!FolderElement, s \in FolderSpecs :
    /\ F!Configured(element, s) \in F!FolderElement
    /\ F!Configured(element, s).devices = element.devices
BY FolderSpecsAreSpecs DEF F!Configured, F!FolderElement, F!FolderSpec

\* The names in a spec resolve to ids of devices.
LEMMA ResolvedNamesType ==
  ASSUME NEW s, NEW names, NEW ids \in F!ResolvedNames(s, names)
  PROVE  ids \subseteq DeviceIds
<1> DEFINE found == {n \in names : \E d \in DeviceIds : DeviceNamesOn[s][d] = n}
<1>1. PICK resolve \in {g \in [found -> DeviceIds] :
                           \A n \in found : DeviceNamesOn[s][g[n]] = n} :
        ids = {resolve[n] : n \in found}
  BY DEF F!ResolvedNames
<1>2. resolve \in [found -> DeviceIds]
  BY <1>1
<1> HIDE DEF found
<1> QED
  BY <1>1, <1>2

\* A spec or the namespace names a server, or there is none.
LEMMA FolderEndpoint ==
  \A s \in FolderSpecs \cup {None} :
    /\ F!Endpoint(s) \in Servers \cup {None}
    /\ F!Endpoint(s) # None => F!Endpoint(s) \in Servers
BY FolderSpecsAreSpecs, DefaultServerIsServer DEF F!Endpoint, F!FolderSpec

\* A PUT keeps the folders folders, and changes no other folder.
LEMMA PutFolderType ==
  ASSUME stFolders \in [Servers -> [FolderIds -> F!FolderElement \cup {None}]],
         NEW s \in Servers, NEW f \in FolderIds, NEW element \in F!FolderElement,
         F!PutFolder(s, f, element)
  PROVE  stFolders' \in [Servers -> [FolderIds -> F!FolderElement \cup {None}]]
<1>1. [element EXCEPT !.devices = @ \cap F!KnownDevices(s)] \in F!FolderElement
  BY DEF F!FolderElement
<1> QED
  BY <1>1 DEF F!PutFolder

\* Nor does a DELETE leave anything but folders.
LEMMA RemoveFolderType ==
  ASSUME stFolders \in [Servers -> [FolderIds -> F!FolderElement \cup {None}]],
         NEW s \in Servers, NEW f \in FolderIds,
         F!RemoveFolder(s, f) \/ UNCHANGED stFolders
  PROVE  stFolders' \in [Servers -> [FolderIds -> F!FolderElement \cup {None}]]
BY DEF F!RemoveFolder

\* A disturbance leaves a budget of a natural number each.
LEMMA FolderSpendType ==
  ASSUME left \in [F!Disturbances -> Nat], NEW kind \in F!Disturbances, F!Spend(kind)
  PROVE  left' \in [F!Disturbances -> Nat]
BY DEF F!Spend

\* So does the outcome of a PUT, which also keeps the folders folders.
LEMMA PutOutcomeType ==
  ASSUME F!TypeOK, fCurrent \in Folders, F!Endpoint(fSpec) \in Servers,
         NEW element \in F!FolderElement,
         F!PutSucceeds(element) \/ F!PutFails(element)
  PROVE  /\ stFolders' \in [Servers -> [FolderIds -> F!FolderElement \cup {None}]]
         /\ left' \in [F!Disturbances -> Nat]
<1>1. stFolders' \in [Servers -> [FolderIds -> F!FolderElement \cup {None}]]
  <2>1. CASE UNCHANGED stFolders
    BY <2>1 DEF F!TypeOK
  <2>2. CASE F!PutFolder(F!Endpoint(fSpec), fCurrent, element)
    BY FoldersHaveIds, <2>2, PutFolderType DEF F!TypeOK
  <2> QED
    BY <2>1, <2>2 DEF F!PutSucceeds, F!PutFails
<1>2. left' \in [F!Disturbances -> Nat]
  <2>1. "fault" \in F!Disturbances
    BY DEF F!Disturbances
  <2>2. CASE UNCHANGED left
    BY <2>2 DEF F!TypeOK, F!ControllerTypeOK
  <2>3. CASE F!Spend("fault")
    BY <2>1, <2>3, FolderSpendType DEF F!TypeOK, F!ControllerTypeOK
  <2> QED
    BY <2>2, <2>3 DEF F!PutSucceeds, F!PutFails
<1> QED
  BY <1>1, <1>2

\* What the place Reconcile has reached says about its variables.
FolderConsistent ==
  /\ fCurrent = None <=> fPc = "idle"
  /\ fPc = "delete" => fSpec = None /\ F!Endpoint(fSpec) \in Servers
  /\ fPc \in {"settings", "shares"} =>
       fSpec \in FolderSpecs /\ F!Endpoint(fSpec) \in Servers /\ folder \in F!FolderElement

FolderTypes == F!TypeOK /\ FolderConsistent

\* Reconcile keeps the types, from whatever place it has reached.
LEMMA FolderReconcileTypes == FolderTypes /\ F!Reconcile => FolderTypes'
<1> SUFFICES ASSUME FolderTypes, F!Reconcile PROVE FolderTypes'
  OBVIOUS
<1> USE DEF FolderTypes, F!TypeOK, F!ControllerTypeOK, FolderConsistent, F!worldVars,
            F!localVars, F!controllerVars
<1>1. CASE \E k \in Folders : F!Begin(k)
  BY <1>1, NoneIsNoValue DEF F!Begin, F!Take
<1>2. CASE F!Unreachable
  <2>1. left' \in [F!Disturbances -> Nat]
    BY <1>2, FolderSpendType DEF F!Unreachable, F!Disturbances
  <2> QED
    BY <1>2, <2>1 DEF F!Unreachable, F!Requeue, F!Return
<1>3. CASE F!FetchForDeletion
  BY <1>3, FolderEndpoint DEF F!FetchForDeletion
<1>4. CASE F!DeleteFolder
  <2>1. left' \in [F!Disturbances -> Nat]
    BY <1>4, FolderSpendType DEF F!DeleteFolder, F!Disturbances
  <2>2. stFolders' \in [Servers -> [FolderIds -> F!FolderElement \cup {None}]]
    BY FoldersHaveIds, <1>4, RemoveFolderType DEF F!DeleteFolder
  <2> QED
    BY <1>4, <2>1, <2>2 DEF F!DeleteFolder, F!Forget, F!Return
<1>5. CASE F!FetchForUpdate
  <2> DEFINE stored == stFolders[F!Endpoint(fSpec)][fCurrent]
             found  == IF stored = None THEN F!GeneratedFolder(fSpec) ELSE stored
             wanted == F!Configured(found, fSpec)
  <2>1. fSpec \in FolderSpecs /\ F!Endpoint(fSpec) \in Servers /\ fCurrent \in Folders
    BY <1>5, FolderEndpoint DEF F!FetchForUpdate
  <2>2. found \in F!FolderElement
    BY FoldersHaveIds, <2>1, GeneratedFolderType
  <2>3. wanted \in F!FolderElement
    BY <2>1, <2>2, FolderConfigured
  <2>4. wanted.devices \subseteq DeviceIds /\ fSpec.ids \subseteq DeviceIds
    BY <2>1, <2>3, FolderSpecsAreSpecs DEF F!FolderElement, F!FolderSpec
  <2>5. folder' = wanted
    BY <1>5 DEF F!FetchForUpdate
  <2>6. shared' \in SUBSET DeviceIds
    <3>1. PICK ids \in F!ResolvedNames(F!Endpoint(fSpec), fSpec.names) :
            shared' = wanted.devices \cup fSpec.ids \cup ids
      BY <1>5 DEF F!FetchForUpdate, F!AddDevices
    <3>2. ids \subseteq DeviceIds
      BY ResolvedNamesType
    <3> QED
      BY <2>4, <3>1, <3>2
  <2>7. fPc' \in {"settings", "shares"}
    BY <1>5 DEF F!FetchForUpdate
  <2> HIDE DEF wanted
  <2>8. UNCHANGED <<F!controllerVars, F!worldVars, fSpec>> /\ fUndisturbed' = TRUE
    BY <1>5 DEF F!FetchForUpdate
  <2>9. F!Endpoint(fSpec)' = F!Endpoint(fSpec)
    BY <2>8 DEF F!Endpoint
  <2> QED
    BY <2>1, <2>3, <2>5, <2>6, <2>7, <2>8, <2>9, NoneIsNoValue
<1>6. CASE F!ReplaceSettings
  <2>1. F!PutSucceeds(folder) \/ F!PutFails(folder)
    BY <1>6 DEF F!ReplaceSettings
  <2>2. /\ stFolders' \in [Servers -> [FolderIds -> F!FolderElement \cup {None}]]
        /\ left' \in [F!Disturbances -> Nat]
    BY <1>6, <2>1, PutOutcomeType DEF F!ReplaceSettings
  <2> QED
    BY <1>6, <2>2 DEF F!ReplaceSettings, F!Requeue, F!Return, F!Endpoint
<1>7. CASE F!ReplaceShares
  <2> DEFINE wanted == [folder EXCEPT !.devices = shared]
  <2>1. wanted \in F!FolderElement
    BY <1>7 DEF F!ReplaceShares, F!FolderElement
  <2>2. F!PutSucceeds(wanted) \/ F!PutFails(wanted)
    BY <1>7 DEF F!ReplaceShares
  <2>3. /\ stFolders' \in [Servers -> [FolderIds -> F!FolderElement \cup {None}]]
        /\ left' \in [F!Disturbances -> Nat]
    BY <1>7, <2>1, <2>2, PutOutcomeType DEF F!ReplaceShares
  <2> QED
    BY <1>7, <2>3 DEF F!ReplaceShares, F!Requeue, F!Return
<1>8. CASE F!SharesUnchanged
  BY <1>8 DEF F!SharesUnchanged, F!Requeue, F!Return
<1>9. CASE F!FetchMisread
  <2>1. fSpec \in FolderSpecs /\ F!Endpoint(fSpec) \in Servers /\ fCurrent \in Folders
    BY <1>9, FolderEndpoint DEF F!FetchMisread
  <2>2. F!GeneratedFolder(fSpec) \in F!FolderElement
    BY <2>1, GeneratedFolderType
  <2>3. folder' \in F!FolderElement
    BY <1>9, <2>1, <2>2, FolderConfigured DEF F!FetchMisread
  <2>4. shared' \in SUBSET DeviceIds
    BY <1>9, <2>1, <2>2, FolderSpecsAreSpecs
    DEF F!FetchMisread, F!AddDevices, F!FolderElement, F!FolderSpec
  <2>5. left' \in [F!Disturbances -> Nat]
    BY <1>9, FolderSpendType DEF F!FetchMisread, F!Disturbances
  <2>6. /\ fPc' = "settings" /\ fUndisturbed' = FALSE
        /\ UNCHANGED <<up, fQueue, fDelayed, fCurrent, fCr, stFolders, DeviceNamesOn,
                       fDeclared, fSpec>>
    BY <1>9 DEF F!FetchMisread
  <2>7. F!Endpoint(fSpec)' = F!Endpoint(fSpec)
    BY <2>6 DEF F!Endpoint
  <2>8. fCurrent # None
    BY <1>9 DEF F!FetchMisread
  <2> QED
    BY <2>1, <2>3, <2>4, <2>5, <2>6, <2>7, <2>8
<1> QED
  BY <1>1, <1>2, <1>3, <1>4, <1>5, <1>6, <1>7, <1>8, <1>9 DEF F!Reconcile

\* So do its surroundings.
FolderWorld ==
  \/ \E k \in Folders :
       \/ \E new \in FolderSpecs : F!Declare(k, new)
       \/ F!Undeclare(k)
       \/ F!TimerExpires(k)
  \/ F!PeriodicResync
  \/ F!ProcessDies
  \/ F!ProcessStarts

LEMMA FolderWorldTypes == FolderTypes /\ FolderWorld => FolderTypes'
<1> SUFFICES ASSUME FolderTypes, FolderWorld PROVE FolderTypes'
  OBVIOUS
<1> USE DEF FolderTypes, F!TypeOK, F!ControllerTypeOK, FolderConsistent, F!worldVars,
            F!localVars, F!controllerVars
<1>1. ASSUME NEW k \in Folders, NEW new \in FolderSpecs, F!Declare(k, new)
      PROVE  FolderTypes'
  <2>1. left' \in [F!Disturbances -> Nat]
    BY <1>1, FolderSpendType DEF F!Declare, F!Disturbances
  <2>2. fDeclared' \in SUBSET (Servers \X Folders)
    BY <1>1, FolderEndpoint DEF F!Declare
  <2> QED
    BY <1>1, <2>1, <2>2 DEF F!Declare, F!Notify, F!Endpoint
<1>2. ASSUME NEW k \in Folders, F!Undeclare(k)
      PROVE  FolderTypes'
  <2>1. left' \in [F!Disturbances -> Nat]
    BY <1>2, FolderSpendType DEF F!Undeclare, F!Disturbances
  <2> QED
    BY <1>2, <2>1 DEF F!Undeclare, F!Notify, F!Endpoint
<1>3. ASSUME NEW k \in Folders, F!TimerExpires(k)
      PROVE  FolderTypes'
  BY <1>3 DEF F!TimerExpires, F!TimerFires, F!Endpoint
<1>4. CASE F!PeriodicResync
  BY <1>4 DEF F!PeriodicResync, F!Resync, F!Existing, F!Endpoint
<1>5. CASE F!ProcessDies
  <2>1. left' \in [F!Disturbances -> Nat]
    BY <1>5, FolderSpendType DEF F!ProcessDies, F!Crash, F!Die, F!Disturbances
  <2> QED
    BY <1>5, <2>1 DEF F!ProcessDies, F!Crash, F!Die, F!Return
<1>6. CASE F!ProcessStarts
  BY <1>6 DEF F!ProcessStarts, F!Restart, F!Existing, F!Endpoint
<1> QED
  BY <1>1, <1>2, <1>3, <1>4, <1>5, <1>6 DEF FolderWorld

-----------------------------------------------------------------------------
(* Shares.  A device is on a folder because the resource has listed its id, or *)
(* a name a Device resource had given it when the configuration was fetched.   *)

MayShare(k, s, d) ==
  \/ <<k, d>> \in asked
  \/ \E n \in Devices : <<k, n>> \in asked /\ <<s, d, n>> \in dDeclared

AskedFor(k, c) == c # None => \A x \in c.ids \cup c.names : <<k, x>> \in asked

FolderSpecsAsked == \A k \in Folders : AskedFor(k, fCr[k])

\* What Reconcile has read, and what it is about to send.
FolderInHandAsked ==
  /\ AskedFor(fCurrent, fSpec)
  /\ fPc \in {"settings", "shares"} =>
       \A d \in shared \cup folder.devices : MayShare(fCurrent, F!Endpoint(fSpec), d)

SharesAsked == SharedAsAsked /\ FolderSpecsAsked /\ FolderInHandAsked

\* What was asked for and declared remains so.
LEMMA MayShareStays ==
  ASSUME asked \subseteq asked', dDeclared \subseteq dDeclared'
  PROVE  /\ \A k, s, d : MayShare(k, s, d) => MayShare(k, s, d)'
         /\ \A k, c : AskedFor(k, c) => AskedFor(k, c)'
BY DEF MayShare, AskedFor

\* The devices the names in a spec resolve to have been declared under those names.
LEMMA ResolvedNamesDeclared ==
  ASSUME DeviceTypes, Declared, NEW s \in Servers, NEW c \in FolderSpecs,
         NEW k, AskedFor(k, c),
         NEW ids \in F!ResolvedNames(s, c.names), NEW d \in ids
  PROVE  MayShare(k, s, d)
<1> DEFINE found == {n \in c.names : \E x \in DeviceIds : DeviceNamesOn[s][x] = n}
<1>1. PICK resolve \in {g \in [found -> DeviceIds] :
                           \A n \in found : DeviceNamesOn[s][g[n]] = n} :
        ids = {resolve[n] : n \in found}
  BY DEF F!ResolvedNames
<1>2. PICK n \in found : d = resolve[n]
  BY <1>1
<1>3. d \in DeviceIds /\ DeviceNamesOn[s][d] = n /\ n \in c.names
  BY <1>1, <1>2
<1> HIDE DEF found
<1>4. c.names \subseteq Devices \cup WebUiNames
  BY FolderSpecsAreSpecs DEF F!FolderSpec, D!Names
<1>5. n # None
  BY <1>3, <1>4, NoneIsNoValue, NoneIsNoData
<1>6. stDevices[s][d] # None /\ stDevices[s][d].name = n
  BY <1>3, <1>5 DEF DeviceNamesOn
<1>7. <<s, d, n>> \in dDeclared
  BY <1>3, <1>6 DEF Declared, DevicesDeclared
<1>8. n \in Devices
  BY <1>7 DEF DeviceTypes, D!TypeOK
<1>9. c # None
  BY NoneIsNoData
<1> QED
  BY <1>3, <1>7, <1>8, <1>9 DEF MayShare, AskedFor

LEMMA FolderReconcileShares ==
  ASSUME FolderTypes, DeviceTypes, Declared, SharesAsked,
         F!Reconcile, UNCHANGED <<asked, dDeclared>>
  PROVE  SharesAsked'
<1> USE DEF F!worldVars, F!controllerVars
<1>1. /\ \A k, s, d : MayShare(k, s, d) => MayShare(k, s, d)'
      /\ \A k, c : AskedFor(k, c) => AskedFor(k, c)'
  BY MayShareStays
<1>2. FolderSpecsAsked'
  <2>1. UNCHANGED fCr
    BY DEF F!Reconcile, F!Begin, F!Unreachable, F!FetchForDeletion, F!DeleteFolder,
       F!FetchForUpdate, F!FetchMisread, F!ReplaceSettings, F!ReplaceShares,
       F!SharesUnchanged
  <2> QED
    BY <1>1, <2>1 DEF SharesAsked, FolderSpecsAsked
<1>3. SharedAsAsked'
  <2>1. ASSUME NEW element \in F!FolderElement,
               \A d \in element.devices : MayShare(fCurrent, F!Endpoint(fSpec), d),
               F!Endpoint(fSpec) \in Servers, fCurrent \in Folders,
               UNCHANGED stFolders \/ F!PutFolder(F!Endpoint(fSpec), fCurrent, element)
        PROVE  SharedAsAsked'
    <3> DEFINE stored ==
          [element EXCEPT !.devices = @ \cap F!KnownDevices(F!Endpoint(fSpec))]
    <3>1. stored.devices \subseteq element.devices
      BY DEF F!FolderElement
    <3> HIDE DEF stored
    <3>2. \A s \in Servers, k \in Folders :
            \/ stFolders'[s][k] = stFolders[s][k]
            \/ s = F!Endpoint(fSpec) /\ k = fCurrent /\ stFolders'[s][k] = stored
      <4>1. /\ stFolders \in [Servers -> [FolderIds -> F!FolderElement \cup {None}]]
            /\ fCurrent \in FolderIds
        BY <2>1, FoldersHaveIds DEF FolderTypes, F!TypeOK
      <4>2. \/ UNCHANGED stFolders
            \/ stFolders' = [stFolders EXCEPT ![F!Endpoint(fSpec)][fCurrent] = stored]
        BY <2>1 DEF F!PutFolder, stored
      <4> QED
        BY <2>1, <4>1, <4>2, FoldersHaveIds
    <3>3. \A s \in Servers, k \in Folders :
            stFolders[s][k] # None =>
              \A d \in stFolders[s][k].devices : MayShare(k, s, d)
      BY DEF SharesAsked, SharedAsAsked, MayShare
    <3>4. \A s \in Servers, k \in Folders :
            stFolders'[s][k] # None =>
              \A d \in stFolders'[s][k].devices : MayShare(k, s, d)
      BY <2>1, <3>1, <3>2, <3>3
    <3>5. \A s \in Servers, k \in Folders :
            stFolders'[s][k] # None =>
              \A d \in stFolders'[s][k].devices : MayShare(k, s, d)'
      BY <1>1, <3>4
    <3> QED
      BY <3>5 DEF SharedAsAsked, MayShare
  <2>2. CASE UNCHANGED stFolders
    BY <1>1, <2>2 DEF SharesAsked, SharedAsAsked, MayShare
  <2>3. CASE F!DeleteFolder
    <3>1. F!Endpoint(fSpec) \in Servers /\ fCurrent \in Folders
      BY <2>3, NoneIsNoValue
      DEF F!DeleteFolder, FolderTypes, FolderConsistent, F!TypeOK, F!ControllerTypeOK
    <3>2. UNCHANGED stFolders \/ F!RemoveFolder(F!Endpoint(fSpec), fCurrent)
      BY <2>3 DEF F!DeleteFolder
    <3>3. \A s \in Servers, k \in Folders :
            stFolders'[s][k] = stFolders[s][k] \/ stFolders'[s][k] = None
      BY <3>1, <3>2, FoldersHaveIds DEF F!RemoveFolder, FolderTypes, F!TypeOK
    <3> QED
      BY <1>1, <3>3 DEF SharesAsked, SharedAsAsked, MayShare
  <2>4. CASE F!ReplaceSettings \/ F!ReplaceShares
    <3>1. /\ fPc \in {"settings", "shares"} /\ fCurrent \in Folders
          /\ F!Endpoint(fSpec) \in Servers /\ folder \in F!FolderElement
          /\ shared \in SUBSET DeviceIds
      BY <2>4 DEF F!ReplaceSettings, F!ReplaceShares, FolderTypes, FolderConsistent,
         F!TypeOK, F!ControllerTypeOK
    <3>2. \A d \in shared \cup folder.devices : MayShare(fCurrent, F!Endpoint(fSpec), d)
      BY <3>1 DEF SharesAsked, FolderInHandAsked
    <3> DEFINE wanted == [folder EXCEPT !.devices = shared]
    <3>3. wanted \in F!FolderElement /\ wanted.devices = shared
      BY <3>1 DEF F!FolderElement
    <3>4. \/ UNCHANGED stFolders
          \/ F!PutFolder(F!Endpoint(fSpec), fCurrent, folder)
          \/ F!PutFolder(F!Endpoint(fSpec), fCurrent, wanted)
      BY <2>4 DEF F!ReplaceSettings, F!ReplaceShares, F!PutSucceeds, F!PutFails
    <3> HIDE DEF wanted
    <3> QED
      BY <2>1, <3>1, <3>2, <3>3, <3>4
  <2> QED
    BY <2>2, <2>3, <2>4
    DEF F!Reconcile, F!Begin, F!Unreachable, F!FetchForDeletion, F!FetchForUpdate,
        F!FetchMisread, F!SharesUnchanged
<1>4. FolderInHandAsked'
  <2>1. ASSUME NEW k \in Folders, F!Begin(k)
        PROVE  FolderInHandAsked'
    <3>1. fCurrent' = k /\ fSpec' = fCr[k] /\ fPc' = "fetch"
      BY <2>1 DEF F!Begin, F!Take
    <3>2. fSpec' # None => \A x \in fSpec'.ids \cup fSpec'.names : <<k, x>> \in asked'
      BY <3>1 DEF SharesAsked, FolderSpecsAsked, AskedFor
    <3> QED
      BY <3>1, <3>2 DEF FolderInHandAsked, AskedFor
  <2>2. CASE F!Return
    BY <2>2 DEF F!Return, FolderInHandAsked, AskedFor
  <2>3. CASE F!FetchForDeletion
    BY <2>3 DEF F!FetchForDeletion, FolderInHandAsked, AskedFor
  <2>4. ASSUME UNCHANGED <<fCurrent, fSpec>>, fPc' \in {"settings", "shares"},
               \A d \in shared' \cup folder'.devices :
                 MayShare(fCurrent, F!Endpoint(fSpec), d)
        PROVE  FolderInHandAsked'
    <3>1. AskedFor(fCurrent, fSpec)
      BY DEF SharesAsked, FolderInHandAsked
    <3>2. AskedFor(fCurrent, fSpec)'
      BY <2>4, <3>1 DEF AskedFor
    <3>3. \A d \in shared' \cup folder'.devices :
            MayShare(fCurrent, F!Endpoint(fSpec), d)'
      BY <2>4 DEF MayShare, F!Endpoint
    <3> QED
      BY <3>2, <3>3 DEF FolderInHandAsked
  <2>5. CASE F!FetchForUpdate \/ F!FetchMisread
    <3>1. /\ fSpec \in FolderSpecs /\ F!Endpoint(fSpec) \in Servers
          /\ fCurrent \in Folders
          /\ UNCHANGED <<fCurrent, fSpec>> /\ fPc' \in {"settings", "shares"}
      BY <2>5, FolderEndpoint
      DEF F!FetchForUpdate, F!FetchMisread, FolderTypes, FolderConsistent, F!TypeOK,
          F!ControllerTypeOK
    <3>2. /\ AskedFor(fCurrent, fSpec) /\ fSpec # None
      BY <2>5 DEF SharesAsked, FolderInHandAsked, F!FetchForUpdate, F!FetchMisread
    <3>3. \A d \in fSpec.ids : MayShare(fCurrent, F!Endpoint(fSpec), d)
      BY <3>2 DEF AskedFor, MayShare
    <3>4. /\ F!GeneratedFolder(fSpec) \in F!FolderElement
          /\ F!GeneratedFolder(fSpec).devices = {}
      BY <3>1, GeneratedFolderType DEF F!GeneratedFolder
    <3>5. CASE F!FetchForUpdate
      <4> DEFINE stored == stFolders[F!Endpoint(fSpec)][fCurrent]
                 found  == IF stored = None THEN F!GeneratedFolder(fSpec) ELSE stored
                 wanted == F!Configured(found, fSpec)
      <4>1. found \in F!FolderElement
        BY FoldersHaveIds, <3>1, <3>4 DEF FolderTypes, F!TypeOK
      <4>2. \A d \in found.devices : MayShare(fCurrent, F!Endpoint(fSpec), d)
        BY <3>1, <3>4 DEF SharesAsked, SharedAsAsked, MayShare
      <4>3. wanted.devices = found.devices
        BY <3>1, <4>1, FolderConfigured
      <4>4. folder' = wanted
        BY <3>5 DEF F!FetchForUpdate
      <4>5. PICK ids \in F!ResolvedNames(F!Endpoint(fSpec), fSpec.names) :
              shared' = wanted.devices \cup (fSpec.ids \cup ids)
        BY <3>5 DEF F!FetchForUpdate, F!AddDevices
      <4>6. \A d \in ids : MayShare(fCurrent, F!Endpoint(fSpec), d)
        BY <3>1, <3>2, ResolvedNamesDeclared
      <4> HIDE DEF found, wanted
      <4> QED
        BY <2>4, <3>1, <3>3, <4>2, <4>3, <4>4, <4>5, <4>6
    <3>6. CASE F!FetchMisread
      <4>1. folder' = F!Configured(F!GeneratedFolder(fSpec), fSpec)
            /\ shared' = F!GeneratedFolder(fSpec).devices \cup fSpec.ids
        BY <3>6 DEF F!FetchMisread, F!AddDevices
      <4>2. folder'.devices = {} /\ shared' = fSpec.ids
        BY <3>1, <3>4, <4>1, FolderConfigured
      <4> QED
        BY <2>4, <3>1, <3>3, <4>2
    <3> QED
      BY <2>5, <3>5, <3>6
  <2>6. CASE F!ReplaceSettings /\ ~F!Return
    <3>1. /\ UNCHANGED <<fCurrent, fSpec, folder, shared>>
          /\ fPc = "settings" /\ fPc' = "shares"
      BY <2>6 DEF F!ReplaceSettings
    <3> QED
      BY <2>4, <3>1 DEF SharesAsked, FolderInHandAsked
  <2> QED
    BY <2>1, <2>2, <2>3, <2>5, <2>6
    DEF F!Reconcile, F!Unreachable, F!DeleteFolder, F!ReplaceShares, F!SharesUnchanged
<1> QED
  BY <1>2, <1>3, <1>4 DEF SharesAsked

\* What a resource is changed to is asked for from then on.
ChangesAsked ==
  \A k \in Folders :
    \/ fCr'[k] = fCr[k]
    \/ fCr'[k] = None
    \/ \A x \in fCr'[k].ids \cup fCr'[k].names : <<k, x>> \in asked'

\* What else happens: folders lose shares or stay, and Reconcile stays where it is
\* or ends.
LEMMA SharesStay ==
  ASSUME SharesAsked, asked \subseteq asked', dDeclared \subseteq dDeclared',
         \A s \in Servers, k \in Folders :
           stFolders'[s][k] # None =>
             /\ stFolders[s][k] # None
             /\ stFolders'[s][k].devices \subseteq stFolders[s][k].devices,
         ChangesAsked,
         \/ UNCHANGED <<fCurrent, fPc, fSpec, folder, shared>>
         \/ F!Return
  PROVE  SharesAsked'
<1>1. SharedAsAsked'
  BY DEF SharesAsked, SharedAsAsked
<1>2. FolderSpecsAsked'
  BY DEF SharesAsked, FolderSpecsAsked, AskedFor, ChangesAsked
<1>3. FolderInHandAsked'
  <2>1. CASE F!Return
    BY <2>1 DEF F!Return, FolderInHandAsked, AskedFor
  <2>2. CASE UNCHANGED <<fCurrent, fPc, fSpec, folder, shared>>
    BY <2>2 DEF SharesAsked, FolderInHandAsked, AskedFor, MayShare, F!Endpoint
  <2> QED
    BY <2>1, <2>2
<1> QED
  BY <1>1, <1>2, <1>3 DEF SharesAsked

LEMMA FolderWorldShares ==
  ASSUME SharesAsked, FolderWorld, asked \subseteq asked', UNCHANGED dDeclared,
         ChangesAsked
  PROVE  SharesAsked'
<1>1. UNCHANGED stFolders
  BY DEF FolderWorld, F!Declare, F!Undeclare, F!TimerExpires, F!PeriodicResync,
     F!ProcessDies, F!ProcessStarts, F!worldVars
<1>2. F!Return \/ UNCHANGED <<fCurrent, fPc, fSpec, folder, shared>>
  BY DEF FolderWorld, F!Declare, F!Undeclare, F!TimerExpires, F!PeriodicResync,
     F!ProcessDies, F!ProcessStarts, F!Notify, F!TimerFires, F!Resync, F!Restart,
     F!localVars
<1> QED
  BY <1>1, <1>2, SharesStay

-----------------------------------------------------------------------------
(* Both controllers.                                                       *)

AskedType == asked \subseteq Folders \X (DeviceIds \cup Devices \cup WebUiNames)

OperatorInv == DeviceTypes /\ Declared /\ FolderTypes /\ AskedType /\ SharesAsked

\* A step of one controller leaves the other where it is: of what it has in common
\* with the first, the process and the budget keep their types.
LEMMA DeviceSideIdle ==
  ASSUME DeviceTypes, Declared, FolderTypes', UNCHANGED deviceVars
  PROVE  DeviceTypes' /\ Declared'
<1>1. /\ up' \in BOOLEAN
      /\ left' \in [D!Disturbances -> Nat]
  BY DEF FolderTypes, F!TypeOK, F!ControllerTypeOK, F!Disturbances, D!Disturbances
<1>2. DeviceTypes'
  BY <1>1 DEF deviceVars, DeviceTypes, DeviceConsistent, D!TypeOK, D!ControllerTypeOK,
     D!Endpoint
<1>3. Declared'
  BY DEF deviceVars, Declared, DevicesDeclared, SpecsDeclared, DeviceInHandDeclared,
     D!Endpoint
<1> QED
  BY <1>2, <1>3

\* The folders lose the shares of devices that are gone, and nothing else.
LEMMA FolderSideIdle ==
  ASSUME DeviceSide(TRUE), FolderTypes, DeviceTypes', SharesAsked,
         dDeclared \subseteq dDeclared'
  PROVE  FolderTypes' /\ SharesAsked'
<1>1. /\ UNCHANGED <<fQueue, fDelayed, fCurrent, fCr, fPc, fSpec, folder, shared,
                     fDeclared, asked>>
      /\ stFolders' = [s \in Servers |-> [f \in FolderIds |->
           IF stFolders[s][f] = None THEN None
           ELSE [stFolders[s][f] EXCEPT
                   !.devices = {d \in stFolders[s][f].devices : stDevices'[s][d] # None}]]]
      /\ fUndisturbed' = (fUndisturbed /\ stDevices' = stDevices)
  BY DEF DeviceSide, folderVars
<1>2. /\ up' \in BOOLEAN
      /\ left' \in [F!Disturbances -> Nat]
  BY DEF DeviceTypes, D!TypeOK, D!ControllerTypeOK, F!Disturbances, D!Disturbances
<1>3. DeviceNamesOn' \in [Servers -> [DeviceIds -> Devices \cup WebUiNames \cup {None}]]
  BY DEF DeviceNamesOn, DeviceTypes, D!TypeOK, D!DeviceElement, D!Names
<1>4. \A s \in Servers, f \in FolderIds :
        /\ stFolders'[s][f] \in F!FolderElement \cup {None}
        /\ stFolders'[s][f] # None =>
             /\ stFolders[s][f] # None
             /\ stFolders'[s][f].devices \subseteq stFolders[s][f].devices
  <2> SUFFICES ASSUME NEW s \in Servers, NEW f \in FolderIds
               PROVE  /\ stFolders'[s][f] \in F!FolderElement \cup {None}
                      /\ stFolders'[s][f] # None =>
                           /\ stFolders[s][f] # None
                           /\ stFolders'[s][f].devices \subseteq stFolders[s][f].devices
    OBVIOUS
  <2>1. stFolders[s][f] \in F!FolderElement \cup {None}
    BY DEF FolderTypes, F!TypeOK
  <2> DEFINE still == {d \in stFolders[s][f].devices : stDevices'[s][d] # None}
             kept  == [stFolders[s][f] EXCEPT !.devices = still]
  <2>2. stFolders'[s][f] = IF stFolders[s][f] = None THEN None ELSE kept
    BY <1>1
  <2>3. still \subseteq stFolders[s][f].devices
    OBVIOUS
  <2> HIDE DEF still
  <2>4. stFolders[s][f] # None => kept \in F!FolderElement /\ kept.devices = still
    BY <2>1, <2>3 DEF F!FolderElement
  <2> QED
    BY <2>2, <2>3, <2>4
<1>5. stFolders' \in [Servers -> [FolderIds -> F!FolderElement \cup {None}]]
  BY <1>1, <1>4
<1>6. FolderTypes'
  <2>1. F!TypeOK'
    BY <1>1, <1>2, <1>3, <1>5 DEF FolderTypes, F!TypeOK, F!ControllerTypeOK
  <2>2. FolderConsistent'
    BY <1>1 DEF FolderTypes, FolderConsistent, F!Endpoint
  <2> QED
    BY <2>1, <2>2 DEF FolderTypes
<1>7. SharesAsked'
  <2>1. ChangesAsked
    BY <1>1 DEF ChangesAsked
  <2> QED
    BY <1>1, <1>4, <2>1, FoldersHaveIds, SharesStay
<1> QED
  BY <1>6, <1>7

LEMMA OperatorInit == Init => OperatorInv
<1> SUFFICES ASSUME Init PROVE OperatorInv
  OBVIOUS
<1>1. left \in [F!Disturbances -> Nat] /\ left \in [D!Disturbances -> Nat]
  BY BudgetIsBound DEF Init, D!Init, D!ControllerInit, F!Disturbances, D!Disturbances
<1>2. DeviceTypes
  BY <1>1 DEF Init, D!Init, D!ControllerInit, DeviceTypes, DeviceConsistent, D!TypeOK,
     D!ControllerTypeOK
<1>3. Declared
  BY DEF Init, D!Init, Declared, DevicesDeclared, SpecsDeclared, DeviceInHandDeclared
<1>4. DeviceNamesOn \in [Servers -> [DeviceIds -> Devices \cup WebUiNames \cup {None}]]
  BY DEF Init, D!Init, DeviceNamesOn
<1>5. FolderTypes
  BY <1>1, <1>4 DEF Init, F!ControllerInit, FolderTypes, FolderConsistent, F!TypeOK,
     F!ControllerTypeOK
<1>6. AskedType /\ SharesAsked
  BY FoldersHaveIds DEF Init, AskedType, SharesAsked, SharedAsAsked, FolderSpecsAsked,
     FolderInHandAsked, AskedFor
<1> QED
  BY <1>2, <1>3, <1>5, <1>6 DEF OperatorInv

LEMMA OperatorStep == OperatorInv /\ [Next]_vars => OperatorInv'
<1> SUFFICES ASSUME OperatorInv, [Next]_vars PROVE OperatorInv'
  OBVIOUS
<1> USE DEF OperatorInv
<1>1. CASE FolderReconcile
  <2>1. F!Reconcile /\ UNCHANGED deviceVars /\ UNCHANGED asked
    BY <1>1 DEF FolderReconcile, FolderSide
  <2>2. FolderTypes'
    BY <2>1, FolderReconcileTypes
  <2>3. SharesAsked'
    BY <2>1, FolderReconcileShares DEF deviceVars
  <2> QED
    BY <2>1, <2>2, <2>3, DeviceSideIdle DEF AskedType
<1>2. CASE DeviceReconcile
  <2>1. D!Reconcile /\ DeviceSide(D!Reconcile) /\ UNCHANGED asked
    BY <1>2 DEF DeviceReconcile, DeviceSide
  <2>2. DeviceTypes' /\ Declared' /\ dDeclared' = dDeclared
    BY <2>1, DeviceReconcileTypes, DeviceReconcileDeclared
  <2> QED
    BY <2>1, <2>2, FolderSideIdle DEF AskedType
<1>3. ASSUME FolderWorld, UNCHANGED deviceVars, asked \subseteq asked', AskedType',
             ChangesAsked
      PROVE  OperatorInv'
  <2>1. FolderTypes'
    BY <1>3, FolderWorldTypes
  <2>2. SharesAsked'
    BY <1>3, FolderWorldShares DEF deviceVars
  <2> QED
    BY <1>3, <2>1, <2>2, DeviceSideIdle
<1>4. ASSUME DeviceSide(TRUE), DeviceWorld
      PROVE  OperatorInv'
  <2>1. DeviceTypes' /\ Declared' /\ dDeclared \subseteq dDeclared'
    BY <1>4, DeviceWorldTypes, DeviceWorldDeclared
  <2>2. UNCHANGED asked
    BY <1>4 DEF DeviceSide
  <2> QED
    BY <1>4, <2>1, <2>2, FolderSideIdle DEF AskedType
<1>5. ASSUME NEW k \in Folders, NEW new \in FolderSpecs, DeclareFolder(k, new)
      PROVE  OperatorInv'
  <2>1. /\ F!Declare(k, new) /\ UNCHANGED deviceVars
        /\ asked' = asked \cup ({k} \X (new.ids \cup new.names))
    BY <1>5 DEF DeclareFolder, FolderSide
  <2>2. new.ids \cup new.names \subseteq DeviceIds \cup Devices \cup WebUiNames
    BY FolderSpecsAreSpecs DEF F!FolderSpec
  <2>3. AskedType'
    BY <2>1, <2>2 DEF AskedType
  <2>4. fCr' = [fCr EXCEPT ![k] = new] /\ fCr \in [Folders -> FolderSpecs \cup {None}]
    BY <2>1 DEF F!Declare, FolderTypes, F!TypeOK
  <2>5. ChangesAsked
    BY <2>1, <2>4 DEF ChangesAsked
  <2> QED
    BY <1>3, <2>1, <2>3, <2>5 DEF FolderWorld
<1>6. ASSUME NEW k \in Folders, UndeclareFolder(k)
      PROVE  OperatorInv'
  <2>1. F!Undeclare(k) /\ UNCHANGED <<deviceVars, asked>>
    BY <1>6 DEF UndeclareFolder, FolderSide
  <2>2. ChangesAsked
    BY <2>1 DEF F!Undeclare, ChangesAsked, FolderTypes, F!TypeOK
  <2> QED
    BY <1>3, <2>1, <2>2 DEF FolderWorld, AskedType
<1>7. ASSUME FolderWorld, UNCHANGED <<deviceVars, asked, fCr>>
      PROVE  OperatorInv'
  BY <1>3, <1>7 DEF AskedType, ChangesAsked
<1>8. ASSUME NEW k \in Folders, FolderTimer(k)
      PROVE  OperatorInv'
  BY <1>7, <1>8 DEF FolderTimer, FolderSide, FolderWorld, F!TimerExpires, F!worldVars
<1>9. ASSUME NEW k \in Devices, ChangeDevice(k)
      PROVE  OperatorInv'
  BY <1>4, <1>9 DEF ChangeDevice, DeviceSide, DeviceWorld
<1>10. ASSUME NEW k \in Devices, DeviceTimer(k)
       PROVE  OperatorInv'
  BY <1>4, <1>10 DEF DeviceTimer, DeviceSide, DeviceWorld
<1>11. CASE PeriodicResync
  <2>1. CASE FolderSide(F!PeriodicResync) /\ UNCHANGED asked
    BY <1>7, <2>1 DEF FolderSide, FolderWorld, F!PeriodicResync, F!worldVars
  <2>2. CASE DeviceSide(D!PeriodicResync)
    BY <1>4, <2>2 DEF DeviceSide, DeviceWorld
  <2> QED
    BY <1>11, <2>1, <2>2 DEF PeriodicResync
<1>12. CASE ProcessDies \/ ProcessStarts
  <2>1. /\ DeviceWorld /\ FolderWorld
        /\ UNCHANGED <<fCr, asked, dDeclared>>
    BY <1>12
    DEF ProcessDies, ProcessStarts, DeviceWorld, FolderWorld, D!ProcessDies,
        D!ProcessStarts, F!ProcessDies, F!ProcessStarts, F!worldVars, D!worldVars
  <2>2. DeviceTypes' /\ Declared' /\ FolderTypes'
    BY <2>1, DeviceWorldTypes, DeviceWorldDeclared, FolderWorldTypes
  <2>3. SharesAsked'
    BY <2>1, FolderWorldShares DEF ChangesAsked
  <2> QED
    BY <2>1, <2>2, <2>3 DEF AskedType
<1>13. CASE UNCHANGED vars
  <2>1. UNCHANGED DeviceNamesOn
    BY <1>13 DEF vars, deviceVars, DeviceNamesOn
  <2>2. FolderTypes'
    BY <1>13, <2>1 DEF vars, folderVars, FolderTypes, FolderConsistent, F!TypeOK,
       F!ControllerTypeOK, F!Endpoint
  <2>3. SharesAsked'
    BY <1>13, SharesStay DEF vars, folderVars, deviceVars, ChangesAsked
  <2> QED
    BY <1>13, <2>2, <2>3, DeviceSideIdle DEF vars, AskedType
<1> QED
  BY <1>1, <1>2, <1>5, <1>6, <1>8, <1>9, <1>10, <1>11, <1>12, <1>13 DEF Next

\* Whatever the two controllers, their users and failures do, every variable keeps
\* its type.
THEOREM TypeCorrect == Spec => []TypeOK
<1>1. OperatorInv => TypeOK
  BY DEF OperatorInv, TypeOK, DeviceTypes, FolderTypes, AskedType
<1> QED
  BY <1>1, OperatorInit, OperatorStep, PTL DEF Spec

\* A folder is shared only with devices its resource has listed by id, or by a name
\* under which a Device resource has declared them: for any number of resources,
\* servers and devices, in whatever order names are given, taken away and given to
\* other devices while Reconcile of a folder works from an older configuration, and
\* with calls failing and the process dying wherever they do.
THEOREM SharedOnlyAsAsked == Spec => []SharedAsAsked
<1>1. OperatorInv => SharedAsAsked
  BY DEF OperatorInv, SharesAsked
<1> QED
  BY <1>1, OperatorInit, OperatorStep, PTL DEF Spec

=============================================================================
