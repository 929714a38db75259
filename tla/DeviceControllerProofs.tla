----------------------- MODULE DeviceControllerProofs -----------------------
(***************************************************************************)
(* Proofs about DeviceController, for any resources, servers, devices and  *)
(* specs and any budget of disturbances: type correctness, that no return  *)
(* path of Reconcile forgets a live resource, that a PUT keeps what was    *)
(* set by hand, whose claim a device with the name of a resource goes back *)
(* to, and that the device of a deleted resource is still going to be      *)
(* looked at while nothing is edited and nothing dies.                     *)
(***************************************************************************)
EXTENDS DeviceController, TLAPS

-----------------------------------------------------------------------------
(* What the helpers return.                                                *)

\* The specs of a resource are specs.
LEMMA SpecsAreSpecs ==
  /\ Specs \subseteq DeviceSpec
  /\ \A k \in Resources : DeviceSpecs[k] \subseteq Specs
BY DeviceSpecsAreSpecs DEF Specs

\* A spec or the namespace names a server, or there is none.
LEMMA EndpointType ==
  \A s \in Specs \cup {None} : Endpoint(s) # None => Endpoint(s) \in Servers
BY SpecsAreSpecs, DefaultServerIsServer DEF Endpoint, DeviceSpec

\* A device that is generated for a resource is a device.
LEMMA GeneratedDeviceType ==
  \A k \in Resources : GeneratedDevice(k) \in DeviceElement
BY DEF GeneratedDevice, DeviceElement, Names

\* Setting what a spec determines makes a device of a device, and leaves alone what
\* a spec cannot express.
LEMMA ConfiguredType ==
  \A element \in DeviceElement, k \in Resources, s \in Specs :
    /\ Configured(element, k, s) \in DeviceElement
    /\ Configured(element, k, s).manual = element.manual
BY SpecsAreSpecs DEF Configured, DeviceElement, DeviceSpec, Names

\* Replacing or removing a device keeps the devices devices.
LEMMA PutDeviceType ==
  ASSUME devices \in [Servers -> [DeviceIds -> DeviceElement \cup {None}]],
         NEW s \in Servers, NEW d \in DeviceIds,
         NEW element \in DeviceElement \cup {None},
         \/ devices' = [devices EXCEPT ![s][d] = element]
         \/ UNCHANGED devices
  PROVE  devices' \in [Servers -> [DeviceIds -> DeviceElement \cup {None}]]
OBVIOUS

\* A disturbance leaves a budget of a natural number each.
LEMMA SpendType ==
  ASSUME left \in [Disturbances -> Nat], NEW kind \in Disturbances, Spend(kind)
  PROVE  left' \in [Disturbances -> Nat]
BY DEF Spend

-----------------------------------------------------------------------------
(* Type correctness.                                                       *)

\* What the place Reconcile has reached says about its variables, and what a
\* process that is down has lost.
Consistent ==
  /\ current = None <=> pc = "idle"
  /\ pc = "delete" =>
       spec = None /\ Endpoint(spec) \in Servers /\ target \in DeviceIds
  /\ pc = "replace" =>
       /\ spec \in Specs /\ Endpoint(spec) \in Servers
       /\ target \in DeviceIds /\ device \in DeviceElement
  /\ ~up => queue = {} /\ delayed = {} /\ current = None

TypeInv == TypeOK /\ Consistent

\* Reconcile keeps the types, from whatever place it has reached.
LEMMA ReconcileTypeInv == TypeInv /\ Reconcile => TypeInv'
<1> SUFFICES ASSUME TypeInv, Reconcile PROVE TypeInv'
  OBVIOUS
<1> USE DEF TypeInv, TypeOK, ControllerTypeOK, Consistent, worldVars, localVars,
            controllerVars
<1>1. CASE \E k \in Resources : Begin(k)
  BY <1>1, NoneIsNoValue DEF Begin, Take
<1>2. CASE Unreachable
  <2>1. left' \in [Disturbances -> Nat]
    BY <1>2, SpendType DEF Unreachable, Disturbances
  <2> QED
    BY <1>2, <2>1 DEF Unreachable, Requeue, Return
<1>3. CASE FetchForDeletion
  <2>1. target' \in DeviceIds
    BY <1>3 DEF FetchForDeletion, DevicesNamed
  <2>2. Endpoint(spec) \in Servers
    BY <1>3, EndpointType DEF FetchForDeletion
  <2>3. /\ pc' = "delete" /\ undisturbed' = TRUE
        /\ UNCHANGED <<controllerVars, worldVars, spec, device>>
    BY <1>3 DEF FetchForDeletion
  <2>4. Endpoint(spec)' = Endpoint(spec)
    BY <2>3 DEF Endpoint
  <2>5. current # None /\ spec = None
    BY <1>3 DEF FetchForDeletion
  <2> QED
    BY <2>1, <2>2, <2>3, <2>4, <2>5
<1>4. CASE AlreadyGone
  BY <1>4 DEF AlreadyGone, Forget, Return
<1>5. CASE DeleteDevice
  <2>1. left' \in [Disturbances -> Nat]
    BY <1>5, SpendType DEF DeleteDevice, Disturbances
  <2>2. devices' \in [Servers -> [DeviceIds -> DeviceElement \cup {None}]]
    BY <1>5, PutDeviceType DEF DeleteDevice, RemoveDevice
  <2> QED
    BY <1>5, <2>1, <2>2 DEF DeleteDevice, Forget, Requeue, Return
<1>6. CASE FetchForUpdate
  <2>1. spec \in Specs /\ Endpoint(spec) \in Servers /\ current \in Resources
    BY <1>6, EndpointType DEF FetchForUpdate
  <2>2. spec.id \in DeviceIds
    BY <2>1, SpecsAreSpecs DEF DeviceSpec
  <2>3. FoundDevice \in DeviceElement
    BY <2>1, <2>2, GeneratedDeviceType DEF FoundDevice
  <2>4. device' \in DeviceElement
    BY <1>6, <2>1, <2>3, ConfiguredType DEF FetchForUpdate
  <2>5. /\ pc' = "replace" /\ target' = spec.id /\ undisturbed' = TRUE
        /\ UNCHANGED <<controllerVars, worldVars, spec>>
    BY <1>6 DEF FetchForUpdate
  <2>6. Endpoint(spec)' = Endpoint(spec)
    BY <2>5 DEF Endpoint
  <2> QED
    BY <2>1, <2>2, <2>4, <2>5, <2>6, NoneIsNoValue
<1>7. CASE NotChanged
  BY <1>7 DEF NotChanged, Requeue, Return
<1>8. CASE FetchMisread
  <2>1. left' \in [Disturbances -> Nat]
    BY <1>8, SpendType DEF FetchMisread, Disturbances
  <2>2. CASE spec # None
    <3>1. spec \in Specs /\ Endpoint(spec) \in Servers /\ current \in Resources
      BY <1>8, <2>2, EndpointType DEF FetchMisread
    <3>2. spec.id \in DeviceIds
      BY <3>1, SpecsAreSpecs DEF DeviceSpec
    <3>3. device' \in DeviceElement
      BY <1>8, <2>2, <3>1, GeneratedDeviceType, ConfiguredType DEF FetchMisread
    <3>4. /\ pc' = "replace" /\ target' = spec.id /\ undisturbed' = FALSE
          /\ UNCHANGED <<up, queue, delayed, current, worldVars, spec>>
      BY <1>8, <2>2 DEF FetchMisread
    <3>5. Endpoint(spec)' = Endpoint(spec)
      BY <3>4 DEF Endpoint
    <3> QED
      BY <2>1, <3>1, <3>2, <3>3, <3>4, <3>5, NoneIsNoValue
  <2>3. CASE spec = None
    BY <1>8, <2>1, <2>3 DEF FetchMisread, Forget, Return
  <2> QED
    BY <2>2, <2>3
<1>9. CASE ReplaceDevice
  <2>1. left' \in [Disturbances -> Nat]
    BY <1>9, SpendType DEF ReplaceDevice, Disturbances
  <2>2. devices' \in [Servers -> [DeviceIds -> DeviceElement \cup {None}]]
    BY <1>9, PutDeviceType DEF ReplaceDevice, PutDevice
  <2> QED
    BY <1>9, <2>1, <2>2 DEF ReplaceDevice, Requeue, Return
<1> QED
  BY <1>1, <1>2, <1>3, <1>4, <1>5, <1>6, <1>7, <1>8, <1>9 DEF Reconcile

\* So do the surroundings.
LEMMA EnvironmentTypeInv == TypeInv /\ Environment => TypeInv'
<1> SUFFICES ASSUME TypeInv, Environment PROVE TypeInv'
  OBVIOUS
<1> USE DEF TypeInv, TypeOK, ControllerTypeOK, Consistent, worldVars, localVars,
            controllerVars
<1>1. ASSUME NEW k \in Resources, NEW new \in DeviceSpecs[k], Declare(k, new)
      PROVE  TypeInv'
  <2>1. left' \in [Disturbances -> Nat]
    BY <1>1, SpendType DEF Declare, Disturbances
  <2>2. new \in Specs /\ new.id \in DeviceIds
    BY SpecsAreSpecs DEF DeviceSpec
  <2>3. declared' \in SUBSET (Servers \X DeviceIds \X Resources)
    BY <1>1, <2>2, EndpointType DEF Declare
  <2>4. cr' \in [Resources -> Specs \cup {None}]
    BY <1>1, <2>2 DEF Declare
  <2> QED
    BY <1>1, <2>1, <2>3, <2>4 DEF Declare, Notify, Endpoint
<1>2. ASSUME NEW k \in Resources, Undeclare(k)
      PROVE  TypeInv'
  <2>1. left' \in [Disturbances -> Nat]
    BY <1>2, SpendType DEF Undeclare, Disturbances
  <2> QED
    BY <1>2, <2>1 DEF Undeclare, Notify, Endpoint
<1>3. ASSUME NEW k \in Resources, TimerExpires(k)
      PROVE  TypeInv'
  BY <1>3 DEF TimerExpires, TimerFires, Endpoint
<1>4. ASSUME NEW s \in Servers, NEW d \in DeviceIds,
             NEW new \in DeviceElement \cup {None}, WebUiDevice(s, d, new)
      PROVE  TypeInv'
  <2>1. left' \in [Disturbances -> Nat]
    BY <1>4, SpendType DEF WebUiDevice, Disturbances
  <2>2. devices' \in [Servers -> [DeviceIds -> DeviceElement \cup {None}]]
    BY <1>4, PutDeviceType DEF WebUiDevice
  <2>3. undisturbed' \in BOOLEAN
    BY <1>4 DEF WebUiDevice
  <2> QED
    BY <1>4, <2>1, <2>2, <2>3 DEF WebUiDevice, Endpoint
<1>5. CASE PeriodicResync
  BY <1>5 DEF PeriodicResync, Resync, Existing, Endpoint
<1>6. CASE ProcessDies
  <2>1. left' \in [Disturbances -> Nat]
    BY <1>6, SpendType DEF ProcessDies, Crash, Disturbances
  <2> QED
    BY <1>6, <2>1 DEF ProcessDies, Crash, Die, Return
<1>7. CASE ProcessStarts
  BY <1>7 DEF ProcessStarts, Restart, Existing, Endpoint
<1> QED
  BY <1>1, <1>2, <1>3, <1>4, <1>5, <1>6, <1>7 DEF Environment

\* In every reachable state the variables have their types, and no path of the code
\* reaches a PUT or a DELETE without a server and the id of a device.
THEOREM TypeCorrect == Spec => []TypeInv
<1>1. Init => TypeInv
  BY BudgetIsBound DEF Init, ControllerInit, TypeInv, TypeOK, ControllerTypeOK,
     Consistent
<1>2. TypeInv /\ [Next]_vars => TypeInv'
  <2>1. TypeInv /\ UNCHANGED vars => TypeInv'
    BY DEF TypeInv, TypeOK, ControllerTypeOK, Consistent, vars, worldVars, localVars,
       controllerVars, Endpoint
  <2> QED
    BY <2>1, ReconcileTypeInv, EnvironmentTypeInv DEF Next
<1> QED
  BY <1>1, <1>2, PTL DEF Spec

\* The types of the variables (the invariant TypeOK of the runs).
THEOREM TypeOKAlways == Spec => []TypeOK
BY TypeCorrect, PTL DEF TypeInv

-----------------------------------------------------------------------------
(* No device is forgotten: as for folders, dropping a resource that was not    *)
(* found is safe because an outdated read has a successor in the queue.        *)

Attended == StaleReadCovered /\ NoForgottenDevice

\* Every return path of Reconcile schedules a further look at a live resource.
LEMMA ReconcileAttended == TypeInv /\ Attended /\ Reconcile => Attended'
<1> SUFFICES ASSUME TypeInv, Attended, Reconcile PROVE Attended'
  OBVIOUS
<1> USE DEF TypeInv, TypeOK, ControllerTypeOK, Consistent, Attended, worldVars,
            controllerVars, StaleReadCovered, NoForgottenDevice, Pending
<1>1. CASE \E k \in Resources : Begin(k)
  <2>1. PICK k \in Resources : Begin(k)
    BY <1>1
  <2>2. StaleReadCovered'
    BY <2>1 DEF Begin, Take
  <2>3. ASSUME NEW j \in Resources, up', cr'[j] # None
        PROVE  Pending(j)'
    <3>1. Pending(j)
      BY <2>1, <2>3 DEF Begin, Take
    <3> QED
      BY <2>1, <3>1, NoneIsNoValue DEF Begin, Take
  <2> QED
    BY <2>2, <2>3
<1>2. CASE Unreachable
  BY <1>2, NoneIsNoValue DEF Unreachable, Requeue, Return
<1>3. CASE FetchForDeletion
  BY <1>3 DEF FetchForDeletion
<1>4. CASE AlreadyGone
  <2>1. cr[current] = None \/ current \in queue
    BY <1>4 DEF AlreadyGone
  <2> QED
    BY <1>4, <2>1 DEF AlreadyGone, Forget, Return
<1>5. CASE DeleteDevice
  <2>1. cr[current] = None \/ current \in queue
    BY <1>5 DEF DeleteDevice
  <2> QED
    BY <1>5, <2>1 DEF DeleteDevice, Forget, Requeue, Return
<1>6. CASE FetchForUpdate
  BY <1>6 DEF FetchForUpdate
<1>7. CASE NotChanged
  BY <1>7 DEF NotChanged, Requeue, Return
<1>8. CASE FetchMisread
  <2>1. CASE spec # None
    BY <1>8, <2>1 DEF FetchMisread
  <2>2. CASE spec = None
    <3>1. cr[current] = None \/ current \in queue
      BY <1>8, <2>2 DEF FetchMisread
    <3> QED
      BY <1>8, <2>2, <3>1 DEF FetchMisread, Forget, Return
  <2> QED
    BY <2>1, <2>2
<1>9. CASE ReplaceDevice
  BY <1>9 DEF ReplaceDevice, Requeue, Return
<1> QED
  BY <1>1, <1>2, <1>3, <1>4, <1>5, <1>6, <1>7, <1>8, <1>9 DEF Reconcile

\* The surroundings change a resource only with an event that is queued behind the
\* reconcile in hand, and a restart looks at every resource there is.
LEMMA EnvironmentAttended == TypeInv /\ Attended /\ Environment => Attended'
<1> SUFFICES ASSUME TypeInv, Attended, Environment PROVE Attended'
  OBVIOUS
<1> USE DEF TypeInv, TypeOK, ControllerTypeOK, Consistent, Attended, worldVars,
            localVars, controllerVars, StaleReadCovered, NoForgottenDevice, Pending
<1>1. ASSUME NEW k \in Resources, NEW new \in DeviceSpecs[k], Declare(k, new)
      PROVE  Attended'
  BY <1>1 DEF Declare, Notify
<1>2. ASSUME NEW k \in Resources, Undeclare(k)
      PROVE  Attended'
  BY <1>2 DEF Undeclare, Notify
<1>3. ASSUME NEW k \in Resources, TimerExpires(k)
      PROVE  Attended'
  BY <1>3 DEF TimerExpires, TimerFires
<1>4. ASSUME NEW s \in Servers, NEW d \in DeviceIds,
             NEW new \in DeviceElement \cup {None}, WebUiDevice(s, d, new)
      PROVE  Attended'
  BY <1>4 DEF WebUiDevice
<1>5. CASE PeriodicResync
  BY <1>5 DEF PeriodicResync, Resync
<1>6. CASE ProcessDies
  BY <1>6 DEF ProcessDies, Crash, Die, Return
<1>7. CASE ProcessStarts
  BY <1>7 DEF ProcessStarts, Restart, Existing
<1> QED
  BY <1>1, <1>2, <1>3, <1>4, <1>5, <1>6, <1>7 DEF Environment

\* A reconcile that works from an outdated resource is followed by another, and
\* while the process runs every existing resource is being reconciled or will be.
THEOREM NeverForgotten == Spec => [](StaleReadCovered /\ NoForgottenDevice)
<1>1. Init => Attended
  BY DEF Init, ControllerInit, Attended, StaleReadCovered, NoForgottenDevice
<1>2. TypeInv /\ Attended /\ [Next]_vars => Attended'
  <2>1. TypeInv /\ Attended /\ UNCHANGED vars => Attended'
    BY DEF Attended, StaleReadCovered, NoForgottenDevice, Pending, vars, worldVars,
       localVars, controllerVars
  <2> QED
    BY <2>1, ReconcileAttended, EnvironmentAttended DEF Next
<1> QED
  BY <1>1, <1>2, TypeCorrect, PTL DEF Spec, Attended

\* A reconcile of a device that works from an outdated resource - the resource changed
\* after r.Get - has a successor in the queue, also after restarts.
THEOREM StaleReadsCovered == Spec => []StaleReadCovered
BY NeverForgotten, PTL

-----------------------------------------------------------------------------
(* Manual settings survive: as long as nobody writes to the server after       *)
(* GetConfig, the device about to be sent has what was set by hand.            *)

Faithful ==
  pc = "replace" /\ undisturbed /\ devices[Endpoint(spec)][target] # None
    => device.manual = devices[Endpoint(spec)][target].manual

\* Reconcile computes the device from the one it has fetched.
LEMMA ReconcileFaithful == TypeInv /\ Faithful /\ Reconcile => Faithful'
<1> SUFFICES ASSUME TypeInv, Faithful, Reconcile, pc' = "replace" PROVE Faithful'
  BY DEF Faithful
<1>1. CASE FetchForUpdate
  <2>1. spec \in Specs /\ Endpoint(spec) \in Servers /\ current \in Resources
    BY <1>1, EndpointType
    DEF FetchForUpdate, TypeInv, TypeOK, ControllerTypeOK, Consistent
  <2>2. spec.id \in DeviceIds
    BY <2>1, SpecsAreSpecs DEF DeviceSpec
  <2> DEFINE stored == devices[Endpoint(spec)][spec.id]
  <2>3. stored # None => FoundDevice = stored /\ stored \in DeviceElement
    BY <2>1, <2>2 DEF FoundDevice, TypeInv, TypeOK
  <2>4. stored # None => Configured(FoundDevice, current, spec).manual = stored.manual
    BY <2>1, <2>3, ConfiguredType
  <2>5. /\ device' = Configured(FoundDevice, current, spec)
        /\ target' = spec.id
        /\ UNCHANGED <<devices, spec>>
    BY <1>1 DEF FetchForUpdate, worldVars
  <2>6. Endpoint(spec)' = Endpoint(spec)
    BY <2>5 DEF Endpoint
  <2> QED
    BY <2>4, <2>5, <2>6 DEF Faithful
<1>2. CASE FetchMisread
  BY <1>2 DEF FetchMisread, Return, Faithful
<1> QED
  BY <1>1, <1>2
  DEF Reconcile, Begin, Unreachable, FetchForDeletion, AlreadyGone, DeleteDevice,
      NotChanged, ReplaceDevice, Return

\* Whoever writes to the server disturbs what was fetched from it.
LEMMA EnvironmentFaithful == TypeInv /\ Faithful /\ Environment => Faithful'
<1> SUFFICES ASSUME TypeInv, Faithful, Environment PROVE Faithful'
  OBVIOUS
<1> USE DEF worldVars, localVars, controllerVars
<1>1. ASSUME NEW s \in Servers, NEW d \in DeviceIds,
             NEW new \in DeviceElement \cup {None}, WebUiDevice(s, d, new)
      PROVE  Faithful'
  <2> SUFFICES ASSUME pc' = "replace", undisturbed' PROVE Faithful'
    BY DEF Faithful
  <2>1. pc = "replace" /\ undisturbed /\ Endpoint(spec) # s
    BY <1>1 DEF WebUiDevice, TypeInv, TypeOK
  <2>2. Endpoint(spec)' = Endpoint(spec)
    BY <1>1 DEF WebUiDevice, Endpoint
  <2>3. devices'[Endpoint(spec)] = devices[Endpoint(spec)]
    BY <1>1, <2>1 DEF WebUiDevice, TypeInv, TypeOK, Consistent
  <2>4. UNCHANGED <<target, device>>
    BY <1>1 DEF WebUiDevice
  <2> QED
    BY <2>1, <2>2, <2>3, <2>4 DEF Faithful
<1>2. CASE ProcessDies
  BY <1>2 DEF ProcessDies, Return, Faithful
<1>3. ASSUME UNCHANGED <<devices, localVars>>
      PROVE  Faithful'
  BY <1>3 DEF Faithful, Endpoint
<1> QED
  BY <1>1, <1>2, <1>3
  DEF Environment, Declare, Undeclare, TimerExpires, PeriodicResync, ProcessStarts

\* A PUT, which replaces the whole device, keeps what a resource cannot express,
\* unless somebody writes to the server after GetConfig.
THEOREM ManualSettings == Spec => ManualSettingsKept
<1> DEFINE Kept(s, d) ==
      devices[s][d] # None =>
        /\ devices'[s][d] # None
        /\ devices'[s][d].manual = devices[s][d].manual
<1>1. Init => Faithful
  BY DEF Init, Faithful
<1>2. TypeInv /\ Faithful /\ [Next]_vars => Faithful'
  <2>1. Faithful /\ UNCHANGED vars => Faithful'
    BY DEF Faithful, vars, worldVars, localVars, Endpoint
  <2> QED
    BY <2>1, ReconcileFaithful, EnvironmentFaithful DEF Next
<1>3. TypeInv /\ Faithful /\ pc = "replace" /\ Reconcile /\ undisturbed =>
        \A s \in Servers, d \in DeviceIds : Kept(s, d)
  <2> SUFFICES ASSUME TypeInv, Faithful, pc = "replace", Reconcile, undisturbed,
                      NEW s \in Servers, NEW d \in DeviceIds
               PROVE  Kept(s, d)
    OBVIOUS
  <2>1. ReplaceDevice
    <3>1. current # None
      BY DEF TypeInv, Consistent
    <3> QED
      BY <3>1 DEF Reconcile, Begin, Take, Unreachable, FetchForDeletion, AlreadyGone,
         DeleteDevice, FetchForUpdate, NotChanged, FetchMisread
  <2>2. UNCHANGED devices \/ PutDevice(Endpoint(spec), target, device)
    BY <2>1 DEF ReplaceDevice
  <2>3. device # None
    BY NoneIsNoDeviceData DEF TypeInv, Consistent
  <2> QED
    BY <2>2, <2>3 DEF PutDevice, Faithful, TypeInv, TypeOK, Consistent
<1>4. TypeInv /\ Faithful /\ [Next]_vars =>
        [(pc = "replace" /\ Reconcile /\ undisturbed)
           => \A s \in Servers, d \in DeviceIds : Kept(s, d)]_vars
  BY <1>3
<1> QED
  BY <1>1, <1>2, <1>4, TypeCorrect, PTL DEF Spec, ManualSettingsKept

-----------------------------------------------------------------------------
(* Who bears the name of a resource was claimed by it.                         *)

\* The WebUI and the custom resources do not compete for names.
NamesApart == WebUiNames \cap Resources = {}

SpecsClaimed ==
  \A k \in Resources :
    cr[k] # None /\ Endpoint(cr[k]) # None
      => <<Endpoint(cr[k]), cr[k].id, k>> \in declared

NamesClaimed ==
  \A s \in Servers, d \in DeviceIds :
    devices[s][d] # None /\ devices[s][d].name \in Resources
      => <<s, d, devices[s][d].name>> \in declared

\* What Reconcile has read, is about to send a request about, and is about to send.
HandClaimed ==
  /\ spec # None /\ Endpoint(spec) # None
       => <<Endpoint(spec), spec.id, current>> \in declared
  /\ pc \in {"delete", "replace"} => <<Endpoint(spec), target, current>> \in declared
  /\ pc = "replace" => device.name = current

Claimed == SpecsClaimed /\ NamesClaimed /\ HandClaimed

\* Reconcile names devices after their resource only.
LEMMA ReconcileClaimed == TypeInv /\ Claimed /\ Reconcile => Claimed'
<1> SUFFICES ASSUME TypeInv, Claimed, Reconcile PROVE Claimed'
  OBVIOUS
<1> USE DEF worldVars, controllerVars
<1>1. SpecsClaimed'
  <2>1. UNCHANGED <<cr, declared>>
    BY DEF Reconcile, Begin, Unreachable, FetchForDeletion, AlreadyGone, DeleteDevice,
       FetchForUpdate, NotChanged, FetchMisread, ReplaceDevice
  <2> QED
    BY <2>1 DEF SpecsClaimed, Claimed, Endpoint
<1>2. NamesClaimed'
  <2>1. CASE UNCHANGED <<devices, declared>>
    BY <2>1 DEF NamesClaimed, Claimed
  <2>2. CASE DeleteDevice
    <3>1. Endpoint(spec) \in Servers /\ target \in DeviceIds
      BY <2>2 DEF DeleteDevice, TypeInv, Consistent
    <3>2. UNCHANGED devices \/ RemoveDevice(Endpoint(spec), target)
      BY <2>2 DEF DeleteDevice
    <3>3. UNCHANGED declared
      BY <2>2 DEF DeleteDevice
    <3> QED
      BY <3>1, <3>2, <3>3 DEF RemoveDevice, NamesClaimed, Claimed, TypeInv, TypeOK
  <2>3. CASE ReplaceDevice
    <3>1. /\ <<Endpoint(spec), target, current>> \in declared
          /\ device.name = current
          /\ Endpoint(spec) \in Servers /\ target \in DeviceIds
      BY <2>3 DEF ReplaceDevice, Claimed, HandClaimed, TypeInv, Consistent
    <3>2. UNCHANGED declared
      BY <2>3 DEF ReplaceDevice
    <3>3. UNCHANGED devices \/ PutDevice(Endpoint(spec), target, device)
      BY <2>3 DEF ReplaceDevice
    <3> QED
      BY <3>1, <3>2, <3>3 DEF PutDevice, NamesClaimed, Claimed, TypeInv, TypeOK
  <2> QED
    BY <2>1, <2>2, <2>3
    DEF Reconcile, Begin, Unreachable, FetchForDeletion, AlreadyGone, FetchForUpdate,
        NotChanged, FetchMisread
<1>3. HandClaimed'
  <2>1. ASSUME NEW k \in Resources, Begin(k)
        PROVE  HandClaimed'
    BY <2>1 DEF Begin, Take, HandClaimed, Claimed, SpecsClaimed, Endpoint
  <2>2. CASE Return
    BY <2>2 DEF Return, HandClaimed
  <2>3. CASE FetchForDeletion
    <3>1. /\ target' \in DevicesNamed(Endpoint(spec), current)
          /\ UNCHANGED <<spec, current, devices, declared>>
          /\ spec = None /\ pc' = "delete"
      BY <2>3 DEF FetchForDeletion
    <3>2. Endpoint(spec) \in Servers /\ current \in Resources
      BY <2>3, EndpointType
      DEF FetchForDeletion, TypeInv, TypeOK, ControllerTypeOK, Consistent
    <3>3. <<Endpoint(spec), target', current>> \in declared
      BY <3>1, <3>2 DEF DevicesNamed, Claimed, NamesClaimed
    <3> QED
      BY <3>1, <3>3 DEF HandClaimed, Endpoint
  <2>4. CASE FetchForUpdate
    <3>1. /\ UNCHANGED <<spec, current, declared>>
          /\ target' = spec.id /\ pc' = "replace"
          /\ device' = Configured(FoundDevice, current, spec)
          /\ spec # None /\ Endpoint(spec) # None
      BY <2>4 DEF FetchForUpdate
    <3>2. FoundDevice \in DeviceElement
      <4>1. spec.id \in DeviceIds /\ Endpoint(spec) \in Servers /\ current \in Resources
        BY <2>4, <3>1, EndpointType, SpecsAreSpecs
        DEF FetchForUpdate, DeviceSpec, TypeInv, TypeOK, ControllerTypeOK, Consistent
      <4> QED
        BY <4>1, GeneratedDeviceType DEF FoundDevice, TypeInv, TypeOK
    <3>3. device'.name = current
      BY <3>1, <3>2 DEF Configured, DeviceElement
    <3> QED
      BY <3>1, <3>3 DEF HandClaimed, Claimed, Endpoint
  <2>5. CASE FetchMisread /\ ~Return
    <3>1. /\ UNCHANGED <<spec, current, declared>>
          /\ target' = spec.id /\ pc' = "replace"
          /\ device' = Configured(GeneratedDevice(current), current, spec)
          /\ spec # None /\ Endpoint(spec) # None
      BY <2>5 DEF FetchMisread
    <3>2. device'.name = current
      BY <3>1 DEF Configured, GeneratedDevice
    <3> QED
      BY <3>1, <3>2 DEF HandClaimed, Claimed, Endpoint
  <2> QED
    BY <2>1, <2>2, <2>3, <2>4, <2>5
    DEF Reconcile, Unreachable, AlreadyGone, DeleteDevice, NotChanged, ReplaceDevice
<1> QED
  BY <1>1, <1>2, <1>3 DEF Claimed

\* Users claim what they declare, and the WebUI, if it is used at all, gives no device
\* the name of a resource.
LEMMA EnvironmentClaimed ==
  ASSUME NamesApart \/ ~Spend("edit"), TypeInv, Claimed, Environment
  PROVE  Claimed'
<1> USE DEF worldVars, localVars, controllerVars, Claimed
<1>1. ASSUME NEW k \in Resources, NEW new \in DeviceSpecs[k], Declare(k, new)
      PROVE  Claimed'
  <2>1. /\ declared \subseteq declared'
        /\ Endpoint(new) # None => <<Endpoint(new), new.id, k>> \in declared'
        /\ cr' = [cr EXCEPT ![k] = new]
        /\ UNCHANGED <<devices, localVars, current>>
    BY <1>1 DEF Declare, Notify
  <2>2. SpecsClaimed'
    BY <2>1 DEF SpecsClaimed, Endpoint, TypeInv, TypeOK
  <2>3. NamesClaimed'
    BY <2>1 DEF NamesClaimed
  <2>4. HandClaimed'
    BY <2>1 DEF HandClaimed, Endpoint
  <2> QED
    BY <2>2, <2>3, <2>4
<1>2. ASSUME NEW k \in Resources, Undeclare(k)
      PROVE  Claimed'
  <2>1. SpecsClaimed'
    BY <1>2 DEF Undeclare, SpecsClaimed, Endpoint, TypeInv, TypeOK
  <2>2. NamesClaimed' /\ HandClaimed'
    BY <1>2 DEF Undeclare, Notify, NamesClaimed, HandClaimed, Endpoint
  <2> QED
    BY <2>1, <2>2
<1>3. ASSUME NEW s \in Servers, NEW d \in DeviceIds,
             NEW new \in DeviceElement \cup {None}, WebUiDevice(s, d, new)
      PROVE  Claimed'
  <2>0. NamesApart
    BY <1>3 DEF WebUiDevice
  <2>1. UNCHANGED <<cr, declared, current, pc, spec, target, device>>
    BY <1>3 DEF WebUiDevice
  <2>2. SpecsClaimed' /\ HandClaimed'
    BY <2>1 DEF SpecsClaimed, HandClaimed, Endpoint
  <2>3. /\ devices' = [devices EXCEPT ![s][d] = new]
        /\ new # None => new.name \in WebUiNames
                           \/ (devices[s][d] # None /\ new.name = devices[s][d].name)
    BY <1>3 DEF WebUiDevice
  <2>4. NamesClaimed'
    BY <2>0, <2>1, <2>3 DEF NamesClaimed, NamesApart, TypeInv, TypeOK
  <2> QED
    BY <2>2, <2>4
<1>4. CASE ProcessDies
  BY <1>4
  DEF ProcessDies, Return, SpecsClaimed, NamesClaimed, HandClaimed, Endpoint
<1>5. ASSUME UNCHANGED <<worldVars, localVars, current>>
      PROVE  Claimed'
  BY <1>5 DEF SpecsClaimed, NamesClaimed, HandClaimed, Endpoint
<1>6. CASE ProcessStarts
  BY <1>5, <1>6 DEF ProcessStarts, Restart
<1>7. CASE PeriodicResync
  BY <1>5, <1>7 DEF PeriodicResync, Resync
<1>8. ASSUME NEW k \in Resources, TimerExpires(k)
      PROVE  Claimed'
  BY <1>5, <1>8 DEF TimerExpires, TimerFires
<1> QED
  BY <1>1, <1>2, <1>3, <1>4, <1>6, <1>7, <1>8 DEF Environment

-----------------------------------------------------------------------------
(* Orphans.  As long as nobody edits, nothing dies and every answer is read,   *)
(* a device that bears the name of a deleted resource is not lost sight of.    *)
(* A resource that has had one id only bears no more than one device, so that  *)
(* ReconcileDeletion, which gives up after one DELETE, has deleted the device. *)

Within == \A kind \in Disturbances : left[kind] <= Budget[kind]

\* A step spends at most one disturbance.
LEMMA StepSpends ==
  ASSUME [Next]_vars
  PROVE  UNCHANGED left \/ \E kind \in Disturbances : Spend(kind)
<1> USE DEF controllerVars, worldVars, Disturbances
<1>1. ASSUME Reconcile
      PROVE  UNCHANGED left \/ \E kind \in Disturbances : Spend(kind)
  BY <1>1 DEF Reconcile, Begin, Unreachable, FetchForDeletion, AlreadyGone,
     DeleteDevice, FetchForUpdate, NotChanged, FetchMisread, ReplaceDevice
<1>2. ASSUME Environment
      PROVE  UNCHANGED left \/ \E kind \in Disturbances : Spend(kind)
  BY <1>2 DEF Environment, Declare, Undeclare, TimerExpires, TimerFires, WebUiDevice,
     PeriodicResync, Resync, ProcessDies, Crash, ProcessStarts, Restart
<1> QED
  BY <1>1, <1>2 DEF Next, vars

\* What was spent stays spent.
LEMMA CalmBefore ==
  ASSUME TypeInv, Within, [Next]_vars
  PROVE  /\ Within'
         /\ Calm' => /\ Calm
                     /\ ~Spend("edit") /\ ~Spend("crash") /\ ~Spend("misread")
<1> USE BudgetIsBound DEF TypeInv, TypeOK, ControllerTypeOK, Within
<1>1. CASE UNCHANGED left
  BY <1>1 DEF Calm, Spend, Disturbances
<1>2. ASSUME NEW kind \in Disturbances, Spend(kind)
      PROVE  /\ Within'
             /\ Calm' => /\ Calm
                         /\ ~Spend("edit") /\ ~Spend("crash") /\ ~Spend("misread")
  <2>1. \A other \in Disturbances :
          left'[other] = IF other = kind THEN left[other] - 1 ELSE left[other]
    BY <1>2 DEF Spend
  <2>2. Within'
    BY <2>1
  <2>3. Calm' => kind \notin {"edit", "crash", "misread"}
    BY <2>1 DEF Calm
  <2>4. ASSUME NEW other \in Disturbances, other # kind
        PROVE  ~Spend(other)
    BY <2>1, <2>4 DEF Spend
  <2>5. {"edit", "crash", "misread"} \subseteq Disturbances
    BY DEF Disturbances
  <2>6. Calm' => Calm
    BY <2>1, <2>3, <2>5 DEF Calm
  <2> QED
    BY <2>2, <2>3, <2>4, <2>5, <2>6
<1> QED
  BY <1>1, <1>2, StepSpends

\* What is true as long as it is calm.
CalmInv == up /\ Claimed /\ OrphanPending

\* A device that bears the name of k after the step bore it before, or k has just been
\* reconciled and comes back; and a resource that has changed its id does not regain
\* KeptId.
LEMMA OrphanStep ==
  ASSUME TypeInv, Within, Calm => CalmInv, [Next]_vars, Calm'
  PROVE  CalmInv'
<1> USE DEF worldVars, localVars, controllerVars
<1>1. Calm /\ ~Spend("edit") /\ ~Spend("crash") /\ ~Spend("misread")
  BY CalmBefore
<1>2. up /\ Claimed /\ OrphanPending
  BY <1>1 DEF CalmInv
<1>3. Claimed'
  <2>1. Claimed /\ UNCHANGED vars => Claimed'
    BY DEF Claimed, SpecsClaimed, NamesClaimed, HandClaimed, Endpoint, vars
  <2> QED
    BY <1>1, <1>2, <2>1, ReconcileClaimed, EnvironmentClaimed DEF Next
<1>4. ASSUME UNCHANGED up, UNCHANGED declared,
             \A k \in Resources : cr'[k] = None => cr[k] = None \/ k \in queue',
             \A k \in Resources : Pending(k) => Pending(k)',
             DefaultServer # None =>
               \A d \in DeviceIds : devices'[DefaultServer][d] = devices[DefaultServer][d]
      PROVE  CalmInv'
  BY <1>1, <1>2, <1>3, <1>4 DEF CalmInv, OrphanPending, KeptId, Pending
<1>5. ASSUME NEW k \in Resources, Begin(k)
      PROVE  CalmInv'
  <2>1. \A j \in Resources : Pending(j) => Pending(j)'
    BY <1>5, NoneIsNoValue DEF Begin, Take, Pending
  <2> QED
    BY <1>4, <1>5, <2>1 DEF Begin, Take
<1>6. CASE Unreachable \/ NotChanged
  <2>1. \A j \in Resources : Pending(j) => Pending(j)'
    BY <1>6 DEF Unreachable, NotChanged, Requeue, Pending
  <2> QED
    BY <1>4, <1>6, <2>1 DEF Unreachable, NotChanged, Requeue
<1>7. CASE FetchForDeletion \/ FetchForUpdate
  BY <1>4, <1>7 DEF FetchForDeletion, FetchForUpdate, Pending
<1>8. CASE AlreadyGone
  <2>1. /\ Endpoint(spec) = DefaultServer
        /\ DevicesNamed(DefaultServer, current) = {}
        /\ UNCHANGED <<cr, devices, declared, up, queue, delayed>>
    BY <1>8 DEF AlreadyGone, Endpoint, Forget
  <2>2. \A d \in DeviceIds : devices[DefaultServer][d] # None
                               => devices[DefaultServer][d].name # current
    BY <2>1 DEF DevicesNamed
  <2> QED
    BY <1>1, <1>2, <1>3, <2>1, <2>2 DEF CalmInv, OrphanPending, KeptId, Pending
<1>9. CASE DeleteDevice
  <2>1. /\ Endpoint(spec) = DefaultServer /\ DefaultServer \in Servers
        /\ target \in DeviceIds /\ current \in Resources
        /\ <<DefaultServer, target, current>> \in declared
        /\ UNCHANGED <<cr, declared, up, queue>>
    BY <1>2, <1>9
    DEF DeleteDevice, TypeInv, TypeOK, ControllerTypeOK, Consistent, Endpoint, Claimed,
        HandClaimed, Forget, Requeue
  <2>2. \A d \in DeviceIds :
          \/ devices'[DefaultServer][d] = devices[DefaultServer][d]
          \/ d = target /\ devices'[DefaultServer][d] = None
    BY <1>9, <2>1 DEF DeleteDevice, RemoveDevice, TypeInv, TypeOK
  <2>3. CASE Requeue
    BY <1>1, <1>2, <1>3, <2>1, <2>2, <2>3
    DEF CalmInv, OrphanPending, KeptId, Requeue, Pending
  <2>4. CASE Forget /\ RemoveDevice(DefaultServer, target)
    <3>1. devices'[DefaultServer][target] = None
      BY <2>1, <2>4 DEF RemoveDevice, TypeInv, TypeOK
    <3>2. ASSUME NEW d \in DeviceIds, KeptId(current),
                 devices'[DefaultServer][d] # None,
                 devices'[DefaultServer][d].name = current
          PROVE  FALSE
      <4>1. <<DefaultServer, d, current>> \in declared
        BY <1>2, <2>1, <2>2, <3>2 DEF Claimed, NamesClaimed
      <4> DEFINE c == <<DefaultServer, d, current>>
                 e == <<DefaultServer, target, current>>
      <4>2. c[3] = current /\ e[3] = current /\ c[2] = d /\ e[2] = target
        OBVIOUS
      <4>3. d = target
        BY <2>1, <3>2, <4>1, <4>2 DEF KeptId
      <4> QED
        BY <3>1, <3>2, <4>3
    <3>3. \A k \in Resources \ {current} : Pending(k) => Pending(k)'
      BY <2>4 DEF Forget, Pending
    <3>4. \A k \in Resources : KeptId(k)' = KeptId(k)
      BY <2>1 DEF KeptId
    <3> QED
      BY <1>1, <1>2, <1>3, <2>1, <2>2, <3>2, <3>3, <3>4 DEF CalmInv, OrphanPending
  <2> QED
    BY <1>9, <2>1, <2>3, <2>4 DEF DeleteDevice
<1>10. CASE ReplaceDevice
  <2>1. /\ current \in Resources /\ target \in DeviceIds /\ Endpoint(spec) \in Servers
        /\ device.name = current
        /\ UNCHANGED <<cr, declared, up, queue>> /\ Requeue
    BY <1>2, <1>10
    DEF ReplaceDevice, TypeInv, TypeOK, ControllerTypeOK, Consistent, Claimed,
        HandClaimed, Requeue
  <2>2. \A s \in Servers, d \in DeviceIds :
          devices'[s][d] = devices[s][d] \/ devices'[s][d].name = current
    BY <1>10, <2>1 DEF ReplaceDevice, PutDevice, TypeInv, TypeOK
  <2>3. \A k \in Resources : k = current \/ Pending(k) => Pending(k)'
    BY <2>1 DEF Requeue, Pending
  <2>4. \A k \in Resources : KeptId(k)' = KeptId(k)
    BY <2>1 DEF KeptId
  <2>5. OrphanPending'
    <3> SUFFICES ASSUME NEW k \in Resources, NEW d \in DeviceIds,
                        cr'[k] = None, KeptId(k)', DefaultServer # None,
                        devices'[DefaultServer][d] # None,
                        devices'[DefaultServer][d].name = k
                 PROVE  Pending(k)'
      BY DEF OrphanPending
    <3>1. DefaultServer \in Servers
      BY DefaultServerIsServer
    <3>2. CASE devices'[DefaultServer][d] = devices[DefaultServer][d]
      <4>1. cr[k] = None /\ KeptId(k)
        BY <2>1, <2>4
      <4>2. Pending(k)
        BY <1>1, <1>2, <3>2, <4>1 DEF OrphanPending
      <4> QED
        BY <2>3, <4>2
    <3>3. CASE devices'[DefaultServer][d].name = current
      BY <2>3, <3>3
    <3> QED
      BY <2>2, <3>1, <3>2, <3>3
  <2> QED
    BY <1>2, <1>3, <2>1, <2>5 DEF CalmInv
<1>11. ASSUME NEW k \in Resources, NEW new \in DeviceSpecs[k], Declare(k, new)
       PROVE  CalmInv'
  <2>1. /\ declared \subseteq declared' /\ UNCHANGED <<devices, up>>
        /\ \A j \in Resources : Pending(j) => Pending(j)'
        /\ Pending(k)'
        /\ \A j \in Resources \ {k} : cr'[j] = cr[j]
    BY <1>2, <1>11 DEF Declare, Notify, Pending, TypeInv, TypeOK
  <2>2. \A j \in Resources : KeptId(j)' => KeptId(j)
    BY <2>1 DEF KeptId
  <2> QED
    BY <1>1, <1>2, <1>3, <2>1, <2>2 DEF CalmInv, OrphanPending
<1>12. ASSUME NEW k \in Resources, Undeclare(k)
       PROVE  CalmInv'
  <2>1. \A j \in Resources : Pending(j) => Pending(j)'
    BY <1>2, <1>12 DEF Undeclare, Notify, Pending
  <2>2. \A j \in Resources : cr'[j] = None => cr[j] = None \/ j \in queue'
    BY <1>2, <1>12 DEF Undeclare, Notify, TypeInv, TypeOK
  <2> QED
    BY <1>4, <1>12, <2>1, <2>2 DEF Undeclare, Notify
<1>13. ASSUME NEW k \in Resources, TimerExpires(k)
       PROVE  CalmInv'
  BY <1>4, <1>13 DEF TimerExpires, TimerFires, Pending
<1>14. CASE PeriodicResync
  BY <1>4, <1>14 DEF PeriodicResync, Resync, Pending
<1>15. CASE UNCHANGED vars
  BY <1>4, <1>15 DEF vars, Pending
<1>16. /\ ~FetchMisread /\ ~ProcessDies /\ ~ProcessStarts
       /\ \A s, d, new : ~WebUiDevice(s, d, new)
  BY <1>1, <1>2 DEF FetchMisread, ProcessDies, Crash, ProcessStarts, Restart, WebUiDevice
<1> QED
  BY <1>5, <1>6, <1>7, <1>8, <1>9, <1>10, <1>11, <1>12, <1>13, <1>14, <1>15, <1>16
  DEF Next, Reconcile, Environment

\* As long as nobody edits, nothing dies and every answer is read, but calls may
\* fail, a device that bears the name of a deleted resource is still going to be
\* looked at, if the resource has kept its id.
THEOREM OrphansPending == Spec => []OrphanPending
<1> DEFINE Inv == Within /\ (Calm => CalmInv)
<1>1. Init => Inv
  <2> SUFFICES ASSUME Init PROVE Inv
    OBVIOUS
  <2>1. Within
    BY BudgetIsBound DEF Init, ControllerInit, Within
  <2>2. up /\ OrphanPending
    BY DefaultServerIsServer DEF Init, ControllerInit, OrphanPending
  <2>3. Claimed
    BY DEF Init, Claimed, SpecsClaimed, NamesClaimed, HandClaimed
  <2> QED
    BY <2>1, <2>2, <2>3 DEF CalmInv
<1>2. TypeInv /\ Inv /\ [Next]_vars => Inv'
  BY CalmBefore, OrphanStep
<1>3. Inv => OrphanPending
  BY DEF CalmInv, OrphanPending
<1> QED
  BY <1>1, <1>2, <1>3, TypeCorrect, PTL DEF Spec

=============================================================================
