----------------------- MODULE FolderControllerProofs -----------------------
(***************************************************************************)
(* Proofs about FolderController, for any resources, servers, devices and  *)
(* specs, any budget of disturbances, and in particular any number of      *)
(* crashes and failing calls.                                              *)
(***************************************************************************)
EXTENDS FolderController, TLAPS

-----------------------------------------------------------------------------
(* What the helpers return.                                                *)

\* A folder generated from a spec has the fields of FolderElement.
LEMMA GeneratedFolderType ==
  \A s \in FolderSpecs : GeneratedFolder(s) \in FolderElement
BY FolderSpecsAreSpecs, DefaultMarkerIsMarker
   DEF GeneratedFolder, FolderElement, FolderSpec

\* Setting what a spec determines makes a folder of a folder, and touches neither
\* its shares nor the settings a spec cannot express.
LEMMA ConfiguredType ==
  \A element \in FolderElement, s \in FolderSpecs :
    /\ Configured(element, s) \in FolderElement
    /\ Configured(element, s).devices = element.devices
    /\ Configured(element, s).ignoreDelete = element.ignoreDelete
BY FolderSpecsAreSpecs DEF Configured, FolderElement, FolderSpec

\* The names in a spec resolve to ids of devices.
LEMMA ResolvedNamesType ==
  ASSUME NEW s, NEW names, NEW ids \in ResolvedNames(s, names)
  PROVE  ids \subseteq DeviceIds
<1> DEFINE found == {n \in names : \E d \in DeviceIds : devices[s][d] = n}
<1>1. PICK resolve \in {g \in [found -> DeviceIds] :
                           \A n \in found : devices[s][g[n]] = n} :
        ids = {resolve[n] : n \in found}
  BY DEF ResolvedNames
<1>2. resolve \in [found -> DeviceIds]
  BY <1>1
<1> HIDE DEF found
<1> QED
  BY <1>1, <1>2

\* A spec or the namespace names a server, or there is none.
LEMMA EndpointType ==
  \A s \in FolderSpecs \cup {None} :
    /\ Endpoint(s) \in Servers \cup {None}
    /\ Endpoint(s) # None => Endpoint(s) \in Servers
BY FolderSpecsAreSpecs, DefaultServerIsServer DEF Endpoint, FolderSpec

\* A PUT keeps the folders folders, and changes no other folder.
LEMMA PutFolderType ==
  ASSUME folders \in [Servers -> [FolderIds -> FolderElement \cup {None}]],
         NEW s \in Servers, NEW f \in FolderIds, NEW element \in FolderElement,
         PutFolder(s, f, element)
  PROVE  folders' \in [Servers -> [FolderIds -> FolderElement \cup {None}]]
<1>1. [element EXCEPT !.devices = @ \cap KnownDevices(s)] \in FolderElement
  BY DEF FolderElement
<1> QED
  BY <1>1 DEF PutFolder

\* Nor does a DELETE leave anything but folders.
LEMMA RemoveFolderType ==
  ASSUME folders \in [Servers -> [FolderIds -> FolderElement \cup {None}]],
         NEW s \in Servers, NEW f \in FolderIds,
         RemoveFolder(s, f) \/ UNCHANGED folders
  PROVE  folders' \in [Servers -> [FolderIds -> FolderElement \cup {None}]]
BY DEF RemoveFolder

\* A disturbance leaves a budget of a natural number each.
LEMMA SpendType ==
  ASSUME left \in [Disturbances -> Nat], NEW kind \in Disturbances, Spend(kind)
  PROVE  left' \in [Disturbances -> Nat]
BY DEF Spend

\* So does the outcome of a PUT, which also keeps the folders folders.
LEMMA PutOutcomeType ==
  ASSUME TypeOK, current \in Resources, Endpoint(spec) \in Servers,
         NEW element \in FolderElement,
         PutSucceeds(element) \/ PutFails(element)
  PROVE  /\ folders' \in [Servers -> [FolderIds -> FolderElement \cup {None}]]
         /\ left' \in [Disturbances -> Nat]
<1>1. folders' \in [Servers -> [FolderIds -> FolderElement \cup {None}]]
  <2>1. CASE UNCHANGED folders
    BY <2>1 DEF TypeOK
  <2>2. CASE PutFolder(Endpoint(spec), current, element)
    BY ResourcesNameFolders, <2>2, PutFolderType DEF TypeOK
  <2> QED
    BY <2>1, <2>2 DEF PutSucceeds, PutFails
<1>2. left' \in [Disturbances -> Nat]
  <2>1. "fault" \in Disturbances
    BY DEF Disturbances
  <2>2. CASE UNCHANGED left
    BY <2>2 DEF TypeOK, ControllerTypeOK
  <2>3. CASE Spend("fault")
    BY <2>1, <2>3, SpendType DEF TypeOK, ControllerTypeOK
  <2> QED
    BY <2>2, <2>3 DEF PutSucceeds, PutFails
<1> QED
  BY <1>1, <1>2

-----------------------------------------------------------------------------
(* Type correctness.  TypeOK alone is not inductive: a PUT keeps the types    *)
(* only if there are a folder, a server and a request to speak of.            *)

\* What the place Reconcile has reached says about its variables, and what a
\* process that is down has lost.
Consistent ==
  /\ current = None <=> pc = "idle"
  /\ pc = "delete" => spec = None /\ Endpoint(spec) \in Servers
  /\ pc \in {"settings", "shares"} =>
       spec \in FolderSpecs /\ Endpoint(spec) \in Servers /\ folder \in FolderElement
  /\ ~up => queue = {} /\ delayed = {} /\ current = None

TypeInv == TypeOK /\ Consistent

\* Reconcile keeps the types, from whatever place it has reached.
LEMMA ReconcileTypeInv == TypeInv /\ Reconcile => TypeInv'
<1> SUFFICES ASSUME TypeInv, Reconcile PROVE TypeInv'
  OBVIOUS
<1> USE DEF TypeInv, TypeOK, ControllerTypeOK, Consistent, worldVars, localVars,
            controllerVars
<1>1. CASE \E k \in Resources : Begin(k)
  BY <1>1, NoneIsNoValue DEF Begin, Take
<1>2. CASE Unreachable
  <2>1. left' \in [Disturbances -> Nat]
    BY <1>2, SpendType DEF Unreachable, Disturbances
  <2> QED
    BY <1>2, <2>1 DEF Unreachable, Requeue, Return
<1>3. CASE FetchForDeletion
  BY <1>3, EndpointType DEF FetchForDeletion
<1>4. CASE DeleteFolder
  <2>1. left' \in [Disturbances -> Nat]
    BY <1>4, SpendType DEF DeleteFolder, Disturbances
  <2>2. folders' \in [Servers -> [FolderIds -> FolderElement \cup {None}]]
    BY ResourcesNameFolders, <1>4, RemoveFolderType DEF DeleteFolder
  <2> QED
    BY <1>4, <2>1, <2>2 DEF DeleteFolder, Forget, Return
<1>5. CASE FetchForUpdate
  <2> DEFINE stored == folders[Endpoint(spec)][current]
             found  == IF stored = None THEN GeneratedFolder(spec) ELSE stored
             wanted == Configured(found, spec)
  <2>1. spec \in FolderSpecs /\ Endpoint(spec) \in Servers /\ current \in Resources
    BY <1>5, EndpointType DEF FetchForUpdate
  <2>2. found \in FolderElement
    BY ResourcesNameFolders, <2>1, GeneratedFolderType
  <2>3. wanted \in FolderElement
    BY <2>1, <2>2, ConfiguredType
  <2>4. wanted.devices \subseteq DeviceIds /\ spec.ids \subseteq DeviceIds
    BY <2>1, <2>3, FolderSpecsAreSpecs DEF FolderElement, FolderSpec
  <2>5. folder' = wanted
    BY <1>5 DEF FetchForUpdate
  <2>6. shared' \in SUBSET DeviceIds
    <3>1. PICK ids \in ResolvedNames(Endpoint(spec), spec.names) :
            shared' = wanted.devices \cup spec.ids \cup ids
      BY <1>5 DEF FetchForUpdate, AddDevices
    <3>2. ids \subseteq DeviceIds
      BY ResolvedNamesType
    <3> QED
      BY <2>4, <3>1, <3>2
  <2>7. pc' \in {"settings", "shares"}
    BY <1>5 DEF FetchForUpdate
  <2> HIDE DEF wanted
  <2>8. UNCHANGED <<controllerVars, worldVars, spec>> /\ undisturbed' = TRUE
    BY <1>5 DEF FetchForUpdate
  <2>9. Endpoint(spec)' = Endpoint(spec)
    BY <2>8 DEF Endpoint
  <2> QED
    BY <2>1, <2>3, <2>5, <2>6, <2>7, <2>8, <2>9, NoneIsNoValue
<1>6. CASE ReplaceSettings
  <2>1. PutSucceeds(folder) \/ PutFails(folder)
    BY <1>6 DEF ReplaceSettings
  <2>2. /\ folders' \in [Servers -> [FolderIds -> FolderElement \cup {None}]]
        /\ left' \in [Disturbances -> Nat]
    BY <1>6, <2>1, PutOutcomeType DEF ReplaceSettings
  <2> QED
    BY <1>6, <2>2 DEF ReplaceSettings, Requeue, Return, Endpoint
<1>7. CASE ReplaceShares
  <2> DEFINE wanted == [folder EXCEPT !.devices = shared]
  <2>1. wanted \in FolderElement
    BY <1>7 DEF ReplaceShares, FolderElement
  <2>2. PutSucceeds(wanted) \/ PutFails(wanted)
    BY <1>7 DEF ReplaceShares
  <2>3. /\ folders' \in [Servers -> [FolderIds -> FolderElement \cup {None}]]
        /\ left' \in [Disturbances -> Nat]
    BY <1>7, <2>1, <2>2, PutOutcomeType DEF ReplaceShares
  <2> QED
    BY <1>7, <2>3 DEF ReplaceShares, Requeue, Return
<1>8. CASE SharesUnchanged
  BY <1>8 DEF SharesUnchanged, Requeue, Return
<1>9. CASE FetchMisread
  <2>1. spec \in FolderSpecs /\ Endpoint(spec) \in Servers /\ current \in Resources
    BY <1>9, EndpointType DEF FetchMisread
  <2>2. GeneratedFolder(spec) \in FolderElement
    BY <2>1, GeneratedFolderType
  <2>3. folder' \in FolderElement
    BY <1>9, <2>1, <2>2, ConfiguredType DEF FetchMisread
  <2>4. shared' \in SUBSET DeviceIds
    BY <1>9, <2>1, <2>2, FolderSpecsAreSpecs
    DEF FetchMisread, AddDevices, FolderElement, FolderSpec
  <2>5. left' \in [Disturbances -> Nat]
    BY <1>9, SpendType DEF FetchMisread, Disturbances
  <2>6. /\ pc' = "settings" /\ undisturbed' = FALSE
        /\ UNCHANGED <<up, queue, delayed, current, cr, folders, devices, declared, spec>>
    BY <1>9 DEF FetchMisread
  <2>7. Endpoint(spec)' = Endpoint(spec)
    BY <2>6 DEF Endpoint
  <2>8. current # None
    BY <1>9 DEF FetchMisread
  <2> QED
    BY <2>1, <2>3, <2>4, <2>5, <2>6, <2>7, <2>8
<1> QED
  BY <1>1, <1>2, <1>3, <1>4, <1>5, <1>6, <1>7, <1>8, <1>9 DEF Reconcile

\* So do the surroundings.
LEMMA EnvironmentTypeInv == TypeInv /\ Environment => TypeInv'
<1> SUFFICES ASSUME TypeInv, Environment PROVE TypeInv'
  OBVIOUS
<1> USE DEF TypeInv, TypeOK, ControllerTypeOK, Consistent, worldVars, localVars,
            controllerVars
<1>1. ASSUME NEW k \in Resources, NEW new \in FolderSpecs, Declare(k, new)
      PROVE  TypeInv'
  <2>1. left' \in [Disturbances -> Nat]
    BY <1>1, SpendType DEF Declare, Disturbances
  <2>2. declared' \in SUBSET (Servers \X Resources)
    BY <1>1, EndpointType DEF Declare
  <2> QED
    BY <1>1, <2>1, <2>2 DEF Declare, Notify, Endpoint
<1>2. ASSUME NEW k \in Resources, Undeclare(k)
      PROVE  TypeInv'
  <2>1. left' \in [Disturbances -> Nat]
    BY <1>2, SpendType DEF Undeclare, Disturbances
  <2> QED
    BY <1>2, <2>1 DEF Undeclare, Notify, Endpoint
<1>3. ASSUME NEW k \in Resources, TimerExpires(k)
      PROVE  TypeInv'
  BY <1>3 DEF TimerExpires, TimerFires, Endpoint
<1>4. ASSUME NEW s \in Servers, NEW f \in FolderIds,
             NEW new \in FolderElement \cup {None}, WebUiFolder(s, f, new)
      PROVE  TypeInv'
  <2>1. left' \in [Disturbances -> Nat]
    BY <1>4, SpendType DEF WebUiFolder, Disturbances
  <2>2. folders' \in [Servers -> [FolderIds -> FolderElement \cup {None}]]
    BY <1>4 DEF WebUiFolder
  <2>3. undisturbed' \in BOOLEAN
    BY <1>4 DEF WebUiFolder, Disturb
  <2> QED
    BY <1>4, <2>1, <2>2, <2>3 DEF WebUiFolder, Disturb, Endpoint
<1>5. ASSUME NEW s \in Servers, NEW d \in DeviceIds,
             NEW name \in DeviceNames \cup {None}, EditDevice(s, d, name)
      PROVE  TypeInv'
  <2>1. left' \in [Disturbances -> Nat]
    BY <1>5, SpendType DEF EditDevice, Disturbances
  <2>2. folders' \in [Servers -> [FolderIds -> FolderElement \cup {None}]]
    <3>1. \A stored \in FolderElement :
            [stored EXCEPT !.devices = @ \ {d}] \in FolderElement
      BY DEF FolderElement
    <3>2. \A f \in FolderIds : folders[s][f] \in FolderElement \cup {None}
      OBVIOUS
    <3> DEFINE without(f) == IF folders[s][f] = None THEN None
                             ELSE [folders[s][f] EXCEPT !.devices = @ \ {d}]
    <3>3. \A f \in FolderIds : without(f) \in FolderElement \cup {None}
      BY <3>1, <3>2
    <3>4. \/ folders' = folders
          \/ folders' = [folders EXCEPT ![s] = [f \in FolderIds |-> without(f)]]
      BY <1>5 DEF EditDevice
    <3> HIDE DEF without
    <3> QED
      BY <3>3, <3>4
  <2>3. devices' \in [Servers -> [DeviceIds -> DeviceNames \cup {None}]]
    BY <1>5 DEF EditDevice
  <2>4. undisturbed' \in BOOLEAN
    BY <1>5 DEF EditDevice, Disturb
  <2> QED
    BY <1>5, <2>1, <2>2, <2>3, <2>4 DEF EditDevice, Disturb, Endpoint
<1>6. CASE PeriodicResync
  BY <1>6 DEF PeriodicResync, Resync, Existing, Endpoint
<1>7. CASE ProcessDies
  <2>1. left' \in [Disturbances -> Nat]
    BY <1>7, SpendType DEF ProcessDies, Crash, Die, Disturbances
  <2> QED
    BY <1>7, <2>1 DEF ProcessDies, Crash, Die, Return
<1>8. CASE ProcessStarts
  BY <1>8 DEF ProcessStarts, Restart, Existing, Endpoint
<1> QED
  BY <1>1, <1>2, <1>3, <1>4, <1>5, <1>6, <1>7, <1>8 DEF Environment

\* Nothing happens to the types when nothing happens.
LEMMA StutterTypeInv == TypeInv /\ UNCHANGED vars => TypeInv'
BY DEF TypeInv, TypeOK, ControllerTypeOK, Consistent, vars, worldVars, localVars,
       controllerVars, Endpoint

\* In every reachable state the variables have their types, and Reconcile works on
\* a resource, a server and a folder that exist: no path of the code reaches a PUT
\* or a DELETE without them.
THEOREM TypeCorrect == Spec => []TypeInv
<1>1. Init => TypeInv
  BY BudgetIsBound DEF Init, ControllerInit, TypeInv, TypeOK, ControllerTypeOK,
     Consistent
<1>2. TypeInv /\ [Next]_vars => TypeInv'
  BY ReconcileTypeInv, EnvironmentTypeInv, StutterTypeInv DEF Next
<1> QED
  BY <1>1, <1>2, PTL DEF Spec

\* The types of the variables (the invariant TypeOK of the runs).
THEOREM TypeOKAlways == Spec => []TypeOK
BY TypeCorrect, PTL DEF TypeInv

-----------------------------------------------------------------------------
(* No folder is forgotten.  NoForgottenFolder is not inductive alone: when     *)
(* Reconcile drops a resource that it did not find, it is StaleReadCovered     *)
(* that rules out a resource created since; and that an event for the resource *)
(* in hand is not lost with the process is part of Consistent.                 *)

Attended == StaleReadCovered /\ NoForgottenFolder

\* Every return path of Reconcile schedules a further look at a live resource.
LEMMA ReconcileAttended == TypeInv /\ Attended /\ Reconcile => Attended'
<1> SUFFICES ASSUME TypeInv, Attended, Reconcile PROVE Attended'
  OBVIOUS
<1> USE DEF TypeInv, TypeOK, ControllerTypeOK, Consistent, Attended, worldVars,
            controllerVars, StaleReadCovered, NoForgottenFolder, Pending
<1>1. CASE \E k \in Resources : Begin(k)
  <2>1. PICK k \in Resources : Begin(k)
    BY <1>1
  <2>2. StaleReadCovered'
    BY <2>1 DEF Begin, Take
  <2>3. ASSUME NEW j \in Resources, up', cr'[j] # None
        PROVE  Pending(j)'
    <3>1. Pending(j)
      BY <2>1, <2>3 DEF Begin, Take
    <3> QED
      BY <2>1, <3>1, NoneIsNoValue DEF Begin, Take
  <2> QED
    BY <2>2, <2>3
<1>2. CASE Unreachable
  BY <1>2, NoneIsNoValue DEF Unreachable, Requeue, Return
<1>3. CASE FetchForDeletion
  BY <1>3 DEF FetchForDeletion
<1>4. CASE DeleteFolder
  <2>1. spec = None /\ current # None
    BY <1>4 DEF DeleteFolder
  <2>2. cr[current] = None \/ current \in queue
    BY <2>1
  <2> QED
    BY <1>4, <2>1, <2>2 DEF DeleteFolder, Forget, Return
<1>5. CASE FetchForUpdate
  BY <1>5 DEF FetchForUpdate
<1>6. CASE ReplaceSettings
  BY <1>6 DEF ReplaceSettings, Requeue, Return, PutSucceeds
<1>7. CASE ReplaceShares
  BY <1>7 DEF ReplaceShares, Requeue, Return
<1>8. CASE SharesUnchanged
  BY <1>8 DEF SharesUnchanged, Requeue, Return
<1>9. CASE FetchMisread
  BY <1>9 DEF FetchMisread
<1> QED
  BY <1>1, <1>2, <1>3, <1>4, <1>5, <1>6, <1>7, <1>8, <1>9 DEF Reconcile

\* The surroundings change a resource only with an event that is queued behind the
\* reconcile in hand, and a restart looks at every resource there is.
LEMMA EnvironmentAttended == TypeInv /\ Attended /\ Environment => Attended'
<1> SUFFICES ASSUME TypeInv, Attended, Environment PROVE Attended'
  OBVIOUS
<1> USE DEF TypeInv, TypeOK, ControllerTypeOK, Consistent, Attended, worldVars,
            localVars, controllerVars, StaleReadCovered, NoForgottenFolder, Pending
<1>1. ASSUME NEW k \in Resources, NEW new \in FolderSpecs, Declare(k, new)
      PROVE  Attended'
  BY <1>1 DEF Declare, Notify
<1>2. ASSUME NEW k \in Resources, Undeclare(k)
      PROVE  Attended'
  BY <1>2 DEF Undeclare, Notify
<1>3. ASSUME NEW k \in Resources, TimerExpires(k)
      PROVE  Attended'
  BY <1>3 DEF TimerExpires, TimerFires
<1>4. ASSUME NEW s \in Servers, NEW f \in FolderIds,
             NEW new \in FolderElement \cup {None}, WebUiFolder(s, f, new)
      PROVE  Attended'
  BY <1>4 DEF WebUiFolder, Disturb
<1>5. ASSUME NEW s \in Servers, NEW d \in DeviceIds,
             NEW name \in DeviceNames \cup {None}, EditDevice(s, d, name)
      PROVE  Attended'
  BY <1>5 DEF EditDevice, Disturb
<1>6. CASE PeriodicResync
  BY <1>6 DEF PeriodicResync, Resync
<1>7. CASE ProcessDies
  BY <1>7 DEF ProcessDies, Crash, Die, Return
<1>8. CASE ProcessStarts
  BY <1>8 DEF ProcessStarts, Restart, Existing
<1> QED
  BY <1>1, <1>2, <1>3, <1>4, <1>5, <1>6, <1>7, <1>8 DEF Environment

\* A reconcile that works from an outdated resource is followed by another, and
\* while the process runs every existing resource is being reconciled or will be.
THEOREM NeverForgotten == Spec => [](StaleReadCovered /\ NoForgottenFolder)
<1>1. Init => Attended
  BY DEF Init, ControllerInit, Attended, StaleReadCovered, NoForgottenFolder
<1>2. TypeInv /\ Attended /\ [Next]_vars => Attended'
  <2>1. TypeInv /\ Attended /\ UNCHANGED vars => Attended'
    BY DEF Attended, StaleReadCovered, NoForgottenFolder, Pending, vars, worldVars,
       localVars, controllerVars
  <2> QED
    BY <2>1, ReconcileAttended, EnvironmentAttended DEF Next
<1> QED
  BY <1>1, <1>2, TypeCorrect, PTL DEF Spec, Attended

\* A reconcile of a folder that works from an outdated resource - the resource changed
\* after r.Get - has a successor in the queue, also after restarts.
THEOREM StaleReadsCovered == Spec => []StaleReadCovered
BY NeverForgotten, PTL

-----------------------------------------------------------------------------
(* Unknown folders are left alone, provided all resources are about one        *)
(* server.  Without that proviso the run folder_wrong_server refutes it: the   *)
(* DELETE for a resource that named another server goes to the default one.    *)

OneServer == \A s \in FolderSpecs : Endpoint(s) = DefaultServer

\* What Reconcile is or will be asked to look at has been declared: that is what
\* gives it the right to a DELETE when the resource is no longer there.
Asked ==
  DefaultServer # None =>
    \A k \in Resources :
      cr[k] # None \/ Pending(k) => <<DefaultServer, k>> \in declared

\* Only the user brings new names into the work queue.
LEMMA AskedStep ==
  ASSUME OneServer, TypeInv, Asked, [Next]_vars
  PROVE  Asked'
<1> USE DEF TypeInv, TypeOK, ControllerTypeOK, Asked, Pending, worldVars, localVars,
            controllerVars
<1>1. ASSUME NEW k \in Resources, Begin(k)
      PROVE  Asked'
  BY <1>1 DEF Begin, Take
<1>2. CASE Unreachable
  BY <1>2, NoneIsNoValue DEF Unreachable, Requeue
<1>3. CASE FetchForDeletion
  BY <1>3 DEF FetchForDeletion
<1>4. CASE DeleteFolder
  BY <1>4, NoneIsNoValue DEF DeleteFolder, Forget
<1>5. CASE FetchForUpdate
  BY <1>5 DEF FetchForUpdate
<1>6. CASE ReplaceSettings
  BY <1>6, NoneIsNoValue DEF ReplaceSettings, Requeue
<1>7. CASE ReplaceShares
  BY <1>7, NoneIsNoValue DEF ReplaceShares, Requeue
<1>8. CASE SharesUnchanged
  BY <1>8, NoneIsNoValue DEF SharesUnchanged, Requeue
<1>9. ASSUME NEW k \in Resources, NEW new \in FolderSpecs, Declare(k, new)
      PROVE  Asked'
  <2>1. Endpoint(new) = DefaultServer
    BY <1>9 DEF OneServer
  <2> QED
    BY <1>9, <2>1 DEF Declare, Notify
<1>10. ASSUME NEW k \in Resources, Undeclare(k)
       PROVE  Asked'
  BY <1>10 DEF Undeclare, Notify
<1>11. ASSUME NEW k \in Resources, TimerExpires(k)
       PROVE  Asked'
  BY <1>11 DEF TimerExpires, TimerFires
<1>12. ASSUME NEW s \in Servers, NEW f \in FolderIds,
              NEW new \in FolderElement \cup {None}, WebUiFolder(s, f, new)
       PROVE  Asked'
  BY <1>12 DEF WebUiFolder
<1>13. ASSUME NEW s \in Servers, NEW d \in DeviceIds,
              NEW name \in DeviceNames \cup {None}, EditDevice(s, d, name)
       PROVE  Asked'
  BY <1>13 DEF EditDevice
<1>14. CASE PeriodicResync
  BY <1>14 DEF PeriodicResync, Resync, Existing
<1>15. CASE ProcessDies
  BY <1>15, NoneIsNoValue DEF ProcessDies, Crash, Die
<1>16. CASE ProcessStarts
  BY <1>16 DEF ProcessStarts, Restart, Existing
<1>17. CASE UNCHANGED vars
  BY <1>17 DEF vars
<1>18. CASE FetchMisread
  BY <1>18 DEF FetchMisread
<1> QED
  BY <1>1, <1>2, <1>3, <1>4, <1>5, <1>6, <1>7, <1>8, <1>9, <1>10, <1>11, <1>12,
     <1>13, <1>14, <1>15, <1>16, <1>17, <1>18 DEF Next, Reconcile, Environment

\* A PUT of any element changes at most the folder in hand.
LEMMA PutChangesOneFolder ==
  ASSUME TypeInv, NEW element, PutSucceeds(element) \/ PutFails(element),
         current \in Resources, Endpoint(spec) \in Servers,
         NEW s \in Servers, NEW f \in FolderIds, folders'[s][f] # folders[s][f]
  PROVE  /\ s = Endpoint(spec)
         /\ f = current
         /\ PutFolder(Endpoint(spec), current, element)
BY DEF PutSucceeds, PutFails, PutFolder, TypeInv, TypeOK

\* If all resources are about one server, Reconcile touches only folders that a
\* resource has declared there - by a PUT, and also by the DELETE for a resource
\* that is no longer there to be asked.
THEOREM LeftAlone == ASSUME OneServer PROVE Spec => UnknownFoldersLeftAlone
<1> DEFINE Touched(s, f) == folders'[s][f] # folders[s][f]
<1>1. Init => Asked
  BY NoneIsNoValue DEF Init, ControllerInit, Asked, Pending
<1>2. TypeInv /\ Asked /\ [Next]_vars => Asked'
  BY AskedStep
<1>3. TypeInv /\ Asked /\ Reconcile =>
        \A s \in Servers, f \in FolderIds : Touched(s, f) => <<s, f>> \in declared
  <2> SUFFICES ASSUME TypeInv, Asked, Reconcile, NEW s \in Servers, NEW f \in FolderIds,
                      Touched(s, f)
               PROVE  <<s, f>> \in declared
    OBVIOUS
  <2>1. pc \in {"delete", "settings", "shares"}
    BY DEF Reconcile, Begin, Unreachable, FetchForDeletion, DeleteFolder,
       FetchForUpdate, FetchMisread, ReplaceSettings, ReplaceShares, SharesUnchanged,
       worldVars
  <2>2. current \in Resources /\ Endpoint(spec) \in Servers
    BY <2>1 DEF TypeInv, TypeOK, ControllerTypeOK, Consistent
  <2>3. Endpoint(spec) = DefaultServer
    BY DEF TypeInv, TypeOK, OneServer, Endpoint
  <2>4. <<Endpoint(spec), current>> \in declared
    BY <2>2, <2>3, NoneIsNoValue DEF Asked, Pending
  <2>5. s = Endpoint(spec) /\ f = current
    <3>1. CASE DeleteFolder
      BY <3>1, <2>2 DEF DeleteFolder, RemoveFolder, TypeInv, TypeOK
    <3>2. CASE ReplaceSettings
      BY <3>2, <2>2, PutChangesOneFolder DEF ReplaceSettings
    <3>3. CASE ReplaceShares
      BY <3>3, <2>2, PutChangesOneFolder DEF ReplaceShares
    <3> QED
      BY <3>1, <3>2, <3>3 DEF Reconcile, Begin, Unreachable, FetchForDeletion,
         FetchForUpdate, FetchMisread, SharesUnchanged, worldVars
  <2> QED
    BY <2>4, <2>5
<1>4. TypeInv /\ Asked /\ [Next]_vars =>
        [Reconcile => \A s \in Servers, f \in FolderIds :
           Touched(s, f) => <<s, f>> \in declared]_vars
  BY <1>3
<1> QED
  BY <1>1, <1>2, <1>4, TypeCorrect, PTL DEF Spec, UnknownFoldersLeftAlone

-----------------------------------------------------------------------------
(* Manual settings survive.  The snapshot Reconcile works from agrees with the *)
(* server in what a resource cannot express, as long as nobody writes there;   *)
(* and since Syncthing shares folders with known devices only, a PUT that      *)
(* repeats the shares of the snapshot loses none.                              *)

SharesKnown ==
  \A s \in Servers, f \in FolderIds :
    folders[s][f] # None => folders[s][f].devices \subseteq KnownDevices(s)

\* element has the settings of the stored folder that a resource cannot express,
\* and at least its shares.
Keeps(element, stored) ==
  stored # None =>
    /\ element.ignoreDelete = stored.ignoreDelete
    /\ stored.devices \subseteq element.devices

SnapshotFresh ==
  pc \in {"settings", "shares"} =>
    /\ folder.devices \subseteq shared
    /\ undisturbed => Keeps(folder, folders[Endpoint(spec)][current])

Faithful == SharesKnown /\ SnapshotFresh

\* A PUT that keeps what is stored leaves a folder that is kept in turn.
LEMMA PutKeeps ==
  ASSUME TypeInv, SharesKnown, UNCHANGED devices,
         NEW element \in FolderElement, PutSucceeds(element) \/ PutFails(element),
         current \in Resources, Endpoint(spec) \in Servers
  PROVE  /\ SharesKnown'
         /\ Keeps(element, folders[Endpoint(spec)][current]) =>
              \A s \in Servers, f \in FolderIds :
                (folders[s][f] # None /\ folders'[s][f] # folders[s][f]) =>
                  /\ folders'[s][f].ignoreDelete
                       = folders[s][f].ignoreDelete
                  /\ folders[s][f].devices
                       \subseteq folders'[s][f].devices
         /\ Keeps(element, folders[Endpoint(spec)][current]) =>
              Keeps(element, folders'[Endpoint(spec)][current])
<1> DEFINE put == [element EXCEPT !.devices = @ \cap KnownDevices(Endpoint(spec))]
<1>1. put.devices = element.devices \cap KnownDevices(Endpoint(spec))
  BY DEF FolderElement
<1>2. put.ignoreDelete = element.ignoreDelete
  BY DEF FolderElement
<1>3. \A s : KnownDevices(s)' = KnownDevices(s)
  BY DEF KnownDevices
<1>4. CASE UNCHANGED folders
  BY <1>3, <1>4 DEF SharesKnown, Keeps
<1>5. CASE PutFolder(Endpoint(spec), current, element)
  <2>1. folders' = [folders EXCEPT ![Endpoint(spec)][current] = put]
    BY <1>5 DEF PutFolder
  <2>2. \A s \in Servers, f \in FolderIds :
          folders'[s][f] = IF s = Endpoint(spec) /\ f = current THEN put
                           ELSE folders[s][f]
    BY <2>1 DEF TypeInv, TypeOK
  <2> HIDE DEF put
  <2>3. SharesKnown'
    BY <1>1, <1>3, <2>2 DEF SharesKnown
  <2>4. Keeps(element, folders[Endpoint(spec)][current]) =>
          \A s \in Servers, f \in FolderIds :
            (folders[s][f] # None /\ folders'[s][f] # folders[s][f]) =>
              /\ folders'[s][f].ignoreDelete
                   = folders[s][f].ignoreDelete
              /\ folders[s][f].devices
                   \subseteq folders'[s][f].devices
    BY <1>1, <1>2, <2>2 DEF SharesKnown, Keeps
  <2>5. Keeps(element, folders'[Endpoint(spec)][current])
    BY ResourcesNameFolders, <1>1, <1>2, <2>2 DEF Keeps
  <2> QED
    BY <2>3, <2>4, <2>5
<1> QED
  BY <1>4, <1>5 DEF PutSucceeds, PutFails

\* Reconcile keeps its snapshot fresh.
LEMMA ReconcileFaithful == TypeInv /\ Faithful /\ Reconcile => Faithful'
<1> SUFFICES ASSUME TypeInv, Faithful, Reconcile PROVE Faithful'
  OBVIOUS
<1> USE DEF Faithful, worldVars, controllerVars
<1>1. CASE UNCHANGED <<folders, devices>> /\ pc' \notin {"settings", "shares"}
  BY <1>1 DEF SharesKnown, SnapshotFresh, KnownDevices
<1>2. CASE DeleteFolder
  <2>1. \A s \in Servers, f \in FolderIds :
          folders'[s][f] # None => folders'[s][f] = folders[s][f]
    <3>1. RemoveFolder(Endpoint(spec), current) \/ UNCHANGED folders
      BY <1>2 DEF DeleteFolder
    <3> QED
      BY <3>1 DEF RemoveFolder, TypeInv, TypeOK
  <2>2. SharesKnown'
    BY <1>2, <2>1 DEF DeleteFolder, SharesKnown, KnownDevices
  <2> QED
    BY <1>2, <2>2 DEF DeleteFolder, Return, SnapshotFresh
<1>3. CASE FetchForUpdate
  <2> DEFINE stored == folders[Endpoint(spec)][current]
             found  == IF stored = None THEN GeneratedFolder(spec) ELSE stored
             wanted == Configured(found, spec)
  <2>1. spec \in FolderSpecs /\ Endpoint(spec) \in Servers /\ current \in Resources
    BY <1>3, EndpointType DEF FetchForUpdate, TypeInv, TypeOK, ControllerTypeOK, Consistent
  <2>2. found \in FolderElement
    BY ResourcesNameFolders, <2>1, GeneratedFolderType DEF TypeInv, TypeOK
  <2>3. wanted.devices = found.devices /\ wanted.ignoreDelete = found.ignoreDelete
    BY <2>1, <2>2, ConfiguredType
  <2>4. Keeps(wanted, stored)
    BY <2>3 DEF Keeps
  <2>5. folder' = wanted /\ wanted.devices \subseteq shared'
    BY <1>3 DEF FetchForUpdate, AddDevices
  <2>6. UNCHANGED <<folders, devices, spec, current>>
    BY <1>3 DEF FetchForUpdate
  <2>7. Endpoint(spec)' = Endpoint(spec)
    BY <2>6 DEF Endpoint
  <2>8. SharesKnown'
    BY <2>6 DEF SharesKnown, KnownDevices
  <2> HIDE DEF wanted
  <2>9. SnapshotFresh'
    BY <2>4, <2>5, <2>6, <2>7 DEF SnapshotFresh
  <2> QED
    BY <2>8, <2>9
<1>4. CASE ReplaceSettings
  <2>1. /\ folder \in FolderElement
        /\ Endpoint(spec) \in Servers
        /\ current \in Resources
    BY <1>4 DEF ReplaceSettings, TypeInv, TypeOK, ControllerTypeOK, Consistent
  <2>2. /\ PutSucceeds(folder) \/ PutFails(folder)
        /\ UNCHANGED devices
    BY <1>4 DEF ReplaceSettings
  <2>3. SharesKnown'
    BY <2>1, <2>2, PutKeeps
  <2>4. undisturbed => Keeps(folder, folders'[Endpoint(spec)][current])
    BY <1>4, <2>1, <2>2, PutKeeps DEF ReplaceSettings, SnapshotFresh
  <2>5. CASE pc' = "idle"
    BY <2>3, <2>5 DEF SnapshotFresh
  <2>6. CASE UNCHANGED <<current, spec, folder, shared, undisturbed>>
    <3>1. Endpoint(spec)' = Endpoint(spec)
      BY <2>6 DEF Endpoint
    <3> QED
      BY <1>4, <2>3, <2>4, <2>6, <3>1 DEF ReplaceSettings, SnapshotFresh
  <2> QED
    BY <1>4, <2>5, <2>6 DEF ReplaceSettings, Return
<1>5. CASE ReplaceShares
  <2> DEFINE wanted == [folder EXCEPT !.devices = shared]
  <2>1. /\ wanted \in FolderElement
        /\ Endpoint(spec) \in Servers
        /\ current \in Resources
    BY <1>5 DEF ReplaceShares, FolderElement, TypeInv, TypeOK, ControllerTypeOK,
       Consistent
  <2>2. /\ PutSucceeds(wanted) \/ PutFails(wanted)
        /\ UNCHANGED devices
    BY <1>5 DEF ReplaceShares
  <2> HIDE DEF wanted
  <2>3. SharesKnown'
    BY <2>1, <2>2, PutKeeps
  <2> QED
    BY <1>5, <2>3 DEF ReplaceShares, Return, SnapshotFresh
<1>6. CASE FetchMisread
  <2>1. spec \in FolderSpecs
    BY <1>6 DEF FetchMisread, TypeInv, TypeOK
  <2>2. Configured(GeneratedFolder(spec), spec).devices = GeneratedFolder(spec).devices
    BY <2>1, GeneratedFolderType, ConfiguredType
  <2>3. folder'.devices \subseteq shared' /\ undisturbed' = FALSE
    BY <1>6, <2>2 DEF FetchMisread, AddDevices
  <2>4. SharesKnown'
    BY <1>6 DEF FetchMisread, SharesKnown, KnownDevices
  <2> QED
    BY <2>3, <2>4 DEF SnapshotFresh
<1> QED
  BY <1>1, <1>2, <1>3, <1>4, <1>5, <1>6 DEF Reconcile, Begin, Unreachable,
     FetchForDeletion, SharesUnchanged, Return

\* The surroundings either leave the server alone or are noticed in undisturbed.
LEMMA EnvironmentFaithful == TypeInv /\ Faithful /\ Environment => Faithful'
<1> SUFFICES ASSUME TypeInv, Faithful, Environment PROVE Faithful'
  OBVIOUS
<1> USE DEF Faithful, worldVars, localVars, controllerVars
<1>1. CASE UNCHANGED <<folders, devices, localVars, current>>
  <2>1. SharesKnown'
    BY <1>1 DEF SharesKnown, KnownDevices
  <2>2. SnapshotFresh'
    BY <1>1 DEF SnapshotFresh, Keeps, Endpoint
  <2> QED
    BY <2>1, <2>2
<1>2. ASSUME NEW s \in Servers, Disturb(s), UNCHANGED current,
             \A t \in Servers : t # s => folders'[t] = folders[t]
      PROVE  SnapshotFresh'
  <2>1. UNCHANGED <<pc, spec, folder, shared>> /\ Endpoint(spec)' = Endpoint(spec)
    BY <1>2 DEF Disturb, Endpoint
  <2>2. pc \in {"settings", "shares"} => Endpoint(spec) \in Servers
    BY DEF TypeInv, Consistent
  <2> QED
    BY <1>2, <2>1, <2>2 DEF Disturb, SnapshotFresh
<1>3. ASSUME NEW s \in Servers, NEW f \in FolderIds,
             NEW new \in FolderElement \cup {None}, WebUiFolder(s, f, new)
      PROVE  Faithful'
  <2>1. SharesKnown'
    BY <1>3 DEF WebUiFolder, SharesKnown, KnownDevices, TypeInv, TypeOK
  <2>2. Disturb(s) /\ UNCHANGED current
    BY <1>3 DEF WebUiFolder
  <2>3. \A t \in Servers : t # s => folders'[t] = folders[t]
    BY <1>3 DEF WebUiFolder, TypeInv, TypeOK
  <2> QED
    BY <1>2, <2>1, <2>2, <2>3
<1>4. ASSUME NEW s \in Servers, NEW d \in DeviceIds,
             NEW name \in DeviceNames \cup {None}, EditDevice(s, d, name)
      PROVE  Faithful'
  <2>1. SharesKnown'
    <3>1. \A t \in Servers : KnownDevices(t) \ {d} \subseteq KnownDevices(t)'
      BY <1>4 DEF EditDevice, KnownDevices, TypeInv, TypeOK
    <3>2. CASE name # None
      <4>1. \A t \in Servers : KnownDevices(t) \subseteq KnownDevices(t)'
        BY <1>4, <3>2 DEF EditDevice, KnownDevices, TypeInv, TypeOK
      <4> QED
        BY <1>4, <3>2, <4>1 DEF EditDevice, SharesKnown
    <3>3. CASE name = None
      <4> DEFINE without(f) == IF folders[s][f] = None THEN None
                               ELSE [folders[s][f] EXCEPT !.devices = @ \ {d}]
      <4>1. \A stored \in FolderElement :
              [stored EXCEPT !.devices = @ \ {d}].devices
                = stored.devices \ {d}
        BY DEF FolderElement
      <4>2. \A f \in FolderIds :
              without(f) # None =>
                /\ folders[s][f] # None
                /\ without(f).devices = folders[s][f].devices \ {d}
        BY <4>1 DEF TypeInv, TypeOK
      <4>3. folders' = [folders EXCEPT ![s] = [f \in FolderIds |-> without(f)]]
        BY <1>4, <3>3 DEF EditDevice
      <4>4. \A t \in Servers, f \in FolderIds :
              folders'[t][f] = IF t = s THEN without(f) ELSE folders[t][f]
        BY <4>3 DEF TypeInv, TypeOK
      <4>5. \A t \in Servers : t # s => KnownDevices(t)' = KnownDevices(t)
        BY <1>4 DEF EditDevice, KnownDevices, TypeInv, TypeOK
      <4> HIDE DEF without
      <4> QED
        BY <3>1, <4>2, <4>4, <4>5 DEF SharesKnown
    <3> QED
      BY <3>2, <3>3
  <2>2. Disturb(s) /\ UNCHANGED current
    BY <1>4 DEF EditDevice
  <2>3. \A t \in Servers : t # s => folders'[t] = folders[t]
    BY <1>4 DEF EditDevice, TypeInv, TypeOK
  <2> QED
    BY <1>2, <2>1, <2>2, <2>3
<1>5. CASE ProcessDies
  BY <1>5 DEF ProcessDies, Return, SharesKnown, SnapshotFresh, KnownDevices
<1> QED
  BY <1>1, <1>3, <1>4, <1>5 DEF Environment, Declare, Undeclare, Notify,
     TimerExpires, TimerFires, PeriodicResync, Resync, ProcessStarts, Restart

\* A PUT keeps the settings a resource cannot express, and only adds shares, unless
\* somebody writes to the server between GetConfig and the PUT: the second PUT does
\* so too, although the first has changed the folder since the snapshot.
THEOREM ManualSettings == Spec => ManualSettingsKept
<1>1. Init => Faithful
  BY DEF Init, Faithful, SharesKnown, SnapshotFresh
<1>2. TypeInv /\ Faithful /\ [Next]_vars => Faithful'
  <2>1. TypeInv /\ Faithful /\ UNCHANGED vars => Faithful'
    BY DEF Faithful, SharesKnown, SnapshotFresh, Keeps, KnownDevices, Endpoint, vars,
       worldVars, localVars, controllerVars
  <2> QED
    BY <2>1, ReconcileFaithful, EnvironmentFaithful DEF Next
<1> DEFINE Kept ==
  (pc \in {"settings", "shares"} /\ Reconcile /\ undisturbed)
    => \A s \in Servers, f \in FolderIds :
         (folders[s][f] # None /\ folders'[s][f] # folders[s][f]) =>
           /\ folders'[s][f] # None
           /\ folders'[s][f].ignoreDelete = folders[s][f].ignoreDelete
           /\ folders[s][f].devices \subseteq folders'[s][f].devices
<1>3. TypeInv /\ Faithful => Kept
  <2> SUFFICES ASSUME TypeInv, Faithful, Reconcile, undisturbed,
                      pc \in {"settings", "shares"},
                      NEW s \in Servers, NEW f \in FolderIds,
                      folders[s][f] # None, folders'[s][f] # folders[s][f]
               PROVE  /\ folders'[s][f] # None
                      /\ folders'[s][f].ignoreDelete
                           = folders[s][f].ignoreDelete
                      /\ folders[s][f].devices
                           \subseteq folders'[s][f].devices
    OBVIOUS
  <2>1. /\ folder \in FolderElement
        /\ Endpoint(spec) \in Servers
        /\ current \in Resources
    BY DEF TypeInv, TypeOK, ControllerTypeOK, Consistent
  <2>2. PICK element \in FolderElement :
          /\ element.ignoreDelete = folder.ignoreDelete
          /\ folder.devices \subseteq element.devices
          /\ PutSucceeds(element) \/ PutFails(element)
          /\ UNCHANGED devices
    <3>1. CASE ReplaceSettings
      BY <2>1, <3>1 DEF ReplaceSettings
    <3>2. CASE ReplaceShares
      <4> DEFINE wanted == [folder EXCEPT !.devices = shared]
      <4>1. /\ wanted \in FolderElement
            /\ wanted.ignoreDelete = folder.ignoreDelete
            /\ wanted.devices = shared
        BY <2>1 DEF FolderElement, TypeInv, TypeOK
      <4>2. folder.devices \subseteq shared
        BY DEF Faithful, SnapshotFresh
      <4>3. PutSucceeds(wanted) \/ PutFails(wanted)
        BY <3>2 DEF ReplaceShares
      <4>4. UNCHANGED devices
        BY <3>2 DEF ReplaceShares
      <4> HIDE DEF wanted
      <4> QED
        BY <4>1, <4>2, <4>3, <4>4
    <3> QED
      BY <3>1, <3>2 DEF Reconcile, Begin, Take, Unreachable, FetchForDeletion,
         DeleteFolder, FetchForUpdate, FetchMisread, SharesUnchanged, worldVars, TypeInv, Consistent
  <2>3. Keeps(element, folders[Endpoint(spec)][current])
    BY <2>2 DEF Faithful, SnapshotFresh, Keeps
  <2>4. folders'[s][f] # None
    <3>1. folders' \in [Servers -> [FolderIds -> FolderElement \cup {None}]]
      BY ReconcileTypeInv DEF TypeInv, TypeOK
    <3>2. PutFolder(Endpoint(spec), current, element) /\ s = Endpoint(spec) /\ f = current
      BY <2>1, <2>2, PutChangesOneFolder
    <3>3. folders'[s][f] =
            [element EXCEPT !.devices = @ \cap KnownDevices(Endpoint(spec))]
      BY <3>2 DEF PutFolder, TypeInv, TypeOK
    <3>4. folders'[s][f] \in FolderElement
      BY <3>3 DEF FolderElement
    <3> QED
      BY <3>4, NoneIsNoData
  <2> QED
    BY <2>1, <2>2, <2>3, <2>4, PutKeeps DEF Faithful
<1> QED
  BY <1>1, <1>2, <1>3, TypeCorrect, PTL DEF Spec, ManualSettingsKept

-----------------------------------------------------------------------------
(* Orphans.  As long as nothing has failed, died or been edited, a deleted     *)
(* resource's folder is not lost sight of.  Each proviso is needed: the error  *)
(* of a failing DELETE is ignored, and the run folder_delete_missed shows what *)
(* a restart does.  Answers may be misread.                                    *)

Within == \A kind \in Disturbances : left[kind] <= Budget[kind]

\* A step spends at most one disturbance.
LEMMA StepSpends ==
  ASSUME [Next]_vars
  PROVE  UNCHANGED left \/ \E kind \in Disturbances : Spend(kind)
<1> USE DEF controllerVars, worldVars, Disturbances
<1>1. ASSUME Reconcile
      PROVE  UNCHANGED left \/ \E kind \in Disturbances : Spend(kind)
  <2>1. CASE ReplaceSettings \/ ReplaceShares
    BY <2>1 DEF ReplaceSettings, ReplaceShares, PutSucceeds, PutFails
  <2> QED
    BY <1>1, <2>1 DEF Reconcile, Begin, Unreachable, FetchForDeletion, DeleteFolder,
       FetchForUpdate, FetchMisread, SharesUnchanged
<1>2. ASSUME Environment
      PROVE  UNCHANGED left \/ \E kind \in Disturbances : Spend(kind)
  BY <1>2 DEF Environment, Declare, Undeclare, TimerExpires, TimerFires, WebUiFolder,
     EditDevice, PeriodicResync, Resync, ProcessDies, Crash, ProcessStarts, Restart
<1> QED
  BY <1>1, <1>2 DEF Next, vars

\* What was spent stays spent.
LEMMA CalmBefore ==
  ASSUME TypeInv, Within, [Next]_vars
  PROVE  /\ Within'
         /\ Calm' => /\ Calm
                     /\ ~Spend("fault") /\ ~Spend("crash") /\ ~Spend("edit")
<1> USE BudgetIsBound DEF TypeInv, TypeOK, ControllerTypeOK, Within
<1>1. CASE UNCHANGED left
  BY <1>1 DEF Calm, Spend, Disturbances
<1>2. ASSUME NEW kind \in Disturbances, Spend(kind)
      PROVE  /\ Within'
             /\ Calm' => /\ Calm
                         /\ ~Spend("fault") /\ ~Spend("crash") /\ ~Spend("edit")
  <2>1. \A other \in Disturbances :
          left'[other] = IF other = kind THEN left[other] - 1 ELSE left[other]
    BY <1>2 DEF Spend
  <2>2. Within'
    BY <2>1
  <2>3. Calm' => kind \notin {"fault", "crash", "edit"}
    BY <2>1 DEF Calm
  <2>4. ASSUME NEW other \in Disturbances, other # kind
        PROVE  ~Spend(other)
    BY <2>1, <2>4 DEF Spend
  <2>5. {"fault", "crash", "edit"} \subseteq Disturbances
    BY DEF Disturbances
  <2>6. Calm' => Calm
    BY <2>1, <2>3, <2>5 DEF Calm
  <2> QED
    BY <2>2, <2>3, <2>4, <2>5, <2>6
<1> QED
  BY <1>1, <1>2, StepSpends

\* A DELETE removes the folder for good; whatever else may leave a folder on the
\* server schedules a further look at it.
LEMMA OrphanStep ==
  ASSUME TypeInv, Within, Calm => up, OrphanPending, [Next]_vars, Calm'
  PROVE  up' /\ OrphanPending'
<1> USE DEF TypeInv, TypeOK, ControllerTypeOK, OrphanPending, Pending, worldVars,
            localVars, controllerVars
<1>1. Calm /\ ~Spend("fault") /\ ~Spend("crash") /\ ~Spend("edit")
  BY CalmBefore
<1>2. up
  BY <1>1
<1>3. CASE UNCHANGED <<folders, declared, cr, up>>
           /\ (queue \cup delayed \cup {current}) \ {None}
                \subseteq queue' \cup delayed' \cup {current'}
  BY <1>1, <1>2, <1>3, NoneIsNoValue
<1>4. CASE DeleteFolder
  <2>1. /\ RemoveFolder(Endpoint(spec), current)
        /\ UNCHANGED <<up, queue, delayed, cr, declared>>
    BY <1>1, <1>4 DEF DeleteFolder, Forget
  <2>2. Endpoint(spec) = DefaultServer /\ Endpoint(spec) \in Servers /\ current \in Resources
    BY <1>4 DEF DeleteFolder, Consistent, Endpoint
  <2>3. \A k \in Resources :
          folders'[DefaultServer][k] = IF k = current THEN None
                                       ELSE folders[DefaultServer][k]
    BY ResourcesNameFolders, <2>1, <2>2 DEF RemoveFolder
  <2> QED
    BY <1>1, <1>2, <2>1, <2>3
<1>5. ASSUME NEW element, PutSucceeds(element) \/ PutFails(element),
             UNCHANGED <<cr, declared, up, queue>>, delayed \subseteq delayed',
             current \in Resources, current = current' \/ current \in delayed',
             Endpoint(spec) \in Servers
      PROVE  up' /\ OrphanPending'
  <2>1. ASSUME NEW k \in Resources, k # current, DefaultServer \in Servers
        PROVE  folders'[DefaultServer][k] = folders[DefaultServer][k]
    BY ResourcesNameFolders, <1>5, <2>1, PutChangesOneFolder
  <2> QED
    BY <1>1, <1>2, <1>5, <2>1
<1>6. CASE ReplaceSettings
  BY <1>5, <1>6 DEF ReplaceSettings, Requeue, Consistent
<1>7. CASE ReplaceShares
  BY <1>5, <1>7 DEF ReplaceShares, Requeue, Consistent
<1>8. ASSUME NEW k \in Resources, NEW new \in FolderSpecs, Declare(k, new)
      PROVE  up' /\ OrphanPending'
  <2>1. /\ cr' = [cr EXCEPT ![k] = new]
        /\ declared' \subseteq declared \cup {<<Endpoint(new), k>>}
        /\ queue' = queue \cup {k}
        /\ UNCHANGED <<up, delayed, current, folders>>
    BY <1>2, <1>8 DEF Declare, Notify
  <2> QED
    BY <1>1, <1>2, <2>1
<1>9. ASSUME NEW k \in Resources, Undeclare(k)
      PROVE  up' /\ OrphanPending'
  <2>1. /\ cr' = [cr EXCEPT ![k] = None]
        /\ queue' = queue \cup {k}
        /\ UNCHANGED <<up, delayed, current, folders, declared>>
    BY <1>2, <1>9 DEF Undeclare, Notify
  <2> QED
    BY <1>1, <1>2, <2>1
<1>10. ASSUME NEW k \in Resources, Begin(k)
       PROVE  up' /\ OrphanPending'
  BY <1>3, <1>10 DEF Begin, Take
<1>11. CASE Unreachable
  BY <1>1, <1>3, <1>11 DEF Unreachable, Requeue
<1>12. CASE SharesUnchanged
  BY <1>3, <1>12 DEF SharesUnchanged, Requeue
<1>13. CASE FetchForDeletion \/ FetchForUpdate \/ FetchMisread \/ UNCHANGED vars
  BY <1>3, <1>13 DEF FetchForDeletion, FetchForUpdate, FetchMisread, vars
<1>14. ASSUME NEW k \in Resources, TimerExpires(k)
       PROVE  up' /\ OrphanPending'
  BY <1>3, <1>14 DEF TimerExpires, TimerFires
<1>15. CASE PeriodicResync
  BY <1>3, <1>15 DEF PeriodicResync, Resync
<1>16. ~ProcessDies /\ ~ProcessStarts
  BY <1>1, <1>2 DEF ProcessDies, Crash, ProcessStarts, Restart
<1>17. /\ \A s, f, new : ~WebUiFolder(s, f, new)
       /\ \A s, d, name : ~EditDevice(s, d, name)
  BY <1>1 DEF WebUiFolder, EditDevice
<1> QED
  BY <1>4, <1>6, <1>7, <1>8, <1>9, <1>10, <1>11, <1>12, <1>13, <1>14, <1>15, <1>16,
     <1>17 DEF Next, Reconcile, Environment

\* As long as nothing has failed, died or been edited, a folder whose resource is
\* deleted and that is still on the server is still going to be looked at, even if a
\* reconcile that began before the deletion has just put it there.
THEOREM OrphansPending == Spec => []OrphanPending
<1> DEFINE Inv == Within /\ (Calm => up) /\ OrphanPending
<1>1. Init => Inv
  <2>1. ASSUME Init PROVE Within
    BY <2>1, BudgetIsBound DEF Init, ControllerInit, Within
  <2>2. ASSUME Init PROVE up /\ OrphanPending
    BY <2>2 DEF Init, ControllerInit, OrphanPending
  <2> QED
    BY <2>1, <2>2
<1>2. TypeInv /\ Inv /\ [Next]_vars => Inv'
  <2> SUFFICES ASSUME TypeInv, Inv, [Next]_vars PROVE Inv'
    OBVIOUS
  <2>1. Within'
    BY CalmBefore
  <2>2. Calm' => up' /\ OrphanPending'
    BY OrphanStep
  <2>3. ~Calm' => OrphanPending'
    BY DEF OrphanPending
  <2> QED
    BY <2>1, <2>2, <2>3
<1> QED
  BY <1>1, <1>2, TypeCorrect, PTL DEF Spec

=============================================================================
