------------------------- MODULE FolderPromiseProofs -------------------------
(***************************************************************************)
(* FolderController implements LevelTriggered, for any resources, devices, *)
(* specs and budgets, if all resources are about one server.  Every step   *)
(* is one of the steps of LevelTriggered under the refinement mapping      *)
(* Promise, or changes nothing of what the mapping shows.                  *)
(***************************************************************************)
EXTENDS FolderControllerProofs

-----------------------------------------------------------------------------
(* What the mapping shows of a state.                                          *)

AttendedNames == {k \in Resources : Pending(k)}
Claims        == {<<c[2], c>> : c \in declared}
FolderObjects == [o \in Servers \X FolderIds |-> folders[o[1]][o[2]]]

shown == <<cr, up, AttendedNames, Claims, FolderObjects, left["edit"]>>

\* The facts about a state that the mapping needs.
Known == TypeInv /\ StaleReadCovered /\ Asked

\* A failing call, a misread answer and the death of the process leave the edits.
LEMMA OtherBudgets ==
  ASSUME TypeInv, NEW kind \in Disturbances, kind # "edit", Spend(kind)
  PROVE  UNCHANGED left["edit"]
BY DEF Spend, TypeInv, TypeOK, ControllerTypeOK, Disturbances

\* An edit takes one of them.
LEMMA EditBudget ==
  ASSUME TypeInv, Spend("edit")
  PROVE  left["edit"] > 0 /\ left'["edit"] = left["edit"] - 1
BY DEF Spend, TypeInv, TypeOK, ControllerTypeOK, Disturbances

\* Changing nothing but the folder in hand shows in its object only.
LEMMA OneObject ==
  ASSUME NEW s \in Servers, NEW f \in FolderIds,
         \A t \in Servers, g \in FolderIds :
           folders'[t][g] # folders[t][g] => t = s /\ g = f
  PROVE  \A o \in Servers \X FolderIds :
           FolderObjects'[o] # FolderObjects[o] => o = <<s, f>>
BY DEF FolderObjects

\* A step of Reconcile that calls Syncthing for the name in hand and leaves nobody
\* unattended but, perhaps, that name once its resource is gone.
LEMMA CallAttends ==
  ASSUME Known, OneServer, current \in Resources, Endpoint(spec) \in Servers,
         spec \in FolderSpecs \cup {None},
         \A s \in Servers, f \in FolderIds :
           folders'[s][f] # folders[s][f] => s = Endpoint(spec) /\ f = current,
         \/ AttendedNames' = AttendedNames
         \/ cr[current] = None /\ AttendedNames' = AttendedNames \ {current},
         UNCHANGED cr, UNCHANGED up, UNCHANGED declared, UNCHANGED left["edit"]
  PROVE  \E k \in Resources : Promise!Attend(k)
<1>1. current \in AttendedNames
  BY DEF AttendedNames, Pending
<1>2. <<Endpoint(spec), current>> \in declared
  <2>1. Endpoint(spec) = DefaultServer
    BY DEF OneServer, Endpoint
  <2> QED
    BY <2>1, NoneIsNoValue DEF Known, Asked, Pending
<1>3. current \in FolderIds
  BY ResourcesNameFolders
<1>4. \A o \in Servers \X FolderIds :
        FolderObjects'[o] # FolderObjects[o] => o = <<Endpoint(spec), current>>
  BY <1>3, OneObject
<1>5. <<current, <<Endpoint(spec), current>>>> \in Claims
  <2> DEFINE c == <<Endpoint(spec), current>>
  <2>1. c \in declared /\ c[2] = current
    BY <1>2
  <2> QED
    BY <2>1 DEF Claims
<1>6. UNCHANGED Claims
  BY DEF Claims
<1> QED
  BY <1>1, <1>4, <1>5, <1>6
  DEF Promise!Attend, AttendedNames, Claims, FolderObjects

\* A step that shows nothing is no step of LevelTriggered.
LEMMA NothingShown ==
  ASSUME UNCHANGED shown
  PROVE  UNCHANGED Promise!vars
BY DEF shown, AttendedNames, Claims, FolderObjects, Promise!vars

\* The outcome of a PUT, seen from the folder it is about.
LEMMA PutShows ==
  ASSUME TypeInv, NEW element, PutSucceeds(element) \/ PutFails(element),
         current \in Resources, Endpoint(spec) \in Servers
  PROVE  /\ \A s \in Servers, f \in FolderIds :
              folders'[s][f] # folders[s][f] => s = Endpoint(spec) /\ f = current
         /\ UNCHANGED left["edit"]
<1>1. \A s \in Servers, f \in FolderIds :
        folders'[s][f] # folders[s][f] => s = Endpoint(spec) /\ f = current
  BY PutChangesOneFolder
<1>2. UNCHANGED left["edit"]
  BY OtherBudgets DEF PutSucceeds, PutFails, Disturbances
<1> QED
  BY <1>1, <1>2

-----------------------------------------------------------------------------
\* Every step of Reconcile attends to the name in hand, or shows nothing.
LEMMA ReconcileKeepsPromise ==
  ASSUME Known, OneServer, Reconcile
  PROVE  (\E k \in Resources : Promise!Attend(k)) \/ UNCHANGED Promise!vars
<1> DEFINE InHand == /\ current \in Resources
                     /\ Endpoint(spec) \in Servers
                     /\ spec \in FolderSpecs \cup {None}
<1> USE DEF worldVars, controllerVars
<1>1. ASSUME NEW k \in Resources, Begin(k)
      PROVE  UNCHANGED shown
  BY <1>1, NoneIsNoValue
  DEF Begin, Take, shown, AttendedNames, Pending, Claims, FolderObjects
<1>2. CASE Unreachable
  <2>1. UNCHANGED left["edit"]
    BY <1>2, OtherBudgets DEF Unreachable, Disturbances, Known
  <2>2. current \in Resources
    BY <1>2 DEF Unreachable, Known, TypeInv, TypeOK, ControllerTypeOK, Consistent
  <2>3. UNCHANGED shown
    BY <1>2, <2>1, <2>2, NoneIsNoValue
    DEF Unreachable, Requeue, shown, AttendedNames, Pending, Claims, FolderObjects
  <2> QED
    BY <2>3, NothingShown
<1>3. CASE FetchForDeletion
  BY <1>3, NothingShown
  DEF FetchForDeletion, shown, AttendedNames, Pending, Claims, FolderObjects
<1>4. CASE DeleteFolder
  <2>1. InHand /\ spec = None
    BY <1>4 DEF DeleteFolder, Known, TypeInv, TypeOK, ControllerTypeOK, Consistent
  <2>2. UNCHANGED left["edit"]
    BY <1>4, OtherBudgets DEF DeleteFolder, Disturbances, Known
  <2>3. \A s \in Servers, f \in FolderIds :
          folders'[s][f] # folders[s][f] => s = Endpoint(spec) /\ f = current
    BY <1>4, <2>1, ResourcesNameFolders
    DEF DeleteFolder, RemoveFolder, Known, TypeInv, TypeOK
  <2>4. CASE current \in queue \cup delayed
    <3>1. UNCHANGED AttendedNames
      BY <1>4, <2>4, NoneIsNoValue DEF DeleteFolder, Forget, AttendedNames, Pending
    <3>2. \E k \in Resources : Promise!Attend(k)
      BY <1>4, <2>1, <2>2, <2>3, <3>1, CallAttends DEF DeleteFolder, Forget
    <3> QED
      BY <2>1, <3>2
  <2>5. CASE current \notin queue \cup delayed
    <3>1. cr[current] = None
      BY <2>1, <2>5, NoneIsNoValue DEF Known, StaleReadCovered
    <3>2. AttendedNames' = AttendedNames \ {current}
      BY <1>4, <2>1, <2>5, NoneIsNoValue
      DEF DeleteFolder, Forget, AttendedNames, Pending
    <3>3. \E k \in Resources : Promise!Attend(k)
      BY <1>4, <2>1, <2>2, <2>3, <3>1, <3>2, CallAttends DEF DeleteFolder, Forget
    <3> QED
      BY <2>1, <3>3
  <2> QED
    BY <2>4, <2>5
<1>5. CASE FetchForUpdate
  <2>1. UNCHANGED <<controllerVars, worldVars>>
    BY <1>5 DEF FetchForUpdate
  <2> QED
    BY <2>1, NothingShown DEF shown, AttendedNames, Pending, Claims, FolderObjects
<1>6. CASE FetchMisread
  <2>1. UNCHANGED left["edit"]
    BY <1>6, OtherBudgets DEF FetchMisread, Disturbances, Known
  <2>2. UNCHANGED <<up, queue, delayed, current, worldVars>>
    BY <1>6 DEF FetchMisread
  <2> QED
    BY <2>1, <2>2, NothingShown DEF shown, AttendedNames, Pending, Claims, FolderObjects
<1>7. CASE ReplaceSettings
  <2>1. InHand
    BY <1>7
    DEF ReplaceSettings, Known, TypeInv, TypeOK, ControllerTypeOK, Consistent
  <2>2. PutSucceeds(folder) \/ PutFails(folder)
    BY <1>7 DEF ReplaceSettings
  <2>3. UNCHANGED AttendedNames
    BY <1>7, <2>1, NoneIsNoValue DEF ReplaceSettings, Requeue, AttendedNames, Pending
  <2>4. UNCHANGED <<cr, up, declared>>
    BY <1>7 DEF ReplaceSettings, Requeue
  <2>5. \E k \in Resources : Promise!Attend(k)
    BY <2>1, <2>2, <2>3, <2>4, PutShows, CallAttends DEF Known
  <2> QED
    BY <2>1, <2>5
<1>8. CASE ReplaceShares
  <2> DEFINE wanted == [folder EXCEPT !.devices = shared]
  <2>1. InHand
    BY <1>8
    DEF ReplaceShares, Known, TypeInv, TypeOK, ControllerTypeOK, Consistent
  <2>2. PutSucceeds(wanted) \/ PutFails(wanted)
    BY <1>8 DEF ReplaceShares
  <2>3. UNCHANGED AttendedNames
    BY <1>8, <2>1, NoneIsNoValue DEF ReplaceShares, Requeue, AttendedNames, Pending
  <2>4. UNCHANGED <<cr, up, declared>>
    BY <1>8 DEF ReplaceShares, Requeue
  <2> HIDE DEF wanted
  <2>5. \E k \in Resources : Promise!Attend(k)
    BY <2>1, <2>2, <2>3, <2>4, PutShows, CallAttends DEF Known
  <2> QED
    BY <2>1, <2>5
<1>9. CASE SharesUnchanged
  <2>1. current \in Resources
    BY <1>9 DEF SharesUnchanged, Known, TypeInv, TypeOK, ControllerTypeOK, Consistent
  <2>2. UNCHANGED shown
    BY <1>9, <2>1, NoneIsNoValue
    DEF SharesUnchanged, Requeue, shown, AttendedNames, Pending, Claims, FolderObjects
  <2> QED
    BY <2>2, NothingShown
<1> QED
  BY <1>1, <1>2, <1>3, <1>4, <1>5, <1>6, <1>7, <1>8, <1>9, NothingShown DEF Reconcile

\* So does every step of the surroundings: users change wishes, the WebUI and the
\* device controller interfere, the process stops and starts.
LEMMA EnvironmentKeepsPromise ==
  ASSUME Known, OneServer, Environment
  PROVE  Promise!Next \/ UNCHANGED Promise!vars
<1> USE DEF worldVars, controllerVars
<1>1. ASSUME NEW k \in Resources, NEW new \in FolderSpecs, Declare(k, new)
      PROVE  Promise!Next
  <2>1. UNCHANGED left["edit"]
    BY <1>1, OtherBudgets DEF Declare, Disturbances, Known
  <2>2. \A j \in Resources \ {k} : cr'[j] = cr[j]
    BY <1>1 DEF Declare, Known, TypeInv, TypeOK
  <2>3. Claims \subseteq Claims'
    BY <1>1 DEF Declare, Claims
  <2>4. Claims' \ Claims \subseteq {k} \X (Servers \X FolderIds)
    <3>1. CASE Endpoint(new) = None
      BY <1>1, <3>1 DEF Declare, Claims
    <3>2. CASE Endpoint(new) # None
      <4>1. Endpoint(new) \in Servers /\ k \in FolderIds
        BY <3>2, EndpointType, ResourcesNameFolders
      <4>2. declared' = declared \cup {<<Endpoint(new), k>>}
        BY <1>1, <3>2 DEF Declare
      <4>3. ASSUME NEW p \in Claims' \ Claims
            PROVE  p = <<k, <<Endpoint(new), k>>>>
        BY <4>2, <4>3 DEF Claims
      <4> QED
        BY <4>1, <4>3
    <3> QED
      BY <3>1, <3>2
  <2>5. AttendedNames' = IF up THEN AttendedNames \cup {k} ELSE AttendedNames
    BY <1>1 DEF Declare, Notify, AttendedNames, Pending
  <2>6. UNCHANGED <<up, FolderObjects>>
    BY <1>1 DEF Declare, Notify, FolderObjects
  <2>7. Promise!ChangeWish(k)
    BY <2>1, <2>2, <2>3, <2>4, <2>5, <2>6
    DEF Promise!ChangeWish, AttendedNames, Claims, FolderObjects
  <2> QED
    BY <2>7 DEF Promise!Next
<1>2. ASSUME NEW k \in Resources, Undeclare(k)
      PROVE  Promise!Next
  <2>1. UNCHANGED left["edit"]
    BY <1>2, OtherBudgets DEF Undeclare, Disturbances, Known
  <2>2. \A j \in Resources \ {k} : cr'[j] = cr[j]
    BY <1>2 DEF Undeclare, Known, TypeInv, TypeOK
  <2>3. AttendedNames' = IF up THEN AttendedNames \cup {k} ELSE AttendedNames
    BY <1>2 DEF Undeclare, Notify, AttendedNames, Pending
  <2>4. UNCHANGED <<up, Claims, FolderObjects>>
    BY <1>2 DEF Undeclare, Notify, Claims, FolderObjects
  <2>5. Promise!ChangeWish(k)
    BY <2>1, <2>2, <2>3, <2>4
    DEF Promise!ChangeWish, AttendedNames, Claims, FolderObjects
  <2> QED
    BY <2>5 DEF Promise!Next
<1>3. ASSUME NEW k \in Resources, TimerExpires(k)
      PROVE  UNCHANGED shown
  BY <1>3
  DEF TimerExpires, TimerFires, shown, AttendedNames, Pending, Claims, FolderObjects
<1>4. ASSUME NEW s \in Servers, NEW f \in FolderIds,
             NEW new \in FolderElement \cup {None}, WebUiFolder(s, f, new)
      PROVE  Promise!Next
  <2>1. left["edit"] > 0 /\ left'["edit"] = left["edit"] - 1
    BY <1>4, EditBudget DEF WebUiFolder, Known
  <2>2. UNCHANGED <<up, queue, delayed, current, cr, declared>>
    BY <1>4 DEF WebUiFolder
  <2> QED
    BY <2>1, <2>2 DEF Promise!Interfere, Promise!Next, Pending
<1>5. ASSUME NEW s \in Servers, NEW d \in DeviceIds,
             NEW name \in DeviceNames \cup {None}, EditDevice(s, d, name)
      PROVE  Promise!Next
  <2>1. left["edit"] > 0 /\ left'["edit"] = left["edit"] - 1
    BY <1>5, EditBudget DEF EditDevice, Known
  <2>2. UNCHANGED <<up, queue, delayed, current, cr, declared>>
    BY <1>5 DEF EditDevice
  <2> QED
    BY <2>1, <2>2 DEF Promise!Interfere, Promise!Next, Pending
<1>6. CASE PeriodicResync
  <2>1. AttendedNames' = AttendedNames \cup Existing
    BY <1>6 DEF PeriodicResync, Resync, Existing, AttendedNames, Pending
  <2>2. up /\ UNCHANGED <<cr, up, Claims, FolderObjects, left>>
    BY <1>6 DEF PeriodicResync, Resync, Claims, FolderObjects
  <2> QED
    BY <2>1, <2>2
    DEF Promise!LookAgain, Promise!Next, Promise!Wanted, Existing, AttendedNames,
        Claims, FolderObjects
<1>7. CASE ProcessDies
  <2>1. UNCHANGED left["edit"]
    BY <1>7, OtherBudgets DEF ProcessDies, Crash, Disturbances, Known
  <2>2. AttendedNames' = {}
    BY <1>7, NoneIsNoValue DEF ProcessDies, Crash, Die, AttendedNames, Pending
  <2>3. up /\ up' = FALSE /\ UNCHANGED <<cr, Claims, FolderObjects>>
    BY <1>7 DEF ProcessDies, Crash, Die, Claims, FolderObjects
  <2> QED
    BY <2>1, <2>2, <2>3
    DEF Promise!Stop, Promise!Next, AttendedNames, Claims, FolderObjects
<1>8. CASE ProcessStarts
  <2>1. AttendedNames' = Existing
    BY <1>8, NoneIsNoValue
    DEF ProcessStarts, Restart, AttendedNames, Pending, Existing, Known, TypeInv,
        Consistent
  <2>2. ~up /\ up' = TRUE /\ UNCHANGED <<cr, Claims, FolderObjects, left>>
    BY <1>8 DEF ProcessStarts, Restart, Claims, FolderObjects
  <2> QED
    BY <2>1, <2>2
    DEF Promise!Start, Promise!Next, Promise!Wanted, Existing, AttendedNames,
        Claims, FolderObjects
<1> QED
  BY <1>1, <1>2, <1>3, <1>4, <1>5, <1>6, <1>7, <1>8, NothingShown DEF Environment

-----------------------------------------------------------------------------
\* If all resources are about one server, the Folder controller does what
\* LevelTriggered promises: it gives a folder up only when nobody wants it, and a
\* call it makes changes only what was claimed for the resource in hand.
THEOREM FolderKeepsPromise == ASSUME OneServer PROVE Spec => KeepsPromise
<1>1. Init => Promise!Init
  BY NoneIsNoValue, BudgetIsBound
  DEF Init, ControllerInit, Promise!Init, Pending, Disturbances
<1>2. Init => Asked
  BY NoneIsNoValue DEF Init, ControllerInit, Asked, Pending
<1>3. TypeInv /\ Asked /\ [Next]_vars => Asked'
  BY AskedStep
<1>4. TypeInv /\ Asked /\ StaleReadCovered /\ [Next]_vars
        => [Promise!Next]_(Promise!vars)
  <2> SUFFICES ASSUME Known, [Next]_vars
               PROVE  Promise!Next \/ UNCHANGED Promise!vars
    BY DEF Known
  <2>1. CASE Reconcile
    BY <2>1, ReconcileKeepsPromise DEF Promise!Next
  <2>2. CASE Environment
    BY <2>2, EnvironmentKeepsPromise
  <2>3. CASE UNCHANGED vars
    BY <2>3, NothingShown
    DEF vars, worldVars, controllerVars, shown, AttendedNames, Pending, Claims,
        FolderObjects
  <2> QED
    BY <2>1, <2>2, <2>3 DEF Next
<1> QED
  BY <1>1, <1>2, <1>3, <1>4, TypeCorrect, NeverForgotten, PTL
  DEF Spec, KeepsPromise, Promise!Spec

=============================================================================
