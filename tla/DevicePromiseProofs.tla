------------------------- MODULE DevicePromiseProofs -------------------------
(***************************************************************************)
(* DeviceController implements LevelTriggered, for any resources, servers, *)
(* specs and budgets, if nobody uses the name of a resource for a device   *)
(* in the WebUI.  That a deletion, which only knows a name, hits nothing   *)
(* but what the resource of that name has claimed is the heart of it.      *)
(***************************************************************************)
EXTENDS DeviceControllerProofs

-----------------------------------------------------------------------------
(* What the mapping shows of a state.                                          *)

AttendedNames == {k \in Resources : Pending(k)}
Claims        == {<<c[3], <<c[1], c[2]>>>> : c \in declared}
DeviceObjects == [o \in Servers \X DeviceIds |-> devices[o[1]][o[2]]]

shown == <<cr, up, AttendedNames, Claims, DeviceObjects, left["edit"]>>

\* The facts about a state that the mapping needs.
Known == TypeInv /\ StaleReadCovered /\ Claimed

\* A failing call, a misread answer and the death of the process leave the edits.
LEMMA OtherBudgets ==
  ASSUME TypeInv, NEW kind \in Disturbances, kind # "edit", Spend(kind)
  PROVE  UNCHANGED left["edit"]
BY DEF Spend, TypeInv, TypeOK, ControllerTypeOK, Disturbances

\* An edit takes one of them.
LEMMA EditBudget ==
  ASSUME TypeInv, Spend("edit")
  PROVE  left["edit"] > 0 /\ left'["edit"] = left["edit"] - 1
BY DEF Spend, TypeInv, TypeOK, ControllerTypeOK, Disturbances

\* A step that shows nothing is no step of LevelTriggered.
LEMMA NothingShown ==
  ASSUME UNCHANGED shown
  PROVE  UNCHANGED Promise!vars
BY DEF shown, AttendedNames, Claims, DeviceObjects, Promise!vars

\* A call about a device claimed by the resource in hand, that leaves nobody unattended
\* but, perhaps, that resource once it is gone, attends to it.
LEMMA CallAttends ==
  ASSUME Known, current \in Resources,
         NEW s \in Servers, NEW d \in DeviceIds, <<s, d, current>> \in declared,
         NEW element,
         UNCHANGED devices \/ devices' = [devices EXCEPT ![s][d] = element],
         \/ AttendedNames' = AttendedNames
         \/ cr[current] = None /\ AttendedNames' = AttendedNames \ {current},
         UNCHANGED cr, UNCHANGED up, UNCHANGED declared, UNCHANGED left["edit"]
  PROVE  \E k \in Resources : Promise!Attend(k)
<1>1. current \in AttendedNames
  BY DEF AttendedNames, Pending
<1>2. \A o \in Servers \X DeviceIds :
        DeviceObjects'[o] # DeviceObjects[o] => o = <<s, d>>
  BY DEF DeviceObjects, Known, TypeInv, TypeOK
<1>3. <<current, <<s, d>>>> \in Claims
  <2> DEFINE c == <<s, d, current>>
  <2>1. c \in declared /\ c[1] = s /\ c[2] = d /\ c[3] = current
    OBVIOUS
  <2> QED
    BY <2>1 DEF Claims
<1>4. UNCHANGED Claims
  BY DEF Claims
<1> QED
  BY <1>1, <1>2, <1>3, <1>4
  DEF Promise!Attend, AttendedNames, Claims, DeviceObjects

\* Reconcile gives up a resource it did not find.
LEMMA GivingUpAttends ==
  ASSUME Known, current \in Resources, spec = None, Forget,
         UNCHANGED <<cr, devices, declared>>, UNCHANGED left["edit"]
  PROVE  \E k \in Resources : Promise!Attend(k)
<1>1. current \in AttendedNames
  BY DEF AttendedNames, Pending
<1>2. \/ AttendedNames' = AttendedNames
      \/ cr[current] = None /\ AttendedNames' = AttendedNames \ {current}
  <2>1. CASE current \in queue \cup delayed
    BY <2>1, NoneIsNoValue DEF Forget, AttendedNames, Pending
  <2>2. CASE current \notin queue \cup delayed
    <3>1. cr[current] = None
      BY <2>2, NoneIsNoValue DEF Known, StaleReadCovered
    <3>2. AttendedNames' = AttendedNames \ {current}
      BY <2>2, NoneIsNoValue DEF Forget, AttendedNames, Pending
    <3> QED
      BY <3>1, <3>2
  <2> QED
    BY <2>1, <2>2
<1>3. UNCHANGED <<up, Claims, DeviceObjects>>
  BY DEF Forget, Claims, DeviceObjects
<1> QED
  BY <1>1, <1>2, <1>3 DEF Promise!Attend, AttendedNames, Claims, DeviceObjects

-----------------------------------------------------------------------------
\* Every step of Reconcile attends to the name in hand, or shows nothing.
LEMMA ReconcileKeepsPromise ==
  ASSUME Known, Reconcile
  PROVE  (\E k \in Resources : Promise!Attend(k)) \/ UNCHANGED Promise!vars
<1> USE DEF worldVars, controllerVars
<1>1. ASSUME NEW k \in Resources, Begin(k)
      PROVE  UNCHANGED shown
  BY <1>1, NoneIsNoValue
  DEF Begin, Take, shown, AttendedNames, Pending, Claims, DeviceObjects
<1>2. CASE Unreachable
  <2>1. UNCHANGED left["edit"]
    BY <1>2, OtherBudgets DEF Unreachable, Disturbances, Known
  <2>2. current \in Resources
    BY <1>2 DEF Unreachable, Known, TypeInv, TypeOK, ControllerTypeOK, Consistent
  <2>3. UNCHANGED shown
    BY <1>2, <2>1, <2>2, NoneIsNoValue
    DEF Unreachable, Requeue, shown, AttendedNames, Pending, Claims, DeviceObjects
  <2> QED
    BY <2>3, NothingShown
<1>3. CASE FetchForDeletion
  BY <1>3, NothingShown
  DEF FetchForDeletion, shown, AttendedNames, Pending, Claims, DeviceObjects
<1>4. CASE AlreadyGone
  <2>1. current \in Resources
    BY <1>4 DEF AlreadyGone, Known, TypeInv, TypeOK, ControllerTypeOK, Consistent
  <2> QED
    BY <1>4, <2>1, GivingUpAttends DEF AlreadyGone
<1>5. CASE DeleteDevice
  <2>1. /\ current \in Resources /\ spec = None
        /\ Endpoint(spec) \in Servers /\ target \in DeviceIds
    BY <1>5 DEF DeleteDevice, Known, TypeInv, TypeOK, ControllerTypeOK, Consistent
  <2>2. <<Endpoint(spec), target, current>> \in declared
    BY <1>5 DEF DeleteDevice, Known, Claimed, HandClaimed
  <2>3. UNCHANGED left["edit"]
    BY <1>5, OtherBudgets DEF DeleteDevice, Disturbances, Known
  <2>4. UNCHANGED <<cr, up, declared>>
    BY <1>5 DEF DeleteDevice, Forget, Requeue
  <2>5. UNCHANGED devices \/ devices' = [devices EXCEPT ![Endpoint(spec)][target] = None]
    BY <1>5 DEF DeleteDevice, RemoveDevice
  <2>6. \/ AttendedNames' = AttendedNames
        \/ cr[current] = None /\ AttendedNames' = AttendedNames \ {current}
    <3>1. CASE Requeue
      BY <2>1, <3>1, NoneIsNoValue DEF Requeue, AttendedNames, Pending
    <3>2. CASE Forget /\ current \in queue \cup delayed
      BY <2>1, <3>2, NoneIsNoValue DEF Forget, AttendedNames, Pending
    <3>3. CASE Forget /\ current \notin queue \cup delayed
      <4>1. cr[current] = None
        BY <2>1, <3>3, NoneIsNoValue DEF Known, StaleReadCovered
      <4>2. AttendedNames' = AttendedNames \ {current}
        BY <2>1, <3>3, NoneIsNoValue DEF Forget, AttendedNames, Pending
      <4> QED
        BY <4>1, <4>2
    <3> QED
      BY <1>5, <3>1, <3>2, <3>3 DEF DeleteDevice
  <2> QED
    BY <2>1, <2>2, <2>3, <2>4, <2>5, <2>6, CallAttends
<1>6. CASE FetchForUpdate
  <2>1. UNCHANGED <<controllerVars, worldVars>>
    BY <1>6 DEF FetchForUpdate
  <2> QED
    BY <2>1, NothingShown DEF shown, AttendedNames, Pending, Claims, DeviceObjects
<1>7. CASE NotChanged
  <2>1. current \in Resources
    BY <1>7 DEF NotChanged, Known, TypeInv, TypeOK, ControllerTypeOK, Consistent
  <2>2. UNCHANGED shown
    BY <1>7, <2>1, NoneIsNoValue
    DEF NotChanged, Requeue, shown, AttendedNames, Pending, Claims, DeviceObjects
  <2> QED
    BY <2>2, NothingShown
<1>8. CASE FetchMisread
  <2>1. UNCHANGED left["edit"]
    BY <1>8, OtherBudgets DEF FetchMisread, Disturbances, Known
  <2>2. CASE spec # None
    <3>1. UNCHANGED <<up, queue, delayed, current, worldVars>>
      BY <1>8, <2>2 DEF FetchMisread
    <3> QED
      BY <2>1, <3>1, NothingShown
      DEF shown, AttendedNames, Pending, Claims, DeviceObjects
  <2>3. CASE spec = None
    <3>1. current \in Resources
      BY <1>8 DEF FetchMisread, Known, TypeInv, TypeOK, ControllerTypeOK, Consistent
    <3>2. Forget /\ UNCHANGED <<cr, devices, declared>>
      BY <1>8, <2>3 DEF FetchMisread
    <3> QED
      BY <2>1, <2>3, <3>1, <3>2, GivingUpAttends
  <2> QED
    BY <2>2, <2>3
<1>9. CASE ReplaceDevice
  <2>1. current \in Resources /\ Endpoint(spec) \in Servers /\ target \in DeviceIds
    BY <1>9 DEF ReplaceDevice, Known, TypeInv, TypeOK, ControllerTypeOK, Consistent
  <2>2. <<Endpoint(spec), target, current>> \in declared
    BY <1>9 DEF ReplaceDevice, Known, Claimed, HandClaimed
  <2>3. UNCHANGED left["edit"]
    BY <1>9, OtherBudgets DEF ReplaceDevice, Disturbances, Known
  <2>4. UNCHANGED <<cr, up, declared>>
    BY <1>9 DEF ReplaceDevice, Requeue
  <2>5. UNCHANGED devices
        \/ devices' = [devices EXCEPT ![Endpoint(spec)][target] = device]
    BY <1>9 DEF ReplaceDevice, PutDevice
  <2>6. AttendedNames' = AttendedNames
    BY <1>9, <2>1, NoneIsNoValue DEF ReplaceDevice, Requeue, AttendedNames, Pending
  <2> QED
    BY <2>1, <2>2, <2>3, <2>4, <2>5, <2>6, CallAttends
<1> QED
  BY <1>1, <1>2, <1>3, <1>4, <1>5, <1>6, <1>7, <1>8, <1>9, NothingShown DEF Reconcile

\* So does every step of the surroundings.
LEMMA EnvironmentKeepsPromise ==
  ASSUME Known, Environment
  PROVE  Promise!Next \/ UNCHANGED Promise!vars
<1> USE DEF worldVars, controllerVars
<1>1. ASSUME NEW k \in Resources, NEW new \in DeviceSpecs[k], Declare(k, new)
      PROVE  Promise!Next
  <2>1. UNCHANGED left["edit"]
    BY <1>1, OtherBudgets DEF Declare, Disturbances, Known
  <2>2. \A j \in Resources \ {k} : cr'[j] = cr[j]
    BY <1>1 DEF Declare, Known, TypeInv, TypeOK
  <2>3. Claims \subseteq Claims'
    BY <1>1 DEF Declare, Claims
  <2>4. Claims' \ Claims \subseteq {k} \X (Servers \X DeviceIds)
    <3>1. CASE Endpoint(new) = None
      BY <1>1, <3>1 DEF Declare, Claims
    <3>2. CASE Endpoint(new) # None
      <4>1. Endpoint(new) \in Servers /\ new.id \in DeviceIds
        BY <3>2, EndpointType, SpecsAreSpecs DEF DeviceSpec
      <4>2. declared' = declared \cup {<<Endpoint(new), new.id, k>>}
        BY <1>1, <3>2 DEF Declare
      <4>3. ASSUME NEW p \in Claims' \ Claims
            PROVE  p = <<k, <<Endpoint(new), new.id>>>>
        BY <4>2, <4>3 DEF Claims
      <4> QED
        BY <4>1, <4>3
    <3> QED
      BY <3>1, <3>2
  <2>5. AttendedNames' = IF up THEN AttendedNames \cup {k} ELSE AttendedNames
    BY <1>1 DEF Declare, Notify, AttendedNames, Pending
  <2>6. UNCHANGED <<up, DeviceObjects>>
    BY <1>1 DEF Declare, Notify, DeviceObjects
  <2>7. Promise!ChangeWish(k)
    BY <2>1, <2>2, <2>3, <2>4, <2>5, <2>6
    DEF Promise!ChangeWish, AttendedNames, Claims, DeviceObjects
  <2> QED
    BY <2>7 DEF Promise!Next
<1>2. ASSUME NEW k \in Resources, Undeclare(k)
      PROVE  Promise!Next
  <2>1. UNCHANGED left["edit"]
    BY <1>2, OtherBudgets DEF Undeclare, Disturbances, Known
  <2>2. \A j \in Resources \ {k} : cr'[j] = cr[j]
    BY <1>2 DEF Undeclare, Known, TypeInv, TypeOK
  <2>3. AttendedNames' = IF up THEN AttendedNames \cup {k} ELSE AttendedNames
    BY <1>2 DEF Undeclare, Notify, AttendedNames, Pending
  <2>4. UNCHANGED <<up, Claims, DeviceObjects>>
    BY <1>2 DEF Undeclare, Notify, Claims, DeviceObjects
  <2>5. Promise!ChangeWish(k)
    BY <2>1, <2>2, <2>3, <2>4
    DEF Promise!ChangeWish, AttendedNames, Claims, DeviceObjects
  <2> QED
    BY <2>5 DEF Promise!Next
<1>3. ASSUME NEW k \in Resources, TimerExpires(k)
      PROVE  UNCHANGED shown
  BY <1>3
  DEF TimerExpires, TimerFires, shown, AttendedNames, Pending, Claims, DeviceObjects
<1>4. ASSUME NEW s \in Servers, NEW d \in DeviceIds,
             NEW new \in DeviceElement \cup {None}, WebUiDevice(s, d, new)
      PROVE  Promise!Next
  <2>1. left["edit"] > 0 /\ left'["edit"] = left["edit"] - 1
    BY <1>4, EditBudget DEF WebUiDevice, Known
  <2>2. UNCHANGED <<up, queue, delayed, current, cr, declared>>
    BY <1>4 DEF WebUiDevice
  <2> QED
    BY <2>1, <2>2 DEF Promise!Interfere, Promise!Next, Pending
<1>5. CASE PeriodicResync
  <2>1. AttendedNames' = AttendedNames \cup Existing
    BY <1>5 DEF PeriodicResync, Resync, Existing, AttendedNames, Pending
  <2>2. up /\ UNCHANGED <<cr, up, Claims, DeviceObjects, left>>
    BY <1>5 DEF PeriodicResync, Resync, Claims, DeviceObjects
  <2> QED
    BY <2>1, <2>2
    DEF Promise!LookAgain, Promise!Next, Promise!Wanted, Existing, AttendedNames,
        Claims, DeviceObjects
<1>6. CASE ProcessDies
  <2>1. UNCHANGED left["edit"]
    BY <1>6, OtherBudgets DEF ProcessDies, Crash, Disturbances, Known
  <2>2. AttendedNames' = {}
    BY <1>6, NoneIsNoValue DEF ProcessDies, Crash, Die, AttendedNames, Pending
  <2>3. up /\ up' = FALSE /\ UNCHANGED <<cr, Claims, DeviceObjects>>
    BY <1>6 DEF ProcessDies, Crash, Die, Claims, DeviceObjects
  <2> QED
    BY <2>1, <2>2, <2>3
    DEF Promise!Stop, Promise!Next, AttendedNames, Claims, DeviceObjects
<1>7. CASE ProcessStarts
  <2>1. AttendedNames' = Existing
    BY <1>7, NoneIsNoValue
    DEF ProcessStarts, Restart, AttendedNames, Pending, Existing, Known, TypeInv,
        Consistent
  <2>2. ~up /\ up' = TRUE /\ UNCHANGED <<cr, Claims, DeviceObjects, left>>
    BY <1>7 DEF ProcessStarts, Restart, Claims, DeviceObjects
  <2> QED
    BY <2>1, <2>2
    DEF Promise!Start, Promise!Next, Promise!Wanted, Existing, AttendedNames,
        Claims, DeviceObjects
<1> QED
  BY <1>1, <1>2, <1>3, <1>4, <1>5, <1>6, <1>7, NothingShown DEF Environment

-----------------------------------------------------------------------------
\* If nobody uses the name of a resource in the WebUI, the Device controller does
\* what LevelTriggered promises, on any number of servers: every PUT and every
\* DELETE, though that one is aimed by name, is about a device the resource in hand
\* has claimed, and a name is given up only when nobody wants it.
THEOREM DeviceKeepsPromise == ASSUME NamesApart PROVE Spec => KeepsPromise
<1>1. Init => Promise!Init
  BY NoneIsNoValue, BudgetIsBound
  DEF Init, ControllerInit, Promise!Init, Pending, Disturbances
<1>2. Init => Claimed
  BY DEF Init, Claimed, SpecsClaimed, NamesClaimed, HandClaimed
<1>3. TypeInv /\ Claimed /\ [Next]_vars => Claimed'
  <2>1. Claimed /\ UNCHANGED vars => Claimed'
    BY DEF Claimed, SpecsClaimed, NamesClaimed, HandClaimed, Endpoint, vars, worldVars,
       localVars, controllerVars
  <2> QED
    BY <2>1, ReconcileClaimed, EnvironmentClaimed DEF Next
<1>4. TypeInv /\ Claimed /\ StaleReadCovered /\ [Next]_vars
        => [Promise!Next]_(Promise!vars)
  <2> SUFFICES ASSUME Known, [Next]_vars
               PROVE  Promise!Next \/ UNCHANGED Promise!vars
    BY DEF Known
  <2>1. CASE Reconcile
    BY <2>1, ReconcileKeepsPromise DEF Promise!Next
  <2>2. CASE Environment
    BY <2>2, EnvironmentKeepsPromise
  <2>3. CASE UNCHANGED vars
    BY <2>3, NothingShown
    DEF vars, worldVars, controllerVars, shown, AttendedNames, Pending, Claims,
        DeviceObjects
  <2> QED
    BY <2>1, <2>2, <2>3 DEF Next
<1> QED
  BY <1>1, <1>2, <1>3, <1>4, TypeCorrect, NeverForgotten, PTL
  DEF Spec, KeepsPromise, Promise!Spec

=============================================================================
