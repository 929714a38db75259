------------------------------ MODULE MCDevice ------------------------------
(***************************************************************************)
(* Values for model-checking DeviceController: budgets and specs.          *)
(***************************************************************************)
EXTENDS DeviceController, TLC

CONSTANTS
  nas, phone,   \* resources
  tablet,       \* a name only the WebUI uses
  s1, s2,       \* servers
  d1, d2        \* device ids

Limits(user, edit, fault, misread, crash) ==
  [kind \in Disturbances |->
    CASE kind = "user" -> user
      [] kind = "edit" -> edit
      [] kind = "fault" -> fault
      [] kind = "misread" -> misread
      [] kind = "crash" -> crash]

Limits30000 == Limits(3, 0, 0, 0, 0)
Limits31111 == Limits(3, 1, 1, 1, 1)

DeviceCr(server, id, autoAccept) ==
  [server |-> server, id |-> id, autoAccept |-> autoAccept]

\* The resources may claim the same device, and nas may change its mind.
AnyIds ==
  (nas   :> {DeviceCr(None, d1, TRUE), DeviceCr(None, d2, TRUE)}) @@
  (phone :> {DeviceCr(None, d2, accept) : accept \in BOOLEAN})

OneResource == nas :> {DeviceCr(None, d1, TRUE), DeviceCr(None, d2, TRUE)}

=============================================================================
