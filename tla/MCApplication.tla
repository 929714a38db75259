--------------------------- MODULE MCApplication ----------------------------
(***************************************************************************)
(* Values for model-checking ApplicationSettings.                          *)
(***************************************************************************)
EXTENDS ApplicationSettings, TLC

CONSTANTS
  inst,         \* the Instance
  s1,           \* unused server of module Controller
  admin, root,  \* users
  apikey, own   \* passwords

Limits(user, edit, fault, misread, crash) ==
  [kind \in Disturbances |->
    CASE kind = "user" -> user
      [] kind = "edit" -> edit
      [] kind = "fault" -> fault
      [] kind = "misread" -> misread
      [] kind = "crash" -> crash]

Limits22111 == Limits(2, 2, 1, 1, 1)

InstanceCr(enabled, insecure, user, key, send, recv) ==
  [enabled |-> enabled, insecureWeb |-> insecure,
   user |-> user, key |-> key, send |-> send, recv |-> recv]

AllSpecs ==
  {InstanceCr(TRUE, FALSE, admin, apikey, 4001, 5000),
   InstanceCr(TRUE, FALSE, root, apikey, None, 5000),
   InstanceCr(TRUE, TRUE, admin, apikey, 4001, 5000),
   InstanceCr(FALSE, FALSE, admin, apikey, None, None)}

=============================================================================
