--------------------------- MODULE LevelTriggered ---------------------------
(***************************************************************************)
(* What a controller of this operator promises, whatever it manages and    *)
(* however many API calls one reconcile takes: it attends to every name    *)
(* somebody wants something for, it gives a name up only when nobody wants *)
(* anything for it any more, and it touches only what was claimed for a    *)
(* name it attends to.  When it comes to what, and how, is left open.      *)
(*                                                                         *)
(* FolderController and DeviceController implement this (their definition  *)
(* Promise is the refinement mapping).                                     *)
(***************************************************************************)
EXTENDS Naturals

CONSTANTS
  Names,    \* what custom resources are called
  Objects,  \* what there may be on the Syncthing servers
  None      \* no wish; no object

VARIABLES
  wish,      \* wish[k]: what the custom resource k asks for, or None
  running,   \* the operator process runs
  attended,  \* names that are being looked at or are going to be
  claims,    \* <<k, o>>: k has asked for o at some time
  objects,   \* objects[o]: what o is like, or None
  edits      \* how often others may still interfere with the objects

vars == <<wish, running, attended, claims, objects, edits>>

Wanted == {k \in Names : wish[k] # None}

Init ==
  /\ wish = [k \in Names |-> None]
  /\ running = TRUE
  /\ attended = {}
  /\ claims = {}
  /\ objects = [o \in Objects |-> None]
  /\ edits \in Nat

-----------------------------------------------------------------------------
\* A user changes what is wanted for k, and a running operator is told.
ChangeWish(k) ==
  /\ \A j \in Names \ {k} : wish'[j] = wish[j]
  /\ claims \subseteq claims'
  /\ claims' \ claims \subseteq {k} \X Objects
  /\ attended' = IF running THEN attended \cup {k} ELSE attended
  /\ UNCHANGED <<running, objects, edits>>

\* The controller does something about k: at most to what was claimed for k, and k
\* is given up only if nothing is wanted for it.
Attend(k) ==
  /\ k \in attended
  /\ \A o \in Objects : objects'[o] # objects[o] => <<k, o>> \in claims
  /\ attended' = attended \/ (wish[k] = None /\ attended' = attended \ {k})
  /\ UNCHANGED <<wish, running, claims, edits>>

\* The controller looks after everything that is wanted.
LookAgain ==
  /\ running
  /\ attended' = attended \cup Wanted
  /\ UNCHANGED <<wish, running, claims, objects, edits>>

\* Somebody else changes objects.
Interfere ==
  /\ edits > 0
  /\ edits' = edits - 1
  /\ UNCHANGED <<wish, running, attended, claims>>

\* A process that stops knows nothing when it starts again but what is wanted.
Stop ==
  /\ running
  /\ running' = FALSE
  /\ attended' = {}
  /\ UNCHANGED <<wish, claims, objects, edits>>

Start ==
  /\ ~running
  /\ running' = TRUE
  /\ attended' = Wanted
  /\ UNCHANGED <<wish, claims, objects, edits>>

Next ==
  \/ \E k \in Names : ChangeWish(k) \/ Attend(k)
  \/ LookAgain \/ Interfere \/ Stop \/ Start

Spec == Init /\ [][Next]_vars

=============================================================================
