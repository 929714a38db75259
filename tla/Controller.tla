----------------------------- MODULE Controller -----------------------------
(***************************************************************************)
(* One controller of the operator as main.go sets it up on the             *)
(* controller-runtime manager: watch events put the name of a custom       *)
(* resource into a de-duplicating work queue, ONE worker takes names out   *)
(* and reconciles them, and what Reconcile returns decides whether the     *)
(* name comes back by a timer.  The queue, the timers and the worker live  *)
(* in the process: a restart loses them, and the start-up listing sees     *)
(* only the resources that exist at that moment.                           *)
(*                                                                         *)
(* The custom resources are modelled as the informer cache shows them      *)
(* (r.Get reads that cache), so a user's change and its watch event are    *)
(* one step: the lag of the cache is the user acting later.                *)
(*                                                                         *)
(* Also here, because every reconciler shares it: the Syncthing server a   *)
(* resource is about, and the budget that bounds the environment.          *)
(***************************************************************************)
EXTENDS Naturals

CONSTANTS
  Resources,      \* names of the custom resources of one kind
  None,           \* "no value": nil, not found, empty string
  Servers,        \* Syncthing API endpoints
  DefaultServer,  \* the endpoint found in the namespace, or None
  Budget          \* how often each kind of disturbance may happen

\* What the surroundings may do: a user edits custom resources, somebody edits
\* what a controller manages (in the WebUI, with kubectl), an API call fails, an
\* answer that is no configuration passes for one, the operator process dies.
Disturbances == {"user", "edit", "fault", "misread", "crash"}

ASSUME NoneIsNoValue == None \notin Resources \cup Servers
ASSUME DefaultServerIsServer == DefaultServer \in Servers \cup {None}
ASSUME BudgetIsBound == Budget \in [Disturbances -> Nat]

VARIABLES
  up,       \* the operator process runs
  queue,    \* names waiting in the work queue
  delayed,  \* names waiting for a timer (RequeueAfter, rate-limited retry)
  current,  \* the name the worker is reconciling, or None
  left      \* what is left of Budget

controllerVars == <<up, queue, delayed, current, left>>

ControllerTypeOK ==
  /\ up \in BOOLEAN
  /\ queue \in SUBSET Resources
  /\ delayed \in SUBSET Resources
  /\ current \in Resources \cup {None}
  /\ left \in [Disturbances -> Nat]

ControllerInit ==
  /\ up = TRUE
  /\ queue = {}
  /\ delayed = {}
  /\ current = None
  /\ left = Budget

-----------------------------------------------------------------------------
\* A reconcile of k is under way or certain to come while the process runs.
Pending(k) == k \in queue \cup delayed \/ current = k

Spend(kind) ==
  /\ left[kind] > 0
  /\ left' = [left EXCEPT ![kind] = @ - 1]

\* The watch event for a change of k; nobody listens while the process is down.
Notify(k) ==
  /\ queue' = IF up THEN queue \cup {k} ELSE queue
  /\ UNCHANGED <<up, delayed, current>>

\* The worker takes k.  An event for k that arrives from now on puts k back into
\* the queue, and k is reconciled again afterwards.
Take(k) ==
  /\ current = None
  /\ k \in queue
  /\ current' = k
  /\ queue' = queue \ {k}
  /\ UNCHANGED <<up, delayed>>

\* Reconcile returns ctrl.Result{}, nil: nothing is scheduled.
Forget ==
  /\ current' = None
  /\ UNCHANGED <<up, queue, delayed>>

\* Reconcile returns an error or asks for a requeue: k comes back by a timer,
\* whose length is the only difference between the two.
Requeue ==
  /\ current' = None
  /\ delayed' = delayed \cup {current}
  /\ UNCHANGED <<up, queue>>

\* The timer of k expires.
TimerFires(k) ==
  /\ k \in delayed
  /\ delayed' = delayed \ {k}
  /\ queue' = queue \cup {k}
  /\ UNCHANGED <<up, current, left>>

\* Every SyncPeriod the informer re-delivers the resources it knows.
Resync(existing) ==
  /\ up
  /\ queue' = queue \cup existing
  /\ UNCHANGED <<up, delayed, current, left>>

\* With the process go its queue, its timers and its worker.
Die ==
  /\ up' = FALSE
  /\ queue' = {}
  /\ delayed' = {}
  /\ current' = None

\* The process is killed, wherever the worker is.
Crash == up /\ Spend("crash") /\ Die

\* The process starts: the informers list what exists and enqueue it.
Restart(existing) ==
  /\ ~up
  /\ up' = TRUE
  /\ queue' = existing
  /\ UNCHANGED <<delayed, current, left>>

-----------------------------------------------------------------------------
\* The endpoint syncthingclient.FromCr selects: the one in the resource if it
\* names one, otherwise what the namespace yields.  When the resource is gone
\* its spec is the zero value, which names none.
Endpoint(spec) ==
  IF spec # None /\ spec.server # None THEN spec.server ELSE DefaultServer

=============================================================================
