------------------------ MODULE ApplicationSettings -------------------------
(***************************************************************************)
(* The Instance controller as far as Syncthing's own options go:           *)
(* ReconcileApplication of controllers/instance_controller.go and the      *)
(* PATCH requests of pkg/syncthing-client/st_api.go.  Creating the         *)
(* Kubernetes objects is the module InstanceController; here they are      *)
(* there.                                                                  *)
(*                                                                         *)
(* Reconcile fetches the configuration once, decides from that snapshot    *)
(* which of three requests are needed, and sends them one after the other; *)
(* an error ends it, to be retried, and success ends it without a further  *)
(* look being scheduled.                                                   *)
(***************************************************************************)
EXTENDS Controller, Sequences

CONSTANTS
  Self,            \* the Instance resource
  Users,           \* names for the admin user
  Passwords,       \* API keys and passwords
  Empty,           \* ""
  Quantities,      \* values of the bandwidth limits, in bytes
  Rates,           \* the same as Syncthing has them, in kilobytes
  ApplicationSpecs \* the specs users write

\* InstanceSpec of api/v1/instance_types.go, as far as ReconcileApplication and its
\* call read it; key is the apikey of the resource, empty if it is in a Secret.
ApplicationSpec ==
  [enabled     : BOOLEAN,
   insecureWeb : BOOLEAN,
   user        : Users,
   key         : Passwords \cup {Empty},
   send        : Quantities \cup {None},
   recv        : Quantities \cup {None}]

\* fillDefaultValues: no limit is 0, and ScaledValue(Kilo) rounds up.
Kbps(quantity) == IF quantity = None THEN 0 ELSE (quantity + 999) \div 1000

\* OptionsElement and GuiElement of st_api.go; insecure is InsecureAdminAccess.
\* Syncthing asks the user as long as the usage report is neither denied nor allowed.
Options ==
  [usage    : {"denied", "undecided", "allowed"},
   insecure : BOOLEAN,
   user     : Users \cup {Empty},
   password : Passwords \cup {Empty},
   send     : Rates,
   recv     : Rates]

ASSUME QuantitiesAreRates ==
  /\ Quantities \subseteq Nat /\ None \notin Nat
  /\ {Kbps(q) : q \in Quantities \cup {None}} \subseteq Rates
ASSUME SelfIsTheResource == Self \in Resources
ASSUME ApplicationSpecsAreSpecs ==
  ApplicationSpecs \subseteq ApplicationSpec /\ None \notin ApplicationSpecs

VARIABLES
  cr,       \* the spec of the Instance, or None
  options,  \* the options in Syncthing
  pc,       \* where Reconcile is
  spec,     \* instanceCr.Spec of the reconcile under way
  todo,     \* the requests still to be sent
  undisturbed \* history: config is what Syncthing has had since it was fetched

localVars == <<pc, spec, todo, undisturbed>>
vars == <<controllerVars, cr, options, localVars>>

Requests == {"usage", "auth", "speed"}

TypeOK ==
  /\ ControllerTypeOK
  /\ cr \in ApplicationSpecs \cup {None}
  /\ options \in Options
  /\ pc \in {"idle", "fetch", "patch"}
  /\ spec \in ApplicationSpecs \cup {None}
  /\ todo \in Seq(Requests)
  /\ undisturbed \in BOOLEAN

\* Syncthing as it is installed, or as somebody has set it up before.
Init ==
  /\ ControllerInit
  /\ cr = None
  /\ \E rate \in Rates, user \in Users \cup {Empty}, usage \in {"denied", "undecided"} :
       options = [usage |-> usage, insecure |-> FALSE, user |-> user,
                  password |-> Empty, send |-> rate, recv |-> rate]
  /\ pc = "idle"
  /\ spec = None
  /\ todo = <<>>
  /\ undisturbed = TRUE

Existing == IF cr = None THEN {} ELSE {Self}

-----------------------------------------------------------------------------
(* What Reconcile computes.                                                *)

\* Wrong: the password is reset whenever it is not the key.
NeedsAuthForPassword(o, s) ==
  IF s.insecureWeb THEN o.insecure ELSE o.user # s.user \/ o.password # s.key

\* Wrong: an admin user that is there already is taken for the right one.
NeedsAuthAtFirst(o, s) == IF s.insecureWeb THEN o.insecure ELSE o.user = Empty

\* Authentication is switched off if InsecureAdminAccess says so, and otherwise set
\* when the user is not the admin user; the password is not looked at.
NeedsAuth(o, s) == IF s.insecureWeb THEN o.insecure ELSE o.user # s.user

Needed(request, o, s) ==
  CASE request = "usage" -> o.usage # "denied"
    [] request = "auth"  -> NeedsAuth(o, s)
    [] request = "speed" -> o.send # Kbps(s.send) /\ o.recv # Kbps(s.recv)

\* The requests, in the order they are sent.
Plan(o, s) ==
  LET IfNeeded(request) == IF Needed(request, o, s) THEN <<request>> ELSE <<>>
  IN  IfNeeded("usage") \o IfNeeded("auth") \o IfNeeded("speed")

\* What GetConfig makes of an answer that is no configuration.
EmptyOptions ==
  [usage |-> "undecided", insecure |-> FALSE, user |-> Empty, password |-> Empty,
   send |-> 0, recv |-> 0]

\* Wrong: SetAuth is called with user name and password swapped.
PatchedSwapped(o, request, s) ==
  CASE request = "usage" -> [o EXCEPT !.usage = "allowed"]
    [] request = "auth" ->
         [o EXCEPT !.insecure = ~s.insecureWeb,
                   !.user = IF s.insecureWeb THEN Empty ELSE s.key,
                   !.password = IF s.insecureWeb THEN Empty ELSE s.user]
    [] request = "speed" -> [o EXCEPT !.send = Kbps(s.send), !.recv = Kbps(s.recv)]

\* SendUsageStatistics(AllowUsageReport), SetAuth and SetSpeed.  A PATCH changes
\* what it mentions.
Patched(o, request, s) ==
  CASE request = "usage" -> [o EXCEPT !.usage = "allowed"]
    [] request = "auth" ->
         [o EXCEPT !.insecure = ~s.insecureWeb,
                   !.user = IF s.insecureWeb THEN Empty ELSE s.user,
                   !.password = IF s.insecureWeb THEN Empty ELSE s.key]
    [] request = "speed" -> [o EXCEPT !.send = Kbps(s.send), !.recv = Kbps(s.recv)]

-----------------------------------------------------------------------------
(* Reconcile.                                                              *)

Return ==
  /\ pc' = "idle"
  /\ spec' = None
  /\ todo' = <<>>
  /\ undisturbed' = TRUE

Begin ==
  /\ Take(Self)
  /\ pc' = "fetch"
  /\ spec' = cr
  /\ UNCHANGED <<todo, undisturbed, left, cr, options>>

\* The resource is gone, or wants no configuration.
NothingManaged ==
  /\ pc = "fetch"
  /\ spec # None => ~spec.enabled
  /\ Forget
  /\ Return
  /\ UNCHANGED <<left, cr, options>>

\* No connection, no answer to the ping, no configuration.
Unreachable ==
  /\ pc = "fetch"
  /\ spec # None /\ spec.enabled
  /\ Spend("fault")
  /\ Requeue
  /\ Return
  /\ UNCHANGED <<cr, options>>

Fetch ==
  /\ pc = "fetch"
  /\ spec # None /\ spec.enabled
  /\ pc' = "patch"
  /\ todo' = Plan(options, spec)
  /\ undisturbed' = TRUE
  /\ UNCHANGED <<controllerVars, cr, options, spec>>

\* GetConfig looks at no status: an error document in JSON is an empty
\* configuration, in which there is no admin user yet.
FetchMisread ==
  /\ pc = "fetch"
  /\ spec # None /\ spec.enabled
  /\ Spend("misread")
  /\ pc' = "patch"
  /\ todo' = Plan(EmptyOptions, spec)
  /\ undisturbed' = FALSE
  /\ UNCHANGED <<up, queue, delayed, current, cr, options, spec>>

\* The next request: it succeeds, or it fails and has or has not been carried out.
Patch ==
  /\ pc = "patch"
  /\ todo # <<>>
  /\ \/ /\ options' = Patched(options, Head(todo), spec)
        /\ todo' = Tail(todo)
        /\ UNCHANGED <<controllerVars, pc, spec, undisturbed>>
     \/ /\ Spend("fault")
        /\ UNCHANGED options \/ options' = Patched(options, Head(todo), spec)
        /\ Requeue
        /\ Return
  /\ UNCHANGED cr

Configured ==
  /\ pc = "patch"
  /\ todo = <<>>
  /\ Forget
  /\ Return
  /\ UNCHANGED <<left, cr, options>>

-----------------------------------------------------------------------------
(* The surroundings.                                                       *)

Declare(new) ==
  /\ new # cr
  /\ Spend("user")
  /\ cr' = new
  /\ Notify(Self)
  /\ UNCHANGED <<options, localVars>>

Undeclare ==
  /\ cr # None
  /\ Spend("user")
  /\ cr' = None
  /\ Notify(Self)
  /\ UNCHANGED <<options, localVars>>

\* Somebody changes an option in the WebUI: the admin, the usage report or a limit.
WebUiEdit ==
  /\ Spend("edit")
  /\ \/ \E user \in Users \cup {Empty}, password \in Passwords \cup {Empty} :
          options' = [options EXCEPT !.user = user, !.password = password]
     \/ options' = [options EXCEPT !.usage = "denied"]
     \/ \E rate \in Rates : options' = [options EXCEPT !.send = rate]
  /\ undisturbed' = (undisturbed /\ pc # "patch")
  /\ UNCHANGED <<up, queue, delayed, current, cr, pc, spec, todo>>

TimerExpires == TimerFires(Self) /\ UNCHANGED <<cr, options, localVars>>

PeriodicResync == Resync(Existing) /\ UNCHANGED <<cr, options, localVars>>

ProcessDies == Crash /\ Return /\ UNCHANGED <<cr, options>>

ProcessStarts == Restart(Existing) /\ UNCHANGED <<cr, options, localVars>>

-----------------------------------------------------------------------------
Reconcile ==
  Begin \/ NothingManaged \/ Unreachable \/ Fetch \/ FetchMisread \/ Patch \/ Configured

Environment ==
  \/ \E new \in ApplicationSpecs : Declare(new)
  \/ Undeclare
  \/ WebUiEdit
  \/ TimerExpires \/ PeriodicResync \/ ProcessDies \/ ProcessStarts

Next == Reconcile \/ Environment

Spec == Init /\ [][Next]_vars

\* Syncthing answers (the client sets no timeout, client.go:119), so Reconcile does not
\* block; timers expire, a dead process is restarted, and the informers re-deliver every SyncPeriod (main.go).
Fairness ==
  /\ WF_vars(Reconcile)
  /\ WF_vars(TimerExpires)
  /\ WF_vars(ProcessStarts)
  /\ SF_vars(PeriodicResync)

FairSpec == Spec /\ Fairness

Managed == cr # None /\ cr.enabled

-----------------------------------------------------------------------------
(* Safety.                                                                 *)

\* "This password is set once, changes in the UI are not reset"
\* (instance_controller.go:327): while the admin user is the one the resource
\* names, no reconcile changes the password, not even the retry of one that failed
\* half-way.
ManualPasswordKept ==
  [][(Reconcile /\ spec # None /\ ~spec.insecureWeb /\ undisturbed
        /\ options.user = spec.user)
       => options'.password = options.password]_vars

-----------------------------------------------------------------------------
(* Liveness.                                                               *)

\* Once everybody leaves it alone, Syncthing has the admin user of the resource,
\* does not ask about the usage report ("make the popup go away",
\* instance_controller.go:316) and has at least one of the limits (they are sent only
\* when both differ, instance_controller.go:358): also after failed requests, after
\* answers that were misread, and after edits nobody is notified of.
Converges ==
  <>[](Managed => /\ options.usage # "undecided"
                  /\ ~cr.insecureWeb => options.user = cr.user
                  /\ \/ options.send = Kbps(cr.send)
                     \/ options.recv = Kbps(cr.recv))

=============================================================================
