--------------------- MODULE ApplicationSettingsProofs ----------------------
(***************************************************************************)
(* Proofs about ApplicationSettings, for any specs, users, passwords and   *)
(* limits and any budget of disturbances: type correctness, and that a     *)
(* password that was changed by hand is not reset, whatever fails or dies  *)
(* between the requests.                                                   *)
(***************************************************************************)
EXTENDS ApplicationSettings, SequenceTheorems, TLAPS

-----------------------------------------------------------------------------
(* What the helpers return.                                                *)

\* SetAuth is among the requests, and is so once.
AuthIn(t) == \E i \in 1..Len(t) : t[i] = "auth"

AuthOnce(t) == \A i, j \in 1..Len(t) : t[i] = "auth" /\ t[j] = "auth" => i = j

\* What is left of them when the first has been sent.
LEMMA RestOfRequests ==
  ASSUME NEW t \in Seq(Requests), t # <<>>, AuthOnce(t)
  PROVE  /\ Head(t) \in Requests
         /\ Tail(t) \in Seq(Requests)
         /\ AuthOnce(Tail(t))
         /\ AuthIn(t) <=> Head(t) = "auth" \/ AuthIn(Tail(t))
         /\ ~(Head(t) = "auth" /\ AuthIn(Tail(t)))
<1>1. /\ Head(t) = t[1] /\ Len(t) \in Nat /\ Len(t) >= 1
      /\ Tail(t) \in Seq(Requests) /\ Len(Tail(t)) = Len(t) - 1
      /\ \A i \in 1..Len(t) - 1 : Tail(t)[i] = t[i + 1]
  BY HeadTailProperties, EmptySeq
<1>2. AuthOnce(Tail(t))
  <2> SUFFICES ASSUME NEW i \in 1..Len(t) - 1, NEW j \in 1..Len(t) - 1,
                      t[i + 1] = "auth", t[j + 1] = "auth"
               PROVE  i = j
    BY <1>1 DEF AuthOnce
  <2> QED
    BY <1>1 DEF AuthOnce
<1>3. AuthIn(Tail(t)) <=> \E i \in 1..Len(t) - 1 : t[i + 1] = "auth"
  BY <1>1 DEF AuthIn
<1>4. (\E i \in 1..Len(t) - 1 : t[i + 1] = "auth")
        <=> (\E j \in 2..Len(t) : t[j] = "auth")
  <2>1. ASSUME NEW j \in 2..Len(t), t[j] = "auth"
        PROVE  \E i \in 1..Len(t) - 1 : t[i + 1] = "auth"
    <3>1. j - 1 \in 1..Len(t) - 1 /\ (j - 1) + 1 = j
      BY <1>1
    <3> QED
      BY <2>1, <3>1
  <2> QED
    BY <1>1, <2>1
<1> QED
  BY <1>1, <1>2, <1>3, <1>4 DEF AuthIn, AuthOnce

\* A request that is needed is there, and nothing else.
LEMMA OneOrNone ==
  ASSUME NEW request \in Requests, NEW t, t = <<request>> \/ t = <<>>
  PROVE  /\ t \in Seq(Requests)
         /\ Len(t) = IF t = <<>> THEN 0 ELSE 1
         /\ \A i \in 1..Len(t) : t[i] = request
<1>1. CASE t = <<request>>
  <2>1. Len(t) = 1 /\ t[1] = request /\ t # <<>> /\ t \in Seq(Requests)
    BY <1>1
  <2> QED
    BY <2>1
<1>2. CASE t = <<>>
  BY <1>2
<1> QED
  BY <1>1, <1>2

\* The plan contains SetAuth exactly if it is needed, and once.
LEMMA PlanType ==
  ASSUME NEW o, NEW s
  PROVE  /\ Plan(o, s) \in Seq(Requests)
         /\ AuthOnce(Plan(o, s))
         /\ AuthIn(Plan(o, s)) <=> NeedsAuth(o, s)
<1> DEFINE IfNeeded(request) == IF Needed(request, o, s) THEN <<request>> ELSE <<>>
           u == IfNeeded("usage")
           a == IfNeeded("auth")
           p == IfNeeded("speed")
<1>1. Plan(o, s) = (u \o a) \o p
  BY DEF Plan
<1>2. /\ u \in Seq(Requests) /\ Len(u) \in {0, 1} /\ \A i \in 1..Len(u) : u[i] = "usage"
      /\ a \in Seq(Requests) /\ Len(a) \in {0, 1} /\ \A i \in 1..Len(a) : a[i] = "auth"
      /\ p \in Seq(Requests) /\ Len(p) \in {0, 1} /\ \A i \in 1..Len(p) : p[i] = "speed"
  BY OneOrNone DEF Requests
<1>3. Len(a) = 1 <=> NeedsAuth(o, s)
  BY DEF Needed
<1> HIDE DEF u, a, p
<1>4. /\ u \o a \in Seq(Requests) /\ Len(u \o a) = Len(u) + Len(a)
      /\ \A i \in 1..Len(u) + Len(a) :
           (u \o a)[i] = IF i <= Len(u) THEN u[i] ELSE a[i - Len(u)]
  BY <1>2
<1> DEFINE ua == u \o a
<1> HIDE DEF ua
<1>5. /\ ua \in Seq(Requests) /\ Len(ua) = Len(u) + Len(a)
      /\ \A i \in 1..Len(ua) : ua[i] = "auth" <=> i = Len(u) + 1
  BY <1>2, <1>4 DEF ua
<1>6. /\ ua \o p \in Seq(Requests) /\ Len(ua \o p) = Len(ua) + Len(p)
      /\ \A i \in 1..Len(ua) + Len(p) :
           (ua \o p)[i] = IF i <= Len(ua) THEN ua[i] ELSE p[i - Len(ua)]
  BY <1>2, <1>5
<1> DEFINE all == ua \o p
<1>7. all = Plan(o, s)
  BY <1>1 DEF ua
<1> HIDE DEF all
<1>8. /\ all \in Seq(Requests) /\ Len(all) = Len(ua) + Len(p)
      /\ \A i \in 1..Len(all) : all[i] = "auth" <=> i = Len(u) + 1 /\ Len(a) = 1
  BY <1>2, <1>5, <1>6 DEF all
<1>9. AuthOnce(all)
  BY <1>2, <1>8 DEF AuthOnce
<1>10. AuthIn(all) <=> Len(a) = 1
  <2>1. Len(a) = 1 => Len(u) + 1 \in 1..Len(all)
    BY <1>2, <1>5, <1>8
  <2> QED
    BY <1>8, <2>1 DEF AuthIn
<1> QED
  BY <1>3, <1>7, <1>8, <1>9, <1>10

\* What a request makes of the options, and what it leaves alone of the admin user.
LEMMA PatchedType ==
  ASSUME NEW o \in Options, NEW s \in ApplicationSpecs, NEW request \in Requests
  PROVE  /\ Patched(o, request, s) \in Options
         /\ request # "auth" => /\ Patched(o, request, s).insecure = o.insecure
                                /\ Patched(o, request, s).user = o.user
                                /\ Patched(o, request, s).password = o.password
<1>1. s \in ApplicationSpec
  BY ApplicationSpecsAreSpecs
<1>2. Kbps(s.send) \in Rates /\ Kbps(s.recv) \in Rates
  <2>1. s.send \in Quantities \cup {None} /\ s.recv \in Quantities \cup {None}
    BY <1>1 DEF ApplicationSpec
  <2> QED
    BY <2>1, QuantitiesAreRates
<1>3. CASE request = "usage"
  BY <1>3 DEF Patched, Options
<1>4. CASE request = "auth"
  <2>1. /\ s.insecureWeb \in BOOLEAN /\ s.user \in Users
        /\ s.key \in Passwords \cup {Empty}
    BY <1>1 DEF ApplicationSpec
  <2>2. Patched(o, request, s) =
          [o EXCEPT !.insecure = ~s.insecureWeb,
                    !.user = IF s.insecureWeb THEN Empty ELSE s.user,
                    !.password = IF s.insecureWeb THEN Empty ELSE s.key]
    BY <1>4 DEF Patched
  <2>3. CASE s.insecureWeb
    BY <1>4, <2>2, <2>3 DEF Options
  <2>4. CASE ~s.insecureWeb
    BY <1>4, <2>1, <2>2, <2>4 DEF Options
  <2> QED
    BY <2>3, <2>4
<1>5. CASE request = "speed"
  BY <1>2, <1>5 DEF Patched, Options
<1> QED
  BY <1>3, <1>4, <1>5 DEF Requests

-----------------------------------------------------------------------------
(* Types, and a password that was changed by hand.                         *)

\* Where Reconcile is tells what it has in its hands.
Consistent ==
  /\ current = None <=> pc = "idle"
  /\ pc # "idle" => current = Self
  /\ pc = "patch" => spec # None
  /\ pc # "patch" => todo = <<>>
  /\ AuthOnce(todo)

\* The snapshot is out of date in nothing SetAuth depends on: while it is still to be
\* sent, and nobody has interfered, it is still needed.
AuthStillNeeded ==
  pc = "patch" /\ undisturbed /\ AuthIn(todo) => NeedsAuth(options, spec)

SettingsInv == TypeOK /\ Consistent /\ AuthStillNeeded

LEMMA SettingsInvInit == Init => SettingsInv
<1> SUFFICES ASSUME Init
             PROVE  SettingsInv
  OBVIOUS
<1>1. ControllerTypeOK
  BY BudgetIsBound DEF Init, ControllerInit, ControllerTypeOK
<1>2. options \in Options
  BY DEF Init, Options
<1>3. AuthOnce(<<>>)
  BY DEF AuthOnce
<1> QED
  BY <1>1, <1>2, <1>3
  DEF Init, ControllerInit, SettingsInv, TypeOK, Consistent, AuthStillNeeded

\* What is left after a disturbance.
LEMMA SpendType ==
  ASSUME left \in [Disturbances -> Nat], NEW kind \in Disturbances, Spend(kind)
  PROVE  left' \in [Disturbances -> Nat]
BY DEF Spend

LEMMA SettingsInvStep == SettingsInv /\ [Next]_vars => SettingsInv'
<1> SUFFICES ASSUME SettingsInv, [Next]_vars
             PROVE  SettingsInv'
  OBVIOUS
<1> USE SelfIsTheResource
<1>1. Self # None
  BY NoneIsNoValue
<1>2. AuthOnce(<<>>) /\ ~AuthIn(<<>>) /\ <<>> \in Seq(Requests)
  BY DEF AuthOnce, AuthIn
<1>3. CASE Begin
  BY <1>1, <1>2, <1>3 DEF Begin, Take, SettingsInv, TypeOK, ControllerTypeOK, Consistent,
     AuthStillNeeded, Existing
<1>4. CASE NothingManaged
  BY <1>1, <1>2, <1>4 DEF NothingManaged, Forget, Return, SettingsInv, TypeOK,
     ControllerTypeOK, Consistent, AuthStillNeeded
<1>5. CASE Unreachable
  <2>1. left' \in [Disturbances -> Nat]
    BY <1>5, SpendType DEF Unreachable, SettingsInv, TypeOK, ControllerTypeOK, Disturbances
  <2> QED
    BY <1>1, <1>2, <1>5, <2>1 DEF Unreachable, Requeue, Return, SettingsInv, TypeOK,
       ControllerTypeOK, Consistent, AuthStillNeeded
<1>6. CASE Fetch
  <2>1. /\ todo' \in Seq(Requests) /\ AuthOnce(todo')
        /\ AuthIn(todo') <=> NeedsAuth(options, spec)
    BY <1>6, PlanType DEF Fetch
  <2>2. TypeOK'
    BY <1>6, <2>1 DEF Fetch, controllerVars, SettingsInv, TypeOK, ControllerTypeOK
  <2>3. Consistent'
    BY <1>6, <2>1 DEF Fetch, controllerVars, SettingsInv, Consistent, AuthOnce
  <2>4. AuthStillNeeded'
    BY <1>6, <2>1 DEF Fetch, AuthStillNeeded, AuthIn, NeedsAuth
  <2> QED
    BY <2>2, <2>3, <2>4 DEF SettingsInv
<1>7. CASE FetchMisread
  <2>1. todo' \in Seq(Requests) /\ AuthOnce(todo')
    BY <1>7, PlanType DEF FetchMisread
  <2>2. left' \in [Disturbances -> Nat]
    BY <1>7, SpendType DEF FetchMisread, SettingsInv, TypeOK, ControllerTypeOK, Disturbances
  <2>3. TypeOK'
    BY <1>7, <2>1, <2>2 DEF FetchMisread, SettingsInv, TypeOK, ControllerTypeOK
  <2>4. Consistent'
    BY <1>7, <2>1 DEF FetchMisread, SettingsInv, Consistent, AuthOnce
  <2> QED
    BY <1>7, <2>3, <2>4 DEF FetchMisread, SettingsInv, AuthStillNeeded
<1>8. CASE Patch
  <2>1. /\ pc = "patch" /\ todo # <<>> /\ todo \in Seq(Requests) /\ AuthOnce(todo)
        /\ spec \in ApplicationSpecs /\ options \in Options /\ current = Self
    BY <1>8 DEF Patch, SettingsInv, TypeOK, Consistent
  <2>2. /\ Head(todo) \in Requests /\ Tail(todo) \in Seq(Requests)
        /\ AuthOnce(Tail(todo))
        /\ AuthIn(todo) <=> Head(todo) = "auth" \/ AuthIn(Tail(todo))
        /\ ~(Head(todo) = "auth" /\ AuthIn(Tail(todo)))
    BY <2>1, RestOfRequests
  <2>3. Patched(options, Head(todo), spec) \in Options
    BY <2>1, <2>2, PatchedType
  <2>4. CASE /\ options' = Patched(options, Head(todo), spec)
             /\ todo' = Tail(todo)
             /\ UNCHANGED <<controllerVars, pc, spec, undisturbed>>
    <3>1. TypeOK'
      BY <1>8, <2>2, <2>3, <2>4
      DEF Patch, controllerVars, SettingsInv, TypeOK, ControllerTypeOK
    <3>2. Consistent'
      BY <2>1, <2>2, <2>4 DEF controllerVars, SettingsInv, Consistent, AuthOnce
    <3>3. ASSUME undisturbed, AuthIn(Tail(todo))
          PROVE  NeedsAuth(Patched(options, Head(todo), spec), spec)
      <4>1. NeedsAuth(options, spec) /\ Head(todo) # "auth"
        BY <2>1, <2>2, <3>3 DEF SettingsInv, AuthStillNeeded
      <4> QED
        BY <2>1, <2>2, <4>1, PatchedType DEF NeedsAuth
    <3>4. AuthStillNeeded'
      BY <2>4, <3>3 DEF AuthStillNeeded, AuthIn, NeedsAuth
    <3> QED
      BY <3>1, <3>2, <3>4 DEF SettingsInv
  <2>5. CASE /\ Spend("fault")
             /\ UNCHANGED options \/ options' = Patched(options, Head(todo), spec)
             /\ Requeue
             /\ Return
    <3>1. left' \in [Disturbances -> Nat]
      BY <2>5, SpendType DEF SettingsInv, TypeOK, ControllerTypeOK, Disturbances
    <3> QED
      BY <1>1, <1>2, <1>8, <2>1, <2>3, <2>5, <3>1 DEF Patch, Requeue, Return, SettingsInv,
         TypeOK, ControllerTypeOK, Consistent, AuthStillNeeded
  <2> QED
    BY <1>8, <2>4, <2>5 DEF Patch
<1>9. CASE Configured
  BY <1>1, <1>2, <1>9 DEF Configured, Forget, Return, SettingsInv, TypeOK,
     ControllerTypeOK, Consistent, AuthStillNeeded
<1>10. ASSUME /\ TypeOK'
              /\ UNCHANGED <<current, options, localVars>>
       PROVE  SettingsInv'
  BY <1>10 DEF localVars, SettingsInv, Consistent, AuthStillNeeded, AuthOnce, AuthIn,
     NeedsAuth
<1>11. CASE \E new \in ApplicationSpecs : Declare(new)
  <2>1. left' \in [Disturbances -> Nat]
    BY <1>11, SpendType DEF Declare, SettingsInv, TypeOK, ControllerTypeOK, Disturbances
  <2> QED
    BY <1>10, <1>11, <2>1 DEF Declare, Notify, localVars, SettingsInv, TypeOK,
       ControllerTypeOK
<1>12. CASE Undeclare
  <2>1. left' \in [Disturbances -> Nat]
    BY <1>12, SpendType DEF Undeclare, SettingsInv, TypeOK, ControllerTypeOK, Disturbances
  <2> QED
    BY <1>10, <1>12, <2>1 DEF Undeclare, Notify, localVars, SettingsInv, TypeOK,
       ControllerTypeOK
<1>13. CASE WebUiEdit
  <2>1. left' \in [Disturbances -> Nat]
    BY <1>13, SpendType DEF WebUiEdit, SettingsInv, TypeOK, ControllerTypeOK, Disturbances
  <2>2. options' \in Options
    BY <1>13 DEF WebUiEdit, SettingsInv, TypeOK, Options
  <2>3. undisturbed' = (undisturbed /\ pc # "patch") /\ undisturbed' \in BOOLEAN
    BY <1>13 DEF WebUiEdit
  <2>4. TypeOK'
    BY <1>13, <2>1, <2>2, <2>3 DEF WebUiEdit, SettingsInv, TypeOK, ControllerTypeOK
  <2>5. Consistent'
    BY <1>13 DEF WebUiEdit, SettingsInv, Consistent, AuthOnce
  <2>6. AuthStillNeeded'
    BY <1>13, <2>3 DEF WebUiEdit, AuthStillNeeded
  <2> QED
    BY <2>4, <2>5, <2>6 DEF SettingsInv
<1>14. CASE TimerExpires
  BY <1>10, <1>14 DEF TimerExpires, TimerFires, localVars, SettingsInv, TypeOK,
     ControllerTypeOK
<1>15. CASE PeriodicResync
  BY <1>10, <1>15 DEF PeriodicResync, Resync, Existing, localVars, SettingsInv, TypeOK,
     ControllerTypeOK
<1>16. CASE ProcessDies
  <2>1. left' \in [Disturbances -> Nat]
    BY <1>16, SpendType DEF ProcessDies, Crash, SettingsInv, TypeOK, ControllerTypeOK,
       Disturbances
  <2> QED
    BY <1>1, <1>2, <1>16, <2>1 DEF ProcessDies, Crash, Die, Return, SettingsInv, TypeOK,
       ControllerTypeOK, Consistent, AuthStillNeeded
<1>17. CASE ProcessStarts
  BY <1>10, <1>17 DEF ProcessStarts, Restart, Existing, localVars, SettingsInv, TypeOK,
     ControllerTypeOK
<1>18. CASE UNCHANGED vars
  BY <1>10, <1>18 DEF vars, controllerVars, localVars, SettingsInv, TypeOK,
     ControllerTypeOK
<1> QED
  BY <1>3, <1>4, <1>5, <1>6, <1>7, <1>8, <1>9, <1>11, <1>12, <1>13, <1>14, <1>15, <1>16,
     <1>17, <1>18 DEF Next, Reconcile, Environment

LEMMA SettingsInvariant == Spec => []SettingsInv
<1> QED
  BY SettingsInvInit, SettingsInvStep, PTL DEF Spec

\* Every state the controller reaches, however the limits are scaled, is one that the
\* types of the code and of Syncthing's options allow.
THEOREM TypeCorrect == Spec => []TypeOK
<1>1. SettingsInv => TypeOK
  BY DEF SettingsInv
<1> QED
  BY <1>1, SettingsInvariant, PTL

\* "This password is set once, changes in the UI are not reset"
\* (instance_controller.go:327): no reconcile does, whatever failed, was edited or died
\* before it, if its own snapshot was read for what it was and nobody has written to
\* Syncthing since.
THEOREM PasswordsKept == Spec => ManualPasswordKept
<1>1. SettingsInv /\ [Next]_vars =>
        [(Reconcile /\ spec # None /\ ~spec.insecureWeb /\ undisturbed
            /\ options.user = spec.user)
           => options'.password = options.password]_vars
  <2> SUFFICES ASSUME SettingsInv, Reconcile, spec # None, ~spec.insecureWeb, undisturbed,
                      options.user = spec.user
               PROVE  options'.password = options.password
    OBVIOUS
  <2>1. CASE UNCHANGED options
    BY <2>1
  <2>2. CASE Patch /\ options' = Patched(options, Head(todo), spec)
    <3>1. /\ pc = "patch" /\ todo # <<>> /\ todo \in Seq(Requests) /\ AuthOnce(todo)
          /\ spec \in ApplicationSpecs /\ options \in Options
      BY <2>2 DEF Patch, SettingsInv, TypeOK, Consistent
    <3>2. Head(todo) \in Requests /\ (Head(todo) = "auth" => AuthIn(todo))
      BY <3>1, RestOfRequests
    <3>3. Head(todo) # "auth"
      BY <3>1, <3>2 DEF SettingsInv, AuthStillNeeded, NeedsAuth
    <3> QED
      BY <2>2, <3>1, <3>2, <3>3, PatchedType
  <2> QED
    BY <2>1, <2>2 DEF Reconcile, Begin, NothingManaged, Unreachable, Fetch, FetchMisread,
       Patch, Configured, controllerVars
<1> QED
  BY <1>1, SettingsInvariant, PTL DEF Spec, ManualPasswordKept

=============================================================================
