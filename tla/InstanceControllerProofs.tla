---------------------- MODULE InstanceControllerProofs ----------------------
(***************************************************************************)
(* Proofs about InstanceController, for any specs, Secrets, images and     *)
(* volumes and any budget of disturbances: type correctness, that the      *)
(* liveness probe sends the key the container is started with, that no     *)
(* update reverts what somebody else has set unless the container is gone, *)
(* that nothing but an edit leads to the panic, and that drift is noticed. *)
(***************************************************************************)
EXTENDS InstanceController, FiniteSetTheorems, TLAPS

-----------------------------------------------------------------------------
(* What the helpers return.                                                *)

\* What the rest of Reconcile relies on after fillDefaultValues.
LEMMA FilledInType ==
  ASSUME NEW s \in InstanceSpecs
  PROVE  /\ FilledIn(s) \in InstanceSpec
         /\ FilledIn(s) # None
         /\ FilledIn(s).enabled = s.enabled
         /\ FilledIn(s).image \in Images
         /\ PersistentVolumes(FilledIn(s)) \subseteq Volumes
<1>1. s \in InstanceSpec
  BY InstanceSpecsAreSpecs
<1> DEFINE image  == IF s.image = Empty THEN DefaultImage ELSE s.image
           config == IF s.config = Empty THEN ConfigRoot ELSE s.config
           data   == IF s.data = Empty THEN DataRoot ELSE s.data
<1>2. image \in Images /\ config \in Volumes /\ data \in Volumes
  BY <1>1, DefaultsAreThere DEF InstanceSpec
<1>3. FilledIn(s) = [s EXCEPT !.image = image, !.config = config, !.data = data]
  BY DEF FilledIn
<1> HIDE DEF image, config, data
<1>4. /\ FilledIn(s) \in InstanceSpec
      /\ FilledIn(s).enabled = s.enabled
      /\ FilledIn(s).image = image /\ FilledIn(s).config = config
      /\ FilledIn(s).data = data /\ FilledIn(s).more = s.more
  BY <1>1, <1>2, <1>3 DEF InstanceSpec
<1>5. s.more \subseteq Volumes
  BY <1>1 DEF InstanceSpec
<1> QED
  BY <1>2, <1>4, <1>5, NoneIsNoInstance DEF PersistentVolumes

\* A client is never without a key, although the key may be one that is trimmed away.
LEMMA ClientKey ==
  ASSUME NEW own \in CrConfig, NEW handed \in Secret \cup {None},
         NEW labelled \in SUBSET Secret, NEW services,
         FromCr(own, handed, labelled, services) # None
  PROVE  FromCr(own, handed, labelled, services).key \in Keys \cup {Empty}
<1> DEFINE known     == FromConfigSecret(FromResource(own), handed)
           namespace == FromNamespace(known, labelled)
           found     == FromService(namespace, services)
<1>1. known.key \in Keys \cup {Empty, Absent}
  BY DEF FromConfigSecret, FromResource, CrConfig, Secret
<1>2. namespace.key \in Keys \cup {Empty, Absent}
  <2>1. CASE Cardinality(labelled) # 1
    BY <1>1, <2>1 DEF FromNamespace
  <2>2. CASE Cardinality(labelled) = 1
    <3> DEFINE secretOf == CHOOSE x \in labelled : TRUE
    <3>1. labelled # {}
      BY <2>2, FS_EmptySet
    <3>2. secretOf \in Secret
      BY <3>1
    <3>3. namespace = known \/ namespace =
            [url |-> IF known.url # Absent THEN known.url ELSE secretOf.url,
             key |-> IF known.key # Absent THEN known.key ELSE secretOf.key]
      BY <2>2 DEF FromNamespace
    <3> HIDE DEF secretOf, known
    <3>4. secretOf.key \in Keys \cup {Empty, Absent}
      BY <3>2 DEF Secret
    <3> QED
      BY <1>1, <3>3, <3>4
  <2> QED
    BY <2>1, <2>2
<1>3. found.key = namespace.key
  BY DEF FromService, FromNamespace, FromConfigSecret, FromResource
<1>4. FromCr(own, handed, labelled, services) = Build(found)
  BY DEF FromCr
<1> HIDE DEF found
<1> QED
  BY <1>2, <1>3, <1>4 DEF Build

-----------------------------------------------------------------------------
(* What a reconcile does, action by action.                                *)

\* A volume comes together with the certificate's, and is mounted with it: so what is
\* missing can be told from the volumes alone.
MountsFollow(d) ==
  d # None => /\ d.volumes # {} => TlsVolume \in d.volumes
              /\ TlsVolume \in d.mounts => d.volumes \subseteq d.mounts

\* What every update makes of the cached Deployment.
GoodUpdate(new) ==
  /\ new \in Deployment
  /\ new.foreign = seen.foreign
  /\ seen.container => new.extras = seen.extras
  /\ seen.probe # None => new.probe # None
  /\ \/ new.apikey = Absent
     \/ new.apikey = new.probe
     \/ new.apikey = seen.apikey /\ new.probe = seen.probe
  /\ MountsFollow(seen) => MountsFollow(new)

\* How the reconcile ends, and what it has written by then.
ComesBack ==
  /\ ComeBack
  /\ UNCHANGED <<cr, userSecret, seen>>
  /\ left' \in [Disturbances -> Nat] /\ left'["edit"] = left["edit"]
  /\ secret' \in Secret \cup {None} /\ service' \in BOOLEAN /\ nodeport' \in BOOLEAN
  /\ \/ deployment' = deployment
     \/ deployment = None /\ Managed /\ deployment' = GeneratedDeployment(spec)
     \/ deployment = seen /\ seen # None /\ GoodUpdate(deployment')

\* The spec in hand is one the user has written, filled in.
LEMMA SpecType ==
  TypeOK /\ Managed =>
    /\ spec \in InstanceSpec
    /\ spec.image \in Images
    /\ PersistentVolumes(spec) \subseteq Volumes
BY FilledInType DEF TypeOK, Managed

LEMMA GeneratedType ==
  ASSUME TypeOK, Managed
  PROVE  /\ GeneratedDeployment(spec) \in Deployment
         /\ GeneratedDeployment(spec).probe # None
         /\ GeneratedSecret(spec) \in Secret
<1>1. spec \in InstanceSpec /\ spec.image \in Images
  BY SpecType
<1>2. spec.key \in Keys \cup {Empty} /\ spec.url \in Urls \cup {Empty}
  BY <1>1 DEF InstanceSpec
<1> QED
  BY <1>1, <1>2, NoneIsNoInstance DEF GeneratedDeployment, Deployment, GeneratedSecret, Secret

\* The key the container is started with.
LEMMA KeyOfClient ==
  ASSUME TypeOK, ReachesKey, ClientFor(spec) # None
  PROVE  ClientFor(spec).key \in Keys \cup {Empty}
<1>1. Managed /\ (spec.tls => secret # None) /\ HasSyncSecret(spec)
  BY DEF ReachesKey, ReachesVolumes, ReachesTls, ReachesImage, ReachesContainer,
     ReachesSyncSecret, ReachesService, ReachesDeployment
<1>2. SecretsInNamespace \subseteq Secret
  BY UserSecretsAreSecrets DEF TypeOK, SecretsInNamespace
<1>3. SyncSecrets \subseteq Secret /\ ConfigSecrets \subseteq Secret
  BY <1>2 DEF SyncSecrets, ConfigSecrets
<1>4. SyncSecret(spec) \in Secret
  <2>1. CASE spec.tls
    BY <1>1, <2>1 DEF SyncSecret, TypeOK
  <2>2. CASE ~spec.tls
    <3>1. SyncSecrets # {}
      BY <1>1, <2>2, FS_EmptySet DEF HasSyncSecret
    <3> QED
      BY <1>3, <2>2, <3>1 DEF SyncSecret
  <2> QED
    BY <2>1, <2>2
<1>5. [url |-> spec.url, key |-> spec.key] \in CrConfig
  BY <1>1, SpecType DEF InstanceSpec, CrConfig
<1> QED
  BY <1>3, <1>4, <1>5, ClientKey DEF ClientFor

\* A refused or failed update changes nothing; the others change what they were
\* computed from.
LEMMA UpdateComesBack ==
  ASSUME TypeOK, seen # None, NEW new, Update(new), GoodUpdate(new)
  PROVE  ComesBack
<1>1. left' \in [Disturbances -> Nat] /\ left'["edit"] = left["edit"]
  BY DEF Update, CallFails, Spend, Disturbances, TypeOK, ControllerTypeOK
<1> QED
  BY <1>1 DEF Update, CallFails, ComesBack, objects, TypeOK

LEMMA CreationsComeBack ==
  ASSUME TypeOK, CreateSecret \/ CreateDeployment \/ CreateService \/ CreateNodeport
  PROVE  ComesBack
<1>1. left' \in [Disturbances -> Nat] /\ left'["edit"] = left["edit"]
  BY DEF CreateSecret, CreateDeployment, CreateService, CreateNodeport, CallFails, Spend,
     Disturbances, TypeOK, ControllerTypeOK
<1>2. CASE CreateSecret
  BY <1>1, <1>2, GeneratedType
  DEF CreateSecret, CallFails, ComesBack, objects, TypeOK
<1>3. CASE CreateDeployment
  BY <1>1, <1>3
  DEF CreateDeployment, ReachesDeployment, CallFails, ComesBack, objects, TypeOK
<1>4. CASE CreateService
  BY <1>1, <1>4 DEF CreateService, CallFails, ComesBack, objects, TypeOK
<1>5. CASE CreateNodeport
  BY <1>1, <1>5 DEF CreateNodeport, CallFails, ComesBack, objects, TypeOK
<1> QED
  BY <1>2, <1>3, <1>4, <1>5

LEMMA UpdatesComeBack ==
  ASSUME TypeOK,
         \/ ReplaceContainers \/ SetImage \/ AddTls \/ AddVolumes
         \/ SetApiKey \/ SetSecurityContext
  PROVE  ComesBack
<1> USE DEF ReachesSecurity, ReachesKey, ReachesVolumes, ReachesTls, ReachesImage,
        ReachesContainer, ReachesSyncSecret, ReachesService, ReachesDeployment
<1>1. Managed /\ seen # None /\ seen \in Deployment
  BY DEF ReplaceContainers, SetImage, AddTls, AddVolumes, SetApiKey, SetSecurityContext,
     TypeOK
<1>2. spec.image \in Images /\ PersistentVolumes(spec) \subseteq Volumes
  BY <1>1, SpecType
<1>3. CASE ReplaceContainers
  <2> DEFINE g   == GeneratedDeployment(spec)
             new == [g EXCEPT !.volumes = seen.volumes,
                              !.podSecurity = seen.podSecurity,
                              !.foreign = seen.foreign]
  <2>1. Update(new) /\ ~seen.container
    BY <1>3 DEF ReplaceContainers
  <2>2. g.mounts = {} /\ g.apikey = Absent /\ g \in Deployment /\ g.probe # None
    BY <1>1, GeneratedType DEF GeneratedDeployment
  <2> HIDE DEF g
  <2>3. GoodUpdate(new)
    BY <1>1, <2>1, <2>2 DEF GoodUpdate, Deployment, MountsFollow
  <2> HIDE DEF new
  <2> QED
    BY <1>1, <2>1, <2>3, UpdateComesBack
<1>4. CASE SetImage
  <2> DEFINE new == [seen EXCEPT !.image = spec.image]
  <2>1. Update(new)
    BY <1>4 DEF SetImage
  <2>2. GoodUpdate(new)
    BY <1>1, <1>2 DEF GoodUpdate, Deployment, MountsFollow
  <2> HIDE DEF new
  <2> QED
    BY <1>1, <2>1, <2>2, UpdateComesBack
<1>5. CASE AddTls
  <2> DEFINE new == [seen EXCEPT !.volumes = @ \cup {TlsVolume},
                                 !.mounts = @ \cup {TlsVolume}]
  <2>1. CASE TlsVolume \in seen.volumes
    BY <1>5, <2>1 DEF AddTls, ComesBack, worldVars, objects, TypeOK, ControllerTypeOK
  <2>2. CASE TlsVolume \notin seen.volumes
    <3>1. Update(new)
      BY <1>5, <2>2 DEF AddTls
    <3>2. GoodUpdate(new)
      BY <1>1, <2>2 DEF GoodUpdate, Deployment, MountsFollow
    <3> HIDE DEF new
    <3> QED
      BY <1>1, <3>1, <3>2, UpdateComesBack
  <2> QED
    BY <2>1, <2>2
<1>6. CASE AddVolumes
  <2> DEFINE missing == PersistentVolumes(spec) \ seen.volumes
             new == [seen EXCEPT !.volumes = @ \cup missing, !.mounts = @ \cup missing]
  <2>1. Update(new) /\ TlsVolume \in seen.volumes \cap seen.mounts
    BY <1>6 DEF AddVolumes
  <2>2. missing \subseteq Volumes
    BY <1>2
  <2> HIDE DEF missing
  <2>3. GoodUpdate(new)
    BY <1>1, <2>1, <2>2 DEF GoodUpdate, Deployment, MountsFollow
  <2> HIDE DEF new
  <2> QED
    BY <1>1, <2>1, <2>3, UpdateComesBack
<1>7. CASE SetApiKey
  <2> DEFINE key == ClientFor(spec).key
             new == [seen EXCEPT !.apikey = key, !.probe = key]
  <2>1. Update(new) /\ key \in Keys \cup {Empty} /\ key # None
    BY <1>7, KeyOfClient, NoneIsNoInstance DEF SetApiKey
  <2> HIDE DEF key
  <2>2. GoodUpdate(new)
    BY <1>1, <2>1 DEF GoodUpdate, Deployment, MountsFollow
  <2> HIDE DEF new
  <2> QED
    BY <1>1, <2>1, <2>2, UpdateComesBack
<1>8. CASE SetSecurityContext
  <2> DEFINE new == [seen EXCEPT !.podSecurity = TRUE, !.containerSecurity = TRUE]
  <2>1. Update(new)
    BY <1>8 DEF SetSecurityContext
  <2>2. GoodUpdate(new)
    BY <1>1 DEF GoodUpdate, Deployment, MountsFollow
  <2> HIDE DEF new
  <2> QED
    BY <1>1, <2>1, <2>2, UpdateComesBack
<1> QED
  BY <1>3, <1>4, <1>5, <1>6, <1>7, <1>8

\* A reconcile begins, comes back with one write at most, takes the process down, or
\* ends for good because it found nothing to do.
LEMMA ReconcileEffect ==
  ASSUME TypeOK, Reconcile
  PROVE  \/ Begin
         \/ ComesBack
         \/ Panic
         \/ NothingManaged
         \/ Done
<1>1. CASE NoSyncSecret \/ NoClient
  BY <1>1 DEF NoSyncSecret, NoClient, ComesBack, worldVars, objects, TypeOK,
     ControllerTypeOK
<1> QED
  BY <1>1, CreationsComeBack, UpdatesComeBack DEF Reconcile

-----------------------------------------------------------------------------
(* Types, the key, and what other people set.                              *)

\* A process that is down has nothing under way, and only the Instance is ever taken.
Scheduled ==
  /\ current \in {Self, None}
  /\ ~up => queue = {} /\ delayed = {} /\ current = None

ProbeInv == TypeOK /\ Scheduled /\ ProbeUsesApiKey

LEMMA ProbeInvInit == Init => ProbeInv
BY BudgetIsBound
DEF Init, ControllerInit, ProbeInv, TypeOK, ControllerTypeOK, Scheduled, ProbeUsesApiKey

LEMMA ReconcileKeepsProbeInv ==
  ASSUME ProbeInv, Reconcile
  PROVE  ProbeInv'
<1> USE DEF ProbeInv
<1>1. Self \in Resources /\ Self # None
  BY SelfIsResource, NoneIsNoValue
<1>2. CASE Begin
  <2>1. spec' \in {FilledIn(s) : s \in InstanceSpecs} \cup {None}
    BY <1>2 DEF Begin, TypeOK
  <2> QED
    BY <1>1, <1>2, <2>1 DEF Begin, Take, worldVars, objects, TypeOK, ControllerTypeOK,
       Scheduled, ProbeUsesApiKey
<1>3. CASE ComesBack
  <2>1. deployment' \in Deployment \cup {None}
    BY <1>3, GeneratedType DEF ComesBack, GoodUpdate, TypeOK
  <2>2. ProbeUsesApiKey'
    <3>1. CASE deployment' = deployment
      BY <3>1 DEF ProbeUsesApiKey
    <3>2. CASE deployment' = GeneratedDeployment(spec)
      BY <3>2 DEF ProbeUsesApiKey, GeneratedDeployment
    <3>3. CASE deployment = seen /\ seen # None /\ GoodUpdate(deployment')
      BY <3>3 DEF ProbeUsesApiKey, GoodUpdate
    <3> QED
      BY <1>3, <3>1, <3>2, <3>3 DEF ComesBack
  <2>3. TypeOK'
    BY <1>1, <1>3, <2>1 DEF ComesBack, ComeBack, Requeue, Running, TypeOK, ControllerTypeOK
  <2>4. Scheduled'
    BY <1>1, <1>3 DEF ComesBack, ComeBack, Requeue, Running, Scheduled
  <2> QED
    BY <2>2, <2>3, <2>4
<1>4. CASE Panic
  BY <1>4 DEF Panic, Die, worldVars, objects, TypeOK, ControllerTypeOK, Scheduled,
     ProbeUsesApiKey
<1>5. CASE NothingManaged \/ Done
  BY <1>5 DEF NothingManaged, Done, Forget, worldVars, objects, TypeOK,
     ControllerTypeOK, Scheduled, ProbeUsesApiKey
<1> QED
  BY <1>2, <1>3, <1>4, <1>5, ReconcileEffect

\* What somebody makes of a Deployment with kubectl is still one.
LEMMA KubectlEditEffect ==
  ASSUME TypeOK, KubectlEdit
  PROVE  /\ deployment' \in Deployment \cup {None}
         /\ UNCHANGED <<up, queue, delayed, current, cr, userSecret, secret, service,
                        nodeport, seen, spec>>
         /\ left' \in [Disturbances -> Nat] /\ left'["edit"] < left["edit"]
         /\ ProbeUsesApiKey => ProbeUsesApiKey'
         /\ "volume" \notin Edits /\ MountsFollow(deployment) => MountsFollow(deployment')
<1> DEFINE Edited(new) ==
             /\ new \in Deployment \cup {None}
             /\ new # None => /\ \/ new.apikey = deployment.apikey
                                 \/ new.apikey = Absent
                              /\ new.probe \in {deployment.probe, None}
             /\ "volume" \notin Edits /\ MountsFollow(deployment) => MountsFollow(new)
<1>1. \E new : EditDeployment(new) /\ Edited(new)
  <2>1. deployment # None /\ deployment \in Deployment
    BY DEF KubectlEdit, EditDeployment, TypeOK
  <2>2. CASE "delete" \in Edits /\ EditDeployment(None)
    BY <2>2 DEF MountsFollow
  <2>3. CASE \/ EditDeployment([deployment EXCEPT !.foreign = ~@])
             \/ EditDeployment([deployment EXCEPT !.extras = ~@])
    <3>1. /\ Edited([deployment EXCEPT !.foreign = ~@])
          /\ Edited([deployment EXCEPT !.extras = ~@])
      BY <2>1 DEF Deployment, MountsFollow
    <3> QED
      BY <2>3, <3>1
  <2>4. CASE \E i \in Images : EditDeployment([deployment EXCEPT !.image = i])
    <3>1. PICK i \in Images : EditDeployment([deployment EXCEPT !.image = i])
      BY <2>4
    <3>2. Edited([deployment EXCEPT !.image = i])
      BY <2>1 DEF Deployment, MountsFollow
    <3> QED
      BY <3>1, <3>2
  <2>5. CASE EditDeployment([deployment EXCEPT !.probe = None])
    <3>1. Edited([deployment EXCEPT !.probe = None])
      BY <2>1 DEF Deployment, MountsFollow
    <3> QED
      BY <2>5, <3>1
  <2>6. CASE /\ "volume" \in Edits
             /\ \E v \in Volumes \cup {TlsVolume} :
                  EditDeployment([deployment EXCEPT !.volumes = @ \ {v},
                                                    !.mounts = @ \ {v}])
    <3>1. PICK v \in Volumes \cup {TlsVolume} :
            EditDeployment([deployment EXCEPT !.volumes = @ \ {v}, !.mounts = @ \ {v}])
      BY <2>6
    <3>2. Edited([deployment EXCEPT !.volumes = @ \ {v}, !.mounts = @ \ {v}])
      BY <2>1, <2>6 DEF Deployment
    <3> QED
      BY <3>1, <3>2
  <2>7. CASE EditDeployment([deployment EXCEPT !.container = FALSE, !.image = None,
                                               !.mounts = {}, !.apikey = Absent,
                                               !.probe = None, !.extras = TRUE,
                                               !.containerSecurity = FALSE])
    <3>1. Edited([deployment EXCEPT !.container = FALSE, !.image = None,
                                    !.mounts = {}, !.apikey = Absent,
                                    !.probe = None, !.extras = TRUE,
                                    !.containerSecurity = FALSE])
      BY <2>1 DEF Deployment, MountsFollow
    <3> QED
      BY <2>7, <3>1
  <2> QED
    BY <2>2, <2>3, <2>4, <2>5, <2>6, <2>7 DEF KubectlEdit
<1>2. PICK new : EditDeployment(new) /\ Edited(new)
  BY <1>1
<1>3. left' \in [Disturbances -> Nat] /\ left'["edit"] < left["edit"]
  BY <1>2 DEF EditDeployment, Spend, Disturbances, TypeOK, ControllerTypeOK
<1> QED
  BY <1>2, <1>3 DEF EditDeployment, ProbeUsesApiKey

LEMMA EnvironmentKeepsProbeInv ==
  ASSUME ProbeInv, Environment
  PROVE  ProbeInv'
<1> USE DEF ProbeInv
<1>1. Self \in Resources /\ Existing \subseteq Resources
  BY SelfIsResource DEF Existing
<1>2. CASE \E new \in InstanceSpecs : Declare(new)
  <2>1. left' \in [Disturbances -> Nat]
    BY <1>2 DEF Declare, Spend, Disturbances, TypeOK, ControllerTypeOK
  <2> QED
    BY <1>1, <1>2, <2>1 DEF Declare, Notify, objects, TypeOK, ControllerTypeOK,
       Scheduled, ProbeUsesApiKey
<1>3. CASE Undeclare
  <2>1. left' \in [Disturbances -> Nat]
    BY <1>3 DEF Undeclare, Spend, Disturbances, TypeOK, ControllerTypeOK
  <2> QED
    BY <1>1, <1>3, <2>1 DEF Undeclare, CollectGarbage, Notify, TypeOK, ControllerTypeOK,
       Scheduled, ProbeUsesApiKey
<1>4. CASE CollectLate
  BY <1>4 DEF CollectLate, CollectGarbage, controllerVars, TypeOK, ControllerTypeOK,
     Scheduled, ProbeUsesApiKey
<1>5. CASE Observe
  BY <1>1, <1>5 DEF Observe, Notify, objects, TypeOK, ControllerTypeOK, Scheduled,
     ProbeUsesApiKey
<1>6. CASE KubectlEdit
  <2>1. TypeOK'
    BY <1>6, KubectlEditEffect DEF TypeOK, ControllerTypeOK
  <2> QED
    BY <1>6, <2>1, KubectlEditEffect DEF Scheduled
<1>7. CASE DeleteService
  <2>1. left' \in [Disturbances -> Nat]
    BY <1>7 DEF DeleteService, Spend, Disturbances, TypeOK, ControllerTypeOK
  <2> QED
    BY <1>1, <1>7, <2>1 DEF DeleteService, Notify, TypeOK, ControllerTypeOK, Scheduled,
       ProbeUsesApiKey
<1>8. CASE \E new \in UserSecrets \cup {None} : EditUserSecret(new)
  <2>1. left' \in [Disturbances -> Nat]
    BY <1>8 DEF EditUserSecret, Spend, Disturbances, TypeOK, ControllerTypeOK
  <2> QED
    BY <1>8, <2>1 DEF EditUserSecret, objects, TypeOK, ControllerTypeOK, Scheduled,
       ProbeUsesApiKey
<1>9. CASE TimerExpires
  BY <1>1, <1>9 DEF TimerExpires, TimerFires, worldVars, objects, TypeOK,
     ControllerTypeOK, Scheduled, ProbeUsesApiKey
<1>10. CASE PeriodicResync
  BY <1>1, <1>10 DEF PeriodicResync, Resync, worldVars, objects, TypeOK,
     ControllerTypeOK, Scheduled, ProbeUsesApiKey
<1>11. CASE ProcessDies
  <2>1. left' \in [Disturbances -> Nat]
    BY <1>11 DEF ProcessDies, Crash, Spend, Disturbances, TypeOK, ControllerTypeOK
  <2> QED
    BY <1>11, <2>1 DEF ProcessDies, Crash, Die, worldVars, objects, TypeOK,
       ControllerTypeOK, Scheduled, ProbeUsesApiKey
<1>12. CASE ProcessStarts
  BY <1>1, <1>12 DEF ProcessStarts, Restart, objects, TypeOK, ControllerTypeOK,
     Scheduled, ProbeUsesApiKey
<1> QED
  BY <1>2, <1>3, <1>4, <1>5, <1>6, <1>7, <1>8, <1>9, <1>10, <1>11, <1>12 DEF Environment

LEMMA ProbeInvariant == Spec => []ProbeInv
<1>1. ProbeInv /\ [Next]_vars => ProbeInv'
  <2>1. ProbeInv /\ UNCHANGED vars => ProbeInv'
    BY DEF vars, controllerVars, worldVars, objects, ProbeInv, TypeOK, ControllerTypeOK,
       Scheduled, ProbeUsesApiKey
  <2> QED
    BY <2>1, ReconcileKeepsProbeInv, EnvironmentKeepsProbeInv DEF Next
<1> QED
  BY <1>1, ProbeInvInit, PTL DEF Spec

\* Every object the operator writes is one the generators and the steps of
\* ReconcileKubernetes can produce, whatever the cluster looked like before.
THEOREM TypeCorrect == Spec => []TypeOK
BY ProbeInvariant, PTL DEF ProbeInv

\* The liveness probe sends the key the container is started with.
THEOREM ProbesUseApiKey == Spec => []ProbeUsesApiKey
BY ProbeInvariant, PTL DEF ProbeInv

\* An update sends the whole cached Deployment, but the API server takes it only while
\* that is the current one: what is set outside the Containers section stays, and what
\* is set in it stays as long as the section has a container named "syncthing".
THEOREM ForeignEditsAreKept == Spec => ForeignEditsKept
<1>1. ProbeInv /\ [Next]_vars =>
        [(Reconcile /\ deployment # None /\ deployment' # None)
           => /\ deployment'.foreign = deployment.foreign
              /\ deployment.container => deployment'.extras = deployment.extras]_vars
  <2> SUFFICES ASSUME ProbeInv, Reconcile, deployment # None
               PROVE  /\ deployment'.foreign = deployment.foreign
                      /\ deployment.container => deployment'.extras = deployment.extras
    OBVIOUS
  <2>1. CASE ComesBack
    BY <2>1 DEF ComesBack, GoodUpdate
  <2>2. CASE UNCHANGED deployment
    BY <2>2
  <2> QED
    BY <2>1, <2>2, ReconcileEffect
    DEF ProbeInv, Begin, Panic, NothingManaged, Done, worldVars, objects
<1> QED
  BY <1>1, ProbeInvariant, PTL DEF Spec, ForeignEditsKept

-----------------------------------------------------------------------------
(* Who takes the process down.                                             *)

\* As long as nobody has edited anything, every Deployment there is has a probe.
ProbesThere ==
  /\ left["edit"] <= Budget["edit"]
  /\ left["edit"] = Budget["edit"] =>
       /\ deployment # None => deployment.probe # None
       /\ seen # None => seen.probe # None

PanicInv == ProbeInv /\ ProbesThere

LEMMA ReconcileKeepsProbesThere ==
  ASSUME PanicInv, Reconcile
  PROVE  ProbesThere'
<1>1. TypeOK
  BY DEF PanicInv, ProbeInv
<1>2. CASE ComesBack
  <2>1. UNCHANGED seen /\ left'["edit"] = left["edit"]
    BY <1>2 DEF ComesBack
  <2>2. deployment # None /\ deployment.probe # None /\ deployment' # None
          => deployment'.probe # None
    BY <1>1, <1>2, GeneratedType DEF ComesBack, GoodUpdate
  <2>3. deployment = None /\ deployment' # None => deployment'.probe # None
    BY <1>1, <1>2, GeneratedType DEF ComesBack
  <2> QED
    BY <2>1, <2>2, <2>3 DEF PanicInv, ProbesThere
<1>3. CASE UNCHANGED <<deployment, seen, left>>
  BY <1>3 DEF PanicInv, ProbesThere
<1> QED
  BY <1>1, <1>2, <1>3, ReconcileEffect
  DEF Begin, Panic, NothingManaged, Done, worldVars, objects

LEMMA EnvironmentKeepsProbesThere ==
  ASSUME PanicInv, Environment
  PROVE  ProbesThere'
<1>1. TypeOK /\ Budget["edit"] \in Nat /\ left["edit"] \in Nat
  BY BudgetIsBound DEF PanicInv, ProbeInv, TypeOK, ControllerTypeOK, Disturbances
<1>2. CASE left'["edit"] < left["edit"]
  <2>1. left'["edit"] \in Nat
    <3>1. ProbeInv'
      BY EnvironmentKeepsProbeInv DEF PanicInv
    <3> QED
      BY <3>1 DEF ProbeInv, TypeOK, ControllerTypeOK, Disturbances
  <2> QED
    BY <1>1, <1>2, <2>1 DEF PanicInv, ProbesThere
<1>3. CASE /\ left'["edit"] = left["edit"]
           /\ deployment' \in {deployment, None}
           /\ seen' \in {seen, deployment}
  BY <1>3 DEF PanicInv, ProbesThere
<1>4. CASE KubectlEdit
  BY <1>1, <1>2, <1>4, KubectlEditEffect
<1>5. CASE DeleteService \/ \E new \in UserSecrets \cup {None} : EditUserSecret(new)
  <2>1. Spend("edit")
    BY <1>5 DEF DeleteService, EditUserSecret
  <2> QED
    BY <1>1, <1>2, <2>1 DEF Spend, TypeOK, ControllerTypeOK, Disturbances
<1>6. CASE (\E new \in InstanceSpecs : Declare(new)) \/ Undeclare \/ ProcessDies
  <2>1. Spend("user") \/ Spend("crash")
    BY <1>6 DEF Declare, Undeclare, ProcessDies, Crash
  <2>2. left'["edit"] = left["edit"]
    BY <1>1, <2>1 DEF Spend, TypeOK, ControllerTypeOK, Disturbances
  <2> QED
    BY <1>3, <1>6, <2>2 DEF Declare, Undeclare, ProcessDies, CollectGarbage, worldVars, objects
<1> QED
  BY <1>3, <1>4, <1>5, <1>6
  DEF Environment, CollectLate, CollectGarbage, Observe, TimerExpires, TimerFires,
      PeriodicResync, Resync, ProcessStarts, Restart, controllerVars, worldVars, objects

\* The process is taken down by a missing probe only after somebody has edited: what
\* the operator generates and updates has one, and so does what it finds in its cache.
THEOREM PanicsOnlyAfterEdits == Spec => PanicOnlyAfterEdit
<1>1. Init => PanicInv
  BY ProbeInvInit, BudgetIsBound
  DEF Init, ControllerInit, PanicInv, ProbesThere, Disturbances
<1>2. PanicInv /\ [Next]_vars => PanicInv'
  <2>1. PanicInv /\ UNCHANGED vars => PanicInv'
    BY DEF vars, controllerVars, worldVars, objects, PanicInv, ProbesThere, ProbeInv,
       TypeOK, ControllerTypeOK, Scheduled, ProbeUsesApiKey
  <2> QED
    BY <2>1, ReconcileKeepsProbesThere, EnvironmentKeepsProbesThere, ReconcileKeepsProbeInv,
       EnvironmentKeepsProbeInv DEF Next, PanicInv
<1>3. PanicInv /\ [Next]_vars => [Panic => left["edit"] < Budget["edit"]]_vars
  <2> SUFFICES ASSUME PanicInv, Panic PROVE left["edit"] < Budget["edit"]
    OBVIOUS
  <2>1. left["edit"] \in Nat /\ Budget["edit"] \in Nat
    BY BudgetIsBound DEF PanicInv, ProbeInv, TypeOK, ControllerTypeOK, Disturbances
  <2>2. seen # None /\ seen.probe = None
    BY DEF Panic, ReachesKey, ReachesVolumes, ReachesTls, ReachesImage, ReachesContainer,
       ReachesSyncSecret, ReachesService
  <2> QED
    BY <2>1, <2>2 DEF PanicInv, ProbesThere
<1> QED
  BY <1>1, <1>2, <1>3, PTL DEF Spec, PanicOnlyAfterEdit

-----------------------------------------------------------------------------
(* Drift is noticed.                                                       *)

\* What a reconcile that has nothing to do has seen: Deployed, of the cache.
SeenDeployed(s) ==
  /\ seen # None
  /\ seen.container
  /\ seen.image = s.image
  /\ PersistentVolumes(s) \cup {TlsVolume} \subseteq seen.volumes \cap seen.mounts
  /\ HasSyncSecret(s) /\ (s.tls => secret # None)
  /\ ClientFor(s) # None
  /\ seen.apikey = ClientFor(s).key
  /\ seen.probe = ClientFor(s).key
  /\ s.trueNas => seen.podSecurity
  /\ service
  /\ s.nodeport => nodeport

\* The mounts, which are not looked at, can be told from the volumes, which are.
VolumesMounted == MountsFollow(deployment) /\ MountsFollow(seen)

\* A reconcile that works from a resource that has changed since is followed by another.
SpecFresh ==
  current = Self => \/ Self \in queue
                    \/ spec = IF cr = None THEN None ELSE FilledIn(cr)

\* Only a cache that is as the Instance asks leaves nothing scheduled.
CacheAsAsked ==
  up /\ cr # None /\ cr.enabled => Pending(Self) \/ SeenDeployed(FilledIn(cr))

DriftInv == ProbeInv /\ VolumesMounted /\ SpecFresh /\ CacheAsAsked

\* Secrets nobody watches, and volumes whose mounts are not checked, stay alone.
OnlyWatchedEdits == {"secret", "volume"} \cap Edits = {}

LEMMA DriftInvInit == Init => DriftInv
BY ProbeInvInit, SelfIsResource, NoneIsNoValue
DEF Init, ControllerInit, DriftInv, VolumesMounted, MountsFollow, SpecFresh, CacheAsAsked

\* When a reconcile finds nothing to do, nothing is.
LEMMA DoneMeansDeployed ==
  ASSUME VolumesMounted, Done
  PROVE  SeenDeployed(spec)
BY DEF Done, ReachesNodeport, ReachesSecurity, ReachesKey, ReachesVolumes, ReachesTls,
   ReachesImage, ReachesContainer, ReachesSyncSecret, ReachesService, ReachesDeployment,
   SeenDeployed, VolumesMounted, MountsFollow

LEMMA ReconcileKeepsDriftInv ==
  ASSUME DriftInv, Reconcile
  PROVE  DriftInv'
<1> USE DEF DriftInv
<1>1. ProbeInv'
  BY ReconcileKeepsProbeInv
<1>2. TypeOK /\ Self # None
  BY SelfIsResource, NoneIsNoValue DEF ProbeInv
<1>3. CASE Begin
  <2>1. /\ current' = Self /\ spec' = IF cr = None THEN None ELSE FilledIn(cr)
        /\ UNCHANGED <<cr, deployment, seen>>
    BY <1>3 DEF Begin, Take, worldVars, objects
  <2> QED
    BY <1>1, <2>1 DEF VolumesMounted, MountsFollow, SpecFresh, CacheAsAsked, Pending
<1>4. CASE ComesBack
  <2>1. VolumesMounted'
    <3>1. UNCHANGED seen
      BY <1>4 DEF ComesBack
    <3>2. MountsFollow(deployment')
      BY <1>4 DEF ComesBack, GoodUpdate, GeneratedDeployment, VolumesMounted, MountsFollow
    <3> QED
      BY <3>1, <3>2 DEF VolumesMounted, MountsFollow
  <2>2. current' = None /\ Self \in delayed'
    BY <1>4 DEF ComesBack, ComeBack, Requeue, Running
  <2> QED
    BY <1>1, <1>2, <2>1, <2>2 DEF SpecFresh, CacheAsAsked, Pending
<1>5. CASE Panic
  BY <1>1, <1>2, <1>5 DEF Panic, Die, worldVars, objects, VolumesMounted, MountsFollow,
     SpecFresh, CacheAsAsked
<1>6. CASE NothingManaged \/ Done
  <2>1. /\ current = Self /\ current' = None
        /\ UNCHANGED <<up, queue, delayed, cr, userSecret, secret, deployment, seen,
                       service, nodeport>>
    BY <1>6 DEF NothingManaged, Done, Running, Forget, worldVars, objects
  <2>2. VolumesMounted' /\ SpecFresh'
    BY <1>2, <2>1 DEF VolumesMounted, MountsFollow, SpecFresh
  <2>3. ASSUME up, cr # None, cr.enabled, ~Pending(Self)'
        PROVE  SeenDeployed(FilledIn(cr))
    <3>1. Self \notin queue
      BY <2>1, <2>3 DEF Pending
    <3>2. spec = FilledIn(cr) /\ spec # None /\ spec.enabled
      BY <1>2, <2>1, <2>3, <3>1, FilledInType DEF SpecFresh, TypeOK
    <3>3. Done
      BY <1>6, <3>2 DEF NothingManaged, Managed
    <3> QED
      BY <3>2, <3>3, DoneMeansDeployed
  <2>4. SeenDeployed(FilledIn(cr)) => SeenDeployed(FilledIn(cr))'
    BY <2>1 DEF SeenDeployed, HasSyncSecret, SyncSecrets, SecretsInNamespace, ClientFor,
       SyncSecret, ConfigSecrets
  <2> QED
    BY <1>1, <2>1, <2>2, <2>3, <2>4 DEF CacheAsAsked
<1> QED
  BY <1>2, <1>3, <1>4, <1>5, <1>6, ReconcileEffect

LEMMA EnvironmentKeepsDriftInv ==
  ASSUME DriftInv, Environment, OnlyWatchedEdits
  PROVE  DriftInv'
<1> USE DEF DriftInv
<1>1. ProbeInv'
  BY EnvironmentKeepsProbeInv
<1>2. TypeOK /\ Scheduled /\ Self # None
  BY SelfIsResource, NoneIsNoValue DEF ProbeInv
<1>3. ASSUME VolumesMounted', UNCHANGED <<current, spec>>,
             \/ ~up' \/ cr' = None \/ Self \in queue' \cup delayed',
             (UNCHANGED cr /\ queue \subseteq queue') \/ ~up' \/ Self \in queue'
      PROVE  DriftInv'
  <2>1. SpecFresh'
    BY <1>1, <1>2, <1>3 DEF ProbeInv, Scheduled, SpecFresh
  <2> QED
    BY <1>1, <1>3, <2>1 DEF CacheAsAsked, Pending
<1>4. CASE \E new \in InstanceSpecs : Declare(new)
  BY <1>3, <1>4 DEF Declare, Notify, objects, VolumesMounted, MountsFollow
<1>5. CASE Undeclare
  BY <1>3, <1>5 DEF Undeclare, CollectGarbage, Notify, VolumesMounted, MountsFollow
<1>6. CASE CollectLate
  BY <1>3, <1>6 DEF CollectLate, CollectGarbage, controllerVars, VolumesMounted,
     MountsFollow
<1>7. CASE Observe
  BY <1>3, <1>7 DEF Observe, Notify, objects, VolumesMounted, MountsFollow
<1>8. CASE KubectlEdit
  <2>1. UNCHANGED <<up, queue, delayed, current, cr, userSecret, secret, service, nodeport,
                    seen, spec>>
    BY <1>2, <1>8, KubectlEditEffect
  <2>2. VolumesMounted'
    BY <1>2, <1>8, <2>1, KubectlEditEffect
    DEF OnlyWatchedEdits, VolumesMounted, MountsFollow
  <2>3. SeenDeployed(FilledIn(cr)) => SeenDeployed(FilledIn(cr))'
    BY <2>1 DEF SeenDeployed, HasSyncSecret, SyncSecrets, SecretsInNamespace, ClientFor,
       SyncSecret, ConfigSecrets
  <2> QED
    BY <1>1, <2>1, <2>2, <2>3 DEF SpecFresh, CacheAsAsked, Pending
<1>9. CASE DeleteService
  BY <1>3, <1>9 DEF DeleteService, Notify, VolumesMounted, MountsFollow
<1>10. CASE TimerExpires
  BY <1>3, <1>10 DEF TimerExpires, TimerFires, worldVars, objects, VolumesMounted,
     MountsFollow
<1>11. CASE PeriodicResync
  BY <1>3, <1>11 DEF PeriodicResync, Resync, Existing, worldVars, objects,
     VolumesMounted, MountsFollow
<1>12. CASE ProcessDies
  BY <1>1, <1>2, <1>12 DEF ProcessDies, Crash, Die, worldVars, objects, VolumesMounted,
     MountsFollow, SpecFresh, CacheAsAsked
<1>13. CASE ProcessStarts
  BY <1>3, <1>2, <1>13 DEF ProcessStarts, Restart, Existing, Scheduled, objects,
     VolumesMounted, MountsFollow
<1>14. ~ \E new \in UserSecrets \cup {None} : EditUserSecret(new)
  BY DEF OnlyWatchedEdits, EditUserSecret
<1> QED
  BY <1>4, <1>5, <1>6, <1>7, <1>8, <1>9, <1>10, <1>11, <1>12, <1>13, <1>14
  DEF Environment

\* Whenever the cluster is not as the Instance asks, a reconcile is pending or the event
\* that starts one is on its way, as long as nobody edits what the controller is not
\* told of.
THEOREM DriftIsNoticed ==
  ASSUME OnlyWatchedEdits
  PROVE  Spec => []DriftNoticed
<1>1. DriftInv /\ [Next]_vars => DriftInv'
  <2>1. DriftInv /\ UNCHANGED vars => DriftInv'
    <3> SUFFICES ASSUME DriftInv, UNCHANGED vars PROVE DriftInv'
      OBVIOUS
    <3>1. UNCHANGED <<up, queue, delayed, current, left, cr, userSecret, secret, deployment,
                      seen, service, nodeport, spec>>
      BY DEF vars, controllerVars, worldVars, objects
    <3>2. ProbeInv'
      BY <3>1 DEF DriftInv, ProbeInv, TypeOK, ControllerTypeOK, Scheduled, ProbeUsesApiKey
    <3>3. SeenDeployed(FilledIn(cr)) => SeenDeployed(FilledIn(cr))'
      BY <3>1 DEF SeenDeployed, HasSyncSecret, SyncSecrets, SecretsInNamespace, ClientFor,
         SyncSecret, ConfigSecrets
    <3> QED
      BY <3>1, <3>2, <3>3 DEF DriftInv, VolumesMounted, MountsFollow, SpecFresh,
         CacheAsAsked, Pending
  <2> QED
    BY <2>1, ReconcileKeepsDriftInv, EnvironmentKeepsDriftInv DEF Next
<1>2. DriftInv => DriftNoticed
  BY DEF DriftInv, CacheAsAsked, DriftNoticed, Deployed, SeenDeployed
<1> QED
  BY <1>1, <1>2, DriftInvInit, PTL DEF Spec

=============================================================================
