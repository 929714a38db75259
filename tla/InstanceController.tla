------------------------- MODULE InstanceController -------------------------
(***************************************************************************)
(* The Instance controller as far as Kubernetes is concerned:              *)
(* ReconcileKubernetes and ReconcileNodeportservice of                     *)
(* controllers/instance_controller.go, with the generators of resources.go *)
(* and the helpers of utils.go.  ReconcileApplication is the module        *)
(* ApplicationSettings.                                                    *)
(*                                                                         *)
(* One reconcile writes at most one object and returns right after it, and *)
(* reads everything else from the informer cache: once the resource is     *)
(* read, the rest of the call is one step.  The cached Deployment may lag  *)
(* behind (seen), because it is the one object that is updated; the others *)
(* are only created, and there a lagging cache is a failing Create.        *)
(***************************************************************************)
EXTENDS Controller, FiniteSets

CONSTANTS
  Self,            \* the Instance resource
  Urls, BadUrls, ServiceUrl,  \* see ClientConfig
  Keys, BlankKeys, Empty, Absent,
  Images,          \* image:tag
  DefaultImage,    \* docker.io/syncthing/syncthing:latest
  Volumes,         \* names of the configuration and data volumes
  ConfigRoot, DataRoot,  \* "config-root" and "data-root"
  TlsVolume,       \* "tls-config"
  InstanceSpecs,   \* the specs users write
  UserSecrets,     \* the Secrets a user may label in the namespace
  Edits            \* what people do to the objects with kubectl

INSTANCE ClientConfig

\* InstanceSpec of api/v1/instance_types.go; enabled is enable_instance, and tls
\* says that both tls_key and tls_crt are given.
InstanceSpec ==
  [enabled  : BOOLEAN,
   tls      : BOOLEAN,
   url      : Urls \cup {Empty},
   key      : Keys \cup {Empty},
   image    : Images \cup {Empty},
   config   : Volumes \cup {Empty},
   data     : Volumes \cup {Empty},
   more     : SUBSET Volumes,
   trueNas  : BOOLEAN,
   nodeport : BOOLEAN]

\* A Secret: its labels sync-cert and config, and its connection entries.
Secret ==
  [name   : {"own", "user"},
   sync   : BOOLEAN,
   config : BOOLEAN,
   url    : Urls \cup {Empty, Absent},
   key    : Keys \cup {Empty, Absent}]

\* The pod template: the container named "syncthing", the volumes, what that
\* container mounts, --gui-apikey, the key its liveness probe sends (None if there
\* is no probe), the TrueNAS security contexts of the pod and of the container; extras
\* stands for what people have set in the Containers section besides (sidecars,
\* environment, resources), foreign for what they have set elsewhere in the Deployment.
Deployment ==
  [container : BOOLEAN,
   image     : Images \cup {None},
   volumes   : SUBSET (Volumes \cup {TlsVolume}),
   mounts    : SUBSET (Volumes \cup {TlsVolume}),
   apikey    : Keys \cup {Empty, Absent},
   probe     : Keys \cup {Empty, None},
   podSecurity       : BOOLEAN,
   containerSecurity : BOOLEAN,
   extras    : BOOLEAN,
   foreign   : BOOLEAN]

ASSUME SelfIsResource == Self \in Resources
ASSUME InstanceSpecsAreSpecs == InstanceSpecs \subseteq InstanceSpec
ASSUME UserSecretsAreSecrets == UserSecrets \subseteq Secret
ASSUME DefaultsAreThere ==
  DefaultImage \in Images /\ {ConfigRoot, DataRoot} \subseteq Volumes
ASSUME NoneIsNoInstance ==
  None \notin InstanceSpec \cup UserSecrets \cup Images \cup Keys \cup {Empty}
ASSUME TlsVolumeIsExtra == TlsVolume \notin Volumes

\* fillDefaultValues, before anything else looks at the spec.
FilledIn(s) ==
  [s EXCEPT !.image = IF @ = Empty THEN DefaultImage ELSE @,
            !.config = IF @ = Empty THEN ConfigRoot ELSE @,
            !.data = IF @ = Empty THEN DataRoot ELSE @]

\* persistentVolumes
PersistentVolumes(s) == {s.config, s.data} \cup s.more

VARIABLES
  cr,          \* the spec of the Instance, or None
  secret,      \* the Secret the operator generates from it, or None
  userSecret,  \* a Secret somebody else has labelled, or None
  deployment,  \* the Deployment in the API server, or None
  seen,        \* the Deployment in the informer cache
  service,     \* the cluster Service exists
  nodeport,    \* the nodeport Service exists
  spec         \* instanceCr.Spec of the reconcile under way, filled in

objects == <<secret, deployment, service, nodeport>>
worldVars == <<cr, userSecret, objects, seen>>
vars == <<controllerVars, worldVars, spec>>

TypeOK ==
  /\ ControllerTypeOK
  /\ cr \in InstanceSpecs \cup {None}
  /\ secret \in Secret \cup {None}
  /\ userSecret \in UserSecrets \cup {None}
  /\ deployment \in Deployment \cup {None}
  /\ seen \in Deployment \cup {None}
  /\ service \in BOOLEAN
  /\ nodeport \in BOOLEAN
  /\ spec \in {FilledIn(s) : s \in InstanceSpecs} \cup {None}

Init ==
  /\ ControllerInit
  /\ cr = None
  /\ secret = None
  /\ userSecret \in UserSecrets \cup {None}
  /\ deployment = None
  /\ seen = None
  /\ service = FALSE
  /\ nodeport = FALSE
  /\ spec = None

Existing == IF cr = None THEN {} ELSE {Self}

-----------------------------------------------------------------------------
(* The objects the operator generates.                                     *)

\* generateSyncSecret: the connection is put into it when the resource has a key.
GeneratedSecret(s) ==
  [name |-> "own", sync |-> TRUE, config |-> s.key # Empty,
   url |-> IF s.key # Empty THEN s.url ELSE Absent,
   key |-> IF s.key # Empty THEN s.key ELSE Absent]

\* Wrong: the liveness probe is generated without the key header.
GeneratedWithoutHeader(s) ==
  [container |-> TRUE, image |-> s.image, volumes |-> {}, mounts |-> {},
   apikey |-> Absent, probe |-> Absent, podSecurity |-> FALSE,
   containerSecurity |-> FALSE, extras |-> FALSE, foreign |-> FALSE]

\* Wrong: no liveness probe is generated.
GeneratedWithoutProbe(s) ==
  [container |-> TRUE, image |-> s.image, volumes |-> {}, mounts |-> {},
   apikey |-> Absent, probe |-> None, podSecurity |-> FALSE,
   containerSecurity |-> FALSE, extras |-> FALSE, foreign |-> FALSE]

\* generateDeployment: no volumes, no --gui-apikey and no security contexts yet.
GeneratedDeployment(s) ==
  [container |-> TRUE, image |-> s.image, volumes |-> {}, mounts |-> {},
   apikey |-> Absent, probe |-> s.key, podSecurity |-> FALSE,
   containerSecurity |-> FALSE, extras |-> FALSE, foreign |-> FALSE]

-----------------------------------------------------------------------------
(* What a reconcile finds.                                                 *)

SecretsInNamespace == {x \in {secret, userSecret} : x # None}

SyncSecrets == {x \in SecretsInNamespace : x.sync}
ConfigSecrets == {x \in SecretsInNamespace : x.config}

\* The Secret with the sync certificate: the generated one if the resource has a
\* certificate, otherwise the labelled one (FindSecretByLabel wants exactly one).
HasSyncSecret(s) == s.tls \/ Cardinality(SyncSecrets) = 1
SyncSecret(s) == IF s.tls THEN secret ELSE CHOOSE x \in SyncSecrets : TRUE

\* The client for s; the sync Secret is its config Secret if it is labelled so.
ClientFor(s) ==
  FromCr([url |-> s.url, key |-> s.key],
         IF SyncSecret(s).config THEN SyncSecret(s) ELSE None,
         ConfigSecrets,
         IF service THEN {"cluster-service"} ELSE {})

\* How far ReconcileKubernetes gets without finding anything to do.
Managed == spec # None /\ spec.enabled
ReachesDeployment == Managed /\ (spec.tls => secret # None)
ReachesService == ReachesDeployment /\ seen # None
ReachesSyncSecret == ReachesService /\ service
ReachesContainer == ReachesSyncSecret /\ HasSyncSecret(spec)
ReachesImage == ReachesContainer /\ seen.container

\* ... with the right image, the certificate, the volumes, the key, and so on.
ReachesTls == ReachesImage /\ seen.image = spec.image
ReachesVolumes == ReachesTls /\ TlsVolume \in seen.volumes \cap seen.mounts
ReachesKey == ReachesVolumes /\ PersistentVolumes(spec) \subseteq seen.volumes
ReachesSecurity ==
  /\ ReachesKey
  /\ ClientFor(spec) # None
  /\ seen.apikey = ClientFor(spec).key
  /\ seen.probe = ClientFor(spec).key

\* Of the two security contexts only the one of the pod is looked at.
ReachesNodeport == ReachesSecurity /\ (spec.trueNas => seen.podSecurity)

-----------------------------------------------------------------------------
(* Reconcile.                                                              *)

Running == current = Self

\* Reconcile starts and gets the resource.
Begin ==
  /\ Take(Self)
  /\ spec' = IF cr = None THEN None ELSE FilledIn(cr)
  /\ UNCHANGED <<worldVars, left>>

\* Reconcile returns, to be called again: after a write, or with an error.
ComeBack == Running /\ Requeue /\ spec' = None

\* An API call fails.
CallFails == Spend("fault") /\ UNCHANGED objects

\* Wrong: the update carries no resource version.
ForcedUpdate(new) ==
  /\ ComeBack
  /\ \/ deployment' = new /\ UNCHANGED <<secret, service, nodeport, left>>
     \/ CallFails
  /\ UNCHANGED <<cr, userSecret, seen>>

\* UpdateObject: the API server refuses an update based on an outdated object.
Update(new) ==
  /\ ComeBack
  /\ \/ /\ deployment = seen
        /\ deployment' = new
        /\ UNCHANGED <<secret, service, nodeport, left>>
     \/ deployment # seen /\ UNCHANGED <<objects, left>>
     \/ CallFails
  /\ UNCHANGED <<cr, userSecret, seen>>

\* The resource is gone, and its objects are the garbage collector's business; or it
\* does not have Kubernetes managed, and what there is stays.
NothingManaged ==
  /\ Running
  /\ ~Managed
  /\ Forget
  /\ spec' = None
  /\ UNCHANGED <<worldVars, left>>

\* GetOrCreateObject for the Secret, the Deployment and the Service.
CreateSecret ==
  /\ Managed /\ ~ReachesDeployment
  /\ ComeBack
  /\ \/ /\ secret' = GeneratedSecret(spec)
        /\ UNCHANGED <<deployment, service, nodeport, left>>
     \/ CallFails
  /\ UNCHANGED <<cr, userSecret, seen>>

CreateDeployment ==
  /\ ReachesDeployment /\ ~ReachesService
  /\ ComeBack
  /\ \/ /\ deployment' = IF deployment = None THEN GeneratedDeployment(spec) ELSE deployment
        /\ UNCHANGED <<secret, service, nodeport, left>>
     \/ CallFails
  /\ UNCHANGED <<cr, userSecret, seen>>

CreateService ==
  /\ ReachesService /\ ~ReachesSyncSecret
  /\ ComeBack
  /\ \/ service' = TRUE /\ UNCHANGED <<secret, deployment, nodeport, left>>
     \/ CallFails
  /\ UNCHANGED <<cr, userSecret, seen>>

\* No Secret with the sync certificate, or several: an error.
NoSyncSecret ==
  /\ ReachesSyncSecret /\ ~ReachesContainer
  /\ ComeBack
  /\ UNCHANGED <<worldVars, left>>

\* The container is not there under its name: the Containers section is replaced by
\* the generated one as a whole, and only what is outside of it stays.
ReplaceContainers ==
  /\ ReachesContainer /\ ~ReachesImage
  /\ Update([GeneratedDeployment(spec) EXCEPT
               !.volumes = seen.volumes, !.podSecurity = seen.podSecurity,
               !.foreign = seen.foreign])

SetImage ==
  /\ ReachesImage /\ ~ReachesTls
  /\ Update([seen EXCEPT !.image = spec.image])

\* generateTlsVolumeAndMount appends the volume whether or not it is there, and the
\* API server accepts no two volumes of one name.
AddTls ==
  /\ ReachesTls /\ ~ReachesVolumes
  /\ IF TlsVolume \in seen.volumes
       THEN ComeBack /\ UNCHANGED <<worldVars, left>>
       ELSE Update([seen EXCEPT !.volumes = @ \cup {TlsVolume},
                                !.mounts = @ \cup {TlsVolume}])

\* A mount is only added together with its volume.
AddVolumes ==
  /\ ReachesVolumes /\ ~ReachesKey
  /\ LET missing == PersistentVolumes(spec) \ seen.volumes
     IN  Update([seen EXCEPT !.volumes = @ \cup missing, !.mounts = @ \cup missing])

\* FromCr finds no usable connection: an error.
NoClient ==
  /\ ReachesKey /\ ClientFor(spec) = None
  /\ ComeBack
  /\ UNCHANGED <<worldVars, left>>

\* The container has no liveness probe, and the header is looked for in it all the
\* same: the panic takes the process down.
Panic ==
  /\ ReachesKey /\ ClientFor(spec) # None
  /\ seen.probe = None
  /\ Die
  /\ spec' = None
  /\ UNCHANGED <<worldVars, left>>

\* Wrong: the liveness probe keeps the key it was generated with.
SetApiKeyOnly ==
  /\ ReachesKey /\ ClientFor(spec) # None
  /\ seen.apikey # ClientFor(spec).key
  /\ Update([seen EXCEPT !.apikey = ClientFor(spec).key])

\* --gui-apikey and the header of the liveness probe, in one update.
SetApiKey ==
  /\ ReachesKey /\ ~ReachesSecurity /\ ClientFor(spec) # None
  /\ seen.probe # None
  /\ Update([seen EXCEPT !.apikey = ClientFor(spec).key,
                         !.probe = ClientFor(spec).key])

SetSecurityContext ==
  /\ ReachesSecurity /\ ~ReachesNodeport
  /\ Update([seen EXCEPT !.podSecurity = TRUE, !.containerSecurity = TRUE])

CreateNodeport ==
  /\ ReachesNodeport /\ spec.nodeport /\ ~nodeport
  /\ ComeBack
  /\ \/ nodeport' = TRUE /\ UNCHANGED <<secret, deployment, service, left>>
     \/ CallFails
  /\ UNCHANGED <<cr, userSecret, seen>>

\* Nothing to do: nothing is scheduled.
Done ==
  /\ Running
  /\ ReachesNodeport /\ (spec.nodeport => nodeport)
  /\ Forget
  /\ spec' = None
  /\ UNCHANGED <<worldVars, left>>

-----------------------------------------------------------------------------
(* The surroundings.                                                       *)

\* A user creates or changes the Instance.
Declare(new) ==
  /\ new # cr
  /\ Spend("user")
  /\ cr' = new
  /\ Notify(Self)
  /\ UNCHANGED <<userSecret, objects, seen, spec>>

\* A user deletes it, and the garbage collector removes what it owns; also what a
\* reconcile under way has created for it after that.
CollectGarbage ==
  /\ secret' = None
  /\ deployment' = None
  /\ service' = FALSE
  /\ nodeport' = FALSE

Undeclare ==
  /\ cr # None
  /\ Spend("user")
  /\ cr' = None
  /\ CollectGarbage
  /\ Notify(Self)
  /\ UNCHANGED <<userSecret, seen, spec>>

CollectLate ==
  /\ cr = None
  /\ ~(secret = None /\ deployment = None /\ ~service /\ ~nodeport)
  /\ CollectGarbage
  /\ UNCHANGED <<controllerVars, cr, userSecret, seen, spec>>

\* Wrong: the controller is not registered as owner of the Deployment.
ObserveUnowned ==
  /\ up
  /\ seen # deployment
  /\ seen' = deployment
  /\ UNCHANGED <<controllerVars, cr, userSecret, objects, spec>>

\* The informer cache catches up with the Deployment, which the controller owns and
\* hence watches.
Observe ==
  /\ up
  /\ seen # deployment
  /\ seen' = deployment
  /\ Notify(Self)
  /\ UNCHANGED <<left, cr, userSecret, objects, spec>>

\* Somebody uses kubectl on the Deployment.  A container that is renamed is, from then
\* on, one the operator knows nothing of, and there is none named "syncthing".
EditDeployment(new) ==
  /\ deployment # None
  /\ Spend("edit")
  /\ deployment' = new
  /\ UNCHANGED <<up, queue, delayed, current, cr, userSecret, secret, service,
                 nodeport, seen, spec>>

KubectlEdit ==
  \/ "delete" \in Edits /\ EditDeployment(None)
  \/ "foreign" \in Edits /\ EditDeployment([deployment EXCEPT !.foreign = ~@])
  \/ "extras" \in Edits /\ EditDeployment([deployment EXCEPT !.extras = ~@])
  \/ "image" \in Edits /\ \E i \in Images : EditDeployment([deployment EXCEPT !.image = i])
  \/ "probe" \in Edits /\ EditDeployment([deployment EXCEPT !.probe = None])
  \/ /\ "volume" \in Edits
     /\ \E v \in Volumes \cup {TlsVolume} :
          EditDeployment([deployment EXCEPT !.volumes = @ \ {v}, !.mounts = @ \ {v}])
  \/ /\ "container" \in Edits
     /\ EditDeployment([deployment EXCEPT !.container = FALSE, !.image = None,
                                          !.mounts = {}, !.apikey = Absent,
                                          !.probe = None, !.extras = TRUE,
                                          !.containerSecurity = FALSE])

\* Somebody deletes the Service, which the controller watches.
DeleteService ==
  /\ "service" \in Edits
  /\ service
  /\ Spend("edit")
  /\ service' = FALSE
  /\ Notify(Self)
  /\ UNCHANGED <<cr, userSecret, secret, deployment, nodeport, seen, spec>>

\* Somebody labels, changes or removes a Secret, which nobody watches.
EditUserSecret(new) ==
  /\ "secret" \in Edits
  /\ new # userSecret
  /\ Spend("edit")
  /\ userSecret' = new
  /\ UNCHANGED <<up, queue, delayed, current, cr, objects, seen, spec>>

TimerExpires == TimerFires(Self) /\ UNCHANGED <<worldVars, spec>>

\* Wrong: SyncPeriod is not set, and nothing is delivered again.
NoResync == up /\ UNCHANGED vars

PeriodicResync == Resync(Existing) /\ UNCHANGED <<worldVars, spec>>

ProcessDies == Crash /\ spec' = None /\ UNCHANGED worldVars

\* The informers start by listing.
ProcessStarts ==
  /\ Restart(Existing)
  /\ seen' = deployment
  /\ UNCHANGED <<cr, userSecret, objects, spec>>

-----------------------------------------------------------------------------
Reconcile ==
  \/ Begin \/ NothingManaged
  \/ CreateSecret \/ CreateDeployment \/ CreateService \/ NoSyncSecret
  \/ ReplaceContainers \/ SetImage \/ AddTls \/ AddVolumes
  \/ NoClient \/ Panic \/ SetApiKey \/ SetSecurityContext \/ CreateNodeport
  \/ Done

Environment ==
  \/ \E new \in InstanceSpecs : Declare(new)
  \/ Undeclare \/ CollectLate
  \/ Observe
  \/ KubectlEdit
  \/ DeleteService
  \/ \E new \in UserSecrets \cup {None} : EditUserSecret(new)
  \/ TimerExpires \/ PeriodicResync \/ ProcessDies \/ ProcessStarts

Next == Reconcile \/ Environment

Spec == Init /\ [][Next]_vars

\* The API server answers, timers expire, the cache catches up, a dead process is
\* restarted, and the informers re-deliver every SyncPeriod (main.go).
Fairness ==
  /\ WF_vars(Reconcile)
  /\ WF_vars(TimerExpires)
  /\ WF_vars(Observe)
  /\ WF_vars(CollectLate)
  /\ WF_vars(ProcessStarts)
  /\ SF_vars(PeriodicResync)

FairSpec == Spec /\ Fairness

-----------------------------------------------------------------------------
(* Safety.                                                                 *)

\* What the Instance s asks for, filled in, written without the order of the steps.
Deployed(s) ==
  /\ deployment # None
  /\ deployment.container
  /\ deployment.image = s.image
  /\ PersistentVolumes(s) \cup {TlsVolume} \subseteq deployment.volumes \cap deployment.mounts
  /\ HasSyncSecret(s) /\ (s.tls => secret # None)
  /\ ClientFor(s) # None
  /\ deployment.apikey = ClientFor(s).key
  /\ deployment.probe = ClientFor(s).key
  /\ s.trueNas => deployment.podSecurity
  /\ service
  /\ s.nodeport => nodeport

\* Whenever the cluster is not as the Instance asks, a reconcile is pending or the
\* event that starts one is on its way - also when the drift happens during a
\* reconcile that works from an outdated resource or cache.  (Without edits of
\* Secrets the controller does not own, whose changes it is not told, and of
\* volumes, whose mounts it does not check.)
DriftNoticed ==
  up /\ cr # None /\ cr.enabled /\ ~Deployed(FilledIn(cr))
    => Pending(Self) \/ seen # deployment

\* The container is started with the key its liveness probe sends, whatever changes
\* of the resource and of Secrets come between: otherwise the pod is killed again
\* and again.
ProbeUsesApiKey ==
  deployment # None /\ deployment.apikey # Absent /\ deployment.probe # None
    => deployment.probe = deployment.apikey

\* Although every update sends the whole cached Deployment, none of them reverts an
\* edit of something the operator does not manage.  In the Containers section that
\* holds only while there is a container named "syncthing": otherwise the section is
\* replaced as a whole (instance_controller.go:194), and with it the sidecars,
\* variables and resources people have set there.
ForeignEditsKept ==
  [][(Reconcile /\ deployment # None /\ deployment' # None)
       => /\ deployment'.foreign = deployment.foreign
          /\ deployment.container => deployment'.extras = deployment.extras]_vars

\* The controller, which looks into the liveness probe without asking whether there is
\* one, takes the process down only after somebody has edited a Deployment: none it
\* has generated, updated or found outdated in the cache is without a probe.
PanicOnlyAfterEdit ==
  [][Panic => left["edit"] < Budget["edit"]]_vars

-----------------------------------------------------------------------------
(* Liveness.                                                               *)

\* What the Instance leaves open is in the one labelled Secret of the namespace,
\* which may be the one an earlier spec has had generated.
Provided(s) ==
  s.tls \/ (Cardinality(SyncSecrets) = 1 /\ SyncSecrets \subseteq ConfigSecrets)

\* Nobody has taken the liveness probe out of the Deployment.
Probed == deployment # None /\ deployment.container => deployment.probe # None

\* Once everybody leaves the cluster alone, it becomes and stays what the Instance
\* asks for - even when all that changed is a Secret nobody watches.  (Without a
\* liveness probe the controller panics, and again after every restart.)
Converges ==
  <>[](cr # None /\ cr.enabled /\ Provided(cr) /\ Probed => Deployed(FilledIn(cr)))

\* The client of a Folder or Device that says nothing about the connection.
DependentClient ==
  FromCr([url |-> Empty, key |-> Empty], None, ConfigSecrets,
         IF service THEN {"cluster-service"} ELSE {})

\* "API Info to manage an existing syncthing (if syncthing is not managed by the
\* operator)" (config/samples/v1_folder_full.yaml:7): where the operator manages
\* Syncthing, Folders and Devices find the key it is running with by themselves.
DependentsConnect ==
  <>[](cr # None /\ cr.enabled /\ Deployed(FilledIn(cr))
         => DependentClient # None /\ DependentClient.key = deployment.apikey)

=============================================================================
