# A TLA+ model of syncthing-operator

syncthing-operator keeps Syncthing, and a Syncthing Deployment, as Kubernetes custom resources
describe it. This directory holds a model of its controllers, TLC configurations that check the
model on small instances, and proofs of every safety property for instances of any size.

    tlc -config folder.cfg MCFolder      # a run: <run>.cfg with the module PROJECT.json names
    tlapm FolderControllerProofs.tla     # the proofs, likewise every other *Proofs.tla

`PROJECT.json` lists the runs, the source lines every definition stands for, the hazards, and for
every property a mutant of the code the property detects.

## 1. Inventory

All controllers live in one process (`src/main.go`), each with one worker and a work queue.

| Component | State it keeps | Operations | Talks to |
|---|---|---|---|
| controller-runtime (external), set up in `main.go` | per controller: work queue, timers, informer cache; lost when the process dies | enqueue on watch events, hand a name to `Reconcile`, come back after `RequeueAfter` or an error, resync every `SyncPeriod` | API server |
| Folder controller (`controllers/folder_controller.go`) | none between calls; within one: spec, one snapshot of the Syncthing configuration, the folder being built | get resource, build client, ping, get configuration, `DeleteFolder`, up to two `ReplaceFolder` | Syncthing REST API |
| Device controller (`controllers/device_controller.go`) | likewise | as above with `ReplaceDevice`, and `ReconcileDeletion` by name | Syncthing REST API |
| Instance controller, Kubernetes part (`controllers/instance_controller.go`, `resources.go`, `utils.go`) | none; reads the informer cache | create Secret, Deployment, Service, nodeport Service; a dozen checks, each of which writes the Deployment and returns | API server |
| Instance controller, application part (`ReconcileApplication`) | one snapshot of the options | PATCH usage report, login, bandwidth | Syncthing REST API |
| Client lookup (`pkg/syncthing-client/client.go`, `FromCr`) | none | merge url and key of resource, config Secret, labelled Secret, labelled Service | informer cache |
| REST client (`pkg/syncthing-client/st_api.go`) | none | ping, GET configuration (whose status nobody checks), PUT/DELETE folders and devices, PATCH options | Syncthing |

**How they interact.** The controllers share no memory. They meet in three places: the *Syncthing
server* (the folder controller shares folders with devices that the device controller, the WebUI
and other peers add, rename and remove), the *labelled Secret* (written by the instance controller,
read by `FromCr` for all three), and the *custom resources* (users change them at any moment).

**What is hard.** Every API call may fail before or after it took effect, and an error document may
pass for an empty configuration (`GetConfig` and `do` look at no status). Between any two of them
the user, the WebUI, kubectl or another controller may act. The PUTs replace whole objects computed
from one earlier snapshot. Deletions have no finalizer, so they exist only as a queued name.
Nothing tells the operator that something changed in Syncthing: only periodic looks find out.
A finished instance reconcile schedules nothing at all and relies on watches and the resync.

**What makes each component correct.**

* Folder and device together: a folder is shared with nobody its resource has not asked for, it comes
  to be shared with the devices it names whichever resource came first, and then the PUTs stop.
* Folder, device: no live resource is ever dropped from the loop; an outdated read has a successor;
  only declared objects are touched; settings the resource cannot express survive; when the
  surroundings come to rest the server is as declared; deletions reach the server.
* Instance, Kubernetes: drift never goes unnoticed; key argument and probe agree; an update never
  reverts somebody else's edit of what the operator does not manage, unless it has to replace the
  containers; the operator itself leads to no Deployment that makes it panic; the cluster comes to be as declared.
* Instance, application: a password changed by hand survives; the admin user is the declared one.
* Client lookup: the first source that has an entry provides it, and what is missing, empty or
  ambiguous is an error instead of a guess.

## 2. Modules

| Module | Models | Notes |
|---|---|---|
| `Controller` | queue, timers, worker, restart, resync, `Endpoint`; the budget of disturbances | external, as `main.go` configures it |
| `LevelTriggered` | what the folder and the device controller promise | abstract specification, six actions |
| `FolderController` | `FolderReconciler.Reconcile` and the folder requests of `st_api.go` | one action per API call |
| `FolderControllerProofs` | theorems about it | TLAPS |
| `FolderPromiseProofs` | that it implements `LevelTriggered` | TLAPS |
| `DeviceController` | `DeviceReconciler.Reconcile`, `ReconcileDeletion` | one action per API call |
| `DeviceControllerProofs` | theorems about it | TLAPS |
| `DevicePromiseProofs` | that it implements `LevelTriggered` | TLAPS |
| `Operator` | both controllers in one process on one server | `INSTANCE`s of the two modules, unchanged |
| `OperatorProofs` | theorems about it | TLAPS |
| `ClientConfig` | `FromCr` as operators | used by the next two |
| `ClientLookup` | every call of `FromCr` in a changing namespace | compared with a reference definition |
| `ClientLookupProofs` | theorems about it | TLAPS |
| `InstanceController` | `ReconcileKubernetes`, `ReconcileNodeportservice`, generators | composes `Controller` and `ClientConfig` |
| `InstanceControllerProofs` | theorems about it | TLAPS |
| `ApplicationSettings` | `ReconcileApplication` | one action per request |
| `ApplicationSettingsProofs` | theorems about it | TLAPS |
| `MCFolder`, `MCDevice`, `MCOperator`, `MCInstance`, `MCApplication`, `MCClient` | constants for TLC | |

### Controller
`queue` is the de-duplicating work queue, `delayed` the names waiting for `RequeueAfter` or the
rate limiter (only the length of the wait tells them apart), `current` the name the one worker
holds. A change of a resource and its watch event are one step (`Notify`): `r.Get` reads the same
informer cache the event comes from, so a lagging cache is a user who acts later. `Crash` loses
queue, timers and the reconcile under way at any point; `Restart` enqueues what exists then.
`left` counts what the surroundings may still do: user changes, edits, failing calls, misread
answers, crashes. It is the only bound on behaviour, it guards the surroundings only, and it makes
"once everybody comes to rest" expressible: a finite budget always runs out. `Die` is what a death
of the process does, `Crash` one that comes from outside.

### LevelTriggered
Six actions: a user changes a wish, the controller attends to a name, looks again at everything
wanted, somebody interferes, the process stops and starts. `Attend` says the two things that matter:
it changes only objects claimed for the name it attends to, and it gives a name up only when nothing
is wanted for it. The refinement mapping (`Promise` in both controllers) shows the
custom resources as wishes, names that are queued, delayed or in hand as attended, and the
history `declared` as claims. Fetching, comparing and returning are stutters, every PUT and DELETE
is an `Attend`.

### FolderController
`pc` names the call Reconcile is about to make: `fetch` (client, ping, GET configuration),
`delete`, `settings` (first PUT), `shares` (second PUT). `folder` and `shared` are what was computed
from the snapshot. Label, path, type, order, permissions, pause and rescan interval are compared and
set alike: they are one value, `settings`. The marker is its own (it is only ever changed towards a
non-default one). `ignoreDelete` stands for fields the client's `FolderElement` carries through and
never sets on an existing folder. Names resolve to the first match in a list of no fixed order, so any match.
A PUT drops references to devices the server does not know, and removing a device removes its shares, as Syncthing
does. `FetchMisread` is a `GetConfig` that decodes an error document: no folders, no devices.
`undisturbed` and `declared` are history variables. `FolderIds` has ids no resource names.

### DeviceController
As above; `target` is the device id the next request goes to. `ReconcileDeletion` looks for the
*name* of the deleted resource and removes one match. "Not found" on DELETE is an error that is
retried. `manual` stands for the fields the controller carries through. A misread configuration
makes every device new and every deleted one already gone.

### Operator
`F` and `D` are the two controllers with their own queues and workers; the server, the process and
the budget are shared. The Folder controller sees of a device its name (`DeviceNamesOn`). Each action is
a step of one controller while the other's variables stay (`FolderSide`, `DeviceSide`); removing a
device takes its shares along, and a crash takes both. Edits in the WebUI are left to the
runs of the single controllers. `asked` is history: what folder resources ever asked for.

### ClientConfig, ClientLookup
An entry may be missing (`Absent`) or there and empty (`Empty`); the code treats them differently, so
the model does. `BadUrls` do not parse, `BlankKeys` become empty by the trim that follows the check
for emptiness. `ClientLookup` compares `FromCr` with "first source that has it" on all combinations
but one: `HalfGiven`, a resource that gives only one of url and key while a Secret with a url is handed over.

### InstanceController
A reconcile reads from the cache and writes at most one object before it returns, so it is one
step after `Begin`. `FilledIn` is `fillDefaultValues`; with `enable_instance` off nothing is done
(`NothingManaged`), and what there is stays. `Reaches*` is the chain of early returns of
`ReconcileKubernetes`: each says how far the call gets without finding anything to do, and each
action is the next thing it then does. `seen` is the cached Deployment: an update based on an
outdated one is refused by the API server (resource version). `Panic`: a container without liveness
probe is dereferenced all the same, and controller-runtime v0.10.0 (`go.mod`) does not recover from
it, so the process dies. What people set in a Deployment and the operator never looks at is `extras` in the
Containers section (sidecars, environment, resources) and `foreign` elsewhere: `ReplaceContainers` keeps
what is outside the section (`volumes`, `podSecurity`, `foreign`) and takes the rest from the generated
Deployment. A container renamed with kubectl becomes one of the `extras`. The security context of the pod and the
one of the container are set together, and only the pod's is compared. Ports, paths and init containers are
left out: nothing compares them.

### ApplicationSettings
`todo` is the list of PATCH requests decided from one snapshot, sent one by one. `Kbps` rounds up as
`ScaledValue` does. A misread snapshot has no admin user, so the login is set anew.

## 3. Runs

| Run | Question | Bounds |
|---|---|---|
| `folder` | Does the controller implement `LevelTriggered`, is nothing undeclared touched and nothing manual lost, does the folder converge, and do the PUTs end then? Do deletions arrive as long as all is calm? | one resource, a second folder on the server, two devices that may share a name, three specs (plain; by id and name; custom marker), 2 user changes, 1 edit, 1 failure, 1 misread answer, 1 crash |
| `device` | The same for devices, with resources that compete for a device | two resources and devices, both claimable by both, a third name from the WebUI, 3 user changes, 1 edit, 1 failure, 1 misread answer, 1 crash |
| `operator` | Do both controllers together share folders with whom they should, and only with them, and come to rest? | a folder resource shared by name or by id and name, two device resources that may claim one device, of which one may change its id, 3 user changes, 1 failure, 1 crash |
| `client_lookup` | Does `FromCr` take the first source, also with a Secret handed over? | two Secrets, two Services, good, unparsable and service urls, good and blank keys |
| `instance_safety` | Is drift noticed, do key and probe agree, do foreign edits survive, and does only an edit lead to the panic? | 2 user changes, 2 kubectl edits including a sidecar, a renamed container and a removed probe, 1 failure, 1 crash |
| `instance_converges` | Does the cluster become what is asked, with certificate and key in the resource or in a user's Secret? | 2 user changes, 1 edit of volumes, probe, Service or Secret, 1 failure, 1 crash; specs that leave everything to the defaults |
| `application` | Do hand-set passwords survive retries, do admin user, report and limits converge? | specs with and without login and limits, 2 user changes, 2 edits, 1 failure, 1 misread answer, 1 crash |
| `folder_delete_missed` | *violated*: a deletion during downtime is never made up for | 1 crash |
| `folder_wrong_server` | *violated*: deleting a resource for server B removes a folder on server A | two servers |
| `device_id_change` | *violated*: a resource whose id changed leaves a device behind | one resource, two ids |
| `instance_sample` | *violated*: the Instance of `config/samples/v1_instance_full.yaml`, managed by the operator and without a url, never gets its API key | one change |
| `instance_key_change` | *violated*: after the apikey of an Instance changes, Folders and Devices go on with the old one | two user changes |

**Why these bounds are enough.** The hazards need a snapshot, one intervening act and the request
that follows: one edit, one failure and one crash can come at every point between any two calls,
and two user changes give create-then-change and create-then-delete, three a re-creation or a
resource taking over another's device. Two elements of each kind suffice for "the other one":
another folder, another device, a namesake. A failure that meets the retry of an earlier one, a
second edit of a folder or device, or two namesakes on two servers are beyond these bounds; the proofs remove
the bounds from every safety property of the passing runs, `KeepsPromise` included (section 4).
What they leave to TLC is liveness.

**Fairness.** The steps of `Reconcile` are weakly fair. That assumes that Syncthing and the API server
answer or refuse every call: the Syncthing client sets no timeout (`client.go:119`), so a server that accepted
a request and stayed silent would hold the one worker for ever. `Begin(k)` is strongly fair because the work queue is first-in first-out; timers fire; the
kubelet restarts the process (the Deployment in `config/manager`); the informer cache catches up;
and the resync is strongly fair because the informers re-deliver every `SyncPeriod` (`main.go`) for
as long as the process runs. The folder and device controllers converge without the resync, so it
is not among their assumptions; the instance controller needs it, because nothing watches the
Secrets of users (the mutant of `instance_converges` removes it).
Users, edits, failures, misread answers and crashes are never fair. In `Operator` the two workers are
goroutines of one process: each is weakly fair on its own, each queue strongly fair per name.

**What the properties assume**, each stated in its comment: `ManualSettingsKept` that nobody writes
between GetConfig and the PUT, and that GetConfig was read for what it was; `OrphanPending` and
`CalmDeletion` (folders) that no call has failed, the process has not died and nobody has edited
Syncthing so far; their device versions that the process has not died, nobody has edited, every answer was read,
and the resource kept its id - calls may fail, because `DeleteDevice` retries; `Quiesces` excepts
resources that list a device id Syncthing does not know, which it drops and the operator adds
again and again; `SharesFollowNames` a device that no other resource claims and a resource that kept its id;
`ForeignEditsKept`, for what is set in the Containers section, that the section has the syncthing
container (otherwise it is replaced as a whole); `LookupIsFirstMatch` that the resource is not `HalfGiven`;
instance `Converges` that the certificate and key are to be found in exactly one place and nobody has removed the
probe. Each exception is one the code needs: section 5 says what happens without it.

## 4. Proofs

Every invariant, action property and refinement of a passing run is a theorem: it holds for every
choice of the constants that satisfies the named ASSUMEs, with any number of resources, servers and
disturbances. Four theorems have a hypothesis of their own, which the constants of the run satisfy
and without which the code does not do what they state: `OneServer`, `NamesApart` and `OnlyWatchedEdits`, below.
The ASSUMEs say that `None` is none of the values it stands in for, that the specs and
Secrets users write have their type, that the default server is a server or `None`, that folder
resources name folder ids, that the url and key texts of `ClientConfig` are what their names say,
and that the budget is a number per kind. Those of `Operator` are the ones of its two instances.

About folders (`FolderControllerProofs`, `FolderPromiseProofs`):

| Theorem | Statement | Inductive invariant |
|---|---|---|
| `TypeCorrect`, `TypeOKAlways` | types; no path reaches a PUT or DELETE without a resource, a server and a folder | `TypeInv` = `TypeOK` + `Consistent` (what each value of `pc` guarantees; a dead process has no queue) |
| `NeverForgotten`, `StaleReadsCovered` | `NoForgottenFolder` and `StaleReadCovered`, with any number of crashes and failures | the two together over `TypeInv`: dropping a resource that was not found is safe only because an outdated read is covered by the queue |
| `LeftAlone` | `UnknownFoldersLeftAlone` if all resources are about one server (`OneServer`) | `Asked`: every name that is pending was declared. Without `OneServer` the run `folder_wrong_server` refutes it |
| `ManualSettings` | `ManualSettingsKept` | `Faithful`: the snapshot agrees with an undisturbed server, also after the first PUT, and folders are shared with known devices only (otherwise the PUT would drop a share) |
| `OrphansPending` | `OrphanPending`: as long as nothing has failed, died or been edited (`Calm`) a folder whose resource is gone is still going to be looked at | `Within`: no more is left of a budget than there was, so that a calm state comes from a calm one by a step that spends none of the three |
| `FolderKeepsPromise` | `KeepsPromise`, that is, `LevelTriggered!Spec` under the mapping, if all resources are about one server | `Known` = `TypeInv`, `StaleReadCovered`, `Asked`: an outdated read is why a name may be given up, and that it was asked for is why a folder may be touched |

About devices (`DeviceControllerProofs`, `DevicePromiseProofs`):

| Theorem | Statement | Inductive invariant |
|---|---|---|
| `TypeCorrect`, `TypeOKAlways` | types; a DELETE is only reached without a resource, a PUT only with one | `TypeInv` = `TypeOK` + `Consistent` |
| `NeverForgotten`, `StaleReadsCovered` | `NoForgottenDevice` and `StaleReadCovered` | `Attended`, the two together over `TypeInv` |
| `ManualSettings` | `ManualSettingsKept` | `Faithful`: the device to be sent has the manual settings an undisturbed server shows |
| `OrphansPending` | `OrphanPending`: nothing is edited, nothing dies and every answer is read, but calls may fail | `Within`, and while it is calm `CalmInv`: the process is up, `Claimed`, `OrphanPending`. `ReconcileDeletion` gives up after one DELETE; by `Claimed` a resource that has kept its id bears one device at most, so that there is no second one |
| `DeviceKeepsPromise` | `KeepsPromise`, on any number of servers, if nobody uses the name of a resource in the WebUI (`NamesApart`) | `Claimed`: whatever bears the name of a resource was claimed by it (`NamesClaimed`), because a PUT names devices after their resource (`HandClaimed`), which declared them (`SpecsClaimed`) |

The folder and the device controller need different assumptions because they remove things
differently: a folder by its id from the namespace's server, so that resources about several servers
are in the way; a device by its name, so that a namesake from the WebUI is.

About both together (`OperatorProofs`), on any number of servers:

| Theorem | Statement | Inductive invariant |
|---|---|---|
| `TypeCorrect` | `TypeOK` of both | `DeviceTypes`, `FolderTypes`: `TypeOK` of each with what its place in Reconcile guarantees |
| `SharedOnlyAsAsked` | `SharedAsAsked`: nobody gets a folder that its resource has not asked for, by id or by a declared name | `OperatorInv`, with `Declared` (every device bears the name of a resource that declared it, and so does the one about to be sent) and `SharesAsked` (the property, and the same for the specs, for the one Reconcile has read and for the shares it is about to send) |

`Declared` is why reading a name from the configuration is safe, whenever that was; that both
histories only grow (`MayShareStays`) is why the answer may be old when the PUT arrives.
`DeviceSideIdle` and `FolderSideIdle` say what a step of one controller means for the other: removing
a device removes shares, and nothing else moves. The types and claims of the single controllers are
shown again for the instances `F` and `D`, because the prover does not take theorems of an
instance. The assumption that nobody edits a name in the WebUI is the shape of `Operator`, which has no such
action: with it, a name would not be evidence of a declaration.

About the others (`ClientLookupProofs`, `InstanceControllerProofs`, `ApplicationSettingsProofs`):

| Theorem | Statement | Inductive invariant |
|---|---|---|
| `ClientLookupProofs!TypeCorrect` | `TypeOK` of `ClientLookup` | `LookupInv` = `TypeOK`, and an answer is what `FromCr` makes of what there was (`Answered`) |
| `KeysByPrecedence` | `KeyPrecedence` | `LookupInv` |
| `LookupsFindFirstMatch` | `LookupIsFirstMatch`, with its exception `HalfGiven` | `LookupInv`; one lemma per source of `FromCr`, with cardinalities for "exactly one" |
| `InstanceControllerProofs!TypeCorrect` | `TypeOK` of `InstanceController` | `ProbeInv` = `TypeOK`, `Scheduled` (a dead process has no queue), `ProbeUsesApiKey` |
| `ProbesUseApiKey` | `ProbeUsesApiKey` | `ProbeInv`; what all updates have in common is `GoodUpdate` |
| `ForeignEditsAreKept` | `ForeignEditsKept`: `foreign` always stays, `extras` as long as there is a syncthing container | `ProbeInv`; an update is accepted only on the current Deployment, so that the container is missing there too when it is missing in the cache |
| `PanicsOnlyAfterEdits` | `PanicOnlyAfterEdit` | `PanicInv` = `ProbeInv`, `ProbesThere` (while the budget of edits is untouched, the Deployment and the cached one have a probe) |
| `DriftIsNoticed` | `DriftNoticed` if nobody edits users' Secrets or volumes (`OnlyWatchedEdits`) | `DriftInv` = `ProbeInv`, `VolumesMounted` (what is mounted can be told from the volumes, the only ones the code compares), `SpecFresh` (an outdated spec has a successor in the queue), `CacheAsAsked` (only a cache that is as asked leaves nothing scheduled) |
| `ApplicationSettingsProofs!TypeCorrect` | `TypeOK` of `ApplicationSettings` | `SettingsInv` |
| `PasswordsKept` | `ManualPasswordKept` | `SettingsInv` = `TypeOK`, `Consistent` (among others, the login is among the requests once at most), `AuthStillNeeded` (in an undisturbed reconcile, a login still to be sent is still needed) |

`OnlyWatchedEdits` is what the run `instance_safety` sets: its `Edits` has every kind but those two,
which the code does not notice. Nothing watches the Secrets of users, so that only the resync
finds a changed one; and of the volumes only the presence is compared, not the mounts.

Each step lemma has one step per action. TLC checked the strengthened invariants on the constants of
the runs before they were proved: `OperatorInv` on those of `operator`, `DriftInv` and `PanicInv` on those of
`instance_safety`, `SettingsInv` on those of `application`. The promise modules have one lemma for
what all calls have in common (`CallAttends`), one for the steps of Reconcile and one for the surroundings.

Only model-checked: liveness - `Converges`, `Quiesces`, `CalmDeletion`, `SharesFollowNames`,
`FoldersSettle` - because temporal reasoning under fairness and ENABLED are out of the prover's reach. No module
declares a RECURSIVE operator.

## 5. Divergences without a run

Seen while modelling, in code the model follows; a run of their own would show one expression each.

* `GetConfig` and `do` (`st_api.go:97`, `client.go:191`) look at no status: an error document in JSON is an empty
  configuration. The next PUT then overwrites what was set by hand, and the login is set anew.
* A Deployment without liveness probe makes the controller panic (`instance_controller.go:246`), again after
  every restart; folders and devices are not reconciled either, then.
* An Instance with an `apikey` but without certificate generates no labelled Secret: its Folders
  and Devices do not find the key.
* After the id of a Device changes, folders shared by its name may stay shared with the old device, and with
  whichever of the two the list shows first.
* Folders whose resource lists an id Syncthing does not know get a PUT at every look.
* `DeleteFolder`'s error is ignored (`folder_controller.go:85`), while devices retry: a failed DELETE
  leaves the folder for good. Likewise a folder on a server other than the namespace's is never
  removed from it, because the url is gone with the resource. Devices, too, miss deletions during downtime.
* A PUT resets every folder setting `FolderElement` has no field for (versioning, watcher); the README
  sends users to the WebUI for those. An edit made between GetConfig and the PUT is lost.
* `ReconcileDeletion` takes a device added in the WebUI under the resource's name for its own.
* The url of a config Secret replaces the one in the resource when the resource has no key, and is
  ignored when it has one (`client.go:57` tests the key where the url is meant).
* A renamed syncthing container loses its mounts; the missing TLS mount then leads to a second volume
  of the same name, which the API server refuses for ever (`instance_controller.go:208`).
* For want of that container `instance_controller.go:194` replaces the whole section: sidecars, variables and resources
  set by hand are lost, and so is the security context of the container, which is not set again, even after
  somebody has repaired the volumes, because line 265 looks at the pod's only.
* `enable_instance` is off unless it is given: the marker of its default is misspelt (`instance_types.go:28`,
  `kubebuikder`) and the CRD has none. The Instance of `README.md:25-65`, which does not give it, is
  therefore not deployed at all (`instance_controller.go:76`).
* The HTTP client has no timeout (`client.go:119`).
* No certificate is ever generated, though `instance_types.go:47` says so.
* `AllowUsageReport` is never read and the report always allowed (`instance_controller.go:319`); the
  admin password is empty when the key is in a Secret (`:342`); a single changed bandwidth limit is
  never sent (`:358`, `&&`); `insecure_web` does not remove an existing login (`:330`).
* A marker is never set back to the default; the default path uses the name, not the label
  (`folder_types.go:54`); `paused`, `untrusted` and `ignored_folders` of a Device are ignored;
  the key is trimmed after it is found not to be empty (`client.go`).

## 6. Not modelled

HTTP and TLS, wording and logging, status fields, metrics and leader election (a standby is a
restart), generated deep-copy code, CRDs and RBAC. Contents of generated objects that no check
compares. Two Instances in one namespace: each has objects of its own, and that their two labelled Secrets
make the search of `FromCr` fail is part of `ClientLookup`. The instance controller is not part of
`Operator`: it meets the others in the connection only, and what they find there is
`DependentsConnect` of `InstanceController`. `paused`, `untrusted` and `ignored_folders` of a Device
and `use_name_as_id` have no effect in the code.

## 7. Plan

Done: every component of section 1, the composition of folder and device controller, the abstract
specification with its refinement by both, and theorems for all safety properties the passing runs check.
Left, in this order:

1. `D!KeepsPromise` in `Operator`, and for folders a promise that lets shares go with a device: `LevelTriggered`
   knows only changes the controller or an edit makes, and in `Operator` the other controller makes some.
2. `DriftNoticed` without `OnlyWatchedEdits`, for specs without volumes and Secrets of users.
3. What a half-given connection with a Secret handed over should yield (`HalfGiven`, `client.go:57`).
