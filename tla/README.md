# A verification of Espejote

Espejote keeps Kubernetes objects in sync with what `ManagedResource` objects
ask for: each has a Jsonnet template, triggers that say when to render it,
context objects the template reads, and a service account it runs as. The
controller starts one small controller per ManagedResource, renders its
template on every trigger and applies the result. `Admission` objects do the
same for admission requests.

This directory holds TLA+ models of that code, TLC configurations that check
them on small instances, and TLAPS proofs for every size. Source references
are to the repository; `PROJECT.json` maps each definition to its lines.

## 1. Inventory

| Part | State | Operations | Talks to |
| --- | --- | --- | --- |
| `ManagedResourceControllerManager` (`controllers/managedresource_controller_manager.go`) | `controllers` map under `controllersMux`, `notifyChan` | `Reconcile`, `ensureInstanceControllerFor`, `stopAndRemoveControllerFor`, `recordErr` | the shared cache, the API server, every instance |
| instance controller (`resourceController` and `ManagedResourceReconciler`) | `in`, `done`, `startErr`, its queue, `configHash`, `configGeneration`, `started` | start, stop, `Reconcile`, `recordReconcileErr` | the shared cache, its own caches, the API server |
| trigger and context caches (`cacheFor`, `newCacheForResourceAndRESTClient`) | one informer per context and watch trigger | build, filter, deliver events | the API server as the service account |
| service account token (`tokenRefreshRoundTripper`) | `token`, `tokenExpiration` under `tokenMux` | `RoundTrip`, `TriggerRefresh` | the API server as the controller |
| `applygroup` | the tree of `Applier`s | `UnmarshalJSONFrom`, `Walk`, `Apply` | the API server, object by object |
| JsonnetLibrary imports (`jsonnet.go`, `jsonnetLibraryCacheNeedsSync`) | an import cache per render | `Import`, the comparison of two caches | the trigger's cache and the controller's cache |
| `AdmissionReconciler` | none | two lists, two server-side applies | four watches, the API server |
| admission handler | none | look up an Admission, evaluate, answer | the shared cache, the API server |
| metrics collectors | none | copy the `controllers` map under the read lock, sizes, statuses | the manager, the shared cache |
| `espejote render`, `espejote collect-input` (`cmd/`) | none | list what the triggers and contexts of a ManagedResource select, render it once for each trigger | the API server, or files only |

What is hard about it, and what makes it correct:

- **Controller manager.** Two levels of controllers read one lagging cache and
  write one status. The config of a ManagedResource can change, fail, be
  deleted and come back while instances start, fail and end on their own
  time. Correct means: one live instance per ManagedResource and none
  forgotten; an instance acts only on specs with the config it was built for;
  the cluster never goes back to an older spec; when the users stop,
  everything settles; the manager never blocks for good.
- **Token.** Many requests, one token, and a read lock that is traded for a
  write lock and back. Correct means: no unprotected access, no request with
  an expiring token, one refresh per expiry, no deadlock.
- **applygroup.** Any object of a nested document may fail. Correct means: the
  error policies decide what is still sent, and every failure is reported.
- **Trigger and context caches.** A request names an object and says nothing of
  its state; the object and the context are read when the request is taken,
  after others were merged with it or retried. Correct means: what
  `watchContextResource` guarantees, nothing that was applied is replaced by
  something older, and every change reaches the cluster.
- **Library imports.** Two caches of the same object, read four times. Correct
  means: what the documentation calls a guarantee, that an import is in sync
  with its trigger.
- **Import paths.** Files import each other by relative and absolute paths from
  two namespaces, while libraries change. Correct means: the file the
  documentation names, nothing local from a shared library, the same contents
  for a path in one render.
- **Command line.** A second implementation of selection, import and triggers.
  Correct means: it shows what the controller would apply.
- **Admissions.** Two webhook configurations written one after the other, and
  handlers that read a cache. Correct means: the configurations settle at what
  the Admissions ask for, the replica that wrote the rules of a request answers
  it with an Admission that is not older, and every replica ends up answering
  with the Admission as it is.

## 2. Plan

| | Module | Models | State |
| --- | --- | --- | --- |
| 1 | `ControllerManager` | manager, instances, status, apply | done |
| 2 | `OrderedDelivery` | what 1 promises about the cluster | done, refinement checked and proved |
| 3 | `ControllerManagerProofs`, `ControllerManagerDelivery` | proofs of 1 and 2 | done |
| 4 | `TokenRefresh`, `TokenRefreshProofs` | the token round tripper | done |
| 5 | `ApplyGroup`, `ApplyGroupProofs` | decoding and applying nested groups | done |
| 6 | `LibrarySync`, `LibrarySyncProofs` | triggers and imports of a library | done |
| 7 | `AdmissionWebhooks`, `AdmissionWebhooksProofs` | reconciler, configurations, their owners, handlers of several replicas | done |
| 8 | `ImportPaths`, `ImportPathsProofs` | `MakeAbsoluteImportPath`, the importer's cache, the memory importer of the command line | done |
| 9 | `TriggerCaches`, `TriggerCachesProofs` | `cacheFor`, informers and filters, events, renders, compared with `cmd/collect_input.go` | done |

`ApplyGroup` and `ControllerManager` meet in one fact: `Applied.full` and the
error of an apply stand for what `NoErrorMeansApplied` proves of `Apply`.

Open: webhook configurations as an abstract register per Admission that 7
implements.

## 3. Modules and code

### ControllerManager

One action per step between two points where others can interfere.

| Code | Model |
| --- | --- |
| ManagedResource in the API server, in the shared cache | `server`, `cache`, `fresh` |
| the manager's queue, its worker, the map | `queue`, `mgr`, `controllers` |
| `resourceController` values and their reconcilers | `inst[i]`, its worker `wrk[i]` |
| what the last apply left in the cluster | `target` |
| `Reconcile`: Get, NotFound or deleting | `MgrGet`, `StopAndRemoveController` |
| `ensureInstanceControllerFor` | `EnsureInstanceController`, `AwaitDone`, `CreateInstance`, `CreateFails` |
| `StartErr`, `started`, status, send | `CheckStarted`, `UpdateWaiting`, `SendEvent` |
| `recordErr` and the returned error | `RecordErr` |
| the two goroutines of an instance | `StartSynced`, `StartFails`, `StartReturns`, `Notify` |
| `in`, `setupIntervalTrigger`, `staticMapFunc` | `ReceiveIn`, `Trigger` |
| `reconcile` up to the config check | `RecGet` |
| the rest of `reconcile` | `RenderFails`, `RenderAndApply`, `ApplyFails`, `WaitForLibrary` |
| `recordReconcileErr` and the requeue | `RecRecord` |

Abstractions, and why they are sound:

- *A spec* is a `cfg` (what the config hash covers: triggers, context, service
  account) and a `tmpl` (the rest). `BadConfigs` are what `cacheFor` rejects,
  `Triggering` those with an interval or a watch trigger, `BadTemplates` what
  does not render or does not return applicable objects: the code's
  `TemplateReturnError` is a `TemplateError` here, which comes from the next
  statement and is treated alike. A good template may fail for once, as when
  one of its imports is not there.
- *The library check* before a render puts the request off or fails with
  `DependencyConfigurationError`, either as often as there are failures left;
  when it does is the subject of `LibrarySync`.
- *resourceVersion*. The code writes the status of the copy it read, so all
  that matters of the version is whether a copy is current. `fresh` and
  `mgr.fresh` say exactly that; every write of the object clears them.
- *The shared cache* jumps to the current object. A cache that lags several
  versions is reached by delivering before the later writes.
- *recordReconcileErr*'s Get and Update are one step: nobody but another write
  of the object can come between them, and then the Update conflicts as it
  does when the cached copy was already old.
- *The end of an instance.* When its context is cancelled, controller-runtime
  may still hand a queued request to the worker or may not; `RecGet` allows
  both. Nothing is left in `in` or in the queue of an instance that is done.
- *A cancelled context.* A request to the API server is processed before the
  cancellation or not at all. A request that is processed later is not in the
  model (a hazard of its own in `PROJECT.json`).
- *Identities.* `Unused` picks one of the free instances; they are
  interchangeable. `Insts` has one more than `MaxChanges`, since each instance
  answers a different state of the object, failed starts included: a failed
  instance stays in the map.
- *Init* is a process that has just started: any status an earlier process
  wrote, no instances, all objects queued. A crash is a restart into `Init`.
- A Get from the cache fails only with NotFound; `Watch` before `Start` does
  not fail. The error paths for these are not in the model.

`SettledAtRest` says of the whole of `ControllerManager` what `Converges` says
with fairness: a ManagedResource is settled whenever there is nothing left to
do for it (`AtRest`: no event in the informer, in the manager's queue, in the
channel or in an instance's queue, no worker busy with it, no end of an
instance that was not told). It is the part of convergence that the code is
responsible for; that what is under way gets done is the scheduler's.

### OrderedDelivery

What the rest of the system may rely on, in three variables: `latest`, the
newest version of each spec; `owner`, who may act for it; `delivered`, what
was last applied and by whom. `Delivery` in `ControllerManager` instantiates
it: `latest` is `server`'s uid and generation, `owner` is `controllers`.

### TokenRefresh

`pc` follows `RoundTrip`, `TriggerRefresh` and `refreshTokenReadLocked`; a
caller is between two operations on the lock or the token. `sync.RWMutex` is
modelled by its documentation: a blocked `Lock` keeps later readers out
(`writer` is set before the readers have left), and `Unlock` admits waiting
readers before the next writer. Time is a counter. `seen`, which the code does
not have, is when a caller last found or made the token good. The lifetime of
a token is at least the margin, since the API server does not issue tokens
with a maximum below one hour.

### ApplyGroup

The decoder chooses the document while it reads: the next element is null, an
object, an `ApplyGroupConfig`, a group or the end of one. The `Applier`s are
numbered in document order. `CloseGroup` inherits from the parent as it is at
that time. `Apply`'s recursion is the stack `frames`; `Collect` is the switch
on the error policy. `stated` remembers what the config of a group asks for.
`StopsWhereItShould` is about the document alone: which object is left out is
said by the failed objects before it and the innermost group around both.
`InheritsOneLevel` is the exact counterpart of finding 2.

### LibrarySync

`log` is everything the API server held for the library, and each cache is a
place in it. Unlike the shared cache of `ControllerManager`, two caches are
compared here, so intermediate versions matter. The reconciler reads four
times: trigger cache, controller cache, trigger cache again for the data,
controller cache again for the import. `NoUpdateMissed` says when the trigger
may come to rest: not before a last version with a generation of its own has
been imported.

### ImportPaths

| Code | Model |
| --- | --- |
| JsonnetLibraries of the two namespaces | `libraries`, a version and the keys that are there |
| a `ManifestImporter` or `libImporter` and its `Cache`, one per render | `cache`, `made` |
| `MakeAbsoluteImportPath`, `path.Dir` | `MakeAbsoluteImportPath`, `Directory`, `WithoutDot` |
| `loadFromCluster` | `LoadFromCluster`, `LoadKey` |
| `Import`, with the built-in `espejote.libsonnet` before it | `Import` |
| the files `collect-input` keeps, the memory importer of `render` | `Collected`, `MemoryImport` |

A path is the sequence of what stands between its slashes, since only their
number and the first segments matter. What a file contains is open: any file
that was reached may contain any of the statements. `namespace` is the one
local imports come from; a ClusterAdmission has none, and it may be that of the
shared libraries. In that one a file has two paths, `NAME/KEY` and
`lib/NAME/KEY`, and so two entries in the cache, which are read one after the
other: a render may see it in two versions when it changes in between.
`OneVersionPerFile` excepts this and says of any namespace that a path keeps
its contents. A `Result` names the file that was read (`file`) besides its path
(`foundAt`). `Documented` is the table of the API documentation, written
without looking at the code, `DocumentedFile` the key of a library that a path
stands for, and `ResolvesAsDocumented` compares them with what the importer
does. One case is excepted: a library of the local namespace that is called
`lib` is taken for a shared one when it imports `NAME/KEY`, because the code
tells them apart by that segment.

### TriggerCaches

One running instance with one context and one trigger.

| Code | Model |
| --- | --- |
| the objects of the watched kind | `log`, the states of the cluster, oldest first |
| an informer of `newCacheForResourceAndRESTClient` | a place in the log, and `Selects` |
| `cacheFor`: an interval, `watchContextResource`, a cache of its own | `TriggerCache`, `TriggerDefinition`, `Watched` |
| list and watch, list again after an error, resync | `Advance`, `Resync` |
| event handlers and `staticMapFunc` | `events`, `Enqueue` |
| `setupIntervalTrigger`, the manager's empty request | `IntervalTrigger`, `Send` |
| `renderTriggers`, `renderContexts`, template and apply | `RenderTriggers`, `RenderContexts`, `Apply`, `ApplyFails` |
| a new instance | `Restart` |
| `collectInput`, its selectors and readers, `renderFromInput` | `List`, `CollectInput`, `RenderFromInput` |

- *The template* is the example of the API documentation: for a trigger with
  an object it renders that object, otherwise everything in the context, and
  what is derived from an object that is gone is deleted. `applied` has the
  state of the cluster each derived object was made from.
- *Informers* may skip states, as a list after a broken watch does; they do not
  go back. A second API server that is behind is outside the model.
- *Requests.* The queue is a set: equal requests are merged. Which one is taken
  next is open, since a retry with its delay overtakes nothing for certain.
- *Selections* are names, namespaces, one label, `matchNames` and
  `ignoreNames`. The selector of the watch and the filter behind it are one
  operator; the command line has its own, and `OfflineAgrees` compares them.
- *Excepted.* A trigger with both an interval and `watchContextResource` is an
  interval for `cacheFor` and a watch for `collectInput`
  (`cmd/collect_input.go:137`): no text says which one is right, and
  `OfflineAgrees` leaves it out. A trigger that watches a cache of its own may
  apply an older context last, and a deletion while no instance runs causes no
  event: the documentation promises neither, so `NoEventLost`,
  `DerivedFollow` and `DeletionsFollow` leave them out.
- *No event is lost.* `NoEventLost` says of each object, at any time: a request
  for it is under way (an event, a queued request, the one the worker has), or
  what is derived from it is derived from what the cache holds.

### AdmissionWebhooks

| Code | Model |
| --- | --- |
| Admissions and ClusterAdmissions in the API server and in a process's cache | `server`, `cache[r]` |
| the two webhook configurations | `configs`, as the lists they were made from |
| the four watches, all of which enqueue the one `admissionRequest` | `Deliver`, `DeliverConfig`, `queued` |
| `Reconcile`: two lists, two patches, an early return at each error | `ListAdmissions`, `ListClusterAdmissions`, `PatchMutating`, `PatchValidating`, `PatchFails`, `PatchConflicts` |
| fields of a webhook that belong to another field manager | `contested`, `Edit`, `GiveBack` |
| leader election and restarts | `TakeOver`, `Restart` |
| `handle`: Get from the cache, not found, evaluation, errors | `Admit`, `Handle`, `Respond` |

Each change of an Admission, its deletion included, is a version; a webhook has
the version of the Admission its rules come from, and an answer that of the
template it was evaluated with. `wrote` says which configurations are as the
current leader left them. The two names of `AdmissionReconciler` are one, as
`cmd/controller.go:233` sets them: `Reconcile` writes the validating
configuration under `MutatingWebhookName` (line 144) and watches it under
`ValidatingWebhookName`, so the watch would miss it if they ever differed. The
patches do not force ownership: somebody who writes a field of a webhook owns
it, and each later apply of that configuration fails with a conflict until they
give the field back (`contested`). The early return then keeps the validating
configuration from being written as well. The rules by which a request is sent
may be older than the configuration (the API server has a cache, too): `Admit`
and `Handle` are separate steps, and anything may happen between them. A
process that restarts has synced with the current state before it serves; until
then it answers with an error. A list from the cache does not fail.
`NothingIsLost` is about the one request that all four watches share: when the
leader has nothing to do, every configuration is what its cache asks for, or
somebody changed it and its own watch has not told yet (`unseen`). A replica
whose cache lags lets a request pass for an Admission that it has not heard of,
as the code does. `AnswersSettle` says that this ends: once Admissions are not
changed any more, every replica answers with the Admission as it is.
`AnswersWithItsRules` says that the replica which wrote the rules never does
it.

## 4. Runs

| Run | Instance | Shows |
| --- | --- | --- |
| `manager_safety` | 1 key, 2 configs, one with triggers, 3 instances, 2 changes, 1 failure; 2.5 million states | types, one live instance, own config, nothing forgotten, delivery in order |
| `manager_converges` | 1 key, a good and a rejected config, a good and a failing template, status `WaitingForCacheSync` at the start, 2 changes, 1 failure; 732 000 states | map, cluster and status settle at what the spec asks for, the right error included, and are settled whenever nothing is under way; the manager always returns |
| `manager_identity` | 2 configs, delete and recreate | **violated**: finding 1 |
| `token_refresh` | 3 callers, clock to 2, lifetime 2; 91 000 states | races, expiring tokens, double refreshes; no deadlock among the callers; every call returns |
| `apply_errors` | every document of up to 7 elements; 3.3 million states | what is sent, what is reported and what a group inherits |
| `apply_inherit` | the same | **violated**: finding 2 |
| `library_safety` | 5 versions, 2 deletions; 98 000 states | the import is not behind the check while there are only updates; a last version with a new generation is imported before the trigger rests |
| `library_deleted` | 2 versions, the second a deletion | **violated**: finding 3 |
| `library_recreate` | 1 deletion, 1 recreation | **violated**: finding 4 |
| `admission_webhooks` | 1 Admission, 1 ClusterAdmission, 2 replicas, 1 change, 1 fault; 972 000 states | configurations never go back and settle; none differs unnoticed from what an idle leader knows; who wrote a rule knows its Admission, and every replica answers with the last one in the end |
| `import_paths` | 2 library names in 2 namespaces, one of them `lib`, 2 keys, one of them `espejote.libsonnet`, 9 statements, 3 imports, 2 changes; the template in its own namespace, in that of the shared libraries or in none; 456 000 states | the documented file, shared libraries stay shared, the same contents for a path and one version of a file that has one path, the same files without a cluster |
| `trigger_caches` | 2 objects in 2 namespaces, 3 selections, 3 kinds of trigger, 2 changes, 1 extra; 242 000 states | order and consistency of what triggers see and what is applied; changes and deletions arrive, and no event is lost on the way; the command line renders the same |

Why the bounds are enough. Two changes are what it takes to delete and
recreate, to change a config while an instance of the previous one still runs,
or to go forth and back; three instances serve them. One failure at any step
shows every error path, and every retry is again a state without one. One key:
the manager has one worker and no state that two keys share except the map,
whose entries the proofs treat one by one for any set of keys. Three
callers are a writer, a waiting writer and a reader. Seven elements hold three
nested groups with a config and three objects, or one group with five. For the
webhooks one change and one fault (a failed patch, a deleted or edited
configuration, a restart, a new leader) already combine with every distance of
the caches and every place in `Reconcile`; a second change adds versions and no
new relation between two of them. Three imports are a template, a library it
imports and what that one imports, or one file imported twice with a change in
between; longer chains only repeat one of the three kinds of file. Three states
of a cluster are one the trigger has seen, one the context has seen and the
current one. One extra is a failed apply, a resync, a restart or a request of
the manager next to these.

Deadlock is checked for the token. The other models stop when nobody changes
anything any more or a bound is reached, so their configurations switch the
check off.

### Fairness

`ControllerManager`: informers deliver; the work queue serves its keys in
turn, so a key that is queued again and again is taken (strong fairness of
`MgrGet` per key); the manager's worker, each instance's worker and the
goroutines run; a starting instance syncs or times out (`CacheSyncTimeout`).
Nothing is assumed about users, triggers and failures; the bounds of changes
and failures end those. `TokenRefresh`: goroutines run, the API server answers
a token request one way or the other, and a mutex does not starve a writer
(Go's mutex hands itself over to one that waits for a millisecond).
`LibrarySync` and `AdmissionWebhooks`: the watches deliver and the worker runs.
Replicas that do not lead have watches too: the handler's client is the
manager's, whose caches do not wait for the election. An answer that was made is
sent; nothing makes an owner give a field back, and nothing that a request is
answered at all. `TriggerCaches`: the watches deliver,
event handlers are called, the ticker ticks, the worker runs, and a request that
is queued is taken in the end although others come in again and again (strong
fairness of `Take` per request: the work queue is first in, first out).

### Findings

1. `reconcile` compares the config hash only if the generation differs from
   the one it has verified (`managedresource_controller.go:208`). A recreated
   ManagedResource starts at generation 1 again: the old instance renders and
   applies the new spec as the old service account until it is stopped.
   `RendersOwnConfig` says that this is the only way: within one incarnation
   the test is exact.
2. A group inherits its `errorPolicy` when its own elements have been read
   (`applygroup.go:179`). Its child groups asked it before: a policy reaches
   one level down, not two.
3. `jsonnetLibraryCacheNeedsSync` fails when the trigger's cache does not have
   the library (`managedresource_controller.go:346`), before `renderTriggers`,
   which would render a deleted object as null. The request is retried until
   the library is back, and no template learns of the deletion.
4. The comparison is by generation, and a recreated library starts at 1 again:
   the old library is imported and nothing renders again when the controller's
   cache has caught up. `CatchesUpByGeneration` says that this needs a
   generation the library already had.

The two caches are also read again after they were compared, so one render may
combine the data of a newer trigger with the import that was checked. The event
of the newer version corrects that, and `ImportsWhatWasChecked` and
`CatchesUpByGeneration` say what remains true.

## 5. Proofs

All theorems hold for any sets and any bounds that satisfy the modules' named
assumptions: keys, configs and templates are not empty; `NoInst`, `NoCaller`,
`NoReplica` and `NoObject` are none of those they stand next to; the bounds are
naturals; margin and lifetime are naturals and a token lives at least for the
margin; the first leaders are replicas; the namespace of the shared libraries
is a namespace and `NoNamespace` is none; statements are sequences of segments
and not empty; libraries and the namespace of the ManagedResource have a name;
a trigger without a cache of its own watches what the context selects.

`ControllerManagerProofs` and `ControllerManagerDelivery` build an inductive
invariant in layers, each inductive given those before it. All were checked
with TLC as invariants first.

| Layer | Says | Gives |
| --- | --- | --- |
| `TypeOK` | types | `TypeCorrect` |
| `Registry` | what the manager's place says about the map and its instance; a live instance is in the map; a free one is nowhere | `OneLiveController` |
| `Settling` | an idle key's map entry has the cached config; while the manager works on a key, what the map will be | `NothingForgotten` |
| `Finishing` | the instance of an idle key has an event waiting or a request queued, or its worker is at work on what the cache holds or done with it; an instance that ends puts its key back before the manager turns away | `RestIsSettled` |
| `Versions` | every copy of an object (cache, manager, worker) is an older or the same version of the server's; equal versions have equal specs; a verified generation has the verified config | `RendersItsConfig` |
| `Progress` | what was delivered is not newer than what any instance still holds | `ImplementsDelivery` |

`SingleLiveController` is not inductive: whether a new instance is the only one
depends on the manager having cancelled the old one, which `Registry` ties to
the manager's place. Nor is `SettledAtRest`: that an apply is complete depends
on the worker having taken the object after its last delivery, and `Finishing`
follows it there, from the event that waits in the channel of an instance which
has not started to the status update that conflicts. `DeliversInOrder` needs
`Progress`: an instance that is cancelled may hold an older spec, and only
`~cancelled`, the map and the monotone cache together exclude that it applies
it after its successor.

`TokenRefreshProofs`: `LockInv` says for every place which lock is held,
`TokenInv` that a good token stays good for those who saw it. `RaceFree`,
`TokenIsGood` and `RefreshedOnce` follow. `WaitInv` adds that a reader waits for
a writer that is there: the writer in turn waits for readers that hold the lock
and wait for nothing, so somebody can always step (`NoDeadlock`).

`LibrarySyncProofs`: without deletions generations count versions
(`Counting`), so equal generations are equal versions, and the caches only
move on (`InStep`). Across deletions `Answered` takes their place: some version
that passed the comparison is in the controller's cache, what is imported is
not older than it, and a trigger that moved on has a request in the queue. A
last version whose generation no earlier one had passes only for itself
(`EveryUpdateImported`).

`AdmissionWebhooksProofs`: caches never go back and never pass the API server
(`Behind`); what the leader wrote it still knows, and what it has listed is not
older than what it wrote (`Written`); the writer of a request's rules knows
them (`Asked`). `TakesNothingBack` and `AnsweredByTheWriter` follow. `Current`
says at each place of `Reconcile` that what was listed is what the cache holds
and what was patched is done, unless the request is queued again: every
delivery, conflict, edit and change of leader between the steps queues it
(`NothingLost`).

`ApplyGroupProofs`: the nodes are a tree that grows at its end, whose children
are no configs (`Decoded`, so `Apply` never meets one); and the errors of the
activations together are the objects that were refused (`Reported`). The second
needs that every activation but the one that is about to return has a child to
go on with, and that a group that aborts has no error as long as it goes on:
otherwise the return from an aborted group would drop what it had collected.
`ReportsAll` follows, for documents of any size and depth.

`StopsThere` relates the recursion to the document. `Ordered` says that nodes
are numbered in document order: the nodes in a group follow it without a gap,
its children are in order, and none is lost (`Within` tells the groups around a
node by its place, without recursion). `Decided` says of every object that was
not sent that it is left out or in a child some activation has not begun, and
that those come later than all that was sent. `Inheriting` says of policies
while the document is read: a group that is still open has what it states, one
that has ended what it states or what its parent does (`InheritsFromAround`).
`NoErrorMeansApplied` joins `StopsThere` and `ReportsAll`: it is what
`ControllerManager` uses of `Apply`. Where a proof needs the first element or the
innermost group with some property, it takes the least one of a set of naturals,
which replaces induction over the document.

`ImportPathsProofs`: the cache has under each path what was found under it
(`CacheHolds`), and what an import was answered is still there (`Answers`). Two
imports of one path are two looks at one entry, and two imports of one file are
imports of one path unless the two namespaces are the same (`OnePath`):
`OneVersion` follows. `SharedImports` is a
case distinction on what `MakeAbsoluteImportPath` makes of a statement in a
shared library. `Remembers` adds that every import has what the cache holds
under the path the statement became, and that an error ends the render:
`OfflineImports` follows, since the collected files are the cache.
`Documentation` compares `MakeAbsoluteImportPath` with the documentation for any
statement in a file of each kind; a failed import means that the file was not
there when it was loaded, because no error was in the cache before.

`TriggerCachesProofs`: `Read` says that the worker has read no state which the
cache has not reached yet, the trigger's before the context's, and applied none
newer than that; `Newest` that what it is about to apply is not older than
anything it has applied. With one cache for both (`Consistent`) these give
`ReadConsistency` and `NothingGoesBack`. `Following` adds that what the worker
has read is what the cache holds, or that the object changed since and its event
or request is still to be taken; a failed apply keeps its request, so
`EventsReachTheTemplate` follows. `OfflineRendersTheSame`
needs that versions are positive in every state (`Versions`), so that an object
in a cache is told from one that is not there.

The invariants a proof uses were checked by TLC on a small instance of their
module before they were proved.

Only model-checked: what needs fairness (`Converges`, `ManagerReturns`,
`CallsReturn`, `CatchesUpByGeneration`, `Settles`, `AnswersSettle`,
`DerivedFollow`, `DeletionsFollow`), which is out of the prover's reach. Every
other property of the passing runs is proved. The part of these that needs no
fairness is proved as well: that nothing is left undone once nothing is under
way (`RestIsSettled`, `EveryUpdateImported`, `NothingLost`,
`EventsReachTheTemplate`), and that not everybody waits (`NoDeadlock`).

## 6. Not modelled

- What is inside a template: Jsonnet evaluation, native functions, bcrypt.
- Deletion preconditions, apply options and field managers of applied objects:
  data that no property here tells apart.
- More than one context or trigger in one ManagedResource: they share nothing
  but the queue and the render. Cluster-scoped kinds: they are the case of a
  namespace that is selected by no name.
- Names that are used twice or not defined in `context` and `triggers`: these
  are the rejected configs of `ControllerManager`.
- The files and flags of the command line, and the default it takes for a
  namespace.
- The namespace object the admission handler reads for its template: a cache
  that does not have it is one of the errors of `Handle`.
- The documentation's "full resource at the time of the trigger event": the
  request carries a name only, and the template gets the object as it is when it
  renders. The model says what the code does, and the properties are about
  what the later reading guarantees.
- Metrics: read-only. Their one effect on the rest is a read lock on the map,
  which `ManagerReturns` is about.
- A request to the API server that is processed after its context was
  cancelled.
