-------------------------- MODULE ControllerManager --------------------------
(***************************************************************************)
(* The lifecycle of instance controllers in Espejote.                      *)
(*                                                                         *)
(* ManagedResourceControllerManager owns the map `controllers': for every  *)
(* ManagedResource it starts one controller, restarts it when the part of  *)
(* the spec covered by the config hash changes, and stops it when the      *)
(* ManagedResource goes away.  Each such controller runs one               *)
(* ManagedResourceReconciler, which renders the ManagedResource, applies   *)
(* the result and writes the status.  Manager and reconcilers read the     *)
(* ManagedResource from one shared cache that lags the API server, and     *)
(* write its status with optimistic locking.                               *)
(*                                                                         *)
(* The API server, the shared cache, the work queues and the start and     *)
(* stop protocol of a controller are controller-runtime's and Kubernetes'; *)
(* they are modelled from how the code relies on them.                     *)
(***************************************************************************)
EXTENDS Naturals, FiniteSets

CONSTANTS
  Keys,         \* namespaced names of ManagedResources
  Configs,      \* what the config hash covers: triggers, context, service account
  BadConfigs,   \* the configs cacheFor rejects
  Triggering,   \* the configs with an interval or watch trigger
  Templates,    \* the rest of the spec: the template
  BadTemplates, \* the templates that fail to render
  InitStatuses, \* the statuses an earlier process may have left
  Insts,        \* identities of resourceController values
  NoInst,       \* no resourceController
  MaxChanges,   \* bound on the user's changes to ManagedResources
  MaxFaults     \* bound on transient failures

ErrorStatus == {"ServiceAccountError", "DependencyConfigurationError",
                "ControllerStartError", "TemplateError", "ApplyError"}
Statuses == ErrorStatus \cup {"", "WaitingForCacheSync", "Ready"}

ASSUME SetAssumption == /\ Keys # {} /\ Configs # {} /\ Templates # {}
                        /\ InitStatuses \subseteq Statuses
ASSUME InstAssumption == NoInst \notin Insts
ASSUME BoundAssumption == MaxChanges \in Nat /\ MaxFaults \in Nat

VARIABLES
  server,      \* [Keys -> MR], the objects in the API server
  cache,       \* [Keys -> MR], the manager's shared cache
  fresh,       \* keys whose cached copy has the current resourceVersion
  queue,       \* the manager's work queue
  mgr,         \* the manager's worker: where it is in Reconcile
  controllers, \* [Keys -> Insts \cup {NoInst}], the controllers map
  inst,        \* [Insts -> Instance], the resourceController values
  wrk,         \* [Insts -> Worker], each instance's reconcile worker
  target,      \* [Keys -> Applied], what was last applied for a key
  changes,     \* user changes left
  faults       \* transient failures left

apiVars == <<server, cache, fresh>>
mgrVars == <<queue, mgr, controllers>>
instVars == <<inst, wrk, target>>
vars == <<apiVars, mgrVars, instVars, changes, faults>>

------------------------------------------------------------------------------
(* Data *)

\* A ManagedResource.  One that is gone keeps the uid and generation it had.
MR == [exists : BOOLEAN, deleting : BOOLEAN, uid : Nat, gen : Nat,
       cfg : Configs, tmpl : Templates, status : Statuses]

Live(o) == o.exists /\ ~o.deleting

\* resourceController and its reconciler.  uid is the incarnation of the
\* object configGeneration was taken from.  `in' has room for one event, and
\* the instance's queue holds at most one request of each trigger: one flag.
Instance == [key : Keys, configHash : Configs, configGeneration : Nat,
             uid : Nat, phase : {"free", "starting", "running", "done"},
             cancelled : BOOLEAN, started : BOOLEAN, in : BOOLEAN,
             queue : BOOLEAN, notified : BOOLEAN]

Worker == [pc : {"idle", "render", "record"}, obj : MR,
           err : ErrorStatus \cup {""}, requeue : BOOLEAN]

Manager == [pc : {"idle", "remove", "ensure", "waitdone", "create", "check",
                  "waiting", "send", "fail"},
            key : Keys, obj : MR, fresh : BOOLEAN,
            inst : Insts \cup {NoInst}, err : ErrorStatus \cup {""}]

\* What an apply left in the cluster: by which instance, from which spec, and
\* whether every object was applied.
Applied == [by : Insts \cup {NoInst}, uid : Nat, gen : Nat, full : BOOLEAN]

TypeOK ==
  /\ server \in [Keys -> MR]
  /\ cache \in [Keys -> MR]
  /\ fresh \in SUBSET Keys
  /\ queue \in SUBSET Keys
  /\ mgr \in Manager
  /\ controllers \in [Keys -> Insts \cup {NoInst}]
  /\ inst \in [Insts -> Instance]
  /\ wrk \in [Insts -> Worker]
  /\ target \in [Keys -> Applied]
  /\ changes \in Nat
  /\ faults \in Nat

------------------------------------------------------------------------------
(* Init: the process has just started.  The ManagedResources it finds were *)
(* left by users and by an earlier process, with the status that one wrote *)
(* last; the initial list has put every existing one in the queue.         *)

SomeKey == CHOOSE k \in Keys : TRUE
SomeCfg == CHOOSE c \in Configs : TRUE
SomeTmpl == CHOOSE t \in Templates : TRUE

NoObject == [exists |-> FALSE, deleting |-> FALSE, uid |-> 0, gen |-> 0,
             cfg |-> SomeCfg, tmpl |-> SomeTmpl, status |-> ""]

InitObjects == {NoObject} \cup
  [exists : {TRUE}, deleting : {FALSE}, uid : {1}, gen : {1},
   cfg : Configs, tmpl : Templates, status : InitStatuses]

FreeInstance ==
  [key |-> SomeKey, configHash |-> SomeCfg, configGeneration |-> 0,
   uid |-> 0, phase |-> "free", cancelled |-> FALSE, started |-> FALSE,
   in |-> FALSE, queue |-> FALSE, notified |-> FALSE]

IdleWorker == [pc |-> "idle", obj |-> NoObject, err |-> "", requeue |-> FALSE]

IdleManager == [pc |-> "idle", key |-> SomeKey, obj |-> NoObject,
                fresh |-> FALSE, inst |-> NoInst, err |-> ""]

NothingApplied == [by |-> NoInst, uid |-> 0, gen |-> 0, full |-> FALSE]

Init ==
  /\ server \in [Keys -> InitObjects]
  /\ cache = server
  /\ fresh = Keys
  /\ queue = {k \in Keys : server[k].exists}
  /\ mgr = IdleManager
  /\ controllers = [k \in Keys |-> NoInst]
  /\ inst = [i \in Insts |-> FreeInstance]
  /\ wrk = [i \in Insts |-> IdleWorker]
  /\ target = [k \in Keys |-> NothingApplied]
  /\ changes = MaxChanges
  /\ faults = MaxFaults

------------------------------------------------------------------------------
(* The API server and its users *)

\* Every write of k's object gives it a new resourceVersion: the cached copy
\* and the copy the manager holds no longer carry the current one.
Outdate(m, k) == IF m.pc # "idle" /\ m.key = k
                 THEN [m EXCEPT !.fresh = FALSE] ELSE m

UserWrite(k, o) ==
  /\ changes > 0
  /\ changes' = changes - 1
  /\ server' = [server EXCEPT ![k] = o]
  /\ fresh' = fresh \ {k}
  /\ mgr' = Outdate(mgr, k)
  /\ UNCHANGED <<cache, queue, controllers, instVars, faults>>

UserCreate(k) ==
  /\ ~server[k].exists
  /\ \E c \in Configs, t \in Templates :
       UserWrite(k, [exists |-> TRUE, deleting |-> FALSE,
                     uid |-> server[k].uid + 1, gen |-> 1, cfg |-> c,
                     tmpl |-> t, status |-> ""])

\* A change of the spec increments metadata.generation.
UserUpdate(k) ==
  /\ server[k].exists
  /\ \E c \in Configs, t \in Templates :
       /\ <<c, t>> # <<server[k].cfg, server[k].tmpl>>
       /\ UserWrite(k, [server[k] EXCEPT !.cfg = c, !.tmpl = t,
                                         !.gen = @ + 1])

\* The object goes, or stays with a deletion timestamp until its finalizers
\* are removed.
UserDelete(k) ==
  /\ server[k].exists
  /\ \/ UserWrite(k, [NoObject EXCEPT !.uid = server[k].uid,
                                      !.gen = server[k].gen])
     \/ /\ ~server[k].deleting
        /\ UserWrite(k, [server[k] EXCEPT !.deleting = TRUE, !.gen = @ + 1])

\* The informer catches up with k and its handler enqueues the key.
CacheDeliver(k) ==
  /\ k \notin fresh
  /\ cache' = [cache EXCEPT ![k] = server[k]]
  /\ fresh' = fresh \cup {k}
  /\ queue' = queue \cup {k}
  /\ UNCHANGED <<server, mgr, controllers, instVars, changes, faults>>

------------------------------------------------------------------------------
(* ManagedResourceControllerManager.Reconcile, run by one worker *)

\* Get: the key leaves the queue before the cache is read.
MgrGet(k) ==
  /\ mgr.pc = "idle"
  /\ k \in queue
  /\ queue' = queue \ {k}
  /\ mgr' = [pc |-> IF Live(cache[k]) THEN "ensure" ELSE "remove", key |-> k,
             obj |-> cache[k], fresh |-> k \in fresh, inst |-> NoInst,
             err |-> ""]
  /\ UNCHANGED <<apiVars, controllers, instVars, changes, faults>>

\* Faulty: the controller is dropped and its context never cancelled.
StopForgotten(r) == r

\* instanceCtrlCancel: the instance's context is cancelled.
Stop(r) == [r EXCEPT !.cancelled = TRUE]

\* stopAndRemoveControllerFor: cancels the instance and forgets it without
\* waiting for it to end.
StopAndRemoveController ==
  /\ mgr.pc = "remove"
  /\ inst' = [i \in Insts |-> IF i = controllers[mgr.key]
                              THEN Stop(inst[i]) ELSE inst[i]]
  /\ controllers' = [controllers EXCEPT ![mgr.key] = NoInst]
  /\ mgr' = IdleManager
  /\ UNCHANGED <<apiVars, queue, wrk, target, changes, faults>>

\* ensureInstanceControllerFor, up to the wait for the old instance to end:
\* keep an instance with the same hash, cancel one with another hash.
EnsureInstanceController ==
  LET c == controllers[mgr.key] IN
  /\ mgr.pc = "ensure"
  /\ \/ /\ c = NoInst
        /\ mgr' = [mgr EXCEPT !.pc = "create"]
        /\ UNCHANGED inst
     \/ /\ c # NoInst /\ inst[c].configHash = mgr.obj.cfg
        /\ mgr' = [mgr EXCEPT !.pc = "check", !.inst = c]
        /\ UNCHANGED inst
     \/ /\ c # NoInst /\ inst[c].configHash # mgr.obj.cfg
        /\ inst' = [inst EXCEPT ![c] = Stop(@)]
        /\ mgr' = [mgr EXCEPT !.pc = "waitdone"]
  /\ UNCHANGED <<apiVars, queue, controllers, wrk, target, changes, faults>>

\* <-c.done, then delete(r.controllers, mrKey).  The write lock is held.
AwaitDone ==
  /\ mgr.pc = "waitdone"
  /\ inst[controllers[mgr.key]].phase = "done"
  /\ controllers' = [controllers EXCEPT ![mgr.key] = NoInst]
  /\ mgr' = [mgr EXCEPT !.pc = "create"]
  /\ UNCHANGED <<apiVars, queue, instVars, changes, faults>>

NewInstance(k, o) ==
  [FreeInstance EXCEPT !.key = k, !.configHash = o.cfg,
                       !.configGeneration = o.gen, !.uid = o.uid,
                       !.phase = "starting"]

\* A new resourceController; which identity it gets is of no consequence.
Unused == CHOOSE i \in Insts : inst[i].phase = "free"

\* The rest of ensureInstanceControllerFor: build, start and register.
CreateInstance ==
  /\ mgr.pc = "create"
  /\ mgr.obj.cfg \notin BadConfigs
  /\ \E i \in Insts :
       /\ i = Unused
       /\ inst[i].phase = "free"
       /\ inst' = [inst EXCEPT ![i] = NewInstance(mgr.key, mgr.obj)]
       /\ controllers' = [controllers EXCEPT ![mgr.key] = i]
       /\ mgr' = [mgr EXCEPT !.pc = "check", !.inst = i]
  /\ UNCHANGED <<apiVars, queue, wrk, target, changes, faults>>

\* The token request or cacheFor failed: nothing is registered, and what was
\* started for the instance is cancelled with its context.
CreateFails ==
  /\ mgr.pc = "create"
  /\ \/ /\ faults > 0
        /\ faults' = faults - 1
        /\ mgr' = [mgr EXCEPT !.pc = "fail", !.err = "ServiceAccountError"]
     \/ /\ mgr.obj.cfg \in BadConfigs
        /\ mgr' = [mgr EXCEPT !.pc = "fail",
                              !.err = "DependencyConfigurationError"]
        /\ UNCHANGED faults
  /\ UNCHANGED <<apiVars, queue, controllers, instVars, changes>>

\* Faulty: the text of the error becomes the status.
CheckStartedRawError ==
  /\ mgr.pc = "check"
  /\ mgr' = IF inst[mgr.inst].phase = "done"
            THEN [mgr EXCEPT !.pc = "fail", !.err = "controller stopped"]
            ELSE [mgr EXCEPT !.pc = "send"]
  /\ UNCHANGED <<apiVars, queue, controllers, instVars, changes, faults>>

\* StartErr() and the test of `started'.
CheckStarted ==
  LET r == inst[mgr.inst]
      next == CASE r.phase = "done" -> "fail"
                [] r.phase # "done" /\ ~r.started
                     /\ mgr.obj.status # "WaitingForCacheSync" -> "waiting"
                [] OTHER -> "send"
  IN
  /\ mgr.pc = "check"
  /\ mgr' = [mgr EXCEPT !.pc = next, !.err = IF next = "fail"
                                             THEN "ControllerStartError" ELSE @]
  /\ UNCHANGED <<apiVars, queue, controllers, instVars, changes, faults>>

\* Status().Update succeeds only with the current resourceVersion.
StatusUpdate(k, s, current) ==
  IF current THEN /\ server' = [server EXCEPT ![k].status = s]
                  /\ fresh' = fresh \ {k}
             ELSE UNCHANGED <<server, fresh>>

\* The status WaitingForCacheSync; a conflict is an error and a retry.
UpdateWaiting ==
  /\ mgr.pc = "waiting"
  /\ StatusUpdate(mgr.key, "WaitingForCacheSync", mgr.fresh)
  /\ mgr' = IF mgr.fresh THEN [mgr EXCEPT !.pc = "send"] ELSE IdleManager
  /\ queue' = IF mgr.fresh THEN queue ELSE queue \cup {mgr.key}
  /\ UNCHANGED <<cache, controllers, instVars, changes, faults>>

\* Faulty: without its buffer `in' takes an event only while it is received.
SendEventUnbuffered ==
  /\ mgr.pc = "send"
  /\ inst' = [inst EXCEPT ![mgr.inst].in = (@ \/ inst[mgr.inst].phase = "running")]
  /\ mgr' = IdleManager
  /\ UNCHANGED <<apiVars, queue, controllers, wrk, target, changes, faults>>

\* select { case ic.in <- event: default: }, `in' has room for one event.
SendEvent ==
  /\ mgr.pc = "send"
  /\ inst' = [inst EXCEPT ![mgr.inst].in = (@ \/ inst[mgr.inst].phase # "done")]
  /\ mgr' = IdleManager
  /\ UNCHANGED <<apiVars, queue, controllers, wrk, target, changes, faults>>

\* Faulty: Reconcile records the error and returns nil.
RecordErrSwallowed ==
  /\ mgr.pc = "fail"
  /\ StatusUpdate(mgr.key, mgr.err,
                  mgr.fresh /\ mgr.obj.status # mgr.err)
  /\ mgr' = IdleManager
  /\ UNCHANGED <<cache, queue, controllers, instVars, changes, faults>>

\* recordErr, and the error Reconcile returns puts the key back in the queue.
RecordErr ==
  /\ mgr.pc = "fail"
  /\ StatusUpdate(mgr.key, mgr.err,
                  mgr.fresh /\ mgr.obj.status # mgr.err)
  /\ mgr' = IdleManager
  /\ queue' = queue \cup {mgr.key}
  /\ UNCHANGED <<cache, controllers, instVars, changes, faults>>

------------------------------------------------------------------------------
(* The life of an instance controller *)

SetInst(i, r) ==
  /\ inst' = [inst EXCEPT ![i] = r]
  /\ UNCHANGED <<apiVars, mgrVars, wrk, target, changes>>

\* What the channel and the queue still hold is dropped.
Ended(r) == [r EXCEPT !.phase = "done", !.in = FALSE, !.queue = FALSE]

\* dynCtrl.Start: the caches are synced, the sources deliver events.
StartSynced(i) ==
  /\ inst[i].phase = "starting" /\ ~inst[i].cancelled
  /\ SetInst(i, [inst[i] EXCEPT !.phase = "running"])
  /\ UNCHANGED faults

\* Start fails: CacheSyncTimeout expired, or the context was cancelled.
StartFails(i) ==
  /\ inst[i].phase = "starting"
  /\ inst[i].cancelled \/ faults > 0
  /\ SetInst(i, Ended(inst[i]))
  /\ faults' = IF inst[i].cancelled THEN faults ELSE faults - 1

\* Start returns nil once the context is cancelled and the worker has ended;
\* startErr becomes ErrStopped.
StartReturns(i) ==
  /\ inst[i].phase = "running" /\ inst[i].cancelled
  /\ wrk[i].pc = "idle"
  /\ SetInst(i, Ended(inst[i]))
  /\ UNCHANGED faults

\* The goroutine that waits for done and tells the manager over notifyChan.
Notify(i) ==
  /\ inst[i].phase = "done" /\ ~inst[i].notified
  /\ inst' = [inst EXCEPT ![i].notified = TRUE]
  /\ queue' = queue \cup {inst[i].key}
  /\ UNCHANGED <<apiVars, mgr, controllers, wrk, target, changes, faults>>

\* The event in `in' enters the instance's queue.
ReceiveIn(i) ==
  /\ inst[i].phase = "running" /\ ~inst[i].cancelled /\ inst[i].in
  /\ SetInst(i, [inst[i] EXCEPT !.in = FALSE, !.queue = TRUE])
  /\ UNCHANGED faults

\* So does an interval tick or an event of a watched resource.
Trigger(i) ==
  /\ inst[i].phase = "running" /\ ~inst[i].cancelled /\ ~inst[i].queue
  /\ inst[i].configHash \in Triggering
  /\ SetInst(i, [inst[i] EXCEPT !.queue = TRUE])
  /\ UNCHANGED faults

------------------------------------------------------------------------------
(* ManagedResourceReconciler.Reconcile, run by one worker per instance *)

\* Faulty: the config is not compared again.
ConfigNeverChanged(r, o) == FALSE

\* The instance was built for another config: it must not reconcile o.
ConfigChanged(r, o) ==
  r.configGeneration # o.gen /\ r.configHash # o.cfg

\* Up to the config check, which notes the generation it has verified.  A
\* cancelled instance may still take a request from its queue.
RecGet(i) ==
  LET r == inst[i]
      o == cache[r.key]
      skip == ~Live(o) \/ ConfigChanged(r, o)
      checked == ~skip /\ r.configGeneration # o.gen
  IN
  /\ r.phase = "running" /\ r.queue
  /\ wrk[i].pc = "idle"
  /\ wrk' = [wrk EXCEPT ![i] =
               IF skip THEN [IdleWorker EXCEPT !.pc = "record"]
                       ELSE [IdleWorker EXCEPT !.pc = "render", !.obj = o]]
  /\ inst' = [inst EXCEPT ![i] =
                [r EXCEPT !.queue = FALSE, !.started = TRUE,
                          !.configGeneration = IF checked THEN o.gen ELSE @,
                          !.uid = IF checked THEN o.uid ELSE @]]
  /\ UNCHANGED <<apiVars, mgrVars, target, changes, faults>>

\* reconcile returns: recordReconcileErr is next.
Returns(i, e, again) ==
  /\ wrk' = [wrk EXCEPT ![i] = [IdleWorker EXCEPT !.pc = "record", !.err = e,
                                                  !.requeue = again]]
  /\ UNCHANGED <<apiVars, mgrVars, inst, changes>>

\* Applier.Apply in one step, with every object applied or only some.
ApplyOf(i, full) ==
  target' = [target EXCEPT ![inst[i].key] =
               [by |-> i, uid |-> wrk[i].obj.uid, gen |-> wrk[i].obj.gen,
                full |-> full]]

\* The template does not render or does not return applicable objects; a good
\* one may fail for once, with what it imports or reads.
RenderFails(i) ==
  /\ wrk[i].pc = "render"
  /\ IF wrk[i].obj.tmpl \in BadTemplates
     THEN UNCHANGED faults
     ELSE faults > 0 /\ faults' = faults - 1
  /\ Returns(i, "TemplateError", FALSE)
  /\ UNCHANGED target

\* Faulty: the objects are applied with a context nobody cancels.
RenderAndApplyDetached(i) ==
  /\ wrk[i].pc = "render"
  /\ wrk[i].obj.tmpl \notin BadTemplates
  /\ ApplyOf(i, TRUE)
  /\ Returns(i, "", FALSE)
  /\ UNCHANGED faults

RenderAndApply(i) ==
  /\ wrk[i].pc = "render"
  /\ wrk[i].obj.tmpl \notin BadTemplates
  /\ ~inst[i].cancelled
  /\ ApplyOf(i, TRUE)
  /\ Returns(i, "", FALSE)
  /\ UNCHANGED faults

\* The API server rejects an object, or the context is cancelled: then its
\* client refuses every request.
ApplyFails(i) ==
  /\ wrk[i].pc = "render"
  /\ wrk[i].obj.tmpl \notin BadTemplates
  /\ \/ /\ inst[i].cancelled
        /\ UNCHANGED <<target, faults>>
     \/ /\ ~inst[i].cancelled /\ faults > 0
        /\ faults' = faults - 1
        /\ ApplyOf(i, FALSE)
  /\ Returns(i, "ApplyError", FALSE)

\* A JsonnetLibrary trigger is ahead of the import cache: try again later.  Or
\* one of the two caches does not have it, which is an error.
WaitForLibrary(i) ==
  /\ wrk[i].pc = "render"
  /\ faults > 0
  /\ faults' = faults - 1
  /\ \/ Returns(i, "", TRUE)
     \/ Returns(i, "DependencyConfigurationError", FALSE)
  /\ UNCHANGED target

\* recordReconcileErr reads the object again and writes the status if it
\* changed; an error of either call requeues the request, unless the queue
\* is shut down.
RecRecord(i) ==
  LET k == inst[i].key
      o == cache[k]
      status == IF wrk[i].err = "" THEN "Ready" ELSE wrk[i].err
      write == o.exists /\ o.status # status
      wrote == write /\ k \in fresh /\ ~inst[i].cancelled
      again == wrk[i].requeue \/ wrk[i].err # "" \/ (write /\ ~wrote)
  IN
  /\ wrk[i].pc = "record"
  /\ StatusUpdate(k, status, wrote)
  /\ mgr' = IF wrote THEN Outdate(mgr, k) ELSE mgr
  /\ wrk' = [wrk EXCEPT ![i] = IdleWorker]
  /\ inst' = [inst EXCEPT ![i].queue = (@ \/ again) /\ ~inst[i].cancelled]
  /\ UNCHANGED <<cache, queue, controllers, target, changes, faults>>

------------------------------------------------------------------------------
ManagerStep ==
  \/ \E k \in Keys : MgrGet(k)
  \/ StopAndRemoveController \/ EnsureInstanceController \/ AwaitDone
  \/ CreateInstance \/ CreateFails \/ CheckStarted \/ UpdateWaiting
  \/ SendEvent \/ RecordErr

ReconcilerStep(i) ==
  \/ RecGet(i) \/ RenderFails(i) \/ RenderAndApply(i) \/ ApplyFails(i)
  \/ WaitForLibrary(i) \/ RecRecord(i)

LifecycleStep(i) ==
  \/ StartSynced(i) \/ StartFails(i) \/ StartReturns(i) \/ Notify(i)
  \/ ReceiveIn(i)

UserStep == \E k \in Keys : UserCreate(k) \/ UserUpdate(k) \/ UserDelete(k)

Next ==
  \/ UserStep
  \/ \E k \in Keys : CacheDeliver(k)
  \/ ManagerStep
  \/ \E i \in Insts : LifecycleStep(i) \/ Trigger(i) \/ ReconcilerStep(i)

Spec == Init /\ [][Next]_vars

\* What the runtime guarantees: informers catch up, the single workers keep
\* taking requests (the queue is served in turn, so no key starves), a
\* starting controller syncs or times out, goroutines that can run do run.
Fairness ==
  /\ \A k \in Keys : WF_vars(CacheDeliver(k)) /\ SF_vars(MgrGet(k))
  /\ WF_vars(ManagerStep)
  /\ \A i \in Insts : /\ WF_vars(StartSynced(i) \/ StartFails(i))
                      /\ WF_vars(StartReturns(i))
                      /\ WF_vars(Notify(i))
                      /\ WF_vars(ReceiveIn(i))
                      /\ WF_vars(ReconcilerStep(i))

FairSpec == Spec /\ Fairness

------------------------------------------------------------------------------
(* Properties *)

Alive(i) == inst[i].phase \in {"starting", "running"} /\ ~inst[i].cancelled

\* However config changes, failed starts, deletions and recreations follow
\* each other, an instance controller that has not been told to stop is the
\* one in the controllers map: none is leaked, no key ever has two.
SingleLiveController ==
  \A i \in Insts : Alive(i) => controllers[inst[i].key] = i

\* An instance renders a spec whose triggers, context or service account are
\* not the ones it was built for only when that spec belongs to a recreated
\* ManagedResource: the generation test of reconcile is exact for one object.
RendersOwnConfig ==
  \A i \in Insts : wrk[i].pc = "render" /\ wrk[i].obj.uid = inst[i].uid
                     => wrk[i].obj.cfg = inst[i].configHash

\* The same without the exception: what is rendered runs as the service
\* account of its own spec.
RunsAsItsServiceAccount ==
  \A i \in Insts : wrk[i].pc = "render" /\ ~inst[i].cancelled
                     => wrk[i].obj.cfg = inst[i].configHash

\* When the manager has nothing to do for a key, the map agrees with the
\* cache: a live ManagedResource has a controller with its config hash and
\* any other has none.  No event, error or notification gets lost.
Pending(k) == k \in queue \/ (mgr.pc # "idle" /\ mgr.key = k)
MapMatchesCache(k) ==
  IF Live(cache[k])
  THEN /\ controllers[k] # NoInst
       /\ inst[controllers[k]].configHash = cache[k].cfg
  ELSE controllers[k] = NoInst
SettledMapMatchesCache == \A k \in Keys : ~Pending(k) => MapMatchesCache(k)

\* Only the instance in the map changes the cluster, what it applies was in
\* the API server, and it never goes back to an older spec than the one last
\* applied, although stopAndRemoveControllerFor waits for no instance to end
\* and every instance reads a cache that lags.
Version(o) == [uid |-> o.uid, gen |-> o.gen]
Delivery == INSTANCE OrderedDelivery WITH
  latest <- [k \in Keys |-> Version(server[k])],
  owner <- controllers,
  delivered <- [k \in Keys |-> [by |-> target[k].by, uid |-> target[k].uid,
                                gen |-> target[k].gen]]
DeliversInOrder == Delivery!Spec

\* Once the users and the failures stop, map, cluster and status settle at
\* what the spec asks for.  A controller that failed to start stays in the map
\* with its error: it is not restarted before the config changes.
Settled(k) ==
  LET o == server[k]
      c == controllers[k] IN
  CASE ~Live(o) -> c = NoInst
    [] Live(o) /\ o.cfg \in BadConfigs ->
         c = NoInst /\ o.status = "DependencyConfigurationError"
    [] OTHER ->
         /\ c # NoInst
         /\ inst[c].configHash = o.cfg
         /\ CASE inst[c].phase = "done" -> o.status = "ControllerStartError"
              [] inst[c].phase # "done" /\ o.tmpl \in BadTemplates ->
                   o.status = "TemplateError"
              [] OTHER ->
                   /\ o.status = "Ready"
                   /\ target[k] = [by |-> c, uid |-> o.uid, gen |-> o.gen,
                                   full |-> TRUE]
Converges == \A k \in Keys : <>[]Settled(k)

\* The same without fairness: nothing is forgotten on the way.  At any time,
\* also while users, triggers and failures go on elsewhere, a ManagedResource
\* is settled if there is nothing left to do for it: no event in a cache, a
\* channel or a queue, no reconciliation and no end of an instance that the
\* manager has not been told of.
Busy(c) ==
  \/ inst[c].phase = "starting" \/ inst[c].in \/ inst[c].queue
  \/ wrk[c].pc # "idle"
  \/ inst[c].phase = "done" /\ ~inst[c].notified
AtRest(k) == /\ k \in fresh /\ ~Pending(k)
             /\ controllers[k] # NoInst => ~Busy(controllers[k])
SettledAtRest == \A k \in Keys : AtRest(k) => Settled(k)

\* The manager's worker always comes back: waiting for a cancelled instance
\* with the write lock held never blocks it (or the metrics) for good.
ManagerReturns == []<>(mgr.pc = "idle")

=============================================================================
