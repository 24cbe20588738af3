----------------------- MODULE ControllerManagerProofs -----------------------
(***************************************************************************)
(* Proofs about ControllerManager, for any sets of keys, configs,          *)
(* templates and instances and any number of changes and failures.         *)
(*                                                                         *)
(* The invariants come in layers, each inductive relative to the ones      *)
(* before it: TypeOK; Registry, which ties the controllers map to the      *)
(* instances and to the place the manager is at; Settling, which ties the  *)
(* map to the cache; Finishing, which ties what was applied and the status *)
(* to the cache.  ControllerManagerDelivery adds two more layers.          *)
(***************************************************************************)
EXTENDS ControllerManager, TLAPS

------------------------------------------------------------------------------
(* The inductive invariants *)

\* Where the manager holds an instance, it is the one in the map and has the
\* config of the object being reconciled.
HoldsInstance ==
  mgr.pc \in {"check", "waiting", "send"} =>
    /\ mgr.inst \in Insts
    /\ controllers[mgr.key] = mgr.inst
    /\ inst[mgr.inst].configHash = mgr.obj.cfg

\* An instance in the map is of that key.  Only the manager's wait for it to
\* end finds a cancelled one there.
MapWellFormed ==
  \A k \in Keys : controllers[k] # NoInst =>
    /\ inst[controllers[k]].key = k
    /\ inst[controllers[k]].phase # "free"
    /\ inst[controllers[k]].cancelled => mgr.pc = "waitdone" /\ mgr.key = k

\* A worker is busy only while its controller runs.
WorkersRun == \A i \in Insts : wrk[i].pc # "idle" => inst[i].phase = "running"

Registry ==
  /\ SingleLiveController
  /\ MapWellFormed
  /\ HoldsInstance
  /\ mgr.pc = "waitdone" => controllers[mgr.key] # NoInst
  /\ mgr.pc = "create" => controllers[mgr.key] = NoInst
  /\ WorkersRun

\* As long as no event for its key has arrived, the manager works on what the
\* cache holds.
ManagerIsCurrent ==
  mgr.pc # "idle" /\ mgr.key \notin queue => mgr.obj = cache[mgr.key]

Settling ==
  /\ SettledMapMatchesCache
  /\ ManagerIsCurrent
  /\ mgr.pc = "remove" => ~Live(mgr.obj)
  /\ mgr.pc \notin {"idle", "remove"} => Live(mgr.obj)

\* The cache holds what it calls current.
Caught == \A k \in fresh : cache[k] = server[k]

\* No instance was built from a config that cacheFor rejects, and the end of
\* one is told after it.
Instances ==
  /\ \A i \in Insts : inst[i].phase # "free" => inst[i].configHash \notin BadConfigs
  /\ \A i \in Insts : inst[i].notified => inst[i].phase = "done"

\* Once the manager has found its instance running, an end of it that it is
\* told of puts the key back into the queue.
EndIsQueued ==
  mgr.pc \in {"waiting", "send"} /\ inst[mgr.inst].notified => mgr.key \in queue

\* What the cache holds of k is what instance c applied last, all of it.
IsApplied(k, c) ==
  /\ cache[k].tmpl \notin BadTemplates
  /\ target[k] = [by |-> c, uid |-> cache[k].uid, gen |-> cache[k].gen,
                  full |-> TRUE]

\* A running instance that was sent nothing since is at work on what the cache
\* holds, or done with it.
Serves(k, c) ==
  /\ wrk[c].pc = "render" => wrk[c].obj = cache[k]
  /\ wrk[c].pc = "record" /\ wrk[c].err = "" /\ ~wrk[c].requeue => IsApplied(k, c)
  /\ wrk[c].pc = "idle" => /\ IsApplied(k, c)
                           /\ k \in fresh => cache[k].status = "Ready"

\* Whose key the manager has nothing to do for: an instance that is starting
\* has an event waiting for it, the manager has not been told of the end of
\* one that ended, and one that runs serves what the cache holds.
Attended(k, c) ==
  /\ inst[c].phase = "starting" => inst[c].in
  /\ inst[c].phase = "done" => ~inst[c].notified
  /\ inst[c].phase = "running" /\ ~inst[c].in /\ ~inst[c].queue => Serves(k, c)

Finishing ==
  /\ Caught
  /\ Instances
  /\ EndIsQueued
  /\ \A k \in Keys : ~Pending(k) /\ controllers[k] # NoInst =>
                       Attended(k, controllers[k])

------------------------------------------------------------------------------
(* Type correctness *)

\* The values the model uses where the code has zero values are of their type.
LEMMA Zeros ==
  /\ SomeKey \in Keys /\ SomeCfg \in Configs /\ SomeTmpl \in Templates
  /\ NoObject \in MR
  /\ IdleManager \in Manager
  /\ IdleWorker \in Worker
  /\ FreeInstance \in Instance
  /\ NothingApplied \in Applied
<1>1. SomeKey \in Keys /\ SomeCfg \in Configs /\ SomeTmpl \in Templates
  BY SetAssumption DEF SomeKey, SomeCfg, SomeTmpl
<1>2. NoObject \in MR
  BY <1>1 DEF NoObject, MR, Statuses
<1> QED
  BY <1>1, <1>2 DEF IdleManager, Manager, IdleWorker, Worker, FreeInstance,
     Instance, NothingApplied, Applied

LEMMA InitType == Init => TypeOK
<1> SUFFICES ASSUME Init PROVE TypeOK
  OBVIOUS
<1>1. InitObjects \subseteq MR
  <2>1. {TRUE} \subseteq BOOLEAN /\ {FALSE} \subseteq BOOLEAN /\ {1} \subseteq Nat
    OBVIOUS
  <2>2. [exists : {TRUE}, deleting : {FALSE}, uid : {1}, gen : {1},
         cfg : Configs, tmpl : Templates, status : InitStatuses] \subseteq MR
    BY <2>1, SetAssumption DEF MR
  <2> QED
    BY <2>2, Zeros DEF InitObjects
<1> QED
  BY <1>1, Zeros, BoundAssumption DEF Init, TypeOK

LEMMA UserWriteType ==
  ASSUME TypeOK, NEW k \in Keys, NEW o \in MR, UserWrite(k, o)
  PROVE  TypeOK'
<1> USE DEF TypeOK, UserWrite, Outdate, instVars
<1>1. server' \in [Keys -> MR]
  OBVIOUS
<1>2. mgr' \in Manager
  BY DEF Manager
<1>3. changes' \in Nat
  OBVIOUS
<1> QED
  BY <1>1, <1>2, <1>3

LEMMA UserType ==
  ASSUME TypeOK, UserStep
  PROVE  TypeOK'
<1> PICK k \in Keys : UserCreate(k) \/ UserUpdate(k) \/ UserDelete(k)
  BY DEF UserStep
<1>1. /\ server[k] \in MR
      /\ server[k].uid + 1 \in Nat /\ server[k].gen + 1 \in Nat
  BY DEF TypeOK, MR
<1>2. CASE UserCreate(k)
  <2> PICK c \in Configs, t \in Templates :
        UserWrite(k, [exists |-> TRUE, deleting |-> FALSE,
                      uid |-> server[k].uid + 1, gen |-> 1, cfg |-> c,
                      tmpl |-> t, status |-> ""])
    BY <1>2 DEF UserCreate
  <2>1. [exists |-> TRUE, deleting |-> FALSE, uid |-> server[k].uid + 1,
         gen |-> 1, cfg |-> c, tmpl |-> t, status |-> ""] \in MR
    BY <1>1 DEF MR, Statuses
  <2> QED
    BY <2>1, UserWriteType
<1>3. CASE UserUpdate(k)
  <2> PICK c \in Configs, t \in Templates :
        UserWrite(k, [server[k] EXCEPT !.cfg = c, !.tmpl = t, !.gen = @ + 1])
    BY <1>3 DEF UserUpdate
  <2>1. [server[k] EXCEPT !.cfg = c, !.tmpl = t, !.gen = @ + 1] \in MR
    BY <1>1 DEF MR
  <2> QED
    BY <2>1, UserWriteType
<1>4. CASE UserDelete(k)
  <2>1. [NoObject EXCEPT !.uid = server[k].uid, !.gen = server[k].gen] \in MR
    BY <1>1, Zeros DEF MR
  <2>2. [server[k] EXCEPT !.deleting = TRUE, !.gen = @ + 1] \in MR
    BY <1>1 DEF MR
  <2> QED
    BY <1>4, <2>1, <2>2, UserWriteType DEF UserDelete
<1> QED
  BY <1>2, <1>3, <1>4

LEMMA StatusUpdateType ==
  ASSUME TypeOK, NEW k \in Keys, NEW s \in Statuses, NEW c,
         StatusUpdate(k, s, c)
  PROVE  server' \in [Keys -> MR] /\ fresh' \in SUBSET Keys
<1>1. [server[k] EXCEPT !.status = s] \in MR
  BY DEF TypeOK, MR
<1> QED
  BY <1>1 DEF TypeOK, StatusUpdate

LEMMA StopType == ASSUME NEW r \in Instance PROVE Stop(r) \in Instance
BY DEF Stop, Instance

LEMMA ManagerType ==
  ASSUME TypeOK, ManagerStep
  PROVE  TypeOK'
<1> USE DEF apiVars, instVars
<1>1. ASSUME NEW k \in Keys, MgrGet(k) PROVE TypeOK'
  <2> DEFINE pc == IF Live(cache[k]) THEN "ensure" ELSE "remove"
             current == k \in fresh
  <2>1. current \in BOOLEAN /\ pc \in {"ensure", "remove"} /\ cache[k] \in MR
    BY DEF TypeOK
  <2>2. mgr' = [pc |-> pc, key |-> k, obj |-> cache[k], fresh |-> current,
                inst |-> NoInst, err |-> ""]
    BY <1>1 DEF MgrGet
  <2>3. mgr' \in Manager
    <3> HIDE DEF pc, current
    <3> QED
      BY <2>1, <2>2 DEF Manager
  <2> QED
    BY <1>1, <2>3 DEF MgrGet, TypeOK
<1>2. CASE StopAndRemoveController
  <2>1. \A i \in Insts : Stop(inst[i]) \in Instance /\ inst[i] \in Instance
    BY StopType DEF TypeOK
  <2>2. inst' \in [Insts -> Instance]
    BY <1>2, <2>1 DEF StopAndRemoveController
  <2> QED
    BY <1>2, <2>2, Zeros DEF StopAndRemoveController, TypeOK
<1>3. CASE EnsureInstanceController
  <2>1. inst' \in [Insts -> Instance]
    <3>1. CASE inst' = inst
      BY <3>1 DEF TypeOK
    <3>2. ASSUME NEW c \in Insts, inst' = [inst EXCEPT ![c] = Stop(@)]
          PROVE  inst' \in [Insts -> Instance]
      <4>1. Stop(inst[c]) \in Instance
        BY StopType DEF TypeOK
      <4> QED
        BY <3>2, <4>1 DEF TypeOK
    <3>3. mgr.key \in Keys /\ controllers[mgr.key] \in Insts \cup {NoInst}
      BY DEF TypeOK, Manager
    <3> QED
      BY <1>3, <3>1, <3>2, <3>3 DEF EnsureInstanceController
  <2>2. mgr' \in Manager
    BY <1>3 DEF EnsureInstanceController, TypeOK, Manager
  <2> QED
    BY <1>3, <2>1, <2>2 DEF EnsureInstanceController, TypeOK
<1>4. CASE AwaitDone
  BY <1>4 DEF AwaitDone, TypeOK, Manager
<1>5. CASE CreateInstance
  <2>1. NewInstance(mgr.key, mgr.obj) \in Instance
    BY Zeros DEF NewInstance, TypeOK, Manager, MR, Instance
  <2> PICK i \in Insts :
        /\ inst' = [inst EXCEPT ![i] = NewInstance(mgr.key, mgr.obj)]
        /\ controllers' = [controllers EXCEPT ![mgr.key] = i]
        /\ mgr' = [mgr EXCEPT !.pc = "check", !.inst = i]
    BY <1>5 DEF CreateInstance
  <2>2. inst' \in [Insts -> Instance]
    BY <2>1 DEF TypeOK
  <2>3. controllers' \in [Keys -> Insts \cup {NoInst}]
    BY DEF TypeOK
  <2>4. mgr' \in Manager
    BY DEF TypeOK, Manager
  <2> QED
    BY <1>5, <2>2, <2>3, <2>4 DEF CreateInstance, TypeOK
<1>6. CASE CreateFails
  <2>1. mgr' \in Manager
    <3>1. PICK e \in {"ServiceAccountError", "DependencyConfigurationError"} :
            mgr' = [mgr EXCEPT !.pc = "fail", !.err = e]
      BY <1>6 DEF CreateFails
    <3>2. e \in ErrorStatus
      BY DEF ErrorStatus
    <3> QED
      BY <3>1, <3>2 DEF TypeOK, Manager
  <2>2. faults' \in Nat
    BY <1>6 DEF CreateFails, TypeOK
  <2> QED
    BY <1>6, <2>1, <2>2 DEF CreateFails, TypeOK
<1>7. CASE CheckStarted
  BY <1>7 DEF CheckStarted, TypeOK, Manager, ErrorStatus
<1>8. CASE UpdateWaiting
  <2>1. mgr.key \in Keys /\ "WaitingForCacheSync" \in Statuses
    BY DEF TypeOK, Manager, Statuses
  <2>2. server' \in [Keys -> MR] /\ fresh' \in SUBSET Keys
    BY <1>8, <2>1, StatusUpdateType DEF UpdateWaiting
  <2> QED
    BY <1>8, <2>1, <2>2, Zeros DEF UpdateWaiting, TypeOK, Manager
<1>9. CASE SendEvent
  <2>1. \A b \in BOOLEAN : [inst EXCEPT ![mgr.inst].in = b] \in [Insts -> Instance]
    <3>1. \A i \in Insts, b \in BOOLEAN : [inst[i] EXCEPT !.in = b] \in Instance
      BY DEF TypeOK, Instance
    <3> QED
      BY <3>1 DEF TypeOK
  <2>2. (inst[mgr.inst].in \/ inst[mgr.inst].phase # "done") \in BOOLEAN
    OBVIOUS
  <2> QED
    BY <1>9, <2>1, <2>2, Zeros DEF SendEvent, TypeOK
<1>10. CASE RecordErr
  <2>1. mgr.key \in Keys /\ mgr.err \in ErrorStatus \cup {""}
    BY DEF TypeOK, Manager
  <2>2. server' \in [Keys -> MR] /\ fresh' \in SUBSET Keys
    BY <1>10, <2>1, StatusUpdateType DEF RecordErr, Statuses
  <2> QED
    BY <1>10, <2>1, <2>2, Zeros DEF RecordErr, TypeOK
<1> QED
  BY <1>1, <1>2, <1>3, <1>4, <1>5, <1>6, <1>7, <1>8, <1>9, <1>10
  DEF ManagerStep

LEMMA LifecycleType ==
  ASSUME TypeOK, NEW i \in Insts, LifecycleStep(i) \/ Trigger(i)
  PROVE  TypeOK'
<1> USE DEF apiVars, mgrVars, SetInst, Ended
<1>1. inst[i] \in Instance
  BY DEF TypeOK
<1>2. CASE StartSynced(i) \/ ReceiveIn(i) \/ Trigger(i) \/ StartReturns(i)
  <2>1. PICK r \in Instance : SetInst(i, r) /\ UNCHANGED faults
    BY <1>1, <1>2 DEF StartSynced, ReceiveIn, Trigger, StartReturns, Instance
  <2> QED
    BY <2>1 DEF TypeOK
<1>3. CASE StartFails(i)
  <2>1. Ended(inst[i]) \in Instance
    BY <1>1 DEF Instance
  <2>2. faults' \in Nat
    BY <1>3 DEF StartFails, TypeOK
  <2> QED
    BY <1>3, <2>1, <2>2 DEF StartFails, TypeOK
<1>4. CASE Notify(i)
  BY <1>1, <1>4 DEF Notify, TypeOK, Instance
<1> QED
  BY <1>2, <1>3, <1>4 DEF LifecycleStep

LEMMA ReturnsType ==
  ASSUME TypeOK, NEW i \in Insts, NEW e \in ErrorStatus \cup {""},
         NEW again \in BOOLEAN, Returns(i, e, again)
  PROVE  wrk' \in [Insts -> Worker]
BY Zeros DEF TypeOK, Returns, Worker

LEMMA ApplyOfType ==
  ASSUME TypeOK, NEW i \in Insts, NEW full \in BOOLEAN, ApplyOf(i, full)
  PROVE  target' \in [Keys -> Applied]
BY DEF TypeOK, ApplyOf, Applied, Instance, Worker, MR

LEMMA ReconcilerType ==
  ASSUME TypeOK, NEW i \in Insts, ReconcilerStep(i)
  PROVE  TypeOK'
<1> USE DEF apiVars, mgrVars
<1>1. inst[i] \in Instance /\ wrk[i] \in Worker /\ cache[inst[i].key] \in MR
  BY DEF TypeOK, Instance
<1>2. CASE RecGet(i)
  <2>1. inst' \in [Insts -> Instance]
    BY <1>1, <1>2 DEF RecGet, TypeOK, Instance, MR
  <2>2. wrk' \in [Insts -> Worker]
    BY <1>1, <1>2, Zeros DEF RecGet, TypeOK, Worker
  <2> QED
    BY <1>2, <2>1, <2>2 DEF RecGet, TypeOK
<1>3. CASE RenderFails(i)
  <2>1. "TemplateError" \in ErrorStatus
    BY DEF ErrorStatus
  <2>2. faults' \in Nat
    BY <1>3 DEF RenderFails, TypeOK
  <2> QED
    BY <1>3, <2>1, <2>2, ReturnsType DEF RenderFails, Returns, TypeOK
<1>4. CASE RenderAndApply(i)
  BY <1>4, ReturnsType, ApplyOfType DEF RenderAndApply, Returns, TypeOK
<1>5. CASE ApplyFails(i)
  <2>1. "ApplyError" \in ErrorStatus
    BY DEF ErrorStatus
  <2>2. target' \in [Keys -> Applied] /\ faults' \in Nat
    <3>1. faults' \in Nat
      BY <1>5 DEF ApplyFails, TypeOK, Returns, ApplyOf
    <3> QED
      BY <1>5, <3>1, ApplyOfType DEF ApplyFails, TypeOK
  <2> QED
    BY <1>5, <2>1, <2>2, ReturnsType DEF ApplyFails, Returns, TypeOK
<1>6. CASE WaitForLibrary(i)
  <2>1. faults' \in Nat
    <3>1. faults > 0 /\ faults' = faults - 1
      BY <1>6, Zenon DEF WaitForLibrary
    <3> QED
      BY <3>1 DEF TypeOK
  <2>2. "DependencyConfigurationError" \in ErrorStatus
    BY DEF ErrorStatus
  <2>3. wrk' \in [Insts -> Worker]
    BY <1>6, <2>2, ReturnsType DEF WaitForLibrary
  <2> QED
    BY <1>6, <2>1, <2>3 DEF WaitForLibrary, Returns, TypeOK
<1>7. CASE RecRecord(i)
  <2>1. inst[i].key \in Keys
    BY <1>1 DEF Instance
  <2>2. (IF wrk[i].err = "" THEN "Ready" ELSE wrk[i].err) \in Statuses
    BY <1>1 DEF Worker, Statuses
  <2>3. server' \in [Keys -> MR] /\ fresh' \in SUBSET Keys
    BY <1>7, <2>1, <2>2, StatusUpdateType DEF RecRecord
  <2>4. inst' \in [Insts -> Instance]
    BY <1>1, <1>7 DEF RecRecord, TypeOK, Instance, Worker
  <2>5. mgr' \in Manager
    BY <1>7 DEF RecRecord, Outdate, TypeOK, Manager
  <2> QED
    BY <1>7, <2>3, <2>4, <2>5, Zeros DEF RecRecord, TypeOK
<1> QED
  BY <1>2, <1>3, <1>4, <1>5, <1>6, <1>7 DEF ReconcilerStep

LEMMA NextType == TypeOK /\ [Next]_vars => TypeOK'
<1> SUFFICES ASSUME TypeOK, [Next]_vars PROVE TypeOK'
  OBVIOUS
<1>1. ASSUME NEW k \in Keys, CacheDeliver(k) PROVE TypeOK'
  BY <1>1 DEF CacheDeliver, TypeOK, instVars
<1>2. CASE UNCHANGED vars
  BY <1>2 DEF vars, apiVars, mgrVars, instVars, TypeOK
<1> QED
  BY <1>1, <1>2, UserType, ManagerType, LifecycleType, ReconcilerType DEF Next

\* In every reachable state every variable has its type; in particular a
\* status the code writes is one the API defines.
THEOREM TypeCorrect == Spec => []TypeOK
BY InitType, NextType, PTL DEF Spec

------------------------------------------------------------------------------
(* The controllers map and the instances *)

LEMMA RegistryInit == Init => Registry
<1> SUFFICES ASSUME Init PROVE Registry
  OBVIOUS
<1>1. /\ \A i \in Insts : inst[i].phase = "free" /\ wrk[i].pc = "idle"
      /\ \A k \in Keys : controllers[k] = NoInst
      /\ mgr.pc = "idle"
  BY DEF Init, FreeInstance, IdleManager, IdleWorker
<1> QED
  BY <1>1 DEF Registry, SingleLiveController, Alive, MapWellFormed,
     HoldsInstance, WorkersRun

\* The fields of an instance that tell who is in charge.
SameStanding(r, s) == /\ s.key = r.key /\ s.phase = r.phase
                      /\ s.cancelled = r.cancelled
                      /\ s.configHash = r.configHash

\* A step that changes neither the map nor who is in charge, and that leaves
\* the manager where it is.
LEMMA RegistryKept ==
  ASSUME TypeOK, Registry, UNCHANGED controllers,
         mgr'.pc = mgr.pc, mgr'.key = mgr.key, mgr'.inst = mgr.inst,
         mgr'.obj = mgr.obj,
         \A i \in Insts : SameStanding(inst[i], inst'[i]),
         \A i \in Insts : wrk'[i].pc # "idle" =>
                            wrk[i].pc # "idle" \/ inst[i].phase = "running"
  PROVE  Registry'
<1> USE DEF Registry, SameStanding
<1>1. SingleLiveController'
  BY DEF SingleLiveController, Alive
<1>2. MapWellFormed'
  BY DEF MapWellFormed, TypeOK
<1>3. HoldsInstance'
  BY DEF HoldsInstance
<1>4. WorkersRun'
  BY DEF WorkersRun
<1> QED
  BY <1>1, <1>2, <1>3, <1>4

\* A step of the manager that changes neither the map nor the instances.
LEMMA RegistryManagerMoves ==
  ASSUME TypeOK, Registry, UNCHANGED <<controllers, inst, wrk>>,
         mgr.pc # "waitdone", mgr'.pc # "waitdone", HoldsInstance',
         mgr'.pc = "create" => controllers[mgr'.key] = NoInst
  PROVE  Registry'
BY DEF Registry, SingleLiveController, Alive, MapWellFormed, WorkersRun

LEMMA RegistryEnvironment ==
  ASSUME TypeOK, Registry, UserStep \/ (\E k \in Keys : CacheDeliver(k))
  PROVE  Registry'
<1>1. ASSUME NEW k, NEW o, UserWrite(k, o) PROVE Registry'
  <2>1. /\ mgr'.pc = mgr.pc /\ mgr'.key = mgr.key /\ mgr'.inst = mgr.inst
        /\ mgr'.obj = mgr.obj
    BY <1>1 DEF UserWrite, Outdate, TypeOK, Manager
  <2> QED
    BY <1>1, <2>1, RegistryKept DEF UserWrite, SameStanding, instVars
<1>2. ASSUME NEW k \in Keys, CacheDeliver(k) PROVE Registry'
  BY <1>2, RegistryKept DEF CacheDeliver, SameStanding, instVars
<1> QED
  BY <1>1, <1>2 DEF UserStep, UserCreate, UserUpdate, UserDelete

LEMMA RegistryManager ==
  ASSUME TypeOK, Registry, ManagerStep
  PROVE  Registry'
<1> USE DEF apiVars, instVars
<1>1. ASSUME NEW k \in Keys, MgrGet(k) PROVE Registry'
  BY <1>1, RegistryManagerMoves DEF MgrGet, HoldsInstance
<1>2. CASE StopAndRemoveController
  <2>1. /\ \A i \in Insts : /\ inst'[i].key = inst[i].key
                            /\ inst'[i].phase = inst[i].phase
        /\ \A i \in Insts : inst'[i].cancelled =
             IF i = controllers[mgr.key] THEN TRUE ELSE inst[i].cancelled
    BY <1>2 DEF StopAndRemoveController, Stop, TypeOK, Instance
  <2>2. /\ mgr.key \in Keys /\ mgr.pc = "remove"
        /\ controllers' = [controllers EXCEPT ![mgr.key] = NoInst]
        /\ mgr' = IdleManager /\ UNCHANGED wrk
    BY <1>2 DEF StopAndRemoveController, TypeOK, Manager
  <2>3. SingleLiveController'
    <3> SUFFICES ASSUME NEW j \in Insts, Alive(j)'
                 PROVE  controllers'[inst'[j].key] = j
      BY DEF SingleLiveController
    <3>1. j # controllers[mgr.key] /\ Alive(j) /\ inst'[j].key = inst[j].key
      BY <2>1 DEF Alive
    <3>2. controllers[inst[j].key] = j
      BY <3>1 DEF Registry, SingleLiveController
    <3> QED
      BY <2>2, <3>1, <3>2 DEF TypeOK, Instance
  <2>4. MapWellFormed'
    <3> SUFFICES ASSUME NEW k \in Keys, controllers'[k] # NoInst
                 PROVE  /\ inst'[controllers'[k]].key = k
                        /\ inst'[controllers'[k]].phase # "free"
                        /\ ~inst'[controllers'[k]].cancelled
      BY DEF MapWellFormed
    <3>1. controllers'[k] = controllers[k] /\ k # mgr.key
      BY <2>2 DEF TypeOK
    <3>2. /\ controllers[k] \in Insts /\ inst[controllers[k]].key = k
          /\ inst[controllers[k]].phase # "free"
          /\ ~inst[controllers[k]].cancelled
      BY <2>2, <3>1 DEF Registry, MapWellFormed, TypeOK
    <3>3. controllers[k] # controllers[mgr.key]
      BY <2>2, <3>1, <3>2 DEF Registry, MapWellFormed, TypeOK
    <3> QED
      BY <2>1, <3>1, <3>2, <3>3
  <2>5. WorkersRun'
    BY <2>1, <2>2 DEF Registry, WorkersRun
  <2> QED
    BY <2>2, <2>3, <2>4, <2>5 DEF Registry, HoldsInstance, IdleManager
<1>3. CASE EnsureInstanceController
  <2> DEFINE c == controllers[mgr.key]
  <2>1. mgr.key \in Keys /\ c \in Insts \cup {NoInst}
    BY DEF TypeOK, Manager
  <2>2. CASE c = NoInst \/ inst[c].configHash = mgr.obj.cfg
    <3>1. UNCHANGED <<controllers, inst, wrk>> /\ mgr'.key = mgr.key
          /\ mgr'.obj = mgr.obj
      BY <1>3, <2>2 DEF EnsureInstanceController, TypeOK, Manager
    <3>2. \/ mgr'.pc = "create" /\ c = NoInst
          \/ mgr'.pc = "check" /\ c # NoInst /\ mgr'.inst = c
      BY <1>3, <2>2 DEF EnsureInstanceController, TypeOK, Manager
    <3>3. HoldsInstance'
      BY <2>1, <2>2, <3>1, <3>2 DEF HoldsInstance
    <3> QED
      BY <1>3, <3>1, <3>2, <3>3, RegistryManagerMoves
      DEF EnsureInstanceController
  <2>3. CASE c # NoInst /\ inst[c].configHash # mgr.obj.cfg
    <3>1. /\ inst' = [inst EXCEPT ![c] = Stop(@)]
          /\ mgr' = [mgr EXCEPT !.pc = "waitdone"]
          /\ UNCHANGED <<controllers, wrk>>
          /\ mgr.pc = "ensure" /\ c \in Insts
      BY <1>3, <2>1, <2>3 DEF EnsureInstanceController
    <3>2. mgr'.pc = "waitdone" /\ mgr'.key = mgr.key
      BY <3>1 DEF TypeOK, Manager
    <3>3. \A i \in Insts : /\ inst'[i].key = inst[i].key
                           /\ inst'[i].phase = inst[i].phase
                           /\ inst'[i].cancelled = (inst[i].cancelled \/ i = c)
      BY <3>1 DEF Stop, TypeOK, Instance
    <3>4. SingleLiveController'
      BY <3>1, <3>3 DEF Registry, SingleLiveController, Alive
    <3>5. MapWellFormed'
      BY <2>1, <3>1, <3>2, <3>3 DEF Registry, MapWellFormed, TypeOK
    <3>6. WorkersRun'
      BY <3>1, <3>3 DEF Registry, WorkersRun
    <3> QED
      BY <2>3, <3>1, <3>2, <3>4, <3>5, <3>6 DEF Registry, HoldsInstance
  <2> QED
    BY <2>1, <2>2, <2>3
<1>4. CASE AwaitDone
  <2>1. mgr'.pc = "create" /\ mgr'.key = mgr.key /\ mgr.key \in Keys
    BY <1>4 DEF AwaitDone, TypeOK, Manager
  <2>2. SingleLiveController'
    BY <1>4, <2>1 DEF AwaitDone, Registry, SingleLiveController, Alive, TypeOK
  <2>3. MapWellFormed'
    BY <1>4, <2>1 DEF AwaitDone, Registry, MapWellFormed, TypeOK
  <2> QED
    BY <1>4, <2>1, <2>2, <2>3 DEF AwaitDone, Registry, HoldsInstance,
       WorkersRun, TypeOK
<1>5. CASE CreateInstance
  <2> PICK i \in Insts :
        /\ inst[i].phase = "free"
        /\ inst' = [inst EXCEPT ![i] = NewInstance(mgr.key, mgr.obj)]
        /\ controllers' = [controllers EXCEPT ![mgr.key] = i]
        /\ mgr' = [mgr EXCEPT !.pc = "check", !.inst = i]
    BY <1>5 DEF CreateInstance
  <2>1. /\ mgr'.pc = "check" /\ mgr'.key = mgr.key /\ mgr'.inst = i
        /\ mgr'.obj = mgr.obj /\ mgr.key \in Keys
        /\ mgr.pc = "create" /\ controllers[mgr.key] = NoInst
    BY <1>5 DEF CreateInstance, TypeOK, Manager, Registry
  <2>2. /\ inst'[i].key = mgr.key /\ inst'[i].phase = "starting"
        /\ inst'[i].cancelled = FALSE /\ inst'[i].configHash = mgr.obj.cfg
        /\ \A j \in Insts \ {i} : inst'[j] = inst[j]
    BY DEF NewInstance, FreeInstance, TypeOK
  <2>3. SingleLiveController'
    <3> SUFFICES ASSUME NEW j \in Insts, Alive(j)'
                 PROVE  controllers'[inst'[j].key] = j
      BY DEF SingleLiveController
    <3>1. CASE j = i
      BY <2>1, <2>2, <3>1 DEF TypeOK
    <3>2. CASE j # i
      <4>1. controllers[inst[j].key] = j /\ inst'[j].key = inst[j].key
        BY <2>2, <3>2 DEF Registry, SingleLiveController, Alive
      <4> QED
        BY <2>1, <4>1, InstAssumption DEF TypeOK
    <3> QED
      BY <3>1, <3>2
  <2>4. MapWellFormed'
    BY <2>1, <2>2, InstAssumption DEF Registry, MapWellFormed, TypeOK
  <2>5. HoldsInstance'
    BY <2>1, <2>2 DEF HoldsInstance, TypeOK
  <2>6. WorkersRun'
    BY <1>5, <2>2 DEF CreateInstance, Registry, WorkersRun
  <2> QED
    BY <2>1, <2>3, <2>4, <2>5, <2>6 DEF Registry
<1>6. CASE CreateFails
  <2>1. mgr'.pc = "fail" /\ mgr.pc = "create"
    BY <1>6 DEF CreateFails, TypeOK, Manager
  <2> QED
    BY <1>6, <2>1, RegistryManagerMoves DEF CreateFails, HoldsInstance
<1>7. CASE CheckStarted
  <2>1. /\ mgr.pc = "check" /\ mgr'.pc \in {"fail", "waiting", "send"}
        /\ mgr'.key = mgr.key /\ mgr'.inst = mgr.inst /\ mgr'.obj = mgr.obj
    BY <1>7 DEF CheckStarted, TypeOK, Manager
  <2>2. HoldsInstance'
    BY <1>7, <2>1 DEF CheckStarted, Registry, HoldsInstance
  <2> QED
    BY <1>7, <2>1, <2>2, RegistryManagerMoves DEF CheckStarted
<1>8. CASE UpdateWaiting
  <2>1. \/ mgr' = IdleManager
        \/ /\ mgr'.pc = "send" /\ mgr'.key = mgr.key /\ mgr'.inst = mgr.inst
           /\ mgr'.obj = mgr.obj
    BY <1>8 DEF UpdateWaiting, TypeOK, Manager
  <2>2. HoldsInstance'
    BY <1>8, <2>1 DEF UpdateWaiting, Registry, HoldsInstance, IdleManager
  <2> QED
    BY <1>8, <2>1, <2>2, RegistryManagerMoves DEF UpdateWaiting, IdleManager
<1>9. CASE SendEvent
  <2>1. \A i \in Insts : SameStanding(inst[i], inst'[i])
    BY <1>9 DEF SendEvent, SameStanding, TypeOK, Instance
  <2>2. SingleLiveController'
    BY <1>9, <2>1 DEF SendEvent, SameStanding, Registry, SingleLiveController,
       Alive
  <2>3. MapWellFormed'
    BY <1>9, <2>1 DEF SendEvent, SameStanding, Registry, MapWellFormed, TypeOK
  <2>4. WorkersRun'
    BY <1>9, <2>1 DEF SendEvent, SameStanding, Registry, WorkersRun
  <2> QED
    BY <1>9, <2>2, <2>3, <2>4 DEF SendEvent, Registry, HoldsInstance,
       IdleManager
<1>10. CASE RecordErr
  BY <1>10, RegistryManagerMoves DEF RecordErr, HoldsInstance, IdleManager
<1> QED
  BY <1>1, <1>2, <1>3, <1>4, <1>5, <1>6, <1>7, <1>8, <1>9, <1>10
  DEF ManagerStep

\* An instance that ends, or whose caches are synced, has no busy worker.
LEMMA RegistryLifecycle ==
  ASSUME TypeOK, Registry, NEW i \in Insts, LifecycleStep(i) \/ Trigger(i)
  PROVE  Registry'
<1> USE DEF apiVars, mgrVars
<1>1. CASE Notify(i) \/ ReceiveIn(i) \/ Trigger(i)
  <2>1. \A j \in Insts : SameStanding(inst[j], inst'[j])
    <3>1. inst[i] \in Instance
      BY DEF TypeOK
    <3>2. CASE Notify(i)
      BY <3>1, <3>2 DEF Notify, SameStanding, TypeOK, Instance
    <3>3. CASE ReceiveIn(i)
      BY <3>1, <3>3 DEF ReceiveIn, SetInst, SameStanding, TypeOK, Instance
    <3>4. CASE Trigger(i)
      BY <3>1, <3>4 DEF Trigger, SetInst, SameStanding, TypeOK, Instance
    <3> QED
      BY <1>1, <3>2, <3>3, <3>4
  <2> QED
    BY <1>1, <2>1, RegistryKept DEF Notify, ReceiveIn, Trigger, SetInst
<1>2. CASE StartSynced(i) \/ StartFails(i) \/ StartReturns(i)
  <2>1. UNCHANGED <<mgr, controllers, wrk>>
    BY <1>2 DEF StartSynced, StartFails, StartReturns, SetInst
  <2>2. /\ inst'[i].key = inst[i].key
        /\ inst'[i].cancelled = inst[i].cancelled
        /\ inst'[i].configHash = inst[i].configHash
        /\ inst'[i].phase \in {"running", "done"}
        /\ inst[i].phase \in {"starting", "running"}
        /\ inst'[i].phase = "done" => wrk[i].pc = "idle" \/ inst[i].phase = "starting"
        /\ \A j \in Insts \ {i} : inst'[j] = inst[j]
    <3>1. inst[i] \in Instance
      BY DEF TypeOK
    <3>2. CASE StartSynced(i)
      BY <3>1, <3>2 DEF StartSynced, SetInst, TypeOK, Instance
    <3>3. CASE StartFails(i)
      BY <3>1, <3>3 DEF StartFails, SetInst, Ended, TypeOK, Instance
    <3>4. CASE StartReturns(i)
      BY <3>1, <3>4 DEF StartReturns, SetInst, Ended, TypeOK, Instance
    <3> QED
      BY <1>2, <3>2, <3>3, <3>4
  <2>3. SingleLiveController'
    BY <2>1, <2>2 DEF Registry, SingleLiveController, Alive
  <2>4. MapWellFormed'
    BY <2>1, <2>2 DEF Registry, MapWellFormed, TypeOK
  <2>5. HoldsInstance'
    BY <2>1, <2>2 DEF Registry, HoldsInstance
  <2>6. WorkersRun'
    BY <2>1, <2>2 DEF Registry, WorkersRun
  <2> QED
    BY <2>1, <2>3, <2>4, <2>5, <2>6 DEF Registry
<1> QED
  BY <1>1, <1>2 DEF LifecycleStep

LEMMA RegistryReconciler ==
  ASSUME TypeOK, Registry, NEW i \in Insts, ReconcilerStep(i)
  PROVE  Registry'
<1> USE DEF apiVars, mgrVars
<1>1. CASE RecGet(i)
  <2>1. \A j \in Insts : SameStanding(inst[j], inst'[j])
    BY <1>1 DEF RecGet, SameStanding, TypeOK, Instance
  <2>2. \A j \in Insts : wrk'[j].pc # "idle" =>
                           wrk[j].pc # "idle" \/ inst[j].phase = "running"
    BY <1>1 DEF RecGet, TypeOK
  <2> QED
    BY <1>1, <2>1, <2>2, RegistryKept DEF RecGet
<1>2. ASSUME NEW e, NEW again, Returns(i, e, again), wrk[i].pc = "render"
      PROVE  Registry'
  <2>1. \A j \in Insts : wrk'[j].pc # "idle" => wrk[j].pc # "idle"
    BY <1>2 DEF Returns, TypeOK
  <2> QED
    BY <1>2, <2>1, RegistryKept DEF Returns, SameStanding
<1>3. CASE RecRecord(i)
  <2>1. \A j \in Insts : SameStanding(inst[j], inst'[j])
    BY <1>3 DEF RecRecord, SameStanding, TypeOK, Instance
  <2>2. \A j \in Insts : wrk'[j].pc # "idle" => wrk[j].pc # "idle"
    BY <1>3 DEF RecRecord, TypeOK, IdleWorker
  <2>3. /\ mgr'.pc = mgr.pc /\ mgr'.key = mgr.key /\ mgr'.inst = mgr.inst
        /\ mgr'.obj = mgr.obj
    BY <1>3 DEF RecRecord, Outdate, TypeOK, Manager
  <2> QED
    BY <1>3, <2>1, <2>2, <2>3, RegistryKept DEF RecRecord
<1> QED
  BY <1>1, <1>2, <1>3 DEF ReconcilerStep, RenderFails, RenderAndApply,
     ApplyFails, WaitForLibrary

LEMMA RegistryNext == TypeOK /\ Registry /\ [Next]_vars => Registry'
<1> SUFFICES ASSUME TypeOK, Registry, [Next]_vars PROVE Registry'
  OBVIOUS
<1>1. CASE UNCHANGED vars
  BY <1>1, RegistryKept DEF vars, apiVars, mgrVars, instVars, SameStanding
<1> QED
  BY <1>1, RegistryEnvironment, RegistryManager, RegistryLifecycle,
     RegistryReconciler DEF Next

\* An instance controller that has not been told to stop is the one in the
\* controllers map: whatever the order of changes, deletions, failures and
\* notifications, none is leaked and no ManagedResource is served by two.
THEOREM OneLiveController == Spec => []SingleLiveController
<1>1. Init => TypeOK /\ Registry
  BY InitType, RegistryInit
<1>2. TypeOK /\ Registry /\ [Next]_vars => (TypeOK /\ Registry)'
  BY NextType, RegistryNext
<1>3. TypeOK /\ Registry => SingleLiveController
  BY DEF Registry
<1> QED
  BY <1>1, <1>2, <1>3, PTL DEF Spec

------------------------------------------------------------------------------
(* The map and the cache *)

LEMMA SettlingInit == Init => Settling
<1> SUFFICES ASSUME Init PROVE Settling
  OBVIOUS
<1>1. mgr.pc = "idle"
  BY DEF Init, IdleManager
<1>2. SettledMapMatchesCache
  BY DEF Init, SettledMapMatchesCache, Pending, MapMatchesCache, Live
<1> QED
  BY <1>1, <1>2 DEF Settling, ManagerIsCurrent

\* A step that is not the manager's: where the cache changes, the key is
\* queued.
LEMMA SettlingKept ==
  ASSUME TypeOK, Settling, UNCHANGED controllers,
         mgr'.pc = mgr.pc, mgr'.key = mgr.key, mgr'.obj = mgr.obj,
         queue \subseteq queue',
         \A k \in Keys : k \notin queue' => cache'[k] = cache[k],
         \A i \in Insts : inst'[i].configHash = inst[i].configHash
  PROVE  Settling'
<1> USE DEF Settling
<1>1. SettledMapMatchesCache'
  BY DEF SettledMapMatchesCache, Pending, MapMatchesCache, Live, TypeOK
<1>2. ManagerIsCurrent'
  BY DEF ManagerIsCurrent, TypeOK, Manager
<1> QED
  BY <1>1, <1>2

OthersMatch ==
  \A k \in Keys \ {mgr.key} : MapMatchesCache(k) => MapMatchesCache(k)'

\* The manager goes on with the key it has.
LEMMA SettlingBusy ==
  ASSUME TypeOK, Settling, UNCHANGED <<cache, queue>>, OthersMatch,
         mgr.pc \notin {"idle", "remove"}, mgr'.pc \notin {"idle", "remove"},
         mgr'.key = mgr.key, mgr'.obj = mgr.obj
  PROVE  Settling'
BY DEF Settling, SettledMapMatchesCache, Pending, ManagerIsCurrent, OthersMatch

\* The manager is done with its key, for now if the key is queued again.
LEMMA SettlingDone ==
  ASSUME TypeOK, Settling, UNCHANGED cache, OthersMatch,
         mgr.pc # "idle", mgr' = IdleManager, queue \subseteq queue',
         \A k \in Keys : k = mgr.key => k \in queue' \/ MapMatchesCache(k)'
  PROVE  Settling'
<1>1. SettledMapMatchesCache'
  <2> SUFFICES ASSUME NEW k \in Keys, k \notin queue'
               PROVE  MapMatchesCache(k)'
    BY DEF SettledMapMatchesCache, Pending
  <2>1. CASE k = mgr.key
    BY <2>1
  <2>2. CASE k # mgr.key
    BY <2>2 DEF Settling, SettledMapMatchesCache, Pending, OthersMatch
  <2> QED
    BY <2>1, <2>2
<1> QED
  BY <1>1 DEF Settling, ManagerIsCurrent, IdleManager

LEMMA SettlingEnvironment ==
  ASSUME TypeOK, Settling, UserStep \/ (\E k \in Keys : CacheDeliver(k))
  PROVE  Settling'
<1>1. ASSUME NEW k, NEW o, UserWrite(k, o) PROVE Settling'
  <2>1. mgr'.pc = mgr.pc /\ mgr'.key = mgr.key /\ mgr'.obj = mgr.obj
    BY <1>1 DEF UserWrite, Outdate, TypeOK, Manager
  <2> QED
    BY <1>1, <2>1, SettlingKept DEF UserWrite, instVars
<1>2. ASSUME NEW k \in Keys, CacheDeliver(k) PROVE Settling'
  BY <1>2, SettlingKept DEF CacheDeliver, instVars, TypeOK
<1> QED
  BY <1>1, <1>2 DEF UserStep, UserCreate, UserUpdate, UserDelete

LEMMA SettlingManager ==
  ASSUME TypeOK, Registry, Settling, ManagerStep
  PROVE  Settling'
<1> USE DEF apiVars, instVars
<1>0. mgr.key \in Keys /\ controllers[mgr.key] \in Insts \cup {NoInst}
  BY DEF TypeOK, Manager
<1>1. ASSUME NEW k \in Keys, MgrGet(k) PROVE Settling'
  <2>1. /\ mgr.pc = "idle" /\ queue' = queue \ {k}
        /\ mgr'.pc = IF Live(cache[k]) THEN "ensure" ELSE "remove"
        /\ mgr'.key = k /\ mgr'.obj = cache[k]
        /\ UNCHANGED <<cache, controllers, inst>>
    BY <1>1 DEF MgrGet
  <2>2. SettledMapMatchesCache'
    BY <2>1 DEF Settling, SettledMapMatchesCache, Pending, MapMatchesCache,
       Live
  <2> QED
    BY <2>1, <2>2 DEF Settling, ManagerIsCurrent, Live
<1>2. CASE StopAndRemoveController
  <2>1. \A i \in Insts : inst'[i].configHash = inst[i].configHash
    BY <1>2 DEF StopAndRemoveController, Stop, TypeOK, Instance
  <2>2. OthersMatch
    BY <1>2, <2>1 DEF StopAndRemoveController, OthersMatch, MapMatchesCache,
       Live, TypeOK
  <2>3. \A k \in Keys : k = mgr.key => k \in queue' \/ MapMatchesCache(k)'
    <3>1. /\ mgr.pc = "remove" /\ UNCHANGED <<cache, queue>>
          /\ controllers'[mgr.key] = NoInst
      BY <1>0, <1>2 DEF StopAndRemoveController, TypeOK
    <3>2. mgr.key \notin queue => ~Live(cache[mgr.key])
      BY <3>1 DEF Settling, ManagerIsCurrent
    <3> QED
      BY <3>1, <3>2 DEF MapMatchesCache, Live
  <2> QED
    BY <1>2, <2>2, <2>3, SettlingDone DEF StopAndRemoveController
<1>3. CASE EnsureInstanceController
  <2>1. \A i \in Insts : inst'[i].configHash = inst[i].configHash
    BY <1>0, <1>3 DEF EnsureInstanceController, Stop, TypeOK, Instance
  <2>2. OthersMatch
    BY <1>3, <2>1 DEF EnsureInstanceController, OthersMatch, MapMatchesCache,
       Live, TypeOK
  <2>3. /\ mgr.pc = "ensure" /\ mgr'.pc \in {"create", "check", "waitdone"}
        /\ mgr'.key = mgr.key /\ mgr'.obj = mgr.obj
    BY <1>3 DEF EnsureInstanceController, TypeOK, Manager
  <2> QED
    BY <1>3, <2>2, <2>3, SettlingBusy DEF EnsureInstanceController
<1>4. CASE AwaitDone
  <2>1. OthersMatch
    BY <1>4 DEF AwaitDone, OthersMatch, MapMatchesCache, Live, TypeOK
  <2>2. /\ mgr.pc = "waitdone" /\ mgr'.pc = "create"
        /\ mgr'.key = mgr.key /\ mgr'.obj = mgr.obj
    BY <1>4 DEF AwaitDone, TypeOK, Manager
  <2> QED
    BY <1>4, <2>1, <2>2, SettlingBusy DEF AwaitDone
<1>5. CASE CreateInstance
  <2> PICK i \in Insts :
        /\ inst[i].phase = "free"
        /\ inst' = [inst EXCEPT ![i] = NewInstance(mgr.key, mgr.obj)]
        /\ controllers' = [controllers EXCEPT ![mgr.key] = i]
        /\ mgr' = [mgr EXCEPT !.pc = "check", !.inst = i]
    BY <1>5 DEF CreateInstance
  <2>1. \A k \in Keys : controllers[k] # i
    BY InstAssumption DEF Registry, MapWellFormed
  <2>2. OthersMatch
    BY <1>5, <2>1 DEF CreateInstance, OthersMatch, MapMatchesCache, Live,
       TypeOK
  <2>3. /\ mgr.pc = "create" /\ mgr'.pc = "check"
        /\ mgr'.key = mgr.key /\ mgr'.obj = mgr.obj
    BY <1>5 DEF CreateInstance, TypeOK, Manager
  <2> QED
    BY <1>5, <2>2, <2>3, SettlingBusy DEF CreateInstance
<1>6. CASE CreateFails
  <2>1. /\ mgr.pc = "create" /\ mgr'.pc = "fail"
        /\ mgr'.key = mgr.key /\ mgr'.obj = mgr.obj
    BY <1>6 DEF CreateFails, TypeOK, Manager
  <2> QED
    BY <1>6, <2>1, SettlingBusy DEF CreateFails, OthersMatch, MapMatchesCache,
       Live
<1>7. CASE CheckStarted
  <2>1. /\ mgr.pc = "check" /\ mgr'.pc \in {"fail", "waiting", "send"}
        /\ mgr'.key = mgr.key /\ mgr'.obj = mgr.obj
    BY <1>7 DEF CheckStarted, TypeOK, Manager
  <2> QED
    BY <1>7, <2>1, SettlingBusy DEF CheckStarted, OthersMatch,
       MapMatchesCache, Live
<1>8. CASE UpdateWaiting
  <2>1. OthersMatch
    BY <1>8 DEF UpdateWaiting, OthersMatch, MapMatchesCache, Live
  <2>2. CASE mgr.fresh
    <3>1. /\ mgr.pc = "waiting" /\ mgr'.pc = "send"
          /\ mgr'.key = mgr.key /\ mgr'.obj = mgr.obj
      BY <1>8, <2>2 DEF UpdateWaiting, TypeOK, Manager
    <3> QED
      BY <1>8, <2>1, <2>2, <3>1, SettlingBusy DEF UpdateWaiting
  <2>3. CASE ~mgr.fresh
    BY <1>8, <2>1, <2>3, SettlingDone DEF UpdateWaiting
  <2> QED
    BY <2>2, <2>3
<1>9. CASE SendEvent
  <2>1. \A i \in Insts : inst'[i].configHash = inst[i].configHash
    BY <1>9 DEF SendEvent, TypeOK, Instance
  <2>2. OthersMatch
    BY <1>9, <2>1 DEF SendEvent, OthersMatch, MapMatchesCache, Live, TypeOK
  <2>3. /\ controllers'[mgr.key] \in Insts
        /\ inst'[controllers'[mgr.key]].configHash = mgr.obj.cfg
        /\ Live(mgr.obj)
    BY <1>9, <2>1 DEF SendEvent, Registry, HoldsInstance, Settling
  <2>4. \A k \in Keys : k = mgr.key => k \in queue' \/ MapMatchesCache(k)'
    <3>1. /\ mgr.pc = "send" /\ UNCHANGED <<cache, queue>>
      BY <1>9 DEF SendEvent
    <3>2. mgr.key \notin queue => mgr.obj = cache[mgr.key]
      BY <3>1 DEF Settling, ManagerIsCurrent
    <3> QED
      BY <2>3, <3>1, <3>2, InstAssumption DEF MapMatchesCache, Live
  <2> QED
    BY <1>9, <2>2, <2>4, SettlingDone DEF SendEvent
<1>10. CASE RecordErr
  BY <1>10, SettlingDone DEF RecordErr, OthersMatch, MapMatchesCache, Live
<1> QED
  BY <1>1, <1>2, <1>3, <1>4, <1>5, <1>6, <1>7, <1>8, <1>9, <1>10
  DEF ManagerStep

LEMMA SettlingInstances ==
  ASSUME TypeOK, Settling, NEW i \in Insts,
         LifecycleStep(i) \/ Trigger(i) \/ ReconcilerStep(i)
  PROVE  Settling'
<1> USE DEF apiVars, mgrVars
<1>1. CASE LifecycleStep(i) \/ Trigger(i)
  <2>1. \A j \in Insts : inst'[j].configHash = inst[j].configHash
    <3>1. ASSUME NEW r, SetInst(i, r), r.configHash = inst[i].configHash
          PROVE  \A j \in Insts : inst'[j].configHash = inst[j].configHash
      BY <3>1 DEF SetInst, TypeOK
    <3>2. inst[i] \in Instance
      BY DEF TypeOK
    <3>3. CASE Notify(i)
      BY <3>2, <3>3 DEF Notify, TypeOK, Instance
    <3>4. CASE StartSynced(i)
      BY <3>1, <3>2, <3>4 DEF StartSynced, Instance
    <3>5. CASE StartFails(i) \/ StartReturns(i)
      BY <3>1, <3>2, <3>5 DEF StartFails, StartReturns, Ended, Instance
    <3>6. CASE ReceiveIn(i)
      BY <3>1, <3>2, <3>6 DEF ReceiveIn, Instance
    <3>7. CASE Trigger(i)
      BY <3>1, <3>2, <3>7 DEF Trigger, Instance
    <3> QED
      BY <1>1, <3>3, <3>4, <3>5, <3>6, <3>7 DEF LifecycleStep
  <2>2. UNCHANGED <<cache, mgr, controllers>> /\ queue \subseteq queue'
    BY <1>1 DEF LifecycleStep, StartSynced, StartFails, StartReturns, Notify,
       ReceiveIn, Trigger, SetInst
  <2> QED
    BY <2>1, <2>2, SettlingKept
<1>2. CASE RecGet(i)
  <2>1. \A j \in Insts : inst'[j].configHash = inst[j].configHash
    BY <1>2 DEF RecGet, TypeOK, Instance
  <2> QED
    BY <1>2, <2>1, SettlingKept DEF RecGet
<1>3. ASSUME NEW e, NEW again, Returns(i, e, again) PROVE Settling'
  BY <1>3, SettlingKept DEF Returns
<1>4. CASE RecRecord(i)
  <2>1. \A j \in Insts : inst'[j].configHash = inst[j].configHash
    BY <1>4 DEF RecRecord, TypeOK, Instance
  <2>2. mgr'.pc = mgr.pc /\ mgr'.key = mgr.key /\ mgr'.obj = mgr.obj
    BY <1>4 DEF RecRecord, Outdate, TypeOK, Manager
  <2> QED
    BY <1>4, <2>1, <2>2, SettlingKept DEF RecRecord
<1> QED
  BY <1>1, <1>2, <1>3, <1>4 DEF ReconcilerStep, RenderFails, RenderAndApply,
     ApplyFails, WaitForLibrary

LEMMA SettlingNext == TypeOK /\ Registry /\ Settling /\ [Next]_vars => Settling'
<1> SUFFICES ASSUME TypeOK, Registry, Settling, [Next]_vars PROVE Settling'
  OBVIOUS
<1>1. CASE UNCHANGED vars
  BY <1>1, SettlingKept DEF vars, apiVars, mgrVars, instVars
<1> QED
  BY <1>1, SettlingEnvironment, SettlingManager, SettlingInstances DEF Next

\* Whenever the manager has nothing to do for a key, the map has a controller
\* for exactly the ManagedResource the cache holds, built from its config.
THEOREM NothingForgotten == Spec => []SettledMapMatchesCache
<1>1. Init => TypeOK /\ Registry /\ Settling
  BY InitType, RegistryInit, SettlingInit
<1>2. TypeOK /\ Registry /\ Settling /\ [Next]_vars
        => (TypeOK /\ Registry /\ Settling)'
  BY NextType, RegistryNext, SettlingNext
<1>3. TypeOK /\ Registry /\ Settling => SettledMapMatchesCache
  BY DEF Settling
<1> QED
  BY <1>1, <1>2, <1>3, PTL DEF Spec

------------------------------------------------------------------------------
(* What is at rest is settled *)

LEMMA FinishingInit == Init => Finishing
<1> SUFFICES ASSUME Init PROVE Finishing
  OBVIOUS
<1>1. /\ \A i \in Insts : inst[i].phase = "free" /\ inst[i].notified = FALSE
      /\ \A k \in Keys : controllers[k] = NoInst
      /\ mgr.pc = "idle" /\ cache = server
  BY DEF Init, FreeInstance, IdleManager
<1> QED
  BY <1>1 DEF Finishing, Caught, Instances, EndIsQueued

LEMMA StatusUpdateCaught ==
  ASSUME TypeOK, Caught, NEW k \in Keys, NEW s, NEW c, StatusUpdate(k, s, c),
         UNCHANGED cache
  PROVE  Caught' /\ fresh' \subseteq fresh
BY DEF StatusUpdate, Caught, TypeOK

LEMMA CaughtNext == TypeOK /\ Caught /\ [Next]_vars => Caught'
<1> SUFFICES ASSUME TypeOK, Caught, [Next]_vars PROVE Caught'
  OBVIOUS
<1>1. CASE UNCHANGED <<server, cache, fresh>>
  BY <1>1 DEF Caught
<1>2. CASE UserStep
  <2>1. PICK k \in Keys : \E o : UserWrite(k, o)
    BY <1>2 DEF UserStep, UserCreate, UserUpdate, UserDelete
  <2> QED
    BY <2>1 DEF UserWrite, Caught, TypeOK
<1>3. ASSUME NEW k \in Keys, CacheDeliver(k) PROVE Caught'
  BY <1>3 DEF CacheDeliver, Caught, TypeOK
<1>4. CASE UpdateWaiting
  BY <1>4, StatusUpdateCaught DEF UpdateWaiting, TypeOK, Manager
<1>5. CASE RecordErr
  BY <1>5, StatusUpdateCaught DEF RecordErr, TypeOK, Manager
<1>6. ASSUME NEW i \in Insts, RecRecord(i) PROVE Caught'
  BY <1>6, StatusUpdateCaught DEF RecRecord, TypeOK, Instance
<1>7. CASE ManagerStep
  BY <1>1, <1>4, <1>5, <1>7 DEF ManagerStep, MgrGet, StopAndRemoveController,
     EnsureInstanceController, AwaitDone, CreateInstance, CreateFails,
     CheckStarted, SendEvent, apiVars
<1>8. ASSUME NEW i \in Insts, LifecycleStep(i) \/ Trigger(i) PROVE Caught'
  BY <1>1, <1>8 DEF LifecycleStep, StartSynced, StartFails, StartReturns,
     Notify, ReceiveIn, Trigger, SetInst, apiVars
<1>9. ASSUME NEW i \in Insts, ReconcilerStep(i) PROVE Caught'
  BY <1>1, <1>6, <1>9 DEF ReconcilerStep, RecGet, RenderFails, RenderAndApply,
     ApplyFails, WaitForLibrary, Returns, apiVars
<1>10. CASE UNCHANGED vars
  BY <1>1, <1>10 DEF vars, apiVars
<1> QED
  BY <1>2, <1>3, <1>7, <1>8, <1>9, <1>10 DEF Next

LEMMA InstancesNext ==
  TypeOK /\ Instances /\ [Next]_vars => Instances'
<1> SUFFICES ASSUME TypeOK, Instances, [Next]_vars PROVE Instances'
  OBVIOUS
<1> USE DEF apiVars, mgrVars, instVars
<1>0. \A i \in Insts : inst[i] \in Instance
  BY DEF TypeOK
<1>1. CASE UNCHANGED inst
  BY <1>1 DEF Instances
<1>2. CASE UserStep \/ \E k \in Keys : CacheDeliver(k)
  BY <1>1, <1>2 DEF UserStep, UserCreate, UserUpdate, UserDelete, UserWrite,
     CacheDeliver
<1>3. CASE ManagerStep
  <2>1. CASE StopAndRemoveController
    BY <1>0, <2>1 DEF StopAndRemoveController, Stop, Instances, Instance
  <2>2. CASE EnsureInstanceController
    <3>1. \/ UNCHANGED inst
          \/ inst' = [inst EXCEPT ![controllers[mgr.key]] = Stop(@)]
      BY <2>2 DEF EnsureInstanceController
    <3>2. CASE inst' = [inst EXCEPT ![controllers[mgr.key]] = Stop(@)]
      <4>1. \A i \in Insts : inst'[i] = inst[i] \/ inst'[i] = Stop(inst[i])
        BY <3>2 DEF TypeOK
      <4>2. \A i \in Insts : /\ inst'[i].phase = inst[i].phase
                              /\ inst'[i].configHash = inst[i].configHash
                              /\ inst'[i].notified = inst[i].notified
        BY <1>0, <4>1 DEF Stop, Instance
      <4> QED
        BY <4>2 DEF Instances
    <3> QED
      BY <1>1, <3>1, <3>2
  <2>3. CASE CreateInstance
    <3>1. PICK i \in Insts :
            inst' = [inst EXCEPT ![i] = NewInstance(mgr.key, mgr.obj)]
      BY <2>3 DEF CreateInstance
    <3>2. /\ NewInstance(mgr.key, mgr.obj).configHash = mgr.obj.cfg
          /\ NewInstance(mgr.key, mgr.obj).notified = FALSE
      BY DEF NewInstance, FreeInstance
    <3>3. mgr.obj.cfg \notin BadConfigs
      BY <2>3 DEF CreateInstance
    <3> QED
      BY <3>1, <3>2, <3>3 DEF Instances, TypeOK
  <2>4. CASE SendEvent
    BY <1>0, <2>4 DEF SendEvent, Instances, Instance, TypeOK
  <2> QED
    BY <1>1, <1>3, <2>1, <2>2, <2>3, <2>4 DEF ManagerStep, MgrGet, AwaitDone,
       CreateFails, CheckStarted, UpdateWaiting, RecordErr
<1>4. ASSUME NEW i \in Insts, LifecycleStep(i) \/ Trigger(i) PROVE Instances'
  <2>0. ASSUME NEW r, SetInst(i, r), inst[i].phase # "free",
               r.configHash = inst[i].configHash,
               r.notified => r.phase = "done"
        PROVE  Instances'
    BY <2>0 DEF SetInst, Instances, TypeOK
  <2>1. CASE StartSynced(i)
    <3>1. inst[i].phase = "starting" /\ ~inst[i].notified
      BY <2>1 DEF StartSynced, Instances
    <3> QED
      BY <1>0, <2>0, <2>1, <3>1 DEF StartSynced, Instance
  <2>2. CASE StartFails(i) \/ StartReturns(i)
    <3>1. inst[i].phase # "free" /\ SetInst(i, Ended(inst[i]))
      BY <2>2 DEF StartFails, StartReturns
    <3>2. /\ Ended(inst[i]).configHash = inst[i].configHash
          /\ Ended(inst[i]).phase = "done"
      BY <1>0 DEF Ended, Instance
    <3> QED
      BY <2>0, <3>1, <3>2
  <2>4. CASE ReceiveIn(i)
    <3>1. inst[i].phase = "running" /\ ~inst[i].notified
      BY <2>4 DEF ReceiveIn, Instances
    <3> QED
      BY <1>0, <2>0, <2>4, <3>1 DEF ReceiveIn, Instance
  <2>5. CASE Trigger(i)
    <3>1. inst[i].phase = "running" /\ ~inst[i].notified
      BY <2>5 DEF Trigger, Instances
    <3> QED
      BY <1>0, <2>0, <2>5, <3>1 DEF Trigger, Instance
  <2>3. CASE Notify(i)
    BY <1>0, <2>3 DEF Notify, Instances, Instance, TypeOK
  <2> QED
    BY <1>4, <2>1, <2>2, <2>3, <2>4, <2>5 DEF LifecycleStep
<1>5. ASSUME NEW i \in Insts, ReconcilerStep(i) PROVE Instances'
  <2>1. CASE RecGet(i)
    BY <1>0, <2>1 DEF RecGet, Instances, Instance, TypeOK
  <2>2. CASE RecRecord(i)
    BY <1>0, <2>2 DEF RecRecord, Instances, Instance, TypeOK
  <2> QED
    BY <1>1, <1>5, <2>1, <2>2 DEF ReconcilerStep, RenderFails, RenderAndApply,
       ApplyFails, WaitForLibrary, Returns
<1> QED
  BY <1>1, <1>2, <1>3, <1>4, <1>5 DEF Next, vars

LEMMA EndIsQueuedNext ==
  TypeOK /\ Registry /\ Instances /\ EndIsQueued /\ [Next]_vars => EndIsQueued'
<1> SUFFICES ASSUME TypeOK, Registry, Instances, EndIsQueued, [Next]_vars
             PROVE  EndIsQueued'
  OBVIOUS
<1> USE DEF apiVars, mgrVars, instVars
<1>0. \A i \in Insts : inst[i] \in Instance
  BY DEF TypeOK
<1>1. ASSUME mgr'.pc \in {"waiting", "send"} =>
               /\ mgr.pc \in {"waiting", "send"}
               /\ mgr'.key = mgr.key /\ mgr'.inst = mgr.inst,
             queue \subseteq queue',
             \A i \in Insts : inst'[i].notified = inst[i].notified
      PROVE  EndIsQueued'
  BY <1>1 DEF EndIsQueued, Registry, HoldsInstance
<1>2. CASE UNCHANGED vars
  BY <1>1, <1>2 DEF vars
<1>3. CASE UserStep
  <2>1. PICK k \in Keys : \E o : UserWrite(k, o)
    BY <1>3 DEF UserStep, UserCreate, UserUpdate, UserDelete
  <2>2. mgr'.pc = mgr.pc /\ mgr'.key = mgr.key /\ mgr'.inst = mgr.inst
    BY <2>1 DEF UserWrite, Outdate, TypeOK, Manager
  <2> QED
    BY <1>1, <2>1, <2>2 DEF UserWrite
<1>4. ASSUME NEW k \in Keys, CacheDeliver(k) PROVE EndIsQueued'
  BY <1>1, <1>4 DEF CacheDeliver
<1>5. CASE ManagerStep
  <2>1. CASE CheckStarted
    <3>1. mgr.inst \in Insts /\ mgr.pc = "check"
      BY <2>1 DEF CheckStarted, Registry, HoldsInstance
    <3>2. mgr'.inst = mgr.inst /\ UNCHANGED inst
      BY <2>1 DEF CheckStarted, TypeOK, Manager
    <3>3. mgr'.pc \in {"waiting", "send"} => inst[mgr.inst].phase # "done"
      BY <2>1 DEF CheckStarted, TypeOK, Manager
    <3> QED
      BY <3>1, <3>2, <3>3 DEF Instances, EndIsQueued
  <2>2. CASE UpdateWaiting
    <3>1. mgr.pc = "waiting" /\ UNCHANGED inst /\ queue \subseteq queue'
      BY <2>2 DEF UpdateWaiting
    <3>2. mgr'.pc \in {"waiting", "send"} =>
            mgr'.key = mgr.key /\ mgr'.inst = mgr.inst
      BY <2>2 DEF UpdateWaiting, IdleManager, TypeOK, Manager
    <3> QED
      BY <1>1, <3>1, <3>2
  <2>3. CASE ~CheckStarted /\ ~UpdateWaiting
    <3> SUFFICES mgr'.pc \notin {"waiting", "send"}
      BY DEF EndIsQueued
    <3>1. CASE StopAndRemoveController \/ SendEvent \/ RecordErr
      <4>1. mgr' = IdleManager
        BY <3>1 DEF StopAndRemoveController, SendEvent, RecordErr
      <4>2. mgr'.pc = "idle"
        BY <4>1 DEF IdleManager
      <4> QED
        BY <4>2
    <3>2. CASE \E k \in Keys : MgrGet(k)
      <4>1. PICK k \in Keys : MgrGet(k)
        BY <3>2
      <4>2. mgr'.pc = IF Live(cache[k]) THEN "ensure" ELSE "remove"
        BY <4>1 DEF MgrGet
      <4> QED
        BY <4>2
    <3>3. CASE EnsureInstanceController
      BY <3>3 DEF EnsureInstanceController, TypeOK, Manager
    <3>4. CASE AwaitDone \/ CreateInstance
      BY <3>4 DEF AwaitDone, CreateInstance, TypeOK, Manager
    <3>5. CASE CreateFails
      BY <3>5 DEF CreateFails, TypeOK, Manager
    <3> QED
      BY <1>5, <2>3, <3>1, <3>2, <3>3, <3>4, <3>5 DEF ManagerStep
  <2> QED
    BY <2>1, <2>2, <2>3
<1>6. ASSUME NEW i \in Insts, LifecycleStep(i) \/ Trigger(i)
      PROVE  EndIsQueued'
  <2>1. CASE Notify(i)
    <3>1. /\ UNCHANGED <<mgr, controllers>>
          /\ queue' = queue \cup {inst[i].key}
          /\ \A j \in Insts \ {i} : inst'[j] = inst[j]
      BY <2>1 DEF Notify, TypeOK
    <3>2. mgr.pc \in {"waiting", "send"} =>
            /\ mgr.inst \in Insts
            /\ mgr.inst = i => inst[i].key = mgr.key
      <4>1. mgr.key \in Keys
        BY DEF TypeOK, Manager
      <4>2. mgr.pc \in {"waiting", "send"} =>
              mgr.inst \in Insts /\ controllers[mgr.key] = mgr.inst
        BY DEF Registry, HoldsInstance
      <4>3. controllers[mgr.key] # NoInst => inst[controllers[mgr.key]].key = mgr.key
        BY <4>1 DEF Registry, MapWellFormed
      <4> QED
        BY <4>2, <4>3, InstAssumption
    <3> QED
      BY <3>1, <3>2 DEF EndIsQueued
  <2>2. CASE ~Notify(i)
    <3>0. ASSUME NEW r, SetInst(i, r), r.notified = inst[i].notified
          PROVE  EndIsQueued'
      <4>1. \A j \in Insts : inst'[j].notified = inst[j].notified
        BY <3>0 DEF SetInst, TypeOK
      <4> QED
        BY <1>1, <3>0, <4>1 DEF SetInst
    <3>1. CASE StartSynced(i)
      BY <1>0, <3>0, <3>1 DEF StartSynced, Instance
    <3>2. CASE StartFails(i) \/ StartReturns(i)
      BY <1>0, <3>0, <3>2 DEF StartFails, StartReturns, Ended, Instance
    <3>3. CASE ReceiveIn(i)
      BY <1>0, <3>0, <3>3 DEF ReceiveIn, Instance
    <3>4. CASE Trigger(i)
      BY <1>0, <3>0, <3>4 DEF Trigger, Instance
    <3> QED
      BY <1>6, <2>2, <3>1, <3>2, <3>3, <3>4 DEF LifecycleStep
  <2> QED
    BY <2>1, <2>2
<1>7. ASSUME NEW i \in Insts, ReconcilerStep(i) PROVE EndIsQueued'
  <2>1. CASE RecGet(i)
    <3>1. \A j \in Insts : inst'[j].notified = inst[j].notified
      BY <1>0, <2>1 DEF RecGet, Instance, TypeOK
    <3> QED
      BY <1>1, <2>1, <3>1 DEF RecGet
  <2>2. CASE RecRecord(i)
    <3>1. \A j \in Insts : inst'[j].notified = inst[j].notified
      BY <1>0, <2>2 DEF RecRecord, Instance, TypeOK
    <3>2. mgr'.pc = mgr.pc /\ mgr'.key = mgr.key /\ mgr'.inst = mgr.inst
      BY <2>2 DEF RecRecord, Outdate, TypeOK, Manager
    <3> QED
      BY <1>1, <2>2, <3>1, <3>2 DEF RecRecord
  <2>3. CASE UNCHANGED <<inst, mgrVars>>
    BY <1>1, <2>3
  <2> QED
    BY <1>7, <2>1, <2>2, <2>3 DEF ReconcilerStep, RenderFails,
       RenderAndApply, ApplyFails, WaitForLibrary, Returns
<1> QED
  BY <1>2, <1>3, <1>4, <1>5, <1>6, <1>7 DEF Next

\* A step that touches neither key k nor its instance, except that it may make
\* the cached copy of k an old one.
LEMMA AttendedKept ==
  ASSUME NEW k \in Keys, NEW c \in Insts, Attended(k, c),
         cache'[k] = cache[k], target'[k] = target[k],
         k \in fresh' => k \in fresh, wrk'[c] = wrk[c],
         inst'[c].phase = inst[c].phase, inst'[c].in = inst[c].in,
         inst'[c].queue = inst[c].queue, inst'[c].notified = inst[c].notified
  PROVE  Attended(k, c)'
BY DEF Attended, Serves, IsApplied

AllAttended ==
  \A k \in Keys : ~Pending(k) /\ controllers[k] # NoInst =>
                    Attended(k, controllers[k])

\* The instance in the map of a key that the manager has nothing to do for.
LEMMA InCharge ==
  ASSUME TypeOK, Registry, Settling, NEW k \in Keys, ~Pending(k),
         controllers[k] # NoInst
  PROVE  /\ controllers[k] \in Insts
         /\ inst[controllers[k]].key = k
         /\ inst[controllers[k]].phase # "free"
         /\ ~inst[controllers[k]].cancelled
         /\ Live(cache[k])
         /\ inst[controllers[k]].configHash = cache[k].cfg
<1>1. controllers[k] \in Insts
  BY DEF TypeOK
<1>2. /\ inst[controllers[k]].key = k
      /\ inst[controllers[k]].phase # "free"
      /\ ~inst[controllers[k]].cancelled
  BY DEF Registry, MapWellFormed, Pending
<1>3. MapMatchesCache(k)
  BY DEF Settling, SettledMapMatchesCache
<1> QED
  BY <1>1, <1>2, <1>3 DEF MapMatchesCache

LEMMA AttendedEnvironment ==
  ASSUME TypeOK, AllAttended, UserStep \/ (\E k \in Keys : CacheDeliver(k))
  PROVE  AllAttended'
<1> SUFFICES ASSUME NEW k \in Keys, ~Pending(k)', controllers'[k] # NoInst
             PROVE  Attended(k, controllers[k])'
  BY DEF AllAttended
<1>1. ASSUME NEW j \in Keys, NEW o, UserWrite(j, o)
      PROVE  Attended(k, controllers[k])'
  <2>1. mgr'.pc = mgr.pc /\ mgr'.key = mgr.key
    BY <1>1 DEF UserWrite, Outdate, TypeOK, Manager
  <2>2. ~Pending(k) /\ controllers' = controllers /\ controllers[k] \in Insts
    BY <1>1, <2>1 DEF UserWrite, Pending, TypeOK
  <2>3. PICK c \in Insts : c = controllers[k]
    BY <2>2
  <2>4. Attended(k, c)
    BY <2>2, <2>3 DEF AllAttended
  <2>5. Attended(k, c)'
    BY <1>1, <2>4, AttendedKept DEF UserWrite, instVars
  <2> QED
    BY <2>2, <2>3, <2>5
<1>2. ASSUME NEW j \in Keys, CacheDeliver(j)
      PROVE  Attended(k, controllers[k])'
  <2>1. k # j /\ ~Pending(k) /\ controllers' = controllers /\ controllers[k] \in Insts
    BY <1>2 DEF CacheDeliver, Pending, TypeOK
  <2>2. PICK c \in Insts : c = controllers[k]
    BY <2>1
  <2>3. Attended(k, c)
    BY <2>1, <2>2 DEF AllAttended
  <2>4. cache'[k] = cache[k] /\ (k \in fresh' => k \in fresh)
    BY <1>2, <2>1 DEF CacheDeliver, TypeOK
  <2>5. Attended(k, c)'
    BY <1>2, <2>3, <2>4, AttendedKept DEF CacheDeliver, instVars
  <2> QED
    BY <2>1, <2>2, <2>5
<1> QED
  BY <1>1, <1>2 DEF UserStep, UserCreate, UserUpdate, UserDelete

\* The manager works on one key and its instance, and sends it the event
\* before it turns to another one.
LEMMA AttendedManager ==
  ASSUME TypeOK, Registry, Settling, EndIsQueued, AllAttended, ManagerStep
  PROVE  AllAttended'
<1> USE DEF apiVars, instVars
<1> SUFFICES ASSUME NEW k \in Keys, ~Pending(k)', controllers'[k] # NoInst
             PROVE  Attended(k, controllers[k])'
  BY DEF AllAttended
<1>0. /\ mgr.key \in Keys /\ \A i \in Insts : inst[i] \in Instance
      /\ controllers[mgr.key] \in Insts \cup {NoInst}
  BY DEF TypeOK, Manager
<1>1. ASSUME NEW c \in Insts, c = controllers[k], ~Pending(k),
             controllers'[k] = controllers[k], UNCHANGED <<cache, target, wrk>>,
             fresh' \subseteq fresh,
             inst'[c].phase = inst[c].phase, inst'[c].in = inst[c].in,
             inst'[c].queue = inst[c].queue,
             inst'[c].notified = inst[c].notified
      PROVE  Attended(k, controllers[k])'
  <2>1. Attended(k, c)
    BY <1>1, InstAssumption DEF AllAttended
  <2>2. Attended(k, c)'
    BY <1>1, <2>1, AttendedKept
  <2> QED
    BY <1>1, <2>2
<1>2. ASSUME NEW j \in Keys, MgrGet(j) PROVE Attended(k, controllers[k])'
  <2>1. k # j /\ ~Pending(k) /\ controllers[k] \in Insts
    BY <1>2 DEF MgrGet, Pending, TypeOK
  <2> QED
    BY <1>1, <1>2, <2>1 DEF MgrGet
<1>3. CASE k # mgr.key /\ mgr.pc # "idle" /\ queue \subseteq queue'
  <2>1. ~Pending(k)
    BY <1>3 DEF Pending
  <2>2. CASE StopAndRemoveController
    <3>1. controllers'[k] = controllers[k]
      BY <1>3, <2>2 DEF StopAndRemoveController, TypeOK
    <3>2. PICK c \in Insts : c = controllers[k]
      BY <3>1 DEF TypeOK
    <3>3. /\ inst'[c].phase = inst[c].phase /\ inst'[c].in = inst[c].in
          /\ inst'[c].queue = inst[c].queue
          /\ inst'[c].notified = inst[c].notified
      BY <1>0, <2>2 DEF StopAndRemoveController, Stop, Instance
    <3> QED
      BY <1>1, <2>1, <2>2, <3>1, <3>2, <3>3 DEF StopAndRemoveController
  <2>3. CASE EnsureInstanceController
    <3>1. controllers' = controllers
      BY <2>3 DEF EnsureInstanceController
    <3>2. PICK c \in Insts : c = controllers[k]
      BY <3>1 DEF TypeOK
    <3>3. /\ inst'[c].phase = inst[c].phase /\ inst'[c].in = inst[c].in
          /\ inst'[c].queue = inst[c].queue
          /\ inst'[c].notified = inst[c].notified
      <4>1. CASE UNCHANGED inst
        BY <4>1
      <4>2. CASE inst' = [inst EXCEPT ![controllers[mgr.key]] = Stop(@)]
        BY <1>0, <4>2 DEF Stop, Instance, TypeOK
      <4> QED
        BY <2>3, <4>1, <4>2 DEF EnsureInstanceController
    <3> QED
      BY <1>1, <2>1, <2>3, <3>1, <3>2, <3>3 DEF EnsureInstanceController
  <2>4. CASE AwaitDone
    <3>1. controllers'[k] = controllers[k] /\ controllers[k] \in Insts
      BY <1>3, <2>4 DEF AwaitDone, TypeOK
    <3> QED
      BY <1>1, <2>1, <2>4, <3>1 DEF AwaitDone
  <2>5. CASE CreateInstance
    <3>1. PICK i \in Insts :
            /\ inst[i].phase = "free"
            /\ inst' = [inst EXCEPT ![i] = NewInstance(mgr.key, mgr.obj)]
            /\ controllers' = [controllers EXCEPT ![mgr.key] = i]
      BY <2>5 DEF CreateInstance
    <3>2. controllers'[k] = controllers[k]
      BY <1>3, <3>1 DEF TypeOK
    <3>3. PICK c \in Insts : c = controllers[k]
      BY <3>2 DEF TypeOK
    <3>4. c # i
      BY <3>1, <3>2, <3>3 DEF Registry, MapWellFormed
    <3>5. inst'[c] = inst[c]
      BY <3>1, <3>4 DEF TypeOK
    <3> QED
      BY <1>1, <2>1, <2>5, <3>2, <3>3, <3>5 DEF CreateInstance
  <2>6. CASE SendEvent
    <3>1. controllers' = controllers
      BY <2>6 DEF SendEvent
    <3>2. PICK c \in Insts : c = controllers[k]
      BY <3>1 DEF TypeOK
    <3>3. c # mgr.inst
      <4>1. inst[c].key = k
        BY <3>1, <3>2 DEF Registry, MapWellFormed
      <4>2. controllers[mgr.key] = mgr.inst /\ mgr.inst \in Insts
        BY <2>6 DEF SendEvent, Registry, HoldsInstance
      <4>3. inst[mgr.inst].key = mgr.key
        BY <1>0, <4>2, InstAssumption DEF Registry, MapWellFormed
      <4> QED
        BY <1>3, <4>1, <4>3
    <3>4. inst'[c] = inst[c]
      BY <2>6, <3>3 DEF SendEvent, TypeOK
    <3> QED
      BY <1>1, <2>1, <2>6, <3>1, <3>2, <3>4 DEF SendEvent
  <2>7. CASE CreateFails \/ CheckStarted \/ UpdateWaiting \/ RecordErr
    <3>1. /\ UNCHANGED <<cache, target, wrk, inst, controllers>>
          /\ fresh' \subseteq fresh
      BY <2>7 DEF CreateFails, CheckStarted, UpdateWaiting, RecordErr,
         StatusUpdate
    <3>2. controllers[k] \in Insts
      BY <3>1 DEF TypeOK
    <3> QED
      BY <1>1, <2>1, <3>1, <3>2
  <2> QED
    BY <1>2, <2>2, <2>3, <2>4, <2>5, <2>6, <2>7 DEF ManagerStep
<1>4. CASE SendEvent /\ k = mgr.key
  <2>1. /\ controllers' = controllers /\ controllers[k] = mgr.inst
        /\ mgr.inst \in Insts /\ k \notin queue /\ mgr.pc = "send"
    BY <1>4 DEF SendEvent, Registry, HoldsInstance, Pending
  <2>2. PICK c \in Insts : c = mgr.inst
    BY <2>1
  <2>3. ~inst[c].notified
    BY <1>4, <2>1, <2>2 DEF EndIsQueued
  <2>4. /\ inst'[c].phase = inst[c].phase
        /\ inst'[c].notified = inst[c].notified
        /\ inst[c].phase # "done" => inst'[c].in
    BY <1>0, <1>4, <2>2 DEF SendEvent, Instance, TypeOK
  <2>5. Attended(k, c)'
    BY <2>3, <2>4 DEF Attended
  <2> QED
    BY <2>1, <2>2, <2>5
<1>5. CASE k = mgr.key /\ mgr.pc # "idle" /\ ~SendEvent
  <2>1. CASE mgr'.pc # "idle" /\ mgr'.key = mgr.key
    BY <1>5, <2>1 DEF Pending
  <2>2. CASE StopAndRemoveController
    BY <1>0, <1>5, <2>2 DEF StopAndRemoveController, TypeOK
  <2>3. CASE UpdateWaiting \/ RecordErr
    <3>1. CASE mgr.key \in queue'
      BY <1>5, <3>1 DEF Pending
    <3> QED
      BY <2>1, <2>3, <3>1 DEF UpdateWaiting, RecordErr, TypeOK, Manager
  <2>4. CASE EnsureInstanceController
    BY <2>1, <2>4 DEF EnsureInstanceController, TypeOK, Manager
  <2>5. CASE AwaitDone \/ CreateInstance
    BY <2>1, <2>5 DEF AwaitDone, CreateInstance, TypeOK, Manager
  <2>6. CASE CreateFails
    BY <2>1, <2>6 DEF CreateFails, TypeOK, Manager
  <2>7. CASE CheckStarted
    BY <2>1, <2>7 DEF CheckStarted, TypeOK, Manager
  <2> QED
    BY <1>2, <1>5, <2>2, <2>3, <2>4, <2>5, <2>6, <2>7 DEF ManagerStep
<1>6. ~(\E j \in Keys : MgrGet(j)) => mgr.pc # "idle" /\ queue \subseteq queue'
  BY DEF ManagerStep, StopAndRemoveController, EnsureInstanceController,
     AwaitDone, CreateInstance, CreateFails, CheckStarted, UpdateWaiting,
     SendEvent, RecordErr
<1> QED
  BY <1>2, <1>3, <1>4, <1>5, <1>6

LEMMA AttendedLifecycle ==
  ASSUME TypeOK, Registry, Settling, Instances, AllAttended,
         NEW i \in Insts, LifecycleStep(i) \/ Trigger(i)
  PROVE  AllAttended'
<1> USE DEF apiVars, mgrVars, SetInst
<1> SUFFICES ASSUME NEW k \in Keys, ~Pending(k)', controllers'[k] # NoInst
             PROVE  Attended(k, controllers[k])'
  BY DEF AllAttended
<1>1. /\ UNCHANGED <<cache, fresh, mgr, controllers, wrk, target>>
      /\ queue \subseteq queue'
      /\ \A j \in Insts \ {i} : inst'[j] = inst[j]
  BY DEF LifecycleStep, StartSynced, StartFails, StartReturns, Notify,
     ReceiveIn, Trigger, TypeOK
<1>2. ~Pending(k) /\ controllers[k] # NoInst
  BY <1>1 DEF Pending
<1>3. PICK c \in Insts : c = controllers[k]
  BY <1>2 DEF TypeOK
<1>4. Attended(k, c) /\ inst[c].key = k /\ ~inst[c].cancelled
  BY <1>2, <1>3, InCharge DEF AllAttended
<1>5. Attended(k, c)'
  <2>0. inst[c] \in Instance
    BY DEF TypeOK
  <2>1. CASE c # i
    BY <1>1, <1>4, <2>1, AttendedKept
  <2>2. CASE c = i /\ StartSynced(c)
    <3>1. inst[c].in /\ inst[c].phase = "starting"
      BY <1>4, <2>2 DEF StartSynced, Attended
    <3>2. inst'[c].phase = "running" /\ inst'[c].in = inst[c].in
      BY <2>0, <2>2 DEF StartSynced, TypeOK, Instance
    <3> QED
      BY <3>1, <3>2 DEF Attended
  <2>3. CASE c = i /\ StartFails(c)
    <3>1. ~inst[c].notified
      BY <2>3 DEF StartFails, Instances
    <3>2. inst'[c].phase = "done" /\ inst'[c].notified = inst[c].notified
      BY <2>0, <2>3 DEF StartFails, Ended, TypeOK, Instance
    <3> QED
      BY <3>1, <3>2 DEF Attended
  <2>4. CASE c = i /\ StartReturns(c)
    BY <1>4, <2>4 DEF StartReturns
  <2>5. CASE c = i /\ Notify(c)
    BY <1>4, <2>5 DEF Notify, Pending
  <2>6. CASE c = i /\ ReceiveIn(c)
    <3>1. inst'[c].phase = "running" /\ inst'[c].queue = TRUE
      BY <2>0, <2>6 DEF ReceiveIn, TypeOK, Instance
    <3> QED
      BY <3>1 DEF Attended
  <2>7. CASE c = i /\ Trigger(c)
    <3>1. inst'[c].phase = "running" /\ inst'[c].queue = TRUE
      BY <2>0, <2>7 DEF Trigger, TypeOK, Instance
    <3> QED
      BY <3>1 DEF Attended
  <2> QED
    BY <2>1, <2>2, <2>3, <2>4, <2>5, <2>6, <2>7 DEF LifecycleStep
<1> QED
  BY <1>1, <1>3, <1>5

\* What an instance takes from its queue is what the cache holds, and it goes
\* on until that is applied and its status written.
LEMMA AttendedReconciler ==
  ASSUME TypeOK, Registry, Settling, AllAttended,
         NEW i \in Insts, ReconcilerStep(i)
  PROVE  AllAttended'
<1> USE DEF apiVars, mgrVars
<1> SUFFICES ASSUME NEW k \in Keys, ~Pending(k)', controllers'[k] # NoInst
             PROVE  Attended(k, controllers[k])'
  BY DEF AllAttended
<1>1. /\ UNCHANGED <<cache, queue, controllers>>
      /\ mgr'.pc = mgr.pc /\ mgr'.key = mgr.key
      /\ fresh' \subseteq fresh
      /\ \A j \in Insts \ {i} : inst'[j] = inst[j] /\ wrk'[j] = wrk[j]
  <2>1. CASE RecGet(i)
    BY <2>1 DEF RecGet, TypeOK
  <2>2. CASE RecRecord(i)
    BY <2>2 DEF RecRecord, StatusUpdate, Outdate, TypeOK, Manager
  <2>3. ASSUME NEW e, NEW again, Returns(i, e, again)
        PROVE  /\ UNCHANGED <<cache, queue, controllers, mgr, fresh, inst>>
               /\ \A j \in Insts \ {i} : wrk'[j] = wrk[j]
    BY <2>3 DEF Returns, TypeOK
  <2> QED
    BY <2>1, <2>2, <2>3 DEF ReconcilerStep, RenderFails, RenderAndApply,
       ApplyFails, WaitForLibrary
<1>2. ~Pending(k) /\ controllers[k] # NoInst
  BY <1>1 DEF Pending
<1>3. PICK c \in Insts : c = controllers[k]
  BY <1>2 DEF TypeOK
<1>4. /\ Attended(k, c) /\ inst[c].key = k /\ ~inst[c].cancelled
      /\ Live(cache[k]) /\ inst[c].configHash = cache[k].cfg
  BY <1>2, <1>3, InCharge DEF AllAttended
<1>5. inst[c] \in Instance /\ wrk[c] \in Worker
  BY DEF TypeOK
<1>6. CASE c # i
  \* Whoever is not in the map applies nothing.
  <2>1. target'[k] = target[k]
    <3>1. UNCHANGED target \/ (Alive(i) /\ \E full : ApplyOf(i, full))
      <4>1. wrk[i].pc # "idle" => inst[i].phase = "running"
        BY DEF Registry, WorkersRun
      <4> QED
        BY <4>1 DEF Alive, ReconcilerStep, RecGet, RenderFails,
           RenderAndApply, ApplyFails, WaitForLibrary, RecRecord, Returns
    <3>2. Alive(i) => inst[i].key # k
      BY <1>3, <1>6 DEF Registry, SingleLiveController
    <3> QED
      BY <3>1, <3>2 DEF ApplyOf, TypeOK
  <2>2. Attended(k, c)'
    BY <1>1, <1>4, <1>6, <2>1, AttendedKept
  <2> QED
    BY <1>1, <1>3, <2>2
<1>7. CASE c = i /\ RecGet(c)
  <2>1. ~ConfigChanged(inst[c], cache[k])
    BY <1>4 DEF ConfigChanged
  <2>2. wrk'[c] = [IdleWorker EXCEPT !.pc = "render", !.obj = cache[k]]
    BY <1>4, <1>7, <2>1 DEF RecGet, TypeOK
  <2>3. wrk'[c].pc = "render" /\ wrk'[c].obj = cache'[k]
    BY <1>1, <2>2 DEF IdleWorker
  <2>4. inst'[c].phase = "running"
    BY <1>5, <1>7 DEF RecGet, TypeOK, Instance
  <2> QED
    BY <1>1, <1>3, <2>3, <2>4 DEF Attended, Serves
<1>8. ASSUME NEW e, NEW again, Returns(c, e, again), wrk[c].pc = "render",
             e = "" /\ ~again /\ ~inst[c].in /\ ~inst[c].queue
               => IsApplied(k, c)'
      PROVE  Attended(k, controllers[k])'
  <2>1. /\ wrk'[c].pc = "record" /\ wrk'[c].err = e
        /\ wrk'[c].requeue = again /\ UNCHANGED inst
    BY <1>8 DEF Returns, IdleWorker, TypeOK
  <2>2. inst[c].phase = "running"
    BY <1>8 DEF Registry, WorkersRun
  <2>3. Attended(k, c)'
    BY <1>8, <2>1, <2>2 DEF Attended, Serves
  <2> QED
    BY <1>1, <1>3, <2>3
<1>9. CASE c = i /\ RenderAndApply(c)
  <2>1. /\ Returns(c, "", FALSE) /\ wrk[c].pc = "render"
        /\ wrk[c].obj.tmpl \notin BadTemplates
        /\ target'[k] = [by |-> c, uid |-> wrk[c].obj.uid,
                         gen |-> wrk[c].obj.gen, full |-> TRUE]
    BY <1>4, <1>9 DEF RenderAndApply, ApplyOf, TypeOK
  <2>2. inst[c].phase = "running"
    BY <2>1 DEF Registry, WorkersRun
  <2>3. ASSUME ~inst[c].in, ~inst[c].queue PROVE IsApplied(k, c)'
    <3>1. wrk[c].obj = cache'[k]
      BY <1>1, <1>4, <2>1, <2>2, <2>3 DEF Attended, Serves
    <3> QED
      BY <2>1, <3>1 DEF IsApplied
  <2> QED
    BY <1>8, <2>1, <2>3
<1>10. CASE c = i /\ RenderFails(c)
  BY <1>8, <1>10 DEF RenderFails
<1>11. CASE c = i /\ (ApplyFails(c) \/ WaitForLibrary(c))
  BY <1>8, <1>11 DEF ApplyFails, WaitForLibrary
<1>12. CASE c = i /\ RecRecord(c)
  <2> DEFINE status == IF wrk[c].err = "" THEN "Ready" ELSE wrk[c].err
             write == cache[k].exists /\ cache[k].status # status
             wrote == write /\ k \in fresh /\ ~inst[c].cancelled
             again == wrk[c].requeue \/ wrk[c].err # "" \/ (write /\ ~wrote)
  <2>1. /\ StatusUpdate(k, status, wrote) /\ wrk[c].pc = "record"
        /\ wrk' = [wrk EXCEPT ![c] = IdleWorker]
        /\ inst' = [inst EXCEPT ![c].queue = (@ \/ again) /\ ~inst[c].cancelled]
        /\ UNCHANGED target
    BY <1>4, <1>12 DEF RecRecord
  <2>2. /\ inst'[c].phase = inst[c].phase /\ inst'[c].in = inst[c].in
        /\ inst'[c].queue = (inst[c].queue \/ again)
        /\ wrk'[c].pc = "idle" /\ inst[c].phase = "running"
    <3>1. inst[c].phase = "running"
      BY <2>1 DEF Registry, WorkersRun
    <3>2. wrk'[c].pc = "idle"
      BY <2>1 DEF IdleWorker, TypeOK
    <3>3. /\ inst'[c].phase = inst[c].phase /\ inst'[c].in = inst[c].in
          /\ inst'[c].queue = ((inst[c].queue \/ again) /\ ~inst[c].cancelled)
      <4> HIDE DEF again
      <4> QED
        BY <1>5, <2>1 DEF TypeOK, Instance
    <3> QED
      BY <1>4, <3>1, <3>2, <3>3
  <2>3. ASSUME ~inst[c].in, ~inst[c].queue, ~again
        PROVE  IsApplied(k, c)' /\ (k \in fresh' => cache'[k].status = "Ready")
    <3>1. wrk[c].err = "" /\ ~wrk[c].requeue
      BY <2>3
    <3>2. IsApplied(k, c)
      BY <1>4, <2>1, <2>2, <2>3, <3>1 DEF Attended, Serves
    <3>3. cache[k].status = "Ready" \/ wrote
      BY <1>4, <2>3, <3>1 DEF Live
    <3>4. wrote => k \notin fresh'
      BY <2>1 DEF StatusUpdate
    <3> QED
      BY <1>1, <2>1, <3>2, <3>3, <3>4 DEF IsApplied
  <2>4. Attended(k, c)'
    <3> HIDE DEF again
    <3> QED
      BY <2>2, <2>3 DEF Attended, Serves
  <2> QED
    BY <1>1, <1>3, <2>4
<1> QED
  BY <1>6, <1>7, <1>9, <1>10, <1>11, <1>12 DEF ReconcilerStep

LEMMA FinishingNext ==
  TypeOK /\ Registry /\ Settling /\ Finishing /\ [Next]_vars => Finishing'
<1> SUFFICES ASSUME TypeOK, Registry, Settling, Finishing, [Next]_vars
             PROVE  Finishing'
  OBVIOUS
<1>1. /\ Caught /\ Instances /\ EndIsQueued /\ AllAttended
  BY DEF Finishing, AllAttended
<1>2. Caught' /\ Instances' /\ EndIsQueued'
  BY <1>1, CaughtNext, InstancesNext, EndIsQueuedNext
<1>3. CASE UNCHANGED vars
  <2> SUFFICES ASSUME NEW k \in Keys, ~Pending(k)', controllers'[k] # NoInst
               PROVE  Attended(k, controllers[k])'
    BY <1>2 DEF Finishing
  <2>1. Attended(k, controllers[k])
    BY <1>1, <1>3 DEF vars, mgrVars, Pending, AllAttended
  <2> QED
    BY <1>3, <2>1 DEF vars, apiVars, mgrVars, instVars, Attended, Serves,
       IsApplied
<1>4. CASE Next
  <2>1. AllAttended'
    BY <1>1, <1>4, AttendedEnvironment, AttendedManager, AttendedLifecycle,
       AttendedReconciler DEF Next
  <2> QED
    BY <1>2, <2>1 DEF Finishing, AllAttended
<1> QED
  BY <1>3, <1>4

LEMMA FinishingSettles ==
  TypeOK /\ Registry /\ Settling /\ Finishing => SettledAtRest
<1> SUFFICES ASSUME TypeOK, Registry, Settling, Finishing, NEW k \in Keys,
                    AtRest(k)
             PROVE  Settled(k)
  BY DEF SettledAtRest
<1>1. cache[k] = server[k] /\ ~Pending(k)
  BY DEF AtRest, Finishing, Caught
<1>2. CASE controllers[k] = NoInst
  BY <1>1, <1>2 DEF Settled, Settling, SettledMapMatchesCache,
     MapMatchesCache
<1>3. CASE controllers[k] # NoInst
  <2>1. PICK c \in Insts : c = controllers[k]
    BY <1>3 DEF TypeOK
  <2>2. /\ Live(server[k]) /\ inst[c].configHash = server[k].cfg
        /\ inst[c].phase # "free"
    BY <1>1, <1>3, <2>1, InCharge
  <2>3. server[k].cfg \notin BadConfigs
    BY <2>2 DEF Finishing, Instances
  <2>4. Attended(k, c) /\ ~Busy(c)
    BY <1>1, <1>3, <2>1 DEF Finishing, AtRest
  <2>5. inst[c].phase = "running"
    <3>1. inst[c].phase \in {"free", "starting", "running", "done"}
      BY DEF TypeOK, Instance
    <3> QED
      BY <2>2, <2>4, <3>1 DEF Attended, Busy
  <2>6. Serves(k, c) /\ wrk[c].pc = "idle"
    BY <2>4, <2>5 DEF Attended, Busy
  <2>7. IsApplied(k, c) /\ cache[k].status = "Ready"
    BY <2>6 DEF Serves, AtRest
  <2> QED
    BY <1>1, <1>3, <2>1, <2>2, <2>3, <2>5, <2>7 DEF Settled, IsApplied
<1> QED
  BY <1>2, <1>3

\* Nothing is forgotten between a change and its status: a ManagedResource
\* that nobody has anything left to do for has, if it is to be served, one
\* running instance of its config, all of its spec applied by that instance,
\* and the status Ready; and otherwise no instance.
THEOREM RestIsSettled == Spec => []SettledAtRest
<1>1. Init => TypeOK /\ Registry /\ Settling /\ Finishing
  BY InitType, RegistryInit, SettlingInit, FinishingInit
<1>2. TypeOK /\ Registry /\ Settling /\ Finishing /\ [Next]_vars
        => (TypeOK /\ Registry /\ Settling /\ Finishing)'
  BY NextType, RegistryNext, SettlingNext, FinishingNext
<1> QED
  BY <1>1, <1>2, FinishingSettles, PTL DEF Spec

=============================================================================
