---------------------- MODULE ControllerManagerDelivery ----------------------
(***************************************************************************)
(* Proof that ControllerManager implements OrderedDelivery, and that an    *)
(* instance renders only specs of the config it was built for, except      *)
(* those of a recreated ManagedResource.                                   *)
(*                                                                         *)
(* Two layers of invariants on top of ControllerManagerProofs: Versions    *)
(* orders the copies of a ManagedResource (the API server's, the cache's,  *)
(* the manager's, an instance's) and lets two copies of one version differ *)
(* only in their status; Progress orders what was delivered.               *)
(***************************************************************************)
EXTENDS ControllerManagerProofs

------------------------------------------------------------------------------
(* The inductive invariants *)

\* Two copies of one version of a ManagedResource have the same config.
Agree(a, b) == a.exists /\ b.exists /\ a.uid = b.uid /\ a.gen = b.gen
                 => a.cfg = b.cfg

\* The spec an instance has verified its config hash against.
Verified(r) == [exists |-> TRUE, uid |-> r.uid, gen |-> r.configGeneration,
                cfg |-> r.configHash]

\* o is a copy of key k's object that was read from the cache.
CopyOf(o, k) == /\ Delivery!NotOlder(o, cache[k])
                /\ Agree(o, cache[k])
                /\ Agree(o, server[k])

Versions ==
  /\ \A k \in Keys : /\ Delivery!NotOlder(cache[k], server[k])
                     /\ Agree(cache[k], server[k])
  /\ mgr.pc # "idle" => CopyOf(mgr.obj, mgr.key)
  /\ \A i \in Insts : inst[i].phase # "free" =>
       CopyOf(Verified(inst[i]), inst[i].key)
  /\ RendersOwnConfig

Progress ==
  /\ \A k \in Keys : Delivery!NotOlder(target[k], cache[k])
  /\ \A i \in Insts : wrk[i].pc = "render" =>
       /\ Delivery!NotOlder(wrk[i].obj, cache[inst[i].key])
       /\ Alive(i) => Delivery!NotOlder(target[inst[i].key], wrk[i].obj)

------------------------------------------------------------------------------
(* The order of versions *)

LEMMA NotOlderTransitive ==
  ASSUME NEW a, NEW b, NEW c,
         a.uid \in Nat, b.uid \in Nat, c.uid \in Nat,
         a.gen \in Nat, b.gen \in Nat, c.gen \in Nat,
         Delivery!NotOlder(a, b), Delivery!NotOlder(b, c)
  PROVE  Delivery!NotOlder(a, c)
BY DEF Delivery!NotOlder

\* What a write may turn the object s into: a newer version, the same version
\* with another status, or nothing.
Succeeds(o, s) ==
  /\ Delivery!NotOlder(s, o)
  /\ o.exists /\ o.uid = s.uid /\ o.gen = s.gen => s.exists /\ o.cfg = s.cfg

LEMMA CopySurvivesWrite ==
  ASSUME NEW o, NEW c, NEW s, NEW t,
         o.uid \in Nat, c.uid \in Nat, s.uid \in Nat, t.uid \in Nat,
         o.gen \in Nat, c.gen \in Nat, s.gen \in Nat, t.gen \in Nat,
         Delivery!NotOlder(o, c), Delivery!NotOlder(c, s), Agree(o, s),
         Succeeds(t, s)
  PROVE  Delivery!NotOlder(c, t) /\ Agree(o, t)
BY DEF Delivery!NotOlder, Agree, Succeeds

LEMMA NextIncarnationSucceeds ==
  ASSUME NEW o, NEW s, s.uid \in Nat, o.uid = s.uid + 1
  PROVE  Succeeds(o, s)
BY DEF Succeeds, Delivery!NotOlder

LEMMA UserWriteSucceeds ==
  ASSUME TypeOK, UserStep
  PROVE  \E k \in Keys, o \in MR : UserWrite(k, o) /\ Succeeds(o, server[k])
<1> PICK k \in Keys : UserCreate(k) \/ UserUpdate(k) \/ UserDelete(k)
  BY DEF UserStep
<1>1. /\ server[k] \in MR
      /\ server[k].uid + 1 \in Nat /\ server[k].gen + 1 \in Nat
  BY DEF TypeOK, MR
<1>2. CASE UserCreate(k)
  <2> PICK c \in Configs, t \in Templates :
        UserWrite(k, [exists |-> TRUE, deleting |-> FALSE,
                      uid |-> server[k].uid + 1, gen |-> 1, cfg |-> c,
                      tmpl |-> t, status |-> ""])
    BY <1>2 DEF UserCreate
  <2> DEFINE o == [exists |-> TRUE, deleting |-> FALSE,
                   uid |-> server[k].uid + 1, gen |-> 1, cfg |-> c,
                   tmpl |-> t, status |-> ""]
  <2>1. o \in MR
    BY <1>1 DEF MR, Statuses
  <2>2. Succeeds(o, server[k])
    <3>1. o.uid = server[k].uid + 1 /\ server[k].uid \in Nat
      BY <1>1 DEF MR
    <3> QED
      BY <3>1, NextIncarnationSucceeds
  <2> QED
    BY <2>1, <2>2
<1>3. CASE UserUpdate(k)
  <2> PICK c \in Configs, t \in Templates :
        UserWrite(k, [server[k] EXCEPT !.cfg = c, !.tmpl = t, !.gen = @ + 1])
    BY <1>3 DEF UserUpdate
  <2> DEFINE o == [server[k] EXCEPT !.cfg = c, !.tmpl = t, !.gen = @ + 1]
  <2>1. o \in MR
    BY <1>1 DEF MR
  <2>2. o.uid = server[k].uid /\ o.gen = server[k].gen + 1
    BY <1>1 DEF MR
  <2>3. Succeeds(o, server[k])
    <3> HIDE DEF o
    <3> QED
      BY <1>1, <2>2 DEF Succeeds, Delivery!NotOlder, MR
  <2> QED
    BY <2>1, <2>3
<1>4. CASE UserDelete(k)
  <2> DEFINE gone == [NoObject EXCEPT !.uid = server[k].uid,
                                      !.gen = server[k].gen]
             marked == [server[k] EXCEPT !.deleting = TRUE, !.gen = @ + 1]
  <2>1. gone \in MR /\ marked \in MR
    BY <1>1, Zeros DEF MR
  <2>2. /\ gone.exists = FALSE /\ gone.uid = server[k].uid
        /\ gone.gen = server[k].gen
        /\ marked.uid = server[k].uid /\ marked.gen = server[k].gen + 1
    BY <1>1 DEF MR, NoObject
  <2>3. Succeeds(gone, server[k]) /\ Succeeds(marked, server[k])
    <3> HIDE DEF gone, marked
    <3> QED
      BY <1>1, <2>2 DEF Succeeds, Delivery!NotOlder, MR
  <2> QED
    BY <1>4, <2>1, <2>3 DEF UserDelete
<1> QED
  BY <1>2, <1>3, <1>4

LEMMA StatusUpdateKeepsVersion ==
  ASSUME TypeOK, NEW k \in Keys, NEW s, NEW c, StatusUpdate(k, s, c)
  PROVE  \A j \in Keys : /\ server'[j].exists = server[j].exists
                         /\ server'[j].uid = server[j].uid
                         /\ server'[j].gen = server[j].gen
                         /\ server'[j].cfg = server[j].cfg
<1>1. CASE UNCHANGED server
  BY <1>1
<1>2. CASE server' = [server EXCEPT ![k].status = s]
  <2>1. server[k] \in MR
    BY DEF TypeOK
  <2> QED
    BY <1>2, <2>1 DEF TypeOK, MR
<1> QED
  BY <1>1, <1>2 DEF StatusUpdate

------------------------------------------------------------------------------
(* Copies of one version have one config *)

LEMMA VersionsInit == Init => Versions
<1> SUFFICES ASSUME Init PROVE Versions
  OBVIOUS
<1>1. /\ \A i \in Insts : inst[i].phase = "free" /\ wrk[i].pc = "idle"
      /\ mgr.pc = "idle" /\ cache = server
  BY DEF Init, FreeInstance, IdleManager, IdleWorker
<1>2. server \in [Keys -> MR]
  BY InitType DEF TypeOK
<1>3. \A k \in Keys : Delivery!NotOlder(server[k], server[k])
  BY <1>2 DEF Delivery!NotOlder, MR
<1> QED
  BY <1>1, <1>3 DEF Versions, Agree, RendersOwnConfig

\* The copies kept by a step: of the manager and of the instances.
KeepsCopies ==
  /\ mgr'.pc # "idle" => /\ mgr.pc # "idle" /\ mgr'.key = mgr.key
                         /\ mgr'.obj = mgr.obj
  /\ \A i \in Insts : inst'[i].phase # "free" =>
       /\ inst[i].phase # "free" /\ inst'[i].key = inst[i].key
       /\ inst'[i].uid = inst[i].uid
       /\ inst'[i].configGeneration = inst[i].configGeneration
       /\ inst'[i].configHash = inst[i].configHash
  /\ \A i \in Insts : wrk'[i].pc = "render" =>
       /\ wrk[i].pc = "render" /\ wrk'[i].obj = wrk[i].obj
       /\ inst'[i].uid = inst[i].uid
       /\ inst'[i].configHash = inst[i].configHash

\* A step that keeps the copies and writes at most newer versions.
LEMMA VersionsKept ==
  ASSUME TypeOK, TypeOK', Versions, UNCHANGED cache, KeepsCopies,
         \A k \in Keys : Succeeds(server'[k], server[k])
  PROVE  Versions'
<1>1. \A k \in Keys : /\ server[k].uid \in Nat /\ server[k].gen \in Nat
                      /\ server'[k].uid \in Nat /\ server'[k].gen \in Nat
                      /\ cache[k].uid \in Nat /\ cache[k].gen \in Nat
  BY DEF TypeOK, MR
<1>2. ASSUME NEW k \in Keys, NEW o, o.uid \in Nat, o.gen \in Nat, CopyOf(o, k)
      PROVE  /\ Delivery!NotOlder(o, cache'[k]) /\ Agree(o, cache'[k])
             /\ Agree(o, server'[k])
  <2>1. Delivery!NotOlder(cache[k], server[k]) /\ Succeeds(server'[k], server[k])
    BY DEF Versions
  <2> QED
    BY <1>1, <1>2, <2>1, CopySurvivesWrite DEF CopyOf
<1>3. ASSUME NEW k \in Keys
      PROVE  Delivery!NotOlder(cache'[k], server'[k]) /\ Agree(cache'[k], server'[k])
  <2>1. Delivery!NotOlder(cache[k], cache[k])
    BY <1>1 DEF Delivery!NotOlder
  <2> QED
    BY <1>1, <2>1, CopySurvivesWrite DEF Versions
<1>4. mgr'.pc # "idle" => CopyOf(mgr.obj, mgr.key)' 
  <2>1. mgr.key \in Keys /\ mgr.obj.uid \in Nat /\ mgr.obj.gen \in Nat
    BY DEF TypeOK, Manager, MR
  <2> QED
    BY <1>2, <2>1 DEF Versions, KeepsCopies, CopyOf
<1>5. ASSUME NEW i \in Insts, inst'[i].phase # "free"
      PROVE  CopyOf(Verified(inst[i]), inst[i].key)'
  <2>1. /\ inst[i].key \in Keys /\ Verified(inst[i]).uid \in Nat
        /\ Verified(inst[i]).gen \in Nat
    BY DEF TypeOK, Instance, Verified
  <2>2. /\ Verified(inst[i])' = Verified(inst[i]) /\ inst'[i].key = inst[i].key
        /\ CopyOf(Verified(inst[i]), inst[i].key)
    BY <1>5 DEF Versions, KeepsCopies, Verified
  <2> QED
    BY <1>2, <2>1, <2>2 DEF CopyOf
<1>6. RendersOwnConfig'
  BY DEF Versions, RendersOwnConfig, KeepsCopies
<1> QED
  BY <1>3, <1>4, <1>5, <1>6 DEF Versions

LEMMA SameVersionSucceeds ==
  ASSUME TypeOK, NEW k \in Keys, NEW o, o.exists = server[k].exists,
         o.uid = server[k].uid, o.gen = server[k].gen, o.cfg = server[k].cfg
  PROVE  Succeeds(o, server[k])
BY DEF Succeeds, Delivery!NotOlder, TypeOK, MR

LEMMA VersionsCacheDeliver ==
  ASSUME TypeOK, Versions, NEW k \in Keys, CacheDeliver(k)
  PROVE  Versions'
<1>1. \A j \in Keys : /\ server[j].uid \in Nat /\ server[j].gen \in Nat
                      /\ cache[j].uid \in Nat /\ cache[j].gen \in Nat
  BY DEF TypeOK, MR
<1>2. /\ UNCHANGED <<server, mgr, inst, wrk>>
      /\ \A j \in Keys : cache'[j] = IF j = k THEN server[j] ELSE cache[j]
  BY DEF CacheDeliver, instVars, TypeOK
<1>3. ASSUME NEW j \in Keys, NEW o, o.uid \in Nat, o.gen \in Nat, CopyOf(o, j)
      PROVE  /\ Delivery!NotOlder(o, cache'[j]) /\ Agree(o, cache'[j])
             /\ Agree(o, server'[j])
  BY <1>1, <1>2, <1>3, NotOlderTransitive DEF Versions, CopyOf
<1>4. ASSUME NEW j \in Keys
      PROVE  Delivery!NotOlder(cache'[j], server'[j]) /\ Agree(cache'[j], server'[j])
  BY <1>1, <1>2 DEF Versions, Agree, Delivery!NotOlder
<1>5. mgr.key \in Keys /\ mgr.obj.uid \in Nat /\ mgr.obj.gen \in Nat
  BY DEF TypeOK, Manager, MR
<1>6. \A i \in Insts : /\ inst[i].key \in Keys /\ Verified(inst[i]).uid \in Nat
                       /\ Verified(inst[i]).gen \in Nat
  BY DEF TypeOK, Instance, Verified
<1>7. mgr'.pc # "idle" => CopyOf(mgr.obj, mgr.key)'
  BY <1>2, <1>3, <1>5 DEF Versions, CopyOf
<1>8. \A i \in Insts : inst'[i].phase # "free" =>
        CopyOf(Verified(inst[i]), inst[i].key)'
  BY <1>2, <1>3, <1>6 DEF Versions, CopyOf, Verified
<1>9. RendersOwnConfig'
  BY <1>2 DEF Versions, RendersOwnConfig
<1> QED
  BY <1>4, <1>7, <1>8, <1>9 DEF Versions

\* What is in the cache is a copy of itself.
LEMMA CachedIsCopy ==
  ASSUME TypeOK, Versions, NEW k \in Keys
  PROVE  CopyOf(cache[k], k)
BY DEF TypeOK, MR, Versions, CopyOf, Agree, Delivery!NotOlder

LEMMA VersionsManager ==
  ASSUME TypeOK, TypeOK', Registry, Settling, Versions, ManagerStep
  PROVE  Versions'
<1> USE DEF apiVars, instVars
<1>1. \A k \in Keys : Succeeds(server[k], server[k])
  BY SameVersionSucceeds
<1>2. mgr.key \in Keys
  BY DEF TypeOK, Manager
<1>3. ASSUME NEW k \in Keys, MgrGet(k) PROVE Versions'
  <2>1. /\ mgr'.key = k /\ mgr'.obj = cache[k]
        /\ UNCHANGED <<server, cache, inst, wrk>>
    BY <1>3 DEF MgrGet
  <2>2. CopyOf(mgr.obj, mgr.key)'
    BY <2>1, CachedIsCopy DEF CopyOf
  <2> QED
    BY <2>1, <2>2 DEF Versions, CopyOf, RendersOwnConfig
<1>4. CASE StopAndRemoveController
  <2>1. KeepsCopies
    <3>1. \A i \in Insts : /\ inst'[i].key = inst[i].key
                           /\ inst'[i].phase = inst[i].phase
                           /\ inst'[i].uid = inst[i].uid
                           /\ inst'[i].configGeneration = inst[i].configGeneration
                           /\ inst'[i].configHash = inst[i].configHash
      BY <1>4 DEF StopAndRemoveController, Stop, TypeOK, Instance
    <3> QED
      BY <1>4, <3>1 DEF StopAndRemoveController, KeepsCopies, IdleManager
  <2> QED
    BY <1>1, <1>4, <2>1, VersionsKept DEF StopAndRemoveController
<1>5. CASE EnsureInstanceController
  <2>1. \A i \in Insts : /\ inst'[i].key = inst[i].key
                         /\ inst'[i].phase = inst[i].phase
                         /\ inst'[i].uid = inst[i].uid
                         /\ inst'[i].configGeneration = inst[i].configGeneration
                         /\ inst'[i].configHash = inst[i].configHash
    <3>1. CASE UNCHANGED inst
      BY <3>1
    <3>2. CASE inst' = [inst EXCEPT ![controllers[mgr.key]] = Stop(@)]
      BY <3>2 DEF Stop, TypeOK, Instance
    <3> QED
      BY <1>5, <3>1, <3>2 DEF EnsureInstanceController
  <2>2. mgr.pc # "idle" /\ mgr'.key = mgr.key /\ mgr'.obj = mgr.obj
    BY <1>5 DEF EnsureInstanceController, TypeOK, Manager
  <2> QED
    BY <1>1, <1>5, <2>1, <2>2, VersionsKept
    DEF EnsureInstanceController, KeepsCopies
<1>6. CASE AwaitDone \/ CreateFails \/ CheckStarted
  <2>1. /\ mgr.pc # "idle" /\ mgr'.key = mgr.key /\ mgr'.obj = mgr.obj
        /\ UNCHANGED <<server, cache, inst, wrk>>
    BY <1>6 DEF AwaitDone, CreateFails, CheckStarted, TypeOK, Manager
  <2> QED
    BY <1>1, <2>1, VersionsKept DEF KeepsCopies
<1>7. CASE CreateInstance
  <2> PICK i \in Insts :
        /\ inst[i].phase = "free"
        /\ inst' = [inst EXCEPT ![i] = NewInstance(mgr.key, mgr.obj)]
        /\ mgr' = [mgr EXCEPT !.pc = "check", !.inst = i]
    BY <1>7 DEF CreateInstance
  <2>1. /\ mgr'.key = mgr.key /\ mgr'.obj = mgr.obj /\ mgr.pc = "create"
        /\ UNCHANGED <<server, cache, wrk>>
    BY <1>7 DEF CreateInstance, TypeOK, Manager
  <2>2. /\ inst'[i].key = mgr.key /\ inst'[i].uid = mgr.obj.uid
        /\ inst'[i].configGeneration = mgr.obj.gen
        /\ inst'[i].configHash = mgr.obj.cfg
        /\ \A j \in Insts \ {i} : inst'[j] = inst[j]
    BY DEF NewInstance, FreeInstance, TypeOK
  <2>3. CopyOf(mgr.obj, mgr.key) /\ mgr.obj.exists
    BY <2>1 DEF Versions, Settling, Live
  <2>4. CopyOf(Verified(inst[i]), inst[i].key)'
    BY <2>1, <2>2, <2>3 DEF CopyOf, Verified, Agree, Delivery!NotOlder
  <2>5. \A j \in Insts \ {i} : inst'[j].phase # "free" =>
          CopyOf(Verified(inst[j]), inst[j].key)'
    BY <2>1, <2>2 DEF Versions, CopyOf, Verified
  <2>6. wrk[i].pc = "idle"
    BY DEF Registry, WorkersRun
  <2>7. RendersOwnConfig'
    BY <2>1, <2>2, <2>6 DEF Versions, RendersOwnConfig
  <2> QED
    BY <2>1, <2>4, <2>5, <2>7 DEF Versions, CopyOf
<1>8. CASE UpdateWaiting \/ RecordErr
  <2>1. \A k \in Keys : Succeeds(server'[k], server[k])
    BY <1>2, <1>8, StatusUpdateKeepsVersion, SameVersionSucceeds
    DEF UpdateWaiting, RecordErr
  <2>2. mgr'.pc # "idle" =>
          mgr.pc # "idle" /\ mgr'.key = mgr.key /\ mgr'.obj = mgr.obj
    <3>1. CASE UpdateWaiting
      BY <3>1 DEF UpdateWaiting, IdleManager, TypeOK, Manager
    <3>2. CASE RecordErr
      BY <3>2 DEF RecordErr, IdleManager
    <3> QED
      BY <1>8, <3>1, <3>2
  <2>3. UNCHANGED <<cache, inst, wrk>>
    BY <1>8 DEF UpdateWaiting, RecordErr
  <2> QED
    BY <2>1, <2>2, <2>3, VersionsKept DEF KeepsCopies
<1>9. CASE SendEvent
  <2>1. \A i \in Insts : /\ inst'[i].key = inst[i].key
                         /\ inst'[i].phase = inst[i].phase
                         /\ inst'[i].uid = inst[i].uid
                         /\ inst'[i].configGeneration = inst[i].configGeneration
                         /\ inst'[i].configHash = inst[i].configHash
    BY <1>9 DEF SendEvent, TypeOK, Instance
  <2> QED
    BY <1>1, <1>9, <2>1, VersionsKept DEF SendEvent, KeepsCopies, IdleManager
<1> QED
  BY <1>3, <1>4, <1>5, <1>6, <1>7, <1>8, <1>9 DEF ManagerStep

LEMMA VersionsEnvironment ==
  ASSUME TypeOK, TypeOK', Versions, UserStep
  PROVE  Versions'
<1> PICK k \in Keys, o \in MR : UserWrite(k, o) /\ Succeeds(o, server[k])
  BY UserWriteSucceeds
<1>1. \A j \in Keys : Succeeds(server'[j], server[j])
  BY SameVersionSucceeds DEF UserWrite, TypeOK
<1>2. mgr'.pc = mgr.pc /\ mgr'.key = mgr.key /\ mgr'.obj = mgr.obj
  BY DEF UserWrite, Outdate, TypeOK, Manager
<1> QED
  BY <1>1, <1>2, VersionsKept DEF UserWrite, KeepsCopies, instVars

LEMMA VersionsLifecycle ==
  ASSUME TypeOK, TypeOK', Versions, NEW i \in Insts,
         LifecycleStep(i) \/ Trigger(i)
  PROVE  Versions'
<1> USE DEF apiVars, mgrVars
<1>1. \A k \in Keys : Succeeds(server[k], server[k])
  BY SameVersionSucceeds
<1> DEFINE Kept(r) == /\ r.key = inst[i].key /\ r.uid = inst[i].uid
                      /\ r.configGeneration = inst[i].configGeneration
                      /\ r.configHash = inst[i].configHash
<1>2. inst[i] \in Instance
  BY DEF TypeOK
<1>3. ASSUME inst[i].phase # "free",
             NEW r, Kept(r), inst' = [inst EXCEPT ![i] = r],
             UNCHANGED <<server, cache, mgr, wrk>>
      PROVE  Versions'
  BY <1>1, <1>3, VersionsKept DEF KeepsCopies, TypeOK
<1>4. CASE Notify(i)
  <2>1. /\ inst[i].phase # "free" /\ UNCHANGED <<server, cache, mgr, wrk>>
        /\ inst' = [inst EXCEPT ![i] = [inst[i] EXCEPT !.notified = TRUE]]
    BY <1>2, <1>4 DEF Notify, TypeOK, Instance
  <2>2. Kept([inst[i] EXCEPT !.notified = TRUE])
    BY <1>2 DEF Instance
  <2> QED
    BY <1>3, <2>1, <2>2
<1>5. CASE StartSynced(i)
  BY <1>2, <1>3, <1>5 DEF StartSynced, SetInst, Instance
<1>6. CASE StartFails(i) \/ StartReturns(i)
  BY <1>2, <1>3, <1>6 DEF StartFails, StartReturns, Ended, SetInst, Instance
<1>7. CASE ReceiveIn(i)
  BY <1>2, <1>3, <1>7 DEF ReceiveIn, SetInst, Instance
<1>8. CASE Trigger(i)
  BY <1>2, <1>3, <1>8 DEF Trigger, SetInst, Instance
<1> QED
  BY <1>4, <1>5, <1>6, <1>7, <1>8 DEF LifecycleStep

\* The heart of the matter: what RecGet lets through has the config of the
\* instance, or is of another incarnation than the one it has verified.
LEMMA VersionsReconciler ==
  ASSUME TypeOK, TypeOK', Versions, NEW i \in Insts, ReconcilerStep(i)
  PROVE  Versions'
<1> USE DEF apiVars, mgrVars
<1>1. \A k \in Keys : Succeeds(server[k], server[k])
  BY SameVersionSucceeds
<1>2. inst[i] \in Instance /\ inst[i].key \in Keys
  BY DEF TypeOK, Instance
<1>3. CASE RecGet(i)
  <2> DEFINE r == inst[i]
             o == cache[r.key]
             skip == ~Live(o) \/ ConfigChanged(r, o)
             checked == ~skip /\ r.configGeneration # o.gen
  <2>1. /\ r.phase = "running" /\ UNCHANGED <<server, cache, mgr>>
        /\ \A j \in Insts \ {i} : inst'[j] = inst[j] /\ wrk'[j] = wrk[j]
    BY <1>3 DEF RecGet, TypeOK
  <2>2. /\ inst'[i].key = r.key /\ inst'[i].configHash = r.configHash
        /\ checked => inst'[i].configGeneration = o.gen /\ inst'[i].uid = o.uid
        /\ ~checked => /\ inst'[i].configGeneration = r.configGeneration
                       /\ inst'[i].uid = r.uid
    BY <1>2, <1>3 DEF RecGet, TypeOK, Instance
  <2>3. wrk'[i].pc = "render" => ~skip /\ wrk'[i].obj = o
    BY <1>3 DEF RecGet, IdleWorker, TypeOK
  <2>4. CopyOf(o, r.key) /\ CopyOf(Verified(r), r.key)
    BY <1>2, <2>1, CachedIsCopy DEF Versions
  <2>5. CopyOf(Verified(inst[i]), inst[i].key)'
    BY <2>1, <2>2, <2>4 DEF CopyOf, Verified, Agree, ConfigChanged, Live,
       Delivery!NotOlder
  <2>6. wrk'[i].pc = "render" /\ wrk'[i].obj.uid = inst'[i].uid
          => wrk'[i].obj.cfg = inst'[i].configHash
    BY <2>2, <2>3, <2>4 DEF CopyOf, Verified, Agree, ConfigChanged, Live
  <2>7. RendersOwnConfig'
    BY <2>1, <2>6 DEF Versions, RendersOwnConfig
  <2>8. \A j \in Insts \ {i} : inst'[j].phase # "free" =>
          CopyOf(Verified(inst[j]), inst[j].key)'
    BY <2>1 DEF Versions, CopyOf, Verified
  <2> QED
    BY <2>1, <2>5, <2>7, <2>8 DEF Versions, CopyOf
<1>4. ASSUME NEW e, NEW again, Returns(i, e, again) PROVE Versions'
  <2>1. \A j \in Insts : wrk'[j].pc = "render" => wrk'[j] = wrk[j]
    BY <1>4 DEF Returns, IdleWorker, TypeOK
  <2> QED
    BY <1>1, <1>4, <2>1, VersionsKept DEF Returns, KeepsCopies
<1>5. CASE RecRecord(i)
  <2>1. \A k \in Keys : Succeeds(server'[k], server[k])
    BY <1>2, <1>5, StatusUpdateKeepsVersion, SameVersionSucceeds DEF RecRecord
  <2>2. \A j \in Insts : /\ inst'[j].key = inst[j].key
                         /\ inst'[j].phase = inst[j].phase
                         /\ inst'[j].uid = inst[j].uid
                         /\ inst'[j].configGeneration = inst[j].configGeneration
                         /\ inst'[j].configHash = inst[j].configHash
    <3>1. PICK b : inst' = [inst EXCEPT ![i].queue = b]
      BY <1>5 DEF RecRecord
    <3> QED
      BY <1>2, <3>1 DEF TypeOK, Instance
  <2>3. mgr'.pc = mgr.pc /\ mgr'.key = mgr.key /\ mgr'.obj = mgr.obj
    BY <1>5 DEF RecRecord, Outdate, TypeOK, Manager
  <2>4. \A j \in Insts : wrk'[j].pc = "render" => wrk'[j] = wrk[j]
    BY <1>5 DEF RecRecord, IdleWorker, TypeOK
  <2> QED
    BY <1>5, <2>1, <2>2, <2>3, <2>4, VersionsKept DEF RecRecord, KeepsCopies
<1> QED
  BY <1>3, <1>4, <1>5 DEF ReconcilerStep, RenderFails, RenderAndApply,
     ApplyFails, WaitForLibrary

LEMMA VersionsNext ==
  TypeOK /\ TypeOK' /\ Registry /\ Settling /\ Versions /\ [Next]_vars
    => Versions'
<1> SUFFICES ASSUME TypeOK, TypeOK', Registry, Settling, Versions, [Next]_vars
             PROVE  Versions'
  OBVIOUS
<1>1. CASE UNCHANGED vars
  BY <1>1, SameVersionSucceeds, VersionsKept
  DEF vars, apiVars, mgrVars, instVars, KeepsCopies
<1> QED
  BY <1>1, VersionsEnvironment, VersionsCacheDeliver, VersionsManager,
     VersionsLifecycle, VersionsReconciler DEF Next

\* An instance that renders a spec of the incarnation it has verified renders
\* one with the triggers, context and service account it was built for.
THEOREM RendersItsConfig == Spec => []RendersOwnConfig
<1> DEFINE IInv == TypeOK /\ Registry /\ Settling /\ Versions
<1>1. Init => IInv
  BY InitType, RegistryInit, SettlingInit, VersionsInit
<1>2. IInv /\ [Next]_vars => IInv'
  BY NextType, RegistryNext, SettlingNext, VersionsNext
<1>3. IInv => RendersOwnConfig
  BY DEF Versions
<1> QED
  BY <1>1, <1>2, <1>3, PTL DEF Spec

------------------------------------------------------------------------------
(* What was delivered grows with what the cache holds *)

LEMMA ProgressInit == Init => Progress
<1> SUFFICES ASSUME Init PROVE Progress
  OBVIOUS
<1>1. cache \in [Keys -> MR]
  BY InitType DEF TypeOK
<1>2. \A k \in Keys : target[k].uid = 0 /\ target[k].gen = 0
  BY DEF Init, NothingApplied
<1>3. \A k \in Keys : Delivery!NotOlder(target[k], cache[k])
  BY <1>1, <1>2 DEF Delivery!NotOlder, MR
<1> QED
  BY <1>3 DEF Progress, Init, IdleWorker

\* A step that delivers nothing and starts no rendering.
LEMMA ProgressKept ==
  ASSUME TypeOK, Progress, UNCHANGED <<cache, target>>,
         \A i \in Insts : wrk'[i].pc = "render" =>
           /\ wrk[i].pc = "render" /\ wrk'[i].obj = wrk[i].obj
           /\ inst'[i].key = inst[i].key
           /\ Alive(i)' => Alive(i)
  PROVE  Progress'
BY DEF Progress

LEMMA ProgressCacheDeliver ==
  ASSUME TypeOK, Versions, Progress, NEW k \in Keys, CacheDeliver(k)
  PROVE  Progress'
<1>1. \A j \in Keys : /\ server[j].uid \in Nat /\ server[j].gen \in Nat
                      /\ cache[j].uid \in Nat /\ cache[j].gen \in Nat
                      /\ target[j].uid \in Nat /\ target[j].gen \in Nat
  BY DEF TypeOK, MR, Applied
<1>2. \A i \in Insts : /\ wrk[i].obj.uid \in Nat /\ wrk[i].obj.gen \in Nat
                       /\ inst[i].key \in Keys
  BY DEF TypeOK, Worker, MR, Instance
<1>3. /\ UNCHANGED <<inst, wrk, target>>
      /\ \A j \in Keys : cache'[j] = IF j = k THEN server[j] ELSE cache[j]
  BY DEF CacheDeliver, instVars, TypeOK
<1>4. \A j \in Keys : Delivery!NotOlder(target[j], cache'[j])
  BY <1>1, <1>3, NotOlderTransitive DEF Progress, Versions
<1>5. \A i \in Insts : wrk[i].pc = "render" =>
        Delivery!NotOlder(wrk[i].obj, cache'[inst[i].key])
  BY <1>1, <1>2, <1>3, NotOlderTransitive DEF Progress, Versions
<1> QED
  BY <1>3, <1>4, <1>5 DEF Progress, Alive

\* An apply is of a running instance that is not cancelled, which is the one
\* in the map; no other one that could still apply for the key is rendering.
LEMMA ProgressApply ==
  ASSUME TypeOK, Registry, Progress, NEW i \in Insts, NEW full \in BOOLEAN,
         NEW e, NEW again, wrk[i].pc = "render", ~inst[i].cancelled,
         ApplyOf(i, full), Returns(i, e, again)
  PROVE  Progress'
<1> DEFINE k == inst[i].key
<1>1. k \in Keys /\ Alive(i)
  BY DEF TypeOK, Instance, Registry, WorkersRun, Alive
<1>2. /\ UNCHANGED <<cache, inst>>
      /\ target'[k].uid = wrk[i].obj.uid /\ target'[k].gen = wrk[i].obj.gen
      /\ \A j \in Keys \ {k} : target'[j] = target[j]
      /\ wrk'[i].pc = "record"
      /\ \A j \in Insts \ {i} : wrk'[j] = wrk[j]
  BY <1>1 DEF ApplyOf, Returns, IdleWorker, apiVars, TypeOK
<1>3. \A j \in Keys : Delivery!NotOlder(target'[j], cache'[j])
  BY <1>1, <1>2 DEF Progress, Delivery!NotOlder
<1>4. ASSUME NEW j \in Insts, wrk'[j].pc = "render"
      PROVE  /\ Delivery!NotOlder(wrk'[j].obj, cache'[inst'[j].key])
             /\ Alive(j)' => Delivery!NotOlder(target'[inst'[j].key], wrk'[j].obj)
  <2>1. j # i /\ wrk'[j] = wrk[j] /\ wrk[j].pc = "render"
    BY <1>2, <1>4
  <2>2. Alive(j) => inst[j].key # k
    BY <1>1, <2>1 DEF Registry, SingleLiveController
  <2>3. inst[j].key \in Keys /\ (Alive(j)' => Alive(j))
    BY <1>2 DEF TypeOK, Instance, Alive
  <2> QED
    BY <1>2, <2>1, <2>2, <2>3 DEF Progress
<1> QED
  BY <1>3, <1>4 DEF Progress

LEMMA ProgressInstances ==
  ASSUME TypeOK, Registry, Versions, Progress, NEW i \in Insts,
         LifecycleStep(i) \/ Trigger(i) \/ ReconcilerStep(i)
  PROVE  Progress'
<1> USE DEF apiVars, mgrVars
<1>1. inst[i] \in Instance
  BY DEF TypeOK
<1>2. CASE LifecycleStep(i) \/ Trigger(i)
  <2>1. ASSUME NEW r, inst' = [inst EXCEPT ![i] = r], r.key = inst[i].key,
               r.cancelled = inst[i].cancelled,
               r.phase \in {"starting", "running"} =>
                 inst[i].phase \in {"starting", "running"},
               UNCHANGED <<cache, wrk, target>>
        PROVE  Progress'
    BY <2>1, ProgressKept DEF Alive, TypeOK
  <2>2. CASE Notify(i)
    <3> DEFINE told == [inst[i] EXCEPT !.notified = TRUE]
    <3>1. inst' = [inst EXCEPT ![i] = told]
      BY <1>1, <2>2 DEF Notify, TypeOK
    <3>2. /\ told.key = inst[i].key /\ told.cancelled = inst[i].cancelled
          /\ told.phase = inst[i].phase
      BY <1>1 DEF Instance
    <3>3. UNCHANGED <<cache, wrk, target>>
      BY <2>2 DEF Notify
    <3> HIDE DEF told
    <3> QED
      BY <2>1, <3>1, <3>2, <3>3
  <2>3. CASE StartSynced(i)
    BY <1>1, <2>1, <2>3 DEF StartSynced, SetInst, Instance
  <2>4. CASE StartFails(i) \/ StartReturns(i)
    <3>1. /\ Ended(inst[i]).key = inst[i].key
          /\ Ended(inst[i]).cancelled = inst[i].cancelled
          /\ Ended(inst[i]).phase = "done"
      BY <1>1 DEF Ended, Instance
    <3>2. /\ inst' = [inst EXCEPT ![i] = Ended(inst[i])]
          /\ UNCHANGED <<cache, wrk, target>>
      BY <2>4 DEF StartFails, StartReturns, SetInst
    <3> QED
      BY <2>1, <3>1, <3>2
  <2>5. CASE ReceiveIn(i)
    BY <1>1, <2>1, <2>5 DEF ReceiveIn, SetInst, Instance
  <2>6. CASE Trigger(i)
    BY <1>1, <2>1, <2>6 DEF Trigger, SetInst, Instance
  <2> QED
    BY <1>2, <2>2, <2>3, <2>4, <2>5, <2>6 DEF LifecycleStep
<1>3. CASE RecGet(i)
  <2>1. /\ UNCHANGED <<cache, target>> /\ inst[i].key \in Keys
        /\ inst'[i].key = inst[i].key
        /\ wrk'[i].pc = "render" => wrk'[i].obj = cache[inst[i].key]
        /\ \A j \in Insts \ {i} : inst'[j] = inst[j] /\ wrk'[j] = wrk[j]
    BY <1>1, <1>3 DEF RecGet, IdleWorker, TypeOK, Instance
  <2>2. Delivery!NotOlder(cache[inst[i].key], cache[inst[i].key])
    BY <2>1, CachedIsCopy DEF CopyOf
  <2> QED
    BY <2>1, <2>2 DEF Progress, Alive
<1>4. ASSUME NEW e, NEW again, Returns(i, e, again), UNCHANGED target
      PROVE  Progress'
  <2>1. \A j \in Insts : wrk'[j].pc = "render" => wrk'[j] = wrk[j]
    BY <1>4 DEF Returns, IdleWorker, TypeOK
  <2> QED
    BY <1>4, <2>1, ProgressKept DEF Returns, Alive
<1>5. CASE RenderAndApply(i)
  BY <1>5, ProgressApply DEF RenderAndApply
<1>6. CASE ApplyFails(i)
  BY <1>4, <1>6, ProgressApply DEF ApplyFails
<1>7. CASE RecRecord(i)
  <2>1. PICK b : inst' = [inst EXCEPT ![i].queue = b]
    BY <1>7 DEF RecRecord
  <2>2. \A j \in Insts : /\ inst'[j].key = inst[j].key
                         /\ inst'[j].phase = inst[j].phase
                         /\ inst'[j].cancelled = inst[j].cancelled
    BY <1>1, <2>1 DEF TypeOK, Instance
  <2>3. \A j \in Insts : wrk'[j].pc = "render" => wrk'[j] = wrk[j]
    BY <1>7 DEF RecRecord, IdleWorker, TypeOK
  <2> QED
    BY <1>7, <2>2, <2>3, ProgressKept DEF RecRecord, Alive
<1> QED
  BY <1>2, <1>3, <1>4, <1>5, <1>6, <1>7
  DEF ReconcilerStep, RenderFails, WaitForLibrary

LEMMA ProgressManager ==
  ASSUME TypeOK, Registry, Progress, ManagerStep
  PROVE  Progress'
<1> USE DEF apiVars, instVars
<1>1. UNCHANGED <<cache, wrk, target>>
  BY DEF ManagerStep, MgrGet, StopAndRemoveController, EnsureInstanceController,
     AwaitDone, CreateInstance, CreateFails, CheckStarted, UpdateWaiting,
     SendEvent, RecordErr
<1>2. ASSUME NEW j \in Insts, wrk[j].pc = "render"
      PROVE  inst'[j].key = inst[j].key /\ (Alive(j)' => Alive(j))
  <2>1. inst[j] \in Instance /\ inst[j].phase = "running"
    BY <1>2 DEF TypeOK, Registry, WorkersRun
  <2>2. CASE StopAndRemoveController
    BY <2>1, <2>2 DEF StopAndRemoveController, Stop, Alive, TypeOK, Instance
  <2>3. CASE EnsureInstanceController
    <3>1. CASE UNCHANGED inst
      BY <3>1 DEF Alive
    <3>2. CASE inst' = [inst EXCEPT ![controllers[mgr.key]] = Stop(@)]
      BY <2>1, <3>2 DEF Stop, Alive, TypeOK, Instance
    <3> QED
      BY <2>3, <3>1, <3>2 DEF EnsureInstanceController
  <2>4. CASE CreateInstance
    BY <2>1, <2>4 DEF CreateInstance, Alive, TypeOK
  <2>5. CASE SendEvent
    BY <2>1, <2>5 DEF SendEvent, Alive, TypeOK, Instance
  <2>6. CASE UNCHANGED inst
    BY <2>6 DEF Alive
  <2> QED
    BY <2>2, <2>3, <2>4, <2>5, <2>6
    DEF ManagerStep, MgrGet, AwaitDone, CreateFails, CheckStarted,
        UpdateWaiting, RecordErr
<1> QED
  BY <1>1, <1>2, ProgressKept

LEMMA ProgressNext ==
  TypeOK /\ Registry /\ Versions /\ Progress /\ [Next]_vars => Progress'
<1> SUFFICES ASSUME TypeOK, Registry, Versions, Progress, [Next]_vars
             PROVE  Progress'
  OBVIOUS
<1>1. CASE UNCHANGED vars
  BY <1>1, ProgressKept DEF vars, apiVars, mgrVars, instVars, Alive
<1>2. CASE UserStep
  BY <1>2, ProgressKept DEF UserStep, UserCreate, UserUpdate, UserDelete,
     UserWrite, instVars, Alive
<1> QED
  BY <1>1, <1>2, ProgressCacheDeliver, ProgressManager, ProgressInstances
  DEF Next

------------------------------------------------------------------------------
(* ControllerManager implements OrderedDelivery *)

\* The refinement mapping, as ControllerManager gives it to the instance.
Latest == [k \in Keys |-> Version(server[k])]
Delivered == [k \in Keys |-> [by |-> target[k].by, uid |-> target[k].uid,
                              gen |-> target[k].gen]]

LEMMA DeliveryInit == Init => Delivery!Init
<1> SUFFICES ASSUME Init PROVE Delivery!Init
  OBVIOUS
<1>1. \A k \in Keys : server[k].uid \in Nat /\ server[k].gen \in Nat
  BY InitType DEF TypeOK, MR
<1>2. Latest \in [Keys -> Delivery!Version]
  BY <1>1 DEF Latest, Version, Delivery!Version
<1>3. controllers = [k \in Keys |-> NoInst]
  BY DEF Init
<1>4. Delivered = [k \in Keys |-> [by |-> NoInst, uid |-> 0, gen |-> 0]]
  BY DEF Init, NothingApplied, Delivered
<1> QED
  BY <1>2, <1>3, <1>4 DEF Delivery!Init, Latest, Delivered

\* Steps that deliver nothing, write no spec and leave the map alone stutter.
LEMMA DeliveryStutters ==
  ASSUME UNCHANGED <<controllers, target>>,
         \A k \in Keys : /\ server'[k].uid = server[k].uid
                         /\ server'[k].gen = server[k].gen
  PROVE  UNCHANGED Delivery!vars
BY DEF Delivery!vars, Version

LEMMA DeliveryEdit ==
  ASSUME TypeOK, TypeOK', UserStep
  PROVE  Delivery!Next
<1> PICK k \in Keys, o \in MR : UserWrite(k, o) /\ Succeeds(o, server[k])
  BY UserWriteSucceeds
<1>1. /\ server' = [server EXCEPT ![k] = o]
      /\ UNCHANGED <<controllers, target>>
  BY DEF UserWrite, instVars
<1>2. Latest' = [Latest EXCEPT ![k] = Latest'[k]]
  BY <1>1 DEF Latest, TypeOK
<1>3. Latest[k] = Version(server[k]) /\ Latest'[k] = Version(o)
  BY <1>1 DEF Latest, TypeOK
<1>4. Latest'[k] \in Delivery!Version
  BY <1>3 DEF Version, Delivery!Version, MR
<1>5. Delivery!NotOlder(Latest[k], Latest'[k])
  BY <1>3 DEF Succeeds, Delivery!NotOlder, Version
<1>6. Delivery!Edit(k)
  BY <1>1, <1>2, <1>4, <1>5
  DEF Delivery!Edit, Delivery!ChangesAt, Latest
<1> QED
  BY <1>6 DEF Delivery!Next

LEMMA DeliveryDeliver ==
  ASSUME TypeOK, TypeOK', Registry, Versions, Progress, NEW i \in Insts,
         NEW full \in BOOLEAN, NEW e, NEW again, wrk[i].pc = "render",
         ~inst[i].cancelled, ApplyOf(i, full), Returns(i, e, again)
  PROVE  Delivery!Next
<1> PICK k \in Keys : k = inst[i].key
  BY DEF TypeOK, Instance
<1>1. Alive(i)
  BY DEF Registry, WorkersRun, Alive
<1>2. controllers[k] = i
  BY <1>1 DEF Registry, SingleLiveController
<1>3. /\ target'[k] = [by |-> i, uid |-> wrk[i].obj.uid,
                       gen |-> wrk[i].obj.gen, full |-> full]
      /\ \A j \in Keys \ {k} : target'[j] = target[j]
      /\ UNCHANGED <<server, controllers>>
  BY <1>1 DEF ApplyOf, Returns, apiVars, mgrVars, TypeOK
<1>4. /\ Delivered' = [Delivered EXCEPT ![k] = Delivered'[k]]
      /\ Delivered'[k] = [by |-> i, uid |-> wrk[i].obj.uid,
                          gen |-> wrk[i].obj.gen]
      /\ Delivered[k].uid = target[k].uid /\ Delivered[k].gen = target[k].gen
  <2>1. ASSUME NEW j \in Keys \ {k}
        PROVE  Delivered'[j] = Delivered[j]
    BY <1>3 DEF Delivered
  <2>2. /\ Delivered'[k] = [by |-> target'[k].by, uid |-> target'[k].uid,
                            gen |-> target'[k].gen]
        /\ Delivered[k].uid = target[k].uid /\ Delivered[k].gen = target[k].gen
    BY DEF Delivered
  <2>3. DOMAIN Delivered' = Keys /\ DOMAIN Delivered = Keys
    BY DEF Delivered
  <2>4. Delivered' = [j \in Keys |-> Delivered'[j]]
        /\ Delivered = [j \in Keys |-> Delivered[j]]
    BY DEF Delivered
  <2>5. Delivered' = [Delivered EXCEPT ![k] = Delivered'[k]]
    BY <2>1, <2>3, <2>4
  <2> QED
    BY <1>3, <2>2, <2>5
<1>5. /\ wrk[i].obj.uid \in Nat /\ wrk[i].obj.gen \in Nat
      /\ cache[k].uid \in Nat /\ cache[k].gen \in Nat
      /\ server[k].uid \in Nat /\ server[k].gen \in Nat
  BY <1>1 DEF TypeOK, Worker, MR
<1>6. Delivered'[k] \in Delivery!Delivery
  BY <1>4, <1>5 DEF Delivery!Delivery
<1>7. Delivery!NotOlder(Delivered[k], Delivered'[k])
  BY <1>1, <1>4 DEF Progress, Delivery!NotOlder
<1>8. Delivery!NotOlder(wrk[i].obj, server[k])
  BY <1>1, <1>5, NotOlderTransitive DEF Progress, Versions
<1>9. Delivery!NotOlder(Delivered'[k], Latest[k])
  BY <1>1, <1>4, <1>8 DEF Delivery!NotOlder, Latest, Version
<1>10. Delivery!Deliver(k)
  BY <1>2, <1>3, <1>4, <1>6, <1>7, <1>9
  DEF Delivery!Deliver, Delivery!ChangesAt, Delivered, Latest
<1> QED
  BY <1>10 DEF Delivery!Next

LEMMA DeliveryManager ==
  ASSUME TypeOK, Registry, ManagerStep
  PROVE  Delivery!Next \/ UNCHANGED Delivery!vars
<1> USE DEF apiVars, instVars
<1>1. mgr.key \in Keys
  BY DEF TypeOK, Manager
<1>2. CASE StopAndRemoveController \/ AwaitDone
  <2>1. Delivery!Dismiss(mgr.key)
    BY <1>2 DEF StopAndRemoveController, AwaitDone, Delivery!Dismiss
  <2> QED
    BY <1>1, <2>1 DEF Delivery!Next
<1>3. CASE CreateInstance
  <2>1. Delivery!Appoint(mgr.key)
    BY <1>1, <1>3 DEF CreateInstance, Registry, TypeOK, Delivery!Appoint,
       Delivery!ChangesAt
  <2> QED
    BY <1>1, <2>1 DEF Delivery!Next
<1>4. CASE UpdateWaiting \/ RecordErr
  BY <1>1, <1>4, StatusUpdateKeepsVersion, DeliveryStutters
  DEF UpdateWaiting, RecordErr
<1>5. CASE UNCHANGED <<server, controllers, target>>
  BY <1>5, DeliveryStutters
<1> QED
  BY <1>2, <1>3, <1>4, <1>5
  DEF ManagerStep, MgrGet, EnsureInstanceController, CreateFails,
      CheckStarted, SendEvent

LEMMA DeliveryNext ==
  TypeOK /\ TypeOK' /\ Registry /\ Versions /\ Progress /\ [Next]_vars
    => [Delivery!Next]_(Delivery!vars)
<1> SUFFICES ASSUME TypeOK, TypeOK', Registry, Versions, Progress, [Next]_vars
             PROVE  Delivery!Next \/ UNCHANGED Delivery!vars
  OBVIOUS
<1> USE DEF apiVars, mgrVars, instVars
<1>1. CASE UNCHANGED vars
  BY <1>1, DeliveryStutters DEF vars
<1>2. ASSUME NEW k \in Keys, CacheDeliver(k)
      PROVE  UNCHANGED Delivery!vars
  BY <1>2, DeliveryStutters DEF CacheDeliver
<1>3. ASSUME NEW i \in Insts, LifecycleStep(i) \/ Trigger(i) \/ RecGet(i)
                                \/ RenderFails(i) \/ WaitForLibrary(i)
      PROVE  UNCHANGED Delivery!vars
  BY <1>3, DeliveryStutters
  DEF LifecycleStep, StartSynced, StartFails, StartReturns, Notify, ReceiveIn,
      Trigger, SetInst, RecGet, RenderFails, WaitForLibrary, Returns
<1>4. ASSUME NEW i \in Insts, RenderAndApply(i)
      PROVE  Delivery!Next
  BY <1>4, DeliveryDeliver DEF RenderAndApply
<1>5. ASSUME NEW i \in Insts, ApplyFails(i)
      PROVE  Delivery!Next \/ UNCHANGED Delivery!vars
  BY <1>5, DeliveryDeliver, DeliveryStutters DEF ApplyFails, Returns
<1>6. ASSUME NEW i \in Insts, RecRecord(i)
      PROVE  UNCHANGED Delivery!vars
  <2>1. inst[i].key \in Keys
    BY DEF TypeOK, Instance
  <2> QED
    BY <1>6, <2>1, StatusUpdateKeepsVersion, DeliveryStutters DEF RecRecord
<1> QED
  BY <1>1, <1>2, <1>3, <1>4, <1>5, <1>6, DeliveryEdit, DeliveryManager
  DEF Next, ReconcilerStep

\* Only the instance in charge changes the cluster, with a spec that was in
\* the API server and is never older than the one delivered before: although
\* instances are replaced without waiting and all of them read a cache that
\* lags, ControllerManager implements OrderedDelivery.
THEOREM ImplementsDelivery == Spec => DeliversInOrder
<1> DEFINE IInv == TypeOK /\ Registry /\ Settling /\ Versions /\ Progress
<1>1. Init => IInv
  BY InitType, RegistryInit, SettlingInit, VersionsInit, ProgressInit
<1>2. IInv /\ [Next]_vars => IInv'
  BY NextType, RegistryNext, SettlingNext, VersionsNext, ProgressNext
<1>3. IInv /\ IInv' /\ [Next]_vars => [Delivery!Next]_(Delivery!vars)
  BY DeliveryNext
<1> QED
  BY <1>1, <1>2, <1>3, DeliveryInit, PTL
  DEF Spec, DeliversInOrder, Delivery!Spec

=============================================================================
