-------------------------- MODULE TriggerCachesProofs --------------------------
(***************************************************************************)
(* Read-after-trigger consistency of watchContextResource (Consistent),    *)
(* that an instance takes back nothing it has applied and loses no event   *)
(* (Following), and that the command line renders what an instance does:   *)
(* for all objects, selections and numbers of changes.                     *)
(***************************************************************************)
EXTENDS TriggerCaches, TLAPS

------------------------------------------------------------------------------
(* Type correctness *)

LEMMA RequestTypes ==
  /\ Full \in Request /\ Tick \in Request
  /\ \A o \in Objects : EventOf(o) \in Request
  /\ \A req \in Request : req.object \in Objects \cup {NoObject}
  /\ Full.object = NoObject /\ Tick.object = NoObject
  /\ \A o \in Objects : EventOf(o).object = o
<1>1. Full \in Request /\ Tick \in Request
  BY DEF Request
<1>2. \A o \in Objects : EventOf(o) \in Request
  BY DEF Request
<1>3. Full.object = NoObject /\ Tick.object = NoObject
  BY DEF Full, Tick
<1>4. \A o \in Objects : EventOf(o).object = o
  BY DEF EventOf
<1>5. ASSUME NEW req \in Request PROVE req.object \in Objects \cup {NoObject}
  <2>1. req = Full \/ req = Tick \/ \E o \in Objects : req = EventOf(o)
    BY DEF Request
  <2> QED
    BY <1>3, <1>4, <2>1
<1> QED
  BY <1>1, <1>2, <1>3, <1>4, <1>5

LEMMA VersionType ==
  ASSUME TypeOK, NEW d, NEW o \in Objects, NEW p \in 0..Len(log)
  PROVE  VersionIn(d, o, p) \in Nat
<1>1. CASE p > 0
  <2>1. log[p] \in Cluster
    BY <1>1 DEF TypeOK
  <2>2. log[p][o].version \in Nat
    BY <2>1 DEF Cluster, Object
  <2> QED
    BY <2>2 DEF VersionIn
<1>2. CASE p = 0
  BY <1>2 DEF VersionIn
<1> QED
  BY <1>1, <1>2

\* The worker reads places that caches have reached.
ReadPlaces == wrk.data \in 0..Len(log) /\ wrk.context \in 0..Len(log)

\* The template returns objects with versions.
LEMMA OutputType ==
  ASSUME TypeOK, ReadPlaces
  PROVE  Returned \subseteq Objects \X Nat /\ AsOf \in Nat
<1>1. wrk.req.object \in Objects \cup {NoObject}
  BY RequestTypes DEF TypeOK
<1>2. CASE wrk.req.object # NoObject
  <2>1. VersionIn(TriggerDefinition, wrk.req.object, wrk.data) \in Nat
    BY <1>1, <1>2, VersionType DEF ReadPlaces
  <2> QED
    BY <1>1, <1>2, <2>1 DEF Returned, Output, AsOf, ReadPlaces
<1>3. CASE wrk.req.object = NoObject
  BY <1>3 DEF Returned, Output, AsOf, ReadPlaces
<1> QED
  BY <1>2, <1>3

LEMMA AppliedType ==
  ASSUME TypeOK, ReadPlaces, NEW outs \in SUBSET Returned, ApplyOutput(outs)
  PROVE  /\ applied' \in [Objects -> [version : Nat, asOf : Nat]]
         /\ \A o \in Objects : \/ applied'[o] = applied[o]
                               \/ applied'[o].asOf = AsOf
<1>1. outs \subseteq Objects \X Nat /\ AsOf \in Nat
  BY OutputType
<1>2. ASSUME NEW o \in Objects, \E out \in outs : out[1] = o
      PROVE  (CHOOSE out \in outs : out[1] = o)[2] \in Nat
  BY <1>1, <1>2
<1>3. ASSUME NEW o \in Objects
      PROVE  /\ applied'[o] \in [version : Nat, asOf : Nat]
             /\ applied'[o] = applied[o] \/ applied'[o].asOf = AsOf
  <2>1. CASE \E out \in outs : out[1] = o
    <3>1. applied'[o] = [version |-> (CHOOSE out \in outs : out[1] = o)[2],
                         asOf |-> AsOf]
      BY <2>1 DEF ApplyOutput
    <3> QED
      BY <1>1, <1>2, <2>1, <3>1
  <2>2. CASE ~\E out \in outs : out[1] = o
    BY <2>2 DEF ApplyOutput, TypeOK
  <2> QED
    BY <2>1, <2>2
<1>4. applied' = [o \in Objects |-> applied'[o]]
  BY DEF ApplyOutput
<1> HIDE DEF ApplyOutput
<1> QED
  BY <1>3, <1>4

\* The versions of objects are states of the cluster.
Versions ==
  \A p \in 1..Len(log), o \in Objects : log[p][o].version \in 1..Len(log)

TInv == TypeOK /\ ReadPlaces /\ Versions

\* The states of the cluster only become more.
LEMMA ChangeKeepsTypes ==
  ASSUME TInv, NEW o \in Objects, Change(o)
  PROVE  /\ log' \in Seq(Cluster) /\ Len(log') = Len(log) + 1
         /\ Versions'
<1>1. PICK exists \in BOOLEAN, label \in BOOLEAN :
        log' = Append(log, [log[Len(log)] EXCEPT ![o] =
                 [exists |-> exists, label |-> label,
                  version |-> Len(log) + 1]])
  BY DEF Change
<1> DEFINE next == [log[Len(log)] EXCEPT ![o] =
                      [exists |-> exists, label |-> label,
                       version |-> Len(log) + 1]]
<1>2. /\ log \in Seq(Cluster) /\ Len(log) \in Nat \ {0}
      /\ log[Len(log)] \in Cluster
  BY DEF TInv, TypeOK
<1>3. next \in Cluster
  BY <1>2 DEF Cluster, Object
<1>4. \A q \in Objects : next[q].version \in 1..Len(log) + 1
  BY <1>2 DEF TInv, Versions, Cluster
<1> HIDE DEF next
<1>5. /\ log' \in Seq(Cluster) /\ Len(log') = Len(log) + 1
      /\ log'[Len(log) + 1] = next
      /\ \A p \in 1..Len(log) : log'[p] = log[p]
  BY <1>1, <1>2, <1>3 DEF next
<1>6. Versions'
  <2> SUFFICES ASSUME NEW p \in 1..Len(log'), NEW q \in Objects
               PROVE  log'[p][q].version \in 1..Len(log')
    BY DEF Versions
  <2>1. CASE p = Len(log) + 1
    BY <1>2, <1>4, <1>5, <2>1
  <2>2. CASE p # Len(log) + 1
    <3>1. p \in 1..Len(log) /\ log[p][q].version \in 1..Len(log)
      BY <1>2, <1>5, <2>2 DEF TInv, Versions
    <3> QED
      BY <1>2, <1>5, <3>1
  <2> QED
    BY <2>1, <2>2
<1> QED
  BY <1>5, <1>6

LEMMA TypesHold == Spec => []TInv
<1>1. Init => TInv
  <2> SUFFICES ASSUME Init PROVE TInv
    OBVIOUS
  <2>1. PICK start \in InitClusters : log = <<start>>
    BY DEF Init
  <2>2. start \in Cluster /\ \A o \in Objects : start[o].version = 1
    BY InitAssumption
  <2>3. log \in Seq(Cluster) /\ Len(log) = 1 /\ log[1] = start
    BY <2>1, <2>2
  <2>4. mr \in ManagedResource
    BY InitAssumption DEF Init
  <2>5. Versions
    <3> SUFFICES ASSUME NEW p \in 1..Len(log), NEW o \in Objects
                 PROVE  log[p][o].version \in 1..Len(log)
      BY DEF Versions
    <3>1. p = 1
      BY <2>3
    <3>2. log[p][o].version = 1
      BY <2>2, <2>3, <3>1
    <3> QED
      BY <2>3, <3>2
  <2>6. TypeOK
    BY <2>3, <2>4, RequestTypes DEF Init, TypeOK, Idle, Caches
  <2>7. ReadPlaces
    BY <2>3 DEF Init, ReadPlaces, Idle
  <2> QED
    BY <2>5, <2>6, <2>7 DEF TInv
<1>2. TInv /\ [Next]_vars => TInv'
  <2> SUFFICES ASSUME TInv, [Next]_vars PROVE TInv'
    OBVIOUS
  <2>a. Idle \in [pc : {"idle", "triggers", "contexts", "apply"},
                  req : Request, data : Nat, context : Nat]
        /\ Idle.data = 0 /\ Idle.context = 0
    BY RequestTypes DEF Idle
  <2>b. Len(log) \in Nat
    BY DEF TInv, TypeOK
  <2>1. ASSUME NEW o \in Objects, Change(o) PROVE TInv'
    <3>1. /\ log' \in Seq(Cluster) /\ Len(log') = Len(log) + 1
          /\ Versions'
      BY <2>1, ChangeKeepsTypes
    <3>2. UNCHANGED <<mr, place, events, queue, wrk, applied, restarts, extras>>
      BY <2>1 DEF Change
    <3>3. \A c \in Caches : place'[c] \in 0..Len(log')
      BY <2>b, <3>1, <3>2 DEF TInv, TypeOK
    <3>4. ReadPlaces'
      BY <2>b, <3>1, <3>2 DEF TInv, ReadPlaces
    <3> QED
      BY <2>b, <3>1, <3>2, <3>3, <3>4 DEF TInv, TypeOK
  <2>2. ASSUME NEW c \in Caches, Advance(c) PROVE TInv'
    <3>1. place' \in [Caches -> 0..Len(log)] /\ events' \in SUBSET Objects
      BY <2>2 DEF Advance, EventsOf, Differ, TInv, TypeOK
    <3> QED
      BY <2>2, <3>1 DEF Advance, TInv, TypeOK, ReadPlaces, Versions
  <2>3. ASSUME NEW o \in Objects, Enqueue(o) \/ Resync(o) PROVE TInv'
    BY <2>3, RequestTypes DEF Enqueue, Resync, Extra, TInv, TypeOK,
       ReadPlaces, Versions
  <2>4. CASE IntervalTrigger \/ Send
    BY <2>4, RequestTypes DEF IntervalTrigger, Send, Extra, TInv, TypeOK,
       ReadPlaces, Versions
  <2>5. ASSUME NEW req \in queue, Take(req) PROVE TInv'
    <3>1. req \in Request
      BY DEF TInv, TypeOK
    <3>2. wrk' = [Idle EXCEPT !.pc = "triggers", !.req = req]
      BY <2>5 DEF Take
    <3>3. /\ wrk' \in [pc : {"idle", "triggers", "contexts", "apply"},
                       req : Request, data : Nat, context : Nat]
          /\ wrk'.data = 0 /\ wrk'.context = 0
      BY <3>1, <3>2 DEF Idle
    <3> QED
      BY <2>5, <2>b, <3>3 DEF Take, TInv, TypeOK, ReadPlaces, Versions
  <2>6. CASE RenderTriggers \/ RenderContexts
    <3>1. place["context"] \in 0..Len(log) /\ place[TriggerCache] \in 0..Len(log)
      BY DEF TInv, TypeOK, Caches, TriggerCache
    <3>2. PICK data \in 0..Len(log), context \in 0..Len(log),
               pc \in {"contexts", "apply"} :
            wrk' = [wrk EXCEPT !.pc = pc, !.data = data, !.context = context]
      <4>1. CASE RenderTriggers
        <5>1. PICK data \in 0..Len(log) :
                wrk' = [wrk EXCEPT !.pc = "contexts", !.data = data]
          <6>1. CASE wrk.req.object = NoObject
            <7>1. wrk' = [wrk EXCEPT !.pc = "contexts", !.data = 0]
              BY <4>1, <6>1 DEF RenderTriggers
            <7>2. 0 \in 0..Len(log)
              BY <2>b
            <7> QED
              BY <7>1, <7>2, Zenon
          <6>2. CASE wrk.req.object # NoObject
            <7>1. wrk' = [wrk EXCEPT !.pc = "contexts",
                                     !.data = place[TriggerCache]]
              BY <4>1, <6>2 DEF RenderTriggers
            <7> QED
              BY <3>1, <7>1
          <6> QED
            BY <6>1, <6>2
        <5>2. wrk' = [wrk EXCEPT !.pc = "contexts", !.data = data,
                                 !.context = wrk.context]
          BY <5>1 DEF TInv, TypeOK
        <5> QED
          BY <5>1, <5>2 DEF TInv, ReadPlaces
      <4>2. CASE RenderContexts
        <5>1. wrk' = [wrk EXCEPT !.pc = "apply", !.data = wrk.data,
                                 !.context = place["context"]]
          BY <4>2 DEF RenderContexts, TInv, TypeOK
        <5> QED
          BY <3>1, <5>1 DEF TInv, ReadPlaces
      <4> QED
        BY <2>6, <4>1, <4>2
    <3>3. /\ wrk' \in [pc : {"idle", "triggers", "contexts", "apply"},
                       req : Request, data : Nat, context : Nat]
          /\ wrk'.data \in 0..Len(log) /\ wrk'.context \in 0..Len(log)
      <4>1. /\ wrk \in [pc : {"idle", "triggers", "contexts", "apply"},
                       req : Request, data : Nat, context : Nat]
            /\ data \in Nat /\ context \in Nat
        BY <2>b DEF TInv, TypeOK
      <4>2. wrk' = [pc |-> pc, req |-> wrk.req, data |-> data,
                    context |-> context]
        BY <3>2, <4>1
      <4> QED
        BY <4>1, <4>2
    <3>4. UNCHANGED <<mr, log, place, events, queue, applied, restarts, extras>>
      BY <2>6 DEF RenderTriggers, RenderContexts
    <3> QED
      BY <3>3, <3>4 DEF TInv, TypeOK, ReadPlaces, Versions
  <2>7. CASE Apply \/ ApplyFails
    <3>1. applied' \in [Objects -> [version : Nat, asOf : Nat]]
      BY <2>7, AppliedType DEF Apply, ApplyFails, TInv
    <3>2. queue' \in SUBSET Request /\ extras' \in Nat /\ wrk' = Idle
          /\ UNCHANGED <<mr, log, place, events, restarts>>
      BY <2>7 DEF Apply, ApplyFails, Extra, TInv, TypeOK
    <3> QED
      BY <2>a, <2>b, <3>1, <3>2 DEF TInv, TypeOK, ReadPlaces, Versions
  <2>8. CASE Restart
    <3>1. applied' \in [Objects -> [version : Nat, asOf : Nat]]
      BY <2>8 DEF Restart, TInv, TypeOK
    <3>2. place' \in [Caches -> 0..Len(log)]
      BY <2>8, <2>b DEF Restart
    <3> QED
      BY <2>8, <2>a, <2>b, <3>1, <3>2, RequestTypes DEF Restart, Extra, TInv,
         TypeOK, ReadPlaces, Versions
  <2>9. CASE UNCHANGED vars
    BY <2>9 DEF vars, TInv, TypeOK, ReadPlaces, Versions
  <2> QED
    BY <2>1, <2>2, <2>3, <2>4, <2>5, <2>6, <2>7, <2>8, <2>9 DEF Next
<1> QED
  BY <1>1, <1>2, PTL DEF Spec

\* Caches, requests and what was applied have their types.
THEOREM TypeCorrect == Spec => []TypeOK
<1>1. TInv => TypeOK
  BY DEF TInv
<1> QED
  BY <1>1, TypesHold, PTL

------------------------------------------------------------------------------
(* Read-after-trigger consistency *)

\* What was read or applied is as of states the cache has reached, and
\* nothing that was applied is newer than what was read for the request.
Read ==
  /\ \A o \in Objects : applied[o].asOf <= place["context"]
  /\ wrk.pc \in {"contexts", "apply"} => wrk.data <= place["context"]
  /\ wrk.pc = "apply" =>
       wrk.data <= wrk.context /\ wrk.context <= place["context"]

Newest ==
  /\ wrk.pc \in {"contexts", "apply"} /\ wrk.req.object # NoObject =>
       \A o \in Objects : applied[o].asOf <= wrk.data
  /\ wrk.pc = "apply" => \A o \in Objects : applied[o].asOf <= wrk.context

Consistent == mr.trigger.shared => Read /\ Newest

\* The numbers the inequalities are about.
LEMMA Numbers ==
  ASSUME TInv
  PROVE  /\ place["context"] \in Nat /\ wrk.data \in Nat
         /\ wrk.context \in Nat /\ Len(log) \in Nat
         /\ \A o \in Objects : applied[o].asOf \in Nat
<1>1. Len(log) \in Nat /\ "context" \in Caches
  BY DEF TInv, TypeOK, Caches
<1> QED
  BY <1>1 DEF TInv, TypeOK

\* An apply, complete or not, replaces nothing by what is older.
LEMMA AppliesNewer ==
  ASSUME TInv, Consistent, mr.trigger.shared, wrk.pc = "apply",
         NEW outs \in SUBSET Returned, ApplyOutput(outs), NEW o \in Objects
  PROVE  /\ applied[o].asOf <= applied'[o].asOf
         /\ applied'[o].asOf <= place["context"]
<1>1. /\ wrk.data <= place["context"] /\ wrk.context <= place["context"]
      /\ applied[o].asOf <= wrk.context /\ applied[o].asOf <= place["context"]
      /\ wrk.req.object # NoObject => applied[o].asOf <= wrk.data
  BY DEF Consistent, Read, Newest
<1>2. AsOf <= place["context"] /\ applied[o].asOf <= AsOf
  BY <1>1 DEF AsOf
<1>3. applied'[o] = applied[o] \/ applied'[o].asOf = AsOf
  BY AppliedType DEF TInv
<1>4. applied[o].asOf \in Nat
  BY Numbers
<1> QED
  BY <1>1, <1>2, <1>3, <1>4

LEMMA ConsistentStep ==
  ASSUME TInv, TInv', Consistent, [Next]_vars
  PROVE  Consistent'
<1> SUFFICES ASSUME mr'.trigger.shared PROVE Read' /\ Newest'
  BY DEF Consistent
<1>a. mr' = mr
  BY DEF Next, vars, Change, Advance, Enqueue, Resync, IntervalTrigger, Send,
     Take, RenderTriggers, RenderContexts, Apply, ApplyFails, Restart
<1>b. Read /\ Newest /\ mr.trigger.shared
  BY <1>a DEF Consistent
<1>1. CASE UNCHANGED <<place, wrk, applied>>
  BY <1>1, <1>b DEF Read, Newest
<1>2. ASSUME NEW c \in Caches, Advance(c) PROVE Read' /\ Newest'
  <2>1. place["context"] <= place'["context"]
    <3>1. \E p \in place[c] + 1 .. Len(log) : place' = [place EXCEPT ![c] = p]
      BY <1>2 DEF Advance
    <3>2. place[c] \in Nat /\ Len(log) \in Nat /\ place["context"] \in Nat
      BY Numbers DEF TInv, TypeOK
    <3> QED
      BY <3>1, <3>2 DEF TInv, TypeOK
  <2>2. UNCHANGED <<wrk, applied>>
    BY <1>2 DEF Advance
  <2>3. place'["context"] \in Nat /\ place["context"] \in Nat
        /\ wrk.data \in Nat /\ wrk.context \in Nat
        /\ \A o \in Objects : applied[o].asOf \in Nat
    BY Numbers DEF TInv, TypeOK, Caches
  <2>4. Read'
    BY <1>b, <2>1, <2>2, <2>3 DEF Read
  <2> QED
    BY <1>b, <2>2, <2>4 DEF Newest
<1>3. ASSUME NEW req \in queue, Take(req) PROVE Read' /\ Newest'
  <2>1. UNCHANGED <<place, applied>> /\ wrk'.pc = "triggers"
    BY <1>3 DEF Take, Idle
  <2> QED
    BY <1>b, <2>1 DEF Read, Newest
<1>4. CASE RenderTriggers
  <2>1. UNCHANGED <<place, applied>> /\ wrk'.pc = "contexts"
        /\ wrk'.req = wrk.req
        /\ wrk'.data = IF wrk.req.object = NoObject THEN 0
                       ELSE place["context"]
    BY <1>4, <1>b DEF RenderTriggers, TInv, TypeOK, TriggerCache
  <2>2. wrk'.data <= place["context"]
    BY <2>1, Numbers
  <2> QED
    BY <1>b, <2>1, <2>2 DEF Read, Newest
<1>5. CASE RenderContexts
  <2>1. UNCHANGED <<place, applied>> /\ wrk'.pc = "apply" /\ wrk.pc = "contexts"
        /\ wrk'.req = wrk.req /\ wrk'.data = wrk.data
        /\ wrk'.context = place["context"]
    BY <1>5 DEF RenderContexts, TInv, TypeOK
  <2>2. wrk'.context <= place["context"]
    BY <2>1, Numbers
  <2> QED
    BY <1>b, <2>1, <2>2 DEF Read, Newest
<1>6. CASE Apply \/ ApplyFails
  <2>1. PICK outs \in SUBSET Returned : ApplyOutput(outs)
    BY <1>6 DEF Apply, ApplyFails
  <2>2. place' = place /\ wrk'.pc = "idle" /\ wrk.pc = "apply"
    BY <1>6 DEF Apply, ApplyFails, Idle
  <2>3. \A o \in Objects : applied'[o].asOf <= place["context"]
    BY <1>b, <2>1, <2>2, AppliesNewer
  <2> QED
    BY <2>2, <2>3 DEF Read, Newest
<1>7. CASE Restart
  <2>1. place'["context"] = 0 /\ wrk'.pc = "idle"
        /\ \A o \in Objects : applied'[o].asOf = 0
    BY <1>7 DEF Restart, Idle, Caches, TInv, TypeOK
  <2> QED
    BY <2>1 DEF Read, Newest
<1> QED
  BY <1>1, <1>2, <1>3, <1>4, <1>5, <1>6, <1>7
     DEF Next, vars, Change, Enqueue, Resync, IntervalTrigger, Send

LEMMA ConsistentHolds == Spec => []Consistent
<1>1. Init /\ TInv => Consistent
  <2> SUFFICES ASSUME Init, TInv PROVE Read /\ Newest
    BY DEF Consistent
  <2>1. wrk.pc = "idle" /\ place["context"] = 0
        /\ \A o \in Objects : applied[o].asOf = 0
    BY DEF Init, Idle, Caches
  <2> QED
    BY <2>1 DEF Read, Newest
<1>2. TInv /\ TInv' /\ Consistent /\ [Next]_vars => Consistent'
  BY ConsistentStep
<1> QED
  BY <1>1, <1>2, TypesHold, PTL DEF Spec

\* With watchContextResource the context a template sees is not older than
\* the object of its trigger.
THEOREM ReadConsistency == Spec => []ReadAfterTrigger
<1>1. TInv /\ Consistent => ReadAfterTrigger
  BY DEF Consistent, Read, ReadAfterTrigger
<1> QED
  BY <1>1, TypesHold, ConsistentHolds, PTL

\* With watchContextResource an instance replaces nothing by what it derives
\* from an older state.
THEOREM NothingGoesBack == Spec => NeverGoesBack
<1>1. TInv /\ Consistent /\ [Next]_vars => [GoesForward]_vars
  <2> SUFFICES ASSUME TInv, Consistent, Next, NEW o \in Objects,
                      mr.trigger.shared, restarts' = restarts
               PROVE  applied[o].asOf <= applied'[o].asOf
    BY DEF GoesForward
  <2>1. CASE applied' = applied
    BY <2>1, Numbers
  <2>2. CASE Apply \/ ApplyFails
    <3>1. PICK outs \in SUBSET Returned : ApplyOutput(outs)
      BY <2>2 DEF Apply, ApplyFails
    <3> QED
      BY <2>2, <3>1, AppliesNewer DEF Apply, ApplyFails
  <2>3. ~Restart
    BY DEF Restart, TInv, TypeOK
  <2> QED
    BY <2>1, <2>2, <2>3 DEF Next, Change, Advance, Enqueue, Resync,
       IntervalTrigger, Send, Take, RenderTriggers, RenderContexts
<1> QED
  BY <1>1, TypesHold, ConsistentHolds, PTL DEF Spec, NeverGoesBack

------------------------------------------------------------------------------
(* No event is lost *)

WatchesContext == mr.trigger.shared /\ ~mr.trigger.interval

\* A request for the object is still to be taken.
Coming(o) == o \in events \/ EventOf(o) \in queue
Held(o) == VersionIn(mr.context, o, place["context"])

\* What the worker has read of an object is what the cache holds of it, or the
\* object changed in between and a request for it comes.
ReadIsHeld ==
  \A o \in Objects : ~Coming(o) =>
    /\ wrk.pc \in {"contexts", "apply"} /\ wrk.req = EventOf(o) =>
         VersionIn(mr.context, o, wrk.data) = Held(o)
    /\ wrk.pc = "apply" /\ wrk.req.object = NoObject =>
         VersionIn(mr.context, o, wrk.context) = Held(o)

Followed(o) ==
  UnderWay(o) \/ (Held(o) = 0 /\ restarts > 0) \/ applied[o].version = Held(o)

Following ==
  WatchesContext => ReadIsHeld /\ \A o \in Objects : Followed(o)

\* The request of an event names its object.
LEMMA EventRequests ==
  /\ \A o \in Objects : EventOf(o).object = o /\ o # NoObject
  /\ \A req \in Request :
       req.object # NoObject => req.object \in Objects /\ req = EventOf(req.object)
<1>1. \A o \in Objects : EventOf(o).object = o /\ o # NoObject
  BY RequestTypes, ObjectAssumption
<1>2. ASSUME NEW req \in Request, req.object # NoObject
      PROVE  req.object \in Objects /\ req = EventOf(req.object)
  <2>1. PICK o \in Objects : req = EventOf(o)
    BY <1>2, RequestTypes DEF Request
  <2> QED
    BY <1>1, <2>1
<1> QED
  BY <1>1, <1>2

\* What an apply, complete or not, leaves of an object no request comes for.
LEMMA AppliesWhatIsHeld ==
  ASSUME TInv, WatchesContext, Following, wrk.pc = "apply",
         NEW outs \in SUBSET Returned, ApplyOutput(outs),
         NEW o \in Objects, ~Coming(o),
         outs = Returned \/ wrk.req # EventOf(o)
  PROVE  (Held(o) = 0 /\ restarts > 0) \/ applied'[o].version = Held(o)
<1>1. wrk.req \in Request /\ TriggerDefinition = mr.context
  BY DEF TInv, TypeOK, TriggerDefinition, WatchesContext
<1>2. ASSUME NEW out \in Returned, out[1] = o PROVE out[2] = Held(o)
  <2>1. CASE wrk.req.object # NoObject
    <3>1. out = <<wrk.req.object, VersionIn(mr.context, wrk.req.object, wrk.data)>>
      BY <1>1, <2>1 DEF Returned, Output
    <3>2. wrk.req = EventOf(o)
      BY <1>1, <1>2, <2>1, <3>1, EventRequests
    <3>3. VersionIn(mr.context, o, wrk.data) = Held(o)
      BY <3>2 DEF Following, ReadIsHeld
    <3> QED
      BY <1>2, <3>1, <3>3
  <2>2. CASE wrk.req.object = NoObject
    <3>1. out[2] = VersionIn(mr.context, o, wrk.context)
      BY <1>2, <2>2 DEF Returned, Output
    <3> QED
      BY <2>2, <3>1 DEF Following, ReadIsHeld
  <2> QED
    BY <2>1, <2>2
<1>3. CASE \E out \in outs : out[1] = o
  <2>1. applied'[o].version = (CHOOSE out \in outs : out[1] = o)[2]
    BY <1>3 DEF ApplyOutput
  <2>2. (CHOOSE out \in outs : out[1] = o) \in outs
        /\ (CHOOSE out \in outs : out[1] = o)[1] = o
    BY <1>3
  <2> QED
    BY <1>2, <2>1, <2>2
<1>4. CASE ~\E out \in outs : out[1] = o
  <2>1. applied'[o] = applied[o]
    BY <1>4 DEF ApplyOutput
  <2>2. wrk.req # EventOf(o)
    <3>1. SUFFICES ASSUME wrk.req = EventOf(o), outs = Returned PROVE FALSE
      OBVIOUS
    <3>2. wrk.req.object = o /\ o # NoObject
      BY <3>1, EventRequests
    <3>3. <<o, VersionIn(mr.context, o, wrk.data)>> \in Returned
      BY <1>1, <3>2 DEF Returned, Output
    <3> QED
      BY <1>4, <3>1, <3>3
  <2>3. ~UnderWay(o)
    BY <2>2 DEF UnderWay, Coming
  <2> QED
    BY <2>1, <2>3 DEF Following, Followed
<1> QED
  BY <1>3, <1>4

LEMMA FollowingStep ==
  ASSUME TInv, Following, [Next]_vars
  PROVE  Following'
<1>a. mr' = mr
  BY DEF Next, vars, Change, Advance, Enqueue, Resync, IntervalTrigger, Send,
     Take, RenderTriggers, RenderContexts, Apply, ApplyFails, Restart
<1> SUFFICES ASSUME WatchesContext
             PROVE  ReadIsHeld' /\ \A o \in Objects : Followed(o)'
  BY <1>a DEF Following, WatchesContext
<1>b. ReadIsHeld /\ \A o \in Objects : Followed(o)
  BY DEF Following
<1>c. /\ TriggerDefinition = mr.context /\ TriggerCache = "context"
      /\ Watched = {"context"}
  BY DEF WatchesContext, TriggerDefinition, TriggerCache, Watched
<1>d. /\ place \in [Caches -> 0..Len(log)] /\ "context" \in Caches
      /\ place["context"] \in 0..Len(log)
      /\ wrk.data \in 0..Len(log) /\ wrk.context \in 0..Len(log)
      /\ wrk.req \in Request
  BY DEF TInv, TypeOK, Caches, ReadPlaces
<1>1. CASE /\ UNCHANGED <<log, place, wrk, applied, restarts>>
           /\ \A o \in Objects : /\ o \in events => Coming(o)'
                                 /\ EventOf(o) \in queue => EventOf(o) \in queue'
  <2>1. \A o \in Objects : Coming(o) => Coming(o)'
    BY <1>1 DEF Coming
  <2>2. \A o \in Objects : UnderWay(o) => UnderWay(o)'
    BY <1>1, <2>1 DEF Coming, UnderWay
  <2>3. \A o \in Objects, p \in 0..Len(log) :
          VersionIn(mr.context, o, p)' = VersionIn(mr.context, o, p)
    BY <1>1, <1>a DEF VersionIn
  <2>4. \A o \in Objects : Held(o)' = Held(o)
    BY <1>1, <1>a DEF Held, VersionIn
  <2>5. ReadIsHeld'
    BY <1>1, <1>a, <1>b, <2>1, <2>4 DEF ReadIsHeld, VersionIn
  <2> QED
    BY <1>1, <1>b, <2>2, <2>4, <2>5 DEF Followed
<1>2. ASSUME NEW r \in Objects, Change(r)
      PROVE  ReadIsHeld' /\ \A o \in Objects : Followed(o)'
  <2>1. UNCHANGED <<place, events, queue, wrk, applied, restarts>>
    BY <1>2 DEF Change
  <2>2. \A p \in 1..Len(log) : log'[p] = log[p]
    BY <1>2 DEF Change, TInv, TypeOK
  <2>3. \A o \in Objects : Held(o)' = Held(o)
    BY <1>a, <1>d, <2>1, <2>2 DEF Held, VersionIn
  <2>4. \A o \in Objects :
          /\ VersionIn(mr.context, o, wrk.data)'
               = VersionIn(mr.context, o, wrk.data)
          /\ VersionIn(mr.context, o, wrk.context)'
               = VersionIn(mr.context, o, wrk.context)
    BY <1>a, <1>d, <2>1, <2>2 DEF VersionIn
  <2>5. ReadIsHeld'
    BY <1>b, <2>1, <2>3, <2>4 DEF ReadIsHeld, Coming
  <2> QED
    BY <1>b, <2>1, <2>3, <2>5 DEF Followed, UnderWay
<1>3. ASSUME NEW c \in Caches, Advance(c)
      PROVE  ReadIsHeld' /\ \A o \in Objects : Followed(o)'
  <2>1. /\ UNCHANGED <<log, queue, wrk, applied, restarts>> /\ c = "context"
        /\ \E p \in place[c] + 1 .. Len(log) :
             /\ place' = [place EXCEPT ![c] = p]
             /\ events' = events \cup EventsOf(c, Differ(place[c], p))
    BY <1>3, <1>c DEF Advance
  <2>2. events' = events \cup Differ(place["context"], place'["context"])
    BY <1>c, <1>d, <2>1 DEF EventsOf, WatchesContext
  <2>3. ASSUME NEW o \in Objects PROVE Coming(o)' \/ Held(o)' = Held(o)
    <3>1. CASE o \in Differ(place["context"], place'["context"])
      BY <2>2, <3>1 DEF Coming
    <3>2. CASE o \notin Differ(place["context"], place'["context"])
      BY <1>a, <1>c, <2>1, <3>2 DEF Differ, Held, VersionIn
    <3> QED
      BY <3>1, <3>2
  <2>4. \A o \in Objects : Coming(o) => Coming(o)'
    BY <2>1, <2>2 DEF Coming
  <2>5. \A o \in Objects :
          /\ VersionIn(mr.context, o, wrk.data)'
               = VersionIn(mr.context, o, wrk.data)
          /\ VersionIn(mr.context, o, wrk.context)'
               = VersionIn(mr.context, o, wrk.context)
    BY <1>a, <2>1 DEF VersionIn
  <2>6. ReadIsHeld'
    BY <1>b, <2>1, <2>3, <2>4, <2>5 DEF ReadIsHeld
  <2>7. \A o \in Objects : (UnderWay(o) => UnderWay(o)')
                           /\ (Coming(o)' => UnderWay(o)')
    BY <2>1, <2>2 DEF UnderWay, Coming
  <2> QED
    BY <1>b, <2>1, <2>3, <2>6, <2>7 DEF Followed
<1>4. ASSUME NEW r \in Objects, Enqueue(r)
      PROVE  ReadIsHeld' /\ \A o \in Objects : Followed(o)'
  <2>1. \A o \in Objects : /\ o \in events => Coming(o)'
                           /\ EventOf(o) \in queue => EventOf(o) \in queue'
    BY <1>4 DEF Enqueue, Coming
  <2> QED
    BY <1>1, <1>4, <2>1 DEF Enqueue
<1>5. ASSUME NEW req \in queue, Take(req)
      PROVE  ReadIsHeld' /\ \A o \in Objects : Followed(o)'
  <2>1. /\ UNCHANGED <<log, place, events, applied, restarts>>
        /\ queue' = queue \ {req} /\ wrk.pc = "idle"
        /\ wrk'.pc = "triggers" /\ wrk'.req = req
    BY <1>5 DEF Take, Idle
  <2>2. \A o \in Objects : UnderWay(o) => UnderWay(o)'
    BY <2>1 DEF UnderWay
  <2>3. \A o \in Objects : Held(o)' = Held(o)
    BY <1>a, <2>1 DEF Held, VersionIn
  <2> QED
    BY <1>b, <2>1, <2>2, <2>3 DEF Followed, ReadIsHeld
<1>6. CASE RenderTriggers \/ RenderContexts
  <2>1. /\ UNCHANGED <<log, place, events, queue, applied, restarts>>
        /\ wrk.pc # "idle" /\ wrk'.pc # "idle" /\ wrk'.req = wrk.req
    BY <1>6 DEF RenderTriggers, RenderContexts, TInv, TypeOK
  <2>2. \A o \in Objects : UnderWay(o) => UnderWay(o)'
    BY <2>1 DEF UnderWay
  <2>3. \A o \in Objects : /\ Held(o)' = Held(o)
                           /\ Coming(o)' <=> Coming(o)
    BY <1>a, <2>1 DEF Held, VersionIn, Coming
  <2>4. CASE RenderTriggers
    <3>1. /\ wrk'.pc = "contexts"
          /\ wrk.req.object # NoObject => wrk'.data = place["context"]
      BY <2>4, <1>c DEF RenderTriggers, TInv, TypeOK
    <3>2. \A o \in Objects : wrk'.req = EventOf(o) =>
            VersionIn(mr.context, o, wrk.data)' = Held(o)'
      BY <2>1, <3>1, EventRequests DEF Held, VersionIn
    <3>3. ReadIsHeld'
      BY <3>1, <3>2 DEF ReadIsHeld
    <3> QED
      BY <1>b, <2>1, <2>2, <2>3, <3>3 DEF Followed
  <2>5. CASE RenderContexts
    <3>1. /\ wrk.pc = "contexts" /\ wrk'.pc = "apply"
          /\ wrk'.data = wrk.data /\ wrk'.context = place["context"]
      BY <2>5 DEF RenderContexts, TInv, TypeOK
    <3>2. \A o \in Objects : VersionIn(mr.context, o, wrk.context)' = Held(o)'
      BY <2>1, <3>1 DEF Held, VersionIn
    <3>3. \A o \in Objects : VersionIn(mr.context, o, wrk.data)'
                               = VersionIn(mr.context, o, wrk.data)
      BY <1>a, <2>1, <3>1 DEF VersionIn
    <3>4. ReadIsHeld'
      BY <1>b, <2>1, <2>3, <3>1, <3>2, <3>3 DEF ReadIsHeld
    <3> QED
      BY <1>b, <2>1, <2>2, <2>3, <3>4 DEF Followed
  <2> QED
    BY <1>6, <2>4, <2>5
<1>7. CASE Apply \/ ApplyFails
  <2>1. /\ UNCHANGED <<log, place, events, restarts>>
        /\ wrk.pc = "apply" /\ wrk'.pc = "idle" /\ queue \subseteq queue'
    BY <1>7 DEF Apply, ApplyFails, Idle
  <2>2. \A o \in Objects : Held(o)' = Held(o)
    BY <1>a, <2>1 DEF Held, VersionIn
  <2>3. PICK outs \in SUBSET Returned :
          /\ ApplyOutput(outs)
          /\ outs = Returned \/ wrk.req \in queue'
    BY <1>7 DEF Apply, ApplyFails
  <2>4. ASSUME NEW o \in Objects PROVE Followed(o)'
    <3>1. CASE Coming(o)'
      BY <3>1 DEF Coming, UnderWay, Followed
    <3>2. CASE ~Coming(o)'
      <4>1. ~Coming(o) /\ (outs = Returned \/ wrk.req # EventOf(o))
        BY <2>1, <2>3, <3>2 DEF Coming
      <4> QED
        BY <2>1, <2>2, <2>3, <4>1, AppliesWhatIsHeld DEF Followed
    <3> QED
      BY <3>1, <3>2
  <2> QED
    BY <2>1, <2>4 DEF ReadIsHeld
<1>8. CASE Restart
  <2>1. /\ place'["context"] = 0 /\ restarts' > 0 /\ wrk'.pc = "idle"
    BY <1>8, <1>d DEF Restart, Idle, TInv, TypeOK
  <2>2. \A o \in Objects : Held(o)' = 0
    BY <2>1 DEF Held, VersionIn
  <2> QED
    BY <2>1, <2>2 DEF Followed, ReadIsHeld
<1> QED
  BY <1>1, <1>2, <1>3, <1>4, <1>5, <1>6, <1>7, <1>8
     DEF Next, vars, Resync, IntervalTrigger, Send, Coming

\* With watchContextResource what is derived from an object follows what the
\* cache holds of it, unless a request for the object is under way.
THEOREM EventsReachTheTemplate == Spec => []NoEventLost
<1>1. Init => Following
  <2> SUFFICES ASSUME Init, NEW o \in Objects
               PROVE  Held(o) = 0 /\ applied[o].version = 0 /\ wrk.pc = "idle"
    BY DEF Following, ReadIsHeld, Followed
  <2> QED
    BY DEF Init, Idle, Held, VersionIn, Caches
<1>2. TInv /\ Following /\ [Next]_vars => Following'
  BY FollowingStep
<1>3. Following => NoEventLost
  BY DEF Following, WatchesContext, Followed, Held, NoEventLost
<1> QED
  BY <1>1, <1>2, <1>3, TypesHold, PTL DEF Spec

------------------------------------------------------------------------------
(* The command line agrees with the instance *)

\* Two paths to one selection: the selectors of a list with the filter after
\* it, and the watch with the filter of an informer.
LEMMA ListsWhatIsSelected ==
  ASSUME NEW d, NEW p
  PROVE  List(d, p) = {o \in Objects : Selects(d, o, log[p][o])}
<1> SUFFICES ASSUME NEW o \in Objects
             PROVE  o \in List(d, p) <=> Selects(d, o, log[p][o])
  BY DEF List, ListSelected
<1>1. CASE d.namespace = "unset"
  BY <1>1, NamespaceAssumption DEF List, ListSelected, Selects
<1>2. CASE d.namespace # "unset"
  BY <1>2 DEF List, ListSelected, Selects
<1> QED
  BY <1>1, <1>2

\* An object is in a cache when it is selected, with the version it has.
LEMMA VersionsOfSelected ==
  ASSUME TInv, NEW d, NEW o \in Objects, NEW p \in 1..Len(log)
  PROVE  /\ Selects(d, o, log[p][o]) => VersionIn(d, o, p) = log[p][o].version
         /\ ~Selects(d, o, log[p][o]) => VersionIn(d, o, p) = 0
         /\ log[p][o].version \in 1..Len(log)
<1>1. Len(log) \in Nat /\ log[p][o].version \in 1..Len(log)
  BY DEF TInv, TypeOK, Versions
<1> QED
  BY <1>1 DEF VersionIn

\* What the command line renders is what the instance applies.
THEOREM OfflineRendersTheSame == Spec => []OfflineAgrees
<1>1. TInv => OfflineAgrees
  <2> SUFFICES ASSUME TInv, ~(mr.trigger.interval /\ mr.trigger.shared),
                      NEW q \in 1..Len(log), NEW p \in 1..q
               PROVE
        LET told == {o \in Objects : ~mr.trigger.interval
                                   /\ VersionIn(TriggerDefinition, o, p) > 0} IN
        RenderFromInput(p, q) =
          [req \in {Full} \cup (IF mr.trigger.interval THEN {Tick} ELSE {})
                         \cup {EventOf(o) : o \in told}
             |-> Output(req, p, q)]
    BY DEF OfflineAgrees
  <2> DEFINE told == {o \in Objects : ~mr.trigger.interval
                                    /\ VersionIn(TriggerDefinition, o, p) > 0}
             reqs == {Full} \cup (IF mr.trigger.interval THEN {Tick} ELSE {})
                            \cup {EventOf(o) : o \in told}
             input == CollectInput(p, q)
             Rendered(req) ==
               IF req.object # NoObject
               THEN {<<req.object, log[p][req.object].version>>}
               ELSE input.context
  <2>1. Len(log) \in Nat /\ p \in 1..Len(log)
    BY DEF TInv, TypeOK
  <2>2. input.triggers = reqs
    <3>1. input.triggers = {Full} \cup IF CollectsInterval THEN {Tick} ELSE
            {EventOf(o) : o \in List(TriggerDefinition, p)}
      BY DEF CollectInput, TriggerDefinition
    <3>2. CASE mr.trigger.interval
      <4>1. CollectsInterval /\ told = {}
        BY <3>2 DEF CollectsInterval
      <4> QED
        BY <3>1, <3>2, <4>1
    <3>3. CASE ~mr.trigger.interval
      <4>1. told = List(TriggerDefinition, p)
        <5>1. \A o \in Objects : VersionIn(TriggerDefinition, o, p) > 0
                                <=> Selects(TriggerDefinition, o, log[p][o])
          BY <2>1, VersionsOfSelected
        <5> QED
          BY <3>3, <5>1, ListsWhatIsSelected
      <4>2. ~CollectsInterval
        BY <3>3 DEF CollectsInterval
      <4> HIDE DEF told
      <4> QED
        BY <3>1, <3>3, <4>1, <4>2
    <3> QED
      BY <3>2, <3>3
  <2>3. ASSUME NEW req \in reqs PROVE Rendered(req) = Output(req, p, q)
    <3>1. req = Full \/ req = Tick \/ \E o \in told : req = EventOf(o)
      OBVIOUS
    <3>2. CASE req.object = NoObject
      <4>1. input.context = {<<o, log[q][o].version>> : o \in List(mr.context, q)}
        BY DEF CollectInput
      <4>2. Output(req, p, q) = {out \in Objects \X (1..Len(log)) :
              out[2] = VersionIn(mr.context, out[1], q)}
        BY <3>2 DEF Output
      <4>3. List(mr.context, q) \subseteq Objects
            /\ \A o \in Objects : o \in List(mr.context, q)
                                  <=> Selects(mr.context, o, log[q][o])
        BY ListsWhatIsSelected
      <4>4. \A o \in Objects :
              /\ log[q][o].version \in 1..Len(log)
              /\ o \in List(mr.context, q)
                   => VersionIn(mr.context, o, q) = log[q][o].version
              /\ o \notin List(mr.context, q) => VersionIn(mr.context, o, q) = 0
        BY <4>3, VersionsOfSelected
      <4>5. input.context \subseteq Output(req, p, q)
        BY <4>1, <4>2, <4>3, <4>4
      <4>6. ASSUME NEW out \in Output(req, p, q) PROVE out \in input.context
        <5>1. /\ out = <<out[1], out[2]>>
              /\ out[1] \in Objects /\ out[2] \in 1..Len(log)
              /\ out[2] = VersionIn(mr.context, out[1], q)
          BY <4>2
        <5>2. out[1] \in List(mr.context, q) /\ out[2] = log[q][out[1]].version
          BY <2>1, <4>4, <5>1
        <5> QED
          BY <4>1, <5>1, <5>2
      <4> QED
        BY <3>2, <4>5, <4>6
    <3>3. CASE req.object # NoObject
      <4>1. PICK o \in told : req = EventOf(o) /\ req.object = o
        BY <3>1, <3>3, RequestTypes
      <4>2. VersionIn(TriggerDefinition, o, p) = log[p][o].version
        BY <2>1, <4>1, VersionsOfSelected
      <4> QED
        BY <3>3, <4>1, <4>2 DEF Output
    <3> QED
      BY <3>2, <3>3
  <2>4. RenderFromInput(p, q) = [req \in input.triggers |-> Rendered(req)]
    BY DEF RenderFromInput
  <2> HIDE DEF reqs, input, Rendered
  <2>5. RenderFromInput(p, q) = [req \in reqs |-> Output(req, p, q)]
    BY <2>2, <2>3, <2>4
  <2> QED
    BY <2>5 DEF reqs
<1> QED
  BY <1>1, TypesHold, PTL

=============================================================================
