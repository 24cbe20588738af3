----------------------------- MODULE TriggerCaches -----------------------------
(***************************************************************************)
(* The caches of one running instance: an informer per context and per     *)
(* watch trigger, the events that become requests, and the renders that    *)
(* read the caches later.  At the end the command line, which collects the *)
(* same input from the API server and renders it without a cluster.        *)
(*                                                                         *)
(* The objects are those of one kind.  Each of them is the source of one   *)
(* derived object: the template is the one of the API documentation, which *)
(* renders the object of a trigger alone and all of the context otherwise, *)
(* and it deletes what is derived from an object that is gone.             *)
(***************************************************************************)
EXTENDS Integers, Sequences

CONSTANTS
  Objects,      \* identities, a namespace and a name each
  NoObject,     \* in a request that no object caused
  OwnNamespace, \* of the ManagedResource
  Definitions,  \* the selections a context or a trigger may ask for
  InitSpecs,    \* what the ManagedResources considered ask for
  InitClusters, \* the objects there are in the beginning
  MaxStates,    \* bound on the states of the cluster
  MaxExtras     \* bound on failed applies, restarts, resyncs and the requests
                \* of the manager

ASSUME ObjectAssumption == NoObject \notin Objects
ASSUME NamespaceAssumption == OwnNamespace # ""
ASSUME BoundAssumption ==
  MaxStates \in Nat \ {0} /\ MaxExtras \in Nat

VARIABLES
  mr,       \* what the ManagedResource asks for
  log,      \* the states of the cluster, oldest first
  place,    \* the state each cache holds, 0 before it has synced
  events,   \* objects whose event handler is still to be called
  queue,    \* requests of the instance
  wrk,      \* its worker: the request and the states it was rendered from
  applied,  \* what was applied last for each object, and the state it is as
            \* of, 0 when another instance applied it
  restarts, \* how often the instance was started again
  extras    \* how often something else happened that is bounded

vars == <<mr, log, place, events, queue, wrk, applied, restarts, extras>>

\* A label decides whether a selector matches; the version of an object is
\* the state in which it was written.
Object == [exists : BOOLEAN, label : BOOLEAN, version : Nat]
Cluster == [Objects -> Object]
Trigger == [interval : BOOLEAN, shared : BOOLEAN, watch : Definitions]
ManagedResource == [context : Definitions, trigger : Trigger]

\* There is nothing of its own to watch for an interval or with
\* watchContextResource.
ASSUME InitAssumption ==
  /\ InitSpecs \subseteq ManagedResource
  /\ InitClusters \subseteq Cluster
  /\ \A spec \in InitSpecs :
       spec.trigger.interval \/ spec.trigger.shared
         => spec.trigger.watch = spec.context
  /\ \A start \in InitClusters, o \in Objects : start[o].version = 1

\* A request of the manager, of an interval, and of an event.
Full == [trigger |-> FALSE, object |-> NoObject]
Tick == [trigger |-> TRUE, object |-> NoObject]
EventOf(o) == [trigger |-> TRUE, object |-> o]
Request == {Full, Tick} \cup {EventOf(o) : o \in Objects}

Caches == {"context", "trigger"}
Idle == [pc |-> "idle", req |-> Full, data |-> 0, context |-> 0]

TypeOK ==
  /\ mr \in ManagedResource
  /\ log \in Seq(Cluster) /\ Len(log) > 0
  /\ place \in [Caches -> 0..Len(log)]
  /\ events \in SUBSET Objects
  /\ queue \in SUBSET Request
  /\ wrk \in [pc : {"idle", "triggers", "contexts", "apply"}, req : Request,
              data : Nat, context : Nat]
  /\ applied \in [Objects -> [version : Nat, asOf : Nat]]
  /\ restarts \in Nat /\ extras \in Nat

\* cacheFor: watchContextResource uses the cache of the context, and what is
\* watched for a context causes no requests.
TriggerDefinition == IF mr.trigger.shared THEN mr.context ELSE mr.trigger.watch
\* Faulty: the context is watched a second time.
TriggerCacheOfItsOwn == "trigger"
TriggerCache == IF mr.trigger.shared THEN "context" ELSE "trigger"
Watched == {"context"} \cup (IF mr.trigger.interval THEN {} ELSE {TriggerCache})

\* What the watch and the filter of an informer let through.
Selects(d, o, state) ==
  /\ state.exists
  /\ d.name # "" => o.name = d.name
  /\ CASE d.namespace = "unset" -> o.namespace = OwnNamespace
       [] d.namespace = ""      -> TRUE
       [] OTHER                 -> o.namespace = d.namespace
  /\ d.label => state.label
  /\ d.match = {} \/ o.name \in d.match
  /\ o.name \notin d.ignore

\* The version of an object in a cache, 0 if it is not there.
VersionIn(d, o, p) ==
  IF p > 0 /\ Selects(d, o, log[p][o]) THEN log[p][o].version ELSE 0

Init ==
  /\ mr \in InitSpecs
  /\ \E start \in InitClusters : log = <<start>>
  /\ place = [c \in Caches |-> 0]
  /\ events = {}
  /\ queue = {Full}
  /\ wrk = Idle
  /\ applied = [o \in Objects |-> [version |-> 0, asOf |-> 0]]
  /\ restarts = 0 /\ extras = 0

------------------------------------------------------------------------------
(* The cluster and the informers *)

\* Somebody creates, changes, labels or deletes an object.
Change(o) ==
  /\ Len(log) < MaxStates
  /\ \E exists, label \in BOOLEAN :
       /\ exists \/ log[Len(log)][o].exists
       /\ label => exists
       /\ log' = Append(log, [log[Len(log)] EXCEPT ![o] =
                   [exists |-> exists, label |-> label,
                    version |-> Len(log) + 1]])
  /\ UNCHANGED <<mr, place, events, queue, wrk, applied, restarts, extras>>

EventsOf(c, changed) ==
  IF mr.trigger.interval \/ c # TriggerCache THEN {} ELSE changed

Differ(p, q) ==
  {o \in Objects : VersionIn(TriggerDefinition, o, p)
                     # VersionIn(TriggerDefinition, o, q)}

\* Faulty: nobody is told of deletions.
AdvanceWithoutDeletions(c) ==
  /\ c \in Watched
  /\ \E p \in place[c] + 1 .. Len(log) :
       /\ place' = [place EXCEPT ![c] = p]
       /\ events' = events \cup
            EventsOf(c, {o \in Differ(place[c], p) :
                           VersionIn(TriggerDefinition, o, p) > 0})
  /\ UNCHANGED <<mr, log, queue, wrk, applied, restarts, extras>>

\* Faulty: another API server, which is behind, is listed.
AdvanceToAnyState(c) ==
  /\ c \in Watched
  /\ \E p \in (1 .. Len(log)) \ {place[c]} :
       /\ place' = [place EXCEPT ![c] = p]
       /\ events' = events \cup EventsOf(c, Differ(place[c], p))
  /\ UNCHANGED <<mr, log, queue, wrk, applied, restarts, extras>>

\* An informer lists and afterwards watches; after a broken watch it lists
\* again and skips states.  What differs are events, for the trigger only.
Advance(c) ==
  /\ c \in Watched
  /\ \E p \in place[c] + 1 .. Len(log) :
       /\ place' = [place EXCEPT ![c] = p]
       /\ events' = events \cup EventsOf(c, Differ(place[c], p))
  /\ UNCHANGED <<mr, log, queue, wrk, applied, restarts, extras>>

Extra == extras < MaxExtras /\ extras' = extras + 1

\* Faulty: the name of the trigger is left out.
EnqueueUnnamed(o) ==
  /\ o \in events
  /\ events' = events \ {o}
  /\ queue' = queue \cup {[trigger |-> FALSE, object |-> o]}
  /\ UNCHANGED <<mr, log, place, wrk, applied, restarts, extras>>

\* staticMapFunc: the request names the object and says nothing of its state.
Enqueue(o) ==
  /\ o \in events
  /\ events' = events \ {o}
  /\ queue' = queue \cup {EventOf(o)}
  /\ UNCHANGED <<mr, log, place, wrk, applied, restarts, extras>>

\* An informer resyncs: handlers are called again for what it holds.
Resync(o) ==
  /\ Extra
  /\ ~mr.trigger.interval
  /\ VersionIn(TriggerDefinition, o, place[TriggerCache]) > 0
  /\ events' = events \cup {o}
  /\ UNCHANGED <<mr, log, place, queue, wrk, applied, restarts>>

\* setupIntervalTrigger.
IntervalTrigger ==
  /\ mr.trigger.interval
  /\ queue' = queue \cup {Tick}
  /\ UNCHANGED <<mr, log, place, events, wrk, applied, restarts, extras>>

\* The manager sends an empty request whenever it reconciles.
Send ==
  /\ Extra
  /\ queue' = queue \cup {Full}
  /\ UNCHANGED <<mr, log, place, events, wrk, applied, restarts>>

------------------------------------------------------------------------------
(* The worker *)

\* The controller starts its worker when all that is watched has synced.
Take(req) ==
  /\ wrk.pc = "idle" /\ req \in queue
  /\ \A c \in Watched : place[c] > 0
  /\ queue' = queue \ {req}
  /\ wrk' = [Idle EXCEPT !.pc = "triggers", !.req = req]
  /\ UNCHANGED <<mr, log, place, events, applied, restarts, extras>>

\* renderTriggers reads the object as it is in the cache by now; null if it is
\* not there.
RenderTriggers ==
  /\ wrk.pc = "triggers"
  /\ wrk' = [wrk EXCEPT !.pc = "contexts",
               !.data = IF wrk.req.object = NoObject THEN 0
                        ELSE place[TriggerCache]]
  /\ UNCHANGED <<mr, log, place, events, queue, applied, restarts, extras>>

RenderContexts ==
  /\ wrk.pc = "contexts"
  /\ wrk' = [wrk EXCEPT !.pc = "apply", !.context = place["context"]]
  /\ UNCHANGED <<mr, log, place, events, queue, applied, restarts, extras>>

\* The template: the derived objects it returns, with the version they are
\* derived from and 0 for those it deletes.
Output(req, data, context) ==
  IF req.object # NoObject
  THEN {<<req.object, VersionIn(TriggerDefinition, req.object, data)>>}
  ELSE {out \in Objects \X (1..Len(log)) :
          out[2] = VersionIn(mr.context, out[1], context)}

Returned == Output(wrk.req, wrk.data, wrk.context)
AsOf == IF wrk.req.object # NoObject THEN wrk.data ELSE wrk.context

ApplyOutput(outs) ==
  applied' = [o \in Objects |->
    IF \E out \in outs : out[1] = o
    THEN [version |-> (CHOOSE out \in outs : out[1] = o)[2], asOf |-> AsOf]
    ELSE applied[o]]

Apply ==
  /\ wrk.pc = "apply"
  /\ ApplyOutput(Returned)
  /\ wrk' = Idle
  /\ UNCHANGED <<mr, log, place, events, queue, restarts, extras>>

\* Faulty: the request is forgotten.
ApplyFailsForgetting ==
  /\ wrk.pc = "apply" /\ Extra
  /\ \E outs \in SUBSET Returned : ApplyOutput(outs)
  /\ wrk' = Idle
  /\ UNCHANGED <<mr, log, place, events, queue, restarts>>

\* Some of the objects are refused, or none is applied: the request comes
\* back, without what was read for it.
ApplyFails ==
  /\ wrk.pc = "apply" /\ Extra
  /\ \E outs \in SUBSET Returned : ApplyOutput(outs)
  /\ queue' = queue \cup {wrk.req}
  /\ wrk' = Idle
  /\ UNCHANGED <<mr, log, place, events, restarts>>

\* A new instance, in this process or the next, starts with empty caches and
\* an empty queue; the manager sends it a request.
Restart ==
  /\ Extra
  /\ restarts' = restarts + 1
  /\ place' = [c \in Caches |-> 0]
  /\ events' = {}
  /\ queue' = {Full}
  /\ wrk' = Idle
  /\ applied' = [o \in Objects |-> [applied[o] EXCEPT !.asOf = 0]]
  /\ UNCHANGED <<mr, log>>

------------------------------------------------------------------------------
(* The command line *)

\* objectSelectorForClusterResource and objectSelectingReader: what the API
\* server lists by field and label selectors, and what is left of it.
ListSelected(d, p) ==
  LET ns == IF d.namespace = "unset" THEN OwnNamespace ELSE d.namespace IN
  {o \in Objects : /\ log[p][o].exists
                   /\ d.name \in {"", o.name} /\ ns \in {"", o.namespace}
                   /\ d.label => log[p][o].label}

\* Faulty: ignoreNames is only looked at next to matchNames.
ListMatching(d, p) ==
  {o \in ListSelected(d, p) :
     d.match # {} => o.name \in d.match /\ o.name \notin d.ignore}
List(d, p) ==
  {o \in ListSelected(d, p) :
     /\ d.match # {} => o.name \in d.match
     /\ o.name \notin d.ignore}

\* The trigger that stands for one with watchContextResource has no interval.
CollectsInterval == mr.trigger.interval /\ ~mr.trigger.shared

\* collectInput: the empty trigger, then one for each object of a watch or one
\* for an interval, listed in state p; afterwards the context, in state q.
CollectInput(p, q) ==
  [triggers |->
     {Full} \cup IF CollectsInterval THEN {Tick} ELSE
       {EventOf(o) : o \in List(IF mr.trigger.shared THEN mr.context
                                 ELSE mr.trigger.watch, p)},
   context |-> {<<o, log[q][o].version>> : o \in List(mr.context, q)}]

\* renderFromInput: what the template returns for each of the triggers, which
\* carry the object as it was listed.
RenderFromInput(p, q) ==
  LET input == CollectInput(p, q) IN
  [req \in input.triggers |->
     IF req.object # NoObject THEN {<<req.object, log[p][req.object].version>>}
                              ELSE input.context]

------------------------------------------------------------------------------
Next ==
  \/ \E o \in Objects : Change(o) \/ Enqueue(o) \/ Resync(o)
  \/ \E c \in Caches : Advance(c)
  \/ IntervalTrigger \/ Send
  \/ \E req \in queue : Take(req)
  \/ RenderTriggers \/ RenderContexts \/ Apply \/ ApplyFails
  \/ Restart

Spec == Init /\ [][Next]_vars

\* Watches deliver, the ticker ticks, and the worker takes the requests in the
\* order in which they came, so each of them in the end.
FairSpec ==
  /\ Spec
  /\ \A c \in Caches : WF_vars(Advance(c))
  /\ \A o \in Objects : WF_vars(Enqueue(o))
  /\ WF_vars(IntervalTrigger)
  /\ \A req \in Request : SF_vars(Take(req))
  /\ WF_vars(RenderTriggers \/ RenderContexts \/ Apply)

------------------------------------------------------------------------------
(* Properties *)

\* "watchContextResource guarantees read-after-trigger consistency with the
\* underlying context": the context a template sees is not older than the
\* object of the trigger, although they are read one after the other, nor
\* older than the event that caused the request.
ReadAfterTrigger ==
  mr.trigger.shared /\ wrk.pc = "apply" => wrk.context >= wrk.data

\* With watchContextResource an instance never replaces what it derived from
\* an object by what it derives from an older state of the cluster, whichever
\* requests are merged, retried or taken in another order than they were
\* caused.  Only the next instance may start from older caches.
GoesForward ==
  \A o \in Objects :
    mr.trigger.shared /\ restarts' = restarts
      => applied'[o].asOf >= applied[o].asOf
NeverGoesBack == [][GoesForward]_vars

\* What the command line renders is what the instance applies for the same
\* requests when its caches are at the states the input was collected from,
\* except for a trigger with an interval and watchContextResource.
OfflineAgrees ==
  ~(mr.trigger.interval /\ mr.trigger.shared) =>
    \A q \in 1..Len(log) : \A p \in 1..q :
      LET told == {o \in Objects : ~mr.trigger.interval
                                 /\ VersionIn(TriggerDefinition, o, p) > 0} IN
      RenderFromInput(p, q) =
        [req \in {Full} \cup (IF mr.trigger.interval THEN {Tick} ELSE {})
                       \cup {EventOf(o) : o \in told}
           |-> Output(req, p, q)]

\* With watchContextResource no event gets lost: unless a request for an
\* object is under way, what is derived from it is derived from what the cache
\* holds, and from nothing if the cache does not hold it, whichever requests
\* were merged or failed half way.  (A new instance does not know of what was
\* derived from an object that went away while nobody looked.)
UnderWay(o) ==
  \/ o \in events \/ EventOf(o) \in queue
  \/ wrk.pc # "idle" /\ wrk.req = EventOf(o)
NoEventLost ==
  mr.trigger.shared /\ ~mr.trigger.interval =>
    \A o \in Objects :
      LET held == VersionIn(mr.context, o, place["context"]) IN
      \/ UnderWay(o)
      \/ held = 0 /\ restarts > 0
      \/ applied[o].version = held

\* Once the cluster stops changing, what is derived from every object that the
\* context selects is derived from it as it is, when the trigger is an
\* interval or watches the context.  (One that watches a cache of its own may
\* apply an older context last.)
Latest == Len(log)
DerivedFollow ==
  <>[](mr.trigger.interval \/ mr.trigger.shared =>
         \A o \in Objects : VersionIn(mr.context, o, Latest) > 0 =>
            applied[o].version = VersionIn(mr.context, o, Latest))

\* As long as the instance runs, what was derived from an object that is gone,
\* or no longer selected, is deleted: the event of its deletion is not lost,
\* whether requests are merged or fail.  (A restart loses these events.)
DeletionsFollow ==
  <>[](mr.trigger.shared /\ ~mr.trigger.interval /\ restarts = 0 =>
         \A o \in Objects : VersionIn(mr.context, o, Latest) = 0 =>
            applied[o].version = 0)

=============================================================================
