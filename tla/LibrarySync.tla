------------------------------ MODULE LibrarySync ------------------------------
(***************************************************************************)
(* A ManagedResource that is triggered by the JsonnetLibrary its template  *)
(* imports.  The trigger and its data come from the instance's own cache,  *)
(* the import from the controller's cache; both follow the API server,     *)
(* each at its own pace.  Before it renders, the reconciler compares the   *)
(* generation of the library in the two.                                   *)
(*                                                                         *)
(* A version of the library is its place in `log', everything the API      *)
(* server ever held for its name.                                          *)
(***************************************************************************)
EXTENDS Integers, Sequences

CONSTANTS
  MaxChanges,  \* bound on the versions of the library
  MaxDeletions \* bound on its deletions

ASSUME BoundAssumption == MaxChanges \in Nat \ {0} /\ MaxDeletions \in Nat

VARIABLES
  log,        \* the versions of the library, oldest first
  deletions,  \* how often it was deleted
  trigger,    \* the version in the trigger's cache
  told,       \* the version the trigger's event handler was last called for
  controller, \* the version in the controller's cache
  queued,     \* the instance's queue holds the request of the trigger
  pc,         \* where the reconciler is
  render,     \* the versions it has read: checked, data and import
  rendered    \* those of the last template that was rendered

vars == <<log, deletions, trigger, told, controller, queued, pc, render,
          rendered>>
clusterVars == <<log, deletions>>
cacheVars == <<trigger, told, controller>>

\* The generation starts again when the library is recreated.
Library == [exists : BOOLEAN, generation : Nat]
Version == Nat
Reads == [checked : Version, data : Version, import : Version]
NoReads == [checked |-> 0, data |-> 0, import |-> 0]

TypeOK ==
  /\ log \in Seq(Library)
  /\ deletions \in Nat
  /\ trigger \in 1..Len(log) /\ controller \in 1..Len(log)
  /\ told \in 0..trigger
  /\ queued \in BOOLEAN
  /\ pc \in {"idle", "check", "compare", "triggers", "template"}
  /\ render \in Reads /\ rendered \in Reads

\* Both caches are synced before the instance starts; its trigger then gets
\* an event for what the cache holds.
Init ==
  /\ log = <<[exists |-> TRUE, generation |-> 1]>>
  /\ deletions = 0
  /\ trigger = 1 /\ controller = 1 /\ told = 0
  /\ queued = FALSE
  /\ pc = "idle"
  /\ render = NoReads /\ rendered = NoReads

------------------------------------------------------------------------------
(* The cluster and the caches *)

Latest == log[Len(log)]

Write(lib) ==
  /\ Len(log) < MaxChanges
  /\ log' = Append(log, lib)
  /\ UNCHANGED <<cacheVars, queued, pc, render, rendered>>

Update ==
  /\ Latest.exists
  /\ Write([Latest EXCEPT !.generation = @ + 1])
  /\ UNCHANGED deletions

Delete ==
  /\ Latest.exists
  /\ deletions < MaxDeletions
  /\ deletions' = deletions + 1
  /\ Write([Latest EXCEPT !.exists = FALSE])

Recreate ==
  /\ ~Latest.exists
  /\ Write([exists |-> TRUE, generation |-> 1])
  /\ UNCHANGED deletions

TriggerCacheAdvances ==
  /\ trigger < Len(log)
  /\ trigger' = trigger + 1
  /\ UNCHANGED <<clusterVars, told, controller, queued, pc, render, rendered>>

ControllerCacheAdvances ==
  /\ controller < Len(log)
  /\ controller' = controller + 1
  /\ UNCHANGED <<clusterVars, trigger, told, queued, pc, render, rendered>>

\* Faulty: the handler is called before the cache holds the version.
TriggerEventEarly ==
  /\ told < Len(log)
  /\ told' = told + 1
  /\ queued' = TRUE
  /\ UNCHANGED <<clusterVars, trigger, controller, pc, render, rendered>>

\* staticMapFunc turns each event, also of a deletion, into the same request.
TriggerEvent ==
  /\ told < trigger
  /\ told' = told + 1
  /\ queued' = TRUE
  /\ UNCHANGED <<clusterVars, trigger, controller, pc, render, rendered>>

------------------------------------------------------------------------------
(* Reconcile *)

Take ==
  /\ pc = "idle" /\ queued
  /\ queued' = FALSE
  /\ render' = NoReads
  /\ pc' = "check"
  /\ UNCHANGED <<clusterVars, cacheVars, rendered>>

Retry == pc' = "idle" /\ queued' = TRUE

\* jsonnetLibraryCacheNeedsSync, Get from the trigger's cache: an error when
\* the library is gone.
LoadFromTriggerCache ==
  /\ pc = "check"
  /\ IF log[trigger].exists
     THEN /\ render' = [render EXCEPT !.checked = trigger]
          /\ pc' = "compare"
          /\ UNCHANGED queued
     ELSE Retry /\ UNCHANGED render
  /\ UNCHANGED <<clusterVars, cacheVars, rendered>>

SameGeneration ==
  /\ log[controller].exists
  /\ log[render.checked].generation = log[controller].generation

\* Faulty: the request waits for another event, in place of ten milliseconds.
CompareDroppingRequest ==
  /\ pc = "compare"
  /\ pc' = IF SameGeneration THEN "triggers" ELSE "idle"
  /\ UNCHANGED <<clusterVars, cacheVars, queued, render, rendered>>

\* Faulty: a library that is there in both caches is taken to be in sync.
CompareExistence ==
  /\ pc = "compare"
  /\ IF log[controller].exists THEN pc' = "triggers" /\ UNCHANGED queued
                               ELSE Retry
  /\ UNCHANGED <<clusterVars, cacheVars, render, rendered>>

\* The Get from the controller's cache.  An error and a cache that is behind
\* both bring the request back.
CompareGenerations ==
  /\ pc = "compare"
  /\ IF SameGeneration THEN pc' = "triggers" /\ UNCHANGED queued
                       ELSE Retry
  /\ UNCHANGED <<clusterVars, cacheVars, render, rendered>>

\* The trigger's data, null if the library is gone by now.
RenderTriggers ==
  /\ pc = "triggers"
  /\ render' = [render EXCEPT !.data = trigger]
  /\ pc' = "template"
  /\ UNCHANGED <<clusterVars, cacheVars, queued, rendered>>

\* The template's import is loaded once per render; without the library the
\* template fails.
EvaluateTemplate ==
  /\ pc = "template"
  /\ render' = NoReads
  /\ IF log[controller].exists
     THEN /\ rendered' = [render EXCEPT !.import = controller]
          /\ pc' = "idle"
          /\ UNCHANGED queued
     ELSE Retry /\ UNCHANGED rendered
  /\ UNCHANGED <<clusterVars, cacheVars>>

Reconcile ==
  \/ Take \/ LoadFromTriggerCache \/ CompareGenerations \/ RenderTriggers
  \/ EvaluateTemplate

Next ==
  \/ Update \/ Delete \/ Recreate
  \/ TriggerCacheAdvances \/ ControllerCacheAdvances \/ TriggerEvent
  \/ Reconcile

Spec == Init /\ [][Next]_vars

\* Watches deliver, and the instance's worker takes what is queued.
FairSpec ==
  /\ Spec
  /\ WF_vars(TriggerCacheAdvances) /\ WF_vars(ControllerCacheAdvances)
  /\ WF_vars(TriggerEvent) /\ WF_vars(Reconcile)

------------------------------------------------------------------------------
(* Properties *)

\* As long as a library is only updated, a render for its trigger imports it as
\* it was when the trigger was checked, or newer: the import is never behind
\* the event, although the check and the import are two reads.
ImportsWhatWasChecked ==
  deletions = 0 => rendered.import >= rendered.checked

\* "If espejote.io.JsonnetLibrary manifests are watched it is guaranteed that
\* the import cache is in sync with the trigger": once the library stops
\* changing, the last render used it as it is.
CatchesUp == <>[](Latest.exists => rendered.import = Len(log))

\* What the generations do guarantee, also across deletions: no update is
\* missed, whichever cache is ahead, when the last version has a generation
\* that none before it had.
LatestIsDistinct ==
  /\ Latest.exists
  /\ \A v \in 1..Len(log) - 1 :
       log[v].exists => log[v].generation # Latest.generation
CatchesUpByGeneration == <>[](LatestIsDistinct => rendered.import = Len(log))

\* The import does not wait for another event: when the handler has been called
\* for such a version and no request is left, it has been imported, although
\* the controller's cache may have been behind when the request was taken.
NoUpdateMissed ==
  pc = "idle" /\ ~queued /\ told = Len(log) /\ LatestIsDistinct
    => rendered.import = Len(log)

\* The trigger's `resource' "can be null on delete events": the event of a
\* library that stays deleted gets as far as the template.
DeletionReachesTemplate ==
  told = Len(log) /\ ~Latest.exists ~> pc = "template" \/ Latest.exists

=============================================================================
