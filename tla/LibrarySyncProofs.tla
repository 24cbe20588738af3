--------------------------- MODULE LibrarySyncProofs ---------------------------
(***************************************************************************)
(* Proofs about LibrarySync for any number of changes.                     *)
(*                                                                         *)
(* As long as nothing is deleted, generations count versions (Counting),   *)
(* and the caches cannot fall behind a check (InStep).  Across deletions   *)
(* what holds is said by generations (Answered).                           *)
(***************************************************************************)
EXTENDS LibrarySync, TLAPS

------------------------------------------------------------------------------
(* The inductive invariant *)

\* A library that was never deleted has its version as its generation.
Counting ==
  deletions = 0 =>
    \A v \in 1..Len(log) : log[v].exists /\ log[v].generation = v

\* From the comparison on, the controller's cache is not behind the check.
InStep ==
  /\ pc \in {"compare", "triggers", "template"} => render.checked \in 1..Len(log)
  /\ deletions = 0 /\ pc \in {"triggers", "template"} =>
       controller >= render.checked

\* Version c of the library, once it passed for version v in the comparison,
\* has the generation of v.
Passes(v, c) == log[c].exists /\ log[c].generation = log[v].generation

\* From the comparison on, some version the controller's cache has reached
\* passed; what is imported is not older than one that did.
PassedCheck ==
  pc \in {"triggers", "template"} =>
    \E c \in 1..controller : Passes(render.checked, c)
ImportedLater ==
  rendered # NoReads =>
    /\ rendered.checked \in 1..Len(log) /\ rendered.import \in 1..Len(log)
    /\ \E c \in 1..rendered.import : Passes(rendered.checked, c)

\* Without a request for a newer version, what is checked is what the handler
\* was called for.
Heard ==
  ~queued /\ told = trigger =>
    /\ pc = "idle" => rendered # NoReads /\ rendered.checked = trigger
    /\ pc \in {"compare", "triggers", "template"} => render.checked = trigger

Answered == PassedCheck /\ ImportedLater /\ Heard

------------------------------------------------------------------------------
(* Type correctness *)

\* The last version is a library.
LEMMA LatestInLibrary ==
  ASSUME log \in Seq(Library), trigger \in 1..Len(log)
  PROVE  Latest \in Library
<1>1. Len(log) \in 1..Len(log)
  OBVIOUS
<1> QED
  BY <1>1 DEF Latest

\* What is read is a version.
LEMMA ReadsUpdate ==
  ASSUME NEW r \in Reads, NEW v \in Nat
  PROVE  /\ [r EXCEPT !.checked = v] \in Reads
         /\ [r EXCEPT !.data = v] \in Reads
         /\ [r EXCEPT !.import = v] \in Reads
         /\ NoReads \in Reads
  BY DEF Reads, NoReads, Version

\* The caches and the events stay within what the API server wrote, also
\* when the library is deleted and recreated.
THEOREM TypeCorrect == Spec => []TypeOK
<1>1. Init => TypeOK
  <2> SUFFICES ASSUME Init PROVE TypeOK
    OBVIOUS
  <2>1. log \in Seq(Library) /\ Len(log) = 1
    BY DEF Init, Library
  <2>2. NoReads \in Reads
    BY DEF Reads, NoReads, Version
  <2>3. trigger \in 1..Len(log) /\ controller \in 1..Len(log) /\ told \in 0..trigger
    BY <2>1 DEF Init
  <2>4. deletions \in Nat /\ queued \in BOOLEAN /\ pc = "idle"
    BY DEF Init
  <2> QED
    BY <2>1, <2>2, <2>3, <2>4 DEF Init, TypeOK
<1>2. TypeOK /\ [Next]_vars => TypeOK'
  <2> SUFFICES ASSUME TypeOK, [Next]_vars PROVE TypeOK'
    OBVIOUS
  <2> USE DEF TypeOK, Library, Version
  <2>0. trigger \in Nat /\ controller \in Nat
    OBVIOUS
  <2>1. ASSUME NEW lib \in Library, Write(lib), deletions' \in Nat
       PROVE  TypeOK'
    BY <2>1 DEF Write, cacheVars
  <2>2. CASE Update
    <3>1. [Latest EXCEPT !.generation = @ + 1] \in Library
      BY LatestInLibrary
    <3> QED
      BY <2>1, <2>2, <3>1 DEF Update
  <2>3. CASE Delete
    <3>1. [Latest EXCEPT !.exists = FALSE] \in Library
      BY LatestInLibrary
    <3> QED
      BY <2>1, <2>3, <3>1 DEF Delete
  <2>4. CASE Recreate
    BY <2>1, <2>4 DEF Recreate
  <2>5. CASE TriggerCacheAdvances
    BY <2>5 DEF TriggerCacheAdvances, clusterVars
  <2>6. CASE ControllerCacheAdvances
    BY <2>6 DEF ControllerCacheAdvances, clusterVars
  <2>7. CASE TriggerEvent
    BY <2>7 DEF TriggerEvent, clusterVars
  <2>8. CASE Take
    BY <2>8, ReadsUpdate DEF Take, clusterVars, cacheVars
  <2>9. CASE LoadFromTriggerCache
    <3>1. [render EXCEPT !.checked = trigger] \in Reads /\ NoReads \in Reads
      BY <2>0, ReadsUpdate
    <3> QED
      BY <2>9, <3>1 DEF LoadFromTriggerCache, Retry, clusterVars, cacheVars
  <2>10. CASE CompareGenerations
    BY <2>10 DEF CompareGenerations, Retry, clusterVars, cacheVars
  <2>11. CASE RenderTriggers
    <3>1. [render EXCEPT !.data = trigger] \in Reads /\ NoReads \in Reads
      BY <2>0, ReadsUpdate
    <3> QED
      BY <2>11, <3>1 DEF RenderTriggers, clusterVars, cacheVars
  <2>12. CASE EvaluateTemplate
    <3>1. [render EXCEPT !.import = controller] \in Reads /\ NoReads \in Reads
      BY <2>0, ReadsUpdate
    <3> QED
      BY <2>12, <3>1 DEF EvaluateTemplate, Retry, clusterVars, cacheVars
  <2>13. CASE UNCHANGED vars
    BY <2>13 DEF vars
  <2> QED
    BY <2>2, <2>3, <2>4, <2>5, <2>6, <2>7, <2>8, <2>9, <2>10, <2>11, <2>12,
       <2>13 DEF Next, Reconcile
<1> QED
  BY <1>1, <1>2, PTL DEF Spec

------------------------------------------------------------------------------
(* The import and the check *)

\* Without deletions generations count the versions.
LEMMA GenerationsCount == Spec => []Counting
<1>1. Init => Counting
  BY DEF Init, Counting
<1>2. TypeOK /\ Counting /\ [Next]_vars => Counting'
  <2> SUFFICES ASSUME TypeOK, Counting, [Next]_vars PROVE Counting'
    OBVIOUS
  <2> USE DEF Counting
  <2>1. CASE Update
    <3> SUFFICES ASSUME deletions = 0 PROVE Counting'
      BY <2>1 DEF Update
    <3>1. log' = Append(log, [Latest EXCEPT !.generation = @ + 1])
      BY <2>1 DEF Update, Write
    <3>2. Latest \in Library /\ Latest.exists /\ Latest.generation = Len(log)
      BY DEF Latest, TypeOK
    <3> QED
      BY <2>1, <3>1, <3>2 DEF Update, TypeOK, Library
  <2>2. CASE Delete
    <3>1. deletions' # 0
      BY <2>2 DEF Delete, TypeOK
    <3> QED
      BY <3>1
  <2>3. CASE Recreate
    BY <2>3 DEF Recreate, Latest, TypeOK
  <2>4. CASE UNCHANGED clusterVars
    BY <2>4 DEF clusterVars
  <2> QED
    BY <2>1, <2>2, <2>3, <2>4 DEF Next, Reconcile, TriggerCacheAdvances,
       ControllerCacheAdvances, TriggerEvent, Take, LoadFromTriggerCache,
       CompareGenerations, RenderTriggers, EvaluateTemplate, vars, clusterVars
<1> QED
  BY <1>1, <1>2, TypeCorrect, PTL DEF Spec

\* The caches only move on after the check.
LEMMA StaysInStep == Spec => [](InStep /\ ImportsWhatWasChecked)
<1> DEFINE Inv == InStep /\ ImportsWhatWasChecked
<1>1. Init => Inv
  BY DEF Init, InStep, ImportsWhatWasChecked, NoReads
<1>2. TypeOK /\ TypeOK' /\ Counting /\ Inv /\ [Next]_vars => Inv'
  <2> SUFFICES ASSUME TypeOK, TypeOK', Counting, Inv, [Next]_vars PROVE Inv'
    OBVIOUS
  <2> USE DEF InStep, ImportsWhatWasChecked, TypeOK, Reads, Version
  <2>1. ASSUME NEW lib, Write(lib), deletions' = 0 => deletions = 0
        PROVE  Inv'
    <3>1. 1..Len(log) \subseteq 1..Len(log')
      BY <2>1 DEF Write
    <3> QED
      BY <2>1, <3>1 DEF Write, cacheVars
  <2>2. CASE Update \/ Delete \/ Recreate
    <3>1. deletions \in Nat /\ (deletions' = deletions \/ deletions' = deletions + 1)
      BY <2>2 DEF Update, Delete, Recreate
    <3>2. deletions' = 0 => deletions = 0
      BY <3>1
    <3> QED
      BY <2>1, <2>2, <3>2 DEF Update, Delete, Recreate
  <2>3. CASE TriggerCacheAdvances
    BY <2>3 DEF TriggerCacheAdvances, clusterVars
  <2>4. CASE ControllerCacheAdvances
    BY <2>4 DEF ControllerCacheAdvances, clusterVars
  <2>5. CASE TriggerEvent
    BY <2>5 DEF TriggerEvent, clusterVars
  <2>6. CASE Take
    BY <2>6 DEF Take, clusterVars, cacheVars
  <2>7. CASE LoadFromTriggerCache
    BY <2>7 DEF LoadFromTriggerCache, Retry, clusterVars, cacheVars
  <2>8. CASE CompareGenerations
    BY <2>8 DEF CompareGenerations, SameGeneration, Counting, Retry,
                clusterVars, cacheVars
  <2>9. CASE RenderTriggers
    BY <2>9 DEF RenderTriggers, clusterVars, cacheVars
  <2>10. CASE EvaluateTemplate
    BY <2>10 DEF EvaluateTemplate, Retry, clusterVars, cacheVars
  <2>11. CASE UNCHANGED vars
    BY <2>11 DEF vars
  <2> QED
    BY <2>2, <2>3, <2>4, <2>5, <2>6, <2>7, <2>8, <2>9, <2>10, <2>11
       DEF Next, Reconcile
<1>3. Spec => []Counting
  BY GenerationsCount
<1> QED
  BY <1>1, <1>2, <1>3, TypeCorrect, PTL DEF Spec

\* As long as the library is only updated, no render for its trigger imports it
\* as it was before the trigger.
THEOREM NeverBehindTheTrigger == Spec => []ImportsWhatWasChecked
  BY StaysInStep, PTL

------------------------------------------------------------------------------
(* The request and the import *)

\* The versions there are stay as they are.
LEMMA VersionsStay ==
  ASSUME TypeOK, [Next]_vars
  PROVE  Len(log) <= Len(log') /\ \A v \in 1..Len(log) : log'[v] = log[v]
<1>1. ASSUME NEW lib, Write(lib)
      PROVE  Len(log) <= Len(log') /\ \A v \in 1..Len(log) : log'[v] = log[v]
  BY <1>1 DEF Write, TypeOK
<1>2. log' = log \/ \E lib : Write(lib)
  BY DEF Next, Reconcile, Update, Delete, Recreate, TriggerCacheAdvances,
     ControllerCacheAdvances, TriggerEvent, Take, LoadFromTriggerCache,
     CompareGenerations, RenderTriggers, EvaluateTemplate, vars, clusterVars
<1> QED
  BY <1>1, <1>2 DEF TypeOK

\* What passed once still passes.
LEMMA StillPasses ==
  ASSUME TypeOK, [Next]_vars, NEW v \in 1..Len(log), NEW c \in 1..Len(log),
         Passes(v, c)
  PROVE  Passes(v, c)' /\ v \in 1..Len(log') /\ c \in 1..Len(log')
<1>1. /\ Len(log) \in Nat /\ Len(log') >= Len(log)
      /\ log'[v] = log[v] /\ log'[c] = log[c]
  BY VersionsStay DEF TypeOK
<1> QED
  BY <1>1 DEF Passes

LEMMA AnsweredStep ==
  ASSUME TypeOK, TypeOK', InStep, Answered, [Next]_vars
  PROVE  Answered'
<1> USE DEF clusterVars, cacheVars
<1>a. PassedCheck /\ ImportedLater /\ Heard
  BY DEF Answered
<1>b. /\ trigger \in 1..Len(log) /\ controller \in 1..Len(log)
      /\ told \in 0..trigger /\ controller \in Nat /\ trigger \in Nat
      /\ Len(log) \in Nat /\ Len(log') \in Nat /\ Len(log) <= Len(log')
      /\ render \in Reads /\ queued \in BOOLEAN
  BY VersionsStay DEF TypeOK
<1>c. ASSUME UNCHANGED rendered PROVE ImportedLater'
  <2>1. CASE rendered = NoReads
    BY <1>c, <2>1 DEF ImportedLater, NoReads
  <2>2. CASE rendered # NoReads
    <3>1. PICK v \in 1..Len(log), c \in 1..rendered.import :
            v = rendered.checked /\ Passes(v, c)
      BY <1>a, <2>2 DEF ImportedLater
    <3>2. c \in 1..Len(log) /\ rendered.import \in 1..Len(log')
      BY <1>a, <1>b, <2>2 DEF ImportedLater
    <3>3. Passes(v, c)' /\ v \in 1..Len(log')
      BY <1>b, <3>1, <3>2, StillPasses
    <3> QED
      BY <1>c, <3>1, <3>2, <3>3 DEF ImportedLater, Passes
  <2> QED
    BY <2>1, <2>2
<1>d. ASSUME pc' \in {"triggers", "template"} => pc \in {"triggers", "template"},
             render'.checked = render.checked, controller <= controller',
             controller' \in Nat
      PROVE  PassedCheck'
  <2> SUFFICES ASSUME pc \in {"triggers", "template"} PROVE PassedCheck'
    BY <1>d DEF PassedCheck
  <2>1. PICK v \in 1..Len(log), c \in 1..controller :
          v = render.checked /\ Passes(v, c)
    BY <1>a DEF PassedCheck, InStep
  <2>2. c \in 1..Len(log) /\ c \in 1..controller'
    BY <1>b, <1>d
  <2>3. Passes(v, c)'
    BY <2>1, <2>2, StillPasses
  <2> QED
    BY <1>d, <2>1, <2>2, <2>3 DEF PassedCheck, Passes
<1>1. CASE UNCHANGED <<trigger, told, queued, pc, render, rendered>>
           /\ controller <= controller' /\ controller' \in Nat
  <2>1. PassedCheck' /\ ImportedLater'
    BY <1>1, <1>c, <1>d
  <2>2. Heard'
    BY <1>1, <1>a DEF Heard
  <2> QED
    BY <2>1, <2>2 DEF Answered
<1>2. CASE TriggerCacheAdvances \/ TriggerEvent
  <2>1. PassedCheck' /\ ImportedLater'
    BY <1>2, <1>b, <1>c, <1>d DEF TriggerCacheAdvances, TriggerEvent
  <2>2. Heard'
    BY <1>2, <1>b DEF TriggerCacheAdvances, TriggerEvent, Heard
  <2> QED
    BY <2>1, <2>2 DEF Answered
<1>3. CASE Take
  <2>1. pc' = "check" /\ UNCHANGED rendered
    BY <1>3 DEF Take
  <2>2. PassedCheck' /\ Heard'
    BY <2>1 DEF PassedCheck, Heard
  <2> QED
    BY <1>c, <2>1, <2>2 DEF Answered
<1>4. CASE LoadFromTriggerCache
  <2>1. UNCHANGED <<rendered, trigger>> /\ pc' \notin {"triggers", "template"}
    BY <1>4 DEF LoadFromTriggerCache, Retry
  <2>2. \/ queued'
        \/ pc' = "compare" /\ render'.checked = trigger
    BY <1>4, <1>b DEF LoadFromTriggerCache, Retry, Reads
  <2>3. PassedCheck' /\ Heard'
    BY <2>1, <2>2 DEF PassedCheck, Heard
  <2> QED
    BY <1>c, <2>1, <2>3 DEF Answered
<1>5. CASE CompareGenerations
  <2>1. /\ pc = "compare"
        /\ UNCHANGED <<log, trigger, told, controller, render, rendered>>
    BY <1>5 DEF CompareGenerations
  <2>2. CASE SameGeneration
    <3>1. pc' = "triggers" /\ UNCHANGED queued
      BY <1>5, <2>2 DEF CompareGenerations
    <3>2. PassedCheck'
      BY <1>b, <2>1, <2>2 DEF PassedCheck, SameGeneration, Passes
    <3>3. Heard'
      BY <1>a, <2>1, <3>1 DEF Heard
    <3> QED
      BY <1>c, <2>1, <3>2, <3>3 DEF Answered
  <2>3. CASE ~SameGeneration
    <3>1. pc' = "idle" /\ queued'
      BY <1>5, <2>3 DEF CompareGenerations, Retry
    <3>2. PassedCheck' /\ Heard'
      BY <3>1 DEF PassedCheck, Heard
    <3> QED
      BY <1>c, <2>1, <3>2 DEF Answered
  <2> QED
    BY <2>2, <2>3
<1>6. CASE RenderTriggers
  <2>1. /\ pc = "triggers" /\ pc' = "template"
        /\ render'.checked = render.checked
        /\ UNCHANGED <<trigger, told, controller, queued, rendered>>
    BY <1>6, <1>b DEF RenderTriggers, Reads
  <2>2. PassedCheck'
    BY <1>b, <1>d, <2>1
  <2>3. Heard'
    BY <1>a, <2>1 DEF Heard
  <2> QED
    BY <1>c, <2>1, <2>2, <2>3 DEF Answered
<1>7. CASE EvaluateTemplate
  <2>1. /\ pc = "template" /\ pc' = "idle"
        /\ UNCHANGED <<log, trigger, told, controller>>
    BY <1>7 DEF EvaluateTemplate, Retry
  <2>2. PassedCheck'
    BY <2>1 DEF PassedCheck
  <2>3. CASE log[controller].exists
    <3>1. /\ rendered'.checked = render.checked /\ rendered'.import = controller
          /\ UNCHANGED queued
      BY <1>7, <1>b, <2>3 DEF EvaluateTemplate, Reads
    <3>2. render.checked \in 1..Len(log)
      BY <2>1 DEF InStep
    <3>3. \E c \in 1..controller : Passes(render.checked, c)
      BY <1>a, <2>1 DEF PassedCheck
    <3>4. ImportedLater'
      BY <1>b, <2>1, <3>1, <3>2, <3>3 DEF ImportedLater, Passes
    <3>5. rendered' # NoReads
      BY <1>b, <3>1 DEF NoReads
    <3>6. Heard'
      BY <1>a, <2>1, <3>1, <3>5 DEF Heard, NoReads
    <3> QED
      BY <2>2, <3>4, <3>6 DEF Answered
  <2>4. CASE ~log[controller].exists
    <3>1. queued' /\ UNCHANGED rendered
      BY <1>7, <2>4 DEF EvaluateTemplate, Retry
    <3> QED
      BY <1>c, <2>2, <3>1 DEF Answered, Heard
  <2> QED
    BY <2>3, <2>4
<1> QED
  BY <1>1, <1>2, <1>3, <1>4, <1>5, <1>6, <1>7, <1>b DEF Next, Reconcile,
     Update, Delete, Recreate, Write, ControllerCacheAdvances, vars

\* The handler of a trigger is not called in vain: the import follows, unless
\* a version before it had the same generation.
THEOREM EveryUpdateImported == Spec => []NoUpdateMissed
<1>1. Init => Answered
  BY DEF Init, Answered, PassedCheck, ImportedLater, Heard
<1>2. TypeOK /\ TypeOK' /\ InStep /\ Answered /\ [Next]_vars => Answered'
  BY AnsweredStep
<1>3. TypeOK /\ Answered => NoUpdateMissed
  <2> SUFFICES ASSUME TypeOK, Answered, pc = "idle", ~queued,
                      told = Len(log), LatestIsDistinct
               PROVE  rendered.import = Len(log)
    BY DEF NoUpdateMissed
  <2>1. Len(log) \in Nat /\ told = trigger /\ trigger = Len(log)
    BY DEF TypeOK
  <2>2. rendered # NoReads /\ rendered.checked = Len(log)
    BY <2>1 DEF Answered, Heard
  <2>3. rendered.import \in 1..Len(log)
    BY <2>2 DEF Answered, ImportedLater
  <2>4. PICK c \in 1..rendered.import : Passes(Len(log), c)
    BY <2>2 DEF Answered, ImportedLater
  <2>5. c \notin 1..Len(log) - 1
    BY <2>4 DEF Passes, LatestIsDistinct, Latest
  <2> QED
    BY <2>1, <2>3, <2>5
<1> QED
  BY <1>1, <1>2, <1>3, TypeCorrect, StaysInStep, PTL DEF Spec

=============================================================================
