------------------------ MODULE AdmissionWebhooksProofs ------------------------
(***************************************************************************)
(* Proofs about AdmissionWebhooks for any Admissions, replicas and bounds. *)
(*                                                                         *)
(* Caches only move on, and never past the API server (Behind).  Between   *)
(* them and the configurations are the reconciler's lists (Written), and   *)
(* what a request was sent by is not newer than what its writer knows      *)
(* (Asked).  Whatever can make a configuration differ from what the leader *)
(* knows puts the request back into its queue (Current).                   *)
(***************************************************************************)
EXTENDS AdmissionWebhooks, TLAPS

------------------------------------------------------------------------------
(* The inductive invariants *)

\* No cache is ahead of the API server.
Behind ==
  \A r \in Replicas, k \in Keys : cache[r][k].version <= server[k].version

\* What the leader wrote and what it has listed it still knows, and what it
\* has listed is not older than what it wrote before.
Written ==
  /\ \A k \in Keys : lists[k].version <= cache[leader][k].version
  /\ \A x \in wrote, k \in Keys :
       configs[x][k].version <= cache[leader][k].version
  /\ pc = "cluster" => \A x \in wrote, k \in Admissions :
       configs[x][k].version <= lists[k].version
  /\ pc \in Kinds => \A x \in wrote, k \in Keys :
       configs[x][k].version <= lists[k].version

\* Without a request in the queue, what has been listed is what the leader
\* knows, and the configuration that was written in this run is done.
Settled(x) ==
  x \notin contested /\ Webhooks(x, configs[x]) = Webhooks(x, cache[leader])
Current ==
  ~queued =>
    /\ pc = "idle" => \A x \in Kinds \ unseen : Settled(x)
    /\ pc = "cluster" => \A k \in Admissions : lists[k] = cache[leader][k]
    /\ pc \in Kinds => \A k \in Keys : lists[k] = cache[leader][k]
    /\ pc = "validating" => "mutating" \in unseen \/ Settled("mutating")

\* The writer of the rules of a request knows the Admission they are of.
Asked ==
  call # NoCall /\ call.writer \in Replicas =>
    call.rules <= cache[call.writer][call.key].version

------------------------------------------------------------------------------
(* Type correctness *)

LEMMA StateTypes ==
  /\ NoState \in State
  /\ Nothing \in [Keys -> State]
  /\ NoCall \notin Call
  BY DEF NoState, Nothing, State, NoCall, Call

\* Lists are lists of Admissions, whatever is listed.
LEMMA ListedType ==
  ASSUME NEW l \in [Keys -> State], NEW kind, lists \in [Keys -> State]
  PROVE  Listed(l, kind) \in [Keys -> State]
  BY DEF Listed

\* Caches, lists and configurations hold versions of Admissions, and a request
\* is evaluated with an Admission that was found.
THEOREM TypeCorrect == Spec => []TypeOK
<1>1. Init => TypeOK
  <2> SUFFICES ASSUME Init PROVE TypeOK
    OBVIOUS
  <2>1. server \in [Keys -> State]
    BY DEF Init, State
  <2>2. configs \in [Kinds -> [Keys -> State]] /\ lists \in [Keys -> State]
    BY StateTypes DEF Init
  <2> QED
    BY <2>1, <2>2, ReplicaAssumption DEF Init, TypeOK, NoCall
<1>2. TypeOK /\ [Next]_vars => TypeOK'
  <2> SUFFICES ASSUME TypeOK, [Next]_vars PROVE TypeOK'
    OBVIOUS
  <2> USE StateTypes DEF TypeOK, clusterVars, configVars, reconcilerVars
  <2>1. ASSUME NEW k \in Keys, Change(k) PROVE TypeOK'
    <3>1. PICK x \in Kinds \cup {"absent"} :
            server' = [server EXCEPT ![k] =
              [version |-> server[k].version + 1, kind |-> x]]
      BY <2>1 DEF Change
    <3>2. [version |-> server[k].version + 1, kind |-> x] \in State
      BY DEF State
    <3>3. server' \in [Keys -> State]
      BY <3>1, <3>2
    <3> QED
      BY <2>1, <3>3 DEF Change
  <2>2. ASSUME NEW x \in Kinds, DeleteConfig(x) PROVE TypeOK'
    BY <2>2 DEF DeleteConfig, Fault
  <2>3. ASSUME NEW r \in Replicas, NEW kind, Deliver(r, kind) PROVE TypeOK'
    <3>1. cache' \in [Replicas -> [Keys -> State]]
      BY <2>3 DEF Deliver
    <3> QED
      BY <2>3, <3>1 DEF Deliver
  <2>4. ASSUME NEW x \in Kinds, DeliverConfig(x) PROVE TypeOK'
    BY <2>4 DEF DeliverConfig
  <2>5. ASSUME NEW r \in Replicas, Restart(r) PROVE TypeOK'
    <3>1. cache' \in [Replicas -> [Keys -> State]] /\ faults' \in Nat
      BY <2>5 DEF Restart, Fault
    <3>2. CASE r = leader
      BY <2>5, <3>1, <3>2 DEF Restart, BecomeLeader
    <3>3. CASE r # leader
      BY <2>5, <3>1, <3>3 DEF Restart
    <3> QED
      BY <3>2, <3>3
  <2>6. ASSUME NEW r \in Replicas, TakeOver(r) PROVE TypeOK'
    BY <2>6 DEF TakeOver, BecomeLeader, Fault
  <2>7. CASE ListAdmissions
    BY <2>7, ListedType DEF ListAdmissions
  <2>8. CASE ListClusterAdmissions
    BY <2>8, ListedType DEF ListClusterAdmissions, Kinds
  <2>9. CASE PatchMutating
    BY <2>9 DEF PatchMutating, Patch, Kinds
  <2>10. CASE PatchValidating
    BY <2>10 DEF PatchValidating, Patch, Kinds
  <2>11. CASE PatchFails \/ PatchConflicts
    <3>1. Retry /\ faults' \in Nat
      BY <2>11 DEF PatchFails, PatchConflicts, Fault
    <3>2. lists' \in [Keys -> State]
      BY <3>1, StateTypes DEF Retry
    <3> QED
      BY <3>1, <3>2 DEF Retry
  <2>12. ASSUME NEW x \in Kinds, NEW k \in Keys, Admit(x, k) PROVE TypeOK'
    <3>1. configs[x][k].version \in Nat
      BY DEF State
    <3>2. (IF x \in wrote THEN leader ELSE NoReplica) \in Replicas \cup {NoReplica}
      OBVIOUS
    <3>3. call' \in Call /\ call'.answer # "evaluated"
      BY <2>12, <3>1, <3>2 DEF Admit, Call
    <3> QED
      BY <2>12, <3>3 DEF Admit
  <2>13. ASSUME NEW r \in Replicas, Handle(r) PROVE TypeOK'
    <3> DEFINE adm == cache[r][call.key]
    <3>1. call \in Call
      BY <2>13 DEF Handle, Answer
    <3>2. call.key \in Keys
      BY <3>1 DEF Call
    <3>3. adm \in State
      BY <3>2
    <3>4. PICK a \in {"allowed, not found", "evaluated", "errored"},
               t \in Nat : Answer(r, a, t) /\ (a = "evaluated" => t > 0)
      <4>1. Answer(r, IF adm.kind = "absent" THEN "allowed, not found"
                                             ELSE "evaluated", adm.version)
            \/ Answer(r, "errored", 0)
        BY <2>13 DEF Handle
      <4>2. adm.version \in Nat /\ (adm.kind # "absent" => adm.version > 0)
        BY <3>3 DEF State
      <4> HIDE DEF adm
      <4> QED
        BY <4>1, <4>2
    <3>5. call' \in Call /\ call'.answer = a /\ call'.template = t
      BY <3>1, <3>4 DEF Answer, Call
    <3> QED
      BY <3>4, <3>5 DEF Answer
  <2>14. CASE Respond
    BY <2>14 DEF Respond
  <2>15. ASSUME NEW x \in Kinds, Edit(x) \/ GiveBack(x) PROVE TypeOK'
    BY <2>15 DEF Edit, GiveBack, Fault
  <2>16. CASE UNCHANGED vars
    BY <2>16 DEF vars
  <2> QED
    BY <2>1, <2>2, <2>3, <2>4, <2>5, <2>6, <2>7, <2>8, <2>9, <2>10, <2>11,
       <2>12, <2>13, <2>14, <2>15, <2>16 DEF Next, Reconcile
<1> QED
  BY <1>1, <1>2, PTL DEF Spec

------------------------------------------------------------------------------
(* The caches *)

\* No step moves the API server or a cache back.
MovesOn ==
  /\ \A k \in Keys : server[k].version <= server'[k].version
  /\ \A r \in Replicas, k \in Keys :
       cache[r][k].version <= cache'[r][k].version

LEMMA CachesMoveOn ==
  ASSUME TypeOK, Behind, [Next]_vars
  PROVE  MovesOn /\ Behind'
<1> USE DEF TypeOK, State, Behind, MovesOn, clusterVars, configVars,
            reconcilerVars
<1>a. \A k \in Keys : /\ server[k].version \in Nat
                       /\ \A r \in Replicas : cache[r][k].version \in Nat
  OBVIOUS
<1>1. ASSUME UNCHANGED <<server, cache>> PROVE MovesOn /\ Behind'
  BY <1>1
<1>2. ASSUME NEW k \in Keys, Change(k) PROVE MovesOn /\ Behind'
  <2>1. PICK x \in Kinds \cup {"absent"} :
          server' = [server EXCEPT ![k] =
            [version |-> server[k].version + 1, kind |-> x]]
    BY <1>2 DEF Change
  <2>2. /\ cache' = cache
        /\ \A l \in Keys : server[l].version <= server'[l].version
    BY <1>2, <2>1 DEF Change
  <2>3. \A l \in Keys : server'[l].version \in Nat
    BY <2>1
  <2> QED
    BY <2>2, <2>3
<1>3. ASSUME NEW r \in Replicas, NEW kind, Deliver(r, kind)
      PROVE  MovesOn /\ Behind'
  <2>1. server' = server
    BY <1>3 DEF Deliver
  <2>2. \A q \in Replicas, k \in Keys :
          cache'[q][k] = cache[q][k] \/ cache'[q][k] = server[k]
    BY <1>3 DEF Deliver
  <2> HIDE DEF TypeOK, State
  <2> QED
    BY <1>a, <2>1, <2>2
<1>4. ASSUME NEW r \in Replicas, Restart(r) PROVE MovesOn /\ Behind'
  <2>1. server' = server
    BY <1>4 DEF Restart
  <2>2. \A q \in Replicas, k \in Keys :
          cache'[q][k] = cache[q][k] \/ cache'[q][k] = server[k]
    BY <1>4 DEF Restart
  <2> HIDE DEF TypeOK, State
  <2> QED
    BY <1>a, <2>1, <2>2
<1> QED
  BY <1>1, <1>2, <1>3, <1>4 DEF Next, Reconcile, DeleteConfig, Edit, GiveBack,
     DeliverConfig, TakeOver, Handle, Answer, ListAdmissions,
     ListClusterAdmissions, PatchMutating, PatchValidating, Patch, PatchFails,
     PatchConflicts, Retry, Admit, Respond, vars

LEMMA CachesBehind == Spec => []Behind
<1>1. Init => Behind
  BY DEF Init, Behind
<1>2. TypeOK /\ Behind /\ [Next]_vars => Behind'
  BY CachesMoveOn
<1> QED
  BY <1>1, <1>2, TypeCorrect, PTL DEF Spec

------------------------------------------------------------------------------
(* The configurations *)

\* The leader lists what it knows, and writes what it has listed.
LEMMA LeaderKnows == Spec => []Written
<1>1. Init => Written
  BY ReplicaAssumption DEF Init, Written, Kinds, Nothing, NoState, State
<1>2. TypeOK /\ TypeOK' /\ Behind /\ Written /\ [Next]_vars => Written'
  <2> SUFFICES ASSUME TypeOK, TypeOK', Behind, Written, [Next]_vars
               PROVE  Written'
    OBVIOUS
  <2>0. MovesOn
    BY CachesMoveOn
  <2> USE DEF Written, clusterVars, configVars, reconcilerVars
  <2>a. /\ \A k \in Keys : lists[k].version \in Nat /\ lists'[k].version \in Nat
        /\ \A r \in Replicas, k \in Keys :
             cache[r][k].version \in Nat /\ cache'[r][k].version \in Nat
        /\ \A x \in Kinds, k \in Keys : configs[x][k].version \in Nat
        /\ leader \in Replicas /\ wrote \in SUBSET Kinds
    BY DEF TypeOK, State
  <2>1. ASSUME UNCHANGED <<leader, pc, lists, configs, wrote>> PROVE Written'
    BY <2>0, <2>1, <2>a DEF MovesOn, Keys
  <2>2. ASSUME NEW r, BecomeLeader(r), r \in Replicas PROVE Written'
    BY <2>2, <2>a DEF BecomeLeader, Nothing, NoState, Kinds
  <2>3. ASSUME NEW x \in Kinds, DeleteConfig(x) \/ Edit(x) PROVE Written'
    <3>1. \A y \in wrote' : y \in wrote /\ configs'[y] = configs[y]
      BY <2>3, <2>a DEF DeleteConfig, Edit, TypeOK
    <3> QED
      BY <2>3, <3>1 DEF DeleteConfig, Edit
  <2>4. CASE ListAdmissions
    BY <2>4, <2>a DEF ListAdmissions, Listed, Keys, Kinds
  <2>5. CASE ListClusterAdmissions
    BY <2>5, <2>a DEF ListClusterAdmissions, Listed, Keys, Kinds
  <2>6. CASE PatchMutating
    BY <2>6, <2>a DEF PatchMutating, Patch, Kinds, TypeOK
  <2>7. CASE PatchValidating
    BY <2>7, <2>a DEF PatchValidating, Patch, Kinds, TypeOK, Nothing, NoState
  <2>8. CASE PatchFails \/ PatchConflicts
    <3>1. Retry
      BY <2>8 DEF PatchFails, PatchConflicts
    <3> QED
      BY <3>1, <2>a DEF Retry, Nothing, NoState, Kinds
  <2>9. ASSUME NEW r \in Replicas, Restart(r) PROVE Written'
    BY <2>1, <2>2, <2>9 DEF Restart
  <2> QED
    BY <2>1, <2>2, <2>3, <2>4, <2>5, <2>6, <2>7, <2>8, <2>9 DEF Next,
       Reconcile, Change, GiveBack, Deliver, DeliverConfig, TakeOver, Admit,
       Handle, Answer, Respond, vars
<1> QED
  BY <1>1, <1>2, TypeCorrect, CachesBehind, PTL DEF Spec

\* Configurations made from the same lists have the same webhooks.
LEMMA SameWebhooks ==
  ASSUME NEW x, NEW l, NEW m, \A k \in Keys : l[k] = m[k]
  PROVE  Webhooks(x, l) = Webhooks(x, m)
  BY DEF Webhooks

\* Every step that unsettles a configuration leaves a request.
LEMMA NothingForgotten ==
  ASSUME TypeOK, Current, [Next]_vars
  PROVE  Current'
<1> USE DEF clusterVars, configVars, reconcilerVars
<1>a. /\ leader \in Replicas /\ wrote \in SUBSET Kinds
      /\ "mutating" \in Kinds /\ "validating" \in Kinds
      /\ "idle" \notin Kinds /\ "cluster" \notin Kinds
  BY DEF TypeOK, Kinds
<1>1. CASE queued'
  BY <1>1 DEF Current
<1>2. CASE /\ UNCHANGED <<queued, pc, lists, leader, contested, configs>>
           /\ cache'[leader] = cache[leader]
           /\ unseen \subseteq unseen'
  BY <1>2 DEF Current, Settled
<1>3. ASSUME NEW x \in Kinds, DeleteConfig(x) \/ Edit(x) \/ GiveBack(x)
      PROVE  Current'
  <2>1. /\ UNCHANGED <<queued, pc, lists, leader, cache>>
        /\ unseen' = unseen \cup {x}
        /\ \A y \in Kinds \ {x} : /\ configs'[y] = configs[y]
                                  /\ y \in contested' <=> y \in contested
    BY <1>3 DEF DeleteConfig, Edit, GiveBack, TypeOK
  <2>2. \A y \in Kinds \ unseen' : Settled(y) => Settled(y)'
    BY <2>1 DEF Settled
  <2> QED
    BY <1>a, <2>1, <2>2 DEF Current
<1>4. ASSUME NEW r \in Replicas, NEW kind, Deliver(r, kind) PROVE Current'
  <2>1. CASE r = leader
    BY <1>1, <1>4, <2>1 DEF Deliver
  <2>2. CASE r # leader
    <3>1. cache'[leader] = cache[leader]
      BY <1>4, <1>a, <2>2 DEF Deliver, TypeOK
    <3>2. CASE queued
      BY <1>1, <1>4, <3>2 DEF Deliver
    <3>3. CASE ~queued
      BY <1>2, <1>4, <2>2, <3>1, <3>3 DEF Deliver, TypeOK
    <3> QED
      BY <3>2, <3>3
  <2> QED
    BY <2>1, <2>2
<1>5. ASSUME NEW r \in Replicas, Restart(r) PROVE Current'
  <2>1. CASE r = leader
    BY <1>1, <1>5, <2>1 DEF Restart, BecomeLeader
  <2>2. CASE r # leader
    <3>1. cache'[leader] = cache[leader]
      BY <1>5, <1>a, <2>2 DEF Restart, TypeOK
    <3> QED
      BY <1>2, <1>5, <2>2, <3>1 DEF Restart
  <2> QED
    BY <2>1, <2>2
<1>6. CASE ListAdmissions
  <2>1. /\ pc' = "cluster" /\ UNCHANGED <<cache, leader>>
        /\ \A k \in Admissions : lists'[k] = cache[leader][k]
    BY <1>6 DEF ListAdmissions, Listed, Keys
  <2> QED
    BY <1>a, <2>1 DEF Current
<1>7. CASE ListClusterAdmissions
  <2>1. /\ pc = "cluster" /\ pc' = "mutating"
        /\ UNCHANGED <<queued, cache, leader>>
        /\ \A k \in Keys : lists'[k] = IF k \in ClusterAdmissions
                                       THEN cache[leader][k] ELSE lists[k]
    BY <1>7 DEF ListClusterAdmissions, Listed
  <2>2. ~queued' => \A k \in Keys : lists'[k] = cache'[leader'][k]
    BY <2>1 DEF Current, Keys
  <2> QED
    BY <2>1, <2>2 DEF Current
<1>8. CASE PatchMutating
  <2>1. /\ pc = "mutating" /\ pc' = "validating"
        /\ UNCHANGED <<queued, lists, cache, leader, contested>>
        /\ "mutating" \notin contested
        /\ configs'["mutating"] = lists
    BY <1>8, <1>a DEF PatchMutating, Patch, TypeOK
  <2>2. ~queued => \A k \in Keys : lists[k] = cache[leader][k]
    BY <1>a, <2>1 DEF Current
  <2>3. ~queued => Settled("mutating")'
    BY <2>1, <2>2, SameWebhooks DEF Settled
  <2> QED
    BY <1>a, <2>1, <2>2, <2>3 DEF Current
<1>9. CASE PatchValidating
  <2>1. /\ pc = "validating" /\ pc' = "idle"
        /\ UNCHANGED <<queued, cache, leader, contested>>
        /\ "validating" \notin contested
        /\ configs'["validating"] = lists
        /\ configs'["mutating"] = configs["mutating"]
        /\ unseen \subseteq unseen'
    BY <1>9, <1>a DEF PatchValidating, Patch, TypeOK
  <2>2. ~queued => \A k \in Keys : lists[k] = cache[leader][k]
    BY <1>a, <2>1 DEF Current
  <2>3. ~queued => Settled("validating")'
    BY <2>1, <2>2, SameWebhooks DEF Settled
  <2>4. ~queued => "mutating" \in unseen \/ Settled("mutating")'
    BY <2>1 DEF Current, Settled
  <2>5. ~queued => \A x \in Kinds \ unseen' : Settled(x)'
    BY <2>1, <2>3, <2>4 DEF Kinds
  <2> QED
    BY <1>a, <2>1, <2>5 DEF Current
<1> QED
  BY <1>1, <1>2, <1>3, <1>4, <1>5, <1>6, <1>7, <1>8, <1>9 DEF Next, Reconcile,
     Change, DeliverConfig, BecomeLeader, TakeOver, PatchFails, PatchConflicts,
     Retry, Admit, Handle, Answer, Respond, vars

\* When the leader has nothing to do, every configuration is what its cache
\* asks for, or a change of it is still to be noticed.
THEOREM NothingLost == Spec => []NothingIsLost
<1>1. Init => Current
  BY DEF Init, Current
<1>2. TypeOK /\ Current /\ [Next]_vars => Current'
  BY NothingForgotten
<1>3. Current => NothingIsLost
  BY DEF Current, NothingIsLost, Settled
<1> QED
  BY <1>1, <1>2, <1>3, TypeCorrect, PTL DEF Spec

\* Neither configuration goes back to an older version of an Admission while
\* the leader stays that wrote it.
THEOREM TakesNothingBack == Spec => NeverGoesBack
<1>1. TypeOK /\ Written /\ [Next]_vars =>
        [\A x \in wrote \cap wrote', k \in Keys :
           configs'[x][k].version >= configs[x][k].version]_vars
  <2> SUFFICES ASSUME TypeOK, Written, [Next]_vars,
                      NEW x \in wrote \cap wrote', NEW k \in Keys
               PROVE  configs'[x][k].version >= configs[x][k].version
    OBVIOUS
  <2> USE DEF clusterVars, configVars, reconcilerVars
  <2>1. x \in Kinds /\ configs[x][k].version \in Nat
    BY DEF TypeOK, State
  <2>2. CASE configs' = configs
    BY <2>1, <2>2
  <2>3. ASSUME NEW y \in Kinds, Patch(y), pc \in Kinds
        PROVE  configs'[x][k].version >= configs[x][k].version
    BY <2>1, <2>3 DEF Patch, Written, TypeOK, State
  <2>4. ASSUME NEW y \in Kinds, DeleteConfig(y)
        PROVE  configs'[x][k].version >= configs[x][k].version
    BY <2>1, <2>4 DEF DeleteConfig, TypeOK
  <2>5. CASE PatchMutating \/ PatchValidating
    BY <2>3, <2>5 DEF PatchMutating, PatchValidating, Patch, Kinds
  <2> QED
    BY <2>2, <2>4, <2>5 DEF Next, Reconcile, Change, Edit, GiveBack, Deliver,
       DeliverConfig, Restart, BecomeLeader, TakeOver, ListAdmissions,
       ListClusterAdmissions, PatchFails, PatchConflicts, Retry, Admit, Handle,
       Answer, Respond, vars
<1> QED
  BY <1>1, TypeCorrect, LeaderKnows, PTL DEF Spec, NeverGoesBack

------------------------------------------------------------------------------
(* The requests *)

\* What the writer of a request knows does not get older.
LEMMA WriterKeepsKnowing ==
  ASSUME TypeOK, TypeOK', MovesOn, Asked, UNCHANGED call
  PROVE  Asked'
<1> SUFFICES ASSUME call # NoCall, call.writer \in Replicas
             PROVE  call.rules <= cache'[call.writer][call.key].version
  BY DEF Asked
<1> DEFINE before == cache[call.writer][call.key]
           after == cache'[call.writer][call.key]
<1>1. call.key \in Keys /\ call.rules \in Nat
  BY DEF TypeOK, Call
<1>2. before \in State /\ after \in State
  BY <1>1 DEF TypeOK
<1>3. call.rules <= before.version /\ before.version <= after.version
  BY <1>1 DEF Asked, MovesOn
<1> HIDE DEF before, after
<1>4. call.rules <= after.version
  BY <1>1, <1>2, <1>3 DEF State
<1> QED
  BY <1>4 DEF after

\* A request is sent and answered by what replicas know.
LEMMA RulesKnown == Spec => [](Asked /\ AnswersWithItsRules)
<1> DEFINE Inv == Asked /\ AnswersWithItsRules
<1>1. Init => Inv
  BY DEF Init, Asked, AnswersWithItsRules
<1>2. TypeOK /\ TypeOK' /\ Behind /\ Written /\ Inv /\ [Next]_vars => Inv'
  <2> SUFFICES ASSUME TypeOK, TypeOK', Behind, Written, Inv, [Next]_vars
               PROVE  Inv'
    OBVIOUS
  <2>0. MovesOn
    BY CachesMoveOn
  <2> USE DEF Asked, AnswersWithItsRules, clusterVars, configVars,
              reconcilerVars
  <2>a. \A r \in Replicas, k \in Keys :
          cache[r][k].version \in Nat /\ cache'[r][k].version \in Nat
    <3>1. /\ \A r \in Replicas, k \in Keys : cache[r][k] \in State
          /\ \A r \in Replicas, k \in Keys : cache'[r][k] \in State
      BY DEF TypeOK
    <3> QED
      BY <3>1 DEF State
  <2>b. call # NoCall => call \in Call /\ call.key \in Keys /\ call.rules \in Nat
    BY DEF TypeOK, Call
  <2>1. CASE UNCHANGED call
    BY <2>0, <2>1, WriterKeepsKnowing
  <2>2. ASSUME NEW x \in Kinds, NEW k \in Keys, Admit(x, k) PROVE Inv'
    <3>1. cache' = cache /\ call'.answer = "sent" /\ call'.key = k
          /\ call'.rules = configs[x][k].version
      BY <2>2 DEF Admit
    <3>2. call'.writer \in Replicas => x \in wrote /\ call'.writer = leader
      BY <2>2, ReplicaAssumption DEF Admit
    <3> QED
      BY <3>1, <3>2 DEF Written
  <2>3. ASSUME NEW r \in Replicas, Handle(r) PROVE Inv'
    <3> DEFINE adm == cache[r][call.key]
    <3>1. /\ call \in Call /\ cache' = cache
          /\ \E a, t : /\ call' = [call EXCEPT !.replica = r, !.answer = a,
                                               !.template = t]
                       /\ a # "errored" => t = adm.version
      BY <2>3, <2>b DEF Handle, Answer
    <3>2. /\ call'.key = call.key /\ call'.rules = call.rules
          /\ call'.writer = call.writer /\ call'.replica = r
          /\ call'.answer # "errored" => call'.template = adm.version
      BY <3>1 DEF Call
    <3> QED
      BY <2>3, <2>a, <2>b, <3>1, <3>2 DEF Handle, Answer
  <2>4. CASE Respond
    BY <2>4 DEF Respond
  <2> QED
    BY <2>1, <2>2, <2>3, <2>4 DEF Next, Reconcile, Change, DeleteConfig, Edit,
       GiveBack, Deliver, DeliverConfig, Restart, TakeOver, ListAdmissions,
       ListClusterAdmissions, PatchMutating, PatchValidating, Patch,
       PatchFails, PatchConflicts, Retry, vars
<1> QED
  BY <1>1, <1>2, TypeCorrect, CachesBehind, LeaderKnows, PTL DEF Spec

\* A replica that wrote the rules of a request answers it with the Admission
\* they are of, or a newer one: never as unknown because it is behind.
THEOREM AnsweredByTheWriter == Spec => []AnswersWithItsRules
  BY RulesKnown, PTL

=============================================================================
