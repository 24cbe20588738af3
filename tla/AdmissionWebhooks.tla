--------------------------- MODULE AdmissionWebhooks ---------------------------
(***************************************************************************)
(* The AdmissionReconciler writes what the Admissions and ClusterAdmissions *)
(* of its cache ask for into the mutating and then the validating webhook  *)
(* configuration.  The API server sends admission requests by the rules of *)
(* these configurations, and the handler of some replica answers them with *)
(* the template of the Admission in its own cache.  Only the leader        *)
(* reconciles; every replica answers.                                      *)
(*                                                                         *)
(* Every change of an Admission, deletion included, is a new version of    *)
(* it.  A configuration is what its Admissions were when the reconciler    *)
(* listed them; it has a webhook for those of its kind.                    *)
(***************************************************************************)
EXTENDS Integers

CONSTANTS
  Admissions,        \* the names of Admissions
  ClusterAdmissions, \* the names of ClusterAdmissions
  Replicas,          \* the processes of the controller
  FirstLeaders,      \* those that may be elected first
  NoReplica,         \* none of them
  MaxChanges,        \* bound on changes of Admissions
  MaxFaults          \* bound on failures, restarts and deleted configurations

ASSUME ReplicaAssumption ==
  NoReplica \notin Replicas /\ FirstLeaders \subseteq Replicas
ASSUME BoundAssumption == MaxChanges \in Nat /\ MaxFaults \in Nat

VARIABLES
  server,  \* [Keys -> State], what the API server has
  cache,   \* [Replicas -> [Keys -> State]], what a replica knows of it
  configs, \* [Kinds -> [Keys -> State]], the webhook configurations
  wrote,   \* the configurations that are as the leader left them
  unseen,  \* those whose last change the leader has not been notified of
  contested, \* those with a field that somebody else owns
  leader,  \* the replica that reconciles
  queued,  \* its queue holds the admissionRequest
  pc,      \* where it is in Reconcile
  lists,   \* [Keys -> State], what it has listed
  call,    \* an admission request
  changes, \* how often Admissions were changed
  faults   \* what went wrong so far

clusterVars == <<server, changes>>
reconcilerVars == <<leader, queued, pc, lists>>
configVars == <<configs, wrote, unseen, contested>>
vars == <<server, cache, configs, wrote, unseen, contested, leader, queued, pc,
          lists, call, changes, faults>>

Keys == Admissions \cup ClusterAdmissions
Kinds == {"mutating", "validating"}

\* An Admission as the code sees it: Spec.Mutating, or not there at all.
State == {s \in [version : Nat, kind : Kinds \cup {"absent"}] :
            s.kind # "absent" => s.version > 0}
NoState == [version |-> 0, kind |-> "absent"]
Nothing == [k \in Keys |-> NoState]

\* A request the API server sends for key, by the rules of a version that
\* writer put into the configuration, and what replica answers.
Call == [answer : {"sent", "allowed, not found", "evaluated", "errored"},
         key : Keys, rules : Nat, template : Nat,
         writer : Replicas \cup {NoReplica}, replica : Replicas \cup {NoReplica}]
NoCall == [answer |-> "none"]

TypeOK ==
  /\ server \in [Keys -> State]
  /\ cache \in [Replicas -> [Keys -> State]]
  /\ configs \in [Kinds -> [Keys -> State]]
  /\ wrote \in SUBSET Kinds /\ unseen \in SUBSET Kinds
  /\ contested \in SUBSET Kinds
  /\ leader \in Replicas
  /\ queued \in BOOLEAN
  /\ pc \in {"idle", "cluster"} \cup Kinds
  /\ lists \in [Keys -> State]
  /\ call \in Call \cup {NoCall}
  /\ call # NoCall /\ call.answer = "evaluated" => call.template > 0
  /\ changes \in Nat /\ faults \in Nat

\* The processes have started and synced; all objects of their first sync
\* are queued.
Init ==
  /\ server \in [Keys -> {[version |-> 1, kind |-> x] :
                          x \in Kinds \cup {"absent"}}]
  /\ cache = [r \in Replicas |-> server]
  /\ configs = [x \in Kinds |-> Nothing]
  /\ wrote = {} /\ unseen = {} /\ contested = {}
  /\ leader \in FirstLeaders
  /\ queued = TRUE
  /\ pc = "idle"
  /\ lists = Nothing
  /\ call = NoCall
  /\ changes = 0 /\ faults = 0

Fault == faults < MaxFaults /\ faults' = faults + 1

\* The webhooks a configuration of kind x has, when it is made from l.
Webhooks(x, l) ==
  [k \in Keys |-> IF l[k].kind = x THEN l[k].version ELSE 0]

------------------------------------------------------------------------------
(* The cluster and the watches *)

\* An Admission is created, updated, turned into one of the other kind, or
\* deleted.
Change(k) ==
  /\ changes < MaxChanges
  /\ changes' = changes + 1
  /\ \E x \in Kinds \cup {"absent"} :
       /\ server[k].kind # "absent" \/ x # "absent"
       /\ server' = [server EXCEPT ![k] =
            [version |-> server[k].version + 1, kind |-> x]]
  /\ UNCHANGED <<cache, configVars, reconcilerVars, call, faults>>

\* Somebody deletes a webhook configuration.
DeleteConfig(x) ==
  /\ Fault
  /\ configs[x] # Nothing
  /\ configs' = [configs EXCEPT ![x] = Nothing]
  /\ wrote' = wrote \ {x}
  /\ unseen' = unseen \cup {x}
  /\ contested' = contested \ {x}
  /\ UNCHANGED <<clusterVars, cache, reconcilerVars, call>>

\* Somebody writes a field of a webhook, which is theirs then.
Edit(x) ==
  /\ Fault
  /\ configs[x] # Nothing
  /\ contested' = contested \cup {x}
  /\ wrote' = wrote \ {x}
  /\ unseen' = unseen \cup {x}
  /\ UNCHANGED <<clusterVars, cache, configs, reconcilerVars, call>>

\* They no longer claim it.
GiveBack(x) ==
  /\ x \in contested
  /\ contested' = contested \ {x}
  /\ unseen' = unseen \cup {x}
  /\ UNCHANGED <<clusterVars, cache, configs, wrote, reconcilerVars, call,
                 faults>>

\* Faulty: a replica watches only while it is the leader.
DeliverToLeader(r, kind) ==
  /\ r = leader
  /\ \E k \in kind : cache[r][k] # server[k]
  /\ cache' = [cache EXCEPT ![r] =
       [k \in Keys |-> IF k \in kind THEN server[k] ELSE cache[r][k]]]
  /\ queued' = TRUE
  /\ UNCHANGED <<clusterVars, configVars, leader, pc, lists, call, faults>>

\* The watch of Admissions or of ClusterAdmissions.  All events become the
\* same request.
Deliver(r, kind) ==
  /\ \E k \in kind : cache[r][k] # server[k]
  /\ cache' = [cache EXCEPT ![r] =
       [k \in Keys |-> IF k \in kind THEN server[k] ELSE cache[r][k]]]
  /\ queued' = (queued \/ r = leader)
  /\ UNCHANGED <<clusterVars, configVars, leader, pc, lists, call, faults>>

\* Faulty: the watch of the validating configuration filters for another name.
DeliverMutatingConfig(x) ==
  /\ x \in unseen
  /\ unseen' = unseen \ {x}
  /\ queued' = (queued \/ x = "mutating")
  /\ UNCHANGED <<clusterVars, cache, configs, wrote, contested, leader, pc,
                 lists, call, faults>>

\* The watch of a webhook configuration.
DeliverConfig(x) ==
  /\ x \in unseen
  /\ unseen' = unseen \ {x}
  /\ queued' = TRUE
  /\ UNCHANGED <<clusterVars, cache, configs, wrote, contested, leader, pc,
                 lists, call, faults>>

\* A reconciler starts with empty lists, a request for every object, and
\* configurations others have written.
BecomeLeader(r) ==
  /\ leader' = r
  /\ queued' = TRUE
  /\ pc' = "idle"
  /\ lists' = Nothing
  /\ wrote' = {} /\ unseen' = {}

\* A replica is replaced by a process that has synced.
Restart(r) ==
  /\ Fault
  /\ cache' = [cache EXCEPT ![r] = server]
  /\ IF r = leader
     THEN BecomeLeader(r) /\ UNCHANGED <<configs, contested>>
     ELSE UNCHANGED <<configVars, reconcilerVars>>
  /\ UNCHANGED <<clusterVars, call>>

\* The lease goes to another replica, which has watched for a while.
TakeOver(r) ==
  /\ Fault
  /\ r # leader
  /\ BecomeLeader(r)
  /\ UNCHANGED <<clusterVars, cache, configs, contested, call>>

------------------------------------------------------------------------------
(* Reconcile *)

Listed(l, kind) == [k \in Keys |-> IF k \in kind THEN l[k] ELSE lists[k]]

\* Faulty: the lists come from the API server.
ListAdmissionsUncached ==
  /\ pc = "idle" /\ queued
  /\ queued' = FALSE
  /\ lists' = Listed(server, Admissions)
  /\ pc' = "cluster"
  /\ UNCHANGED <<clusterVars, cache, configVars, leader, call, faults>>

\* Faulty: any replica is asked for the list.
ListAdmissionsOfAnyCache ==
  /\ pc = "idle" /\ queued
  /\ queued' = FALSE
  /\ \E r \in Replicas : lists' = Listed(cache[r], Admissions)
  /\ pc' = "cluster"
  /\ UNCHANGED <<clusterVars, cache, configVars, leader, call, faults>>

ListAdmissions ==
  /\ pc = "idle" /\ queued
  /\ queued' = FALSE
  /\ lists' = Listed(cache[leader], Admissions)
  /\ pc' = "cluster"
  /\ UNCHANGED <<clusterVars, cache, configVars, leader, call, faults>>

ListClusterAdmissions ==
  /\ pc = "cluster"
  /\ lists' = Listed(cache[leader], ClusterAdmissions)
  /\ pc' = "mutating"
  /\ UNCHANGED <<clusterVars, cache, configVars, leader, queued, call, faults>>

\* The server-side apply of a configuration.  One that changes nothing
\* causes no event.
Patch(x) ==
  /\ pc = x /\ x \notin contested
  /\ configs' = [configs EXCEPT ![x] = lists]
  /\ wrote' = wrote \cup {x}
  /\ unseen' = IF Webhooks(x, lists) = Webhooks(x, configs[x])
               THEN unseen ELSE unseen \cup {x}
  /\ UNCHANGED <<clusterVars, cache, contested, leader, queued, call, faults>>

PatchMutating ==
  /\ Patch("mutating")
  /\ pc' = "validating"
  /\ UNCHANGED lists

PatchValidating ==
  /\ Patch("validating")
  /\ pc' = "idle"
  /\ lists' = Nothing

\* Reconcile returns the error of a patch and is tried again.
Retry ==
  /\ pc \in Kinds
  /\ queued' = TRUE
  /\ pc' = "idle"
  /\ lists' = Nothing
  /\ UNCHANGED <<clusterVars, cache, configVars, leader, call>>

PatchFails == Retry /\ Fault

\* The patch does not force its way: the field conflicts, or it keeps a webhook
\* that the Admissions no longer ask for, and which is not valid on its own.
PatchConflicts == pc \in contested /\ Retry /\ UNCHANGED faults

Reconcile ==
  \/ ListAdmissions \/ ListClusterAdmissions \/ PatchMutating \/ PatchValidating
  \/ PatchConflicts

------------------------------------------------------------------------------
(* Handle *)

\* The API server sends a request that matches the rules for k.
Admit(x, k) ==
  /\ call = NoCall
  /\ configs[x][k].kind = x
  /\ call' = [answer |-> "sent", key |-> k, rules |-> configs[x][k].version,
              template |-> 0,
              writer |-> IF x \in wrote THEN leader ELSE NoReplica,
              replica |-> NoReplica]
  /\ UNCHANGED <<clusterVars, cache, configVars, reconcilerVars, faults>>

Answer(r, answer, template) ==
  /\ call # NoCall /\ call.answer = "sent"
  /\ call' = [call EXCEPT !.replica = r, !.answer = answer,
                          !.template = template]
  /\ UNCHANGED <<clusterVars, cache, configVars, reconcilerVars, faults>>

\* Faulty: an Admission that was not found is evaluated as it was declared.
HandleUnchecked(r) ==
  \/ LET adm == cache[r][call.key] IN
     Answer(r, "evaluated", IF adm.kind = "absent" THEN 0 ELSE adm.version)
  \/ Answer(r, "errored", 0)

\* Get, and the template's answer; any later step may fail with an error.
\* An Admission that is not there is known not to be as of its version.
Handle(r) ==
  \/ LET adm == cache[r][call.key] IN
     Answer(r, IF adm.kind = "absent" THEN "allowed, not found"
                                      ELSE "evaluated", adm.version)
  \/ Answer(r, "errored", 0)

Respond ==
  /\ call # NoCall /\ call.answer # "sent"
  /\ call' = NoCall
  /\ UNCHANGED <<clusterVars, cache, configVars, reconcilerVars, faults>>

------------------------------------------------------------------------------
Next ==
  \/ \E k \in Keys : Change(k)
  \/ \E x \in Kinds :
       DeleteConfig(x) \/ Edit(x) \/ GiveBack(x) \/ DeliverConfig(x)
  \/ \E r \in Replicas :
       \/ Deliver(r, Admissions) \/ Deliver(r, ClusterAdmissions)
       \/ Restart(r) \/ TakeOver(r) \/ Handle(r)
  \/ Reconcile \/ PatchFails
  \/ \E x \in Kinds, k \in Keys : Admit(x, k)
  \/ Respond

Spec == Init /\ [][Next]_vars

\* Watches deliver, also to replicas that do not lead; the leader's worker takes
\* what is queued; an answer is sent.
FairSpec ==
  /\ Spec
  /\ \A r \in Replicas :
       WF_vars(Deliver(r, Admissions)) /\ WF_vars(Deliver(r, ClusterAdmissions))
  /\ \A x \in Kinds : WF_vars(DeliverConfig(x))
  /\ WF_vars(Reconcile)
  /\ WF_vars(Respond)

------------------------------------------------------------------------------
(* Properties *)

\* The replica that wrote the rules by which a request was sent answers it
\* with the Admission these rules are of, or with a newer one: it lets nothing
\* pass as unknown that it has itself told the API server to ask about, unless
\* the Admission was deleted since.
AnswersWithItsRules ==
  call # NoCall /\ call.answer \in {"allowed, not found", "evaluated"}
                /\ call.replica = call.writer
    => call.template >= call.rules

\* Once Admissions are no longer changed, whichever replica answers a request
\* does so with the Admission as it is: a replica that does not lead, or that
\* answers by rules another one wrote, knows it in the end as well, and lets no
\* request pass for an Admission that it had not heard of.
AnswersSettle ==
  <>[](call # NoCall /\ call.answer \in {"allowed, not found", "evaluated"}
         => call.template = server[call.key].version)

\* A leader does not take back what it has written: neither configuration
\* returns to an older version of any Admission.
NeverGoesBack ==
  [][\A x \in wrote \cap wrote', k \in Keys :
       configs'[x][k].version >= configs[x][k].version]_vars

\* No change gets lost: when the leader has nothing to do, each configuration
\* has the webhooks its cache asks for, or a change of the configuration
\* itself is still to be noticed.  It takes every write of somebody else, every
\* conflict and every change that was listed half by one reconciliation to
\* cause another one.
NothingIsLost ==
  pc = "idle" /\ ~queued =>
    \A x \in Kinds \ unseen :
      /\ x \notin contested
      /\ Webhooks(x, configs[x]) = Webhooks(x, cache[leader])

\* Both configurations end up with a webhook for each Admission of their kind
\* as it is, also when a patch fails between them, when one of them is
\* deleted, and when another replica takes over with an older cache.  As long
\* as somebody else owns a field of one, that one does not follow, and with the
\* mutating one the validating one does not either; nothing of that stays once
\* the field is given back.
Settles ==
  <>[](\A x \in Kinds :
         contested = {} \/ (x = "mutating" /\ x \notin contested)
           => Webhooks(x, configs[x]) = Webhooks(x, server))

=============================================================================
