------------------------------ MODULE ApplyGroup ------------------------------
(***************************************************************************)
(* The applygroup package: one rendered document is decoded into a tree of *)
(* Appliers, and the tree is applied to the cluster, object by object.     *)
(* The document is chosen as the decoder reads it, one element per step,   *)
(* and each request to the API server as Apply makes it.  Objects are told *)
(* apart by whether they are applied or deleted.                           *)
(***************************************************************************)
EXTENDS Integers, SequencesExt

CONSTANT MaxNodes \* bound on the number of elements of a document

ASSUME MaxNodesAssumption == MaxNodes \in Nat

Policies == {"", "Continue", "Abort"}
ResourceKinds == {"apply", "delete"}
Ids == 1..MaxNodes

\* kind, Parent, ErrorPolicy and Group of an Applier; elements counts what
\* was decoded into it, and stated is what its ApplyGroupConfig asks for.
\* The nodes are numbered in document order, and 0 is no node.
Applier == [kind : {"noop", "apply", "delete", "config", "group"},
            parent : Ids \cup {0}, errorPolicy : Policies,
            group : Seq(Ids), elements : Nat, stated : Policies]

\* An activation of Apply for a group: the child it is at and its errors.
Frame == [node : Ids, next : Nat \ {0}, errors : SUBSET Ids]

VARIABLES
  phase,     \* of the reconciler: what it does with the rendered document
  nodes,     \* the Appliers, in document order
  open,      \* the groups being decoded, outermost first
  frames,    \* the activations of Apply, outermost first
  attempted, \* the objects sent to the API server, in order
  failed,    \* those that were refused
  result     \* the errors Apply returned

vars == <<phase, nodes, open, frames, attempted, failed, result>>
decoding == <<phase, nodes, open>>
applying == <<frames, attempted, failed, result>>

Phases == {"decode", "walk", "apply", "applied", "refused"}

TypeOK ==
  /\ phase \in Phases
  /\ nodes \in Seq(Applier) /\ Len(nodes) <= MaxNodes
  /\ open \in Seq(Ids)
  /\ frames \in Seq(Frame)
  /\ attempted \in Seq(Ids)
  /\ failed \subseteq Range(attempted)
  /\ result \subseteq Ids

Init ==
  /\ phase = "decode"
  /\ nodes = <<>> /\ open = <<>> /\ frames = <<>> /\ attempted = <<>>
  /\ failed = {} /\ result = {}

------------------------------------------------------------------------------
(* UnmarshalJSONFrom *)

Parent == IF open = <<>> THEN 0 ELSE Last(open)

\* elem, as the loop over the elements of its parent makes it.
Elem(kind) == [kind |-> kind, parent |-> Parent, errorPolicy |-> "",
               group |-> <<>>, elements |-> 0, stated |-> ""]

\* Element n of group p is decoded: a.Group = append(a.Group, elem).
AddTo(ns, p, n) ==
  IF p = 0 THEN ns
  ELSE [ns EXCEPT ![p].elements = @ + 1, ![p].group = Append(@, n)]

\* The document goes on unless its root is complete.
DecodedIn(p) == phase' = IF p = 0 THEN "walk" ELSE "decode"

Refuse == phase' = "refused" /\ UNCHANGED <<nodes, open>>

CanRead == phase = "decode" /\ Len(nodes) < MaxNodes

ReadNull ==
  /\ CanRead
  /\ nodes' = AddTo(Append(nodes, Elem("noop")), Parent, Len(nodes) + 1)
  /\ DecodedIn(Parent)
  /\ UNCHANGED <<open, applying>>

\* An object that is to be applied or, with the deletion mark, deleted; its
\* options may be malformed.
ReadObject ==
  /\ CanRead
  /\ \/ \E kind \in ResourceKinds :
          nodes' = AddTo(Append(nodes, Elem(kind)), Parent, Len(nodes) + 1)
        /\ DecodedIn(Parent)
        /\ UNCHANGED open
     \/ Refuse
  /\ UNCHANGED applying

\* Faulty: any errorPolicy is accepted.
ReadConfigUnchecked ==
  /\ CanRead
  /\ IF Parent = 0 \/ nodes[Parent].elements # 0
     THEN Refuse
     ELSE /\ \E policy \in Policies \cup {"KindaWrong"} :
               nodes' = [Append(nodes, Elem("config")) EXCEPT
                           ![Parent].errorPolicy = policy,
                           ![Parent].stated = policy,
                           ![Parent].elements = 1]
          /\ UNCHANGED <<phase, open>>
  /\ UNCHANGED applying

\* Faulty: a config is accepted anywhere in its group.
ReadConfigAnywhere ==
  /\ CanRead
  /\ IF Parent = 0
     THEN Refuse
     ELSE \/ \E policy \in Policies :
               nodes' = [Append(nodes, Elem("config")) EXCEPT
                           ![Parent].errorPolicy = policy,
                           ![Parent].stated = policy,
                           ![Parent].elements = @ + 1]
             /\ UNCHANGED <<phase, open>>
          \/ Refuse
  /\ UNCHANGED applying

\* An ApplyGroupConfig: not the root, first in its group, with a known policy
\* or none.  It is decoded into its group and not appended to it.
ReadConfig ==
  /\ CanRead
  /\ IF Parent = 0 \/ nodes[Parent].elements # 0
     THEN Refuse
     ELSE \/ \E policy \in Policies :
               nodes' = [Append(nodes, Elem("config")) EXCEPT
                           ![Parent].errorPolicy = policy,
                           ![Parent].stated = policy,
                           ![Parent].elements = 1]
             /\ UNCHANGED <<phase, open>>
          \/ Refuse
  /\ UNCHANGED applying

OpenGroup ==
  /\ CanRead
  /\ nodes' = Append(nodes, Elem("group"))
  /\ open' = Append(open, Len(nodes) + 1)
  /\ UNCHANGED <<phase, applying>>

\* The end of a group, which inherits a policy when it states none.
CloseGroup ==
  LET g == Last(open)
      p == nodes[g].parent
      inherits == nodes[g].errorPolicy = "" /\ p # 0
      decoded == IF inherits
                 THEN [nodes EXCEPT ![g].errorPolicy = nodes[p].errorPolicy]
                 ELSE nodes IN
  /\ phase = "decode" /\ open # <<>>
  /\ nodes' = AddTo(decoded, p, g)
  /\ open' = Front(open)
  /\ DecodedIn(p)
  /\ UNCHANGED applying

------------------------------------------------------------------------------
(* Reconcile *)

\* The namespaces are defaulted before anything is applied; the kind of an
\* object may be unknown to the mapper.
DefaultNamespaces ==
  /\ phase = "walk"
  /\ \/ phase' = "apply"
     \/ /\ \E n \in DOMAIN nodes : nodes[n].kind \in ResourceKinds
        /\ phase' = "refused"
  /\ UNCHANGED <<nodes, open, applying>>

------------------------------------------------------------------------------
(* Apply *)

Step(f) == [f EXCEPT !.next = @ + 1]

\* Faulty: a break, which only leaves the switch, in place of the return.
CollectBreak(f, errors) ==
  IF nodes[f.node].errorPolicy = "Abort" THEN Step(f)
  ELSE [Step(f) EXCEPT !.errors = @ \cup errors]

\* Faulty: the earlier errors of a group that continues are forgotten.
CollectLast(f, errors) ==
  IF errors # {} /\ nodes[f.node].errorPolicy = "Abort"
  THEN [f EXCEPT !.next = Len(nodes[f.node].group) + 1, !.errors = errors]
  ELSE [Step(f) EXCEPT !.errors = IF errors = {} THEN @ ELSE errors]

\* What a group does with the errors of a child: return them, when it aborts,
\* or add them to those it returns at its end.
Collect(f, errors) ==
  IF errors # {} /\ nodes[f.node].errorPolicy = "Abort"
  THEN [f EXCEPT !.next = Len(nodes[f.node].group) + 1, !.errors = errors]
  ELSE [Step(f) EXCEPT !.errors = @ \cup errors]

\* A call of Apply returns errors into the frames fs.
ReturnTo(fs, errors) ==
  IF fs = <<>>
  THEN /\ phase' = "applied" /\ result' = errors
       /\ frames' = fs
  ELSE /\ frames' = [fs EXCEPT ![Len(fs)] = Collect(@, errors)]
       /\ UNCHANGED <<phase, result>>

\* The next node to call Apply for: the root or a child of the last group.
HasNext ==
  /\ phase = "apply"
  /\ frames # <<>> =>
       Last(frames).next <= Len(nodes[Last(frames).node].group)
NextNode == IF frames = <<>> THEN 1
            ELSE nodes[Last(frames).node].group[Last(frames).next]

\* Neither makes a request: null, and a config, which Apply refuses.
ApplyNothing ==
  /\ HasNext /\ nodes[NextNode].kind \in {"noop", "config"}
  /\ ReturnTo(frames, IF nodes[NextNode].kind = "noop" THEN {} ELSE {NextNode})
  /\ UNCHANGED <<nodes, open, attempted, failed>>

\* One request; an object that is not there counts as deleted.
Refused(n, answer) ==
  \/ answer = "error"
  \/ answer = "notFound" /\ nodes[n].kind # "delete"

ApplyObject ==
  /\ HasNext /\ nodes[NextNode].kind \in ResourceKinds
  /\ \E answer \in {"ok", "notFound", "error"} :
       LET errors == IF Refused(NextNode, answer) THEN {NextNode} ELSE {} IN
       /\ attempted' = Append(attempted, NextNode)
       /\ failed' = failed \cup errors
       /\ ReturnTo(frames, errors)
  /\ UNCHANGED <<nodes, open>>

EnterGroup ==
  /\ HasNext /\ nodes[NextNode].kind = "group"
  /\ frames' = Append(frames, [node |-> NextNode, next |-> 1, errors |-> {}])
  /\ UNCHANGED <<decoding, attempted, failed, result>>

LeaveGroup ==
  /\ phase = "apply" /\ ~HasNext
  /\ ReturnTo(Front(frames), Last(frames).errors)
  /\ UNCHANGED <<nodes, open, attempted, failed>>

Next ==
  \/ ReadNull \/ ReadObject \/ ReadConfig \/ OpenGroup \/ CloseGroup
  \/ DefaultNamespaces
  \/ ApplyNothing \/ ApplyObject \/ EnterGroup \/ LeaveGroup

Spec == Init /\ [][Next]_vars

------------------------------------------------------------------------------
(* Properties *)

\* A node and the groups it is in; the deepest of several is the last one.
Path ==
  LET path[n \in DOMAIN nodes] ==
        {n} \cup IF nodes[n].parent = 0 THEN {} ELSE path[nodes[n].parent]
  IN path
Meet(m, n) == Max(Path[m] \cap Path[n])

\* "Abort" stops at the first error and "Continue" goes on, at every level of
\* a nested document: an object is left out exactly when an earlier one failed
\* and the innermost group of both aborts.  The others are sent, in order.
LeftOut(n) ==
  \E m \in failed : m < n /\ nodes[Meet(m, n)].errorPolicy = "Abort"
InDocumentOrder == \A i, j \in DOMAIN attempted :
                     i < j => attempted[i] < attempted[j]
StopsWhereItShould ==
  phase = "applied" =>
    /\ InDocumentOrder
    /\ Range(attempted) = {n \in DOMAIN nodes :
                            nodes[n].kind \in ResourceKinds /\ ~LeftOut(n)}

\* Every object that was refused is reported, through whatever groups its
\* error passed, and nothing else is: a config never reaches Apply.
ReportsEveryFailure == phase = "applied" => result = failed

\* What a group inherits is what the group right around it states, however deep
\* it is nested and whatever comes before or after it in the document: it is
\* decoded before the group around it has inherited anything itself.
InheritsOneLevel ==
  phase = "walk" => \A g \in DOMAIN nodes :
    nodes[g].kind = "group" =>
      nodes[g].errorPolicy =
        IF nodes[g].stated # "" \/ nodes[g].parent = 0 THEN nodes[g].stated
        ELSE nodes[nodes[g].parent].stated

\* "The errorPolicy is inherited by child groups and defaults to Continue": a
\* group aborts if and only if the innermost group around it that states a
\* policy states "Abort".
Stating(n) == {g \in Path[n] : nodes[g].stated # ""}
Effective(n) == IF Stating(n) = {} THEN "" ELSE nodes[Max(Stating(n))].stated
InheritsErrorPolicy ==
  phase = "walk" => \A g \in DOMAIN nodes :
    nodes[g].kind = "group" =>
      (nodes[g].errorPolicy = "Abort" <=> Effective(g) = "Abort")

=============================================================================
