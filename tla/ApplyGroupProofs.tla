---------------------------- MODULE ApplyGroupProofs ----------------------------
(***************************************************************************)
(* Proofs about ApplyGroup for documents of any size, nested in any way:   *)
(* that Apply reports exactly the objects that were refused (Reported),    *)
(* that it sends exactly those objects that it should (Ordered, about the  *)
(* document, and Decided, about the activations of Apply), and what a      *)
(* group inherits (Inheriting).                                            *)
(***************************************************************************)
EXTENDS ApplyGroup, SequenceTheorems, WellFoundedInduction, TLAPS

------------------------------------------------------------------------------
(* All but the last element of a sequence *)

LEMMA FrontOf ==
  ASSUME NEW S, NEW s \in Seq(S), s # <<>>
  PROVE  /\ Front(s) \in Seq(S) /\ Len(Front(s)) = Len(s) - 1
         /\ \A i \in 1..Len(s) - 1 : Front(s)[i] = s[i]
         /\ Last(s) = s[Len(s)] /\ Len(s) \in 1..Len(s)
<1> DEFINE m == Len(s) - 1
<1>1. Len(s) \in Nat /\ Len(s) # 0
  BY LenProperties, EmptySeq
<1>2. m \in Nat /\ 1 \in Int /\ m \in Int
  BY <1>1
<1>3. \A i \in 1..m : s[i] \in S
  BY <1>1, ElementOfSeq
<1>4. Front(s) = SubSeq(s, 1, m)
  BY DEF Front
<1> HIDE DEF m
<1>5. /\ SubSeq(s, 1, m) \in Seq(S)
      /\ Len(SubSeq(s, 1, m)) = IF 1 <= m THEN m - 1 + 1 ELSE 0
      /\ \A i \in 1..m - 1 + 1 : SubSeq(s, 1, m)[i] = s[1 + i - 1]
  BY <1>2, <1>3, SubSeqProperties
<1>6. (IF 1 <= m THEN m - 1 + 1 ELSE 0) = m /\ m - 1 + 1 = m
  BY <1>2
<1>7. \A i \in 1..m : 1 + i - 1 = i
  BY <1>2
<1>8. \A i \in 1..m : Front(s)[i] = s[i]
  BY <1>4, <1>5, <1>6, <1>7
<1>9. Last(s) = s[Len(s)] /\ Len(s) \in 1..Len(s)
  BY <1>1 DEF Last
<1> QED
  BY <1>4, <1>5, <1>6, <1>8, <1>9 DEF m

------------------------------------------------------------------------------
(* The tree of Appliers *)

\* A child of a group is a node other than a config, and so is the root.
Child(ns, n) == n \in 1..Len(ns) /\ ns[n].kind # "config"

Tree(ns) ==
  /\ ns # <<>> => Child(ns, 1)
  /\ \A n \in 1..Len(ns) :
       /\ ns[n].parent < n
       /\ \A i \in 1..Len(ns[n].group) : Child(ns, ns[n].group[i])

SameKinds(ms, ns) ==
  Len(ms) <= Len(ns) /\ \A n \in 1..Len(ms) : ns[n].kind = ms[n].kind

LEMMA Appended ==
  ASSUME NEW ns \in Seq(Applier), Tree(ns), NEW elem \in Applier,
         elem.parent <= Len(ns), elem.group = <<>>,
         elem.kind = "config" => ns # <<>>
  PROVE  /\ Append(ns, elem) \in Seq(Applier) /\ Tree(Append(ns, elem))
         /\ Len(Append(ns, elem)) = Len(ns) + 1
         /\ SameKinds(ns, Append(ns, elem))
         /\ Append(ns, elem)[Len(ns) + 1] = elem
<1> DEFINE all == Append(ns, elem)
<1>1. /\ all \in Seq(Applier) /\ Len(all) = Len(ns) + 1
      /\ all[Len(ns) + 1] = elem
      /\ \A i \in 1..Len(ns) : all[i] = ns[i]
  BY AppendProperties
<1>2. Len(ns) \in Nat
  BY LenProperties
<1> HIDE DEF all
<1>3. \A n : Child(ns, n) => Child(all, n)
  BY <1>1, <1>2 DEF Child
<1>4. Child(all, 1)
  <2>1. CASE ns = <<>>
    <3>1. Len(ns) = 0
      BY <2>1
    <3> QED
      BY <1>1, <2>1, <3>1 DEF Child
  <2>2. CASE ns # <<>>
    BY <1>3, <2>2 DEF Tree
  <2> QED
    BY <2>1, <2>2
<1>5. ASSUME NEW n \in 1..Len(all)
      PROVE  /\ all[n].parent < n
             /\ \A i \in 1..Len(all[n].group) : Child(all, all[n].group[i])
  <2>1. CASE n = Len(ns) + 1
    <3>1. all[n].parent <= Len(ns) /\ all[n].group = <<>>
      BY <1>1, <2>1
    <3>2. all[n].parent \in Int
      <4>1. all[n] \in Applier
        BY <1>1, ElementOfSeq
      <4> QED
        BY <4>1 DEF Applier, Ids
    <3> QED
      BY <1>2, <2>1, <3>1, <3>2
  <2>2. CASE n # Len(ns) + 1
    <3>1. n \in 1..Len(ns) /\ all[n] = ns[n]
      BY <1>1, <1>2, <2>2
    <3> QED
      BY <1>3, <3>1 DEF Tree
  <2> QED
    BY <2>1, <2>2
<1> QED
  BY <1>1, <1>2, <1>4, <1>5 DEF Tree, SameKinds, all

LEMMA Replaced ==
  ASSUME NEW ns \in Seq(Applier), Tree(ns), NEW p \in 1..Len(ns),
         NEW elem \in Applier,
         elem.kind = ns[p].kind, elem.parent = ns[p].parent,
         \A i \in 1..Len(elem.group) : Child(ns, elem.group[i])
  PROVE  LET all == [ns EXCEPT ![p] = elem] IN
         /\ all \in Seq(Applier) /\ Tree(all) /\ Len(all) = Len(ns)
         /\ SameKinds(ns, all)
<1> DEFINE all == [ns EXCEPT ![p] = elem]
<1>1. /\ all \in Seq(Applier) /\ Len(all) = Len(ns)
      /\ \A j \in 1..Len(ns) : all[j] = IF j = p THEN elem ELSE ns[j]
  BY ExceptSeq
<1>2. Len(ns) \in Nat
  BY LenProperties
<1> HIDE DEF all
<1>3. \A n : Child(ns, n) => Child(all, n)
  BY <1>1 DEF Child
<1>4. all # <<>> => Child(all, 1)
  <2>1. all # <<>> => ns # <<>>
    BY <1>1, EmptySeq
  <2> QED
    BY <1>3, <2>1 DEF Tree
<1>5. \A n \in 1..Len(all) :
        /\ all[n].parent < n
        /\ \A i \in 1..Len(all[n].group) : Child(all, all[n].group[i])
  BY <1>1, <1>3 DEF Tree
<1>6. SameKinds(ns, all)
  BY <1>1, <1>2 DEF SameKinds
<1> QED
  BY <1>1, <1>4, <1>5, <1>6 DEF Tree, all

LEMMA Added ==
  ASSUME NEW ns \in Seq(Applier), Tree(ns), NEW p \in 0..Len(ns),
         NEW n \in Ids, Child(ns, n)
  PROVE  LET all == AddTo(ns, p, n) IN
         /\ all \in Seq(Applier) /\ Tree(all) /\ Len(all) = Len(ns)
         /\ SameKinds(ns, all)
<1>1. CASE p = 0
  BY <1>1, LenProperties DEF AddTo, SameKinds
<1>2. CASE p # 0
  <2>1. p \in 1..Len(ns) /\ ns[p] \in Applier
    BY <1>2, ElementOfSeq, LenProperties
  <2>2. PICK elem : elem = [ns[p] EXCEPT !.elements = @ + 1,
                                        !.group = Append(@, n)]
    OBVIOUS
  <2>3. AddTo(ns, p, n) = [ns EXCEPT ![p] = elem]
    BY <1>2, <2>1, <2>2 DEF AddTo
  <2>4. ns[p].group \in Seq(Ids) /\ ns[p].elements \in Nat
    BY <2>1 DEF Applier
  <2>5. /\ Append(ns[p].group, n) \in Seq(Ids)
        /\ Len(Append(ns[p].group, n)) = Len(ns[p].group) + 1
        /\ \A i \in 1..Len(ns[p].group) :
             Append(ns[p].group, n)[i] = ns[p].group[i]
        /\ Append(ns[p].group, n)[Len(ns[p].group) + 1] = n
        /\ Len(ns[p].group) \in Nat
    BY <2>4, AppendProperties, LenProperties
  <2>6. /\ elem \in Applier /\ elem.group = Append(ns[p].group, n)
        /\ elem.kind = ns[p].kind /\ elem.parent = ns[p].parent
    <3>1. elem = [kind |-> ns[p].kind, parent |-> ns[p].parent,
                  errorPolicy |-> ns[p].errorPolicy,
                  group |-> Append(ns[p].group, n),
                  elements |-> ns[p].elements + 1, stated |-> ns[p].stated]
      BY <2>1, <2>2 DEF Applier
    <3> QED
      BY <2>1, <2>4, <2>5, <3>1 DEF Applier
  <2>7. \A i \in 1..Len(elem.group) : Child(ns, elem.group[i])
    <3> SUFFICES ASSUME NEW i \in 1..Len(elem.group)
                 PROVE  Child(ns, elem.group[i])
      OBVIOUS
    <3>1. CASE i = Len(ns[p].group) + 1
      BY <2>5, <2>6, <3>1
    <3>2. CASE i # Len(ns[p].group) + 1
      BY <2>1, <2>5, <2>6, <3>2 DEF Tree
    <3> QED
      BY <3>1, <3>2
  <2>8. LET all == [ns EXCEPT ![p] = elem] IN
        /\ all \in Seq(Applier) /\ Tree(all) /\ Len(all) = Len(ns)
        /\ SameKinds(ns, all)
    BY <2>1, <2>6, <2>7, Replaced
  <2> QED
    BY <2>3, <2>8
<1> QED
  BY <1>1, <1>2

\* The same tree: only policies and counts of elements differ.
Shape(ms, ns) ==
  /\ Len(ns) = Len(ms)
  /\ \A k \in 1..Len(ms) : /\ ns[k].kind = ms[k].kind
                           /\ ns[k].parent = ms[k].parent
                           /\ ns[k].group = ms[k].group

LEMMA Reshaped ==
  ASSUME NEW ns \in Seq(Applier), Tree(ns), NEW p \in 1..Len(ns),
         NEW elem \in Applier, elem.kind = ns[p].kind,
         elem.parent = ns[p].parent, elem.group = ns[p].group
  PROVE  LET all == [ns EXCEPT ![p] = elem] IN
         /\ all \in Seq(Applier) /\ Tree(all) /\ Shape(ns, all)
         /\ SameKinds(ns, all)
<1>1. \A i \in 1..Len(elem.group) : Child(ns, elem.group[i])
  BY DEF Tree
<1>2. LET all == [ns EXCEPT ![p] = elem] IN
      /\ all \in Seq(Applier) /\ Tree(all) /\ Len(all) = Len(ns)
      /\ SameKinds(ns, all)
  BY <1>1, Replaced
<1>3. \A j \in 1..Len(ns) :
        [ns EXCEPT ![p] = elem][j] = IF j = p THEN elem ELSE ns[j]
  BY ExceptSeq
<1> QED
  BY <1>2, <1>3 DEF Shape

\* A group takes the policy of its config.
LEMMA Configured ==
  ASSUME NEW ns \in Seq(Applier), Tree(ns), NEW p \in 1..Len(ns),
         NEW policy \in Policies
  PROVE  LET all == [ns EXCEPT ![p].errorPolicy = policy, ![p].stated = policy,
                               ![p].elements = 1] IN
         /\ all \in Seq(Applier) /\ Tree(all) /\ Shape(ns, all)
         /\ SameKinds(ns, all)
<1>1. ns[p] \in Applier
  BY ElementOfSeq
<1>2. PICK elem : elem = [ns[p] EXCEPT !.errorPolicy = policy,
                                      !.stated = policy, !.elements = 1]
  OBVIOUS
<1>3. [ns EXCEPT ![p].errorPolicy = policy, ![p].stated = policy,
                 ![p].elements = 1] = [ns EXCEPT ![p] = elem]
  BY <1>1, <1>2
<1>4. elem = [kind |-> ns[p].kind, parent |-> ns[p].parent,
              errorPolicy |-> policy, group |-> ns[p].group,
              elements |-> 1, stated |-> policy]
  BY <1>1, <1>2 DEF Applier
<1>5. /\ elem \in Applier /\ elem.kind = ns[p].kind
      /\ elem.parent = ns[p].parent /\ elem.group = ns[p].group
  BY <1>1, <1>4 DEF Applier
<1>6. LET all == [ns EXCEPT ![p] = elem] IN
      /\ all \in Seq(Applier) /\ Tree(all) /\ Shape(ns, all)
      /\ SameKinds(ns, all)
  BY <1>5, Reshaped
<1> QED
  BY <1>3, <1>6

\* A group takes the policy of its parent.
LEMMA Inherited ==
  ASSUME NEW ns \in Seq(Applier), Tree(ns), NEW g \in 1..Len(ns),
         NEW p \in 1..Len(ns)
  PROVE  LET all == [ns EXCEPT ![g].errorPolicy = ns[p].errorPolicy] IN
         /\ all \in Seq(Applier) /\ Tree(all) /\ Shape(ns, all)
         /\ SameKinds(ns, all)
<1>1. ns[g] \in Applier /\ ns[p] \in Applier
  BY ElementOfSeq
<1>2. PICK elem : elem = [ns[g] EXCEPT !.errorPolicy = ns[p].errorPolicy]
  OBVIOUS
<1>3. /\ elem \in Applier /\ elem.kind = ns[g].kind
      /\ elem.parent = ns[g].parent /\ elem.group = ns[g].group
  BY <1>1, <1>2 DEF Applier
<1>4. [ns EXCEPT ![g].errorPolicy = ns[p].errorPolicy] = [ns EXCEPT ![g] = elem]
  BY <1>2
<1>5. LET all == [ns EXCEPT ![g] = elem] IN
      /\ all \in Seq(Applier) /\ Tree(all) /\ Shape(ns, all)
      /\ SameKinds(ns, all)
  BY <1>3, Reshaped
<1> QED
  BY <1>4, <1>5

------------------------------------------------------------------------------
(* The activations of Apply *)

\* All activations, or all but the last, have a child to go on with, and a
\* group that aborts and goes on has seen no error.
Calls(fs) ==
  \A i \in 1..Len(fs) :
    LET f == fs[i] IN
    /\ f.node \in 1..Len(nodes)
    /\ i < Len(fs) => f.next <= Len(nodes[f.node].group)
    /\ nodes[f.node].errorPolicy = "Abort"
         /\ f.next <= Len(nodes[f.node].group) => f.errors = {}

ErrorsIn(fs) == UNION {fs[i].errors : i \in 1..Len(fs)}

\* A child returns: its errors are added to those of its group.
LEMMA Collected ==
  ASSUME NEW f \in Frame, NEW errors \in SUBSET Ids, nodes \in Seq(Applier),
         f.node \in 1..Len(nodes),
         f.next <= Len(nodes[f.node].group),
         nodes[f.node].errorPolicy = "Abort" => f.errors = {}
  PROVE  LET g == Collect(f, errors) IN
         /\ g \in Frame /\ g.node = f.node
         /\ g.errors = f.errors \cup errors
         /\ nodes[f.node].errorPolicy = "Abort"
              /\ g.next <= Len(nodes[f.node].group) => g.errors = {}
<1> DEFINE g == Collect(f, errors)
           size == Len(nodes[f.node].group)
<1>1. size \in Nat
  <2>1. nodes[f.node] \in Applier
    BY ElementOfSeq
  <2> QED
    BY <2>1, LenProperties DEF Applier
<1>2. f.node \in Ids /\ f.next \in Nat \ {0} /\ f.errors \in SUBSET Ids
  BY DEF Frame
<1>3. CASE errors # {} /\ nodes[f.node].errorPolicy = "Abort"
  <2>1. g = [node |-> f.node, next |-> size + 1, errors |-> errors]
    BY <1>3 DEF Collect, Frame
  <2> HIDE DEF g, size
  <2>2. g \in Frame
    BY <1>1, <1>2, <2>1 DEF Frame
  <2> QED
    BY <1>1, <1>3, <2>1, <2>2 DEF g, size
<1>4. CASE ~(errors # {} /\ nodes[f.node].errorPolicy = "Abort")
  <2>1. g = [node |-> f.node, next |-> f.next + 1, errors |-> f.errors \cup errors]
    BY <1>4 DEF Collect, Step, Frame
  <2> HIDE DEF g, size
  <2>2. g \in Frame
    BY <1>2, <2>1 DEF Frame
  <2> QED
    BY <1>4, <2>1, <2>2 DEF g, size
<1> QED
  BY <1>3, <1>4

LEMMA Returned ==
  ASSUME NEW fs \in Seq(Frame), NEW errors \in SUBSET Ids,
         nodes \in Seq(Applier), phase = "apply", result \in SUBSET Ids,
         Calls(fs), ReturnTo(fs, errors),
         \A i \in 1..Len(fs) : fs[i].next <= Len(nodes[fs[i].node].group)
  PROVE  /\ frames' \in Seq(Frame) /\ result' \in SUBSET Ids
         /\ \/ phase' = "applied" /\ result' = ErrorsIn(fs) \cup errors
            \/ /\ phase' = "apply" /\ Calls(frames')
               /\ ErrorsIn(frames') = ErrorsIn(fs) \cup errors
<1>1. CASE fs = <<>>
  <2>1. phase' = "applied" /\ result' = errors /\ frames' = fs
    BY <1>1 DEF ReturnTo
  <2>2. ErrorsIn(fs) = {}
    BY <1>1 DEF ErrorsIn
  <2> QED
    BY <2>1, <2>2
<1>2. CASE fs # <<>>
  <2> DEFINE m == Len(fs)
             g == Collect(fs[m], errors)
  <2>1. /\ frames' = [fs EXCEPT ![m] = g]
        /\ UNCHANGED <<phase, result>>
    BY <1>2 DEF ReturnTo
  <2>2. m \in Nat /\ m \in 1..Len(fs)
    BY <1>2, EmptySeq, LenProperties
  <2>3. fs[m] \in Frame
    BY <2>2, ElementOfSeq
  <2>4. /\ g \in Frame /\ g.node = fs[m].node
        /\ g.errors = fs[m].errors \cup errors
        /\ nodes[g.node].errorPolicy = "Abort"
             /\ g.next <= Len(nodes[g.node].group) => g.errors = {}
    <3>1. /\ fs[m].node \in 1..Len(nodes)
          /\ fs[m].next <= Len(nodes[fs[m].node].group)
          /\ nodes[fs[m].node].errorPolicy = "Abort" => fs[m].errors = {}
      BY <2>2 DEF Calls
    <3> QED
      BY <2>3, <3>1, Collected
  <2> HIDE DEF g
  <2>5. /\ frames' \in Seq(Frame) /\ Len(frames') = m
        /\ \A j \in 1..m : frames'[j] = IF j = m THEN g ELSE fs[j]
    BY <2>1, <2>2, <2>4, ExceptSeq
  <2> HIDE DEF m
  <2>6. Calls(frames')
    <3> SUFFICES ASSUME NEW i \in 1..m
                 PROVE  LET f == frames'[i] IN
                   /\ f.node \in 1..Len(nodes)
                   /\ i < m => f.next <= Len(nodes[f.node].group)
                   /\ nodes[f.node].errorPolicy = "Abort"
                        /\ f.next <= Len(nodes[f.node].group) => f.errors = {}
      BY <2>5 DEF Calls
    <3>1. CASE i = m
      <4>1. fs[m].node \in 1..Len(nodes)
        BY <2>2 DEF Calls
      <4> QED
        <5>1. frames'[i] = g /\ ~(i < m)
          BY <2>2, <2>5, <3>1
        <5>2. g.node \in 1..Len(nodes)
          BY <2>4, <4>1
        <5> QED
          BY <2>4, <5>1, <5>2
    <3>2. CASE i # m
      BY <2>5, <3>2 DEF Calls, m
    <3> QED
      BY <3>1, <3>2
  <2>7. ErrorsIn(frames') = ErrorsIn(fs) \cup errors
    <3>1. Len(fs) = m
      BY DEF m
    <3>2. /\ ErrorsIn(fs) = UNION {fs[i].errors : i \in 1..m}
          /\ ErrorsIn(frames') = UNION {frames'[i].errors : i \in 1..m}
      BY <2>5, <3>1 DEF ErrorsIn
    <3>3. \A i \in 1..m : frames'[i].errors
                            = IF i = m THEN fs[m].errors \cup errors ELSE fs[i].errors
      BY <2>4, <2>5
    <3>4. ASSUME NEW e \in ErrorsIn(frames') PROVE e \in ErrorsIn(fs) \cup errors
      <4>1. PICK i \in 1..m : e \in frames'[i].errors
        BY <3>2, <3>4
      <4>2. e \in fs[i].errors \/ e \in errors
        BY <3>3, <4>1
      <4> QED
        BY <3>2, <4>2
    <3>5. ASSUME NEW e \in ErrorsIn(fs) PROVE e \in ErrorsIn(frames')
      <4>1. PICK i \in 1..m : e \in fs[i].errors
        BY <3>2, <3>5
      <4>2. e \in frames'[i].errors
        BY <3>3, <4>1
      <4> QED
        BY <3>2, <4>2
    <3>6. errors \subseteq ErrorsIn(frames')
      <4>1. errors \subseteq frames'[m].errors
        BY <2>2, <3>1, <3>3
      <4> QED
        BY <2>2, <3>1, <3>2, <4>1
    <3> QED
      BY <3>4, <3>5, <3>6
  <2> QED
    BY <2>1, <2>5, <2>6, <2>7
<1> QED
  BY <1>1, <1>2

------------------------------------------------------------------------------
(* The invariant *)

\* Nothing is applied before the document is complete and its root is there.
Decoded ==
  /\ Tree(nodes)
  /\ \A i \in 1..Len(open) : Child(nodes, open[i])
  /\ phase \in {"walk", "apply", "applied"} => nodes # <<>>
  /\ phase \in {"decode", "walk", "refused"} =>
       frames = <<>> /\ attempted = <<>> /\ failed = {} /\ result = {}

\* The activations hold all errors there were, until the result does.
Reported ==
  /\ phase = "apply" => Calls(frames) /\ failed = ErrorsIn(frames)
  /\ phase = "applied" => result = failed

GInv == TypeOK /\ Decoded /\ Reported

LEMMA ParentInTree ==
  ASSUME GInv
  PROVE  Parent \in 0..Len(nodes) /\ Parent \in Ids \cup {0}
         /\ (Parent # 0 => Child(nodes, Parent))
         /\ (nodes = <<>> => Parent = 0)
<1>1. Len(nodes) \in Nat /\ Len(open) \in Nat
  BY LenProperties DEF GInv, TypeOK
<1>2. CASE open = <<>>
  BY <1>1, <1>2 DEF Parent
<1>3. CASE open # <<>>
  <2>1. Len(open) \in 1..Len(open)
    BY <1>1, <1>3, EmptySeq DEF GInv, TypeOK
  <2>2. Parent = open[Len(open)]
    BY <1>3 DEF Parent, Last
  <2>3. Parent \in Ids /\ Child(nodes, Parent)
    BY <2>1, <2>2, ElementOfSeq DEF GInv, TypeOK, Decoded
  <2>4. nodes # <<>>
    BY <2>3, EmptySeq DEF Child, GInv, TypeOK
  <2> QED
    BY <1>1, <2>3, <2>4 DEF Child
<1> QED
  BY <1>2, <1>3

\* While the document is read, only nodes, open and phase change, and children
\* stay children.
LEMMA ReadKeeps ==
  ASSUME GInv, phase = "decode", UNCHANGED applying,
         nodes' \in Seq(Applier), Tree(nodes)', Len(nodes)' <= MaxNodes,
         open' \in Seq(Ids),
         \A i \in 1..Len(open') : Child(nodes, open[i])',
         phase' = "decode" \/ (phase' = "walk" /\ nodes' # <<>>)
  PROVE  GInv'
<1>1. frames = <<>> /\ attempted = <<>> /\ failed = {} /\ result = {}
  BY DEF GInv, Decoded
<1>2. UNCHANGED <<frames, attempted, failed, result>>
  BY DEF applying
<1>3. TypeOK'
  BY <1>2 DEF GInv, TypeOK, Phases
<1>4. Decoded'
  BY <1>1, <1>2 DEF Decoded
<1>5. Reported'
  BY DEF Reported
<1> QED
  BY <1>3, <1>4, <1>5 DEF GInv

LEMMA RefusalKeeps ==
  ASSUME GInv, phase = "decode" \/ phase = "walk", phase' = "refused",
         UNCHANGED <<nodes, open, applying>>
  PROVE  GInv'
<1>1. UNCHANGED <<frames, attempted, failed, result>>
  BY DEF applying
<1> QED
  BY <1>1 DEF GInv, TypeOK, Phases, Decoded, Reported, Tree, Child

\* A node that is not a config is read into its parent.
LEMMA NodeRead ==
  ASSUME GInv, CanRead,
         NEW kind \in {"noop", "apply", "delete", "group"}
  PROVE  LET ns == Append(nodes, Elem(kind)) IN
         /\ ns \in Seq(Applier) /\ Tree(ns) /\ Len(ns) = Len(nodes) + 1
         /\ Len(ns) <= MaxNodes /\ Len(nodes) + 1 \in Ids
         /\ SameKinds(nodes, ns) /\ Child(ns, Len(nodes) + 1)
<1> DEFINE ns == Append(nodes, Elem(kind))
<1>1. /\ nodes \in Seq(Applier) /\ Tree(nodes) /\ Len(nodes) < MaxNodes
      /\ Len(nodes) \in Nat /\ MaxNodes \in Nat
  BY LenProperties, MaxNodesAssumption DEF GInv, TypeOK, Decoded, CanRead
<1>2. <<>> \in Seq(Ids)
  BY EmptySeq
<1>3. /\ Elem(kind) \in Applier /\ Elem(kind).parent <= Len(nodes)
      /\ Elem(kind).group = <<>> /\ Elem(kind).kind = kind
  <2>1. Parent \in Ids \cup {0} /\ Parent <= Len(nodes)
    BY <1>1, ParentInTree
  <2>2. Elem(kind) \in Applier
    BY <1>2, <2>1 DEF Elem, Applier, Policies
  <2> QED
    BY <2>1, <2>2 DEF Elem
<1>4. /\ ns \in Seq(Applier) /\ Tree(ns) /\ Len(ns) = Len(nodes) + 1
      /\ SameKinds(nodes, ns) /\ ns[Len(nodes) + 1] = Elem(kind)
  BY <1>1, <1>3, Appended
<1> HIDE DEF ns
<1>5. Child(ns, Len(nodes) + 1)
  BY <1>1, <1>3, <1>4 DEF Child
<1>6. Len(nodes) + 1 \in Ids /\ Len(ns) <= MaxNodes
  BY <1>1, <1>4 DEF Ids
<1> QED
  BY <1>4, <1>5, <1>6 DEF ns

LEMMA ChildrenStay ==
  ASSUME NEW ms, NEW ns, NEW n, SameKinds(ms, ns), Child(ms, n),
         Len(ms) \in Nat, Len(ns) \in Nat
  PROVE  Child(ns, n)
  BY DEF SameKinds, Child

LEMMA ReadsANode ==
  ASSUME GInv, CanRead, NEW kind \in {"noop", "apply", "delete"},
         nodes' = AddTo(Append(nodes, Elem(kind)), Parent, Len(nodes) + 1),
         DecodedIn(Parent), UNCHANGED <<open, applying>>
  PROVE  GInv'
<1> DEFINE ns == Append(nodes, Elem(kind))
<1>1. /\ ns \in Seq(Applier) /\ Tree(ns) /\ Len(ns) = Len(nodes) + 1
      /\ Len(ns) <= MaxNodes /\ Len(nodes) + 1 \in Ids
      /\ SameKinds(nodes, ns) /\ Child(ns, Len(nodes) + 1)
  BY NodeRead
<1>2. Len(nodes) \in Nat /\ Parent \in 0..Len(ns)
  BY <1>1, ParentInTree, LenProperties DEF GInv, TypeOK
<1> HIDE DEF ns
<1>3. /\ nodes' \in Seq(Applier) /\ Tree(nodes') /\ Len(nodes') = Len(ns)
      /\ SameKinds(ns, nodes')
  BY <1>1, <1>2, Added DEF ns
<1>4. \A i \in 1..Len(open') : Child(nodes', open'[i])
  <2> SUFFICES ASSUME NEW i \in 1..Len(open) PROVE Child(nodes', open[i])
    OBVIOUS
  <2>1. Child(nodes, open[i])
    BY DEF GInv, Decoded
  <2>2. Child(ns, open[i])
    BY <1>1, <1>2, <2>1, ChildrenStay
  <2> QED
    BY <1>1, <1>2, <1>3, <2>2, ChildrenStay
<1>5. phase' = "decode" \/ (phase' = "walk" /\ nodes' # <<>>)
  <2>1. nodes' # <<>>
    BY <1>1, <1>2, <1>3, EmptySeq
  <2> QED
    BY <2>1 DEF DecodedIn
<1>6. open' \in Seq(Ids) /\ phase = "decode" /\ UNCHANGED applying
  BY DEF GInv, TypeOK, CanRead
<1> QED
  BY <1>1, <1>3, <1>4, <1>5, <1>6, ReadKeeps

LEMMA ReadsAConfig ==
  ASSUME GInv, CanRead, Parent # 0, NEW policy \in Policies,
         nodes' = [Append(nodes, Elem("config")) EXCEPT
                     ![Parent].errorPolicy = policy,
                     ![Parent].stated = policy,
                     ![Parent].elements = 1],
         UNCHANGED <<phase, open, applying>>
  PROVE  GInv'
<1> DEFINE ns == Append(nodes, Elem("config"))
           p == Parent
<1>1. /\ nodes \in Seq(Applier) /\ Tree(nodes) /\ Len(nodes) < MaxNodes
      /\ Len(nodes) \in Nat /\ MaxNodes \in Nat
  BY LenProperties, MaxNodesAssumption DEF GInv, TypeOK, Decoded, CanRead
<1>2. /\ p \in 1..Len(nodes) /\ p \in Ids /\ nodes # <<>>
  BY <1>1, ParentInTree
<1>3. <<>> \in Seq(Ids)
  BY EmptySeq
<1>4. /\ Elem("config") \in Applier /\ Elem("config").parent = p
      /\ Elem("config").group = <<>>
  <2> HIDE DEF p
  <2>1. Parent \in Ids
    BY <1>2 DEF p
  <2>2. Elem("config") \in Applier
    BY <1>3, <2>1 DEF Elem, Applier, Policies
  <2> QED
    BY <2>2 DEF Elem, p
<1>5. /\ ns \in Seq(Applier) /\ Tree(ns) /\ Len(ns) = Len(nodes) + 1
      /\ SameKinds(nodes, ns)
  BY <1>1, <1>2, <1>4, Appended
<1> HIDE DEF ns, p
<1>6. p \in 1..Len(ns) /\ ns[p] \in Applier
  BY <1>1, <1>2, <1>5, ElementOfSeq
<1>10. /\ nodes' \in Seq(Applier) /\ Tree(nodes') /\ Len(nodes') = Len(ns)
       /\ SameKinds(ns, nodes')
  BY <1>5, <1>6, Configured DEF Shape, ns, p
<1>11. \A j \in 1..Len(open') : Child(nodes', open'[j])
  <2> SUFFICES ASSUME NEW j \in 1..Len(open) PROVE Child(nodes', open[j])
    OBVIOUS
  <2>1. Child(nodes, open[j])
    BY DEF GInv, Decoded
  <2>2. Child(ns, open[j])
    BY <1>1, <1>5, <2>1, ChildrenStay
  <2> QED
    <3>1. Len(ns) \in Nat /\ Len(nodes') \in Nat
      BY <1>1, <1>5, <1>10
    <3> QED
      BY <1>10, <2>2, <3>1, ChildrenStay
<1>12. open' \in Seq(Ids) /\ phase = "decode" /\ UNCHANGED applying
       /\ phase' = "decode" /\ Len(nodes') <= MaxNodes
  BY <1>1, <1>5, <1>10 DEF GInv, TypeOK, CanRead
<1> QED
  BY <1>10, <1>11, <1>12, ReadKeeps

LEMMA OpensAGroup ==
  ASSUME GInv, OpenGroup
  PROVE  GInv'
<1> DEFINE ns == Append(nodes, Elem("group"))
<1>0. CanRead /\ nodes' = ns /\ open' = Append(open, Len(nodes) + 1)
      /\ UNCHANGED <<phase, applying>>
  BY DEF OpenGroup
<1>1. /\ ns \in Seq(Applier) /\ Tree(ns) /\ Len(ns) = Len(nodes) + 1
      /\ Len(ns) <= MaxNodes /\ Len(nodes) + 1 \in Ids
      /\ SameKinds(nodes, ns) /\ Child(ns, Len(nodes) + 1)
  BY <1>0, NodeRead
<1>2. Len(nodes) \in Nat /\ open \in Seq(Ids) /\ Len(open) \in Nat
  BY LenProperties DEF GInv, TypeOK
<1> HIDE DEF ns
<1>3. /\ open' \in Seq(Ids) /\ Len(open') = Len(open) + 1
      /\ open'[Len(open) + 1] = Len(nodes) + 1
      /\ \A i \in 1..Len(open) : open'[i] = open[i]
  BY <1>0, <1>1, <1>2, AppendProperties
<1>4. \A i \in 1..Len(open') : Child(nodes', open'[i])
  <2> SUFFICES ASSUME NEW i \in 1..Len(open') PROVE Child(ns, open'[i])
    BY <1>0
  <2>1. CASE i = Len(open) + 1
    BY <1>1, <1>3, <2>1
  <2>2. CASE i # Len(open) + 1
    <3>1. open'[i] = open[i] /\ Child(nodes, open[i])
      BY <1>2, <1>3, <2>2 DEF GInv, Decoded
    <3> QED
      BY <1>1, <1>2, <3>1, ChildrenStay
  <2> QED
    BY <2>1, <2>2
<1>5. phase = "decode" /\ phase' = "decode" /\ UNCHANGED applying
  BY <1>0 DEF CanRead
<1> QED
  BY <1>0, <1>1, <1>3, <1>4, <1>5, ReadKeeps

LEMMA ClosesAGroup ==
  ASSUME GInv, CloseGroup
  PROVE  GInv'
<1> DEFINE g == Last(open)
           p == nodes[g].parent
           inherits == nodes[g].errorPolicy = "" /\ p # 0
           decoded == IF inherits
                      THEN [nodes EXCEPT ![g].errorPolicy = nodes[p].errorPolicy]
                      ELSE nodes
<1>0. /\ phase = "decode" /\ open # <<>>
      /\ nodes' = AddTo(decoded, p, g) /\ open' = Front(open)
      /\ DecodedIn(p) /\ UNCHANGED applying
  BY DEF CloseGroup
<1> HIDE DEF g, p, inherits, decoded
<1>1. /\ nodes \in Seq(Applier) /\ Tree(nodes) /\ Len(nodes) \in Nat
      /\ Len(nodes) <= MaxNodes /\ open \in Seq(Ids) /\ Len(open) \in Nat
  BY LenProperties DEF GInv, TypeOK, Decoded
<1>2. /\ Len(open) \in 1..Len(open) /\ g = open[Len(open)]
      /\ g \in Ids /\ Child(nodes, g)
  <2>1. Len(open) \in 1..Len(open)
    BY <1>0, <1>1, EmptySeq
  <2> QED
    BY <1>1, <2>1, ElementOfSeq DEF Last, GInv, Decoded, g
<1>3. g \in 1..Len(nodes) /\ nodes[g] \in Applier
  BY <1>1, <1>2, ElementOfSeq DEF Child
<1>4. p \in 0..Len(nodes)
  <2>1. p < g /\ p \in Ids \cup {0}
    BY <1>1, <1>3 DEF Tree, Applier, p
  <2> QED
    BY <1>1, <1>3, <2>1 DEF Ids
<1>5. /\ decoded \in Seq(Applier) /\ Tree(decoded)
      /\ Len(decoded) = Len(nodes) /\ SameKinds(nodes, decoded)
  <2>1. CASE ~inherits
    <3>1. decoded = nodes
      BY <2>1 DEF decoded
    <3> QED
      BY <1>1, <3>1 DEF SameKinds
  <2>2. CASE inherits
    <3>0. p # 0
      BY <2>2 DEF inherits
    <3>1. p \in 1..Len(nodes)
      BY <1>1, <1>4, <3>0
    <3> QED
      <4>1. PICK all : all = [nodes EXCEPT ![g].errorPolicy = nodes[p].errorPolicy]
        OBVIOUS
      <4>2. /\ all \in Seq(Applier) /\ Tree(all) /\ Shape(nodes, all)
            /\ SameKinds(nodes, all)
        BY <1>1, <1>3, <3>1, <4>1, Inherited
      <4>3. decoded = all
        BY <2>2, <4>1 DEF decoded
      <4> QED
        BY <4>2, <4>3 DEF Shape
  <2> QED
    BY <2>1, <2>2
<1>6. Child(decoded, g)
  BY <1>1, <1>2, <1>5, ChildrenStay
<1>7. /\ nodes' \in Seq(Applier) /\ Tree(nodes') /\ Len(nodes') = Len(decoded)
      /\ SameKinds(decoded, nodes')
  BY <1>0, <1>2, <1>4, <1>5, <1>6, Added
<1>8. /\ open' \in Seq(Ids) /\ Len(open') = Len(open) - 1
      /\ \A i \in 1..Len(open) - 1 : open'[i] = open[i]
  BY <1>0, <1>1, FrontOf
<1>9. \A i \in 1..Len(open') : Child(nodes', open'[i])
  <2> SUFFICES ASSUME NEW i \in 1..Len(open') PROVE Child(nodes', open'[i])
    OBVIOUS
  <2>1. open'[i] = open[i] /\ Child(nodes, open[i])
    BY <1>1, <1>8 DEF GInv, Decoded
  <2>2. Child(decoded, open[i])
    BY <1>1, <1>5, <2>1, ChildrenStay
  <2> QED
    BY <1>1, <1>5, <1>7, <2>1, <2>2, ChildrenStay
<1>10. phase' = "decode" \/ (phase' = "walk" /\ nodes' # <<>>)
  <2>1. nodes' # <<>>
    BY <1>1, <1>3, <1>5, <1>7, EmptySeq
  <2> QED
    BY <1>0, <2>1 DEF DecodedIn
<1> QED
  BY <1>0, <1>1, <1>5, <1>7, <1>8, <1>9, <1>10, ReadKeeps

------------------------------------------------------------------------------
(* Apply *)

\* The next node is a child, and every activation has one to go on with.
LEMMA NextIsAChild ==
  ASSUME GInv, HasNext
  PROVE  /\ NextNode \in Ids /\ Child(nodes, NextNode)
         /\ \A i \in 1..Len(frames) :
              frames[i].next <= Len(nodes[frames[i].node].group)
<1>1. /\ nodes \in Seq(Applier) /\ Tree(nodes) /\ nodes # <<>>
      /\ Len(nodes) \in Nat /\ Len(nodes) <= MaxNodes /\ MaxNodes \in Nat
      /\ frames \in Seq(Frame) /\ Calls(frames)
  BY LenProperties, MaxNodesAssumption
     DEF GInv, TypeOK, Decoded, Reported, HasNext
<1>2. CASE frames = <<>>
  <2>1. NextNode = 1 /\ Child(nodes, 1) /\ Len(frames) = 0
    BY <1>1, <1>2 DEF NextNode, Tree
  <2> QED
    BY <1>1, <2>1 DEF Child, Ids
<1>3. CASE frames # <<>>
  <2> DEFINE m == Len(frames)
             f == frames[m]
  <2>1. m \in Nat /\ m \in 1..m /\ Last(frames) = f /\ f \in Frame
    BY <1>1, <1>3, FrontOf, LenProperties, ElementOfSeq
  <2>2. f.next <= Len(nodes[f.node].group) /\ f.next \in Nat \ {0}
    BY <1>3, <2>1 DEF HasNext, Frame
  <2>3. f.node \in 1..Len(nodes)
    BY <1>1, <2>1 DEF Calls
  <2>4. NextNode = nodes[f.node].group[f.next]
    BY <1>3, <2>1 DEF NextNode
  <2>5. \A i \in 1..m : frames[i].next <= Len(nodes[frames[i].node].group)
    <3> SUFFICES ASSUME NEW i \in 1..m
                 PROVE  frames[i].next <= Len(nodes[frames[i].node].group)
      OBVIOUS
    <3>1. CASE i = m
      BY <2>2, <3>1
    <3>2. CASE i # m
      BY <1>1, <2>1, <3>2 DEF Calls
    <3> QED
      BY <3>1, <3>2
  <2> HIDE DEF m, f
  <2>6. nodes[f.node] \in Applier
    BY <1>1, <2>3, ElementOfSeq
  <2>7. nodes[f.node].group \in Seq(Ids)
    BY <2>6 DEF Applier
  <2>8. f.next \in 1..Len(nodes[f.node].group)
    BY <2>2, <2>7, LenProperties
  <2> QED
    BY <1>1, <2>3, <2>4, <2>5, <2>7, <2>8, ElementOfSeq DEF Tree, m
<1> QED
  BY <1>2, <1>3

\* A call of Apply returns what failed in it, if anything, to its caller.
LEMMA ReturnKeeps ==
  ASSUME GInv, phase = "apply", UNCHANGED <<nodes, open>>,
         NEW fs \in Seq(Frame), NEW errors \in SUBSET Ids, Calls(fs),
         ReturnTo(fs, errors), failed' = ErrorsIn(fs) \cup errors,
         \A i \in 1..Len(fs) : fs[i].next <= Len(nodes[fs[i].node].group),
         attempted' \in Seq(Ids), failed' \subseteq Range(attempted')
  PROVE  GInv'
<1>1. nodes \in Seq(Applier) /\ result \in SUBSET Ids
  BY DEF GInv, TypeOK
<1>2. /\ frames' \in Seq(Frame) /\ result' \in SUBSET Ids
      /\ \/ phase' = "applied" /\ result' = failed'
         \/ /\ phase' = "apply" /\ Calls(frames')
            /\ ErrorsIn(frames') = failed'
  BY <1>1, Returned
<1>3. TypeOK'
  BY <1>2 DEF GInv, TypeOK, Phases
<1>4. Decoded'
  BY <1>2 DEF GInv, Decoded, Tree, Child
<1>5. Reported'
  BY <1>2 DEF Reported, Calls, ErrorsIn
<1> QED
  BY <1>3, <1>4, <1>5 DEF GInv

LEMMA AppliesNothing ==
  ASSUME GInv, ApplyNothing
  PROVE  GInv'
<1>1. nodes[NextNode].kind # "config"
  BY NextIsAChild DEF ApplyNothing, Child
<1>2. phase = "apply" /\ ReturnTo(frames, {})
  BY <1>1 DEF ApplyNothing, HasNext
<1>3. /\ frames \in Seq(Frame) /\ Calls(frames) /\ failed = ErrorsIn(frames)
      /\ attempted \in Seq(Ids) /\ failed \subseteq Range(attempted)
  BY <1>2 DEF GInv, TypeOK, Reported
<1>4. UNCHANGED <<nodes, open, attempted, failed>>
  BY DEF ApplyNothing
<1>5. \A i \in 1..Len(frames) :
        frames[i].next <= Len(nodes[frames[i].node].group)
  BY NextIsAChild DEF ApplyNothing
<1> QED
  BY <1>2, <1>3, <1>4, <1>5, ReturnKeeps

LEMMA AppliesAnObject ==
  ASSUME GInv, ApplyObject
  PROVE  GInv'
<1>1. HasNext /\ phase = "apply" /\ UNCHANGED <<nodes, open>>
  BY DEF ApplyObject, HasNext
<1>2. PICK errors \in SUBSET {NextNode} :
        /\ attempted' = Append(attempted, NextNode)
        /\ failed' = failed \cup errors
        /\ ReturnTo(frames, errors)
  BY DEF ApplyObject
<1>3. /\ NextNode \in Ids
      /\ \A i \in 1..Len(frames) :
           frames[i].next <= Len(nodes[frames[i].node].group)
  BY <1>1, NextIsAChild
<1>4. /\ frames \in Seq(Frame) /\ Calls(frames) /\ failed = ErrorsIn(frames)
      /\ attempted \in Seq(Ids) /\ failed \subseteq Range(attempted)
  BY <1>1 DEF GInv, TypeOK, Reported
<1>5. /\ attempted' \in Seq(Ids) /\ Len(attempted') = Len(attempted) + 1
      /\ attempted'[Len(attempted) + 1] = NextNode
      /\ \A i \in 1..Len(attempted) : attempted'[i] = attempted[i]
      /\ Len(attempted) \in Nat
  BY <1>2, <1>3, <1>4, AppendProperties, LenProperties
<1>6. failed' \subseteq Range(attempted')
  <2>1. /\ Range(attempted) = {attempted[i] : i \in 1..Len(attempted)}
        /\ Range(attempted') = {attempted'[i] : i \in 1..Len(attempted')}
    BY <1>4, <1>5, RangeEquality
  <2>2. Range(attempted) \subseteq Range(attempted')
    BY <1>5, <2>1
  <2>3. NextNode \in Range(attempted')
    BY <1>5, <2>1
  <2> QED
    BY <1>2, <1>4, <2>2, <2>3
<1> QED
  BY <1>1, <1>2, <1>3, <1>4, <1>5, <1>6, ReturnKeeps

LEMMA EntersAGroup ==
  ASSUME GInv, EnterGroup
  PROVE  GInv'
<1> DEFINE call == [node |-> NextNode, next |-> 1, errors |-> {}]
<1>1. /\ HasNext /\ phase = "apply" /\ frames' = Append(frames, call)
      /\ UNCHANGED <<phase, nodes, open, attempted, failed, result>>
  BY DEF EnterGroup, HasNext, decoding
<1>2. /\ NextNode \in Ids /\ NextNode \in 1..Len(nodes)
      /\ \A i \in 1..Len(frames) :
           frames[i].next <= Len(nodes[frames[i].node].group)
  BY <1>1, NextIsAChild DEF Child
<1>3. call \in Frame /\ call.errors = {} /\ call.node = NextNode
  BY <1>2 DEF Frame
<1>4. /\ frames \in Seq(Frame) /\ Calls(frames) /\ failed = ErrorsIn(frames)
      /\ Len(frames) \in Nat
  BY <1>1, LenProperties DEF GInv, TypeOK, Reported
<1> HIDE DEF call
<1>5. /\ frames' \in Seq(Frame) /\ Len(frames') = Len(frames) + 1
      /\ frames'[Len(frames) + 1] = call
      /\ \A i \in 1..Len(frames) : frames'[i] = frames[i]
  BY <1>1, <1>3, <1>4, AppendProperties
<1>6. Calls(frames')
  <2> SUFFICES ASSUME NEW i \in 1..Len(frames')
               PROVE  LET f == frames'[i] IN
                 /\ f.node \in 1..Len(nodes)
                 /\ i < Len(frames') => f.next <= Len(nodes[f.node].group)
                 /\ nodes[f.node].errorPolicy = "Abort"
                      /\ f.next <= Len(nodes[f.node].group) => f.errors = {}
    BY DEF Calls
  <2>1. CASE i = Len(frames) + 1
    <3>1. frames'[i] = call /\ ~(i < Len(frames'))
      BY <1>4, <1>5, <2>1
    <3> QED
      BY <1>2, <1>3, <3>1
  <2>2. CASE i # Len(frames) + 1
    <3>1. i \in 1..Len(frames) /\ frames'[i] = frames[i]
      BY <1>4, <1>5, <2>2
    <3> QED
      BY <1>2, <1>4, <3>1 DEF Calls
  <2> QED
    BY <2>1, <2>2
<1>7. ErrorsIn(frames') = ErrorsIn(frames)
  <2>1. \A i \in 1..Len(frames') : i = Len(frames) + 1 \/ i \in 1..Len(frames)
    BY <1>4, <1>5
  <2>2. \A i \in 1..Len(frames) : i \in 1..Len(frames')
    BY <1>4, <1>5
  <2>3. ErrorsIn(frames') \subseteq ErrorsIn(frames)
    BY <1>3, <1>5, <2>1 DEF ErrorsIn
  <2>4. ErrorsIn(frames) \subseteq ErrorsIn(frames')
    BY <1>5, <2>2 DEF ErrorsIn
  <2> QED
    BY <2>3, <2>4
<1>8. TypeOK'
  BY <1>1, <1>5 DEF GInv, TypeOK
<1>9. Decoded'
  BY <1>1 DEF GInv, Decoded, Tree, Child
<1>10. Reported'
  BY <1>1, <1>4, <1>6, <1>7 DEF Reported, Calls, ErrorsIn
<1> QED
  BY <1>8, <1>9, <1>10 DEF GInv

LEMMA LeavesAGroup ==
  ASSUME GInv, LeaveGroup
  PROVE  GInv'
<1> DEFINE fs == Front(frames)
           errors == Last(frames).errors
<1>1. /\ phase = "apply" /\ frames # <<>> /\ ReturnTo(fs, errors)
      /\ UNCHANGED <<nodes, open, attempted, failed>>
  BY DEF LeaveGroup, HasNext
<1>2. /\ frames \in Seq(Frame) /\ Calls(frames) /\ failed = ErrorsIn(frames)
      /\ attempted \in Seq(Ids) /\ failed \subseteq Range(attempted)
  BY <1>1 DEF GInv, TypeOK, Reported
<1>3. /\ fs \in Seq(Frame) /\ Len(fs) = Len(frames) - 1
      /\ \A i \in 1..Len(fs) : fs[i] = frames[i]
      /\ Last(frames) = frames[Len(frames)] /\ Len(frames) \in 1..Len(frames)
      /\ Len(frames) \in Nat
  BY <1>1, <1>2, FrontOf, LenProperties
<1>4. errors \in SUBSET Ids
  <2>1. Last(frames) \in Frame
    BY <1>2, <1>3, ElementOfSeq
  <2> QED
    BY <2>1 DEF Frame
<1> HIDE DEF fs
<1>5. /\ Calls(fs)
      /\ \A i \in 1..Len(fs) : fs[i].next <= Len(nodes[fs[i].node].group)
  <2>1. \A i \in 1..Len(fs) : i \in 1..Len(frames) /\ i < Len(frames)
    BY <1>3
  <2> QED
    BY <1>2, <1>3, <2>1 DEF Calls
<1>6. failed' = ErrorsIn(fs) \cup errors
  <2>1. \A i \in 1..Len(frames) : i = Len(frames) \/ i \in 1..Len(fs)
    BY <1>3
  <2>2. \A i \in 1..Len(fs) : i \in 1..Len(frames)
    BY <1>3
  <2>3. ErrorsIn(frames) \subseteq ErrorsIn(fs) \cup errors
    BY <1>3, <2>1 DEF ErrorsIn
  <2>4. ErrorsIn(fs) \cup errors \subseteq ErrorsIn(frames)
    BY <1>3, <2>2 DEF ErrorsIn
  <2> QED
    BY <1>1, <1>2, <2>3, <2>4
<1> QED
  BY <1>1, <1>2, <1>3, <1>4, <1>5, <1>6, ReturnKeeps

\* The namespaces are defaulted: Apply is called for the root, or nothing is.
LEMMA Defaulted ==
  ASSUME GInv, DefaultNamespaces
  PROVE  GInv'
<1>1. CASE phase' = "apply"
  <2>1. /\ frames = <<>> /\ failed = {} /\ nodes # <<>>
        /\ UNCHANGED <<nodes, open, frames, attempted, failed, result>>
    BY DEF DefaultNamespaces, GInv, Decoded, applying
  <2>2. Calls(frames') /\ ErrorsIn(frames') = {}
    BY <2>1 DEF Calls, ErrorsIn
  <2> QED
    BY <1>1, <2>1, <2>2
       DEF GInv, TypeOK, Phases, Decoded, Reported, Tree, Child, Calls, ErrorsIn
<1>2. CASE phase' # "apply"
  BY <1>2, RefusalKeeps DEF DefaultNamespaces
<1> QED
  BY <1>1, <1>2

------------------------------------------------------------------------------
(* The invariant holds *)

LEMMA Invariance == Spec => []GInv
<1>1. Init => GInv
  <2> SUFFICES ASSUME Init PROVE GInv
    OBVIOUS
  <2>1. /\ nodes \in Seq(Applier) /\ Len(nodes) = 0 /\ open \in Seq(Ids)
        /\ Len(open) = 0 /\ frames \in Seq(Frame) /\ attempted \in Seq(Ids)
    BY EmptySeq DEF Init
  <2> QED
    BY <2>1, MaxNodesAssumption
       DEF Init, GInv, TypeOK, Phases, Decoded, Reported, Tree
<1>2. GInv /\ [Next]_vars => GInv'
  <2> SUFFICES ASSUME GInv, [Next]_vars PROVE GInv'
    OBVIOUS
  <2>1. CASE ReadNull
    BY <2>1, ReadsANode DEF ReadNull
  <2>2. CASE ReadObject
    <3>1. CASE Refuse
      BY <2>2, <3>1, RefusalKeeps DEF ReadObject, Refuse, CanRead
    <3>2. CASE ~Refuse
      BY <2>2, <3>2, ReadsANode DEF ReadObject, ResourceKinds
    <3> QED
      BY <3>1, <3>2
  <2>3. CASE ReadConfig
    <3>1. CASE Refuse
      BY <2>3, <3>1, RefusalKeeps DEF ReadConfig, Refuse, CanRead
    <3>2. CASE ~Refuse
      BY <2>3, <3>2, ReadsAConfig DEF ReadConfig
    <3> QED
      BY <3>1, <3>2
  <2>4. CASE OpenGroup
    BY <2>4, OpensAGroup
  <2>5. CASE CloseGroup
    BY <2>5, ClosesAGroup
  <2>6. CASE DefaultNamespaces
    BY <2>6, Defaulted
  <2>7. CASE ApplyNothing
    BY <2>7, AppliesNothing
  <2>8. CASE ApplyObject
    BY <2>8, AppliesAnObject
  <2>9. CASE EnterGroup
    BY <2>9, EntersAGroup
  <2>10. CASE LeaveGroup
    BY <2>10, LeavesAGroup
  <2>11. CASE UNCHANGED vars
    <3>1. TypeOK'
      BY <2>11 DEF vars, GInv, TypeOK
    <3>2. Decoded'
      BY <2>11 DEF vars, GInv, Decoded
    <3>3. Reported'
      BY <2>11 DEF vars, GInv, Reported, Calls
    <3> QED
      BY <3>1, <3>2, <3>3 DEF GInv
  <2> QED
    BY <2>1, <2>2, <2>3, <2>4, <2>5, <2>6, <2>7, <2>8, <2>9, <2>10, <2>11
       DEF Next
<1> QED
  BY <1>1, <1>2, PTL DEF Spec

------------------------------------------------------------------------------
(* Document order *)

\* The node n and the groups it is in, told by its place in the document: g is
\* one of them when nothing between the two is outside g.
Within(ns, n) == {g \in 1..n : \A k \in g + 1..n : ns[k].parent >= g}

\* Every node but the root was read into a group that was open.
Numbered(ns) ==
  \A n \in 1..Len(ns) :
    IF n = 1 THEN ns[n].parent = 0
    ELSE /\ ns[n].parent \in Within(ns, n - 1)
         /\ ns[ns[n].parent].kind = "group"

\* The children of a group are in it, in the order of the document.
Grouped(ns) ==
  \A g \in 1..Len(ns) : \A i \in 1..Len(ns[g].group) :
    /\ ns[ns[g].group[i]].parent = g
    /\ \A j \in 1..i - 1 : ns[g].group[j] < ns[g].group[i]

\* The open groups are nested, and each comes after the children that its
\* outer groups have so far.
Opened(ns, op) ==
  \A i \in 1..Len(op) :
    /\ op[i] \in Within(ns, Len(ns))
    /\ ns[op[i]].parent = IF i = 1 THEN 0 ELSE op[i - 1]
    /\ \A j \in 1..i - 1 :
         /\ op[j] < op[i]
         /\ \A k \in 1..Len(ns[op[j]].group) : ns[op[j]].group[k] < op[i]

\* No node is lost: unless it is still open, it is a child of its group.
Placed(ns, op) ==
  \A n \in 1..Len(ns) :
    \/ n = 1 \/ ns[n].kind = "config"
    \/ \E i \in 1..Len(op) : op[i] = n
    \/ \E i \in 1..Len(ns[ns[n].parent].group) : ns[ns[n].parent].group[i] = n

InOrder(ns, op) ==
  Numbered(ns) /\ Grouped(ns) /\ Opened(ns, op) /\ Placed(ns, op)

Groups(ns, op) == \A i \in 1..Len(op) : ns[op[i]].kind = "group"

Ordered ==
  /\ InOrder(nodes, open) /\ Groups(nodes, open)
  /\ phase = "decode" /\ open = <<>> => nodes = <<>>
  /\ phase \in {"walk", "apply", "applied"} => open = <<>>


\* The nodes of a document are in it, with the type of an Applier, and every
\* node is read after its parent.
Document(ns) == ns \in Seq(Applier) /\ Tree(ns)

LEMMA DocumentOf ==
  ASSUME NEW ns, Document(ns)
  PROVE  /\ Len(ns) \in Nat
         /\ \A k \in 1..Len(ns) :
              /\ ns[k].parent \in Nat /\ ns[k].parent < k
              /\ ns[k].group \in Seq(Ids) /\ Len(ns[k].group) \in Nat
              /\ \A i \in 1..Len(ns[k].group) : ns[k].group[i] \in 1..Len(ns)
<1>1. Len(ns) \in Nat
  BY LenProperties DEF Document
<1>2. ASSUME NEW k \in 1..Len(ns)
      PROVE  /\ ns[k].parent \in Nat /\ ns[k].parent < k
             /\ ns[k].group \in Seq(Ids) /\ Len(ns[k].group) \in Nat
             /\ \A i \in 1..Len(ns[k].group) : ns[k].group[i] \in 1..Len(ns)
  <2>1. ns[k] \in Applier
    BY ElementOfSeq DEF Document
  <2> QED
    BY <2>1, LenProperties DEF Applier, Ids, Document, Tree, Child
<1> QED
  BY <1>1, <1>2

LEMMA WithinKept ==
  ASSUME NEW ms, NEW ns, NEW n \in Nat,
         \A k \in 1..n : ns[k].parent = ms[k].parent
  PROVE  Within(ns, n) = Within(ms, n)
  BY DEF Within

\* Groups nest: what a group around n is in, n is in.
LEMMA Nests ==
  ASSUME NEW ns, Document(ns), NEW n \in 1..Len(ns),
         NEW c \in Within(ns, n), NEW g \in Within(ns, c)
  PROVE  g \in Within(ns, n)
<1>1. \A k \in 1..n : ns[k].parent \in Nat
  BY DocumentOf
<1> QED
  BY <1>1, DocumentOf DEF Within

LEMMA SameShape ==
  ASSUME NEW ms, NEW ns, NEW op \in Seq(Ids), Document(ms), Shape(ms, ns),
         InOrder(ms, op)
  PROVE  InOrder(ns, op) /\ (Groups(ms, op) => Groups(ns, op))
<1>1. /\ Len(ms) \in Nat
      /\ \A k \in 1..Len(ms) :
           /\ ms[k].parent \in Nat /\ ms[k].parent < k
           /\ \A i \in 1..Len(ms[k].group) : ms[k].group[i] \in 1..Len(ms)
  BY DocumentOf
<1>2. \A n \in 0..Len(ms) : Within(ns, n) = Within(ms, n)
  BY <1>1, WithinKept DEF Shape
<1>3. \A n : \A g \in Within(ms, n) : g \in 1..n
  BY DEF Within
<1>4. \A i \in 1..Len(op) : op[i] \in 1..Len(ms)
  BY <1>3 DEF InOrder, Opened
<1>5. Numbered(ns)
  <2> SUFFICES ASSUME NEW n \in 1..Len(ms)
               PROVE  IF n = 1 THEN ns[n].parent = 0
                      ELSE /\ ns[n].parent \in Within(ns, n - 1)
                           /\ ns[ns[n].parent].kind = "group"
    BY DEF Numbered, Shape
  <2>1. CASE n = 1
    BY <2>1 DEF InOrder, Numbered, Shape
  <2>2. CASE n # 1
    <3>1. n - 1 \in 0..Len(ms) /\ ns[n].parent = ms[n].parent
      BY <1>1, <2>2 DEF Shape
    <3>2. ms[n].parent \in Within(ms, n - 1) /\ ms[ms[n].parent].kind = "group"
      BY <2>2 DEF InOrder, Numbered
    <3>3. ms[n].parent \in 1..Len(ms)
      BY <1>1, <1>3, <3>1, <3>2
    <3> QED
      BY <1>2, <2>2, <3>1, <3>2, <3>3 DEF Shape
  <2> QED
    BY <2>1, <2>2
<1>6. Grouped(ns)
  <2> SUFFICES ASSUME NEW g \in 1..Len(ms), NEW i \in 1..Len(ns[g].group)
               PROVE  /\ ns[ns[g].group[i]].parent = g
                      /\ \A j \in 1..i - 1 : ns[g].group[j] < ns[g].group[i]
    BY DEF Grouped, Shape
  <2>1. ns[g].group = ms[g].group
    BY DEF Shape
  <2>2. /\ ms[ms[g].group[i]].parent = g
        /\ \A j \in 1..i - 1 : ms[g].group[j] < ms[g].group[i]
    BY <2>1 DEF InOrder, Grouped
  <2>3. ms[g].group[i] \in 1..Len(ms)
    BY <1>1, <2>1
  <2>4. ns[ms[g].group[i]].parent = ms[ms[g].group[i]].parent
    BY <2>3 DEF Shape
  <2> QED
    BY <2>1, <2>2, <2>4
<1>7. Opened(ns, op)
  <2>1. Within(ns, Len(ns)) = Within(ms, Len(ms))
    BY <1>1, <1>2 DEF Shape
  <2>2. \A i \in 1..Len(op) : \A j \in 1..i - 1 : j \in 1..Len(op)
    BY LenProperties
  <2> QED
    BY <1>4, <2>1, <2>2 DEF InOrder, Opened, Shape
<1>8. Placed(ns, op)
  <2> SUFFICES ASSUME NEW n \in 1..Len(ms)
               PROVE  \/ n = 1 \/ ns[n].kind = "config"
                      \/ \E i \in 1..Len(op) : op[i] = n
                      \/ \E i \in 1..Len(ns[ns[n].parent].group) :
                           ns[ns[n].parent].group[i] = n
    BY DEF Placed, Shape
  <2>1. CASE n = 1
    BY <2>1
  <2>2. CASE n # 1
    <3>1. ms[n].parent \in 1..Len(ms)
      BY <1>1, <1>3, <2>2 DEF InOrder, Numbered
    <3>2. /\ ns[n].kind = ms[n].kind /\ ns[n].parent = ms[n].parent
          /\ ns[ms[n].parent].group = ms[ms[n].parent].group
      BY <3>1 DEF Shape
    <3>3. \/ ms[n].kind = "config" \/ \E i \in 1..Len(op) : op[i] = n
          \/ \E i \in 1..Len(ms[ms[n].parent].group) :
               ms[ms[n].parent].group[i] = n
      BY <2>2 DEF InOrder, Placed
    <3> QED
      BY <3>2, <3>3
  <2> QED
    BY <2>1, <2>2
<1> QED
  BY <1>4, <1>5, <1>6, <1>7, <1>8 DEF InOrder, Groups, Shape

\* A node is read: it is open until its group has it.
LEMMA Begins ==
  ASSUME NEW ns, Document(ns), NEW op \in Seq(Ids), NEW elem \in Applier,
         Document(Append(ns, elem)),
         InOrder(ns, op), Groups(ns, op), op = <<>> => ns = <<>>,
         elem.parent = IF op = <<>> THEN 0 ELSE Last(op),
         elem.group = <<>>, Len(ns) + 1 \in Ids
  PROVE  InOrder(Append(ns, elem), Append(op, Len(ns) + 1))
<1> DEFINE all == Append(ns, elem)
           n == Len(ns) + 1
           ops == Append(op, n)
           m == Len(op)
<1>1. /\ Len(ns) \in Nat /\ m \in Nat
      /\ \A k \in 1..Len(ns) :
           /\ ns[k].parent \in Nat /\ ns[k].parent < k
           /\ Len(ns[k].group) \in Nat
           /\ \A i \in 1..Len(ns[k].group) : ns[k].group[i] \in 1..Len(ns)
  BY DocumentOf, LenProperties
<1>2. /\ Len(all) = n /\ all[n] = elem
      /\ \A k \in 1..Len(ns) : all[k] = ns[k]
      /\ Len(ops) = m + 1 /\ ops[m + 1] = n
      /\ \A i \in 1..m : ops[i] = op[i]
  BY AppendProperties DEF Document
<1> HIDE DEF all, ops
<1>3. \A k \in 0..Len(ns) : Within(all, k) = Within(ns, k)
  BY <1>1, <1>2, WithinKept
<1>4. \A k : \A g \in Within(ns, k) : g \in 1..k
  BY DEF Within
<1>5. \A i \in 1..m : /\ op[i] \in 1..Len(ns) /\ ns[op[i]].kind = "group"
                      /\ op[i] \in Within(ns, Len(ns))
  BY <1>4 DEF InOrder, Opened, Groups
<1>6. op = <<>> \/ (m # 0 /\ elem.parent = op[m])
  BY <1>1, EmptySeq DEF Last
<1>7. op = <<>> => m = 0 /\ Len(ns) = 0 /\ elem.parent = 0
  BY <1>1, EmptySeq
<1>8. Numbered(all)
  <2> SUFFICES ASSUME NEW k \in 1..n
               PROVE  IF k = 1 THEN all[k].parent = 0
                      ELSE /\ all[k].parent \in Within(all, k - 1)
                           /\ all[all[k].parent].kind = "group"
    BY <1>2 DEF Numbered
  <2>1. CASE k # n
    <3>1. k \in 1..Len(ns) /\ k - 1 \in 0..Len(ns)
      BY <1>1, <2>1
    <3>2. CASE k = 1
      BY <1>2, <3>1, <3>2 DEF InOrder, Numbered
    <3>3. CASE k # 1
      <4>1. ns[k].parent \in Within(ns, k - 1) /\ ns[ns[k].parent].kind = "group"
        BY <3>1, <3>3 DEF InOrder, Numbered
      <4>2. ns[k].parent \in 1..Len(ns)
        BY <1>1, <1>4, <3>1, <4>1
      <4> QED
        BY <1>2, <1>3, <3>1, <3>3, <4>1, <4>2
    <3> QED
      BY <3>2, <3>3
  <2>2. CASE k = n
    <3>1. CASE op = <<>>
      BY <1>2, <1>7, <2>2, <3>1
    <3>2. CASE op # <<>>
      <4>1. /\ elem.parent \in 1..Len(ns) /\ ns[elem.parent].kind = "group"
            /\ elem.parent \in Within(ns, Len(ns))
        BY <1>1, <1>5, <1>6, <3>2
      <4> QED
        BY <1>1, <1>2, <1>3, <2>2, <4>1
    <3> QED
      BY <3>1, <3>2
  <2> QED
    BY <2>1, <2>2
<1>9. Grouped(all)
  <2> SUFFICES ASSUME NEW g \in 1..n, NEW i \in 1..Len(all[g].group)
               PROVE  /\ all[all[g].group[i]].parent = g
                      /\ \A j \in 1..i - 1 : all[g].group[j] < all[g].group[i]
    BY <1>2 DEF Grouped
  <2>1. g # n
    BY <1>2
  <2>2. g \in 1..Len(ns)
    BY <1>1, <2>1
  <2>3. all[g] = ns[g] /\ i \in 1..Len(ns[g].group)
    BY <1>2, <2>2
  <2>4. /\ ns[ns[g].group[i]].parent = g /\ ns[g].group[i] \in 1..Len(ns)
        /\ \A j \in 1..i - 1 : ns[g].group[j] < ns[g].group[i]
    BY <1>1, <2>2, <2>3 DEF InOrder, Grouped
  <2> QED
    BY <1>2, <2>3, <2>4
<1>10. Opened(all, ops)
  <2> SUFFICES ASSUME NEW i \in 1..m + 1
               PROVE  /\ ops[i] \in Within(all, n)
                      /\ all[ops[i]].parent = IF i = 1 THEN 0 ELSE ops[i - 1]
                      /\ \A j \in 1..i - 1 :
                           /\ ops[j] < ops[i]
                           /\ \A k \in 1..Len(all[ops[j]].group) :
                                all[ops[j]].group[k] < ops[i]
    BY <1>2 DEF Opened
  <2>1. CASE i = m + 1
    <3>1. n \in Within(all, n)
      BY <1>1 DEF Within
    <3>2. all[n].parent = IF i = 1 THEN 0 ELSE ops[i - 1]
      <4>1. CASE op = <<>>
        BY <1>2, <1>7, <2>1, <4>1
      <4>2. CASE op # <<>>
        BY <1>1, <1>2, <1>6, <2>1, <4>2
      <4> QED
        BY <4>1, <4>2
    <3>3. ops[i] = n
      BY <1>2, <2>1
    <3>4. ASSUME NEW j \in 1..i - 1
          PROVE  /\ ops[j] < ops[i]
                 /\ \A k \in 1..Len(all[ops[j]].group) :
                      all[ops[j]].group[k] < ops[i]
      <4>1. ops[j] \in 1..Len(ns)
        BY <1>1, <1>2, <1>5, <2>1
      <4>2. all[ops[j]] = ns[ops[j]]
        BY <1>2, <4>1
      <4>3. \A k \in 1..Len(ns[ops[j]].group) : ns[ops[j]].group[k] \in 1..Len(ns)
        BY <1>1, <4>1
      <4>4. \A k \in 1..Len(ns) : k < n
        BY <1>1
      <4> QED
        BY <3>3, <4>1, <4>2, <4>3, <4>4
    <3> QED
      BY <3>1, <3>2, <3>3, <3>4
  <2>2. CASE i # m + 1
    <3>1. i \in 1..m /\ ops[i] = op[i] /\ op[i] \in 1..Len(ns)
      BY <1>1, <1>2, <1>5, <2>2
    <3>2. \A j \in 1..i - 1 :
            j \in 1..m /\ ops[j] = op[j] /\ op[j] \in 1..Len(ns)
      BY <1>1, <1>2, <1>5, <3>1
    <3>3. /\ op[i] \in Within(ns, Len(ns))
          /\ ns[op[i]].parent = IF i = 1 THEN 0 ELSE op[i - 1]
          /\ \A j \in 1..i - 1 :
               /\ op[j] < op[i]
               /\ \A k \in 1..Len(ns[op[j]].group) : ns[op[j]].group[k] < op[i]
      BY <3>1 DEF InOrder, Opened
    <3>4. op[i] \in Within(all, n)
      <4>1. op[i] <= elem.parent
        <5>1. CASE i = m
          BY <1>1, <1>5, <1>6, <3>1, <5>1
        <5>2. CASE i # m
          <6>1. m \in 1..m /\ i \in 1..m - 1 /\ op[m] \in 1..Len(ns)
            BY <1>1, <1>5, <3>1, <5>2
          <6>2. op[i] < op[m]
            BY <6>1 DEF InOrder, Opened
          <6> QED
            BY <1>6, <3>1, <6>1, <6>2
        <5> QED
          BY <5>1, <5>2
      <4>2. ASSUME NEW k \in op[i] + 1..n PROVE all[k].parent >= op[i]
        <5>1. CASE k = n
          BY <1>2, <1>5, <1>6, <1>7, <3>1, <4>1, <5>1
        <5>2. CASE k # n
          <6>1. k \in op[i] + 1..Len(ns) /\ all[k] = ns[k]
            BY <1>1, <1>2, <3>1, <5>2
          <6> QED
            BY <3>3, <6>1 DEF Within
        <5> QED
          BY <5>1, <5>2
      <4>3. op[i] \in 1..n
        BY <1>1, <3>1
      <4> QED
        BY <4>2, <4>3 DEF Within
    <3>5. all[op[i]] = ns[op[i]] /\ (i # 1 => i - 1 \in 1..i - 1)
      BY <1>1, <1>2, <3>1
    <3>6. \A j \in 1..i - 1 : all[op[j]] = ns[op[j]]
      BY <1>2, <3>2
    <3>7. all[ops[i]].parent = IF i = 1 THEN 0 ELSE ops[i - 1]
      BY <3>1, <3>2, <3>3, <3>5
    <3>8. \A j \in 1..i - 1 :
            /\ ops[j] < ops[i]
            /\ \A k \in 1..Len(all[ops[j]].group) : all[ops[j]].group[k] < ops[i]
      BY <3>1, <3>2, <3>3, <3>6
    <3> QED
      BY <3>1, <3>4, <3>7, <3>8
  <2> QED
    BY <2>1, <2>2
<1>11. Placed(all, ops)
  <2> SUFFICES ASSUME NEW k \in 1..n, k # 1, all[k].kind # "config"
               PROVE  \/ \E i \in 1..m + 1 : ops[i] = k
                      \/ \E i \in 1..Len(all[all[k].parent].group) :
                           all[all[k].parent].group[i] = k
    BY <1>2 DEF Placed
  <2>1. CASE k = n
    BY <1>1, <1>2, <2>1
  <2>2. CASE k # n
    <3>1. k \in 1..Len(ns) /\ all[k] = ns[k] /\ k - 1 \in Nat
      BY <1>1, <1>2, <2>2
    <3>2. ns[k].parent \in 1..Len(ns) /\ all[ns[k].parent] = ns[ns[k].parent]
      BY <1>1, <1>2, <1>4, <3>1 DEF InOrder, Numbered
    <3>3. \/ \E i \in 1..m : op[i] = k
          \/ \E i \in 1..Len(ns[ns[k].parent].group) :
               ns[ns[k].parent].group[i] = k
      BY <3>1 DEF InOrder, Placed
    <3> QED
      BY <1>1, <1>2, <3>1, <3>2, <3>3
  <2> QED
    BY <2>1, <2>2
<1> QED
  BY <1>8, <1>9, <1>10, <1>11 DEF InOrder, all, ops

\* The innermost open node ends: its group, if it has one, has it as a child.
LEMMA Ends ==
  ASSUME NEW ns, Document(ns), NEW op \in Seq(Ids), op # <<>>, InOrder(ns, op),
         NEW g, g = Last(op), NEW p, p = ns[g].parent
  PROVE  InOrder(AddTo(ns, p, g), Front(op))
<1> DEFINE m == Len(op)
           ops == Front(op)
           all == AddTo(ns, p, g)
<1>1. /\ Len(ns) \in Nat /\ m \in Nat
      /\ \A k \in 1..Len(ns) :
           /\ ns[k].parent \in Nat /\ ns[k].parent < k
           /\ ns[k].group \in Seq(Ids) /\ Len(ns[k].group) \in Nat
           /\ \A i \in 1..Len(ns[k].group) : ns[k].group[i] \in 1..Len(ns)
  BY DocumentOf, LenProperties
<1>2. /\ Len(ops) = m - 1 /\ \A i \in 1..m - 1 : ops[i] = op[i]
      /\ g = op[m] /\ m \in 1..m
  BY FrontOf
<1> HIDE DEF ops
<1>3. \A k : \A h \in Within(ns, k) : h \in 1..k
  BY DEF Within
<1>4. /\ \A i \in 1..m : op[i] \in 1..Len(ns) /\ op[i] \in Within(ns, Len(ns))
      /\ \A i \in 1..m : ns[op[i]].parent = IF i = 1 THEN 0 ELSE op[i - 1]
      /\ \A i \in 1..m : \A j \in 1..i - 1 :
           /\ op[j] < op[i]
           /\ \A k \in 1..Len(ns[op[j]].group) : ns[op[j]].group[k] < op[i]
  BY <1>3 DEF InOrder, Opened
<1>5. g \in 1..Len(ns) /\ p \in Nat /\ p < g
  BY <1>1, <1>2, <1>4
<1>6. CASE p = 0
  <2>1. all = ns
    BY <1>6 DEF AddTo
  <2>2. m = 1
    BY <1>1, <1>2, <1>4, <1>6
  <2>3. g = 1
    <3>1. g # 1 => p \in Within(ns, g - 1)
      BY <1>5 DEF InOrder, Numbered
    <3> QED
      BY <1>3, <1>6, <3>1
  <2>4. Opened(ns, ops)
    BY <1>2, <2>2 DEF Opened
  <2>5. Placed(ns, ops)
    <3>1. \A i \in 1..m : op[i] = 1
      BY <1>2, <2>2, <2>3
    <3> QED
      BY <3>1 DEF InOrder, Placed
  <2> QED
    BY <2>1, <2>4, <2>5 DEF InOrder, ops
<1>7. CASE p # 0
  <2>1. m - 1 \in 1..m /\ p = op[m - 1] /\ p \in 1..Len(ns)
    BY <1>1, <1>2, <1>4, <1>5, <1>7
  <2>2. PICK more : more = Append(ns[p].group, g)
    OBVIOUS
  <2>3. /\ Len(more) = Len(ns[p].group) + 1
        /\ more[Len(ns[p].group) + 1] = g
        /\ \A i \in 1..Len(ns[p].group) : more[i] = ns[p].group[i]
    <3>1. g \in Ids
      BY <1>2, ElementOfSeq
    <3>2. PICK group \in Seq(Ids) : group = ns[p].group
      BY <1>1, <2>1
    <3>3. more = Append(group, g)
      BY <2>2, <3>2
    <3>4. /\ Len(more) = Len(group) + 1 /\ more[Len(group) + 1] = g
          /\ \A i \in 1..Len(group) : more[i] = group[i]
      BY <3>1, <3>3, AppendProperties
    <3> QED
      BY <3>2, <3>4
  <2>4. /\ Len(all) = Len(ns)
        /\ \A k \in 1..Len(ns) : /\ all[k].kind = ns[k].kind
                                 /\ all[k].parent = ns[k].parent
                                 /\ k # p => all[k].group = ns[k].group
        /\ all[p].group = more
    <3>1. ns[p] \in Applier /\ ns \in Seq(Applier)
      BY <2>1, ElementOfSeq DEF Document
    <3>2. PICK elem : elem = [ns[p] EXCEPT !.elements = @ + 1,
                                          !.group = Append(@, g)]
      OBVIOUS
    <3>3. elem.kind = ns[p].kind /\ elem.parent = ns[p].parent /\ elem.group = more
      BY <2>2, <3>1, <3>2 DEF Applier
    <3>4. all = [ns EXCEPT ![p] = elem]
      BY <1>7, <2>1, <3>1, <3>2 DEF AddTo
    <3>5. ns \in [1..Len(ns) -> Applier]
      BY <3>1, LenProperties
    <3>6. \A k \in 1..Len(ns) : all[k] = IF k = p THEN elem ELSE ns[k]
      BY <3>4, <3>5
    <3>7. Len(all) = Len(ns)
      BY <1>1, <3>4, <3>5, LenProperties
    <3> QED
      BY <2>1, <3>3, <3>6, <3>7
  <2> HIDE DEF all
  <2>5. \A k \in 0..Len(ns) : Within(all, k) = Within(ns, k)
    BY <1>1, <2>4, WithinKept
  <2>6. Numbered(all)
    <3> SUFFICES ASSUME NEW n \in 1..Len(ns)
                 PROVE  IF n = 1 THEN all[n].parent = 0
                        ELSE /\ all[n].parent \in Within(all, n - 1)
                             /\ all[all[n].parent].kind = "group"
      BY <2>4 DEF Numbered
    <3>1. CASE n = 1
      BY <2>4, <3>1 DEF InOrder, Numbered
    <3>2. CASE n # 1
      <4>1. n - 1 \in 0..Len(ns) /\ all[n].parent = ns[n].parent
        BY <1>1, <2>4, <3>2
      <4>2. ns[n].parent \in Within(ns, n - 1) /\ ns[ns[n].parent].kind = "group"
        BY <3>2 DEF InOrder, Numbered
      <4>3. ns[n].parent \in 1..Len(ns)
        BY <1>1, <1>3, <4>1, <4>2
      <4> QED
        BY <2>4, <2>5, <3>2, <4>1, <4>2, <4>3
    <3> QED
      BY <3>1, <3>2
  <2>7. \A i \in 1..Len(ns[p].group) : ns[p].group[i] < g
    BY <1>1, <1>2, <1>4, <2>1
  <2>8. Grouped(all)
    <3> SUFFICES ASSUME NEW h \in 1..Len(ns), NEW i \in 1..Len(all[h].group)
                 PROVE  /\ all[all[h].group[i]].parent = h
                        /\ \A j \in 1..i - 1 : all[h].group[j] < all[h].group[i]
      BY <2>4 DEF Grouped
    <3>1. CASE h # p
      <4>1. all[h].group = ns[h].group /\ i \in 1..Len(ns[h].group)
        BY <2>4, <3>1
      <4>2. /\ ns[ns[h].group[i]].parent = h /\ ns[h].group[i] \in 1..Len(ns)
            /\ \A j \in 1..i - 1 : ns[h].group[j] < ns[h].group[i]
        BY <1>1, <4>1 DEF InOrder, Grouped
      <4> QED
        BY <2>4, <4>1, <4>2
    <3>2. CASE h = p /\ i = Len(ns[p].group) + 1
      <4>1. \A j \in 1..i - 1 : more[j] < g
        <5>1. \A j \in 1..i - 1 : j \in 1..Len(ns[p].group)
          <6>1. Len(ns[p].group) \in Nat
            BY <1>1, <2>1
          <6> QED
            BY <3>2, <6>1
        <5> QED
          BY <2>3, <2>7, <5>1
      <4>2. all[h].group = more /\ more[i] = g
        BY <2>3, <2>4, <3>2
      <4>3. all[g].parent = h
        BY <1>5, <2>4, <3>2
      <4> QED
        BY <4>1, <4>2, <4>3
    <3>3. CASE h = p /\ i # Len(ns[p].group) + 1
      <4>0. Len(ns[p].group) \in Nat /\ i \in 1..Len(more)
        BY <1>1, <2>1, <2>4, <3>3
      <4>1. i \in 1..Len(ns[p].group) /\ Len(ns[p].group) \in Nat
        BY <2>3, <3>3, <4>0
      <4>2. /\ ns[ns[p].group[i]].parent = p
            /\ \A j \in 1..i - 1 : ns[p].group[j] < ns[p].group[i]
            /\ ns[p].group[i] \in 1..Len(ns)
        BY <1>1, <2>1, <4>1 DEF InOrder, Grouped
      <4>3. \A j \in 1..i - 1 : j \in 1..Len(ns[p].group)
        BY <4>1
      <4>4. /\ more[i] = ns[p].group[i]
            /\ \A j \in 1..i - 1 : more[j] = ns[p].group[j]
        BY <2>3, <4>1, <4>3
      <4>5. all[h].group = more /\ all[ns[p].group[i]].parent = p
        BY <2>4, <3>3, <4>2
      <4> QED
        BY <3>3, <4>2, <4>4, <4>5
    <3> QED
      BY <3>1, <3>2, <3>3
  <2>9. Opened(all, ops)
    <3> SUFFICES ASSUME NEW i \in 1..m - 1
                 PROVE  /\ ops[i] \in Within(all, Len(ns))
                        /\ all[ops[i]].parent = IF i = 1 THEN 0 ELSE ops[i - 1]
                        /\ \A j \in 1..i - 1 :
                             /\ ops[j] < ops[i]
                             /\ \A k \in 1..Len(all[ops[j]].group) :
                                  all[ops[j]].group[k] < ops[i]
      BY <1>2, <2>4 DEF Opened
    <3>1. i \in 1..m /\ ops[i] = op[i] /\ op[i] \in 1..Len(ns)
      BY <1>1, <1>2, <1>4
    <3>2. \A j \in 1..i - 1 :
            /\ j \in 1..m /\ ops[j] = op[j] /\ op[j] \in 1..Len(ns)
            /\ all[op[j]].group = ns[op[j]].group
      <4> SUFFICES ASSUME NEW j \in 1..i - 1
                   PROVE  /\ j \in 1..m /\ ops[j] = op[j] /\ op[j] \in 1..Len(ns)
                          /\ all[op[j]].group = ns[op[j]].group
        OBVIOUS
      <4>1. j \in 1..m /\ j \in 1..m - 1 /\ j \in 1..(m - 1) - 1
        BY <1>1
      <4>2. op[j] # p /\ op[j] \in 1..Len(ns)
        <5>1. i \in 1..m - 1 /\ m - 1 \in 1..m /\ j \in 1..(m - 1) - 1
          BY <2>1, <4>1
        <5>2. op[j] < op[m - 1]
          BY <1>4, <5>1
        <5> QED
          BY <1>4, <2>1, <4>1, <5>2
      <4> QED
        BY <1>2, <2>4, <4>1, <4>2
    <3>3. i # 1 => i - 1 \in 1..i - 1
      OBVIOUS
    <3>4. /\ op[i] \in Within(ns, Len(ns)) /\ all[op[i]].parent = ns[op[i]].parent
          /\ ns[op[i]].parent = IF i = 1 THEN 0 ELSE op[i - 1]
          /\ \A j \in 1..i - 1 :
               /\ op[j] < op[i]
               /\ \A k \in 1..Len(ns[op[j]].group) : ns[op[j]].group[k] < op[i]
      BY <1>4, <2>4, <3>1
    <3>5. ops[i] \in Within(all, Len(ns))
      BY <1>1, <2>5, <3>1, <3>4
    <3>6. all[ops[i]].parent = IF i = 1 THEN 0 ELSE ops[i - 1]
      BY <3>1, <3>2, <3>3, <3>4
    <3>7. ASSUME NEW j \in 1..i - 1
          PROVE  /\ ops[j] < ops[i]
                 /\ \A k \in 1..Len(all[ops[j]].group) :
                      all[ops[j]].group[k] < ops[i]
      <4>1. ops[j] = op[j] /\ all[op[j]].group = ns[op[j]].group
        BY <3>2
      <4> QED
        BY <3>1, <3>4, <4>1
    <3> QED
      BY <3>5, <3>6, <3>7
  <2>10. Placed(all, ops)
    <3> SUFFICES ASSUME NEW n \in 1..Len(ns), n # 1, ns[n].kind # "config"
                 PROVE  \/ \E i \in 1..m - 1 : ops[i] = n
                        \/ \E i \in 1..Len(all[ns[n].parent].group) :
                             all[ns[n].parent].group[i] = n
      <4>1. Len(ops) = m - 1 /\ Len(all) = Len(ns)
        BY <1>2, <2>4
      <4>2. \A n \in 1..Len(ns) :
              all[n].kind = ns[n].kind /\ all[n].parent = ns[n].parent
        BY <2>4
      <4> QED
        BY <4>1, <4>2 DEF Placed
    <3>1. n - 1 \in Nat /\ ns[n].parent \in 1..Len(ns)
      BY <1>1, <1>3 DEF InOrder, Numbered
    <3>2. CASE n = g
      <4>1. Len(ns[p].group) + 1 \in 1..Len(more)
        BY <1>1, <2>1, <2>3
      <4> QED
        BY <2>3, <2>4, <3>2, <4>1
    <3>3. CASE n # g /\ \E i \in 1..m : op[i] = n
      <4>1. PICK i \in 1..m : op[i] = n
        BY <3>3
      <4>2. i \in 1..m - 1
        BY <1>1, <1>2, <3>3, <4>1
      <4> QED
        BY <1>2, <4>1, <4>2
    <3>4. CASE \E i \in 1..Len(ns[ns[n].parent].group) :
                 ns[ns[n].parent].group[i] = n
      <4>1. CASE ns[n].parent = p
        <5>1. PICK i \in 1..Len(ns[p].group) : ns[p].group[i] = n
          BY <3>4, <4>1
        <5>2. i \in 1..Len(more) /\ more[i] = n
          <6>1. Len(ns[p].group) \in Nat
            BY <1>1, <2>1
          <6>2. Len(more) = Len(ns[p].group) + 1 /\ more[i] = ns[p].group[i]
            BY <2>3
          <6> QED
            BY <5>1, <6>1, <6>2
        <5> QED
          BY <2>4, <4>1, <5>2
      <4>2. CASE ns[n].parent # p
        BY <2>4, <3>1, <3>4, <4>2
      <4> QED
        BY <4>1, <4>2
    <3> QED
      BY <3>2, <3>3, <3>4 DEF InOrder, Placed
  <2> QED
    BY <2>6, <2>8, <2>9, <2>10 DEF InOrder, all, ops
<1> QED
  BY <1>6, <1>7

\* A config ends: it is no child.
LEMMA EndsConfig ==
  ASSUME NEW ns, NEW op \in Seq(Ids), op # <<>>, InOrder(ns, op),
         ns[Last(op)].kind = "config"
  PROVE  InOrder(ns, Front(op))
<1>1. /\ Len(op) \in Nat /\ Len(Front(op)) = Len(op) - 1
      /\ \A i \in 1..Len(op) - 1 : Front(op)[i] = op[i]
      /\ Last(op) = op[Len(op)]
  BY FrontOf, LenProperties
<1>2. \A i \in 1..Len(op) - 1 : i \in 1..Len(op)
                                /\ \A j \in 1..i - 1 : j \in 1..Len(op) - 1
  BY <1>1
<1>3. Opened(ns, Front(op))
  <2>1. \A i \in 1..Len(op) - 1 : i # 1 => i - 1 \in 1..Len(op) - 1
    BY <1>1
  <2> QED
    BY <1>1, <1>2, <2>1 DEF InOrder, Opened
<1>4. Placed(ns, Front(op))
  <2>1. \A i \in 1..Len(op) : i = Len(op) \/ i \in 1..Len(op) - 1
    BY <1>1
  <2> QED
    BY <1>1, <1>2, <2>1 DEF InOrder, Placed
<1> QED
  BY <1>3, <1>4 DEF InOrder

LEMMA FrontOfAppend ==
  ASSUME NEW S, NEW s \in Seq(S), NEW e \in S
  PROVE  /\ Append(s, e) \in Seq(S) /\ Append(s, e) # <<>>
         /\ Front(Append(s, e)) = s /\ Last(Append(s, e)) = e
<1>1. PICK all : all = Append(s, e)
  OBVIOUS
<1>2. /\ all \in Seq(S) /\ all # <<>>
      /\ Len(all) = Len(s) + 1 /\ all[Len(s) + 1] = e
      /\ \A i \in 1..Len(s) : all[i] = s[i]
      /\ Len(s) \in Nat
  BY <1>1, AppendProperties, LenProperties
<1>3. /\ Front(all) \in Seq(S) /\ Len(Front(all)) = Len(all) - 1
      /\ \A i \in 1..Len(all) - 1 : Front(all)[i] = all[i]
      /\ Last(all) = all[Len(all)]
  BY <1>2, FrontOf
<1>4. Len(all) - 1 = Len(s)
  BY <1>2
<1>5. \A i \in 1..Len(s) : Front(all)[i] = s[i]
  BY <1>2, <1>3, <1>4
<1>6. Front(all) = s
  BY <1>3, <1>4, <1>5, SeqEqual
<1> QED
  BY <1>1, <1>2, <1>3, <1>6

LEMMA ElemOf ==
  ASSUME NEW kind
  PROVE  /\ Elem(kind).kind = kind /\ Elem(kind).parent = Parent
         /\ Elem(kind).group = <<>>
  BY DEF Elem

LEMMA SameKindsTwice ==
  ASSUME NEW ms, NEW ns, NEW all, SameKinds(ms, ns), SameKinds(ns, all),
         Len(ms) \in Nat, Len(ns) \in Nat, Len(all) \in Nat
  PROVE  SameKinds(ms, all)
  BY DEF SameKinds

LEMMA GroupsStay ==
  ASSUME NEW ms, NEW ns, NEW op, SameKinds(ms, ns), Groups(ms, op),
         \A i \in 1..Len(op) : op[i] \in 1..Len(ms)
  PROVE  Groups(ns, op)
  BY DEF Groups, SameKinds

\* What is read begins in the innermost open group.
LEMMA BeginsThere ==
  ASSUME GInv, Ordered, CanRead,
         NEW kind \in {"noop", "apply", "delete", "config", "group"},
         kind = "config" => Parent # 0
  PROVE  LET ns == Append(nodes, Elem(kind))
             op == Append(open, Len(nodes) + 1) IN
         /\ Document(ns) /\ InOrder(ns, op) /\ SameKinds(nodes, ns)
         /\ op \in Seq(Ids) /\ op # <<>>
         /\ Front(op) = open /\ Last(op) = Len(nodes) + 1
         /\ Len(ns) = Len(nodes) + 1 /\ Len(nodes) + 1 \in Ids
         /\ ns[Len(nodes) + 1] = Elem(kind) /\ Groups(ns, open)
<1> DEFINE ns == Append(nodes, Elem(kind))
           op == Append(open, Len(nodes) + 1)
<1>1. /\ nodes \in Seq(Applier) /\ Tree(nodes) /\ Len(nodes) < MaxNodes
      /\ Len(nodes) \in Nat /\ MaxNodes \in Nat
      /\ open \in Seq(Ids) /\ phase = "decode"
  BY LenProperties, MaxNodesAssumption DEF GInv, TypeOK, Decoded, CanRead
<1>2. <<>> \in Seq(Ids) /\ Parent \in Ids \cup {0} /\ Parent <= Len(nodes)
  BY <1>1, ParentInTree, EmptySeq
<1>3. kind = "config" => nodes # <<>>
  BY ParentInTree
<1>4. /\ Elem(kind) \in Applier /\ Elem(kind).parent = Parent
      /\ Elem(kind).group = <<>>
      /\ Elem(kind).kind = "config" => nodes # <<>>
  BY <1>2, <1>3 DEF Elem, Applier, Policies
<1>5. /\ ns \in Seq(Applier) /\ Tree(ns) /\ Len(ns) = Len(nodes) + 1
      /\ SameKinds(nodes, ns) /\ ns[Len(nodes) + 1] = Elem(kind)
  BY <1>1, <1>2, <1>4, Appended
<1>6. Len(nodes) + 1 \in Ids
  BY <1>1 DEF Ids
<1>7. InOrder(ns, op)
  BY <1>1, <1>4, <1>5, <1>6, Begins DEF Document, Ordered, Parent
<1>8. \A i \in 1..Len(open) : open[i] \in 1..Len(nodes)
  BY DEF GInv, Decoded, Child
<1>9. Groups(ns, open)
  BY <1>5, <1>8, GroupsStay DEF Ordered
<1> QED
  BY <1>1, <1>5, <1>6, <1>7, <1>9, FrontOfAppend DEF Document

LEMMA NoneOpen == GInv => (Parent = 0 <=> open = <<>>)
<1> SUFFICES ASSUME GInv PROVE Parent = 0 <=> open = <<>>
  OBVIOUS
<1>1. CASE open # <<>>
  <2>1. Last(open) \in Ids
    BY <1>1, FrontOf, ElementOfSeq DEF GInv, TypeOK
  <2> QED
    BY <1>1, <2>1, MaxNodesAssumption DEF Parent, Ids
<1> QED
  BY <1>1 DEF Parent

LEMMA OrderOfANode ==
  ASSUME GInv, Ordered, CanRead, NEW kind \in {"noop", "apply", "delete"},
         nodes' = AddTo(Append(nodes, Elem(kind)), Parent, Len(nodes) + 1),
         DecodedIn(Parent), UNCHANGED open
  PROVE  Ordered'
<1> DEFINE n == Len(nodes) + 1
           ns == Append(nodes, Elem(kind))
           op == Append(open, n)
<1>1. /\ Document(ns) /\ InOrder(ns, op) /\ SameKinds(nodes, ns)
      /\ op \in Seq(Ids) /\ op # <<>> /\ Front(op) = open /\ Last(op) = n
      /\ Len(ns) = n /\ n \in Ids /\ ns[n] = Elem(kind) /\ Groups(ns, open)
  BY BeginsThere
<1>2. ns[n].parent = Parent /\ ns[n].kind = kind
  BY <1>1, ElemOf
<1> HIDE DEF ns, op
<1>3. InOrder(nodes', open)
  BY <1>1, <1>2, Ends DEF ns
<1>4. Groups(nodes', open)
  <2>1. Child(ns, n) /\ Len(nodes) \in Nat
    <3>1. Len(nodes) \in Nat
      BY LenProperties DEF GInv, TypeOK
    <3>2. n \in 1..n
      BY <3>1
    <3> QED
      BY <1>1, <1>2, <3>1, <3>2 DEF Child
  <2>2. Parent \in 0..Len(ns)
    BY <1>1, <2>1, ParentInTree
  <2>3. SameKinds(ns, nodes')
    BY <1>1, <2>1, <2>2, Added DEF Document, ns
  <2>4. \A i \in 1..Len(open) : open[i] \in 1..Len(ns)
    BY <1>1, <2>1 DEF GInv, Decoded, Child
  <2> QED
    BY <1>1, <2>3, <2>4, GroupsStay
<1> QED
  BY <1>3, <1>4, NoneOpen DEF Ordered, DecodedIn

LEMMA OrderOfAConfig ==
  ASSUME GInv, Ordered, CanRead, Parent # 0, NEW policy \in Policies,
         nodes' = [Append(nodes, Elem("config")) EXCEPT
                     ![Parent].errorPolicy = policy,
                     ![Parent].stated = policy,
                     ![Parent].elements = 1],
         UNCHANGED <<phase, open>>
  PROVE  Ordered'
<1> DEFINE n == Len(nodes) + 1
           ns == Append(nodes, Elem("config"))
           op == Append(open, n)
<1>1. /\ Document(ns) /\ InOrder(ns, op) /\ SameKinds(nodes, ns)
      /\ op \in Seq(Ids) /\ op # <<>> /\ Front(op) = open /\ Last(op) = n
      /\ Len(ns) = n /\ n \in Ids /\ ns[n] = Elem("config") /\ Groups(ns, open)
  BY BeginsThere
<1>2. ns[n].kind = "config"
  BY <1>1, ElemOf
<1> HIDE DEF ns, op
<1>3. InOrder(ns, open)
  BY <1>1, <1>2, EndsConfig
<1>4. Shape(ns, nodes')
  <2>1. Len(nodes) \in Nat
    BY LenProperties DEF GInv, TypeOK
  <2>2. Parent \in 1..Len(ns)
    BY <1>1, <2>1, ParentInTree
  <2> QED
    BY <1>1, <2>2, Configured DEF Document, ns
<1>5. InOrder(nodes', open) /\ Groups(nodes', open)
  BY <1>1, <1>3, <1>4, SameShape DEF GInv, TypeOK
<1> QED
  BY <1>5, NoneOpen DEF Ordered, CanRead

LEMMA OrderOfAGroup ==
  ASSUME GInv, Ordered, OpenGroup
  PROVE  Ordered'
<1> DEFINE n == Len(nodes) + 1
           ns == Append(nodes, Elem("group"))
           op == Append(open, n)
<1>1. /\ CanRead /\ nodes' = ns /\ open' = op /\ UNCHANGED phase
  BY DEF OpenGroup
<1>2. /\ InOrder(ns, op) /\ ns[n].kind = "group" /\ Groups(ns, open)
      /\ op # <<>>
  <2>1. /\ InOrder(ns, op) /\ ns[n] = Elem("group") /\ Groups(ns, open)
        /\ op # <<>>
    BY <1>1, BeginsThere
  <2> QED
    BY <2>1, ElemOf
<1>3. open \in Seq(Ids) /\ Len(open) \in Nat
  BY LenProperties DEF GInv, TypeOK
<1> HIDE DEF ns
<1>4. Groups(ns, op)
  <2>1. /\ Len(op) = Len(open) + 1 /\ op[Len(open) + 1] = n
        /\ \A i \in 1..Len(open) : op[i] = open[i]
    <3>1. n \in Ids
      BY <1>1, BeginsThere
    <3> QED
      BY <1>3, <3>1, AppendProperties
  <2>2. \A i \in 1..Len(op) : i = Len(open) + 1 \/ i \in 1..Len(open)
    BY <1>3, <2>1
  <2> QED
    BY <1>2, <2>1, <2>2 DEF Groups
<1> QED
  BY <1>1, <1>2, <1>4 DEF Ordered, CanRead

LEMMA OrderOfAnEnd ==
  ASSUME GInv, Ordered, CloseGroup
  PROVE  Ordered'
<1> DEFINE g == Last(open)
           p == nodes[g].parent
           decoded == IF nodes[g].errorPolicy = "" /\ p # 0
                      THEN [nodes EXCEPT ![g].errorPolicy = nodes[p].errorPolicy]
                      ELSE nodes
           m == Len(open)
<1>1. /\ phase = "decode" /\ open # <<>>
      /\ nodes' = AddTo(decoded, p, g) /\ open' = Front(open)
      /\ DecodedIn(p)
  BY DEF CloseGroup
<1> HIDE DEF g, p, decoded
<1>2. /\ Document(nodes) /\ Len(nodes) \in Nat /\ open \in Seq(Ids)
      /\ InOrder(nodes, open) /\ Groups(nodes, open)
  BY LenProperties DEF GInv, TypeOK, Decoded, Ordered, Document
<1>3. /\ open' \in Seq(Ids) /\ Len(open') = m - 1 /\ m \in Nat
      /\ \A i \in 1..m - 1 : open'[i] = open[i]
      /\ g = open[m] /\ m \in 1..m
  BY <1>1, <1>2, FrontOf, LenProperties DEF g
<1> HIDE DEF m
<1>4. g \in 1..Len(nodes) /\ Child(nodes, g) /\ g \in Ids
  BY <1>2, <1>3, ElementOfSeq DEF GInv, Decoded, Child, m
<1>5. p \in 0..Len(nodes)
  BY <1>2, <1>4, DocumentOf DEF p
<1>6. Document(decoded) /\ Shape(nodes, decoded) /\ SameKinds(nodes, decoded)
  <2>1. CASE decoded = nodes
    BY <1>2, <2>1 DEF Shape, SameKinds
  <2>2. CASE decoded # nodes
    <3>0. /\ p # 0
          /\ decoded = [nodes EXCEPT ![g].errorPolicy = nodes[p].errorPolicy]
      BY <2>2 DEF decoded
    <3>1. p \in 1..Len(nodes)
      BY <1>2, <1>5, <3>0
    <3> QED
      BY <1>2, <1>4, <3>0, <3>1, Inherited DEF Document
  <2> QED
    BY <2>1, <2>2
<1>7. InOrder(decoded, open) /\ Groups(decoded, open)
  BY <1>2, <1>6, SameShape
<1>8. decoded[g].parent = p
  BY <1>4, <1>6 DEF Shape, p
<1>9. InOrder(nodes', open')
  BY <1>1, <1>2, <1>6, <1>7, <1>8, Ends DEF g
<1>10. Groups(nodes', open')
  <2>1. Len(decoded) = Len(nodes)
    BY <1>6 DEF Shape
  <2>2. Child(decoded, g)
    BY <1>2, <1>4, <1>6, <2>1, ChildrenStay
  <2>3. SameKinds(decoded, nodes')
    BY <1>1, <1>4, <1>5, <1>6, <2>1, <2>2, Added DEF Document
  <2>4. Groups(decoded, open')
    BY <1>3, <1>7 DEF Groups, m
  <2>5. \A i \in 1..Len(open') : open'[i] \in 1..Len(decoded)
    BY <1>3, <2>1 DEF GInv, Decoded, Child, m
  <2> QED
    BY <2>3, <2>4, <2>5, GroupsStay
<1>11. open' = <<>> <=> p = 0
  <2>1. open' = <<>> <=> m = 1
    BY <1>3, EmptySeq
  <2>2. p = IF m = 1 THEN 0 ELSE open[m - 1]
    BY <1>2, <1>3 DEF InOrder, Opened, p, m
  <2>3. m # 1 => open[m - 1] \in 1..Len(nodes)
    <3>1. m # 1 => m - 1 \in 1..m
      BY <1>3
    <3> QED
      BY <3>1 DEF GInv, Decoded, Child, m
  <2> QED
    BY <1>2, <2>1, <2>2, <2>3
<1> QED
  BY <1>1, <1>9, <1>10, <1>11 DEF Ordered, DecodedIn

LEMMA OrderInvariance == Spec => []Ordered
<1>1. Init => Ordered
  <2> SUFFICES ASSUME Init PROVE Ordered
    OBVIOUS
  <2>1. Len(nodes) = 0 /\ Len(open) = 0
    BY EmptySeq DEF Init
  <2> QED
    BY <2>1 DEF Init, Ordered, InOrder, Groups, Numbered, Grouped, Opened,
                Placed
<1>2. GInv /\ Ordered /\ [Next]_vars => Ordered'
  <2> SUFFICES ASSUME GInv, Ordered, [Next]_vars PROVE Ordered'
    OBVIOUS
  <2>1. ASSUME UNCHANGED <<nodes, open>>,
               phase' = phase \/ phase' = "refused"
                 \/ (phase' \in {"walk", "apply", "applied"}
                       /\ phase \in {"walk", "apply", "applied"})
        PROVE  Ordered'
    BY <2>1 DEF Ordered
  <2>2. CASE ReadNull
    BY <2>2, OrderOfANode DEF ReadNull
  <2>3. CASE ReadObject
    BY <2>1, <2>3, OrderOfANode DEF ReadObject, Refuse, ResourceKinds
  <2>4. CASE ReadConfig
    BY <2>1, <2>4, OrderOfAConfig DEF ReadConfig, Refuse
  <2>5. CASE OpenGroup
    BY <2>5, OrderOfAGroup
  <2>6. CASE CloseGroup
    BY <2>6, OrderOfAnEnd
  <2>7. CASE DefaultNamespaces
    BY <2>1, <2>7 DEF DefaultNamespaces
  <2>8. ASSUME NEW fs, NEW errors, ReturnTo(fs, errors), phase = "apply",
               UNCHANGED <<nodes, open>>
        PROVE  Ordered'
    BY <2>1, <2>8 DEF ReturnTo
  <2>9. CASE ApplyNothing
    BY <2>8, <2>9 DEF ApplyNothing, HasNext
  <2>10. CASE ApplyObject
    BY <2>8, <2>10 DEF ApplyObject, HasNext
  <2>11. CASE EnterGroup
    BY <2>1, <2>11 DEF EnterGroup, decoding
  <2>12. CASE LeaveGroup
    BY <2>8, <2>12 DEF LeaveGroup
  <2>13. CASE UNCHANGED vars
    BY <2>1, <2>13 DEF vars
  <2> QED
    BY <2>2, <2>3, <2>4, <2>5, <2>6, <2>7, <2>9, <2>10, <2>11, <2>12, <2>13
       DEF Next
<1> QED
  BY <1>1, <1>2, Invariance, PTL DEF Spec

------------------------------------------------------------------------------
(* A complete document: the groups around a node *)

Complete ==
  Document(nodes) /\ Numbered(nodes) /\ Grouped(nodes) /\ Placed(nodes, <<>>)

LEMMA CompleteOf ==
  ASSUME Complete
  PROVE  /\ nodes \in Seq(Applier) /\ Len(nodes) \in Nat
         /\ DOMAIN nodes = 1..Len(nodes)
         /\ \A n \in 1..Len(nodes) :
              /\ nodes[n].parent \in Nat /\ nodes[n].parent < n
              /\ nodes[n].parent = 0 <=> n = 1
              /\ n # 1 => /\ nodes[n].parent \in 1..n - 1
                          /\ nodes[n].parent \in Within(nodes, n - 1)
                          /\ nodes[nodes[n].parent].kind = "group"
         /\ \A g \in 1..Len(nodes) :
              /\ Len(nodes[g].group) \in Nat
              /\ \A i \in 1..Len(nodes[g].group) :
                   /\ nodes[g].group[i] \in 1..Len(nodes)
                   /\ nodes[nodes[g].group[i]].parent = g
                   /\ \A j \in 1..i - 1 : nodes[g].group[j] < nodes[g].group[i]
<1>1. /\ nodes \in Seq(Applier) /\ Len(nodes) \in Nat
      /\ \A n \in 1..Len(nodes) :
           /\ nodes[n].parent \in Nat /\ nodes[n].parent < n
           /\ Len(nodes[n].group) \in Nat
           /\ \A i \in 1..Len(nodes[n].group) :
                nodes[n].group[i] \in 1..Len(nodes)
  BY DocumentOf DEF Complete, Document
<1>2. DOMAIN nodes = 1..Len(nodes)
  BY <1>1, LenProperties
<1>3. ASSUME NEW n \in 1..Len(nodes)
      PROVE  /\ nodes[n].parent = 0 <=> n = 1
             /\ n # 1 => /\ nodes[n].parent \in 1..n - 1
                         /\ nodes[n].parent \in Within(nodes, n - 1)
                         /\ nodes[nodes[n].parent].kind = "group"
  <2>1. CASE n = 1
    BY <2>1 DEF Complete, Numbered
  <2>2. CASE n # 1
    <3>1. /\ nodes[n].parent \in Within(nodes, n - 1)
          /\ nodes[nodes[n].parent].kind = "group"
      BY <2>2 DEF Complete, Numbered
    <3>2. nodes[n].parent \in 1..n - 1
      BY <3>1 DEF Within
    <3> QED
      BY <2>2, <3>1, <3>2
  <2> QED
    BY <2>1, <2>2
<1>4. ASSUME NEW g \in 1..Len(nodes), NEW i \in 1..Len(nodes[g].group)
      PROVE  /\ nodes[nodes[g].group[i]].parent = g
             /\ \A j \in 1..i - 1 : nodes[g].group[j] < nodes[g].group[i]
  BY <1>1 DEF Complete, Grouped
<1> QED
  BY <1>1, <1>2, <1>3, <1>4

\* What is in a set of numbers has a least element, and a greatest one when it
\* has a bound.
LEMMA Least ==
  ASSUME NEW T \in SUBSET Nat, T # {}
  PROVE  \E x \in T : \A y \in T : x <= y
<1>1. PICK R : R = OpToRel(<, Nat)
  OBVIOUS
<1>2. R = {ss \in Nat \X Nat : ss[1] < ss[2]}
  BY <1>1, Zenon DEF OpToRel
<1>3. IsWellFoundedOn(R, Nat)
  BY <1>1, NatLessThanWellFounded, Zenon
<1>4. PICK x \in T : \A y \in T : ~(<<y, x>> \in R)
  <2>1. T \subseteq Nat
    OBVIOUS
  <2> QED
    BY <1>3, <2>1, WFMin
<1>5. \A y \in T : y \in Nat /\ x \in Nat /\ ~(y < x)
  BY <1>2, <1>4
<1> QED
  BY <1>4, <1>5

LEMMA Greatest ==
  ASSUME NEW n \in Nat, NEW T \in SUBSET (0..n), T # {}
  PROVE  \E x \in T : \A y \in T : y <= x
<1>1. \A y \in T : y \in Nat /\ y <= n
  <2>1. \A y \in T : y \in 0..n
    OBVIOUS
  <2> QED
    BY <2>1
<1>2. PICK R : R = {n - x : x \in T}
  OBVIOUS
<1>3. R \in SUBSET Nat /\ R # {}
  <2>1. \A r \in R : r \in Nat
    BY <1>1, <1>2
  <2> QED
    BY <1>2, <2>1
<1>4. PICK r \in R : \A s \in R : r <= s
  BY <1>3, Least
<1>5. PICK x \in T : r = n - x
  BY <1>2, <1>4
<1>6. \A y \in T : n - x <= n - y
  BY <1>2, <1>4, <1>5
<1> QED
  BY <1>1, <1>5, <1>6

LEMMA ParentAround ==
  ASSUME Complete, NEW n \in 1..Len(nodes), n # 1
  PROVE  nodes[n].parent \in Within(nodes, n)
<1>1. /\ nodes[n].parent \in 1..n - 1
      /\ nodes[n].parent \in Within(nodes, n - 1)
  BY CompleteOf
<1> QED
  BY <1>1 DEF Within

\* The groups around a node are its parent and the groups around that.
LEMMA WithinOf ==
  ASSUME Complete, NEW n \in 1..Len(nodes)
  PROVE  Within(nodes, n) =
           {n} \cup IF nodes[n].parent = 0 THEN {}
                    ELSE Within(nodes, nodes[n].parent)
<1>1. n \in Within(nodes, n)
  BY DEF Within
<1>2. /\ \A k \in 1..n : nodes[k].parent \in Nat
      /\ nodes[n].parent = 0 <=> n = 1
      /\ n # 1 => nodes[n].parent \in 1..n - 1
  BY CompleteOf
<1>3. CASE n = 1
  BY <1>1, <1>2, <1>3 DEF Within
<1>4. CASE n # 1
  <2> DEFINE p == nodes[n].parent
  <2>1. p \in 1..n - 1 /\ p # 0 /\ p \in Within(nodes, n)
    BY <1>2, <1>4, ParentAround
  <2>2. \A g \in Within(nodes, p) : g \in Within(nodes, n)
    BY <2>1, Nests DEF Complete
  <2>3. ASSUME NEW g \in Within(nodes, n), g # n
        PROVE  g \in Within(nodes, p)
    <3>1. g \in 1..n - 1 /\ \A k \in g + 1..n : nodes[k].parent >= g
      BY <2>3 DEF Within
    <3>2. n \in g + 1..n
      BY <3>1
    <3>3. p >= g
      BY <3>1, <3>2
    <3> HIDE DEF p
    <3>4. \A k \in g + 1..p : k \in g + 1..n
      BY <2>1
    <3>5. g \in 1..p
      BY <2>1, <3>1, <3>3
    <3> QED
      BY <3>1, <3>4, <3>5 DEF Within
  <2> QED
    BY <1>1, <2>1, <2>2, <2>3
<1> QED
  BY <1>3, <1>4

\* So Path, which follows the parents, is those groups: it is the function its
\* equation asks for, and no node is the first where the two differ.
LEMMA PathOf ==
  ASSUME Complete, NEW n \in 1..Len(nodes)
  PROVE  Path[n] = Within(nodes, n)
<1> DEFINE Up(path, m) == {m} \cup IF nodes[m].parent = 0 THEN {}
                                   ELSE path[nodes[m].parent]
           IsPath(path) == path = [m \in DOMAIN nodes |-> Up(path, m)]
<1>1. DOMAIN nodes = 1..Len(nodes) /\ Len(nodes) \in Nat
  BY CompleteOf
<1>2. \A m \in 1..Len(nodes) :
        nodes[m].parent = 0 \/ (nodes[m].parent \in 1..Len(nodes)
                                /\ nodes[m].parent < m)
  BY CompleteOf
<1>3. PICK within : within = [m \in DOMAIN nodes |-> Within(nodes, m)]
  OBVIOUS
<1>4. IsPath(within)
  BY <1>1, <1>2, <1>3, WithinOf
<1>5. Path = CHOOSE path : IsPath(path)
  BY DEF Path
<1>6. IsPath(Path)
  <2>1. \E path : IsPath(path)
    BY <1>4
  <2> HIDE DEF IsPath
  <2> QED
    BY <1>5, <2>1
<1>7. \A m \in 1..Len(nodes) : Path[m] = Up(Path, m)
  BY <1>1, <1>6
<1> HIDE DEF IsPath
<1> DEFINE Differ == {m \in 1..Len(nodes) : Path[m] # Within(nodes, m)}
<1>8. Differ = {}
  <2>1. SUFFICES ASSUME Differ # {} PROVE FALSE
    OBVIOUS
  <2>2. Differ \in SUBSET Nat
    BY <1>1
  <2>3. PICK m \in Differ : \A k \in Differ : m <= k
    BY <2>1, <2>2, Least
  <2>4. m \in 1..Len(nodes) /\ Path[m] # Within(nodes, m)
    BY <2>3
  <2>5. CASE nodes[m].parent = 0
    BY <1>7, <2>4, <2>5, WithinOf
  <2>6. CASE nodes[m].parent # 0
    <3>1. nodes[m].parent \in 1..Len(nodes) /\ nodes[m].parent < m
      BY <1>2, <2>4, <2>6
    <3>2. nodes[m].parent \notin Differ
      BY <2>2, <2>3, <3>1
    <3>3. Path[nodes[m].parent] = Within(nodes, nodes[m].parent)
      BY <3>1, <3>2
    <3> QED
      BY <1>7, <2>4, <2>6, <3>3, WithinOf
  <2> QED
    BY <2>5, <2>6
<1> QED
  BY <1>8

\* The whole document is in the root.
LEMMA RootAround ==
  ASSUME Complete, NEW n \in 1..Len(nodes)
  PROVE  1 \in Within(nodes, n)
<1>1. \A k \in 2..n : nodes[k].parent >= 1
  BY CompleteOf
<1> QED
  BY <1>1 DEF Within

\* All of a child comes before the next children of its group.
LEMMA Siblings ==
  ASSUME Complete, NEW g \in 1..Len(nodes),
         NEW j \in 1..Len(nodes[g].group), NEW i \in 1..j - 1,
         NEW m \in 1..Len(nodes), nodes[g].group[i] \in Within(nodes, m)
  PROVE  m < nodes[g].group[j]
<1> DEFINE c == nodes[g].group[i]
           d == nodes[g].group[j]
<1>1. i \in 1..Len(nodes[g].group)
  BY CompleteOf
<1>2. c \in 1..Len(nodes) /\ d \in 1..Len(nodes) /\ c < d
  BY <1>1, CompleteOf
<1>3. nodes[c].parent = g /\ nodes[d].parent = g /\ g < c
  BY <1>1, <1>2, CompleteOf
<1>4. \A k \in c + 1..m : nodes[k].parent >= c
  BY DEF Within
<1> HIDE DEF c, d
<1>5. ~(d \in c + 1..m)
  BY <1>2, <1>3, <1>4
<1> QED
  BY <1>2, <1>5 DEF d

\* The innermost group of what is in two of its children.
LEMMA Meeting ==
  ASSUME Complete, NEW g \in 1..Len(nodes),
         NEW j \in 1..Len(nodes[g].group), NEW i \in 1..j - 1,
         NEW m \in 1..Len(nodes), nodes[g].group[i] \in Within(nodes, m),
         NEW n \in 1..Len(nodes), nodes[g].group[j] \in Within(nodes, n)
  PROVE  m < n /\ Meet(m, n) = g
<1> DEFINE c == nodes[g].group[i]
           d == nodes[g].group[j]
<1>1. i \in 1..Len(nodes[g].group)
  BY CompleteOf
<1>2. /\ c \in 1..Len(nodes) /\ nodes[c].parent = g
      /\ d \in 1..Len(nodes) /\ nodes[d].parent = g
  BY <1>1, CompleteOf
<1>3. m < d
  BY Siblings
<1>4. d \in 1..n /\ \A k \in d + 1..n : nodes[k].parent >= d
  BY DEF Within
<1>5. c # 1 /\ d # 1
  <2>1. \A k \in 1..Len(nodes) : nodes[k].parent = 0 <=> k = 1
    BY CompleteOf
  <2>2. g # 0
    OBVIOUS
  <2> QED
    BY <1>2, <2>1, <2>2
<1>6. g \in Within(nodes, m) /\ g \in Within(nodes, n)
  <2>1. g \in Within(nodes, c) /\ g \in Within(nodes, d)
    BY <1>2, <1>5, ParentAround
  <2> QED
    BY <2>1, Nests DEF Complete
<1> HIDE DEF c, d
<1>7. ASSUME NEW h \in Within(nodes, m) \cap Within(nodes, n)
      PROVE  g >= h
  <2>1. /\ h \in 1..m /\ h \in 1..n
        /\ \A k \in h + 1..n : nodes[k].parent >= h
    BY DEF Within
  <2>2. d \in h + 1..n
    BY <1>2, <1>3, <1>4, <2>1
  <2> QED
    BY <1>2, <2>1, <2>2
<1>8. Path[m] \cap Path[n] = Within(nodes, m) \cap Within(nodes, n)
  BY PathOf
<1>9. PICK both : both = Within(nodes, m) \cap Within(nodes, n)
  OBVIOUS
<1>10. Meet(m, n) = CHOOSE x \in both : \A y \in both : x >= y
  BY <1>8, <1>9 DEF Meet, Max
<1>11. g \in both /\ \A y \in both : y \in Nat /\ g >= y
  <2>1. g \in both /\ \A y \in both : g >= y
    BY <1>6, <1>7, <1>9
  <2>2. \A y \in both : y \in 1..m
    BY <1>9 DEF Within
  <2> QED
    BY <2>1, <2>2
<1>12. \A x \in both : (\A y \in both : x >= y) => x = g
  BY <1>11
<1>13. Meet(m, n) = g
  BY <1>10, <1>11, <1>12
<1> QED
  BY <1>2, <1>3, <1>4, <1>13

\* Nothing but a group has anything in it.
LEMMA OnlyGroups ==
  ASSUME Complete, NEW n \in 1..Len(nodes), NEW c \in Within(nodes, n), c # n
  PROVE  nodes[c].kind = "group"
<1>1. c \in 1..n - 1 /\ \A k \in c + 1..n : nodes[k].parent >= c
  BY DEF Within
<1>2. c + 1 \in c + 1..n /\ c + 1 \in 1..Len(nodes) /\ c + 1 # 1
  BY <1>1
<1>3. /\ nodes[c + 1].parent \in 1..(c + 1) - 1
      /\ nodes[nodes[c + 1].parent].kind = "group"
  BY <1>2, CompleteOf
<1>4. nodes[c + 1].parent = c
  BY <1>1, <1>2, <1>3
<1> QED
  BY <1>3, <1>4

\* What is in a group, and is no config, is in a child of the group.
LEMMA ChildAround ==
  ASSUME Complete, NEW n \in 1..Len(nodes), nodes[n].kind # "config",
         NEW g \in Within(nodes, n), g # n
  PROVE  \E i \in 1..Len(nodes[g].group) : nodes[g].group[i] \in Within(nodes, n)
<1> DEFINE Kids == {k \in g + 1..n : nodes[k].parent = g}
<1>1. g \in 1..n - 1 /\ \A k \in g + 1..n : nodes[k].parent >= g
  BY DEF Within
<1>2. \A k \in g + 1..n : /\ k \in 1..Len(nodes) /\ k # 1
                          /\ nodes[k].parent \in 1..k - 1
                          /\ nodes[k].parent \in Within(nodes, k - 1)
  BY <1>1, CompleteOf
<1>3. g + 1 \in Kids
  BY <1>1, <1>2
<1>4. Kids \in SUBSET (0..n) /\ n \in Nat
  BY <1>1
<1>5. PICK c \in Kids : \A k \in Kids : k <= c
  BY <1>3, <1>4, Greatest
<1>6. c \in g + 1..n /\ nodes[c].parent = g
  BY <1>5
<1>7. ASSUME NEW k \in c + 1..n PROVE nodes[k].parent # g
  <2>1. k \in g + 1..n /\ ~(k <= c)
    BY <1>1, <1>6
  <2> QED
    BY <1>5, <2>1
<1> HIDE DEF Kids
<1>8. ASSUME NEW k \in c + 1..n, nodes[k].parent < c PROVE FALSE
  <2>1. k \in g + 1..n /\ nodes[k].parent > g
    BY <1>1, <1>2, <1>6, <1>7
  <2>2. \A h \in nodes[k].parent + 1..k - 1 : nodes[h].parent >= nodes[k].parent
    BY <1>2, <2>1 DEF Within
  <2>3. c \in nodes[k].parent + 1..k - 1
    BY <1>2, <1>6, <1>8, <2>1
  <2>4. g >= nodes[k].parent
    BY <1>6, <2>2, <2>3
  <2> QED
    BY <1>1, <1>2, <2>1, <2>4
<1>9. c \in Within(nodes, n)
  <2>1. \A k \in c + 1..n : nodes[k].parent \in Nat /\ ~(nodes[k].parent < c)
    BY <1>1, <1>2, <1>6, <1>8
  <2> QED
    BY <1>1, <1>6, <2>1 DEF Within
<1>10. nodes[c].kind # "config"
  <2>1. c # n => nodes[c].kind = "group"
    BY <1>9, OnlyGroups
  <2> QED
    BY <2>1
<1>11. c \in 1..Len(nodes) /\ c # 1
  BY <1>2, <1>6
<1>12. \E i \in 1..Len(nodes[g].group) : nodes[g].group[i] = c
  <2>1. ~ \E i \in 1..Len(<<>>) : <<>>[i] = c
    OBVIOUS
  <2> QED
    BY <1>6, <1>10, <1>11, <2>1 DEF Complete, Placed
<1> QED
  BY <1>9, <1>12

------------------------------------------------------------------------------
(* How far Apply has got *)

Group(f) == nodes[f.node].group

\* The first child that the i-th of the activations fs has not begun, when the
\* first w of them wait for a child.
Later(fs, i, w) == IF i <= w THEN fs[i].next + 1 ELSE fs[i].next

\* Each activation is for the child its caller is at, its errors come from the
\* children before that, and what is yet to come is later in the document than
\* all that was sent.
Called(fs, sent, w) ==
  \A i \in 1..Len(fs) :
    /\ nodes[fs[i].node].kind = "group"
    /\ fs[i].node = IF i = 1 THEN 1 ELSE Group(fs[i - 1])[fs[i - 1].next]
    /\ \A m \in fs[i].errors : \E j \in 1..Len(Group(fs[i])) :
         j < fs[i].next /\ Group(fs[i])[j] \in Within(nodes, m)
    /\ \A a \in sent : \A j \in Later(fs, i, w)..Len(Group(fs[i])) :
         a < Group(fs[i])[j]

\* Node n is in a child that some activation has not begun.
ToDo(fs, n, w) ==
  \E i \in 1..Len(fs) : \E j \in Later(fs, i, w)..Len(Group(fs[i])) :
    Group(fs[i])[j] \in Within(nodes, n)

Objects == {n \in 1..Len(nodes) : nodes[n].kind \in ResourceKinds}

\* What was sent, in this order, was not to be left out.
Sent ==
  /\ InDocumentOrder
  /\ \A a \in Range(attempted) : a \in Objects /\ ~LeftOut(a)

\* Beyond that, what was not sent is left out or yet to come.
Decided ==
  /\ Sent
  /\ phase = "apply" =>
       /\ Called(frames, Range(attempted), Len(frames) - 1)
       /\ frames = <<>> => attempted = <<>>
       /\ frames # <<>> => \A n \in Objects :
            n \in Range(attempted) \/ LeftOut(n) \/ ToDo(frames, n, Len(frames) - 1)
  /\ phase = "applied" =>
       \A n \in Objects : n \in Range(attempted) \/ LeftOut(n)

SInv == GInv /\ Ordered /\ Decided

LEMMA DocumentComplete ==
  ASSUME GInv, Ordered, phase \in {"walk", "apply", "applied"}
  PROVE  Complete
  BY DEF GInv, TypeOK, Decoded, Ordered, InOrder, Complete, Document

LEMMA ActivationsOf ==
  ASSUME SInv, phase = "apply"
  PROVE  /\ Complete /\ frames \in Seq(Frame) /\ Len(frames) \in Nat
         /\ frames # <<>> => Len(frames) \in 1..Len(frames)
         /\ \A i \in 1..Len(frames) :
              /\ frames[i].node \in 1..Len(nodes)
              /\ frames[i].next \in Nat \ {0} /\ frames[i].errors \subseteq failed
              /\ Len(Group(frames[i])) \in Nat
              /\ i < Len(frames) => frames[i].next <= Len(Group(frames[i]))
         /\ attempted \in Seq(Ids) /\ failed \subseteq Objects
<1>1. Complete
  BY DocumentComplete DEF SInv
<1>2. /\ frames \in Seq(Frame) /\ Len(frames) \in Nat /\ attempted \in Seq(Ids)
      /\ frames # <<>> => Len(frames) \in 1..Len(frames)
  BY LenProperties, EmptySeq DEF SInv, GInv, TypeOK
<1>3. Calls(frames) /\ failed = ErrorsIn(frames)
  BY DEF SInv, GInv, Reported
<1>4. ASSUME NEW i \in 1..Len(frames)
      PROVE  /\ frames[i].node \in 1..Len(nodes)
             /\ frames[i].next \in Nat \ {0} /\ frames[i].errors \subseteq failed
             /\ Len(Group(frames[i])) \in Nat
             /\ i < Len(frames) => frames[i].next <= Len(Group(frames[i]))
  <2>1. frames[i] \in Frame
    BY <1>2, ElementOfSeq
  <2>2. frames[i].node \in 1..Len(nodes)
    BY <1>3 DEF Calls
  <2>3. Len(Group(frames[i])) \in Nat
    BY <1>1, <2>2, CompleteOf DEF Group
  <2> QED
    BY <1>3, <2>1, <2>2, <2>3 DEF Calls, ErrorsIn, Frame, Group
<1>5. failed \subseteq Objects
  BY DEF SInv, GInv, TypeOK, Decided, Sent
<1> QED
  BY <1>1, <1>2, <1>4, <1>5

\* The next node is in the child each activation is at.
LEMMA NextIsWithin ==
  ASSUME SInv, HasNext
  PROVE  \A i \in 1..Len(frames) :
           /\ frames[i].next \in 1..Len(Group(frames[i]))
           /\ Group(frames[i])[frames[i].next] \in Within(nodes, NextNode)
<1> DEFINE at(i) == Group(frames[i])[frames[i].next]
           Outside == {i \in 1..Len(frames) : at(i) \notin Within(nodes, NextNode)}
<1>1. /\ Complete /\ Len(frames) \in Nat /\ phase = "apply"
      /\ frames # <<>> => Len(frames) \in 1..Len(frames)
      /\ \A i \in 1..Len(frames) :
           /\ frames[i].node \in 1..Len(nodes) /\ frames[i].next \in Nat \ {0}
           /\ Len(Group(frames[i])) \in Nat
  BY ActivationsOf DEF HasNext
<1>2. /\ Child(nodes, NextNode)
      /\ \A i \in 1..Len(frames) : frames[i].next <= Len(Group(frames[i]))
  BY NextIsAChild DEF SInv, Group
<1>3. \A i \in 1..Len(frames) :
        frames[i].next \in 1..Len(Group(frames[i]))
  BY <1>1, <1>2
<1>4. \A i \in 1..Len(frames) :
        at(i) \in 1..Len(nodes) /\ nodes[at(i)].parent = frames[i].node
  BY <1>1, <1>3, CompleteOf DEF Group
<1>5. NextNode \in 1..Len(nodes) /\ NextNode \in Within(nodes, NextNode)
  BY <1>2 DEF Child, Within
<1> HIDE DEF at
<1>6. SUFFICES ASSUME Outside # {} PROVE FALSE
  BY <1>3 DEF at
<1>7. Outside \in SUBSET (0..Len(frames))
  BY <1>1
<1>8. PICK i \in Outside : \A k \in Outside : k <= i
  BY <1>1, <1>6, <1>7, Greatest
<1>9. i \in 1..Len(frames) /\ at(i) \notin Within(nodes, NextNode)
  BY <1>8
<1>10. i # Len(frames)
  <2>1. frames # <<>>
    BY <1>9, EmptySeq
  <2>2. NextNode = at(Len(frames))
    BY <2>1 DEF NextNode, Last, Group, at
  <2> QED
    BY <1>5, <1>9, <2>2
<1>11. i + 1 \in 1..Len(frames) /\ i + 1 # 1 /\ (i + 1) - 1 = i
  BY <1>1, <1>9, <1>10
<1>12. i + 1 \notin Outside
  BY <1>8, <1>9
<1>13. at(i + 1) \in Within(nodes, NextNode)
  BY <1>11, <1>12
<1>14. frames[i + 1].node = at(i)
  BY <1>1, <1>11 DEF SInv, Decided, Called, at
<1>15. /\ at(i + 1) \in 1..Len(nodes)
       /\ nodes[at(i + 1)].parent = at(i) /\ at(i) \in 1..Len(nodes)
  BY <1>4, <1>9, <1>11, <1>14
<1>16. at(i) \in Within(nodes, at(i + 1))
  <2>1. at(i + 1) # 1
    BY <1>1, <1>15, CompleteOf
  <2> QED
    BY <1>1, <1>15, <2>1, ParentAround
<1>17. at(i) \in Within(nodes, NextNode)
  BY <1>1, <1>5, <1>13, <1>16, Nests DEF Complete
<1> QED
  BY <1>9, <1>17

\* All that was sent comes before the next node.
LEMMA NextIsLater ==
  ASSUME SInv, HasNext
  PROVE  \A a \in Range(attempted) : a < NextNode
<1>1. /\ Len(frames) \in Nat /\ phase = "apply" /\ attempted \in Seq(Ids)
      /\ frames # <<>> => Len(frames) \in 1..Len(frames)
  BY ActivationsOf DEF HasNext
<1>2. CASE frames = <<>>
  <2>1. attempted = <<>>
    BY <1>1, <1>2 DEF SInv, Decided
  <2>2. Range(attempted) = {}
    BY <2>1 DEF Range
  <2> QED
    BY <2>2
<1>3. CASE frames # <<>>
  <2> DEFINE m == Len(frames)
  <2>1. frames[m].next \in 1..Len(Group(frames[m]))
    BY <1>1, <1>3, NextIsWithin
  <2>2. NextNode = Group(frames[m])[frames[m].next]
    BY <1>3 DEF NextNode, Last, Group
  <2>3. Later(frames, m, m - 1) = frames[m].next
    BY <1>1 DEF Later
  <2> QED
    BY <1>1, <1>3, <2>1, <2>2, <2>3 DEF SInv, Decided, Called
<1> QED
  BY <1>2, <1>3

\* The next node is not to be left out: what failed, failed in an earlier child
\* of an activation, whose group goes on.
LEMMA NextIsDue ==
  ASSUME SInv, HasNext
  PROVE  ~LeftOut(NextNode)
<1>1. SUFFICES ASSUME NEW m \in failed,
                      nodes[Meet(m, NextNode)].errorPolicy = "Abort"
               PROVE  FALSE
  BY DEF LeftOut
<1>2. /\ Complete /\ phase = "apply" /\ failed \subseteq Objects
      /\ \A i \in 1..Len(frames) : frames[i].node \in 1..Len(nodes)
  BY ActivationsOf DEF HasNext
<1>3. Calls(frames) /\ failed = ErrorsIn(frames)
  BY <1>2 DEF SInv, GInv, Reported
<1>4. PICK i \in 1..Len(frames) : m \in frames[i].errors
  BY <1>3 DEF ErrorsIn
<1>5. PICK j \in 1..Len(Group(frames[i])) :
        j < frames[i].next /\ Group(frames[i])[j] \in Within(nodes, m)
  BY <1>2, <1>4 DEF SInv, Decided, Called
<1>6. /\ frames[i].next \in 1..Len(Group(frames[i]))
      /\ Group(frames[i])[frames[i].next] \in Within(nodes, NextNode)
  BY NextIsWithin
<1>7. j \in 1..frames[i].next - 1
  BY <1>5, <1>6
<1>8. NextNode \in 1..Len(nodes)
  BY NextIsAChild DEF SInv, Child
<1>9. Meet(m, NextNode) = frames[i].node
  <2>1. m \in 1..Len(nodes)
    BY <1>2 DEF Objects
  <2>2. PICK g \in 1..Len(nodes) : g = frames[i].node
    BY <1>2
  <2>3. Group(frames[i]) = nodes[g].group
    BY <2>2 DEF Group
  <2>4. PICK k \in 1..Len(nodes[g].group) : k = frames[i].next
    BY <1>6, <2>3
  <2>5. /\ j \in 1..k - 1 /\ nodes[g].group[j] \in Within(nodes, m)
        /\ nodes[g].group[k] \in Within(nodes, NextNode)
    BY <1>5, <1>6, <1>7, <2>3, <2>4
  <2>6. PICK n \in 1..Len(nodes) : n = NextNode
    BY <1>8
  <2>7. Complete /\ nodes[g].group[k] \in Within(nodes, n)
    BY <1>2, <2>5, <2>6
  <2>8. m < n /\ Meet(m, n) = g
    BY <2>1, <2>5, <2>7, Meeting
  <2> QED
    BY <2>2, <2>6, <2>8
<1>10. nodes[frames[i].node].errorPolicy # "Abort"
  <2>1. frames[i].next <= Len(nodes[frames[i].node].group)
    BY <1>6 DEF Group
  <2>2. frames[i].errors # {}
    BY <1>4
  <2> QED
    BY <1>3, <2>1, <2>2 DEF Calls
<1> QED
  BY <1>1, <1>9, <1>10

\* What is left out stays left out.
LEMMA StaysLeftOut ==
  ASSUME UNCHANGED nodes, failed \subseteq failed', NEW n, LeftOut(n)
  PROVE  LeftOut(n)'
<1>1. nodes' = nodes
  OBVIOUS
<1>2. Path' = Path
  BY <1>1 DEF Path
<1> QED
  BY <1>1, <1>2 DEF LeftOut, Meet

\* What comes after an error in a group that aborts is left out.
LEMMA LeftOutByAbort ==
  ASSUME Complete, UNCHANGED nodes, NEW g \in 1..Len(nodes),
         nodes[g].errorPolicy = "Abort",
         NEW j \in 1..Len(nodes[g].group), NEW i \in 1..j - 1,
         NEW e \in 1..Len(nodes), e \in failed',
         nodes[g].group[i] \in Within(nodes, e),
         NEW n \in 1..Len(nodes), nodes[g].group[j] \in Within(nodes, n)
  PROVE  LeftOut(n)'
<1>1. e < n /\ Meet(e, n) = g
  BY Meeting
<1>2. nodes' = nodes
  OBVIOUS
<1>3. Path' = Path
  BY <1>2 DEF Path
<1>4. Meet(e, n)' = g
  BY <1>1, <1>3 DEF Meet
<1> QED
  BY <1>1, <1>2, <1>4 DEF LeftOut

\* A call returns into the activations fs: each of them goes on, or the group
\* aborts and what it has not begun is left out.
LEMMA Resumes ==
  ASSUME SInv, phase = "apply", UNCHANGED nodes,
         NEW fs \in Seq(Frame), NEW errors \in SUBSET Ids, ReturnTo(fs, errors),
         \A i \in 1..Len(fs) : /\ fs[i].node \in 1..Len(nodes)
                               /\ fs[i].next \in 1..Len(Group(fs[i])),
         NEW c, c = IF fs = <<>> THEN 1
                    ELSE Group(fs[Len(fs)])[fs[Len(fs)].next],
         \A e \in errors : /\ e \in failed' /\ e \in 1..Len(nodes)
                           /\ c \in Within(nodes, e),
         Sent', NEW sent, sent = Range(attempted)',
         Called(fs, sent, Len(fs)),
         \A n \in Objects : n \in sent \/ LeftOut(n)' \/ ToDo(fs, n, Len(fs))
  PROVE  Decided'
<1> DEFINE m == Len(fs)
<1>1. m \in Nat /\ Complete
  BY LenProperties, ActivationsOf
<1>2. Objects' = Objects
  BY DEF Objects
<1>3. CASE fs = <<>>
  <2>1. phase' = "applied"
    BY <1>3 DEF ReturnTo
  <2>2. \A n : ~ToDo(fs, n, m)
    BY <1>3 DEF ToDo
  <2> QED
    BY <1>2, <2>1, <2>2 DEF Decided
<1>4. CASE fs # <<>>
  <2> DEFINE f == fs[m]
             g == Collect(f, errors)
             size == Len(Group(f))
  <2>1. frames' = [fs EXCEPT ![m] = g] /\ phase' = "apply"
    BY <1>4 DEF ReturnTo
  <2>2. m \in 1..m /\ m # 0
    BY <1>1, <1>4, EmptySeq
  <2>3. f \in Frame /\ f.node \in 1..Len(nodes) /\ f.next \in 1..size /\ size \in Nat
    <3>1. f \in Frame /\ f.node \in 1..Len(nodes) /\ f.next \in 1..size
      BY <2>2, ElementOfSeq
    <3> QED
      BY <1>1, <3>1, CompleteOf DEF Group
  <2>4. c = Group(f)[f.next]
    BY <1>4
  <2> DEFINE aborts == errors # {} /\ nodes[f.node].errorPolicy = "Abort"
  <2>5. /\ g \in Frame /\ g.node = f.node
        /\ aborts => g.next = size + 1 /\ g.errors = errors
        /\ ~aborts => g.next = f.next + 1 /\ g.errors = f.errors \cup errors
    <3>1. CASE aborts
      <4>1. g = [node |-> f.node, next |-> size + 1, errors |-> errors]
        BY <2>3, <3>1 DEF Collect, Frame, Group
      <4> HIDE DEF g, f, size, m
      <4> QED
        BY <2>3, <3>1, <4>1 DEF Frame
    <3>2. CASE ~aborts
      <4>1. g = [node |-> f.node, next |-> f.next + 1,
                 errors |-> f.errors \cup errors]
        BY <2>3, <3>2 DEF Collect, Frame, Step
      <4> HIDE DEF g, f, size, m
      <4> QED
        BY <2>3, <3>2, <4>1 DEF Frame
    <3> QED
      BY <3>1, <3>2
  <2> HIDE DEF g
  <2>6. /\ frames' \in Seq(Frame) /\ Len(frames') = m
        /\ \A i \in 1..m : frames'[i] = IF i = m THEN g ELSE fs[i]
    BY <2>1, <2>2, <2>5, ExceptSeq
  <2> HIDE DEF m, f, size, aborts
  <2>7. \A i \in 1..m : /\ frames'[i].node = fs[i].node
                        /\ Group(frames'[i]) = Group(fs[i])
                        /\ i # m => frames'[i] = fs[i]
    BY <2>2, <2>5, <2>6 DEF Group, f
  <2>8. frames' # <<>>
    BY <2>2, <2>6, EmptySeq
  <2>9. ASSUME NEW i \in 1..m,
               NEW j \in Later(frames', i, m - 1)..Len(Group(fs[i]))
        PROVE  j \in Later(fs, i, m)..Len(Group(fs[i])) /\ (i = m => ~aborts)
    <3>1. CASE i # m
      <4>1. i <= m - 1 /\ i <= m
        BY <1>1, <3>1
      <4> QED
        BY <2>7, <3>1, <4>1 DEF Later
    <3>2. CASE i = m
      <4>1. ~(i <= m - 1) /\ i <= m /\ frames'[i] = g
        BY <1>1, <2>2, <2>6, <3>2
      <4>2. Later(frames', i, m - 1) = g.next /\ Later(fs, i, m) = f.next + 1
        BY <3>2, <4>1 DEF Later, f
      <4>3. Len(Group(fs[i])) = size
        BY <3>2 DEF size, f
      <4> QED
        BY <2>3, <2>5, <3>2, <4>2, <4>3
    <3> QED
      BY <3>1, <3>2
  <2>10. Called(frames', sent, m - 1)
    <3> SUFFICES ASSUME NEW i \in 1..m
                 PROVE
          /\ nodes[frames'[i].node].kind = "group"
          /\ frames'[i].node =
               IF i = 1 THEN 1 ELSE Group(frames'[i - 1])[frames'[i - 1].next]
          /\ \A e \in frames'[i].errors : \E j \in 1..Len(Group(frames'[i])) :
               j < frames'[i].next /\ Group(frames'[i])[j] \in Within(nodes, e)
          /\ \A a \in sent :
               \A j \in Later(frames', i, m - 1)..Len(Group(frames'[i])) :
                 a < Group(frames'[i])[j]
      BY <2>6 DEF Called
    <3>1. /\ nodes[fs[i].node].kind = "group"
          /\ fs[i].node = IF i = 1 THEN 1 ELSE Group(fs[i - 1])[fs[i - 1].next]
          /\ \A e \in fs[i].errors : \E j \in 1..Len(Group(fs[i])) :
               j < fs[i].next /\ Group(fs[i])[j] \in Within(nodes, e)
          /\ \A a \in sent : \A j \in Later(fs, i, m)..Len(Group(fs[i])) :
               a < Group(fs[i])[j]
      BY DEF Called, m
    <3>2. i # 1 => i - 1 \in 1..m /\ i - 1 # m
      BY <1>1
    <3>3. frames'[i].node =
            IF i = 1 THEN 1 ELSE Group(frames'[i - 1])[frames'[i - 1].next]
      BY <2>7, <3>1, <3>2
    <3>4. ASSUME NEW e \in frames'[i].errors
          PROVE  \E j \in 1..Len(Group(frames'[i])) :
                   /\ j < frames'[i].next
                   /\ Group(frames'[i])[j] \in Within(nodes, e)
      <4>1. CASE i # m
        BY <2>7, <3>1, <3>4, <4>1
      <4>2. CASE i = m /\ e \in errors
        <5>1. frames'[i] = g /\ Group(frames'[i]) = Group(f)
          BY <2>2, <2>6, <2>7, <4>2 DEF f
        <5>2. f.next \in 1..Len(Group(f)) /\ f.next < g.next
          BY <2>3, <2>5 DEF size
        <5>3. Group(f)[f.next] \in Within(nodes, e)
          BY <2>4, <4>2
        <5> QED
          BY <5>1, <5>2, <5>3
      <4>3. CASE i = m /\ e \notin errors
        <5>1. frames'[i] = g /\ Group(frames'[i]) = Group(f) /\ fs[i] = f
          BY <2>2, <2>6, <2>7, <4>3 DEF f
        <5>2. e \in f.errors /\ g.next = f.next + 1
          BY <2>5, <3>4, <4>3, <5>1
        <5>3. PICK j \in 1..Len(Group(f)) :
                j < f.next /\ Group(f)[j] \in Within(nodes, e)
          BY <3>1, <5>1, <5>2
        <5>4. j < g.next
          BY <2>3, <5>2, <5>3
        <5> QED
          BY <5>1, <5>3, <5>4
      <4> QED
        BY <4>1, <4>2, <4>3
    <3>5. \A a \in sent :
            \A j \in Later(frames', i, m - 1)..Len(Group(frames'[i])) :
              a < Group(frames'[i])[j]
      BY <2>7, <2>9, <3>1
    <3> QED
      BY <2>7, <3>1, <3>3, <3>4, <3>5
  <2>11. ASSUME NEW n \in Objects
         PROVE  n \in sent \/ LeftOut(n)' \/ ToDo(frames', n, m - 1)
    <3>1. SUFFICES ASSUME ToDo(fs, n, m)
                   PROVE  LeftOut(n)' \/ ToDo(frames', n, m - 1)
      BY DEF m
    <3>2. PICK i \in 1..m : \E j \in Later(fs, i, m)..Len(Group(fs[i])) :
            Group(fs[i])[j] \in Within(nodes, n)
      BY <3>1 DEF ToDo, m
    <3>3. PICK j \in Later(fs, i, m)..Len(Group(fs[i])) :
            Group(fs[i])[j] \in Within(nodes, n)
      BY <3>2
    <3>4. CASE i # m
      <4>1. i <= m - 1 /\ i <= m
        BY <1>1, <3>4
      <4>2. Later(frames', i, m - 1) = Later(fs, i, m)
        BY <2>7, <3>4, <4>1 DEF Later
      <4> QED
        BY <2>6, <2>7, <3>3, <4>2 DEF ToDo
    <3>5. CASE i = m
      <4>1. /\ ~(i <= m - 1) /\ i <= m /\ frames'[i] = g /\ fs[i] = f
            /\ Group(frames'[i]) = Group(f)
        BY <1>1, <2>2, <2>6, <2>7, <3>5 DEF f
      <4>2. Later(frames', i, m - 1) = g.next /\ Later(fs, i, m) = f.next + 1
        BY <4>1 DEF Later
      <4>3. CASE ~aborts
        BY <2>5, <2>6, <3>3, <4>1, <4>2, <4>3 DEF ToDo
      <4>4. CASE aborts
        <5>1. PICK e : e \in errors
          BY <4>4 DEF aborts
        <5>2. /\ e \in failed' /\ e \in 1..Len(nodes)
              /\ Group(f)[f.next] \in Within(nodes, e)
          BY <2>4, <5>1
        <5>3. j \in 1..Len(Group(f)) /\ f.next \in 1..j - 1
          BY <2>3, <3>3, <4>1, <4>2 DEF size
        <5>4. n \in 1..Len(nodes) /\ Group(f)[j] \in Within(nodes, n)
          BY <3>3, <4>1 DEF Objects
        <5>5. nodes[f.node].errorPolicy = "Abort"
          BY <4>4 DEF aborts
        <5> QED
          BY <1>1, <2>3, <5>2, <5>3, <5>4, <5>5, LeftOutByAbort DEF Group
      <4> QED
        BY <4>3, <4>4
    <3> QED
      BY <3>4, <3>5
  <2>12. Called(frames, Range(attempted), Len(frames) - 1)'
    <3> SUFFICES ASSUME NEW i \in 1..m
                 PROVE
          /\ nodes[frames'[i].node].kind = "group"
          /\ frames'[i].node = IF i = 1 THEN 1
               ELSE (Group(frames[i - 1])')[frames'[i - 1].next]
          /\ \A e \in frames'[i].errors : \E j \in 1..Len(Group(frames[i])') :
               /\ j < frames'[i].next
               /\ (Group(frames[i])')[j] \in Within(nodes, e)'
          /\ \A a \in sent :
               \A j \in Later(frames, i, Len(frames) - 1)'..Len(Group(frames[i])') :
                 a < (Group(frames[i])')[j]
      BY <2>6 DEF Called
    <3>1. \A n : Within(nodes, n)' = Within(nodes, n)
      BY DEF Within
    <3>2. /\ Group(frames[i])' = Group(frames'[i])
          /\ Group(frames[i - 1])' = Group(frames'[i - 1])
          /\ Later(frames, i, Len(frames) - 1)' = Later(frames', i, m - 1)
      BY <2>6 DEF Group, Later
    <3>3. /\ nodes[frames'[i].node].kind = "group"
          /\ frames'[i].node =
               IF i = 1 THEN 1 ELSE Group(frames'[i - 1])[frames'[i - 1].next]
          /\ \A e \in frames'[i].errors : \E j \in 1..Len(Group(frames'[i])) :
               j < frames'[i].next /\ Group(frames'[i])[j] \in Within(nodes, e)
          /\ \A a \in sent :
               \A j \in Later(frames', i, m - 1)..Len(Group(frames'[i])) :
                 a < Group(frames'[i])[j]
      BY <2>6, <2>10 DEF Called
    <3> QED
      BY <3>1, <3>2, <3>3
  <2>13. \A n \in Objects : ToDo(frames', n, m - 1)
                              => ToDo(frames, n, Len(frames) - 1)'
    BY <2>6 DEF ToDo, Later, Group, Within
  <2> QED
    BY <1>2, <2>1, <2>8, <2>11, <2>12, <2>13 DEF Decided
<1> QED
  BY <1>3, <1>4

\* Before the next node is begun, an activation waits for it.
LEMMA NextBegins ==
  ASSUME SInv, HasNext
  PROVE  /\ Called(frames, Range(attempted), Len(frames))
         /\ \A n \in Objects :
              n \in Range(attempted) \/ LeftOut(n)
                \/ ToDo(frames, n, Len(frames)) \/ NextNode \in Within(nodes, n)
<1> DEFINE m == Len(frames)
<1>1. /\ Complete /\ m \in Nat /\ phase = "apply"
      /\ frames # <<>> => m \in 1..m
      /\ \A i \in 1..m : frames[i].next \in Nat \ {0}
                         /\ Len(Group(frames[i])) \in Nat
  BY ActivationsOf DEF HasNext
<1>2. Called(frames, Range(attempted), m - 1)
  BY <1>1 DEF SInv, Decided
<1>3. \A i \in 1..m : \A j \in Later(frames, i, m)..Len(Group(frames[i])) :
        j \in Later(frames, i, m - 1)..Len(Group(frames[i]))
  BY <1>1 DEF Later
<1>4. Called(frames, Range(attempted), m)
  BY <1>2, <1>3 DEF Called
<1>5. ASSUME NEW n \in Objects
      PROVE  n \in Range(attempted) \/ LeftOut(n)
               \/ ToDo(frames, n, m) \/ NextNode \in Within(nodes, n)
  <2>1. CASE frames = <<>>
    <3>1. NextNode = 1 /\ n \in 1..Len(nodes)
      BY <2>1 DEF NextNode, Objects
    <3> QED
      BY <1>1, <3>1, RootAround
  <2>2. CASE frames # <<>>
    <3>1. SUFFICES ASSUME ToDo(frames, n, m - 1)
                   PROVE  ToDo(frames, n, m) \/ NextNode \in Within(nodes, n)
      BY <1>1, <2>2 DEF SInv, Decided
    <3>2. PICK i \in 1..m :
            \E j \in Later(frames, i, m - 1)..Len(Group(frames[i])) :
              Group(frames[i])[j] \in Within(nodes, n)
      BY <3>1 DEF ToDo
    <3>3. PICK j \in Later(frames, i, m - 1)..Len(Group(frames[i])) :
            Group(frames[i])[j] \in Within(nodes, n)
      BY <3>2
    <3>4. CASE j \in Later(frames, i, m)..Len(Group(frames[i]))
      BY <3>3, <3>4 DEF ToDo
    <3>5. CASE j \notin Later(frames, i, m)..Len(Group(frames[i]))
      <4>1. i = m /\ j = frames[i].next
        BY <1>1, <3>5 DEF Later
      <4>2. NextNode = Group(frames[i])[j]
        BY <2>2, <4>1 DEF NextNode, Last, Group
      <4> QED
        BY <3>3, <4>2
    <3> QED
      BY <3>4, <3>5
  <2> QED
    BY <2>1, <2>2
<1> QED
  BY <1>4, <1>5

\* The activations a call for the next node returns into.
LEMMA NextReturns ==
  ASSUME SInv, HasNext
  PROVE  /\ \A i \in 1..Len(frames) : /\ frames[i].node \in 1..Len(nodes)
                                      /\ frames[i].next \in 1..Len(Group(frames[i]))
         /\ NextNode = IF frames = <<>> THEN 1
                       ELSE Group(frames[Len(frames)])[frames[Len(frames)].next]
         /\ NextNode \in 1..Len(nodes) /\ nodes[NextNode].kind # "config"
<1>1. \A i \in 1..Len(frames) : frames[i].node \in 1..Len(nodes)
  BY ActivationsOf DEF HasNext
<1>2. Child(nodes, NextNode)
  BY NextIsAChild DEF SInv
<1> QED
  BY <1>1, <1>2, NextIsWithin DEF Child, NextNode, Last, Group

LEMMA DecidesNothing ==
  ASSUME SInv, ApplyNothing
  PROVE  Decided'
<1>1. HasNext /\ phase = "apply" /\ UNCHANGED <<nodes, open, attempted, failed>>
  BY DEF ApplyNothing, HasNext
<1>2. nodes[NextNode].kind = "noop" /\ ReturnTo(frames, {})
  BY NextReturns DEF ApplyNothing
<1>3. Complete /\ frames \in Seq(Frame)
  BY <1>1, ActivationsOf
<1>4. Sent'
  <2>1. nodes' = nodes /\ failed' = failed /\ attempted' = attempted
    BY <1>1
  <2>2. Path' = Path
    BY <2>1 DEF Path
  <2>3. Sent
    BY DEF SInv, Decided
  <2> QED
    BY <2>1, <2>2, <2>3 DEF Sent, InDocumentOrder, LeftOut, Meet, Objects
<1>5. Range(attempted)' = Range(attempted)
  BY <1>1
<1>6. ASSUME NEW n \in Objects
      PROVE  n \in Range(attempted) \/ LeftOut(n)' \/ ToDo(frames, n, Len(frames))
  <2>1. NextNode \notin Within(nodes, n)
    <3>1. n \in 1..Len(nodes) /\ nodes[n].kind \in ResourceKinds
      BY DEF Objects
    <3>2. n # NextNode
      BY <1>2, <3>1 DEF ResourceKinds
    <3> QED
      BY <1>2, <1>3, <3>1, <3>2, OnlyGroups
  <2> QED
    BY <1>1, <2>1, NextBegins, StaysLeftOut
<1>7. Called(frames, Range(attempted), Len(frames))
  BY <1>1, NextBegins
<1> QED
  BY <1>1, <1>2, <1>3, <1>4, <1>5, <1>6, <1>7, NextReturns, Resumes

LEMMA DecidesAnObject ==
  ASSUME SInv, ApplyObject
  PROVE  Decided'
<1> DEFINE c == NextNode
<1>1. HasNext /\ phase = "apply" /\ UNCHANGED <<nodes, open>>
  BY DEF ApplyObject, HasNext
<1>2. PICK errors \in SUBSET {c} :
        /\ attempted' = Append(attempted, c)
        /\ failed' = failed \cup errors
        /\ ReturnTo(frames, errors)
  BY DEF ApplyObject
<1>3. /\ Complete /\ frames \in Seq(Frame) /\ attempted \in Seq(Ids)
      /\ failed \subseteq Objects /\ Len(nodes) \in Nat
  BY <1>1, ActivationsOf, CompleteOf
<1>4. /\ c \in Objects /\ c \in Ids /\ c \in 1..Len(nodes)
      /\ c \in Within(nodes, c)
  <2>1. c \in 1..Len(nodes) /\ c \in Ids
    BY <1>1, NextReturns, NextIsAChild DEF SInv
  <2> QED
    BY <2>1 DEF ApplyObject, Objects, Within
<1>5. /\ \A a \in Range(attempted) : a < c /\ a \in Objects /\ a \in 1..Len(nodes)
      /\ ~LeftOut(c)
  BY <1>1, NextIsLater, NextIsDue DEF SInv, Decided, Sent, Objects
<1> HIDE DEF c
<1>6. /\ Len(attempted) \in Nat /\ Len(attempted') = Len(attempted) + 1
      /\ attempted'[Len(attempted) + 1] = c
      /\ \A i \in 1..Len(attempted) : attempted'[i] = attempted[i]
      /\ attempted' \in Seq(Ids)
      /\ DOMAIN attempted = 1..Len(attempted)
      /\ DOMAIN attempted' = 1..Len(attempted')
  BY <1>2, <1>3, <1>4, AppendProperties, LenProperties
<1>7. Range(attempted)' = Range(attempted) \cup {c}
  <2>1. /\ Range(attempted) = {attempted[i] : i \in 1..Len(attempted)}
        /\ Range(attempted') = {attempted'[i] : i \in 1..Len(attempted')}
    BY <1>6 DEF Range
  <2>2. \A i \in 1..Len(attempted') :
          i = Len(attempted) + 1 \/ i \in 1..Len(attempted)
    BY <1>6
  <2>3. /\ Len(attempted) + 1 \in 1..Len(attempted')
        /\ \A i \in 1..Len(attempted) : i \in 1..Len(attempted')
    BY <1>6
  <2>4. Range(attempted') \subseteq Range(attempted) \cup {c}
    BY <1>6, <2>1, <2>2
  <2>5. Range(attempted) \cup {c} \subseteq Range(attempted')
    BY <1>6, <2>1, <2>3
  <2> QED
    BY <2>4, <2>5
<1>8. \A a \in Range(attempted) \cup {c} : LeftOut(a)' => LeftOut(a)
  <2>1. nodes' = nodes
    BY <1>1
  <2>2. Path' = Path
    BY <2>1 DEF Path
  <2>3. \A a, b : Meet(a, b)' = Meet(a, b)
    BY <2>2 DEF Meet
  <2> SUFFICES ASSUME NEW a \in Range(attempted) \cup {c}, LeftOut(a)'
               PROVE  LeftOut(a)
    OBVIOUS
  <2>4. PICK e \in failed' : e < a /\ nodes[Meet(e, a)].errorPolicy = "Abort"
    BY <2>1, <2>3 DEF LeftOut
  <2>5. e # c
    BY <1>4, <1>5, <2>4
  <2> QED
    BY <1>2, <2>4, <2>5 DEF LeftOut
<1>9. Sent'
  <2>1. InDocumentOrder'
    <3> SUFFICES ASSUME NEW i \in 1..Len(attempted'), NEW j \in 1..Len(attempted'),
                        i < j
                 PROVE  attempted'[i] < attempted'[j]
      BY <1>6 DEF InDocumentOrder
    <3>1. i \in 1..Len(attempted) /\ attempted'[i] = attempted[i]
      BY <1>6
    <3>2. CASE j = Len(attempted) + 1
      <4>1. attempted[i] \in Range(attempted)
        BY <1>6, <3>1 DEF Range
      <4> QED
        BY <1>5, <1>6, <3>1, <3>2, <4>1
    <3>3. CASE j # Len(attempted) + 1
      <4>1. j \in 1..Len(attempted) /\ attempted'[j] = attempted[j]
        BY <1>6, <3>3
      <4> QED
        BY <1>6, <3>1, <4>1 DEF SInv, Decided, Sent, InDocumentOrder
    <3> QED
      BY <3>2, <3>3
  <2>2. Objects' = Objects
    BY <1>1 DEF Objects
  <2>3. \A a \in Range(attempted) \cup {c} : a \in Objects /\ ~LeftOut(a)
    BY <1>4, <1>5 DEF SInv, Decided, Sent
  <2>4. \A a \in Range(attempted)' : a \in Objects' /\ ~LeftOut(a)'
    BY <1>7, <1>8, <2>2, <2>3
  <2> QED
    BY <2>1, <2>4 DEF Sent
<1>10. Called(frames, Range(attempted) \cup {c}, Len(frames))
  <2>1. Called(frames, Range(attempted), Len(frames))
    BY <1>1, NextBegins
  <2>2. ASSUME NEW i \in 1..Len(frames),
               NEW j \in Later(frames, i, Len(frames))..Len(Group(frames[i]))
        PROVE  c < Group(frames[i])[j]
    <3>1. /\ frames[i].node \in 1..Len(nodes)
          /\ frames[i].next \in 1..Len(Group(frames[i]))
          /\ Group(frames[i])[frames[i].next] \in Within(nodes, c)
      BY <1>1, NextReturns, NextIsWithin DEF c
    <3>2. Later(frames, i, Len(frames)) = frames[i].next + 1
      BY DEF Later
    <3>3. j \in 1..Len(Group(frames[i])) /\ frames[i].next \in 1..j - 1
      BY <3>1, <3>2
    <3> QED
      BY <1>3, <1>4, <3>1, <3>3, Siblings DEF Group
  <2> QED
    BY <2>1, <2>2 DEF Called
<1>11. ASSUME NEW n \in Objects
       PROVE  n \in Range(attempted) \cup {c} \/ LeftOut(n)'
                \/ ToDo(frames, n, Len(frames))
  <2>1. CASE n = c
    BY <2>1
  <2>2. CASE n # c
    <3>1. n \in 1..Len(nodes)
      BY DEF Objects
    <3>2. nodes[c].kind # "group"
      BY <1>4 DEF Objects, ResourceKinds
    <3>3. c \notin Within(nodes, n)
      BY <1>3, <2>2, <3>1, <3>2, OnlyGroups
    <3> QED
      BY <1>1, <1>2, <3>3, NextBegins, StaysLeftOut DEF c
  <2> QED
    BY <2>1, <2>2
<1>12. /\ errors \in SUBSET Ids
       /\ \A e \in errors : /\ e \in failed' /\ e \in 1..Len(nodes)
                            /\ c \in Within(nodes, e)
  BY <1>2, <1>4
<1> QED
  BY <1>1, <1>2, <1>3, <1>7, <1>9, <1>10, <1>11, <1>12, NextReturns, Resumes DEF c

LEMMA DecidesToEnter ==
  ASSUME SInv, EnterGroup
  PROVE  Decided'
<1> DEFINE c == NextNode
           call == [node |-> c, next |-> 1, errors |-> {}]
           m == Len(frames)
<1>1. /\ HasNext /\ phase = "apply" /\ frames' = Append(frames, call)
      /\ UNCHANGED <<phase, nodes, open, attempted, failed>>
      /\ nodes[c].kind = "group"
  BY DEF EnterGroup, HasNext, decoding
<1>2. /\ Complete /\ frames \in Seq(Frame) /\ m \in Nat
      /\ frames # <<>> => m \in 1..m
  BY <1>1, ActivationsOf
<1>3. /\ c \in 1..Len(nodes) /\ c \in Ids
      /\ c = IF frames = <<>> THEN 1 ELSE Group(frames[m])[frames[m].next]
  BY <1>1, NextReturns, NextIsAChild DEF SInv
<1>4. call \in Frame /\ call.node = c /\ call.next = 1 /\ call.errors = {}
  BY <1>3 DEF Frame
<1>5. \A a \in Range(attempted) : a < c /\ a \in 1..Len(nodes)
  BY <1>1, NextIsLater DEF SInv, Decided, Sent, Objects
<1> HIDE DEF c, call
<1>6. /\ Len(frames') = m + 1 /\ frames'[m + 1] = call
      /\ \A i \in 1..m : frames'[i] = frames[i]
      /\ frames' # <<>>
  <2>1. /\ frames' \in Seq(Frame) /\ Len(frames') = m + 1
        /\ frames'[m + 1] = call /\ \A i \in 1..m : frames'[i] = frames[i]
    BY <1>1, <1>2, <1>4, AppendProperties
  <2> QED
    BY <1>2, <2>1, EmptySeq
<1> HIDE DEF m
<1>7. /\ Len(Group(call)) \in Nat
      /\ \A j \in 1..Len(Group(call)) :
           Group(call)[j] \in 1..Len(nodes) /\ c < Group(call)[j]
  <2>1. Group(call) = nodes[c].group
    BY <1>4 DEF Group
  <2>2. \A d \in 1..Len(nodes) : nodes[d].parent < d
    BY <1>2, CompleteOf
  <2> QED
    BY <1>2, <1>3, <2>1, <2>2, CompleteOf
<1>8. Called(frames, Range(attempted), m)
  BY <1>1, NextBegins DEF m
<1>9. Called(frames', Range(attempted), m)
  <2> SUFFICES ASSUME NEW i \in 1..m + 1
               PROVE
        /\ nodes[frames'[i].node].kind = "group"
        /\ frames'[i].node =
             IF i = 1 THEN 1 ELSE Group(frames'[i - 1])[frames'[i - 1].next]
        /\ \A e \in frames'[i].errors : \E j \in 1..Len(Group(frames'[i])) :
             j < frames'[i].next /\ Group(frames'[i])[j] \in Within(nodes, e)
        /\ \A a \in Range(attempted) :
             \A j \in Later(frames', i, m)..Len(Group(frames'[i])) :
               a < Group(frames'[i])[j]
    BY <1>6 DEF Called
  <2>1. CASE i = m + 1
    <3>1. frames'[i] = call /\ Later(frames', i, m) = 1
      BY <1>2, <1>4, <1>6, <2>1 DEF Later
    <3>2. c = IF i = 1 THEN 1 ELSE Group(frames'[i - 1])[frames'[i - 1].next]
      <4>1. CASE frames = <<>>
        <5>1. m = 0
          BY <4>1, EmptySeq DEF m
        <5> QED
          BY <1>3, <2>1, <4>1, <5>1
      <4>2. CASE frames # <<>>
        <5>1. i # 1 /\ i - 1 = m /\ frames'[m] = frames[m]
          BY <1>2, <1>6, <2>1, <4>2 DEF m
        <5> QED
          BY <1>3, <4>2, <5>1 DEF m
      <4> QED
        BY <4>1, <4>2
    <3>3. \A a \in Range(attempted) : \A j \in 1..Len(Group(call)) :
            a < Group(call)[j]
      BY <1>3, <1>5, <1>7
    <3> QED
      BY <1>1, <1>4, <3>1, <3>2, <3>3
  <2>2. CASE i # m + 1
    <3>1. i \in 1..m /\ frames'[i] = frames[i]
      BY <1>2, <1>6, <2>2 DEF m
    <3>2. i # 1 => frames'[i - 1] = frames[i - 1]
      <4>1. i # 1 => i - 1 \in 1..m
        BY <1>2, <3>1 DEF m
      <4> QED
        BY <1>6, <4>1 DEF m
    <3>3. Later(frames', i, m) = Later(frames, i, m)
      BY <3>1 DEF Later
    <3> QED
      BY <1>8, <3>1, <3>2, <3>3 DEF Called, m
  <2> QED
    BY <2>1, <2>2
<1>10. ASSUME NEW n \in Objects
       PROVE  n \in Range(attempted) \/ LeftOut(n)' \/ ToDo(frames', n, m)
  <2>1. \/ n \in Range(attempted) \/ LeftOut(n)
        \/ ToDo(frames, n, m) \/ c \in Within(nodes, n)
    BY <1>1, NextBegins DEF c, m
  <2>2. LeftOut(n) => LeftOut(n)'
    BY <1>1, StaysLeftOut
  <2>3. ASSUME ToDo(frames, n, m) PROVE ToDo(frames', n, m)
    <3>1. PICK i \in 1..m : \E j \in Later(frames, i, m)..Len(Group(frames[i])) :
            Group(frames[i])[j] \in Within(nodes, n)
      BY <2>3 DEF ToDo, m
    <3>2. i \in 1..m + 1 /\ frames'[i] = frames[i]
      BY <1>2, <1>6 DEF m
    <3> QED
      BY <1>6, <3>1, <3>2 DEF ToDo, Later
  <2>4. ASSUME c \in Within(nodes, n) PROVE ToDo(frames', n, m)
    <3>1. n \in 1..Len(nodes) /\ nodes[n].kind # "config" /\ c # n
      BY <1>1 DEF Objects, ResourceKinds
    <3>2. PICK j \in 1..Len(nodes[c].group) : nodes[c].group[j] \in Within(nodes, n)
      BY <1>2, <2>4, <3>1, ChildAround
    <3>3. /\ m + 1 \in 1..m + 1 /\ Later(frames', m + 1, m) = 1
          /\ Group(frames'[m + 1]) = nodes[c].group
      BY <1>2, <1>4, <1>6 DEF Later, Group, m
    <3> QED
      BY <1>6, <3>2, <3>3 DEF ToDo
  <2> QED
    BY <2>1, <2>2, <2>3, <2>4
<1>11. Sent'
  <2>1. nodes' = nodes /\ failed' = failed /\ attempted' = attempted
    BY <1>1
  <2>2. Path' = Path
    BY <2>1 DEF Path
  <2>3. Sent
    BY DEF SInv, Decided
  <2> QED
    BY <2>1, <2>2, <2>3 DEF Sent, InDocumentOrder, LeftOut, Meet, Objects
<1>12. Len(frames') - 1 = m
  BY <1>2, <1>6 DEF m
<1>13. Called(frames, Range(attempted), Len(frames) - 1)'
  <2>1. nodes' = nodes /\ attempted' = attempted
    BY <1>1
  <2> QED
    BY <1>9, <1>12, <2>1 DEF Called, Later, Group, Within
<1>14. \A n \in Objects : ToDo(frames', n, m)
                            => ToDo(frames, n, Len(frames) - 1)'
  <2>1. nodes' = nodes
    BY <1>1
  <2> QED
    BY <1>12, <2>1 DEF ToDo, Later, Group, Within
<1>15. Objects' = Objects /\ Range(attempted)' = Range(attempted)
  BY <1>1 DEF Objects
<1> QED
  BY <1>1, <1>6, <1>10, <1>11, <1>13, <1>14, <1>15 DEF Decided

LEMMA DecidesToLeave ==
  ASSUME SInv, LeaveGroup
  PROVE  Decided'
<1> DEFINE fs == Front(frames)
           f == Last(frames)
           m == Len(frames)
<1>1. /\ phase = "apply" /\ frames # <<>> /\ ReturnTo(fs, f.errors)
      /\ UNCHANGED <<nodes, open, attempted, failed>>
  BY DEF LeaveGroup, HasNext
<1>2. /\ Complete /\ frames \in Seq(Frame) /\ m \in Nat /\ m \in 1..m
      /\ failed \subseteq Objects
      /\ \A i \in 1..m :
           /\ frames[i].node \in 1..Len(nodes)
           /\ frames[i].next \in Nat \ {0} /\ frames[i].errors \subseteq failed
           /\ Len(Group(frames[i])) \in Nat
           /\ i < m => frames[i].next <= Len(Group(frames[i]))
  BY <1>1, ActivationsOf
<1>3. /\ fs \in Seq(Frame) /\ Len(fs) = m - 1
      /\ \A i \in 1..m - 1 : fs[i] = frames[i]
      /\ f = frames[m]
  BY <1>1, <1>2, FrontOf
<1>4. ~(f.next <= Len(Group(f)))
  BY <1>1 DEF LeaveGroup, HasNext, Group
<1> HIDE DEF fs, f, m
<1>5. /\ Called(frames, Range(attempted), m - 1)
      /\ \A n \in Objects :
           n \in Range(attempted) \/ LeftOut(n) \/ ToDo(frames, n, m - 1)
  BY <1>1 DEF SInv, Decided, m
<1>6. \A i \in 1..m - 1 : i \in 1..m /\ i < m /\ fs[i] = frames[i]
  BY <1>2, <1>3
<1>7. \A i \in 1..Len(fs) : /\ fs[i].node \in 1..Len(nodes)
                            /\ fs[i].next \in 1..Len(Group(fs[i]))
  <2> SUFFICES ASSUME NEW i \in 1..m - 1
               PROVE  /\ fs[i].node \in 1..Len(nodes)
                      /\ fs[i].next \in 1..Len(Group(fs[i]))
    BY <1>3
  <2>1. i \in 1..m /\ i < m /\ fs[i] = frames[i]
    BY <1>6
  <2>2. /\ frames[i].node \in 1..Len(nodes)
        /\ frames[i].next \in Nat \ {0} /\ Len(Group(frames[i])) \in Nat
        /\ frames[i].next <= Len(Group(frames[i]))
    BY <1>2, <2>1
  <2> QED
    BY <2>1, <2>2
<1>8. \A i \in 1..m - 1 : Later(fs, i, Len(fs)) = Later(frames, i, m - 1)
  BY <1>3, <1>6 DEF Later
<1>9. Called(fs, Range(attempted), Len(fs))
  <2> SUFFICES ASSUME NEW i \in 1..m - 1
               PROVE
        /\ nodes[fs[i].node].kind = "group"
        /\ fs[i].node = IF i = 1 THEN 1 ELSE Group(fs[i - 1])[fs[i - 1].next]
        /\ \A e \in fs[i].errors : \E j \in 1..Len(Group(fs[i])) :
             j < fs[i].next /\ Group(fs[i])[j] \in Within(nodes, e)
        /\ \A a \in Range(attempted) :
             \A j \in Later(fs, i, Len(fs))..Len(Group(fs[i])) :
               a < Group(fs[i])[j]
    BY <1>3 DEF Called
  <2>1. i # 1 => i - 1 \in 1..m - 1
    BY <1>2
  <2>2. i \in 1..m /\ fs[i] = frames[i] /\ (i # 1 => fs[i - 1] = frames[i - 1])
    BY <1>6, <2>1
  <2> QED
    BY <1>5, <1>8, <2>2 DEF Called, m
<1>10. ASSUME NEW n \in Objects
       PROVE  n \in Range(attempted) \/ LeftOut(n)' \/ ToDo(fs, n, Len(fs))
  <2>1. LeftOut(n) => LeftOut(n)'
    BY <1>1, StaysLeftOut
  <2>2. ASSUME ToDo(frames, n, m - 1) PROVE ToDo(fs, n, Len(fs))
    <3>1. PICK i \in 1..m :
            \E j \in Later(frames, i, m - 1)..Len(Group(frames[i])) :
              Group(frames[i])[j] \in Within(nodes, n)
      BY <2>2 DEF ToDo, m
    <3>2. i # m
      <4>1. SUFFICES ASSUME i = m PROVE FALSE
        OBVIOUS
      <4>2. Later(frames, i, m - 1) = f.next /\ Group(frames[i]) = Group(f)
        BY <1>2, <1>3, <4>1 DEF Later
      <4>3. f.next \in Nat /\ Len(Group(f)) \in Nat
        BY <1>2, <1>3
      <4> QED
        BY <1>4, <3>1, <4>2, <4>3
    <3>3. i \in 1..m - 1
      BY <1>2, <3>2
    <3> QED
      BY <1>3, <1>8, <3>1, <3>3 DEF ToDo
  <2> QED
    BY <1>5, <2>1, <2>2
<1>11. Sent'
  <2>1. nodes' = nodes /\ failed' = failed /\ attempted' = attempted
    BY <1>1
  <2>2. Path' = Path
    BY <2>1 DEF Path
  <2>3. Sent
    BY DEF SInv, Decided
  <2> QED
    BY <2>1, <2>2, <2>3 DEF Sent, InDocumentOrder, LeftOut, Meet, Objects
<1>12. f.node = IF fs = <<>> THEN 1 ELSE Group(fs[Len(fs)])[fs[Len(fs)].next]
  <2>1. frames[m].node =
          IF m = 1 THEN 1 ELSE Group(frames[m - 1])[frames[m - 1].next]
    BY <1>2, <1>5 DEF Called, m
  <2>2. fs = <<>> <=> m = 1
    BY <1>2, <1>3, EmptySeq
  <2>3. m # 1 => fs[m - 1] = frames[m - 1]
    BY <1>2, <1>3
  <2> QED
    BY <1>3, <2>1, <2>2, <2>3
<1>13. ASSUME NEW e \in f.errors
       PROVE  e \in failed' /\ e \in 1..Len(nodes) /\ f.node \in Within(nodes, e)
  <2>1. e \in failed /\ e \in 1..Len(nodes)
    BY <1>2, <1>3 DEF Objects
  <2>2. PICK j \in 1..Len(Group(f)) : Group(f)[j] \in Within(nodes, e)
    BY <1>2, <1>3, <1>5 DEF Called, m
  <2>3. /\ Group(f)[j] \in 1..Len(nodes)
        /\ nodes[Group(f)[j]].parent = f.node /\ f.node \in 1..Len(nodes)
    BY <1>2, <1>3, CompleteOf DEF Group
  <2>4. f.node \in Within(nodes, Group(f)[j])
    <3>1. Group(f)[j] # 1
      BY <1>2, <2>3, CompleteOf
    <3> QED
      BY <1>2, <2>3, <3>1, ParentAround
  <2> QED
    BY <1>1, <1>2, <2>1, <2>2, <2>4, Nests DEF Complete
<1>14. f.errors \in SUBSET Ids
  <2>1. f \in Frame
    BY <1>2, <1>3, ElementOfSeq DEF m
  <2> QED
    BY <2>1 DEF Frame
<1>15. Range(attempted)' = Range(attempted)
  BY <1>1
<1> QED
  BY <1>1, <1>3, <1>7, <1>9, <1>10, <1>11, <1>12, <1>13, <1>14, <1>15, Resumes

\* Until Apply is called, nothing was sent.
LEMMA DecidesLater ==
  ASSUME GInv', phase' \in {"decode", "walk", "refused"}
         \/ (phase' = "apply" /\ frames' = <<>> /\ attempted' = <<>>)
  PROVE  Decided'
<1>1. attempted' = <<>> /\ phase' # "applied"
      /\ (phase' = "apply" => frames' = <<>>)
  BY DEF GInv, Decoded
<1>2. Sent'
  BY <1>1 DEF Sent, InDocumentOrder, Range
<1>3. phase' = "apply" => Called(frames, Range(attempted), Len(frames) - 1)'
  BY <1>1 DEF Called
<1> QED
  BY <1>1, <1>2, <1>3 DEF Decided

LEMMA DecisionInvariance == Spec => []Decided
<1>1. Init => Decided
  <2> SUFFICES ASSUME Init PROVE Decided
    OBVIOUS
  <2> QED
    BY DEF Init, Decided, Sent, InDocumentOrder, Range
<1>2. GInv /\ Ordered /\ Decided /\ GInv' /\ [Next]_vars => Decided'
  <2> SUFFICES ASSUME GInv, Ordered, Decided, GInv', [Next]_vars PROVE Decided'
    OBVIOUS
  <2>1. SInv
    BY DEF SInv
  <2>2. CASE ReadNull \/ ReadObject \/ ReadConfig \/ OpenGroup \/ CloseGroup
    <3>1. phase' \in {"decode", "walk", "refused"}
      BY <2>2 DEF ReadNull, ReadObject, ReadConfig, OpenGroup, CloseGroup,
                  CanRead, DecodedIn, Refuse
    <3> QED
      BY <3>1, DecidesLater
  <2>3. CASE DefaultNamespaces
    <3>1. frames' = <<>> /\ attempted' = <<>>
      BY <2>3 DEF DefaultNamespaces, GInv, Decoded, applying
    <3> QED
      BY <2>3, <3>1, DecidesLater DEF DefaultNamespaces
  <2>4. CASE ApplyNothing
    BY <2>1, <2>4, DecidesNothing
  <2>5. CASE ApplyObject
    BY <2>1, <2>5, DecidesAnObject
  <2>6. CASE EnterGroup
    BY <2>1, <2>6, DecidesToEnter
  <2>7. CASE LeaveGroup
    BY <2>1, <2>7, DecidesToLeave
  <2>8. CASE UNCHANGED vars
    <3>1. /\ nodes' = nodes /\ phase' = phase /\ frames' = frames
          /\ attempted' = attempted /\ failed' = failed
      BY <2>8 DEF vars
    <3>2. Path' = Path
      BY <3>1 DEF Path
    <3>3. \A n : LeftOut(n)' <=> LeftOut(n)
      BY <3>1, <3>2 DEF LeftOut, Meet
    <3>4. Objects' = Objects /\ Range(attempted)' = Range(attempted)
      BY <3>1 DEF Objects
    <3>5. Sent'
      BY <3>1, <3>3, <3>4 DEF Decided, Sent, InDocumentOrder
    <3>6. \A n : Within(nodes, n)' = Within(nodes, n)
      BY <3>1 DEF Within
    <3>7. ASSUME NEW i
          PROVE  /\ Group(frames[i])' = Group(frames[i])
                 /\ Later(frames, i, Len(frames) - 1)'
                      = Later(frames, i, Len(frames) - 1)
      BY <3>1 DEF Group, Later
    <3>8. Called(frames, Range(attempted), Len(frames) - 1)
            => Called(frames, Range(attempted), Len(frames) - 1)'
      <4>1. ASSUME NEW i
            PROVE  Group(frames[i - 1])' = Group(frames[i - 1])
        BY <3>1 DEF Group
      <4> QED
        BY <3>1, <3>4, <3>6, <3>7, <4>1 DEF Called
    <3>9. \A n : ToDo(frames, n, Len(frames) - 1)
                    => ToDo(frames, n, Len(frames) - 1)'
      BY <3>1, <3>6, <3>7 DEF ToDo
    <3> QED
      BY <3>1, <3>3, <3>4, <3>5, <3>8, <3>9 DEF Decided
  <2> QED
    BY <2>2, <2>3, <2>4, <2>5, <2>6, <2>7, <2>8 DEF Next
<1> QED
  BY <1>1, <1>2, Invariance, OrderInvariance, PTL DEF Spec

------------------------------------------------------------------------------
(* The policies *)

IsOpen(op, g) == \E i \in 1..Len(op) : op[i] = g

\* What a group is left with when it ends.
OneLevel(ns, g) ==
  IF ns[g].stated # "" \/ ns[g].parent = 0 THEN ns[g].stated
  ELSE ns[ns[g].parent].stated

\* An open group has the policy it states and nothing else yet.  One that has
\* ended has inherited, and the group around it takes no config any more.
Inheriting(ns, op) ==
  \A g \in 1..Len(ns) : ns[g].kind = "group" =>
    IF IsOpen(op, g) THEN ns[g].errorPolicy = ns[g].stated
    ELSE /\ ns[g].parent # 0 => ns[ns[g].parent].elements # 0
         /\ ns[g].errorPolicy = OneLevel(ns, g)

\* Nodes whose policies are left alone, and whose elements become only more.
SamePolicy(m, n) ==
  /\ n.kind = m.kind /\ n.parent = m.parent
  /\ n.errorPolicy = m.errorPolicy /\ n.stated = m.stated
  /\ m.elements # 0 => n.elements # 0

LEMMA PoliciesStay ==
  ASSUME NEW ms, NEW ns, NEW op, Document(ms), Inheriting(ms, op),
         \A k \in 1..Len(ms) : SamePolicy(ms[k], ns[k]),
         \A k \in 1..Len(ns) : ns[k].kind = "group" => k \in 1..Len(ms)
  PROVE  Inheriting(ns, op)
<1> SUFFICES ASSUME NEW g \in 1..Len(ns), ns[g].kind = "group"
             PROVE  IF IsOpen(op, g) THEN ns[g].errorPolicy = ns[g].stated
                    ELSE /\ ns[g].parent # 0 => ns[ns[g].parent].elements # 0
                         /\ ns[g].errorPolicy = OneLevel(ns, g)
  BY DEF Inheriting
<1> DEFINE p == ms[g].parent
<1>1. g \in 1..Len(ms) /\ SamePolicy(ms[g], ns[g])
  OBVIOUS
<1>2. p # 0 => SamePolicy(ms[p], ns[p])
  <2>1. p \in Nat /\ p < g /\ Len(ms) \in Nat
    BY <1>1, DocumentOf
  <2>2. p # 0 => p \in 1..Len(ms)
    BY <1>1, <2>1
  <2> QED
    BY <2>2
<1>3. ms[g].kind = "group" /\ ns[g].parent = p
  BY <1>1 DEF SamePolicy
<1> HIDE DEF p
<1>4. CASE IsOpen(op, g)
  BY <1>1, <1>3, <1>4 DEF Inheriting, SamePolicy
<1>5. CASE ~IsOpen(op, g)
  <2>1. /\ p # 0 => ms[p].elements # 0
        /\ ms[g].errorPolicy = OneLevel(ms, g)
    BY <1>1, <1>3, <1>5 DEF Inheriting, p
  <2>2. OneLevel(ns, g) = OneLevel(ms, g)
    BY <1>1, <1>2, <1>3 DEF OneLevel, SamePolicy, p
  <2> QED
    BY <1>1, <1>2, <1>3, <1>5, <2>1, <2>2 DEF SamePolicy
<1> QED
  BY <1>4, <1>5

\* What is added to a group leaves the policies alone.
LEMMA AddedPolicies ==
  ASSUME NEW ns \in Seq(Applier), NEW p \in 0..Len(ns), NEW n \in Ids
  PROVE  /\ \A k \in 1..Len(ns) : SamePolicy(ns[k], AddTo(ns, p, n)[k])
         /\ p # 0 => AddTo(ns, p, n)[p].elements # 0
<1>1. CASE p = 0
  BY <1>1 DEF AddTo, SamePolicy
<1>2. CASE p # 0
  <2>1. p \in 1..Len(ns) /\ ns[p] \in Applier
    BY <1>2, ElementOfSeq, LenProperties
  <2>2. PICK elem : elem = [ns[p] EXCEPT !.elements = @ + 1,
                                        !.group = Append(@, n)]
    OBVIOUS
  <2>3. AddTo(ns, p, n) = [ns EXCEPT ![p] = elem]
    BY <1>2, <2>1, <2>2 DEF AddTo
  <2>4. ns[p].elements \in Nat
    BY <2>1 DEF Applier
  <2>5. elem = [kind |-> ns[p].kind, parent |-> ns[p].parent,
                errorPolicy |-> ns[p].errorPolicy,
                group |-> Append(ns[p].group, n),
                elements |-> ns[p].elements + 1, stated |-> ns[p].stated]
    BY <2>1, <2>2 DEF Applier
  <2>6. SamePolicy(ns[p], elem) /\ elem.elements # 0
    BY <2>4, <2>5 DEF SamePolicy
  <2>7. ns = [k \in 1..Len(ns) |-> ns[k]]
    BY LenProperties
  <2>8. \A k \in 1..Len(ns) :
          AddTo(ns, p, n)[k] = IF k = p THEN elem ELSE ns[k]
    BY <2>1, <2>3, <2>7
  <2> QED
    BY <2>1, <2>6, <2>8 DEF SamePolicy
<1> QED
  BY <1>1, <1>2

LEMMA InheritingANode ==
  ASSUME GInv, Ordered, Inheriting(nodes, open), CanRead,
         NEW kind \in {"noop", "apply", "delete"},
         nodes' = AddTo(Append(nodes, Elem(kind)), Parent, Len(nodes) + 1),
         UNCHANGED open
  PROVE  Inheriting(nodes, open)'
<1> DEFINE n == Len(nodes) + 1
           ns == Append(nodes, Elem(kind))
<1>1. /\ Document(ns) /\ Len(ns) = n /\ n \in Ids /\ ns[n] = Elem(kind)
  BY BeginsThere
<1>2. /\ nodes \in Seq(Applier) /\ Len(nodes) \in Nat /\ Document(nodes)
  BY LenProperties DEF GInv, TypeOK, Decoded, Document
<1>3. n \in 1..n
  BY <1>2
<1>4. ns[n] \in Applier
  BY <1>1, <1>3, ElementOfSeq DEF Document
<1>5. \A k \in 1..Len(nodes) : ns[k] = nodes[k]
  BY <1>1, <1>2, <1>4, AppendProperties
<1>6. Parent \in 0..Len(ns)
  BY <1>1, <1>2, ParentInTree
<1> HIDE DEF ns
<1>7. \A k \in 1..Len(ns) : SamePolicy(ns[k], nodes'[k])
  BY <1>1, <1>6, AddedPolicies DEF Document, ns
<1>8. Len(nodes') = n
  BY <1>1, <1>3, <1>6, Added, ElemOf DEF Document, Child, ns
<1>9. \A k \in 1..Len(nodes) : SamePolicy(nodes[k], nodes'[k])
  BY <1>1, <1>2, <1>5, <1>7
<1>10. nodes'[n].kind # "group"
  BY <1>1, <1>3, <1>7, ElemOf DEF SamePolicy
<1>11. \A k \in 1..Len(nodes') : nodes'[k].kind = "group" => k \in 1..Len(nodes)
  BY <1>2, <1>8, <1>10
<1> QED
  BY <1>2, <1>9, <1>11, PoliciesStay

LEMMA InheritingAConfig ==
  ASSUME GInv, Ordered, Inheriting(nodes, open), CanRead, Parent # 0,
         nodes[Parent].elements = 0, NEW policy \in Policies,
         nodes' = [Append(nodes, Elem("config")) EXCEPT
                     ![Parent].errorPolicy = policy,
                     ![Parent].stated = policy,
                     ![Parent].elements = 1],
         UNCHANGED open
  PROVE  Inheriting(nodes, open)'
<1> DEFINE n == Len(nodes) + 1
           ns == Append(nodes, Elem("config"))
           p == Parent
<1>1. /\ Document(ns) /\ Len(ns) = n /\ ns[n] = Elem("config")
  BY BeginsThere
<1>2. /\ nodes \in Seq(Applier) /\ Len(nodes) \in Nat /\ Document(nodes)
      /\ open \in Seq(Ids)
  BY LenProperties DEF GInv, TypeOK, Decoded, Document
<1>3. n \in 1..n
  BY <1>2
<1>4. ns[n] \in Applier
  BY <1>1, <1>3, ElementOfSeq DEF Document
<1>5. \A k \in 1..Len(nodes) : ns[k] = nodes[k]
  BY <1>1, <1>2, <1>4, AppendProperties
<1>6. p \in 1..Len(nodes) /\ p \in 1..Len(ns)
  BY <1>1, <1>2, ParentInTree
<1>7. IsOpen(open, p)
  <2>1. open # <<>>
    BY NoneOpen
  <2> QED
    BY <1>2, <2>1, FrontOf DEF IsOpen, Parent
<1> HIDE DEF ns, p
<1>8. PICK elem : elem = [ns[p] EXCEPT !.errorPolicy = policy,
                                      !.stated = policy, !.elements = 1]
  OBVIOUS
<1>9. ns[p] \in Applier /\ ns \in Seq(Applier)
  BY <1>1, <1>6, ElementOfSeq DEF Document
<1>10. /\ elem.kind = ns[p].kind /\ elem.parent = ns[p].parent
       /\ elem.errorPolicy = policy /\ elem.stated = policy
       /\ elem.elements = 1
  BY <1>8, <1>9 DEF Applier
<1>11. elem \in Applier
  BY <1>8, <1>9 DEF Applier
<1>12. nodes' = [ns EXCEPT ![p] = elem]
  BY <1>8, <1>9 DEF ns, p
<1>13. /\ Len(nodes') = n
       /\ \A k \in 1..n : nodes'[k] = IF k = p THEN elem ELSE ns[k]
  <2>1. /\ Len([ns EXCEPT ![p] = elem]) = Len(ns)
        /\ \A k \in 1..Len(ns) :
             [ns EXCEPT ![p] = elem][k] = IF k = p THEN elem ELSE ns[k]
    BY <1>6, <1>9, <1>11, ExceptSeq
  <2> QED
    BY <1>1, <1>12, <2>1
<1>14. nodes'[n].kind # "group"
  <2>1. n # p /\ ns[n].kind = "config"
    BY <1>1, <1>2, <1>6, ElemOf
  <2> QED
    BY <1>3, <1>13, <2>1
<1>15. \A k \in 1..Len(nodes) :
         nodes'[k] = IF k = p THEN elem ELSE nodes[k]
  <2>1. \A k \in 1..Len(nodes) : k \in 1..n
    BY <1>2
  <2> QED
    BY <1>5, <1>13, <2>1
<1> SUFFICES ASSUME NEW g \in 1..Len(nodes'), nodes'[g].kind = "group"
             PROVE  IF IsOpen(open, g) THEN nodes'[g].errorPolicy = nodes'[g].stated
                    ELSE /\ nodes'[g].parent # 0
                              => nodes'[nodes'[g].parent].elements # 0
                         /\ nodes'[g].errorPolicy = OneLevel(nodes', g)
  BY DEF Inheriting
<1>16. g \in 1..Len(nodes)
  BY <1>2, <1>13, <1>14
<1>17. CASE g = p
  BY <1>7, <1>10, <1>15, <1>16, <1>17
<1>18. CASE g # p
  <2>1. nodes'[g] = nodes[g] /\ nodes[g].kind = "group"
    BY <1>15, <1>16, <1>18
  <2>2. CASE IsOpen(open, g)
    BY <1>16, <2>1, <2>2 DEF Inheriting
  <2>3. CASE ~IsOpen(open, g)
    <3>1. /\ nodes[g].parent # 0 => nodes[nodes[g].parent].elements # 0
          /\ nodes[g].errorPolicy = OneLevel(nodes, g)
      BY <1>16, <2>1, <2>3 DEF Inheriting
    <3>2. nodes[g].parent # 0 => nodes[g].parent \in 1..Len(nodes)
      BY <1>2, <1>16, DocumentOf
    <3>3. nodes[g].parent # p
      BY <1>6, <3>1 DEF p
    <3>4. nodes[g].parent # 0 =>
            nodes'[nodes[g].parent] = nodes[nodes[g].parent]
      BY <1>15, <3>2, <3>3
    <3> QED
      BY <2>1, <2>3, <3>1, <3>4 DEF OneLevel
  <2> QED
    BY <2>2, <2>3
<1> QED
  BY <1>17, <1>18

LEMMA InheritingAGroup ==
  ASSUME GInv, Ordered, Inheriting(nodes, open), OpenGroup
  PROVE  Inheriting(nodes, open)'
<1> DEFINE n == Len(nodes) + 1
           ns == Append(nodes, Elem("group"))
<1>1. CanRead /\ nodes' = ns /\ open' = Append(open, n)
  BY DEF OpenGroup
<1>2. /\ Document(ns) /\ Len(ns) = n /\ n \in Ids /\ ns[n] = Elem("group")
  BY <1>1, BeginsThere
<1>3. /\ nodes \in Seq(Applier) /\ Len(nodes) \in Nat /\ Document(nodes)
      /\ open \in Seq(Ids) /\ Len(open) \in Nat
  BY LenProperties DEF GInv, TypeOK, Decoded, Document
<1>4. n \in 1..n
  BY <1>3
<1>5. ns[n] \in Applier
  BY <1>2, <1>4, ElementOfSeq DEF Document
<1>6. \A k \in 1..Len(nodes) : ns[k] = nodes[k]
  BY <1>2, <1>3, <1>5, AppendProperties
<1>7. /\ Len(open') = Len(open) + 1 /\ open'[Len(open) + 1] = n
      /\ \A i \in 1..Len(open) : open'[i] = open[i]
  BY <1>1, <1>2, <1>3, AppendProperties
<1> HIDE DEF ns
<1> SUFFICES ASSUME NEW g \in 1..n, ns[g].kind = "group"
             PROVE  IF IsOpen(open', g) THEN ns[g].errorPolicy = ns[g].stated
                    ELSE /\ ns[g].parent # 0 => ns[ns[g].parent].elements # 0
                         /\ ns[g].errorPolicy = OneLevel(ns, g)
  BY <1>1, <1>2 DEF Inheriting
<1>8. CASE g = n
  <2>1. IsOpen(open', g)
    BY <1>3, <1>7, <1>8 DEF IsOpen
  <2>2. Elem("group").errorPolicy = Elem("group").stated
    BY DEF Elem
  <2> QED
    BY <1>2, <1>8, <2>1, <2>2
<1>9. CASE g # n
  <2>1. g \in 1..Len(nodes) /\ ns[g] = nodes[g] /\ nodes[g].kind = "group"
    BY <1>3, <1>6, <1>9
  <2>2. IsOpen(open, g) <=> IsOpen(open', g)
    BY <1>3, <1>7, <1>9 DEF IsOpen
  <2>3. CASE IsOpen(open, g)
    BY <2>1, <2>2, <2>3 DEF Inheriting
  <2>4. CASE ~IsOpen(open, g)
    <3>1. /\ nodes[g].parent # 0 => nodes[nodes[g].parent].elements # 0
          /\ nodes[g].errorPolicy = OneLevel(nodes, g)
      BY <2>1, <2>4 DEF Inheriting
    <3>2. nodes[g].parent # 0 => nodes[g].parent \in 1..Len(nodes)
      BY <1>3, <2>1, DocumentOf
    <3>3. nodes[g].parent # 0 => ns[nodes[g].parent] = nodes[nodes[g].parent]
      BY <1>6, <3>2
    <3> QED
      BY <2>1, <2>2, <2>4, <3>1, <3>3 DEF OneLevel
  <2> QED
    BY <2>3, <2>4
<1> QED
  BY <1>8, <1>9

LEMMA InheritingAnEnd ==
  ASSUME GInv, Ordered, Inheriting(nodes, open), CloseGroup
  PROVE  Inheriting(nodes, open)'
<1> DEFINE g == Last(open)
           p == nodes[g].parent
           decoded == IF nodes[g].errorPolicy = "" /\ p # 0
                      THEN [nodes EXCEPT ![g].errorPolicy = nodes[p].errorPolicy]
                      ELSE nodes
           m == Len(open)
<1>1. /\ open # <<>> /\ nodes' = AddTo(decoded, p, g) /\ open' = Front(open)
  BY DEF CloseGroup
<1> HIDE DEF g, p, decoded
<1>2. /\ Document(nodes) /\ Len(nodes) \in Nat /\ open \in Seq(Ids)
      /\ nodes \in Seq(Applier) /\ Opened(nodes, open) /\ Groups(nodes, open)
  BY LenProperties DEF GInv, TypeOK, Decoded, Ordered, InOrder, Document
<1>3. /\ Len(open') = m - 1 /\ m \in Nat /\ m \in 1..m
      /\ \A i \in 1..m - 1 : open'[i] = open[i]
      /\ g = open[m] /\ g \in Ids
  BY <1>1, <1>2, FrontOf, LenProperties, ElementOfSeq DEF g
<1>4. \A i \in 1..m : open[i] \in 1..Len(nodes) /\ nodes[open[i]].kind = "group"
  BY <1>2 DEF GInv, Decoded, Child, Groups
<1>5. p = IF m = 1 THEN 0 ELSE open[m - 1]
  BY <1>2, <1>3 DEF Opened, p
<1>6. \A i \in 1..m - 1 : open[i] < g
  BY <1>2, <1>3 DEF Opened
<1> HIDE DEF m
<1>7. g \in 1..Len(nodes) /\ nodes[g].kind = "group" /\ IsOpen(open, g)
  BY <1>3, <1>4 DEF IsOpen, m
<1>8. p # 0 => /\ p \in 1..Len(nodes) /\ nodes[p].kind = "group"
               /\ IsOpen(open, p) /\ p < g
  <2> SUFFICES ASSUME p # 0
               PROVE  /\ p \in 1..Len(nodes) /\ nodes[p].kind = "group"
                      /\ IsOpen(open, p) /\ p < g
    OBVIOUS
  <2>1. m - 1 \in 1..m /\ m - 1 \in 1..m - 1 /\ p = open[m - 1]
    BY <1>3, <1>5
  <2> QED
    BY <1>4, <1>6, <2>1 DEF IsOpen, m
<1>9. /\ nodes[g].errorPolicy = nodes[g].stated
      /\ p # 0 => nodes[p].errorPolicy = nodes[p].stated
  BY <1>7, <1>8 DEF Inheriting
<1>10. /\ decoded \in Seq(Applier) /\ Len(decoded) = Len(nodes)
       /\ decoded[g].errorPolicy = OneLevel(nodes, g)
       /\ decoded[g].stated = nodes[g].stated
       /\ decoded[g].kind = "group" /\ decoded[g].parent = p
       /\ decoded[g].elements = nodes[g].elements
       /\ \A k \in 1..Len(nodes) : k # g => decoded[k] = nodes[k]
  <2>1. CASE nodes[g].errorPolicy = "" /\ p # 0
    <3>1. nodes[g] \in Applier /\ nodes[p] \in Applier
      BY <1>2, <1>7, <1>8, <2>1, ElementOfSeq
    <3>2. PICK elem : elem = [nodes[g] EXCEPT !.errorPolicy = nodes[p].errorPolicy]
      OBVIOUS
    <3>3. /\ elem \in Applier /\ elem.kind = nodes[g].kind
          /\ elem.parent = nodes[g].parent /\ elem.stated = nodes[g].stated
          /\ elem.errorPolicy = nodes[p].errorPolicy
          /\ elem.elements = nodes[g].elements
      BY <3>1, <3>2 DEF Applier
    <3>4. decoded = [nodes EXCEPT ![g] = elem]
      BY <2>1, <3>1, <3>2 DEF decoded
    <3>5. /\ decoded \in Seq(Applier) /\ Len(decoded) = Len(nodes)
          /\ \A k \in 1..Len(nodes) :
               decoded[k] = IF k = g THEN elem ELSE nodes[k]
      BY <1>2, <1>7, <3>3, <3>4, ExceptSeq
    <3>6. OneLevel(nodes, g) = nodes[p].stated
      BY <1>9, <2>1 DEF OneLevel, p
    <3> QED
      BY <1>7, <1>9, <2>1, <3>3, <3>5, <3>6 DEF p
  <2>2. CASE ~(nodes[g].errorPolicy = "" /\ p # 0)
    <3>1. decoded = nodes
      BY <2>2 DEF decoded
    <3>2. OneLevel(nodes, g) = nodes[g].stated
      BY <1>9, <2>2 DEF OneLevel, p
    <3> QED
      BY <1>2, <1>7, <1>9, <3>1, <3>2 DEF p
  <2> QED
    BY <2>1, <2>2
<1>11. p \in 0..Len(decoded)
  BY <1>2, <1>8, <1>10
<1>12. /\ \A k \in 1..Len(nodes) : SamePolicy(decoded[k], nodes'[k])
       /\ p # 0 => nodes'[p].elements # 0
  BY <1>1, <1>3, <1>10, <1>11, AddedPolicies
<1>13. Len(nodes') = Len(nodes)
  <2>1. CASE p = 0
    BY <1>1, <1>10, <2>1 DEF AddTo
  <2>2. CASE p # 0
    BY <1>1, <1>10, <2>2, LenProperties DEF AddTo
  <2> QED
    BY <2>1, <2>2
<1> SUFFICES ASSUME NEW h \in 1..Len(nodes), nodes'[h].kind = "group"
             PROVE  IF IsOpen(open', h) THEN nodes'[h].errorPolicy = nodes'[h].stated
                    ELSE /\ nodes'[h].parent # 0
                              => nodes'[nodes'[h].parent].elements # 0
                         /\ nodes'[h].errorPolicy = OneLevel(nodes', h)
  BY <1>13 DEF Inheriting
<1>14. \A k \in 1..Len(nodes) : k # g => SamePolicy(nodes[k], nodes'[k])
  BY <1>10, <1>12
<1>15. CASE h = g
  <2>1. ~IsOpen(open', g)
    BY <1>3, <1>6, <1>7 DEF IsOpen
  <2>2. nodes'[g].parent = p /\ nodes'[g].stated = nodes[g].stated
        /\ nodes'[g].errorPolicy = OneLevel(nodes, g)
    BY <1>7, <1>10, <1>12 DEF SamePolicy
  <2>3. p # 0 => nodes'[p].stated = nodes[p].stated
    <3> SUFFICES ASSUME p # 0 PROVE nodes'[p].stated = nodes[p].stated
      OBVIOUS
    <3>1. p # g
      BY <1>7, <1>8
    <3> QED
      BY <1>8, <1>14, <3>1 DEF SamePolicy
  <2>4. OneLevel(nodes', g) = OneLevel(nodes, g)
    BY <2>2, <2>3 DEF OneLevel, p
  <2> QED
    BY <1>12, <1>15, <2>1, <2>2, <2>4
<1>16. CASE h # g
  <2>1. SamePolicy(nodes[h], nodes'[h]) /\ nodes[h].kind = "group"
    BY <1>14, <1>16 DEF SamePolicy
  <2>2. IsOpen(open, h) <=> IsOpen(open', h)
    BY <1>3, <1>16 DEF IsOpen, m
  <2>3. CASE IsOpen(open, h)
    <3>1. nodes[h].errorPolicy = nodes[h].stated
      BY <2>1, <2>3 DEF Inheriting
    <3> QED
      BY <2>1, <2>2, <2>3, <3>1 DEF SamePolicy
  <2>4. CASE ~IsOpen(open, h)
    <3> DEFINE q == nodes[h].parent
    <3>1. /\ q # 0 => nodes[q].elements # 0
          /\ nodes[h].errorPolicy = OneLevel(nodes, h)
      BY <2>1, <2>4 DEF Inheriting
    <3>2. q # 0 => q \in 1..Len(nodes)
      BY <1>2, DocumentOf
    <3>3. q # 0 => /\ nodes'[q].stated = nodes[q].stated
                   /\ nodes'[q].elements # 0
      <4> SUFFICES ASSUME q # 0
                   PROVE  /\ nodes'[q].stated = nodes[q].stated
                          /\ nodes'[q].elements # 0
        OBVIOUS
      <4>1. CASE q # g
        BY <1>14, <3>1, <3>2, <4>1 DEF SamePolicy
      <4>2. CASE q = g
        BY <1>7, <1>10, <1>12, <3>1, <4>2 DEF SamePolicy
      <4> QED
        BY <4>1, <4>2
    <3>4. nodes'[h].parent = q
      BY <2>1 DEF SamePolicy
    <3>5. OneLevel(nodes', h) = OneLevel(nodes, h)
      BY <2>1, <3>3, <3>4 DEF OneLevel, SamePolicy
    <3> QED
      BY <2>1, <2>2, <2>4, <3>1, <3>3, <3>4, <3>5 DEF SamePolicy
  <2> QED
    BY <2>3, <2>4
<1> QED
  BY <1>15, <1>16

LEMMA PolicyInvariance == Spec => []Inheriting(nodes, open)
<1>1. Init => Inheriting(nodes, open)
  BY EmptySeq DEF Init, Inheriting
<1>2. GInv /\ Ordered /\ Inheriting(nodes, open) /\ [Next]_vars
        => Inheriting(nodes, open)'
  <2> SUFFICES ASSUME GInv, Ordered, Inheriting(nodes, open), [Next]_vars
               PROVE  Inheriting(nodes, open)'
    OBVIOUS
  <2>1. ASSUME UNCHANGED <<nodes, open>> PROVE Inheriting(nodes, open)'
    BY <2>1 DEF Inheriting, IsOpen, OneLevel
  <2>2. CASE ReadNull
    BY <2>2, InheritingANode DEF ReadNull
  <2>3. CASE ReadObject
    BY <2>1, <2>3, InheritingANode DEF ReadObject, Refuse, ResourceKinds
  <2>4. CASE ReadConfig
    BY <2>1, <2>4, InheritingAConfig DEF ReadConfig, Refuse
  <2>5. CASE OpenGroup
    BY <2>5, InheritingAGroup
  <2>6. CASE CloseGroup
    BY <2>6, InheritingAnEnd
  <2> QED
    BY <2>1, <2>2, <2>3, <2>4, <2>5, <2>6 DEF Next, DefaultNamespaces,
       ApplyNothing, ApplyObject, EnterGroup, LeaveGroup, decoding, vars
<1> QED
  BY <1>1, <1>2, Invariance, OrderInvariance, PTL DEF Spec

------------------------------------------------------------------------------
(* The theorems *)

\* The tree of Appliers, the activations of Apply and the errors have their
\* types, whatever the size and the nesting of the document.
THEOREM TypeCorrect == Spec => []TypeOK
<1>1. GInv => TypeOK
  BY DEF GInv
<1> QED
  BY <1>1, Invariance, PTL

\* What the call of Apply for the root returns names every object the API
\* server refused, and nothing else.
THEOREM ReportsAll == Spec => []ReportsEveryFailure
<1>1. GInv => ReportsEveryFailure
  BY DEF GInv, Reported, ReportsEveryFailure
<1> QED
  BY <1>1, Invariance, PTL

\* "Abort" stops at the first error and "Continue" goes on, at every level of a
\* document nested in any way: Apply sends, in the order of the document, every
\* object but those that come after one that failed, where the innermost group
\* of both aborts.
THEOREM StopsThere == Spec => []StopsWhereItShould
<1>1. GInv /\ Ordered /\ Decided => StopsWhereItShould
  <2> SUFFICES ASSUME GInv, Ordered, Decided, phase = "applied"
               PROVE  /\ InDocumentOrder
                      /\ Range(attempted) = {n \in DOMAIN nodes :
                           nodes[n].kind \in ResourceKinds /\ ~LeftOut(n)}
    BY DEF StopsWhereItShould
  <2>1. DOMAIN nodes = 1..Len(nodes)
    BY DocumentComplete, CompleteOf
  <2>2. \A n \in Range(attempted) : n \in Objects /\ ~LeftOut(n)
    BY DEF Decided, Sent
  <2>3. \A n \in Objects : ~LeftOut(n) => n \in Range(attempted)
    BY DEF Decided
  <2> QED
    BY <2>1, <2>2, <2>3 DEF Decided, Sent, Objects
<1> QED
  BY <1>1, Invariance, OrderInvariance, DecisionInvariance, PTL

\* What reconcile makes of the result: without an error every object of the
\* document was sent and accepted, with one some object was not.  It is all that
\* ControllerManager uses of Apply.
AppliedInFull ==
  phase = "applied" =>
    (result = {} <=> /\ failed = {}
                     /\ Range(attempted) = {n \in DOMAIN nodes :
                                             nodes[n].kind \in ResourceKinds})
THEOREM NoErrorMeansApplied == Spec => []AppliedInFull
<1>1. StopsWhereItShould /\ ReportsEveryFailure => AppliedInFull
  BY DEF StopsWhereItShould, ReportsEveryFailure, AppliedInFull, LeftOut
<1> QED
  BY <1>1, StopsThere, ReportsAll, PTL

\* What a group inherits is what the group right around it states, in documents
\* of any size nested in any way.
THEOREM InheritsFromAround == Spec => []InheritsOneLevel
<1>1. GInv /\ Ordered /\ Inheriting(nodes, open) => InheritsOneLevel
  <2> SUFFICES ASSUME GInv, Ordered, Inheriting(nodes, open), phase = "walk",
                      NEW g \in DOMAIN nodes, nodes[g].kind = "group"
               PROVE  nodes[g].errorPolicy = OneLevel(nodes, g)
    BY DEF InheritsOneLevel, OneLevel
  <2>1. g \in 1..Len(nodes)
    BY LenProperties DEF GInv, TypeOK
  <2>2. ~IsOpen(open, g)
    BY EmptySeq DEF Ordered, IsOpen
  <2> QED
    BY <2>1, <2>2 DEF Inheriting
<1> QED
  BY <1>1, Invariance, OrderInvariance, PolicyInvariance, PTL

=============================================================================
