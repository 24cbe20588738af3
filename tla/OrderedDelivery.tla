--------------------------- MODULE OrderedDelivery ---------------------------
(***************************************************************************)
(* What Espejote promises the users of a ManagedResource, without saying   *)
(* how: at any time at most one instance is in charge of it, only that one *)
(* delivers to the cluster, and what it delivers is a spec the user did    *)
(* write and never an older one than was delivered before.                 *)
(***************************************************************************)
EXTENDS Naturals

CONSTANTS Keys, Insts, NoInst

VARIABLES
  latest,    \* the version of each key's spec the API server holds
  owner,     \* the instance in charge of each key
  delivered  \* the version delivered last, and by which instance

vars == <<latest, owner, delivered>>

Version == [uid : Nat, gen : Nat]
Delivery == [by : Insts \cup {NoInst}, uid : Nat, gen : Nat]

\* Incarnations (uid) first, then generations within one.
NotOlder(a, b) == a.uid < b.uid \/ (a.uid = b.uid /\ a.gen <= b.gen)

Init ==
  /\ latest \in [Keys -> Version]
  /\ owner = [k \in Keys |-> NoInst]
  /\ delivered = [k \in Keys |-> [by |-> NoInst, uid |-> 0, gen |-> 0]]

\* f changes at k only, to a member of S.
ChangesAt(f, fNext, k, S) ==
  fNext[k] \in S /\ fNext = [f EXCEPT ![k] = fNext[k]]

Edit(k) ==
  /\ ChangesAt(latest, latest', k, Version)
  /\ NotOlder(latest[k], latest'[k])
  /\ UNCHANGED <<owner, delivered>>

Appoint(k) ==
  /\ owner[k] = NoInst
  /\ ChangesAt(owner, owner', k, Insts)
  /\ UNCHANGED <<latest, delivered>>

Dismiss(k) ==
  /\ owner' = [owner EXCEPT ![k] = NoInst]
  /\ UNCHANGED <<latest, delivered>>

Deliver(k) ==
  /\ ChangesAt(delivered, delivered', k, Delivery)
  /\ delivered'[k].by = owner[k] /\ owner[k] \in Insts
  /\ NotOlder(delivered[k], delivered'[k])
  /\ NotOlder(delivered'[k], latest[k])
  /\ UNCHANGED <<latest, owner>>

Next == \E k \in Keys : Edit(k) \/ Appoint(k) \/ Dismiss(k) \/ Deliver(k)

Spec == Init /\ [][Next]_vars

=============================================================================
