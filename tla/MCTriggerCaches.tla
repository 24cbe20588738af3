---------------------------- MODULE MCTriggerCaches ----------------------------
(* Small instances of TriggerCaches for TLC. *)
EXTENDS TriggerCaches

\* One object in the namespace of the ManagedResource, one in another.
MCObjects == {[namespace |-> "own", name |-> "x"],
              [namespace |-> "other", name |-> "y"]}

\* Everything that is labelled; what is not ignored; all of the own namespace
\* with one of two names.
All == [name |-> "", namespace |-> "", match |-> {}, ignore |-> {},
        label |-> FALSE]
Labelled == [All EXCEPT !.label = TRUE]
NotX == [All EXCEPT !.ignore = {"x"}]
Own == [All EXCEPT !.namespace = "unset", !.match = {"x", "y"}]
MCDefinitions == {Labelled, NotX, Own}

\* A trigger that watches the context, an interval, and a trigger that watches
\* something of its own.
MCSpecs ==
  {[context |-> Labelled,
    trigger |-> [interval |-> i, shared |-> ~i, watch |-> Labelled]] :
      i \in BOOLEAN}
  \cup {[context |-> NotX,
         trigger |-> [interval |-> FALSE, shared |-> FALSE, watch |-> Own]]}

\* One object is there and labelled.
MCClusters ==
  {[o \in MCObjects |-> [exists |-> o.name = "x", label |-> o.name = "x",
                         version |-> 1]]}

=============================================================================
