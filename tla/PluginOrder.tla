---------------------------- MODULE PluginOrder ----------------------------
(***************************************************************************)
(* The order in which PluginManager.load_plugins loads the configured      *)
(* plugins: passes over the plugins left, backwards so that it can delete  *)
(* from the list, each moving the plugins whose dependencies have all been *)
(* met to the load order, until a pass moves none.                         *)
(***************************************************************************)
EXTENDS Sequences, Naturals

CONSTANTS
  Name,      \* plugins that scan() found
  MaxList    \* bound: length of the configured list

VARIABLES
  listed,     \* the configured list; a name may occur twice
  dependsOn,  \* info.dependencies of each plugin
  mismatch,   \* <<n, d>>: d's version does not satisfy n's dependency on it
  toLoad,     \* plugins still to order, with their unmet dependencies
  loadOrder,  \* the order found so far
  hasLoaded,  \* whether this pass has moved a plugin
  x           \* the loop's index, from Len(toLoad) down; 0 between passes

vars == <<listed, dependsOn, mismatch, toLoad, loadOrder, hasLoaded, x>>

Lists == UNION {[1..k -> Name] : k \in 0..MaxList}

TypeOK ==
  /\ listed \in Lists
  /\ dependsOn \in [Name -> SUBSET Name]
  /\ mismatch \subseteq Name \X Name
  /\ toLoad \in Seq([plugin : Name, deps : SUBSET Name])
  /\ loadOrder \in Seq(Name)
  /\ hasLoaded \in BOOLEAN
  /\ x \in 0..Len(toLoad)

Init ==
  /\ listed \in Lists
  /\ dependsOn \in [Name -> SUBSET Name]
  /\ mismatch \in {{}} \cup {{pair} : pair \in {m \in Name \X Name : m[2] \in dependsOn[m[1]]}}
  /\ toLoad = [i \in DOMAIN listed |->
                 [plugin |-> listed[i], deps |-> dependsOn[listed[i]]]]
  /\ loadOrder = <<>>
  /\ hasLoaded = TRUE
  /\ x = 0

Ordered == {loadOrder[i] : i \in DOMAIN loadOrder}

\* Faulty variants named ...Bug are used by the mutants of PROJECT.json only.
IgnoresVersionBug(e) == e.deps \ Ordered

\* The dependencies of entry e that the load order does not meet yet.
Unmet(e) == {d \in e.deps : d \notin Ordered \/ <<e.plugin, d>> \in mismatch}

StartPass ==
  /\ x = 0 /\ hasLoaded /\ toLoad # <<>>
  /\ x' = Len(toLoad)
  /\ hasLoaded' = FALSE
  /\ UNCHANGED <<listed, dependsOn, mismatch, toLoad, loadOrder>>

ForgetsProgressBug ==
  /\ x > 0
  /\ x' = x - 1
  /\ LET e == toLoad[x]
     IN IF Unmet(e) = {}
        THEN /\ loadOrder' = Append(loadOrder, e.plugin)
             /\ toLoad' = SubSeq(toLoad, 1, x - 1) \o SubSeq(toLoad, x + 1, Len(toLoad))
             /\ hasLoaded' = TRUE
        ELSE /\ toLoad' = [toLoad EXCEPT ![x].deps = Unmet(e)]
             /\ hasLoaded' = FALSE
             /\ UNCHANGED loadOrder
  /\ UNCHANGED <<listed, dependsOn, mismatch>>

\* The body of the loop.
Examine ==
  /\ x > 0
  /\ x' = x - 1
  /\ LET e == toLoad[x]
     IN IF Unmet(e) = {}
        THEN /\ loadOrder' = Append(loadOrder, e.plugin)
             /\ toLoad' = SubSeq(toLoad, 1, x - 1) \o SubSeq(toLoad, x + 1, Len(toLoad))
             /\ hasLoaded' = TRUE
        ELSE /\ toLoad' = [toLoad EXCEPT ![x].deps = Unmet(e)]
             /\ UNCHANGED <<loadOrder, hasLoaded>>
  /\ UNCHANGED <<listed, dependsOn, mismatch>>

Next == StartPass \/ Examine

Spec == Init /\ [][Next]_vars

Ended == x = 0 /\ (~hasLoaded \/ toLoad = <<>>)
=============================================================================
