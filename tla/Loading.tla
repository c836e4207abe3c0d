------------------------------ MODULE Loading ------------------------------
(***************************************************************************)
(* Starting with plugins: PluginManager.load_plugins first orders those    *)
(* that are configured (PluginOrder) and then loads them in that order     *)
(* (Plugins, where they are Boot).                                         *)
(***************************************************************************)
EXTENDS Plugins

CONSTANTS
  Found,    \* plugins that scan() found
  MaxList   \* bound: length of the configured list

ASSUME FoundAssumption == Name \subseteq Found

VARIABLES listed, dependsOn, mismatch, toLoad, loadOrder, hasLoaded, x

orderVars == <<listed, dependsOn, mismatch, toLoad, loadOrder, hasLoaded, x>>
loadingVars == <<vars, orderVars>>

Order == INSTANCE PluginOrder WITH Name <- Found

LoadingInit == Init /\ Order!Init

\* What Plugins has as its constants came out of the ordering.  A bound: of
\* the lists that have the same result, only the list that is in order already
\* is gone on with.
Starts ==
  /\ Order!Ended /\ toLoad = <<>> /\ mismatch = {}
  /\ listed = Boot /\ loadOrder = Boot
  /\ \A n \in Found : dependsOn[n] = IF n \in Name THEN DependsOn[n] ELSE {}

LoadingNext ==
  \/ Order!Next /\ UNCHANGED vars
  \/ Starts /\ Next /\ UNCHANGED orderVars

LoadingSpec == LoadingInit /\ [][LoadingNext]_loadingVars

-----------------------------------------------------------------------------
(***************************************************************************)
(* Properties of the order in which plugins are loaded.                    *)
(***************************************************************************)
\* Every plugin comes after all its dependencies, in versions it accepts.
DependenciesComeFirst ==
  \A i \in DOMAIN loadOrder : \A d \in dependsOn[loadOrder[i]] :
    /\ <<loadOrder[i], d>> \notin mismatch
    /\ \E j \in 1..i - 1 : loadOrder[j] = d

Listed == {listed[i] : i \in DOMAIN listed}

\* What n depends on, directly or not: whatever is in every set that holds the
\* dependencies of n and those of its own members.
Below(n) ==
  {d \in Found : \A C \in SUBSET Found :
     dependsOn[n] \subseteq C /\ (\A m \in C : dependsOn[m] \subseteq C) => d \in C}

\* A plugin can be loaded if it and everything it depends on, directly or not,
\* is listed, has its versions and does not depend on itself.
Loadable ==
  {n \in Listed :
     \A m \in {n} \cup Below(n) :
       /\ m \in Listed
       /\ m \notin Below(m)
       /\ \A d \in dependsOn[m] : <<m, d>> \notin mismatch}

\* The passes end with every plugin that can be loaded in the order, as often
\* as it was listed, and no other, however many passes that takes.
FindsAllLoadable ==
  Order!Ended => /\ Order!Ordered = Loadable
                 /\ Len(loadOrder) + Len(toLoad) = Len(listed)
                 /\ \A n \in Loadable : \A i \in DOMAIN toLoad : toLoad[i].plugin # n
=============================================================================
