-------------------------- MODULE PermissionsProps --------------------------
(* Properties of Permissions: what check() answers, by the graph of the    *)
(* inheritance, and what one edit may do to it.                            *)
EXTENDS Permissions

Caller == Account \cup {Nothing}
Spot == Protocol \X (Source \cup {Nothing})

\* What caller a may do at spot w.
May(a, w) == {perm \in Perm : Check(perm, a, w[1], w[2])}

\* At protocol p, group g inherits from h: an empty section at g hides it.
Inherits(p, g, h) ==
  /\ groups[g] # Nothing /\ groups[h] # Nothing
  /\ {Everywhere, p} \cap groups[g].empty = {}
  /\ groups[g].inherit = h

\* The groups a permission of g may come from: those that exist and are in
\* every set that holds g and, with a group, the one it inherits from.
Sources(p, g) ==
  {h \in Group :
     /\ groups[h] # Nothing
     /\ \A C \in SUBSET Group :
          /\ g \in C
          /\ \A f \in C : \A k \in Group : Inherits(p, f, k) => k \in C
          => h \in C}

Named(deny, nodes) == UNION {n.covers : n \in {m \in nodes : m.deny = deny}}
Allowed(nodes) == Named(FALSE, nodes) \ Named(TRUE, nodes)
Said(g, p, s) == UNION {NodesOf(h, p, s) : h \in Sources(p, g)}

\* What the account's own entry gives it at protocol p.
Own(a, p) ==
  IF a = Nothing \/ users[a] = Nothing THEN {}
  ELSE IF UseSuperuser /\ users[a].superadmin THEN Perm
  ELSE Allowed(users[a].at[Everywhere] \cup users[a].at[p])

\* check() grants what the inheritance graph says: whatever the cycles, the
\* missing groups and the empty sections in it, it looks at every group it
\* should and at no other, and a denial anywhere among them is not outvoted.
AnswersFollowTheGraph ==
  \A a \in Caller, w \in Spot :
    May(a, w) =
      Own(a, w[1]) \cup
      UNION {Allowed(Said(g, w[1], w[2])) : g \in {GroupOf(a)} \cup ExtraGroups(a, w[1], w[2])}

\* Taking a permission from a group, or denying it one, gives nobody anything,
\* whatever the group inherits and whoever inherits from it; giving it one, or
\* taking a denial away, takes nothing from anybody.
Lessens(g, n) == IF n.deny THEN AddGroupPermission(g, n) ELSE RemoveGroupPermission(g, n)
Widens(g, n) == IF n.deny THEN RemoveGroupPermission(g, n) ELSE AddGroupPermission(g, n)
EditsAreMonotone ==
  [][\A g \in Group, n \in Node :
       /\ Lessens(g, n) => \A b \in Caller, w \in Spot : May(b, w)' \subseteq May(b, w)
       /\ Widens(g, n) => \A b \in Caller, w \in Spot : May(b, w) \subseteq May(b, w)']_vars
=============================================================================
