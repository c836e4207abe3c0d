------------------------- MODULE PermissionsProofs -------------------------
(* Proofs about Permissions for every set of permissions, groups, accounts, *)
(* protocols and channels, every file and any number of edits.              *)
EXTENDS PermissionsProps, FiniteSetTheorems, WellFoundedInduction, TLAPS

-----------------------------------------------------------------------------
(* Types *)

\* Nodes put at one place of an entry.
LEMMA AtType ==
  ASSUME NEW place \in Place, NEW S \in SUBSET Node
  PROVE  At(place, S) \in [Place -> SUBSET Node]
  BY DEF At, Bare

\* What create_group and create_user make is an entry.
LEMMA NewTypes == NewGroup \in GroupEntry /\ NewUser \in UserEntry
  BY GroupAssumption DEF NewGroup, NewUser, GroupEntry, UserEntry, Bare

\* __init__ makes of a file that can be loaded one that can be loaded.
LEMMA LoadedType ==
  ASSUME NEW file \in Files
  PROVE  Loaded(file).groups \in Groups /\ Loaded(file).users \in Users
<1>1. file.groups \in Groups /\ file.users \in Users /\ file \in [groups : Groups, users : Users]
  BY FilesAssumption
<1>2. At(Everywhere, DefaultNodes) \in [Place -> SUBSET Node]
  BY AtType, GroupAssumption DEF Place
<1>3. [NewGroup EXCEPT !.at = At(Everywhere, DefaultNodes)] \in GroupEntry
  BY <1>2, NewTypes DEF GroupEntry
<1>4. CASE \A g \in Group : file.groups[g] = Nothing
  <2> DEFINE filled == [NewGroup EXCEPT !.at = At(Everywhere, DefaultNodes)]
  <2>1. Loaded(file) = [file EXCEPT !.groups[Default] = filled]
    BY <1>4 DEF Loaded
  <2>2. filled \in GroupEntry
    BY <1>3
  <2> HIDE DEF filled
  <2>3. Loaded(file).groups = [file.groups EXCEPT ![Default] = filled]
    BY <2>1, <1>1
  <2>4. Loaded(file).users = file.users
    BY <2>1, <1>1
  <2> QED
    BY <2>2, <2>3, <2>4, <1>1, GroupAssumption DEF Groups
<1>5. CASE ~\A g \in Group : file.groups[g] = Nothing
  BY <1>1, <1>5 DEF Loaded
<1> QED
  BY <1>4, <1>5

\* The state after loading is typed.
LEMMA InitTypes == Init => TypeOK
  BY LoadedType, EditsAssumption DEF Init, TypeOK

\* An edit that puts an entry in the place of an account's keeps the types.
LEMMA SetUserTypes ==
  ASSUME TypeOK, Edit, NEW a \in Account, NEW entry \in UserEntry \cup {Nothing}, SetUser(a, entry)
  PROVE  TypeOK'
  BY EditsAssumption DEF TypeOK, Edit, SetUser, Users

\* The same, of a group's entry.
LEMMA SetGroupTypes ==
  ASSUME TypeOK, Edit, NEW g \in Group, NEW entry \in GroupEntry \cup {Nothing}, SetGroup(g, entry)
  PROVE  TypeOK'
  BY EditsAssumption DEF TypeOK, Edit, SetGroup, Groups

\* So does an edit that is refused.
LEMMA RefuseTypes ==
  ASSUME TypeOK, Edit, NEW r \in {"False", "error"}, Refuse(r)
  PROVE  TypeOK'
  BY EditsAssumption DEF TypeOK, Edit, Refuse

\* The entry of an account that has been created.
LEMMA UserEntryType ==
  ASSUME TypeOK, NEW a \in Account, users[a] # Nothing
  PROVE  users[a] \in UserEntry
  BY DEF TypeOK, Users

\* The entry of a group that has been created.
LEMMA GroupEntryType ==
  ASSUME TypeOK, NEW g \in Group, groups[g] # Nothing
  PROVE  groups[g] \in GroupEntry
  BY DEF TypeOK, Groups

\* What an addition at one protocol leaves of an account's permissions.
LEMMA OnlyAtType ==
  ASSUME TypeOK, NEW a \in Account, users[a] # Nothing, NEW place \in Place, NEW S \in SUBSET Node
  PROVE  OnlyAt(a, place, S) \in [Place -> SUBSET Node]
<1>1. users[a].at \in [Place -> SUBSET Node] /\ Everywhere \in Place
  BY UserEntryType DEF UserEntry, Place
<1> QED
  BY <1>1, AtType DEF OnlyAt

\* With other permissions the entry of an account is an entry.
LEMMA UserAtType ==
  ASSUME TypeOK, NEW a \in Account, users[a] # Nothing, NEW at \in [Place -> SUBSET Node]
  PROVE  [users[a] EXCEPT !.at = at] \in UserEntry
  BY UserEntryType DEF UserEntry

\* Operations on accounts keep the types.
LEMMA EditUserTypes ==
  ASSUME TypeOK, NEW a \in Account, EditUser(a)
  PROVE  TypeOK'
<1>1. CASE CreateUser(a)
  BY <1>1, SetUserTypes, RefuseTypes, NewTypes DEF CreateUser
<1>2. CASE RemoveUser(a)
  BY <1>2, SetUserTypes, RefuseTypes DEF RemoveUser
<1>3. ASSUME NEW b \in BOOLEAN, SetUserOption(a, b) PROVE TypeOK'
  <2>1. CASE users[a] # Nothing
    <3>1. [users[a] EXCEPT !.superadmin = b] \in UserEntry
      BY <2>1, UserEntryType DEF UserEntry
    <3> QED
      BY <1>3, <2>1, <3>1, SetUserTypes DEF SetUserOption
  <2>2. CASE users[a] = Nothing
    BY <1>3, <2>2, RefuseTypes DEF SetUserOption
  <2> QED
    BY <2>1, <2>2
<1>4. ASSUME NEW g \in Group, SetUserGroup(a, g) PROVE TypeOK'
  <2>1. CASE users[a] # Nothing
    <3>1. [users[a] EXCEPT !.group = g] \in UserEntry
      BY <2>1, UserEntryType DEF UserEntry
    <3> QED
      BY <1>4, <2>1, <3>1, SetUserTypes DEF SetUserGroup
  <2>2. CASE users[a] = Nothing
    BY <1>4, <2>2, RefuseTypes DEF SetUserGroup
  <2> QED
    BY <2>1, <2>2
<1>5. ASSUME NEW n \in Node, NEW p \in Protocol \cup {Nothing}, NEW s \in Source \cup {Nothing},
             AddUserPermission(a, n, p, s)
      PROVE  TypeOK'
  <2>1. CASE users[a] = Nothing \/ p = Nothing
    BY <1>5, <2>1, RefuseTypes DEF AddUserPermission
  <2>2. CASE users[a] # Nothing /\ p # Nothing /\ s = Nothing
    <3>1. OnlyAt(a, p, {n}) \in [Place -> SUBSET Node]
      BY <2>2, OnlyAtType DEF Place
    <3> QED
      BY <1>5, <2>2, <3>1, UserAtType, SetUserTypes DEF AddUserPermission
  <2>3. CASE users[a] # Nothing /\ p # Nothing /\ s # Nothing
    <3> DEFINE S == IF <<n, s>> \in InName THEN {} ELSE {n}
    <3>1. OnlyAt(a, <<p, s>>, S) \in [Place -> SUBSET Node]
      BY <2>3, OnlyAtType DEF Place
    <3>2. [users[a] EXCEPT !.at = OnlyAt(a, <<p, s>>, S)] \in UserEntry
      BY <2>3, <3>1, UserAtType
    <3>3. /\ Edit
          /\ users' = [users EXCEPT ![a] = [users[a] EXCEPT !.at = OnlyAt(a, <<p, s>>, S)]]
          /\ answer' \in {"True", "False"} /\ groups' = groups
      BY <1>5, <2>3 DEF AddUserPermission
    <3> HIDE DEF S
    <3> QED
      BY <3>2, <3>3, EditsAssumption DEF TypeOK, Edit, Users
  <2> QED
    BY <2>1, <2>2, <2>3
<1>6. ASSUME NEW n \in Node, NEW p \in Protocol \cup {Nothing}, NEW s \in Source \cup {Nothing},
             RemoveUserPermission(a, n, p, s)
      PROVE  TypeOK'
  <2>1. CASE Edit /\ (Refuse("False") \/ Refuse("error"))
    BY <2>1, RefuseTypes
  <2>2. CASE ~(Edit /\ (Refuse("False") \/ Refuse("error")))
    <3>1. users[a] # Nothing /\ p \in Protocol
      BY <1>6, <2>2 DEF RemoveUserPermission
    <3>2. OnlyAt(a, p, {}) \in [Place -> SUBSET Node]
      BY <3>1, OnlyAtType DEF Place
    <3>3. [users[a] EXCEPT !.at = OnlyAt(a, p, {})] \in UserEntry
      BY <3>1, <3>2, UserAtType
    <3>4. /\ Edit
          /\ users' = [users EXCEPT ![a] = [users[a] EXCEPT !.at = OnlyAt(a, p, {})]]
          /\ answer' = "False" /\ groups' = groups
      BY <1>6, <2>2 DEF RemoveUserPermission
    <3> QED
      BY <3>3, <3>4, EditsAssumption DEF TypeOK, Edit, Users
  <2> QED
    BY <2>1, <2>2
<1> QED
  BY <1>1, <1>2, <1>3, <1>4, <1>5, <1>6 DEF EditUser

\* With other permissions the entry of a group is an entry.
LEMMA GroupNodesTypes ==
  ASSUME TypeOK, Edit, NEW g \in Group, groups[g] # Nothing, NEW S \in SUBSET Node, SetGroupNodes(g, S)
  PROVE  TypeOK'
<1>1. [groups[g] EXCEPT !.at[Everywhere] = S] \in GroupEntry
  BY GroupEntryType DEF GroupEntry, Place
<1> QED
  BY <1>1, SetGroupTypes DEF SetGroupNodes

\* A group's permissions.
LEMMA NodesType ==
  ASSUME TypeOK, NEW g \in Group, groups[g] # Nothing
  PROVE  groups[g].at[Everywhere] \in SUBSET Node
  BY GroupEntryType DEF GroupEntry, Place

\* Operations on groups keep the types.
LEMMA EditGroupTypes ==
  ASSUME TypeOK, NEW g \in Group, EditGroup(g)
  PROVE  TypeOK'
<1>1. CASE CreateGroup(g)
  BY <1>1, SetGroupTypes, RefuseTypes, NewTypes DEF CreateGroup
<1>2. CASE RemoveGroup(g)
  BY <1>2, SetGroupTypes, RefuseTypes DEF RemoveGroup
<1>3. ASSUME NEW h \in Group \cup {Nothing}, SetGroupInheritance(g, h) PROVE TypeOK'
  <2>1. CASE groups[g] # Nothing
    <3>1. [groups[g] EXCEPT !.inherit = h] \in GroupEntry
      BY <2>1, GroupEntryType DEF GroupEntry
    <3> QED
      BY <1>3, <2>1, <3>1, SetGroupTypes DEF SetGroupInheritance
  <2>2. CASE groups[g] = Nothing
    BY <1>3, <2>2, RefuseTypes DEF SetGroupInheritance
  <2> QED
    BY <2>1, <2>2
<1>4. ASSUME NEW n \in Node, AddGroupPermission(g, n) PROVE TypeOK'
  BY <1>4, GroupNodesTypes, NodesType, RefuseTypes DEF AddGroupPermission
<1>5. ASSUME NEW n \in Node, RemoveGroupPermission(g, n) PROVE TypeOK'
  BY <1>5, GroupNodesTypes, NodesType, RefuseTypes DEF RemoveGroupPermission, HasNode
<1> QED
  BY <1>1, <1>2, <1>3, <1>4, <1>5 DEF EditGroup

\* Every step keeps the types.
LEMMA StepTypes == TypeOK /\ [Next]_vars => TypeOK'
<1> SUFFICES ASSUME TypeOK, [Next]_vars PROVE TypeOK'
  OBVIOUS
<1>1. CASE Reload
  BY <1>1, FilesAssumption, EditsAssumption DEF Reload, Edit, TypeOK
<1>2. CASE UNCHANGED vars
  BY <1>2 DEF vars, TypeOK
<1> QED
  BY <1>1, <1>2, EditUserTypes, EditGroupTypes DEF Next

\* However often the file is edited, by the handler's operations and by hand,
\* every entry is one that check() can read.
THEOREM TypeCorrect == Spec => []TypeOK
  BY InitTypes, StepTypes, PTL DEF Spec

-----------------------------------------------------------------------------
(* Edits of a group are monotone *)

\* Permissions A give at least what permissions B give: every denial in A is
\* in B as well and every permission in B is in A as well.
Covers(A, B) ==
  /\ \A m \in A : m.deny => m \in B
  /\ \A m \in B : ~m.deny => m \in A

\* So whatever compare_permissions finds granted in B it finds granted in A.
LEMMA CoversGrants ==
  ASSUME NEW A, NEW B, Covers(A, B), NEW perm, Granted(perm, B)
  PROVE  Granted(perm, A)
  BY DEF Covers, Granted

\* A change of the permissions of group g leaves the users and the graph of
\* the inheritance as they are.
LEMMA SameGraph ==
  ASSUME TypeOK, NEW g \in Group, groups[g] # Nothing, NEW S \in SUBSET Node, SetGroupNodes(g, S)
  PROVE  /\ users' = users
         /\ \A h \in Group : (groups'[h] = Nothing) <=> (groups[h] = Nothing)
         /\ \A p \in Protocol : Parents(p)' = Parents(p)
<1> DEFINE e == [groups[g] EXCEPT !.at[Everywhere] = S]
<1>1. groups[g] \in GroupEntry
  BY GroupEntryType
<1>2. e \in GroupEntry /\ e.inherit = groups[g].inherit /\ e.empty = groups[g].empty
  BY <1>1 DEF GroupEntry, Place
<1>3. users' = users /\ groups' = [groups EXCEPT ![g] = e]
  BY DEF SetGroupNodes, SetGroup
<1> HIDE DEF e
<1>4. groups'[g] = e /\ \A h \in Group \ {g} : groups'[h] = groups[h]
  BY <1>3 DEF TypeOK, Groups
<1>5. e # Nothing
  BY <1>2, NothingAssumption
<1>6. ASSUME NEW p \in Protocol PROVE Parents(p)' = Parents(p)
  BY <1>2, <1>4, <1>5 DEF Parents
<1> QED
  BY <1>3, <1>4, <1>5, <1>6

\* The groups check() asks are group names.
LEMMA CallerGroups ==
  ASSUME TypeOK, NEW b \in Caller, NEW p \in Protocol, NEW s \in Source \cup {Nothing}
  PROVE  GroupOf(b) \in Group /\ ExtraGroups(b, p, s) \subseteq Group
<1>1. GroupOf(b) \in Group
  BY GroupAssumption DEF GroupOf, TypeOK, Users, UserEntry, Caller
<1>2. CASE s # Nothing
  <2>1. <<p, b, s>> \in Protocol \X (Account \cup {Nothing}) \X (Source \cup {Nothing})
    BY DEF Caller
  <2>2. Ranks[p, b, s] \subseteq Group
    BY <2>1, RanksAssumption
  <2> QED
    BY <1>1, <1>2, <2>2 DEF ExtraGroups
<1>3. CASE s = Nothing
  BY <1>1, <1>3 DEF ExtraGroups
<1> QED
  BY <1>2, <1>3

\* What the groups say of a place afterwards: the others what they said, and g
\* the new permissions instead of the old ones, with the same others.
LEMMA SameElsewhere ==
  ASSUME TypeOK, NEW g \in Group, groups[g] # Nothing, NEW S \in SUBSET Node, SetGroupNodes(g, S),
         NEW p \in Protocol, NEW s \in Source \cup {Nothing}
  PROVE  /\ \A h \in Group \ {g} : NodesOf(h, p, s)' = NodesOf(h, p, s)
         /\ \E rest : /\ NodesOf(g, p, s) = groups[g].at[Everywhere] \cup rest
                      /\ NodesOf(g, p, s)' = S \cup rest
<1> DEFINE e == [groups[g] EXCEPT !.at[Everywhere] = S]
<1>1. groups[g] \in GroupEntry
  BY GroupEntryType
<1>2. /\ e \in GroupEntry /\ e.empty = groups[g].empty
      /\ e.at[Everywhere] = S
      /\ \A place \in Place \ {Everywhere} : e.at[place] = groups[g].at[place]
  BY <1>1 DEF GroupEntry, Place
<1>3. groups' = [groups EXCEPT ![g] = e]
  BY DEF SetGroupNodes, SetGroup
<1> HIDE DEF e
<1>4. groups'[g] = e /\ \A h \in Group \ {g} : groups'[h] = groups[h]
  BY <1>3 DEF TypeOK, Groups
<1>5. e # Nothing
  BY <1>2, NothingAssumption
<1>6. \A h \in Group \ {g} : NodesOf(h, p, s)' = NodesOf(h, p, s)
  BY <1>4 DEF NodesOf
<1> DEFINE rest ==
      (IF Everywhere \in groups[g].empty THEN {} ELSE groups[g].at[p]) \cup
      (IF {Everywhere, p} \cap groups[g].empty # {} \/ s = Nothing THEN {} ELSE groups[g].at[<<p, s>>])
<1>7. NodesOf(g, p, s) = groups[g].at[Everywhere] \cup rest
  BY DEF NodesOf
<1>8. p \in Place \ {Everywhere} /\ (s # Nothing => <<p, s>> \in Place \ {Everywhere})
  BY PlaceAssumption DEF Place
<1>9. NodesOf(g, p, s)' = S \cup rest
  BY <1>2, <1>4, <1>5, <1>8 DEF NodesOf
<1> QED
  BY <1>6, <1>7, <1>9


\* Permissions that cover the old ones take nothing from anybody.
LEMMA WidenedGroup ==
  ASSUME TypeOK, NEW g \in Group, groups[g] # Nothing, NEW S \in SUBSET Node, SetGroupNodes(g, S),
         Covers(S, groups[g].at[Everywhere]), NEW b \in Caller, NEW w \in Spot
  PROVE  May(b, w) \subseteq May(b, w)'
<1> SUFFICES ASSUME NEW perm \in Perm, Check(perm, b, w[1], w[2])
             PROVE  Check(perm, b, w[1], w[2])'
  BY DEF May
<1> DEFINE p == w[1]
<1> DEFINE s == w[2]
<1>1. p \in Protocol /\ s \in Source \cup {Nothing}
  BY DEF Spot
<1>2. UserHas(b, perm, p)' = UserHas(b, perm, p) /\ GroupOf(b)' = GroupOf(b) /\ ExtraGroups(b, p, s)' = ExtraGroups(b, p, s)
  BY SameGraph DEF UserHas, GroupOf, ExtraGroups
<1>3. GroupOf(b) \in Group /\ ExtraGroups(b, p, s) \subseteq Group
  BY <1>1, CallerGroups
<1>4. ASSUME NEW h \in Group, GroupHas(h, perm, p, s) PROVE GroupHas(h, perm, p, s)'
  <2> DEFINE V == Visited(Parents(p), h)
  <2> DEFINE F == [x \in V |-> NodesOf(x, p, s)]
  <2> DEFINE G == [x \in V |-> NodesOf(x, p, s)']
  <2>1. V \subseteq Group
    BY DEF Visited
  <2>2. \A x \in V : Covers(G[x], F[x])
    BY <1>1, <2>1, SameElsewhere DEF Covers
  <2>3. Granted(perm, UNION {F[x] : x \in V})
    BY <1>4 DEF GroupHas
  <2>4. Granted(perm, UNION {G[x] : x \in V})
    <3> HIDE DEF F, G, V
    <3>1. Covers(UNION {G[x] : x \in V}, UNION {F[x] : x \in V})
      BY <2>2 DEF Covers
    <3> QED
      BY <2>3, <3>1, CoversGrants
  <2>5. Visited(Parents(p), h)' = V
    BY <1>1, SameGraph
  <2>6. groups'[h] # Nothing
    BY <1>4, SameGraph DEF GroupHas
  <2> QED
    BY <2>4, <2>5, <2>6 DEF GroupHas
<1> QED
  BY <1>2, <1>3, <1>4 DEF Check


\* Permissions that the old ones cover give nobody anything.
LEMMA NarrowedGroup ==
  ASSUME TypeOK, NEW g \in Group, groups[g] # Nothing, NEW S \in SUBSET Node, SetGroupNodes(g, S),
         Covers(groups[g].at[Everywhere], S), NEW b \in Caller, NEW w \in Spot
  PROVE  May(b, w)' \subseteq May(b, w)
<1> SUFFICES ASSUME NEW perm \in Perm, Check(perm, b, w[1], w[2])'
             PROVE  Check(perm, b, w[1], w[2])
  BY DEF May
<1> DEFINE p == w[1]
<1> DEFINE s == w[2]
<1>1. p \in Protocol /\ s \in Source \cup {Nothing}
  BY DEF Spot
<1>2. UserHas(b, perm, p)' = UserHas(b, perm, p) /\ GroupOf(b)' = GroupOf(b) /\ ExtraGroups(b, p, s)' = ExtraGroups(b, p, s)
  BY SameGraph DEF UserHas, GroupOf, ExtraGroups
<1>3. GroupOf(b) \in Group /\ ExtraGroups(b, p, s) \subseteq Group
  BY <1>1, CallerGroups
<1>4. ASSUME NEW h \in Group, GroupHas(h, perm, p, s)' PROVE GroupHas(h, perm, p, s)
  <2> DEFINE V == Visited(Parents(p), h)
  <2> DEFINE F == [x \in V |-> NodesOf(x, p, s)]
  <2> DEFINE G == [x \in V |-> NodesOf(x, p, s)']
  <2>1. V \subseteq Group
    BY DEF Visited
  <2>2. \A x \in V : Covers(F[x], G[x])
    BY <1>1, <2>1, SameElsewhere DEF Covers
  <2>3. Visited(Parents(p), h)' = V
    BY <1>1, SameGraph
  <2>4. Granted(perm, UNION {G[x] : x \in V})
    BY <1>4, <2>3 DEF GroupHas
  <2>5. Granted(perm, UNION {F[x] : x \in V})
    <3> HIDE DEF F, G, V
    <3>1. Covers(UNION {F[x] : x \in V}, UNION {G[x] : x \in V})
      BY <2>2 DEF Covers
    <3> QED
      BY <2>4, <3>1, CoversGrants
  <2>6. groups[h] # Nothing
    BY <1>4, SameGraph DEF GroupHas
  <2> QED
    BY <2>5, <2>6 DEF GroupHas
<1> QED
  BY <1>2, <1>3, <1>4 DEF Check

\* An edit that is refused changes no answer of check().
LEMMA RefusedEdit ==
  ASSUME NEW r, Refuse(r), NEW b \in Caller, NEW w \in Spot
  PROVE  May(b, w)' = May(b, w)
<1>1. groups' = groups /\ users' = users
  BY DEF Refuse
<1> QED
  BY <1>1 DEF May, Check, UserHas, GroupOf, ExtraGroups, GroupHas, NodesOf, Parents

\* The four edits, by whether the permission denies.
LEMMA EditCovers ==
  ASSUME NEW A \in SUBSET Node, NEW n \in Node
  PROVE  /\ n.deny => Covers(A, A \cup {n}) /\ Covers(A \ {n}, A)
         /\ ~n.deny => Covers(A \cup {n}, A) /\ Covers(A, A \ {n})
  BY DEF Covers

\* An addition to a group that is not refused.
LEMMA Adds ==
  ASSUME NEW g \in Group, NEW n \in Node, AddGroupPermission(g, n), \A r : ~Refuse(r)
  PROVE  groups[g] # Nothing /\ SetGroupNodes(g, groups[g].at[Everywhere] \cup {n})
  BY DEF AddGroupPermission

\* A removal from a group that is not refused.
LEMMA Removes ==
  ASSUME NEW g \in Group, NEW n \in Node, RemoveGroupPermission(g, n), \A r : ~Refuse(r)
  PROVE  groups[g] # Nothing /\ SetGroupNodes(g, groups[g].at[Everywhere] \ {n})
  BY DEF RemoveGroupPermission, HasNode

\* One edit of a group moves every caller's permissions at every place one way.
LEMMA MonotoneStep ==
  ASSUME TypeOK, NEW g \in Group, NEW n \in Node, NEW b \in Caller, NEW w \in Spot
  PROVE  /\ Lessens(g, n) => May(b, w)' \subseteq May(b, w)
         /\ Widens(g, n) => May(b, w) \subseteq May(b, w)'
<1>1. CASE \E r : Refuse(r)
  BY <1>1, RefusedEdit
<1>2. CASE \A r : ~Refuse(r)
  <2> DEFINE A == groups[g].at[Everywhere]
  <2>1. ASSUME AddGroupPermission(g, n)
        PROVE  IF n.deny THEN May(b, w)' \subseteq May(b, w) ELSE May(b, w) \subseteq May(b, w)'
    <3>1. groups[g] # Nothing /\ SetGroupNodes(g, A \cup {n})
      BY <1>2, <2>1, Adds
    <3>2. A \in SUBSET Node /\ A \cup {n} \in SUBSET Node
      BY <3>1, NodesType
    <3> QED
      BY <3>1, <3>2, EditCovers, NarrowedGroup, WidenedGroup
  <2>2. ASSUME RemoveGroupPermission(g, n)
        PROVE  IF n.deny THEN May(b, w) \subseteq May(b, w)' ELSE May(b, w)' \subseteq May(b, w)
    <3>1. groups[g] # Nothing /\ SetGroupNodes(g, A \ {n})
      BY <1>2, <2>2, Removes
    <3>2. A \in SUBSET Node /\ A \ {n} \in SUBSET Node
      BY <3>1, NodesType
    <3> QED
      BY <3>1, <3>2, EditCovers, NarrowedGroup, WidenedGroup
  <2> QED
    BY <2>1, <2>2 DEF Lessens, Widens
<1> QED
  BY <1>1, <1>2

\* However the groups inherit from one another, and whatever else the file
\* says: denying a group something or taking a permission from it lets nobody
\* do anything new anywhere, and giving it a permission or taking a denial
\* from it takes nothing from anybody.
THEOREM GroupEditsAreMonotone == Spec => EditsAreMonotone
<1>1. TypeOK /\ [Next]_vars =>
        [\A g \in Group, n \in Node :
           /\ Lessens(g, n) => \A b \in Caller, w \in Spot : May(b, w)' \subseteq May(b, w)
           /\ Widens(g, n) => \A b \in Caller, w \in Spot : May(b, w) \subseteq May(b, w)']_vars
  BY MonotoneStep
<1> QED
  BY <1>1, TypeCorrect, PTL DEF Spec, EditsAreMonotone

-----------------------------------------------------------------------------
(* The groups check() visits *)

\* A set of numbers has a least one.
LEMMA LeastNumber ==
  ASSUME NEW S, S \subseteq Nat, S # {}
  PROVE  \E m \in S : \A k \in S : m <= k
<1> DEFINE R == {ss \in Nat \X Nat : ss[1] < ss[2]}
<1>1. IsWellFoundedOn(R, Nat)
  BY NatLessThanWellFounded DEF OpToRel
<1>2. \A j, k \in Nat : <<k, j>> \notin R => j <= k
  OBVIOUS
<1> HIDE DEF R
<1>3. PICK m \in S : \A k \in S : <<k, m>> \notin R
  BY <1>1, WFMin, Zenon
<1>4. ASSUME NEW k \in S PROVE m <= k
  <2>1. m \in Nat /\ k \in Nat
    OBVIOUS
  <2>2. <<k, m>> \notin R
    BY <1>3
  <2> QED
    BY <1>2, <2>1, <2>2
<1> QED
  BY <1>4

\* A walk of n steps from g: at each step to where P leads, and once nowhere,
\* nowhere for good.
Walk(up, P, g, n) ==
  up = [i \in 0 .. n |->
          IF i = 0 THEN g ELSE IF up[i - 1] = Nothing THEN Nothing ELSE P[up[i - 1]]]

\* There is a walk of any length: otherwise there is a least length with none,
\* and the walk one shorter goes on for one step.
LEMMA WalkExists ==
  ASSUME NEW P, NEW g, NEW n \in Nat
  PROVE  \E up : Walk(up, P, g, n)
<1> DEFINE Bad == {m \in Nat : ~\E up : Walk(up, P, g, m)}
<1> SUFFICES ASSUME Bad # {} PROVE FALSE
  OBVIOUS
<1>1. PICK m \in Bad : \A k \in Bad : m <= k
  BY LeastNumber
<1>2. m # 0
  <2> DEFINE up == [i \in 0 .. 0 |-> g]
  <2>1. up[0] = g
    OBVIOUS
  <2>2. Walk(up, P, g, 0)
    BY DEF Walk
  <2> QED
    BY <2>2
<1>3. m - 1 \in Nat /\ m - 1 \notin Bad
  BY <1>1, <1>2
<1>4. PICK up : Walk(up, P, g, m - 1)
  BY <1>3
<1> DEFINE more == IF up[m - 1] = Nothing THEN Nothing ELSE P[up[m - 1]]
           long == [i \in 0 .. m |-> IF i = m THEN more ELSE up[i]]
<1>5. \A i \in 0 .. m - 1 :
        up[i] = IF i = 0 THEN g ELSE IF up[i - 1] = Nothing THEN Nothing ELSE P[up[i - 1]]
  BY <1>4 DEF Walk
<1>6. \A i \in 0 .. m - 1 : long[i] = up[i]
  BY <1>3
<1>7. long[m] = more
  BY <1>3
<1>8. long = [i \in 0 .. m |->
                IF i = 0 THEN g ELSE IF long[i - 1] = Nothing THEN Nothing ELSE P[long[i - 1]]]
  <2> SUFFICES ASSUME NEW i \in 0 .. m
               PROVE  long[i] = IF i = 0 THEN g
                                ELSE IF long[i - 1] = Nothing THEN Nothing ELSE P[long[i - 1]]
    OBVIOUS
  <2>1. CASE i = m
    <3>1. m - 1 \in 0 .. m - 1
      BY <1>3
    <3>2. long[m - 1] = up[m - 1]
      BY <1>6, <3>1
    <3> HIDE DEF long
    <3> QED
      BY <1>2, <1>7, <2>1, <3>2
  <2>2. CASE i = 0
    <3>1. 0 \in 0 .. m - 1
      BY <1>3
    <3>2. long[0] = up[0] /\ up[0] = g
      BY <1>5, <1>6, <3>1
    <3> HIDE DEF long
    <3> QED
      BY <2>2, <3>2
  <2>3. CASE i # 0 /\ i # m
    <3>1. i \in 0 .. m - 1 /\ i - 1 \in 0 .. m - 1
      BY <1>3, <2>3
    <3>2. long[i] = up[i] /\ long[i - 1] = up[i - 1]
      BY <1>6, <3>1
    <3>3. up[i] = IF up[i - 1] = Nothing THEN Nothing ELSE P[up[i - 1]]
      BY <1>5, <2>3, <3>1
    <3> HIDE DEF long
    <3> QED
      BY <2>3, <3>2, <3>3
  <2> QED
    BY <2>1, <2>2, <2>3
<1>9. Walk(long, P, g, m)
  <2> HIDE DEF long
  <2> QED
    BY <1>8 DEF Walk
<1> QED
  BY <1>9, <1>1

\* What Visited computes is such a walk.
LEMMA VisitedIs ==
  ASSUME NEW P, NEW g
  PROVE  \E up : /\ Walk(up, P, g, Cardinality(Group))
                 /\ Visited(P, g) = {up[i] : i \in 0 .. Cardinality(Group)} \cap Group
<1> DEFINE N == Cardinality(Group)
           way == CHOOSE up : Walk(up, P, g, N)
<1>1. N \in Nat
  BY GroupAssumption, FS_CardinalityType
<1>2. Walk(way, P, g, N)
  BY <1>1, WalkExists
<1>3. DOMAIN way = 0 .. N
  BY <1>2 DEF Walk
<1>4. Visited(P, g) = {way[i] : i \in DOMAIN way} \cap Group
  BY DEF Visited, Walk
<1> HIDE DEF way
<1> QED
  BY <1>2, <1>3, <1>4

\* The steps of a walk along P, over groups: it stays among the groups, or is
\* nowhere from some step on.
LEMMA WalkSteps ==
  ASSUME NEW P \in [Group -> Group \cup {Nothing}], NEW g \in Group, NEW n \in Nat,
         NEW up, Walk(up, P, g, n),
         NEW C \in SUBSET Group, g \in C, \A f \in C : P[f] \in Group => P[f] \in C
  PROVE  /\ up[0] = g
         /\ \A i \in 1 .. n : up[i] = IF up[i - 1] = Nothing THEN Nothing ELSE P[up[i - 1]]
         /\ \A i \in 0 .. n : up[i] \in C \cup {Nothing}
<1>1. up[0] = g /\ \A i \in 1 .. n : up[i] = IF up[i - 1] = Nothing THEN Nothing ELSE P[up[i - 1]]
  BY DEF Walk
<1> DEFINE Bad == {i \in 0 .. n : up[i] \notin C \cup {Nothing}}
<1>2. Bad = {}
  <2> SUFFICES ASSUME Bad # {} PROVE FALSE
    OBVIOUS
  <2>1. Bad \subseteq Nat
    OBVIOUS
  <2>2. PICK m \in Bad : \A k \in Bad : m <= k
    BY <2>1, LeastNumber
  <2>3. m # 0 /\ m \in 0 .. n /\ up[m] \notin C \cup {Nothing}
    BY <1>1, <2>2
  <2>4. m \in 1 .. n /\ m - 1 \in 0 .. n /\ ~(m <= m - 1)
    BY <2>3
  <2>5. up[m - 1] \in C \cup {Nothing}
    BY <2>2, <2>4
  <2>6. up[m] = IF up[m - 1] = Nothing THEN Nothing ELSE P[up[m - 1]]
    BY <1>1, <2>4
  <2>7. CASE up[m - 1] = Nothing
    BY <2>3, <2>6, <2>7
  <2>8. CASE up[m - 1] # Nothing
    <3>1. up[m - 1] \in C /\ up[m] = P[up[m - 1]] /\ P[up[m - 1]] \in Group \cup {Nothing}
      BY <2>5, <2>6, <2>8
    <3> QED
      BY <2>3, <3>1
  <2> QED
    BY <2>7, <2>8
<1> QED
  BY <1>1, <1>2

\* Within as many steps as there are groups a walk has come back to where it
\* was, or ended: as long as it has not, every step reaches one group more.
LEMMA WalkCloses ==
  ASSUME NEW P \in [Group -> Group \cup {Nothing}], NEW g \in Group,
         NEW up, Walk(up, P, g, Cardinality(Group)),
         NEW V, V = {up[i] : i \in 0 .. Cardinality(Group)} \cap Group
  PROVE  \A f \in V : P[f] \in Group => P[f] \in V
<1> DEFINE N == Cardinality(Group)
           Upto(n) == {up[i] : i \in 0 .. n} \cap Group
           Closed(n) == \A f \in Upto(n) : P[f] \in Group => P[f] \in Upto(n)
           Bad == {n \in 0 .. N : ~Closed(n) /\ ~(IsFiniteSet(Upto(n)) /\ Cardinality(Upto(n)) = n + 1)}
<1>1. N \in Nat
  BY GroupAssumption, FS_CardinalityType
<1>2. /\ up[0] = g
      /\ \A i \in 1 .. N : up[i] = IF up[i - 1] = Nothing THEN Nothing ELSE P[up[i - 1]]
      /\ \A i \in 0 .. N : up[i] \in Group \cup {Nothing}
  BY <1>1, WalkSteps
<1>3. Bad = {}
  <2> SUFFICES ASSUME Bad # {} PROVE FALSE
    OBVIOUS
  <2>1. Bad \subseteq Nat
    OBVIOUS
  <2>2. PICK m \in Bad : \A k \in Bad : m <= k
    BY <2>1, LeastNumber
  <2>3. m \in 0 .. N /\ ~Closed(m) /\ ~(IsFiniteSet(Upto(m)) /\ Cardinality(Upto(m)) = m + 1)
    BY <2>2
  <2>4. m # 0
    <3>1. Upto(0) = {g}
      BY <1>2
    <3>2. IsFiniteSet({g}) /\ Cardinality({g}) = 1
      BY FS_Singleton
    <3> SUFFICES ASSUME m = 0 PROVE FALSE
      OBVIOUS
    <3>3. Upto(m) = {g}
      BY <3>1
    <3> HIDE DEF Upto, Closed
    <3>4. m + 1 = 1
      OBVIOUS
    <3> QED
      BY <2>3, <3>2, <3>3, <3>4
  <2> DEFINE b == m - 1
  <2>5. b \in 0 .. N /\ b \in Nat /\ m = b + 1 /\ m \in 1 .. N /\ ~(m <= b) /\ N \in Nat
    BY <1>1, <2>3, <2>4
  <2> HIDE DEF b
  <2>6. Closed(b) \/ (IsFiniteSet(Upto(b)) /\ Cardinality(Upto(b)) = m)
    <3>1. b \notin Bad
      BY <2>2, <2>5
    <3> HIDE DEF Closed, Upto
    <3> QED
      BY <2>5, <3>1
  <2>7. Upto(m) = Upto(b) \cup ({up[m]} \cap Group)
    <3>1. 0 .. m = (0 .. b) \cup {m}
      BY <2>5
    <3> QED
      BY <3>1
  <2>8. up[m] = IF up[b] = Nothing THEN Nothing ELSE P[up[b]]
    <3>1. up[m] = IF up[m - 1] = Nothing THEN Nothing ELSE P[up[m - 1]]
      BY <1>2, <2>5
    <3>2. m - 1 = b
      BY <2>5
    <3> QED
      BY <3>1, <3>2
  <2>9. up[b] \in Group => up[b] \in Upto(b)
    BY <2>5
  <2>10. up[b] \in Group \cup {Nothing}
    BY <1>2, <2>5
  <2>11. ~Closed(b)
    <3> SUFFICES ASSUME Closed(b) PROVE FALSE
      OBVIOUS
    <3>1. Upto(m) = Upto(b)
      <4> HIDE DEF Upto
      <4>1. CASE up[b] = Nothing
        BY <2>7, <2>8, <4>1, NothingAssumption
      <4>2. CASE up[b] \in Group
        <5>1. up[m] \in Group => up[m] \in Upto(b)
          BY <2>8, <2>9, <4>2, NothingAssumption
        <5> QED
          BY <2>7, <5>1
      <4> QED
        BY <2>10, <4>1, <4>2
    <3> HIDE DEF Upto
    <3> QED
      BY <2>3, <3>1
  <2>12. PICK f \in Upto(b) : P[f] \in Group /\ P[f] \notin Upto(b)
    BY <2>11
  <2>13. PICK j \in 0 .. b : up[j] = f
    OBVIOUS
  <2>14. j = b
    <3> SUFFICES ASSUME j # b PROVE FALSE
      OBVIOUS
    <3>1. j + 1 \in 0 .. b /\ j + 1 \in 1 .. N /\ (j + 1) - 1 = j
      BY <2>5, <2>13
    <3>2. up[j + 1] = IF up[j] = Nothing THEN Nothing ELSE P[up[j]]
      BY <1>2, <3>1
    <3>3. f \in Group /\ f # Nothing
      BY NothingAssumption
    <3>4. up[j + 1] = P[f]
      BY <2>13, <3>2, <3>3
    <3> QED
      BY <2>12, <3>1, <3>4
  <2>15. up[m] = P[f]
    BY <2>8, <2>13, <2>14, NothingAssumption
  <2>16. Upto(m) = Upto(b) \cup {P[f]}
    BY <2>7, <2>12, <2>15
  <2>17. IsFiniteSet(Upto(b)) /\ Cardinality(Upto(b)) = m
    BY <2>6, <2>11
  <2> DEFINE x == P[f]
             S == Upto(b)
  <2>18. x \notin S /\ IsFiniteSet(S) /\ Cardinality(S) = m /\ Upto(m) = S \cup {x}
    BY <2>12, <2>16, <2>17
  <2> HIDE DEF x, S
  <2>19. IsFiniteSet(S \cup {x}) /\ Cardinality(S \cup {x}) = m + 1
    BY <2>18, FS_AddElement
  <2> HIDE DEF Upto
  <2> QED
    BY <2>3, <2>18, <2>19
<1>4. Closed(N)
  <2> SUFFICES ASSUME ~Closed(N) PROVE FALSE
    OBVIOUS
  <2> DEFINE S == Upto(N)
  <2>1. IsFiniteSet(S) /\ Cardinality(S) = N + 1
    <3>1. N \in 0 .. N /\ N \notin Bad
      BY <1>1, <1>3
    <3> QED
      BY <3>1
  <2>2. S \subseteq Group
    OBVIOUS
  <2> HIDE DEF S
  <2>3. Cardinality(S) <= Cardinality(Group)
    BY <2>2, GroupAssumption, FS_Subset
  <2> QED
    BY <1>1, <2>1, <2>3
<1>5. V = Upto(N)
  OBVIOUS
<1> QED
  BY <1>4, <1>5

\* What is visited from a group holds it and is closed under P, and is part of
\* every set that holds it and is closed under P.
LEMMA VisitedIsLeast ==
  ASSUME NEW P \in [Group -> Group \cup {Nothing}], NEW g \in Group
  PROVE  /\ Visited(P, g) \in SUBSET Group
         /\ g \in Visited(P, g)
         /\ \A f \in Visited(P, g) : P[f] \in Group => P[f] \in Visited(P, g)
         /\ \A C \in SUBSET Group :
              g \in C /\ (\A f \in C : P[f] \in Group => P[f] \in C) => Visited(P, g) \subseteq C
<1> DEFINE N == Cardinality(Group)
           V == Visited(P, g)
<1>1. N \in Nat
  BY GroupAssumption, FS_CardinalityType
<1>2. PICK up : Walk(up, P, g, N) /\ V = {up[i] : i \in 0 .. N} \cap Group
  BY VisitedIs
<1> HIDE DEF V
<1>3. up[0] = g
  BY <1>1, <1>2, WalkSteps
<1>4. V \in SUBSET Group /\ g \in V
  BY <1>1, <1>2, <1>3
<1>5. \A f \in V : P[f] \in Group => P[f] \in V
  BY <1>2, WalkCloses
<1>6. ASSUME NEW C \in SUBSET Group, g \in C, \A f \in C : P[f] \in Group => P[f] \in C
      PROVE  V \subseteq C
  <2>1. \A i \in 0 .. N : up[i] \in C \cup {Nothing}
    BY <1>1, <1>2, <1>6, WalkSteps
  <2> QED
    BY <1>2, <2>1, NothingAssumption
<1> QED
  BY <1>4, <1>5, <1>6 DEF V

\* Where _recur goes on to is a group or nowhere, and an existing group that
\* it leads to is the one that is inherited from.
LEMMA ParentsAre ==
  ASSUME TypeOK, NEW p \in Protocol
  PROVE  /\ Parents(p) \in [Group -> Group \cup {Nothing}]
         /\ \A f, k \in Group : Inherits(p, f, k) <=> groups[k] # Nothing /\ Parents(p)[f] = k
<1>1. \A f \in Group : groups[f] # Nothing => groups[f] \in GroupEntry
  BY GroupEntryType
<1>2. Parents(p) \in [Group -> Group \cup {Nothing}]
  BY <1>1 DEF Parents, GroupEntry
<1>3. ASSUME NEW f \in Group, NEW k \in Group
      PROVE  Inherits(p, f, k) <=> groups[k] # Nothing /\ Parents(p)[f] = k
  <2>1. k # Nothing
    BY NothingAssumption
  <2>2. Parents(p)[f] = IF groups[f] = Nothing THEN Nothing
                        ELSE IF {Everywhere, p} \cap groups[f].empty # {} THEN Nothing
                        ELSE groups[f].inherit
    BY DEF Parents
  <2> QED
    BY <2>1, <2>2 DEF Inherits
<1> QED
  BY <1>2, <1>3

\* The walk visits, of the groups that exist, exactly the sources.
LEMMA VisitsTheSources ==
  ASSUME TypeOK, NEW p \in Protocol, NEW g \in Group, groups[g] # Nothing
  PROVE  Sources(p, g) = {h \in Visited(Parents(p), g) : groups[h] # Nothing}
<1> DEFINE P == Parents(p)
           V == Visited(P, g)
           None == {h \in Group : groups[h] = Nothing}
<1>1. /\ P \in [Group -> Group \cup {Nothing}]
      /\ \A f, k \in Group : Inherits(p, f, k) <=> groups[k] # Nothing /\ P[f] = k
  BY ParentsAre
<1> HIDE DEF P
<1>2. /\ V \in SUBSET Group /\ g \in V
      /\ \A f \in V : P[f] \in Group => P[f] \in V
      /\ \A C \in SUBSET Group :
           g \in C /\ (\A f \in C : P[f] \in Group => P[f] \in C) => V \subseteq C
  BY <1>1, VisitedIsLeast
<1> HIDE DEF V
<1>3. ASSUME NEW h \in Sources(p, g) PROVE h \in V /\ groups[h] # Nothing
  <2>1. \A f \in V : \A k \in Group : Inherits(p, f, k) => k \in V
    BY <1>1, <1>2
  <2> QED
    BY <1>2, <1>3, <2>1 DEF Sources
<1>4. ASSUME NEW h \in V, groups[h] # Nothing PROVE h \in Sources(p, g)
  <2> SUFFICES ASSUME NEW C \in SUBSET Group, g \in C,
                      \A f \in C : \A k \in Group : Inherits(p, f, k) => k \in C
               PROVE  h \in C
    BY <1>2, <1>4 DEF Sources
  <2> DEFINE D == C \cup None
  <2>1. D \in SUBSET Group /\ g \in D
    OBVIOUS
  <2>2. ASSUME NEW f \in D, P[f] \in Group PROVE P[f] \in D
    <3>1. CASE groups[P[f]] = Nothing
      BY <2>2, <3>1
    <3>2. CASE groups[P[f]] # Nothing
      <4>1. Inherits(p, f, P[f])
        BY <1>1, <2>1, <2>2, <3>2
      <4>2. groups[f] # Nothing
        BY <4>1 DEF Inherits
      <4> QED
        BY <2>2, <4>1, <4>2
    <3> QED
      BY <3>1, <3>2
  <2>3. V \subseteq D
    <3> HIDE DEF D
    <3> QED
      BY <1>2, <2>1, <2>2
  <2> QED
    BY <1>4, <2>3
<1> QED
  BY <1>2, <1>3, <1>4 DEF V, P

-----------------------------------------------------------------------------
(* What check() answers *)

\* compare_permissions and the sets of names agree.
LEMMA GrantedIsAllowed ==
  ASSUME NEW nodes \in SUBSET Node
  PROVE  {perm \in Perm : Granted(perm, nodes)} = Allowed(nodes)
<1>1. \A n \in nodes : n.deny \in BOOLEAN /\ n.covers \subseteq Perm
  BY NodeAssumption
<1>2. \A perm : \A deny \in BOOLEAN :
        perm \in Named(deny, nodes) <=> \E n \in nodes : n.deny = deny /\ perm \in n.covers
  BY DEF Named
<1>3. ASSUME NEW perm PROVE perm \in Allowed(nodes) <=> perm \in Perm /\ Granted(perm, nodes)
  BY <1>1, <1>2 DEF Allowed, Granted
<1> QED
  BY <1>3

\* What a group says itself is a set of permissions, none if it does not exist.
LEMMA GroupSays ==
  ASSUME TypeOK, NEW g \in Group, NEW p \in Protocol, NEW s \in Source \cup {Nothing}
  PROVE  /\ NodesOf(g, p, s) \in SUBSET Node
         /\ groups[g] = Nothing => NodesOf(g, p, s) = {}
<1>1. CASE groups[g] = Nothing
  BY <1>1 DEF NodesOf
<1>2. CASE groups[g] # Nothing
  <2>1. groups[g] \in GroupEntry
    BY <1>2, GroupEntryType
  <2>2. \A place \in Place : groups[g].at[place] \in SUBSET Node
    BY <2>1 DEF GroupEntry
  <2>3. p \in Place /\ Everywhere \in Place /\ (s # Nothing => <<p, s>> \in Place)
    BY DEF Place
  <2> QED
    BY <1>2, <2>2, <2>3 DEF NodesOf
<1> QED
  BY <1>1, <1>2

\* What group_has_permission finds is what the sources of the group allow.
LEMMA GroupAnswers ==
  ASSUME TypeOK, NEW g \in Group, NEW p \in Protocol, NEW s \in Source \cup {Nothing}
  PROVE  {perm \in Perm : GroupHas(g, perm, p, s)} = Allowed(Said(g, p, s))
<1>1. CASE groups[g] = Nothing
  <2>1. Sources(p, g) = {}
    <3>1. \A k \in Group : ~Inherits(p, g, k)
      BY <1>1 DEF Inherits
    <3>2. ASSUME NEW h \in Sources(p, g) PROVE FALSE
      <4>1. \A f \in {g} : \A k \in Group : Inherits(p, f, k) => k \in {g}
        BY <3>1
      <4>2. h \in {g} /\ groups[h] # Nothing
        BY <4>1 DEF Sources
      <4> QED
        BY <1>1, <4>2
    <3> QED
      BY <3>2
  <2>2. Allowed(Said(g, p, s)) = {}
    BY <2>1 DEF Said, Allowed, Named
  <2> QED
    BY <1>1, <2>2 DEF GroupHas
<1>2. CASE groups[g] # Nothing
  <2> DEFINE V == Visited(Parents(p), g)
             nodes == UNION {NodesOf(h, p, s) : h \in V}
  <2>1. Sources(p, g) = {h \in V : groups[h] # Nothing} /\ V \in SUBSET Group
    BY <1>2, VisitsTheSources, ParentsAre, VisitedIsLeast
  <2> HIDE DEF V
  <2>2. nodes \in SUBSET Node /\ nodes = Said(g, p, s)
    BY <2>1, GroupSays DEF Said
  <2>3. {perm \in Perm : Granted(perm, nodes)} = Allowed(nodes)
    BY <2>2, GrantedIsAllowed
  <2>4. \A perm : GroupHas(g, perm, p, s) <=> Granted(perm, nodes)
    BY <1>2 DEF GroupHas, V
  <2> HIDE DEF nodes
  <2> QED
    BY <2>2, <2>3, <2>4
<1> QED
  BY <1>1, <1>2

\* What user_has_permission finds is what the account's own entry gives.
LEMMA UserAnswers ==
  ASSUME TypeOK, NEW a \in Caller, NEW p \in Protocol
  PROVE  {perm \in Perm : a # Nothing /\ UserHas(a, perm, p)} = Own(a, p)
<1>1. CASE a = Nothing \/ users[a] = Nothing
  BY <1>1 DEF UserHas, Own
<1>2. CASE a # Nothing /\ users[a] # Nothing
  <2> DEFINE nodes == users[a].at[Everywhere] \cup users[a].at[p]
  <2>1. users[a] \in UserEntry
    BY <1>2, UserEntryType DEF Caller
  <2>2. nodes \in SUBSET Node
    BY <2>1 DEF UserEntry, Place
  <2>3. {perm \in Perm : Granted(perm, nodes)} = Allowed(nodes)
    BY <2>2, GrantedIsAllowed
  <2>4. \A perm : a # Nothing /\ UserHas(a, perm, p)
                    <=> (UseSuperuser /\ users[a].superadmin) \/ Granted(perm, nodes)
    BY <1>2 DEF UserHas
  <2>5. Own(a, p) = IF UseSuperuser /\ users[a].superadmin THEN Perm ELSE Allowed(nodes)
    BY <1>2 DEF Own
  <2> HIDE DEF nodes
  <2> QED
    BY <2>3, <2>4, <2>5
<1> QED
  BY <1>1, <1>2

\* So check() answers, for anybody anywhere, what the graph says.
LEMMA CheckAnswers ==
  ASSUME TypeOK
  PROVE  AnswersFollowTheGraph
<1> SUFFICES ASSUME NEW a \in Caller, NEW w \in Spot
             PROVE  May(a, w) =
                      Own(a, w[1]) \cup
                      UNION {Allowed(Said(g, w[1], w[2])) :
                               g \in {GroupOf(a)} \cup ExtraGroups(a, w[1], w[2])}
  BY DEF AnswersFollowTheGraph
<1> DEFINE p == w[1]
           s == w[2]
           G == {GroupOf(a)} \cup ExtraGroups(a, p, s)
<1>1. p \in Protocol /\ s \in Source \cup {Nothing}
  BY DEF Spot
<1> HIDE DEF p, s
<1>2. G \subseteq Group
  BY <1>1, CallerGroups
<1>3. \A perm : Check(perm, a, p, s) <=>
                  (a # Nothing /\ UserHas(a, perm, p)) \/ \E g \in G : GroupHas(g, perm, p, s)
  BY DEF Check
<1>4. May(a, w) = {perm \in Perm : Check(perm, a, p, s)}
  BY DEF May, p, s
<1> HIDE DEF G
<1>5. \A g \in G : {perm \in Perm : GroupHas(g, perm, p, s)} = Allowed(Said(g, p, s))
  BY <1>1, <1>2, GroupAnswers
<1>6. {perm \in Perm : a # Nothing /\ UserHas(a, perm, p)} = Own(a, p)
  BY <1>1, UserAnswers
<1> DEFINE All == UNION {Allowed(Said(g, p, s)) : g \in G}
<1>7. May(a, w) = Own(a, p) \cup All
  <2>1. \A perm : perm \in May(a, w) <=> perm \in Perm /\ Check(perm, a, p, s)
    BY <1>4
  <2>2. \A perm : perm \in Own(a, p) <=> perm \in Perm /\ a # Nothing /\ UserHas(a, perm, p)
    BY <1>6
  <2>3. \A perm : \A g \in G : perm \in Allowed(Said(g, p, s)) <=> perm \in Perm /\ GroupHas(g, perm, p, s)
    BY <1>5
  <2>4. \A perm : perm \in All <=> \E g \in G : perm \in Allowed(Said(g, p, s))
    OBVIOUS
  <2>5. \A perm : perm \in All <=> perm \in Perm /\ \E g \in G : GroupHas(g, perm, p, s)
    BY <2>3, <2>4
  <2> HIDE DEF All
  <2>6. \A perm : perm \in May(a, w) <=> perm \in All \/ perm \in Own(a, p)
    BY <1>3, <2>1, <2>2, <2>5
  <2>7. May(a, w) = Own(a, p) \cup All
    BY <2>6
  <2> QED
    BY <2>7
<1> QED
  BY <1>7 DEF p, s, G, All

\* For any groups, whoever inherits from whom, round in circles, from missing
\* groups or with empty sections, and after any edits: check() grants exactly
\* what the account's entry gives and what one of its groups is given, by
\* itself or by those it inherits from, and not denied by any of them.
THEOREM AnswersAreRight == Spec => []AnswersFollowTheGraph
  BY TypeCorrect, CheckAnswers, PTL
=============================================================================
