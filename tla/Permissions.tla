---------------------------- MODULE Permissions ----------------------------
(***************************************************************************)
(* The permissions handler (plugins/auth/permissions_handler): the entries *)
(* of permissions.yml, the operations that edit them, and check(), which   *)
(* every command with a permission asks.                                   *)
(*                                                                         *)
(* A permission in the file is a plain name, a wildcard or a regular       *)
(* expression, and denies if it starts with "^".  What the code does with  *)
(* one is match names against it: a Node is what it covers and whether it  *)
(* denies.                                                                 *)
(***************************************************************************)
EXTENDS Integers, FiniteSets

CONSTANTS
  Perm,         \* names of permissions
  Node,         \* the permissions that are put in the file
  Group,        \* group names, with or without an entry
  Default,      \* the group "default"
  DefaultNodes, \* what the default group is created with
  Account,      \* names of accounts
  Protocol,     \* names of protocols
  Source,       \* names of channels
  Everywhere,   \* not at one protocol only
  Nothing,      \* no account, no channel, no group, no entry
  Files,        \* contents of the file when it is loaded
  Ranks,        \* Ranks[p, a, s]: get_extra_groups of protocol p
  InName,       \* <<n, s>>: n, written out, is a substring of the name of s
  UseSuperuser, \* plugin.config["use-superuser"]
  MaxEdits      \* bound: operations after which no more come

Place == {Everywhere} \cup Protocol \cup (Protocol \X Source)

\* A section of an entry that is there and empty, as in "protocols:" with
\* nothing below it, is None in the code.
GroupEntry ==
  [at : [Place -> SUBSET Node], inherit : Group \cup {Nothing},
   empty : SUBSET ({Everywhere} \cup Protocol)]
UserEntry ==
  [at : [Place -> SUBSET Node], group : Group, superadmin : BOOLEAN]

Groups == [Group -> GroupEntry \cup {Nothing}]
Users == [Account -> UserEntry \cup {Nothing}]

ASSUME NodeAssumption ==
  \A n \in Node \cup DefaultNodes : n.deny \in BOOLEAN /\ n.covers \subseteq Perm
ASSUME GroupAssumption == Default \in Group /\ IsFiniteSet(Group) /\ DefaultNodes \subseteq Node
ASSUME NothingAssumption ==
  /\ Nothing \notin Account \cup Source \cup Group
  /\ Nothing \notin UserEntry /\ Nothing \notin GroupEntry
ASSUME PlaceAssumption == Everywhere \notin Protocol \cup (Protocol \X Source)
ASSUME FilesAssumption == Files \subseteq [groups : Groups, users : Users]
ASSUME RanksAssumption ==
  Ranks \in [Protocol \X (Account \cup {Nothing}) \X (Source \cup {Nothing}) -> SUBSET Group]
ASSUME EditsAssumption == MaxEdits \in Nat /\ UseSuperuser \in BOOLEAN

VARIABLES
  groups,  \* data["groups"]
  users,   \* data["users"]
  answer,  \* what the latest operation answered
  edits    \* how many there were

vars == <<groups, users, answer, edits>>

Bare == [place \in Place |-> {}]
At(place, S) == [Bare EXCEPT ![place] = S]

TypeOK ==
  /\ groups \in Groups
  /\ users \in Users
  /\ answer \in {"none", "True", "False", "error"}
  /\ edits \in 0..MaxEdits

NewGroup == [at |-> Bare, inherit |-> Nothing, empty |-> {}]
NewUser == [at |-> Bare, group |-> Default, superadmin |-> FALSE]

\* __init__: without groups, the default one is created and filled.
Loaded(file) ==
  IF \A g \in Group : file.groups[g] = Nothing
  THEN [file EXCEPT !.groups[Default] = [NewGroup EXCEPT !.at = At(Everywhere, DefaultNodes)]]
  ELSE file

Init ==
  /\ \E file \in Files : groups = Loaded(file).groups /\ users = Loaded(file).users
  /\ answer = "none"
  /\ edits = 0

-----------------------------------------------------------------------------
(***************************************************************************)
(* check                                                                   *)
(***************************************************************************)
\* compare_permissions: a denial counts more than any number of permissions.
Granted(perm, nodes) ==
  /\ ~\E n \in nodes : n.deny /\ perm \in n.covers
  /\ \E n \in nodes : ~n.deny /\ perm \in n.covers

\* What group g says itself of protocol p and source s.
NodesOf(g, p, s) ==
  IF groups[g] = Nothing THEN {} ELSE
  LET at == groups[g].at
      atP == IF Everywhere \in groups[g].empty THEN {} ELSE at[p]
      atS == IF {Everywhere, p} \cap groups[g].empty # {} \/ s = Nothing THEN {} ELSE at[<<p, s>>]
  IN at[Everywhere] \cup atP \cup atS

\* The group _recur goes on to from each group, at protocol p.
Parents(p) ==
  [g \in Group |->
     IF groups[g] = Nothing THEN Nothing
     ELSE IF {Everywhere, p} \cap groups[g].empty # {} THEN Nothing
     ELSE groups[g].inherit]

\* Faulty variants named ...Bug are used by the mutants of PROJECT.json only.
ParentOnlyBug(parent, g) == {g, parent[g]} \cap Group

\* The groups _recur visits from g, none twice.
Visited(parent, g) ==
  LET up[i \in 0..Cardinality(Group)] ==
        IF i = 0 THEN g ELSE IF up[i - 1] = Nothing THEN Nothing ELSE parent[up[i - 1]]
  IN {up[i] : i \in DOMAIN up} \cap Group

\* group_has_permission
GroupHas(g, perm, p, s) ==
  /\ groups[g] # Nothing
  /\ Granted(perm, UNION {NodesOf(h, p, s) : h \in Visited(Parents(p), g)})

GroupOf(a) == IF a = Nothing \/ users[a] = Nothing THEN Default ELSE users[a].group

\* Groups for the rank in the channel, none in a private message.  The account
\* name of somebody who is logged in is looked up as a nick.
ExtraGroups(a, p, s) == IF s = Nothing THEN {} ELSE Ranks[p, a, s]

\* user_has_permission, for account a.  Entries for a source are looked up
\* where they never are, so that they do not count.
UserHas(a, perm, p) ==
  /\ users[a] # Nothing
  /\ \/ UseSuperuser /\ users[a].superadmin
     \/ Granted(perm, users[a].at[Everywhere] \cup users[a].at[p])

\* check, for somebody logged in to account a (or Nothing).
Check(perm, a, p, s) ==
  \/ a # Nothing /\ UserHas(a, perm, p)
  \/ \E g \in {GroupOf(a)} \cup ExtraGroups(a, p, s) : GroupHas(g, perm, p, s)

-----------------------------------------------------------------------------
(***************************************************************************)
(* Operations on users                                                     *)
(***************************************************************************)
Edit == edits < MaxEdits /\ edits' = edits + 1

Refuse(r) == answer' = r /\ UNCHANGED <<groups, users>>

SetUser(a, entry) ==
  /\ users' = [users EXCEPT ![a] = entry]
  /\ answer' = "True"
  /\ UNCHANGED groups

CreateUser(a) ==
  /\ Edit
  /\ \/ users[a] = Nothing /\ SetUser(a, NewUser)
     \/ users[a] # Nothing /\ Refuse("False")

RemoveUser(a) ==
  /\ Edit
  /\ \/ users[a] # Nothing /\ SetUser(a, Nothing)
     \/ users[a] = Nothing /\ Refuse("False")

SetUserOption(a, b) ==
  /\ Edit
  /\ \/ users[a] # Nothing /\ SetUser(a, [users[a] EXCEPT !.superadmin = b])
     \/ users[a] = Nothing /\ Refuse("False")

\* The group need not exist.
SetUserGroup(a, g) ==
  /\ Edit
  /\ \/ users[a] # Nothing /\ SetUser(a, [users[a] EXCEPT !.group = g])
     \/ users[a] = Nothing /\ Refuse("False")

\* The protocols' part of the entry is read under one name, where there is
\* nothing, and written under another, over what was there.
OnlyAt(a, place, S) == [At(place, S) EXCEPT ![Everywhere] = users[a].at[Everywhere]]

\* add_user_permission.  Without a protocol it raises; for a source it looks
\* for the permission in the source's name.
AddUserPermission(a, n, p, s) ==
  /\ Edit
  /\ \/ users[a] = Nothing /\ Refuse("False")
     \/ users[a] # Nothing /\ p = Nothing /\ Refuse("error")
     \/ /\ users[a] # Nothing /\ p # Nothing /\ s = Nothing
        /\ SetUser(a, [users[a] EXCEPT !.at = OnlyAt(a, p, {n})])
     \/ /\ users[a] # Nothing /\ p # Nothing /\ s # Nothing
        /\ users' = [users EXCEPT ![a].at =
                       OnlyAt(a, <<p, s>>, IF <<n, s>> \in InName THEN {} ELSE {n})]
        /\ answer' = IF <<n, s>> \in InName THEN "False" ELSE "True"
        /\ UNCHANGED groups

\* remove_user_permission, on the same wrong lists.
RemoveUserPermission(a, n, p, s) ==
  /\ Edit
  /\ \/ users[a] = Nothing /\ Refuse("False")
     \/ users[a] # Nothing /\ p = Nothing /\ Refuse("error")
     \/ /\ users[a] # Nothing /\ p # Nothing
        /\ \/ s # Nothing /\ <<n, s>> \in InName /\ Refuse("error")
           \/ /\ s = Nothing \/ <<n, s>> \notin InName
              /\ users' = [users EXCEPT ![a].at = OnlyAt(a, p, {})]
              /\ answer' = "False"
              /\ UNCHANGED groups

-----------------------------------------------------------------------------
(***************************************************************************)
(* Operations on groups                                                    *)
(***************************************************************************)
SetGroup(g, entry) ==
  /\ groups' = [groups EXCEPT ![g] = entry]
  /\ answer' = "True"
  /\ UNCHANGED users

CreateGroup(g) ==
  /\ Edit
  /\ \/ groups[g] = Nothing /\ SetGroup(g, NewGroup)
     \/ groups[g] # Nothing /\ Refuse("False")

RemoveGroup(g) ==
  /\ Edit
  /\ \/ groups[g] # Nothing /\ SetGroup(g, Nothing)
     \/ groups[g] = Nothing /\ Refuse("False")

\* Any group, also itself, one that does not exist, or None.
SetGroupInheritance(g, h) ==
  /\ Edit
  /\ \/ groups[g] # Nothing /\ SetGroup(g, [groups[g] EXCEPT !.inherit = h])
     \/ groups[g] = Nothing /\ Refuse("False")

HasNode(g, n) == groups[g] # Nothing /\ n \in groups[g].at[Everywhere]
SetGroupNodes(g, S) == SetGroup(g, [groups[g] EXCEPT !.at[Everywhere] = S])

\* The protocol and the source it is given are not looked at.
AddGroupPermission(g, n) ==
  /\ Edit
  /\ \/ /\ groups[g] # Nothing /\ n \notin groups[g].at[Everywhere]
        /\ SetGroupNodes(g, groups[g].at[Everywhere] \cup {n})
     \/ groups[g] = Nothing /\ Refuse("False")
     \/ HasNode(g, n) /\ Refuse("False")

RemovesDenialBug(g, n) ==
  /\ Edit
  /\ groups[g] # Nothing
  /\ SetGroupNodes(g, {m \in groups[g].at[Everywhere] : m.covers # n.covers})

RemoveGroupPermission(g, n) ==
  /\ Edit
  /\ \/ HasNode(g, n) /\ SetGroupNodes(g, groups[g].at[Everywhere] \ {n})
     \/ ~HasNode(g, n) /\ Refuse("False")

\* reload, after somebody edited the file.
Reload ==
  /\ Edit
  /\ \E file \in Files : groups' = file.groups /\ users' = file.users
  /\ answer' = "True"

EditUser(a) ==
  \/ CreateUser(a) \/ RemoveUser(a)
  \/ \E b \in BOOLEAN : SetUserOption(a, b)
  \/ \E g \in Group : SetUserGroup(a, g)
  \/ \E n \in Node, p \in Protocol \cup {Nothing}, s \in Source \cup {Nothing} :
       AddUserPermission(a, n, p, s) \/ RemoveUserPermission(a, n, p, s)

EditGroup(g) ==
  \/ CreateGroup(g) \/ RemoveGroup(g)
  \/ \E h \in Group \cup {Nothing} : SetGroupInheritance(g, h)
  \/ \E n \in Node : AddGroupPermission(g, n) \/ RemoveGroupPermission(g, n)

Next ==
  \/ \E a \in Account : EditUser(a)
  \/ \E g \in Group : EditGroup(g)
  \/ Reload

Spec == Init /\ [][Next]_vars
=============================================================================
