---------------------------- MODULE MCPermissions ----------------------------
(* TLC's instance of Permissions. *)
EXTENDS PermissionsProps

CONSTANTS default, staff, ops, alice, bob, irc, mumble, chan, everywhere, none

Grant(S) == [deny |-> FALSE, covers |-> S]
Deny(S) == [deny |-> TRUE, covers |-> S]

MCPerm == {"p", "q"}
MCNode == {Grant({"p"}), Grant({"p", "q"}), Deny({"p"})}
MCDefaultNodes == {Grant({"p"})}
MCGroup == {default, staff, ops}
MCInName == {<<Grant({"p"}), chan>>}

\* On IRC whoever is called alice is an operator of the channel; nobody has a
\* rank on Mumble.
MCRanks == [x \in {irc, mumble} \X {alice, bob, none} \X {chan, none} |->
              IF x[1] = irc /\ x[2] = alice THEN {ops} ELSE {}]

NoUser == [a \in {alice, bob} |-> none]
Entry(f, inherit, empty) == [at |-> f, inherit |-> inherit, empty |-> empty]
User(S, g) == [at |-> At(everywhere, S), group |-> g, superadmin |-> FALSE]

\* No file yet; a chain with a denial in the middle and what is allowed at one
\* protocol and in one channel at its ends; a cycle, and an empty section.
Empty == [groups |-> [g \in MCGroup |-> none], users |-> NoUser]
Chain ==
  [groups |-> [g \in MCGroup |->
     CASE g = default -> Entry(At(irc, {Grant({"q"} \cup {"p"})}), none, {})
       [] g = staff -> Entry(At(everywhere, {Deny({"p"})}), default, {})
       [] g = ops -> Entry(At(<<irc, chan>>, {Grant({"p"})}), staff, {})],
   users |-> [NoUser EXCEPT ![alice] = User({}, ops), ![bob] = User({Grant({"p"})}, staff)]]
Cycle ==
  [groups |-> [g \in MCGroup |->
     CASE g = default -> Entry(Bare, ops, {})
       [] g = staff -> Entry(At(everywhere, {Grant({"p"})}), default, {irc})
       [] g = ops -> Entry(At(mumble, {Deny({"p"})}), staff, {})],
   users |-> [NoUser EXCEPT ![bob] = User({}, staff)]]
MCFiles == {Empty, Chain, Cycle}
=============================================================================
