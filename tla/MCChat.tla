------------------------------- MODULE MCChat -------------------------------
(* Instances of Chat for model checking.                                   *)
EXTENDS Chat, TLC

CONSTANTS page, loop, title, other, tinyurl, mine

\* A channel of each of two protocols, of the same name, and a user.
Spots == {<<1, 1>>, <<1, 2>>, <<2, 1>>}
Person == {<<1, 2>>}
LinkedIn == {<<1, 1>>, <<1, 2>>}
\* A link that redirects to itself.
LeadsTo == loop :> loop @@ page :> page
Order == title :> 1 @@ other :> 2
=============================================================================
