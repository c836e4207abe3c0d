-------------------------- MODULE MCMumbleTracking --------------------------
(* Instances of MumbleTracking for model checking.                         *)
EXTENDS MumbleTrackingProps, TLC

CONSTANTS bot, alice, bob, root, lobby

Symmetric == Permutations(Session) \cup Permutations({alice, bob})

\* Which class has which tables does not matter, and not what a class has that
\* no protocol is or will be of.
Relevant ==
  LET Tables(k) == IF k = None THEN None ELSE <<channels[k], users[k], members[k]>>
  IN <<truth, mine, pending, builds, Tables(latest),
       [c \in Conn |-> <<class[c] = latest, Tables(class[c])>>], ourselves>>
=============================================================================
