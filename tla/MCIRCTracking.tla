--------------------------- MODULE MCIRCTracking ---------------------------
(* Instances of IRCTracking for model checking.                            *)
EXTENDS IRCTracking, TLC

CONSTANTS bot, alice, bob, nbot, na, nx

\* Alice has two nicks, one of which bob takes when it is free.
Nicks ==
  [p \in Person |-> IF p = bot THEN {nbot} ELSE IF p = alice THEN {na, nx} ELSE {na}]

\* A bound: bob is not looked at together with a second channel.
OneAtATime ==
  nickOf[bob] = Off \/ Cardinality({c \in Chan : \E p \in Person : c \in where[p]}) <= 1
Symmetric == Permutations(Chan)

\* What an object holds that nothing refers to does not matter.
Relevant ==
  LET used == Tracked \cup {ourselves}
      Cut(f, none) == [o \in Obj |-> IF o \in used THEN f[o] ELSE none]
  IN <<truth, awaited, replies, users, Cut(nick, Off), Cut(who, Self), chans,
       Cut(ops, {}), known, members, ourselves>>
=============================================================================
