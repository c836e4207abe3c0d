---------------------------- MODULE MCConnection ----------------------------
(* Instances of Connection for model checking.                             *)
EXTENDS ConnectionProps, TLC

Section(failure, drop, n, delay, maxDelay, reset) ==
  [failure |-> failure, drop |-> drop, attempts |-> n,
   delay |-> delay, maxDelay |-> maxDelay, reset |-> reset]

CONSTANTS irc, mumble

Symmetric == Permutations(Generation)

\* An irc network with a limit of one retry and a mumble server with no
\* limit ("Set to 0 for infinite attempts"), both as in the shipped config.
TwoNetworks ==
  irc :> Section(TRUE, TRUE, 1, 10, 300, TRUE) @@
  mumble :> Section(TRUE, TRUE, 0, 200, 300, TRUE)

\* One network with a limit.
OneNetwork == [n \in Name |-> Section(TRUE, TRUE, 2, 10, 300, TRUE)]
=============================================================================
