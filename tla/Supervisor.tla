----------------------------- MODULE Supervisor -----------------------------
(***************************************************************************)
(* What reconnection promises, with no mention of protocol names, tables,  *)
(* timers' lengths or callbacks: each connection is tried, comes up, drops *)
(* and is planned again, with a bounded number of plans between two        *)
(* successes, and a retired connection makes no new plan and carries out   *)
(* none it had.                                                            *)
(***************************************************************************)
EXTENDS Integers

CONSTANTS
  Conn,    \* connections
  Limit    \* Limit[c]: plans allowed in a row; none if not positive

VARIABLES
  mode,    \* "unused", "trying", "up", "planned", "idle"
  plans,   \* plans made since the last success
  retired  \* connections told to stop

supVars == <<mode, plans, retired>>

SupInit ==
  /\ mode = [c \in Conn |-> "unused"]
  /\ plans = [c \in Conn |-> 0]
  /\ retired = {}

Plan(c) ==
  /\ mode[c] \in {"trying", "up"}
  /\ c \notin retired
  /\ Limit[c] > 0 => plans[c] < Limit[c]
  /\ mode' = [mode EXCEPT ![c] = "planned"]
  /\ plans' = [plans EXCEPT ![c] = @ + 1]
  /\ UNCHANGED retired

GiveUp(c) ==
  /\ mode[c] \in {"trying", "up"}
  /\ mode' = [mode EXCEPT ![c] = "idle"]
  /\ UNCHANGED <<plans, retired>>

Retry(c) ==
  /\ mode[c] = "planned"
  /\ mode' = [mode EXCEPT ![c] = "trying"]
  /\ UNCHANGED <<plans, retired>>

Succeed(c) ==
  /\ \/ mode[c] = "trying" /\ mode' = [mode EXCEPT ![c] = "up"]
     \/ mode[c] = "up" /\ UNCHANGED mode
  /\ plans' \in {plans, [plans EXCEPT ![c] = 0]}
  /\ UNCHANGED retired

\* Retiring cancels plans; starting replacements may be part of the step.
Retire(R, C) ==
  /\ R \cap C = {}
  /\ \A c \in C : mode[c] = "unused"
  /\ retired' = retired \cup R
  /\ mode' = [c \in Conn |-> IF c \in C THEN "trying"
                ELSE IF c \in R /\ mode[c] = "planned" THEN "idle" ELSE mode[c]]
  /\ UNCHANGED plans

SupNext ==
  \/ \E c \in Conn : Plan(c) \/ GiveUp(c) \/ Retry(c) \/ Succeed(c)
  \/ \E R, C \in SUBSET Conn : Retire(R, C)

SupSpec == SupInit /\ [][SupNext]_supVars
=============================================================================
