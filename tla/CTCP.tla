-------------------------------- MODULE CTCP --------------------------------
(***************************************************************************)
(* The limit on CTCP requests (ctcpQuery of system/protocols/irc/protocol):*)
(* a counter of requests and the time of its last reset.  Times are kept   *)
(* as what has passed since, which counts no further than Forever.         *)
(***************************************************************************)
EXTENDS Naturals, Sequences

CONSTANTS
  CtcpTime,   \* ctcp_time
  CtcpCount   \* ctcp_count

ASSUME CTCPAssumption == CtcpTime \in Nat /\ CtcpCount \in Nat \ {0}

Forever == CtcpTime + 1

\* One more than may be answered within ctcp_time.
Remembered == 2 * CtcpCount + 1

VARIABLES
  since,     \* the time since _ctcp_flood_last
  count,     \* _ctcp_flood_count
  answers,   \* how long ago requests were answered, the last Remembered of them
  blocked    \* how long ago the last request was blocked

ctcpVars == <<since, count, answers, blocked>>

CTCPInit == since = Forever /\ count = 0 /\ answers = <<>> /\ blocked = Forever

\* "ACTION" is not limited and not answered; Twisted answers PING and others,
\* and nobody what it does not know.
Query == {"ACTION", "VERSION", "unknown"}

\* Without the count of a time that has passed.
Counted == (IF since > CtcpTime THEN 0 ELSE count) + 1

NotPostponedBug(age) == age

\* Being blocked starts the time again.
Postponed(age) == 0

Answered == Append(IF Len(answers) = Remembered THEN Tail(answers) ELSE answers, 0)

\* The counter cannot run over: what it is beyond the limit tells nothing.
Received(q) ==
  IF q = "ACTION" THEN UNCHANGED ctcpVars
  ELSE LET reset == IF since > CtcpTime THEN 0 ELSE since
       IN IF Counted > CtcpCount
          THEN /\ count' = CtcpCount + 1 /\ since' = Postponed(reset)
               /\ blocked' = 0 /\ UNCHANGED answers
          ELSE /\ count' = Counted /\ since' = reset
               /\ answers' = IF q = "VERSION" THEN Answered ELSE answers
               /\ UNCHANGED blocked

Older(age) == IF age = Forever THEN age ELSE age + 1

Second ==
  /\ since' = Older(since) /\ blocked' = Older(blocked)
  /\ answers' = [i \in DOMAIN answers |-> Older(answers[i])]
  /\ UNCHANGED count

CTCPNext == Second \/ \E q \in Query : Received(q)
=============================================================================
