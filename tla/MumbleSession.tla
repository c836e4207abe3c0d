--------------------------- MODULE MumbleSession ---------------------------
(***************************************************************************)
(* A connection of the Mumble protocol (system/protocols/mumble/protocol): *)
(* frames that arrive in pieces, the handlers they call, the channel of    *)
(* the configuration, pings and requests for statistics.                   *)
(*                                                                         *)
(* A piece is a header or a body; the parts of a header make no difference.*)
(* dataReceived is one call of the reactor and goes through its loop step  *)
(* by step.  The server is external.                                       *)
(***************************************************************************)
EXTENDS Naturals, Sequences

CONSTANT MaxFrames  \* bound: frames the server sends

ASSUME MumbleAssumption == MaxFrames \in Nat

\* What a frame does to the bot: "self" is the UserState of the bot's own
\* session; "raises" stands for what a handler does not expect, such as
\* UserStats of a session that is gone; "garbled" does not parse as a message
\* of its type; "invalid" has a type that there is not.
Frame == {"Version", "self", "UDPTunnel", "Reject", "raises", "garbled", "invalid"}

\* The "channel" section: what it names, a channel that there is or is not.
Section == {"existing", "unknown", "neither", "missing"}

VARIABLES
  section,
  state,     \* "new", "up", "closing" after loseConnection, "down"
  stream,    \* frames the server has sent
  arrived,   \* pieces of them that have, two for each frame
  received,  \* Protocol.received, in pieces
  looping,   \* inside dataReceived
  handled,   \* frames that were handled
  self,      \* ourselves is set
  wants,     \* join_channel was called
  pinging,
  calls      \* "ping" and "stats": calls the reactor will make

mumbleVars == <<section, state, stream, arrived, received, looping, handled, self, wants, pinging, calls>>

MumbleInit ==
  /\ section \in Section
  /\ state = "new"
  /\ stream = <<>> /\ arrived = 0 /\ received = <<>> /\ looping = FALSE /\ handled = <<>>
  /\ self = FALSE /\ wants = FALSE
  /\ pinging = TRUE /\ calls = {}

Open == state \in {"up", "closing"}
Idle == ~looping

\* connectionMade: the version, the login, two timers and the UserState.
Begin ==
  /\ state = "new"
  /\ state' = "up" /\ calls' = {"ping", "stats"}
  /\ UNCHANGED <<section, stream, arrived, received, looping, handled, self, wants, pinging>>

\* connectionLost; the ping under way ends by itself.
LostThen ==
  /\ state' = "down" /\ pinging' = FALSE
  /\ calls' = calls \ {"stats"}

Lose ==
  /\ Open /\ Idle
  /\ LostThen
  /\ UNCHANGED <<section, stream, arrived, received, looping, handled, self, wants>>

SendFrame(f) ==
  /\ Open /\ Len(stream) < MaxFrames
  /\ stream' = Append(stream, f)
  /\ UNCHANGED <<section, state, arrived, received, looping, handled, self, wants, pinging, calls>>

\* dataReceived, with the next pieces; also after loseConnection, until the
\* connection is closed.
Piece(i) == [frame |-> stream[(i + 1) \div 2], part |-> IF i % 2 = 1 THEN "header" ELSE "body"]

DataReceived(n) ==
  /\ Open /\ Idle
  /\ n > arrived /\ n <= 2 * Len(stream)
  /\ received' = received \o [i \in 1 .. n - arrived |-> Piece(arrived + i)]
  /\ arrived' = n
  /\ looping' = TRUE
  /\ UNCHANGED <<section, state, stream, handled, self, wants, pinging, calls>>

-----------------------------------------------------------------------------
(***************************************************************************)
(* The loop                                                                *)
(***************************************************************************)
Current == received[1].frame

StaysWhenRaisingBug(f) == f # "raises"

\* The frame leaves the buffer whether its handler raised an exception or not.
Consumed(f) == TRUE

NeedsMore == IF received = <<>> THEN TRUE ELSE Len(received) = 1 /\ Current # "invalid"

\* Less than a frame is there.
WaitForMore ==
  /\ looping /\ NeedsMore
  /\ looping' = FALSE
  /\ UNCHANGED <<section, state, stream, arrived, received, handled, self, wants, pinging, calls>>

\* A type that there is not: its frame stays in the buffer for good.
NotAvailable ==
  /\ looping /\ ~NeedsMore /\ Current = "invalid"
  /\ state' = "closing" /\ looping' = FALSE
  /\ UNCHANGED <<section, stream, arrived, received, handled, self, wants, pinging, calls>>

\* ParseFromString is outside of the try: the reactor drops the connection.
DoesNotParse ==
  /\ looping /\ ~NeedsMore /\ Current = "garbled"
  /\ looping' = FALSE
  /\ LostThen
  /\ UNCHANGED <<section, stream, arrived, received, handled, self, wants>>

\* recvProtobuf and recv_UDP.  The user that has the bot's name is the bot,
\* and asks for the channel of the configuration if it can be found.
Handle ==
  /\ looping /\ ~NeedsMore /\ Current \notin {"invalid", "garbled"}
  /\ handled' = Append(handled, Current)
  /\ received' = IF Consumed(Current) THEN SubSeq(received, 3, Len(received)) ELSE received
  /\ state' = IF Current = "Reject" THEN "closing" ELSE state
  /\ pinging' = (pinging /\ Current # "Reject")
  /\ self' = (self \/ Current = "self")
  /\ wants' = (wants \/ (Current = "self" /\ ~self /\ section = "existing"))
  /\ UNCHANGED <<section, stream, arrived, looping, calls>>

-----------------------------------------------------------------------------
\* ping_handler; the statistics are asked for again and again.
Ping ==
  /\ Idle /\ "ping" \in calls
  /\ calls' = IF pinging THEN calls ELSE calls \ {"ping"}
  /\ UNCHANGED <<section, state, stream, arrived, received, looping, handled, self, wants, pinging>>

\* shutdown says good-bye in the bot's channel first, which raises an exception
\* as long as the bot does not know itself.
Shutdown ==
  /\ Open /\ Idle /\ self
  /\ state' = "closing" /\ calls' = calls \ {"stats"}
  /\ UNCHANGED <<section, stream, arrived, received, looping, handled, self, wants, pinging>>

Loop == WaitForMore \/ NotAvailable \/ DoesNotParse \/ Handle

MumbleNext ==
  \/ Begin \/ Lose \/ Loop \/ Ping \/ Shutdown
  \/ \E f \in Frame : SendFrame(f)
  \/ \E n \in 1 .. 2 * MaxFrames : DataReceived(n)
=============================================================================
