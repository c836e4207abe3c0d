------------------------------ MODULE Sessions ------------------------------
(***************************************************************************)
(* What the protocols do by themselves on a connection: three machines     *)
(* that share nothing, of which each behaviour runs one.                   *)
(***************************************************************************)
EXTENDS IRCSession, CTCP, MumbleSession

VARIABLE part

vars == <<part, ircVars, ctcpVars, mumbleVars>>

\* The configuration matters to its own part only.
Init ==
  /\ part \in {"irc", "ctcp", "mumble"}
  /\ IRCInit /\ CTCPInit /\ MumbleInit
  /\ part # "irc" => config = [auth |-> "none", kick_rejoin |-> FALSE, invite_join |-> FALSE]
  /\ part # "mumble" => section = "missing"

IRC == part = "irc" /\ IRCNext /\ UNCHANGED <<part, ctcpVars, mumbleVars>>
Requests == part = "ctcp" /\ CTCPNext /\ UNCHANGED <<part, ircVars, mumbleVars>>
Mumble == part = "mumble" /\ MumbleNext /\ UNCHANGED <<part, ircVars, ctcpVars>>

Next == IRC \/ Requests \/ Mumble

\* An IRC server that is up answers and the reactor makes its calls.
Progress == part = "irc" /\ IRCProgress /\ UNCHANGED <<part, ctcpVars, mumbleVars>>

Spec == Init /\ [][Next]_vars /\ WF_vars(Progress)

-----------------------------------------------------------------------------
(***************************************************************************)
(* Properties of what the protocols do by themselves on a connection.      *)
(***************************************************************************)
SigningOn(n) == Call("do_sign_on", n, NoChannel) \in timers

\* A connection to IRC comes to what it is for, as long as it lasts.  The bot
\* is welcomed, unless the server has refused its SASL login: nobody ends that
\* negotiation.  It then asks for every listed channel and is let in or refused;
\* PostSetup comes even for a connection that is gone by then.  With kick_rejoin
\* a kick from any channel, listed or not, is made good: the bot is in again, or
\* the server has refused it since.
SettlesIn ==
  /\ (link = "registering") ~> (link # "registering" \/ sasl = "refused")
  /\ \A n \in 1 .. MaxConns :
       /\ SigningOn(n) ~> (setUp[n] = 1)
       /\ \A c \in ListedChannels :
            (SigningOn(n) /\ link = "online" /\ conn = n)
              ~> (c \in joined \cup refused \/ link = "down" \/ conn # n)
  /\ \A c \in Channel :
       (c \in kicked /\ config.kick_rejoin) ~> (c \in joined \cup refused \/ link = "down")

\* The bot is in no channel that is not listed and that nobody has invited or
\* told it to join on this connection, whatever timers of the connection
\* before still run.
OnlyWherePut == joined \subseteq ListedChannels \cup reasons

\* CTCP requests are answered no more than twice ctcp_count times within
\* ctcp_time, and not at all from the first that is blocked on until nobody
\* has asked for longer than ctcp_time.
FloodsAreCutOff ==
  /\ Len(answers) > 2 * CtcpCount => answers[1] > CtcpTime
  /\ blocked <= CtcpTime => \A i \in DOMAIN answers : answers[i] >= blocked

Bad == {"invalid", "garbled"}

\* The frames that dataReceived has to handle: those that have arrived as a
\* whole, up to the first that cannot be understood.
Whole == SubSeq(stream, 1, arrived \div 2)
Due == {i \in DOMAIN Whole : \A j \in 1 .. i : Whole[j] \notin Bad}

\* Each frame is handled once and in order, however the stream is cut into
\* pieces and whatever handlers raise, and none stays behind in the buffer.
FramesAreHandledOnce ==
  /\ \E n \in 0 .. Len(stream) : handled = SubSeq(stream, 1, n)
  /\ ~looping => DOMAIN handled = Due
=============================================================================
