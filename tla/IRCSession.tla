----------------------------- MODULE IRCSession -----------------------------
(***************************************************************************)
(* How the IRC protocol signs on and comes into its channels               *)
(* (system/protocols/irc/protocol): SASL while it registers, two timers of *)
(* five seconds after the welcome, and a timer after a kick.               *)
(*                                                                         *)
(* Each connection has a Protocol object of its own, and its timers are    *)
(* not cancelled when it is lost.  The lines of a connection, held back by *)
(* the rate limit or under way, reach the server in order, or are lost     *)
(* with it.  The server is external; what it tells the bot, and the bot's  *)
(* handler, are one step.                                                  *)
(***************************************************************************)
EXTENDS Naturals, Sequences

CONSTANTS
  Channel,
  Listed,     \* config["channels"], in their order
  Keyed,      \* channels that nobody enters without their key
  NoChannel,
  MaxConns,   \* bound: connections
  MaxAsked    \* bound: kicks, invitations and commands on a connection

ASSUME ChannelAssumption == Listed \in Seq(Channel) /\ Keyed \subseteq Channel /\ NoChannel \notin Channel
ASSUME SessionAssumption == {MaxConns, MaxAsked} \subseteq Nat

Config == [auth : {"none", "line", "sasl"}, kick_rejoin : BOOLEAN, invite_join : BOOLEAN]

VARIABLES
  config,
  conn,      \* the connection, or the one before: its Protocol object
  link,
  sasl,      \* what the server has made of CAP REQ
  lines,     \* lines on their way
  timers,    \* calls the reactor will make
  joined,    \* channels the bot is in
  refused,   \* channels the server has not let it into when last asked
  kicked,    \* channels it was kicked from and has not asked for since
  reasons,   \* channels this connection was invited, or told, to join
  asked,     \* kicks, invitations and commands
  setUp      \* PostSetup events of each connection

ircVars == <<config, conn, link, sasl, lines, timers, joined, refused, kicked, reasons, asked, setUp>>

Line ==
  [do : {"CAP REQ", "NICK", "AUTHENTICATE", "CAP END", "IDENTIFY"}, chan : {NoChannel}, key : {FALSE}]
  \cup [do : {"JOIN", "PART"}, chan : Channel, key : BOOLEAN]
Timer ==
  [call : {"do_sign_on", "do_channel_joins"}, conn : 1 .. MaxConns, chan : {NoChannel}]
  \cup [call : {"join_channel"}, conn : 1 .. MaxConns, chan : Channel]

IRCInit ==
  /\ config \in Config
  /\ conn = 0 /\ link = "down" /\ sasl = "none"
  /\ lines = <<>> /\ timers = {}
  /\ joined = {} /\ refused = {} /\ kicked = {} /\ reasons = {} /\ asked = 0
  /\ setUp = [n \in 1 .. MaxConns |-> 0]

-----------------------------------------------------------------------------
Say(what) == [do |-> what, chan |-> NoChannel, key |-> FALSE]
Join(c, key) == [do |-> "JOIN", chan |-> c, key |-> key]
Call(call, n, c) == [call |-> call, conn |-> n, chan |-> c]

Up == link # "down"
Server == <<sasl, joined, refused, kicked>>

\* sendLine, of the object of connection n: on a lost connection it does
\* nothing.
Sent(n, more) == IF Up /\ n = conn THEN lines \o more ELSE lines
Send(more) == lines' = lines \o more

\* connectionMade and register.
Connect ==
  /\ ~Up /\ conn < MaxConns
  /\ conn' = conn + 1
  /\ link' = "registering"
  /\ lines' = IF config.auth = "sasl" THEN <<Say("CAP REQ"), Say("NICK")>> ELSE <<Say("NICK")>>
  /\ UNCHANGED <<config, timers, Server, reasons, asked, setUp>>

\* The connection is lost, or shutdown() closes it.
Drop ==
  /\ Up
  /\ link' = "down" /\ lines' = <<>>
  /\ joined' = {} /\ refused' = {} /\ kicked' = {} /\ reasons' = {} /\ asked' = 0
  /\ sasl' = "none"
  /\ UNCHANGED <<config, conn, timers, setUp>>

-----------------------------------------------------------------------------
(***************************************************************************)
(* Signing on                                                              *)
(***************************************************************************)
\* irc_CAP and sendSASL: after a refusal, nothing.
CapAnswered(answer) == IF answer = "ACK" THEN <<Say("AUTHENTICATE")>> ELSE <<>>

\* irc_903 ends the negotiation, irc_904 and irc_905 do not.
NeverEndedBug(accepted) == <<>>
LoginAnswered(accepted) == IF accepted THEN <<Say("CAP END")>> ELSE <<>>

\* The server waits for the end of a negotiation it has taken notice of, also
\* of one in which it has refused the capability or the login.
Negotiate ==
  \/ /\ Head(lines).do = "CAP REQ"
     /\ \E answer \in {"ACK", "NAK", "unknown"} :
          /\ sasl' = CASE answer = "ACK" -> "open" [] answer = "NAK" -> "refused" [] OTHER -> "none"
          /\ lines' = Tail(lines) \o CapAnswered(answer)
  \/ /\ Head(lines).do = "AUTHENTICATE"
     /\ \E accepted \in BOOLEAN :
          /\ sasl' = IF accepted THEN "open" ELSE "refused"
          /\ lines' = Tail(lines) \o LoginAnswered(accepted)
  \/ Head(lines).do = "CAP END" /\ sasl' = "ended" /\ lines' = Tail(lines)
  \/ Head(lines).do \in {"NICK", "IDENTIFY"} /\ lines' = Tail(lines) /\ UNCHANGED sasl

Registers ==
  /\ lines # <<>>
  /\ Negotiate
  /\ UNCHANGED <<config, conn, link, timers, joined, refused, kicked, reasons, asked, setUp>>

\* signedOn, once the server has the nick and the negotiation is over.
Welcome ==
  /\ link = "registering" /\ lines = <<>> /\ sasl \notin {"open", "refused"}
  /\ link' = "online"
  /\ timers' = timers \cup {Call("do_sign_on", conn, NoChannel)}
  /\ UNCHANGED <<config, conn, lines, Server, reasons, asked, setUp>>

\* What do_sign_on sends, "perform" included, and do_channel_joins.
SignsOn == IF config.auth = "line" THEN <<Say("IDENTIFY")>> ELSE <<>>

ListedChannels == {Listed[i] : i \in DOMAIN Listed}
JoinsListed == [i \in DOMAIN Listed |-> Join(Listed[i], Listed[i] \in Keyed)]

OnLatestBug(n, connection) == connection

\* A timer runs for the object that set it.
Fires(n, connection) == n

\* A timer.  After a kick there is no key: the channels of the configuration
\* are a list, in which the name of the channel is not.
Fire(t) ==
  /\ LET n == Fires(t.conn, conn)
     IN CASE t.call = "do_sign_on" ->
               /\ lines' = Sent(n, SignsOn)
               /\ timers' = (timers \ {t}) \cup {Call("do_channel_joins", t.conn, NoChannel)}
               /\ UNCHANGED setUp
          [] t.call = "do_channel_joins" ->
               /\ lines' = Sent(n, JoinsListed)
               /\ timers' = timers \ {t}
               /\ setUp' = [setUp EXCEPT ![t.conn] = @ + 1]
          [] t.call = "join_channel" ->
               /\ lines' = Sent(n, <<Join(t.chan, FALSE)>>)
               /\ timers' = timers \ {t}
               /\ UNCHANGED setUp
  /\ UNCHANGED <<config, conn, link, Server, reasons, asked>>

-----------------------------------------------------------------------------
(***************************************************************************)
(* Channels                                                                *)
(***************************************************************************)
\* The server lets the bot in or does not, and never without the key.
JoinAnswered ==
  /\ lines # <<>> /\ Head(lines).do = "JOIN"
  /\ LET c == Head(lines).chan
     IN /\ \/ /\ c \in Keyed => Head(lines).key \/ c \in joined
              /\ joined' = joined \cup {c} /\ refused' = refused \ {c}
           \/ c \notin joined /\ refused' = refused \cup {c} /\ UNCHANGED joined
        /\ kicked' = kicked \ {c}
  /\ lines' = Tail(lines)
  /\ UNCHANGED <<config, conn, link, sasl, timers, reasons, asked, setUp>>

PartAnswered ==
  /\ lines # <<>> /\ Head(lines).do = "PART"
  /\ joined' = joined \ {Head(lines).chan}
  /\ lines' = Tail(lines)
  /\ UNCHANGED <<config, conn, link, sasl, timers, refused, kicked, reasons, asked, setUp>>

AskMore == link = "online" /\ asked < MaxAsked /\ asked' = asked + 1

\* Rejoining is per channel in the configuration too, where it is not found.
RejoinsListedBug(c) == config.kick_rejoin /\ c \in ListedChannels
Rejoins(c) == config.kick_rejoin

\* kickedFrom
KickedFrom(c) ==
  /\ AskMore /\ c \in joined
  /\ joined' = joined \ {c} /\ kicked' = kicked \cup {c}
  /\ timers' = IF Rejoins(c) THEN timers \cup {Call("join_channel", conn, c)} ELSE timers
  /\ UNCHANGED <<config, conn, link, sasl, lines, refused, reasons, setUp>>

\* An invitation, in irc_unknown, or the join command of the control plugin.
InvitedTo(c, command) ==
  /\ AskMore /\ c \notin joined
  /\ command \/ config.invite_join
  /\ Send(<<Join(c, FALSE)>>)
  /\ reasons' = reasons \cup {c}
  /\ UNCHANGED <<config, conn, link, Server, timers, setUp>>

\* The leave command.
Leave(c) ==
  /\ AskMore /\ c \in joined
  /\ Send(<<[do |-> "PART", chan |-> c, key |-> FALSE]>>)
  /\ UNCHANGED <<config, conn, link, Server, timers, reasons, setUp>>

ServerStep == Registers \/ Welcome \/ JoinAnswered \/ PartAnswered

IRCNext ==
  \/ Connect \/ Drop \/ ServerStep
  \/ \E t \in timers : Fire(t)
  \/ \E c \in Channel : KickedFrom(c) \/ Leave(c) \/ \E b \in BOOLEAN : InvitedTo(c, b)

\* What must go on: a server that is up answers, the reactor makes its calls.
IRCProgress == ServerStep \/ \E t \in timers : Fire(t)

IRCTypeOK ==
  /\ config \in Config /\ conn \in 0 .. MaxConns
  /\ link \in {"down", "registering", "online"} /\ sasl \in {"none", "open", "refused", "ended"}
  /\ lines \in Seq(Line) /\ timers \subseteq Timer
  /\ UNION {joined, refused, kicked, reasons} \subseteq Channel
  /\ asked \in 0 .. MaxAsked /\ setUp \in [1 .. MaxConns -> 0 .. 1]
=============================================================================
