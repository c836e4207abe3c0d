---------------------------- MODULE MumbleTracking ----------------------------
(***************************************************************************)
(* User tracking in the Mumble protocol (system/protocols/mumble/protocol, *)
(* user, channel): the channels and users that the handlers of             *)
(* ChannelState, UserState and UserRemove keep, through drops,             *)
(* reconnections and reloads.                                              *)
(*                                                                         *)
(* `channels` and `users` are attributes of the Protocol class, not of its *)
(* instances.  What makes a new connection start empty is that the factory *)
(* reloads the module, and so makes a new class, each time it builds a     *)
(* protocol - but not the first time (system/protocols/generic/factory).   *)
(*                                                                         *)
(* Each protocol has a server of its own, which is external.  Once the bot *)
(* is in, the server sends what there is, message by message, and then     *)
(* each change; messages stay in order, so that a change and its handler   *)
(* are one step.  An exception in a handler is logged by dataReceived, and *)
(* what the handler had done by then stays.                                *)
(***************************************************************************)
EXTENDS Integers, FiniteSets

CONSTANTS
  Conn,      \* names of the Mumble protocols
  Session,   \* the session numbers a server gives out
  Chan,      \* channel IDs
  Root,      \* the channel that is always there, ID 0
  Person,    \* names of users
  Bot,       \* the bot's username, on each of the servers
  Class,     \* identities of Protocol classes; a bound: never run out of
  None       \* no session, no channel, no user

ASSUME RootAssumption == Root \in Chan
ASSUME BotAssumption == Bot \in Person
ASSUME NoneAssumption ==
  /\ None \notin Session \cup Chan \cup Person \cup Class
  /\ None \notin (Person \cup {None}) \X Chan
\* There are more classes than protocols.
ASSUME ClassAssumption ==
  Class # {} /\ \A f \in [Conn -> Class] : \E k \in Class : \A c \in Conn : f[c] # k

VARIABLES
  exists, name, at,  \* per server: its channels, each session's user and channel
  mine,       \* per protocol: the session of its connection
  pending,    \* per protocol: what the server still has to tell it of
  builds,     \* per protocol: how often its factory has built one; 2 is more than once
  latest,     \* the Protocol class the module holds now
  class,      \* per protocol: the class of its current instance
  channels,   \* per class: keys of Protocol.channels
  users,      \* per class: Protocol.users, by session: <<name, channel>>
  members,    \* per class and channel: sessions of Channel.users
  ourselves   \* per protocol: session of Protocol.ourselves

truth == <<exists, name, at>>
tables == <<channels, users, members>>
modules == <<builds, latest, class>>
vars == <<truth, mine, pending, modules, tables, ourselves>>

\* Channels and sessions the server has yet to tell of.
Message == [kind : {"ChannelState"}, id : Chan] \cup [kind : {"UserState"}, id : Session]

TypeOK ==
  /\ exists \in [Conn -> SUBSET Chan]
  /\ name \in [Conn -> [Session -> Person \cup {None}]]
  /\ at \in [Conn -> [Session -> Chan \cup {None}]]
  /\ mine \in [Conn -> Session \cup {None}]
  /\ pending \in [Conn -> SUBSET Message]
  /\ builds \in [Conn -> 0..2]
  /\ latest \in Class
  /\ class \in [Conn -> Class \cup {None}]
  /\ channels \in [Class -> SUBSET Chan]
  /\ users \in [Class -> [Session -> (Person \X Chan) \cup {None}]]
  /\ members \in [Class -> [Chan -> SUBSET Session]]
  /\ ourselves \in [Conn -> Session \cup {None}]

\* The module was imported; nobody is connected, to no server.
Init ==
  /\ exists = [c \in Conn |-> {Root}]
  /\ name = [c \in Conn |-> [s \in Session |-> None]]
  /\ at = [c \in Conn |-> [s \in Session |-> None]]
  /\ mine = [c \in Conn |-> None]
  /\ pending = [c \in Conn |-> {}]
  /\ builds = [c \in Conn |-> 0]
  /\ latest = CHOOSE k \in Class : TRUE
  /\ class = [c \in Conn |-> None]
  /\ channels = [k \in Class |-> {}]
  /\ users = [k \in Class |-> [s \in Session |-> None]]
  /\ members = [k \in Class |-> [h \in Chan |-> {}]]
  /\ ourselves = [c \in Conn |-> None]

-----------------------------------------------------------------------------
Up(c) == mine[c] # None
Online(c) == {s \in Session : at[c][s] # None}
\* Nothing is on its way to c.
Quiet(c) == pending[c] = {}
Told(c) == Up(c) /\ Quiet(c)

-----------------------------------------------------------------------------
(***************************************************************************)
(* Handlers, for an instance of class k                                    *)
(***************************************************************************)
\* Faulty variants named ...Bug are used by the mutants of PROJECT.json only.
OnlyRootBug(k, h) ==
  channels' = [channels EXCEPT ![k] = IF @ = {} THEN {h} ELSE @]

\* handle_msg_channelstate: of a channel it knows, it takes the links only.
\* There is no handler for ChannelRemove.
ChannelState(k, h) == channels' = [channels EXCEPT ![k] = @ \cup {h}]

\* handle_msg_userstate for a session that is not in users.  Without a
\* channel_id, message.channel_id is 0.  A channel that is not known raises.
UserJoins(k, s, n, h) ==
  IF h \notin channels[k] THEN UNCHANGED <<users, members>>
  ELSE /\ users' = [users EXCEPT ![k][s] = <<n, h>>]
       /\ members' = [members EXCEPT ![k][h] = @ \cup {s}]

StaysInOldBug(k, s, actor, h) ==
  IF users[k][s] = None \/ users[k][actor] = None \/ h \notin channels[k]
  THEN UNCHANGED <<users, members>>
  ELSE /\ members' = [members EXCEPT ![k][h] = @ \cup {s}]
       /\ users' = [users EXCEPT ![k][s] = <<users[k][s][1], h>>]

\* handle_msg_userstate for a session that is, with a channel_id: users and
\* channels that are not known raise before anything is changed.
UserMoves(k, s, actor, h) ==
  IF users[k][s] = None \/ users[k][actor] = None \/ h \notin channels[k]
  THEN UNCHANGED <<users, members>>
  ELSE /\ members' = [members EXCEPT ![k] = [g \in Chan |->
            (IF g = users[k][s][2] THEN @[g] \ {s} ELSE @[g]) \cup (IF g = h THEN {s} ELSE {})]]
       /\ users' = [users EXCEPT ![k][s] = <<users[k][s][1], h>>]

\* A user who joins under the configured username is taken for the bot.
Recognise(c, s, n) ==
  ourselves' = [ourselves EXCEPT ![c] =
    IF n = Bot /\ users[class[c]][s] = None /\ users'[class[c]][s] # None THEN s ELSE @]

\* UserState of session s, as the server sends it when a user is new to the
\* bot: with a name, and a channel_id unless the user is in the root.
UserState(c, s, n, h) ==
  LET k == class[c]
  IN /\ IF users[k][s] = None THEN UserJoins(k, s, n, h)
        ELSE IF h = Root THEN UNCHANGED <<users, members>>
        ELSE UserMoves(k, s, s, h)
     /\ Recognise(c, s, n)

\* UserRemove, by leaving, kick or ban.
UserRemove(k, s) ==
  IF users[k][s] = None THEN UNCHANGED <<users, members>>
  ELSE /\ members' = [members EXCEPT ![k][users[k][s][2]] = @ \ {s}]
       /\ users' = [users EXCEPT ![k][s] = None]

-----------------------------------------------------------------------------
(***************************************************************************)
(* What happens on server c, and c's handler for it                        *)
(***************************************************************************)
Join(c, s, n) ==
  /\ Quiet(c)
  /\ s \notin Online(c) /\ n # Bot /\ \A r \in Online(c) : name[c][r] # n
  /\ at' = [at EXCEPT ![c][s] = Root]
  /\ name' = [name EXCEPT ![c][s] = n]
  /\ IF Up(c) THEN UserState(c, s, n, Root) ELSE UNCHANGED <<users, members, ourselves>>
  /\ UNCHANGED <<exists, mine, pending, modules, channels>>

\* s moves, or is moved by actor; the bot's own move follows join_channel.
Move(c, s, actor, h) ==
  /\ Quiet(c)
  /\ {s, actor} \subseteq Online(c) /\ h \in exists[c] \ {at[c][s]}
  /\ at' = [at EXCEPT ![c][s] = h]
  /\ IF Up(c) THEN UserMoves(class[c], s, actor, h) ELSE UNCHANGED <<users, members>>
  /\ UNCHANGED <<exists, name, mine, pending, modules, channels, ourselves>>

Leave(c, s) ==
  /\ Quiet(c)
  /\ s \in Online(c) \ {mine[c]}
  /\ at' = [at EXCEPT ![c][s] = None]
  /\ name' = [name EXCEPT ![c][s] = None]
  /\ IF Up(c) THEN UserRemove(class[c], s) ELSE UNCHANGED <<users, members>>
  /\ UNCHANGED <<exists, mine, pending, modules, channels, ourselves>>

AddChannel(c, h) ==
  /\ Quiet(c)
  /\ h \notin exists[c]
  /\ exists' = [exists EXCEPT ![c] = @ \cup {h}]
  /\ IF Up(c) THEN ChannelState(class[c], h) ELSE UNCHANGED channels
  /\ UNCHANGED <<name, at, mine, pending, modules, users, members, ourselves>>

\* The server first moves the users of the channel out of it.
RemoveChannel(c, h) ==
  /\ Quiet(c)
  /\ h \in exists[c] \ {Root} /\ \A s \in Session : at[c][s] # h
  /\ exists' = [exists EXCEPT ![c] = @ \ {h}]
  /\ UNCHANGED <<name, at, mine, pending, modules, tables, ourselves>>

-----------------------------------------------------------------------------
(***************************************************************************)
(* Connections                                                             *)
(***************************************************************************)
Fresh == CHOOSE k \in Class : k # latest /\ \A c \in Conn : class[c] # k

ReloadsNotBug(c) ==
  /\ class' = [class EXCEPT ![c] = latest]
  /\ builds' = [builds EXCEPT ![c] = IF @ = 0 THEN 1 ELSE 2]
  /\ UNCHANGED <<latest, tables>>

\* load_module and Protocol(): the first time, the factory imports the module,
\* which other factories have made Python load before; then it reloads it.
Build(c) ==
  /\ builds' = [builds EXCEPT ![c] = IF @ = 0 THEN 1 ELSE 2]
  /\ IF builds[c] = 0
     THEN /\ class' = [class EXCEPT ![c] = latest]
          /\ UNCHANGED <<latest, tables>>
     ELSE /\ latest' = Fresh
          /\ class' = [class EXCEPT ![c] = Fresh]
          /\ channels' = [channels EXCEPT ![Fresh] = {}]
          /\ users' = [users EXCEPT ![Fresh] = [s \in Session |-> None]]
          /\ members' = [members EXCEPT ![Fresh] = [h \in Chan |-> {}]]

\* The protocol is built, connects and is authenticated as session s; the
\* server sends all channels, and all users, the bot among them.
Connect(c, s) ==
  /\ ~Up(c) /\ s \notin Online(c)
  /\ Build(c)
  /\ ourselves' = [ourselves EXCEPT ![c] = None]
  /\ mine' = [mine EXCEPT ![c] = s]
  /\ at' = [at EXCEPT ![c][s] = Root]
  /\ name' = [name EXCEPT ![c][s] = Bot]
  /\ pending' = [pending EXCEPT ![c] =
       [kind : {"ChannelState"}, id : exists[c]] \cup
       [kind : {"UserState"}, id : Online(c) \cup {s}]]
  /\ UNCHANGED exists

\* recvProtobuf, for what the server tells first.  Users come after channels.
Receive(c, m) ==
  /\ m \in pending[c]
  /\ m.kind = "UserState" => \A o \in pending[c] : o.kind = "UserState"
  /\ pending' = [pending EXCEPT ![c] = @ \ {m}]
  /\ IF m.kind = "ChannelState"
     THEN ChannelState(class[c], m.id) /\ UNCHANGED <<users, members, ourselves>>
     ELSE UserState(c, m.id, name[c][m.id], at[c][m.id]) /\ UNCHANGED channels
  /\ UNCHANGED <<truth, mine, modules>>

Gone(c) ==
  /\ at' = [at EXCEPT ![c][mine[c]] = None]
  /\ name' = [name EXCEPT ![c][mine[c]] = None]
  /\ mine' = [mine EXCEPT ![c] = None]
  /\ pending' = [pending EXCEPT ![c] = {}]

\* The connection is lost; connectionLost touches none of the tables.
Drop(c) ==
  /\ Up(c)
  /\ Gone(c)
  /\ UNCHANGED <<exists, modules, tables, ourselves>>

\* The bot is kicked: it is told before the connection is closed.
Kicked(c) ==
  /\ Up(c) /\ Quiet(c)
  /\ Gone(c)
  /\ UserRemove(class[c], mine[c])
  /\ UNCHANGED <<exists, modules, channels, ourselves>>

\* reload_protocol: the connection is closed and there is a new factory.
ReloadProtocol(c) ==
  /\ IF Up(c) THEN Gone(c) ELSE UNCHANGED <<at, name, mine, pending>>
  /\ builds' = [builds EXCEPT ![c] = 0]
  /\ UNCHANGED <<exists, latest, class, tables, ourselves>>

Next ==
  \E c \in Conn :
    \/ \E s \in Session, n \in Person : Join(c, s, n)
    \/ \E s, actor \in Session, h \in Chan : Move(c, s, actor, h)
    \/ \E s \in Session : Leave(c, s) \/ Connect(c, s)
    \/ \E h \in Chan : AddChannel(c, h) \/ RemoveChannel(c, h)
    \/ \E m \in Message : Receive(c, m)
    \/ Drop(c) \/ Kicked(c) \/ ReloadProtocol(c)

Spec == Init /\ [][Next]_vars
=============================================================================
