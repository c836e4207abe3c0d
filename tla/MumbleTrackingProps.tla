------------------------- MODULE MumbleTrackingProps -------------------------
(* Properties of MumbleTracking: the bot's picture of its server.          *)
EXTENDS MumbleTracking

\* Users and channels agree, in every class of protocol that ever was and
\* through messages that raise halfway: a user is listed by the channel it is
\* in, and by no other, exactly as long as it is in users.
MembersAgree ==
  \A k \in Class, s \in Session, h \in Chan :
    s \in members[k][h] <=> users[k][s] # None /\ users[k][s][2] = h

\* users are exactly the people on c's server, by name and channel.
Exact(c) ==
  \A s \in Session :
    users[class[c]][s] = IF s \in Online(c) THEN <<name[c][s], at[c][s]>> ELSE None

\* The connection is up and its first messages are through, and it is not the
\* first one of its factory.
Again(c) == Told(c) /\ builds[c] = 2

\* A protocol that connects again tracks exactly who is there, whatever the
\* connections before have left behind, those of an unloaded factory as well,
\* and the bot knows which user it is itself, so that it can speak (msg uses
\* ourselves.channel) and tell its own messages.
UsersAreExact == \A c \in Conn : Again(c) => Exact(c) /\ ourselves[c] = mine[c]

\* Every channel of the server can be found, and none from a connection
\* before: removals go unnoticed, but only for as long as the connection.
ChannelsAreFound ==
  [][\A c \in Conn :
       /\ Again(c) => exists[c] \subseteq channels[class[c]]
       /\ ~Told(c) /\ Again(c)' => channels'[class'[c]] = exists'[c]]_vars

=============================================================================
