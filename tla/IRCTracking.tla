----------------------------- MODULE IRCTracking -----------------------------
(***************************************************************************)
(* User tracking in the IRC protocol (system/protocols/irc/protocol,       *)
(* user, channel): which User objects exist, which channels they and the   *)
(* Channel objects list, and who is an operator, as the handlers of JOIN,  *)
(* PART, KICK, QUIT, NICK, MODE and WHO replies keep it.                   *)
(*                                                                         *)
(* The server is external: `where`, `nickOf` and `opOf` are the truth, and *)
(* it tells the bot of each change that the bot can see.  Messages arrive  *)
(* in order, so a change and its handler are one step; a WHO is answered   *)
(* at any later time, at one go.  An exception in a handler is logged by   *)
(* Twisted; what the handler had done by then stays.                       *)
(***************************************************************************)
EXTENDS Integers, Sequences, FiniteSets

CONSTANTS
  Person,   \* everybody on the network, by ident and host
  Self,     \* the bot
  Nick, Chan,
  Off,      \* the nick of a person who is not connected
  MayUse,   \* the nicks each person uses
  Obj,      \* identities of User objects; a bound: never run out of
  Nobody,   \* no object
  NoChan,   \* None where a Channel object is expected
  LateWho   \* whether the server answers a WHO for a channel the bot has left

ASSUME SelfAssumption == Self \in Person
ASSUME MayUseAssumption == MayUse \in [Person -> SUBSET Nick]
ASSUME ValuesAssumption == Off \notin Nick /\ Nobody \notin Obj /\ NoChan \notin Chan
ASSUME LateAssumption == LateWho \in BOOLEAN

VARIABLES
  where, nickOf, opOf,  \* the server's channels, nicks and channel operators
  awaited,    \* channels with a WHO the server has not answered
  replies,    \* the rest of the WHO replies being sent: <<person, channel, op>>
  users,      \* Protocol._users, in order
  nick, who,  \* nickname, and ident and host, of each User
  chans, ops, \* User.channels; the channels User._ranks has the user as op in
  known,      \* keys of Protocol._channels
  members,    \* Channel.users of the known channels
  ourselves   \* Protocol.ourselves

truth == <<where, nickOf, opOf>>
objVars == <<nick, who, chans, ops>>
view == <<users, objVars, known, members, ourselves>>
trackingVars == <<truth, awaited, replies, view>>

TypeOK ==
  /\ where \in [Person -> SUBSET Chan]
  /\ nickOf \in [Person -> Nick \cup {Off}]
  /\ opOf \in [Person -> SUBSET Chan]
  /\ awaited \subseteq Chan
  /\ replies \subseteq Person \X Chan \X BOOLEAN
  /\ users \in Seq(Obj)
  /\ nick \in [Obj -> Nick \cup {Off}]
  /\ who \in [Obj -> Person]
  /\ chans \in [Obj -> SUBSET (Chan \cup {NoChan})]
  /\ ops \in [Obj -> SUBSET Chan]
  /\ known \subseteq Chan
  /\ members \in [Chan -> SUBSET Obj]
  /\ ourselves \in Obj \cup {Nobody}

Tracked == {users[i] : i \in DOMAIN users}
BotNick == CHOOSE n \in MayUse[Self] : TRUE

\* signedOn() on a new connection.  Everybody else may already be anywhere.
TrackingInit ==
  /\ nickOf \in {f \in [Person -> Nick \cup {Off}] :
                   /\ \A p \in Person : f[p] \in MayUse[p] \cup {Off}
                   /\ \A p, q \in Person : f[p] = f[q] /\ f[p] # Off => p = q}
  /\ nickOf[Self] = BotNick
  /\ where \in {f \in [Person -> SUBSET Chan] :
                  f[Self] = {} /\ \A p \in Person : nickOf[p] = Off => f[p] = {}}
  /\ opOf \in {f \in [Person -> SUBSET Chan] : \A p \in Person : f[p] \subseteq where[p]}
  /\ awaited = {}
  /\ replies = {}
  /\ users = <<>>
  /\ nick = [o \in Obj |-> Off]
  /\ who = [o \in Obj |-> Self]
  /\ chans = [o \in Obj |-> {}]
  /\ ops = [o \in Obj |-> {}]
  /\ known = {}
  /\ members = [c \in Chan |-> {}]
  /\ ourselves = Nobody

-----------------------------------------------------------------------------
(***************************************************************************)
(* Looking up users                                                        *)
(***************************************************************************)
\* get_user: the first of the users that is in S.
FirstOf(S) ==
  IF Tracked \cap S = {} THEN Nobody
  ELSE users[CHOOSE i \in DOMAIN users :
               users[i] \in S /\ \A j \in 1..i - 1 : users[j] \notin S]

ByNick(n) == FirstOf({o \in Obj : nick[o] = n})
ByMask(n, p) == FirstOf({o \in Obj : nick[o] = n /\ who[o] = p})

\* get_nickname(), before any step of the handler.
OwnNick == IF ourselves = Nobody THEN BotNick ELSE nick[ourselves]

\* A new User gets an object nothing refers to.
Unused == Obj \ (Tracked \cup {ourselves})
New == CHOOSE o \in Unused : TRUE

-----------------------------------------------------------------------------
(***************************************************************************)
(* Tracking                                                                *)
(***************************************************************************)
\* What is left of s without the members of S, in order.
Without(s, S) ==
  LET left[i \in 0..Len(s)] ==
        IF i = 0 THEN <<>>
        ELSE IF s[i] \in S THEN left[i - 1] ELSE Append(left[i - 1], s[i])
  IN left[Len(s)]

\* user_check_lost_track, once chans' is known.
CheckLostTrack(o) == users' = Without(users, IF chans'[o] = {} THEN {o} ELSE {})

\* user_channel_part(user, channel) with the result of get_user(nickname=...).
\* A user that was not found is looked up again by None, which every user
\* matches.  A channel that was not found is None, whose remove_user raises.
UserChannelPart(found, c) ==
  LET o == IF found # Nobody THEN found
           ELSE IF users = <<>> THEN Nobody ELSE Head(users)
  IN IF o = Nobody THEN UNCHANGED view
     ELSE /\ chans' = [chans EXCEPT ![o] = @ \ {IF c \in known THEN c ELSE NoChan}]
          /\ IF c \in known
             THEN members' = [members EXCEPT ![c] = @ \ {o}] /\ CheckLostTrack(o)
             ELSE UNCHANGED <<members, users>>
          /\ UNCHANGED <<nick, who, ops, known, ourselves>>

\* self_part_channel: part every user of the channel and delete it.
SelfPartChannel(c) ==
  IF c \notin known THEN UNCHANGED view
  ELSE /\ chans' = [o \in Obj |-> IF o \in members[c] THEN chans[o] \ {c} ELSE chans[o]]
       /\ users' = Without(users, {o \in members[c] : chans'[o] = {}})
       /\ members' = [members EXCEPT ![c] = {}]
       /\ known' = known \ {c}
       /\ UNCHANGED <<nick, who, ops, ourselves>>

\* User() for person p under nickname n, if o is not one yet; then
\* add_channel and add_user.
AddToChannel(found, n, p, c) ==
  LET o == IF found = Nobody THEN New ELSE found
  IN /\ users' = IF found = Nobody THEN Append(users, o) ELSE users
     /\ nick' = [nick EXCEPT ![o] = n]
     /\ who' = [who EXCEPT ![o] = p]
     /\ chans' = [chans EXCEPT ![o] = IF found = Nobody THEN {c} ELSE @ \cup {c}]

\* channel_who_response for a channel that is known ...
WhoResponse(p, c, op) ==
  LET o == ByMask(nickOf[p], p)
      u == IF o = Nobody THEN New ELSE o
  IN /\ AddToChannel(o, nickOf[p], p, c)
     /\ members' = [members EXCEPT ![c] = @ \cup {u}]
     /\ ops' = [ops EXCEPT ![u] = (IF o = Nobody THEN {} ELSE @)
                                    \cup (IF op THEN {c} ELSE {})]
     /\ UNCHANGED <<known, ourselves>>

\* ... and for one that is not: get_channel returned None, not KeyError, and
\* the user has None among its channels when None.add_user raises.
WhoResponseForNone(p) ==
  LET o == ByMask(nickOf[p], p)
      u == IF o = Nobody THEN New ELSE o
  IN /\ AddToChannel(o, nickOf[p], p, NoChan)
     /\ ops' = [ops EXCEPT ![u] = IF o = Nobody THEN {} ELSE @]
     /\ UNCHANGED <<members, known, ourselves>>

-----------------------------------------------------------------------------
(***************************************************************************)
(* What happens on the server, and the bot's handler for it                *)
(***************************************************************************)
Quiet == replies = {}
Sees(c) == c \in where[Self]
Shares(p) == where[p] \cap where[Self] # {}

\* p joins c: irc_JOIN, if the bot is there or p is the bot, which asks WHO.
JoinChannel(p, c) ==
  /\ Quiet
  /\ nickOf[p] # Off /\ c \notin where[p]
  /\ where' = [where EXCEPT ![p] = @ \cup {c}]
  /\ IF p # Self /\ ~Sees(c)
     THEN UNCHANGED <<awaited, view>>
     ELSE LET o == ByMask(nickOf[p], p)
              u == IF o = Nobody THEN New ELSE o
              self == nickOf[p] = OwnNick
          IN /\ AddToChannel(o, nickOf[p], p, c)
             /\ ops' = [ops EXCEPT ![u] = IF o = Nobody THEN {} ELSE @]
             /\ known' = known \cup {c}
             /\ members' = [members EXCEPT ![c] = @ \cup {u}]
             /\ ourselves' = IF self /\ ourselves = Nobody THEN u ELSE ourselves
             /\ awaited' = IF self THEN awaited \cup {c} ELSE awaited
  /\ UNCHANGED <<nickOf, opOf, replies>>

\* p leaves c by itself or by a kick: left, kickedFrom, userLeft, userKicked.
\* Twisted compares p's nick with a nickname that Ultros never updates.
Part(p, c) ==
  /\ Quiet
  /\ c \in where[p]
  /\ where' = [where EXCEPT ![p] = @ \ {c}]
  /\ opOf' = [opOf EXCEPT ![p] = @ \ {c}]
  /\ awaited' = IF p = Self /\ ~LateWho THEN awaited \ {c} ELSE awaited
  /\ IF ~Sees(c) THEN UNCHANGED view
     ELSE IF nickOf[p] = BotNick THEN SelfPartChannel(c)
     ELSE UserChannelPart(ByNick(nickOf[p]), c)
  /\ UNCHANGED <<nickOf, replies>>

\* irc_QUIT parts the channels of the user; None among them raises once some
\* of the others have been gone through.
QuitUser(o) ==
  /\ \E S \in SUBSET (chans[o] \ {NoChan}) :
       /\ NoChan \notin chans[o] => S = chans[o]
       /\ chans' = [chans EXCEPT ![o] = @ \ (S \cup {NoChan})]
       /\ members' = [c \in Chan |-> IF c \in S THEN members[c] \ {o} ELSE members[c]]
  /\ IF NoChan \in chans[o] \/ chans[o] = {} THEN UNCHANGED users ELSE CheckLostTrack(o)

Quit(p) ==
  /\ Quiet
  /\ p # Self /\ nickOf[p] # Off
  /\ nickOf' = [nickOf EXCEPT ![p] = Off]
  /\ where' = [where EXCEPT ![p] = {}]
  /\ opOf' = [opOf EXCEPT ![p] = {}]
  /\ LET o == ByMask(nickOf[p], p)
     IN IF ~Shares(p) \/ o = Nobody THEN UNCHANGED view
        ELSE QuitUser(o) /\ UNCHANGED <<nick, who, ops, known, ourselves>>
  /\ UNCHANGED <<awaited, replies>>

\* A person connects: the bot sees nothing.
ComeOnline(p, n) ==
  /\ Quiet
  /\ nickOf[p] = Off
  /\ n \in MayUse[p] /\ \A q \in Person : nickOf[q] # n
  /\ nickOf' = [nickOf EXCEPT ![p] = n]
  /\ UNCHANGED <<where, opOf, awaited, replies, view>>

NickIgnoredBug(p, n) ==
  /\ Quiet
  /\ nickOf[p] # Off
  /\ n \in MayUse[p] /\ \A q \in Person : nickOf[q] # n
  /\ nickOf' = [nickOf EXCEPT ![p] = n]
  /\ UNCHANGED <<where, opOf, awaited, replies, view>>

\* irc_NICK
ChangeNick(p, n) ==
  /\ Quiet
  /\ nickOf[p] # Off
  /\ n \in MayUse[p] /\ \A q \in Person : nickOf[q] # n
  /\ nickOf' = [nickOf EXCEPT ![p] = n]
  /\ LET o == ByNick(nickOf[p])
     IN nick' = IF (p = Self \/ Shares(p)) /\ o # Nobody
                THEN [nick EXCEPT ![o] = n] ELSE nick
  /\ UNCHANGED <<where, opOf, awaited, replies, users, who, chans, ops, known,
                 members, ourselves>>

\* modeChanged, for +o and -o of p in c.
ChangeMode(p, c) ==
  /\ Quiet
  /\ c \in where[p]
  /\ opOf' = [opOf EXCEPT ![p] = IF c \in @ THEN @ \ {c} ELSE @ \cup {c}]
  /\ LET o == ByNick(nickOf[p])
     IN ops' = IF Sees(c) /\ c \in known /\ o # Nobody
               THEN [ops EXCEPT ![o] = IF c \in opOf[p] THEN @ \ {c} ELSE @ \cup {c}]
               ELSE ops
  /\ UNCHANGED <<where, nickOf, awaited, replies, users, nick, who, chans, known,
                 members, ourselves>>

\* The server answers the WHO for c with who is there now.
AnswerWho(c) ==
  /\ Quiet
  /\ c \in awaited
  /\ awaited' = awaited \ {c}
  /\ replies' = {<<p, c, c \in opOf[p]>> : p \in {q \in Person : c \in where[q]}}
  /\ UNCHANGED <<truth, view>>

\* irc_RPL_WHOREPLY
WhoReply(r) ==
  /\ r \in replies
  /\ replies' = replies \ {r}
  /\ IF r[2] \in known THEN WhoResponse(r[1], r[2], r[3])
                       ELSE WhoResponseForNone(r[1])
  /\ UNCHANGED <<truth, awaited>>

\* The connection is lost and made again: signedOn.
Reconnect ==
  /\ Quiet
  /\ where' = [where EXCEPT ![Self] = {}]
  /\ opOf' = [opOf EXCEPT ![Self] = {}]
  /\ nickOf' = [nickOf EXCEPT ![Self] = BotNick]
  /\ \A q \in Person \ {Self} : nickOf[q] # BotNick
  /\ awaited' = {}
  /\ users' = <<>>
  /\ chans' = [o \in Obj |-> {}]
  /\ known' = {}
  /\ members' = [c \in Chan |-> {}]
  /\ ourselves' = Nobody
  /\ UNCHANGED <<replies, nick, who, ops>>

TrackingNext ==
  \/ \E p \in Person, c \in Chan : JoinChannel(p, c) \/ Part(p, c) \/ ChangeMode(p, c)
  \/ \E p \in Person : Quit(p)
  \/ \E p \in Person, n \in Nick : ComeOnline(p, n) \/ ChangeNick(p, n)
  \/ \E c \in Chan : AnswerWho(c)
  \/ \E r \in replies : WhoReply(r)
  \/ Reconnect

TrackingSpec == TrackingInit /\ [][TrackingNext]_trackingVars

-----------------------------------------------------------------------------
(***************************************************************************)
(* Properties of the bot's picture of its channels, against the server's.  *)
(***************************************************************************)
Is(o, p) == who[o] = p /\ nick[o] = nickOf[p]

\* The WHO for c has been asked and answered, to the last reply.
Settled(c) == c \notin awaited /\ replies = {}

\* _channels holds exactly the channels the bot is in, through joins, parts,
\* kicks and reconnections.  Once WHO has been answered, a channel's users are
\* exactly the people in it, under their current nicks, and its operators are
\* known: what came before the answer (people leaving unseen, parts of people
\* not known yet) leaves no trace, and nothing later goes unnoticed.  At any
\* time users and channels list each other, a user is kept exactly as long as
\* it has a channel, and none is kept twice: no handler updates one side only.
MembersAreExact ==
  /\ known = where[Self]
  /\ \A o \in Obj : o \in Tracked <=> chans[o] # {}
  /\ \A o \in Obj, c \in Chan : o \in members[c] <=> c \in chans[o]
  /\ \A c \in Chan : members[c] # {} => c \in known
  /\ Cardinality(Tracked) = Len(users)
  /\ \A c \in where[Self] : Settled(c) =>
       /\ \A p \in Person : c \in where[p] => \E o \in members[c] : Is(o, p)
       /\ \A o \in members[c] : \E p \in Person :
            c \in where[p] /\ Is(o, p) /\ (c \in opOf[p] => c \in ops[o])
=============================================================================
