----------------------- MODULE MumbleTrackingProofs -----------------------
(* Proofs about MumbleTracking for any number of protocols, classes,       *)
(* sessions, channels and people: users and channels agree, and they are   *)
(* those of the server.                                                    *)
EXTENDS MumbleTrackingProps, TLAPS

\* A user as it may be in users: the server's name of it, and a channel.
Entry == (Person \cup {None}) \X Chan

\* What the names and the tables hold.  (TypeOK says more, for as long as there
\* is another class to take.)
TablesOK ==
  /\ name \in [Conn -> [Session -> Person \cup {None}]]
  /\ channels \in [Class -> SUBSET Chan]
  /\ users \in [Class -> [Session -> Entry \cup {None}]]
  /\ members \in [Class -> [Chan -> SUBSET Session]]

Inv == TablesOK /\ MembersAgree

\* Whom the bot takes out of the tables when it is kicked.
MineOK == mine \in [Conn -> Session \cup {None}]

-----------------------------------------------------------------------------
(* Handlers, for any class, also one that there is not *)

\* A channel's handler leaves users alone.
LEMMA ChannelStateAgrees ==
  ASSUME Inv, NEW k, NEW h \in Chan, ChannelState(k, h), UNCHANGED <<name, users, members>>
  PROVE  Inv'
<1>1. channels' \in [Class -> SUBSET Chan]
  BY DEF Inv, TablesOK, ChannelState
<1> QED
  BY <1>1 DEF Inv, TablesOK, MembersAgree

\* A user who is new is put into its channel, or nowhere.
LEMMA JoinAgrees ==
  ASSUME Inv, NEW k, NEW s \in Session, NEW n \in Person \cup {None}, NEW h,
         k \in Class => users[k][s] = None, UserJoins(k, s, n, h),
         name' \in [Conn -> [Session -> Person \cup {None}]], channels' = channels
  PROVE  Inv'
<1>1. CASE k \notin Class \/ h \notin channels[k]
  <2>1. users' = users /\ members' = members
    BY <1>1 DEF UserJoins, Inv, TablesOK
  <2> QED
    BY <2>1 DEF Inv, TablesOK, MembersAgree
<1>2. CASE k \in Class /\ h \in channels[k]
  <2>1. h \in Chan
    BY <1>2 DEF Inv, TablesOK
  <2>2. <<n, h>> \in Entry /\ <<n, h>> # None
    BY <2>1, NoneAssumption DEF Entry
  <2>3. /\ users' = [users EXCEPT ![k][s] = <<n, h>>]
        /\ members' = [members EXCEPT ![k][h] = members[k][h] \cup {s}]
    BY <1>2 DEF UserJoins
  <2>4. TablesOK'
    BY <1>2, <2>1, <2>2, <2>3 DEF Inv, TablesOK
  <2>5. MembersAgree'
    BY <1>2, <2>1, <2>2, <2>3 DEF Inv, TablesOK, MembersAgree
  <2> QED
    BY <2>4, <2>5 DEF Inv
<1> QED
  BY <1>1, <1>2

\* A user who moves leaves one channel's list and enters another's.
LEMMA MoveAgrees ==
  ASSUME Inv, NEW k, NEW s \in Session, NEW actor \in Session, NEW h, UserMoves(k, s, actor, h),
         UNCHANGED <<name, channels>>
  PROVE  Inv'
<1>1. CASE UNCHANGED <<users, members>>
  BY <1>1 DEF Inv, TablesOK, MembersAgree
<1>2. CASE k \notin Class
  <2>1. users' = users /\ members' = members
    BY <1>2 DEF UserMoves, Inv, TablesOK
  <2> QED
    BY <2>1 DEF Inv, TablesOK, MembersAgree
<1>3. CASE k \in Class /\ ~UNCHANGED <<users, members>>
  <2> DEFINE old == users[k][s][2]
  <2>1. /\ h \in channels[k] /\ users[k][s] # None
        /\ users' = [users EXCEPT ![k][s] = <<users[k][s][1], h>>]
        /\ members' = [members EXCEPT ![k] = [g \in Chan |->
             (IF g = old THEN members[k][g] \ {s} ELSE members[k][g]) \cup (IF g = h THEN {s} ELSE {})]]
    BY <1>3 DEF UserMoves
  <2>2. h \in Chan /\ old \in Chan /\ users[k][s][1] \in Person \cup {None}
    BY <1>3, <2>1 DEF Inv, TablesOK, Entry
  <2>3. <<users[k][s][1], h>> \in Entry /\ <<users[k][s][1], h>> # None
    BY <2>2, NoneAssumption DEF Entry
  <2>4. \A x \in Class, g \in Chan :
          members'[x][g] = IF x # k THEN members[x][g]
                           ELSE (IF g = old THEN members[k][g] \ {s} ELSE members[k][g])
                                  \cup (IF g = h THEN {s} ELSE {})
    BY <1>3, <2>1, <2>2 DEF Inv, TablesOK
  <2>5. TablesOK'
    BY <1>3, <2>1, <2>2, <2>3 DEF Inv, TablesOK
  <2>6. \A x \in Class, r \in Session :
          users'[x][r] = IF x = k /\ r = s THEN <<users[k][s][1], h>> ELSE users[x][r]
    BY <1>3, <2>1 DEF Inv, TablesOK
  <2>7. MembersAgree'
    <3> SUFFICES ASSUME NEW x \in Class, NEW r \in Session, NEW g \in Chan
                 PROVE  r \in members'[x][g] <=> users'[x][r] # None /\ users'[x][r][2] = g
      BY DEF MembersAgree
    <3>1. r \in members[x][g] <=> users[x][r] # None /\ users[x][r][2] = g
      BY DEF Inv, MembersAgree
    <3>2. CASE x # k \/ r # s
      <4>1. users'[x][r] = users[x][r]
        BY <2>6, <3>2
      <4>2. r \in members'[x][g] <=> r \in members[x][g]
        <5>1. CASE x # k
          BY <2>4, <5>1
        <5>2. CASE x = k /\ r # s
          <6>1. members'[x][g] = (IF g = old THEN members[k][g] \ {s} ELSE members[k][g])
                                  \cup (IF g = h THEN {s} ELSE {})
            BY <2>4, <5>2
          <6> QED
            BY <5>2, <6>1
        <5> QED
          BY <3>2, <5>1, <5>2
      <4> QED
        BY <3>1, <4>1, <4>2
    <3>3. CASE x = k /\ r = s
      <4>1. users'[x][r] = <<users[k][s][1], h>>
        BY <2>6, <3>3
      <4>2. r \in members'[x][g] <=> g = h
        <5>1. members'[x][g] = (IF g = old THEN members[k][g] \ {s} ELSE members[k][g])
                                \cup (IF g = h THEN {s} ELSE {})
          BY <2>4, <3>3
        <5>2. s \in members[k][g] <=> g = old
          BY <2>1, <3>1, <3>3
        <5> QED
          BY <3>3, <5>1, <5>2
      <4> QED
        BY <2>3, <4>1, <4>2
    <3> QED
      BY <3>2, <3>3
  <2> QED
    BY <2>5, <2>7 DEF Inv
<1> QED
  BY <1>1, <1>2, <1>3

\* A user who leaves is taken out of both.
LEMMA RemoveAgrees ==
  ASSUME Inv, NEW k, NEW s \in Session, UserRemove(k, s),
         name' \in [Conn -> [Session -> Person \cup {None}]], channels' = channels
  PROVE  Inv'
<1>1. CASE UNCHANGED <<users, members>>
  BY <1>1 DEF Inv, TablesOK, MembersAgree
<1>2. CASE k \notin Class
  <2>1. users' = users /\ members' = members
    BY <1>2 DEF UserRemove, Inv, TablesOK
  <2> QED
    BY <2>1 DEF Inv, TablesOK, MembersAgree
<1>3. CASE k \in Class /\ ~UNCHANGED <<users, members>>
  <2> DEFINE old == users[k][s][2]
  <2>1. /\ users[k][s] # None
        /\ users' = [users EXCEPT ![k][s] = None]
        /\ members' = [members EXCEPT ![k][old] = members[k][old] \ {s}]
    BY <1>3 DEF UserRemove
  <2>2. old \in Chan
    BY <1>3, <2>1 DEF Inv, TablesOK, Entry
  <2>3. TablesOK'
    BY <1>3, <2>1, <2>2 DEF Inv, TablesOK
  <2>4. MembersAgree'
    BY <1>3, <2>1, <2>2 DEF Inv, TablesOK, MembersAgree
  <2> QED
    BY <2>3, <2>4 DEF Inv
<1> QED
  BY <1>1, <1>2, <1>3

-----------------------------------------------------------------------------
(* Steps *)

\* UserState is for a user who is new, one who is where it was, or a move.
LEMMA UserStateAgrees ==
  ASSUME Inv, NEW c \in Conn, NEW s \in Session, NEW n \in Person \cup {None}, NEW h,
         UserState(c, s, n, h),
         name' \in [Conn -> [Session -> Person \cup {None}]], channels' = channels,
         users[class[c]][s] # None => name' = name
  PROVE  Inv'
<1>1. CASE users[class[c]][s] = None
  BY <1>1, JoinAgrees DEF UserState
<1>2. CASE users[class[c]][s] # None /\ h = Root
  BY <1>2 DEF UserState, Inv, TablesOK, MembersAgree
<1>3. CASE users[class[c]][s] # None /\ h # Root
  BY <1>3, MoveAgrees DEF UserState
<1> QED
  BY <1>1, <1>2, <1>3


\* The tables of a new class are empty.
LEMMA BuildAgrees ==
  ASSUME Inv, NEW c \in Conn, Build(c), name' \in [Conn -> [Session -> Person \cup {None}]]
  PROVE  Inv'
<1>1. CASE UNCHANGED tables
  BY <1>1 DEF tables, Inv, TablesOK, MembersAgree
<1>2. CASE ~UNCHANGED tables
  <2> DEFINE F == Fresh
  <2>1. /\ channels' = [channels EXCEPT ![F] = {}]
        /\ users' = [users EXCEPT ![F] = [s \in Session |-> None]]
        /\ members' = [members EXCEPT ![F] = [h \in Chan |-> {}]]
    BY <1>2 DEF Build
  <2> HIDE DEF F
  <2>2. TablesOK'
    BY <2>1 DEF Inv, TablesOK
  <2>3. MembersAgree'
    BY <2>1 DEF Inv, TablesOK, MembersAgree
  <2> QED
    BY <2>2, <2>3 DEF Inv
<1> QED
  BY <1>1, <1>2

\* Nothing in the tables and no name changes.
LEMMA SameTables ==
  ASSUME Inv, UNCHANGED tables, name' \in [Conn -> [Session -> Person \cup {None}]]
  PROVE  Inv'
  BY DEF tables, Inv, TablesOK, MembersAgree

\* Names stay names.
LEMMA NamesStay ==
  ASSUME Inv, NEW c \in Conn, NEW s, NEW n \in Person \cup {None}
  PROVE  [name EXCEPT ![c][s] = n] \in [Conn -> [Session -> Person \cup {None}]]
  BY DEF Inv, TablesOK

\* Every step keeps the invariant.
LEMMA StepAgrees == Inv /\ MineOK /\ [Next]_vars => Inv'
<1> SUFFICES ASSUME Inv, MineOK, [Next]_vars PROVE Inv'
  OBVIOUS
<1>1. ASSUME NEW c \in Conn, NEW s \in Session, NEW n \in Person, Join(c, s, n) PROVE Inv'
  <2>1. name' \in [Conn -> [Session -> Person \cup {None}]]
    BY <1>1, NamesStay DEF Join
  <2>2. CASE Up(c)
    <3>1. CASE users[class[c]][s] = None
      BY <1>1, <2>1, <2>2, <3>1, JoinAgrees DEF Join, UserState
    <3>2. CASE users[class[c]][s] # None
      <4>1. UNCHANGED tables
        BY <1>1, <2>2, <3>2 DEF Join, UserState, tables
      <4> QED
        BY <2>1, <4>1, SameTables
    <3> QED
      BY <3>1, <3>2
  <2>3. CASE ~Up(c)
    BY <1>1, <2>1, <2>3, SameTables DEF Join, tables
  <2> QED
    BY <2>2, <2>3
<1>2. ASSUME NEW c \in Conn, NEW s \in Session, NEW actor \in Session, NEW h \in Chan,
             Move(c, s, actor, h)
      PROVE  Inv'
  <2>1. CASE Up(c)
    BY <1>2, <2>1, MoveAgrees DEF Move
  <2>2. CASE ~Up(c)
    BY <1>2, <2>2, SameTables DEF Move, tables, Inv, TablesOK
  <2> QED
    BY <2>1, <2>2
<1>3. ASSUME NEW c \in Conn, NEW s \in Session, Leave(c, s) PROVE Inv'
  <2>1. name' \in [Conn -> [Session -> Person \cup {None}]]
    BY <1>3, NamesStay DEF Leave
  <2>2. CASE Up(c)
    BY <1>3, <2>1, <2>2, RemoveAgrees DEF Leave
  <2>3. CASE ~Up(c)
    BY <1>3, <2>1, <2>3, SameTables DEF Leave, tables
  <2> QED
    BY <2>2, <2>3
<1>4. ASSUME NEW c \in Conn, NEW s \in Session, Connect(c, s) PROVE Inv'
  <2>1. name' \in [Conn -> [Session -> Person \cup {None}]]
    BY <1>4, NamesStay, BotAssumption DEF Connect
  <2> QED
    BY <1>4, <2>1, BuildAgrees DEF Connect
<1>5. ASSUME NEW c \in Conn, NEW h \in Chan, AddChannel(c, h) PROVE Inv'
  <2>1. CASE Up(c)
    BY <1>5, <2>1, ChannelStateAgrees DEF AddChannel
  <2>2. CASE ~Up(c)
    BY <1>5, <2>2, SameTables DEF AddChannel, tables, Inv, TablesOK
  <2> QED
    BY <2>1, <2>2
<1>6. ASSUME NEW c \in Conn, NEW h \in Chan, RemoveChannel(c, h) PROVE Inv'
  BY <1>6, SameTables DEF RemoveChannel, Inv, TablesOK
<1>7. ASSUME NEW c \in Conn, NEW m \in Message, Receive(c, m) PROVE Inv'
  <2>1. name' = name
    BY <1>7 DEF Receive, truth
  <2>2. CASE m.kind = "ChannelState"
    <3>1. m.id \in Chan
      BY <2>2 DEF Message
    <3> QED
      BY <1>7, <2>1, <2>2, <3>1, ChannelStateAgrees DEF Receive
  <2>3. CASE m.kind # "ChannelState"
    <3>1. m.id \in Session
      BY <2>3 DEF Message
    <3>2. name[c][m.id] \in Person \cup {None} /\ name \in [Conn -> [Session -> Person \cup {None}]]
      BY <3>1 DEF Inv, TablesOK
    <3>3. UserState(c, m.id, name[c][m.id], at[c][m.id]) /\ channels' = channels
      BY <1>7, <2>3 DEF Receive
    <3> QED
      BY <2>1, <3>1, <3>2, <3>3, UserStateAgrees
  <2> QED
    BY <2>2, <2>3
<1>8. ASSUME NEW c \in Conn, Gone(c) PROVE name' \in [Conn -> [Session -> Person \cup {None}]]
  BY <1>8, NamesStay DEF Gone
<1>9. ASSUME NEW c \in Conn, Drop(c) PROVE Inv'
  BY <1>8, <1>9, SameTables DEF Drop
<1>10. ASSUME NEW c \in Conn, Kicked(c) PROVE Inv'
  <2>1. mine[c] \in Session
    BY <1>10 DEF Kicked, Up, MineOK
  <2> QED
    BY <1>8, <1>10, <2>1, RemoveAgrees DEF Kicked
<1>11. ASSUME NEW c \in Conn, ReloadProtocol(c) PROVE Inv'
  BY <1>8, <1>11, SameTables DEF ReloadProtocol, Inv, TablesOK
<1>12. CASE UNCHANGED vars
  BY <1>12, SameTables DEF vars, truth, Inv, TablesOK
<1> QED
  BY <1>1, <1>2, <1>3, <1>4, <1>5, <1>6, <1>7, <1>9, <1>10, <1>11, <1>12 DEF Next

\* The bot's session is one of the server's.
LEMMA StepMine == MineOK /\ [Next]_vars => MineOK'
  BY DEF MineOK, Next, vars, truth, modules, tables, Join, Move, Leave, AddChannel, RemoveChannel,
         Connect, Receive, Drop, Kicked, ReloadProtocol, Gone

\* In every class of protocol there ever was, users and channels list each
\* other: over any sequence of joins, moves, kicks, first messages, drops,
\* reconnections and reloads, with handlers that raise halfway.
THEOREM UsersAndChannelsAgree == Spec => []MembersAgree
<1>1. Init => Inv /\ MineOK
  BY DEF Init, Inv, TablesOK, MembersAgree, MineOK
<1>2. Inv /\ MineOK /\ [Next]_vars => (Inv /\ MineOK)'
  BY StepAgrees, StepMine
<1>3. Inv => MembersAgree
  BY DEF Inv
<1> QED
  BY <1>1, <1>2, <1>3, PTL DEF Spec

-----------------------------------------------------------------------------
(***************************************************************************)
(* The picture that a connection has of its server                         *)
(*                                                                         *)
(* The first protocol of a factory takes the newest class there is, and so *)
(* shares the tables of a protocol that has connected again with it.  What *)
(* follows is about all behaviours in which no factory does while the      *)
(* other is connected: those with one protocol are among them, and those   *)
(* where all of them are built before any connects again.                  *)
(***************************************************************************)
StartsApart ==
  \A c, d \in Conn :
    c # d /\ Up(c) /\ builds[c] = 2 /\ builds[d] = 0 /\ builds'[d] = 1 => class[c] # latest

Untold(todo, s) == [kind |-> "UserState", id |-> s] \in todo

\* What is tracked, and what the server still has to tell, make up what there
\* is: all channels are known or will be, and none else as long as there is
\* more to come; all users are, and the bot is told of itself.
Picture(there, names, places, me, todo, chans, people, self) ==
  /\ \A h \in there : h \in chans \/ [kind |-> "ChannelState", id |-> h] \in todo
  /\ todo # {} => chans \subseteq there
  /\ \A m \in todo : m.kind = "ChannelState" => m.id \in there
  /\ \A s \in Session : Untold(todo, s) => places[s] # None
  /\ \A s \in Session :
       people[s] = IF places[s] # None /\ ~Untold(todo, s) THEN <<names[s], places[s]>> ELSE None
  /\ self = IF Untold(todo, me) THEN None ELSE me

PictureOf(c) ==
  Picture(exists[c], name[c], at[c], mine[c], pending[c],
          channels[class[c]], users[class[c]], ourselves[c])

\* The class of a protocol that has connected again is its own.
Own(c) == class[c] \in Class /\ \A d \in Conn \ {c} : class[d] # class[c]

Tracked(c) == Up(c) /\ builds[c] = 2 => Own(c) /\ PictureOf(c)

\* Users are in channels that there are, and only the bot has its name.
ServerOK(c) ==
  /\ Root \in exists[c] /\ \A s \in Online(c) : at[c][s] \in exists[c]
  /\ \A s \in Session : name[c][s] = Bot => s = mine[c]
  /\ Up(c) => mine[c] \in Online(c) /\ name[c][mine[c]] = Bot

ServersTyped ==
  /\ exists \in [Conn -> SUBSET Chan]
  /\ at \in [Conn -> [Session -> Chan \cup {None}]]
  /\ pending \in [Conn -> SUBSET Message]
  /\ ourselves \in [Conn -> Session \cup {None}]

ClassesOK ==
  /\ latest \in Class /\ class \in [Conn -> Class \cup {None}] /\ builds \in [Conn -> 0 .. 2]
  /\ (\A c \in Conn : class[c] = None) \/ (\E c \in Conn : class[c] = latest)

PictureInv ==
  /\ Inv /\ MineOK /\ ServersTyped /\ ClassesOK
  /\ \A c \in Conn : ServerOK(c) /\ Tracked(c)

LEMMA PictureOfJoin ==
  ASSUME NEW E, NEW N \in [Session -> Person \cup {None}], NEW A \in [Session -> Chan \cup {None}],
         NEW m, NEW C, NEW U \in [Session -> Entry \cup {None}], NEW o,
         Picture(E, N, A, m, {}, C, U, o), NEW s \in Session, NEW n, NEW h \in Chan
  PROVE  Picture(E, [N EXCEPT ![s] = n], [A EXCEPT ![s] = h], m, {}, C, [U EXCEPT ![s] = <<n, h>>], o)
BY NoneAssumption DEF Picture, Untold

LEMMA PictureOfMove ==
  ASSUME NEW E, NEW N \in [Session -> Person \cup {None}], NEW A \in [Session -> Chan \cup {None}],
         NEW m, NEW C, NEW U \in [Session -> Entry \cup {None}], NEW o,
         Picture(E, N, A, m, {}, C, U, o), NEW s \in Session, NEW h \in Chan
  PROVE  Picture(E, N, [A EXCEPT ![s] = h], m, {}, C, [U EXCEPT ![s] = <<N[s], h>>], o)
BY NoneAssumption DEF Picture, Untold

LEMMA PictureOfLeave ==
  ASSUME NEW E, NEW N \in [Session -> Person \cup {None}], NEW A \in [Session -> Chan \cup {None}],
         NEW m, NEW C, NEW U \in [Session -> Entry \cup {None}], NEW o,
         Picture(E, N, A, m, {}, C, U, o), NEW s \in Session
  PROVE  Picture(E, [N EXCEPT ![s] = None], [A EXCEPT ![s] = None], m, {}, C, [U EXCEPT ![s] = None], o)
BY NoneAssumption DEF Picture, Untold

LEMMA PictureOfChannels ==
  ASSUME NEW E, NEW N, NEW A, NEW m, NEW C, NEW U, NEW o, Picture(E, N, A, m, {}, C, U, o), NEW h
  PROVE  /\ Picture(E \cup {h}, N, A, m, {}, C \cup {h}, U, o)
         /\ Picture(E \ {h}, N, A, m, {}, C, U, o)
BY DEF Picture, Untold

\* What the server tells first is all there is.
LEMMA PictureOfStart ==
  ASSUME NEW E \in SUBSET Chan, NEW N \in [Session -> Person \cup {None}],
         NEW A \in [Session -> Chan \cup {None}], NEW s \in Session, Root \in Chan
  PROVE  Picture(E, [N EXCEPT ![s] = Bot], [A EXCEPT ![s] = Root], s,
                 [kind : {"ChannelState"}, id : E] \cup
                 [kind : {"UserState"}, id : {r \in Session : A[r] # None} \cup {s}],
                 {}, [r \in Session |-> None], None)
<1> DEFINE T == [kind : {"ChannelState"}, id : E] \cup
                [kind : {"UserState"}, id : {r \in Session : A[r] # None} \cup {s}]
           P == [A EXCEPT ![s] = Root]
<1>1. \A r \in Session : Untold(T, r) <=> P[r] # None
  BY NoneAssumption DEF Untold
<1>2. \A h \in E : [kind |-> "ChannelState", id |-> h] \in T
  OBVIOUS
<1>3. \A m \in T : m.kind = "ChannelState" => m.id \in E
  OBVIOUS
<1>4. Untold(T, s)
  BY DEF Untold
<1> HIDE DEF T, P
<1>5. Picture(E, [N EXCEPT ![s] = Bot], P, s, T, {}, [r \in Session |-> None], None)
  BY <1>1, <1>2, <1>3, <1>4 DEF Picture
<1> QED
  BY <1>5 DEF T, P

LEMMA PictureOfChannelState ==
  ASSUME NEW E, NEW N, NEW A, NEW me, NEW T \in SUBSET Message, NEW C, NEW U, NEW o,
         Picture(E, N, A, me, T, C, U, o), NEW m \in T, m.kind = "ChannelState",
         NEW x, x = m.id
  PROVE  /\ Picture(E, N, A, me, T \ {m}, C \cup {x}, U, o)
         /\ C \cup {x} \subseteq E
<1>1. \A s : Untold(T \ {m}, s) <=> Untold(T, s)
  BY DEF Untold
<1>2. C \cup {x} \subseteq E
  BY DEF Picture
<1>3. ASSUME NEW h \in E
      PROVE  h \in C \cup {x} \/ [kind |-> "ChannelState", id |-> h] \in T \ {m}
  BY DEF Picture
<1> QED
  BY <1>1, <1>2, <1>3 DEF Picture

LEMMA PictureOfUserState ==
  ASSUME NEW E, NEW N \in [Session -> Person \cup {None}], NEW A \in [Session -> Chan \cup {None}],
         NEW me, NEW T \in SUBSET Message, NEW C, NEW U \in [Session -> Entry \cup {None}], NEW o,
         Picture(E, N, A, me, T, C, U, o), NEW m \in T, m.kind = "UserState",
         NEW s \in Session, s = m.id
  PROVE  Picture(E, N, A, me, T \ {m}, C, [U EXCEPT ![s] = <<N[s], A[s]>>], IF s = me THEN s ELSE o)
<1>1. m = [kind |-> "UserState", id |-> s]
  BY DEF Message
<1>2. \A r : Untold(T \ {m}, r) <=> Untold(T, r) /\ r # s
  BY <1>1 DEF Untold
<1>3. A[s] # None
  BY <1>1 DEF Picture, Untold
<1>4. \A h \in E : h \in C \/ [kind |-> "ChannelState", id |-> h] \in T \ {m}
  <2>1. \A h : [kind |-> "ChannelState", id |-> h] # m
    OBVIOUS
  <2> QED
    BY <2>1 DEF Picture
<1>5. \A r \in Session :
        [U EXCEPT ![s] = <<N[s], A[s]>>][r] =
          IF A[r] # None /\ ~Untold(T \ {m}, r) THEN <<N[r], A[r]>> ELSE None
  BY <1>2, <1>3 DEF Picture
<1>6. (IF s = me THEN s ELSE o) = IF Untold(T \ {m}, me) THEN None ELSE me
  <2>1. o = IF Untold(T, me) THEN None ELSE me
    BY DEF Picture
  <2> QED
    BY <1>2, <2>1
<1>7. /\ T \ {m} # {} => C \subseteq E
      /\ \A x \in T \ {m} : x.kind = "ChannelState" => x.id \in E
      /\ \A r \in Session : Untold(T \ {m}, r) => A[r] # None
  BY <1>2 DEF Picture
<1> QED
  BY <1>4, <1>5, <1>6, <1>7 DEF Picture


-----------------------------------------------------------------------------
(* Steps of one connection, and the others *)

LEMMA FreshIsFresh ==
  ASSUME ClassesOK, NEW c \in Conn
  PROVE  /\ Fresh \in Class /\ Fresh # latest
         /\ \A d \in Conn : class[d] # Fresh
<1> DEFINE f == [d \in Conn |-> IF class[d] = None THEN latest ELSE class[d]]
<1>1. f \in [Conn -> Class]
  BY DEF ClassesOK
<1>2. PICK k \in Class : \A d \in Conn : f[d] # k
  BY <1>1, ClassAssumption
<1>3. k # latest
  <2>1. CASE \A d \in Conn : class[d] = None
    BY <1>2, <2>1
  <2>2. CASE \E d \in Conn : class[d] = latest
    <3>1. PICK d \in Conn : class[d] = latest
      BY <2>2
    <3>2. f[d] = latest
      BY <3>1
    <3> QED
      BY <1>2, <3>2
  <2> QED
    BY <2>1, <2>2 DEF ClassesOK
<1>4. \A d \in Conn : class[d] # k
  <2> SUFFICES ASSUME NEW d \in Conn, class[d] = k PROVE FALSE
    OBVIOUS
  <2>1. class[d] # None
    BY NoneAssumption
  <2>2. f[d] = k
    BY <2>1
  <2> QED
    BY <1>2, <2>2
<1>5. \E x \in Class : x # latest /\ \A d \in Conn : class[d] # x
  BY <1>3, <1>4
<1> QED
  BY <1>5 DEF Fresh

\* What a step of c leaves alone: everything of the other connections.
Beside(c) ==
  \A d \in Conn \ {c} :
    /\ exists'[d] = exists[d] /\ name'[d] = name[d] /\ at'[d] = at[d] /\ mine'[d] = mine[d]
    /\ pending'[d] = pending[d] /\ ourselves'[d] = ourselves[d] /\ builds'[d] = builds[d]
    /\ class'[d] = class[d]

TablesBeside(k) ==
  \A x \in Class : x # k => channels'[x] = channels[x] /\ users'[x] = users[x]

LEMMA HandlersBeside ==
  ASSUME TablesOK, NEW k
  PROVE  /\ \A h : ChannelState(k, h) /\ users' = users => TablesBeside(k)
         /\ \A s, n, h : UserJoins(k, s, n, h) /\ channels' = channels => TablesBeside(k)
         /\ \A s, a, h : UserMoves(k, s, a, h) /\ channels' = channels => TablesBeside(k)
         /\ \A s : UserRemove(k, s) /\ channels' = channels => TablesBeside(k)
<1>1. ASSUME NEW h, ChannelState(k, h), users' = users PROVE TablesBeside(k)
  BY <1>1 DEF ChannelState, TablesBeside, TablesOK
<1>2. ASSUME NEW s, NEW n, NEW h, UserJoins(k, s, n, h), channels' = channels PROVE TablesBeside(k)
  BY <1>2 DEF UserJoins, TablesBeside, TablesOK
<1>3. ASSUME NEW s, NEW a, NEW h, UserMoves(k, s, a, h), channels' = channels PROVE TablesBeside(k)
  BY <1>3 DEF UserMoves, TablesBeside, TablesOK
<1>4. ASSUME NEW s, UserRemove(k, s), channels' = channels PROVE TablesBeside(k)
  BY <1>4 DEF UserRemove, TablesBeside, TablesOK
<1> QED
  BY <1>1, <1>2, <1>3, <1>4

\* The handlers of one connection do not touch another that has its own class.
LEMMA OthersStay ==
  ASSUME \A d \in Conn : ServerOK(d) /\ Tracked(d), NEW c \in Conn, Beside(c),
         TablesBeside(class[c]), class' = class
  PROVE  \A d \in Conn \ {c} : ServerOK(d)' /\ Tracked(d)'
<1> SUFFICES ASSUME NEW d \in Conn \ {c} PROVE ServerOK(d)' /\ Tracked(d)'
  OBVIOUS
<1>1. ServerOK(d)'
  BY DEF Beside, ServerOK, Online, Up
<1>2. ASSUME Up(d)', builds'[d] = 2
      PROVE  Own(d)' /\ PictureOf(d)'
  <2>1. Up(d) /\ builds[d] = 2
    BY <1>2 DEF Beside, Up
  <2>2. Own(d) /\ PictureOf(d)
    BY <2>1 DEF Tracked
  <2>3. channels'[class[d]] = channels[class[d]] /\ users'[class[d]] = users[class[d]]
    BY <2>2 DEF Own, TablesBeside
  <2>4. Own(d)'
    BY <2>2 DEF Own
  <2>5. PictureOf(d)'
    BY <2>2, <2>3 DEF PictureOf, Beside
  <2> QED
    BY <2>4, <2>5
<1> QED
  BY <1>1, <1>2 DEF Tracked

\* So it is enough to look at the one that makes the step.
LEMMA OneConnection ==
  ASSUME PictureInv, NEW c \in Conn, Inv', MineOK', ServersTyped', ClassesOK', Beside(c),
         TablesBeside(class[c]), class' = class, ServerOK(c)', Tracked(c)'
  PROVE  PictureInv'
<1>1. \A d \in Conn \ {c} : ServerOK(d)' /\ Tracked(d)'
  BY OthersStay DEF PictureInv
<1>2. \A d \in Conn : ServerOK(d)' /\ Tracked(d)'
  BY <1>1
<1> QED
  BY <1>2 DEF PictureInv


\* What such a step has to show.
Kept(c) ==
  /\ ServersTyped' /\ ClassesOK' /\ Beside(c) /\ TablesBeside(class[c]) /\ class' = class
  /\ ServerOK(c)' /\ Tracked(c)'

LEMMA JoinKeepsPicture ==
  ASSUME PictureInv, NEW c \in Conn, NEW s \in Session, NEW n \in Person, Join(c, s, n)
  PROVE  Kept(c)
<1>1. /\ name \in [Conn -> [Session -> Person \cup {None}]]
      /\ at \in [Conn -> [Session -> Chan \cup {None}]]
      /\ ourselves \in [Conn -> Session \cup {None}]
      /\ users \in [Class -> [Session -> Entry \cup {None}]]
      /\ ServersTyped /\ ClassesOK /\ TablesOK /\ ServerOK(c) /\ Tracked(c) /\ Root \in Chan
  BY RootAssumption DEF PictureInv, Inv, TablesOK, ServersTyped
<1>2. /\ at' = [at EXCEPT ![c][s] = Root] /\ name' = [name EXCEPT ![c][s] = n]
      /\ at[c][s] = None /\ n # Bot /\ pending[c] = {}
      /\ UNCHANGED <<exists, mine, pending, builds, latest, class, channels>>
  BY DEF Join, Quiet, Online, modules
<1>3. /\ at'[c] = [at[c] EXCEPT ![s] = Root] /\ name'[c] = [name[c] EXCEPT ![s] = n]
      /\ \A d \in Conn \ {c} : at'[d] = at[d] /\ name'[d] = name[d]
      /\ at' \in [Conn -> [Session -> Chan \cup {None}]]
  BY <1>1, <1>2
<1>4. ourselves' = ourselves
  <2>1. CASE Up(c)
    <3>1. ourselves' = [ourselves EXCEPT ![c] = ourselves[c]]
      BY <1>1, <1>2, <2>1 DEF Join, UserState, Recognise
    <3> QED
      BY <1>1, <3>1
  <2>2. CASE ~Up(c)
    BY <2>2 DEF Join
  <2> QED
    BY <2>1, <2>2
<1>5. TablesBeside(class[c])
  <2>1. CASE UNCHANGED <<users, members>>
    BY <1>2, <2>1 DEF TablesBeside
  <2>2. CASE UserState(c, s, n, Root)
    <3>1. CASE UserJoins(class[c], s, n, Root)
      BY <1>1, <1>2, <3>1, HandlersBeside
    <3>2. CASE UNCHANGED <<users, members>>
      BY <1>2, <3>2 DEF TablesBeside
    <3> QED
      BY <2>2, <3>1, <3>2 DEF UserState
  <2> QED
    BY <2>1, <2>2 DEF Join
<1>6. Beside(c)
  BY <1>2, <1>3, <1>4 DEF Beside
<1>7. ServerOK(c)'
  BY <1>1, <1>2, <1>3, NoneAssumption DEF ServerOK, Online, Up
<1>8. ASSUME Up(c)', builds'[c] = 2
      PROVE  Own(c)' /\ PictureOf(c)'
  <2>1. Up(c) /\ Own(c) /\ PictureOf(c)
    BY <1>1, <1>2, <1>8 DEF Up, Tracked
  <2> DEFINE k == class[c]
  <2>2. k \in Class
    BY <2>1 DEF Own
  <2>3. users[k][s] = None /\ Root \in channels[k]
    BY <1>1, <1>2, <2>1 DEF PictureOf, Picture, ServerOK
  <2>4. UserState(c, s, n, Root)
    BY <2>1 DEF Join
  <2>5. users' = [users EXCEPT ![k][s] = <<n, Root>>]
    BY <2>3, <2>4 DEF UserState, UserJoins
  <2>6. users'[k] = [users[k] EXCEPT ![s] = <<n, Root>>]
    BY <1>1, <2>2, <2>5
  <2>7. Picture(exists[c], name[c], at[c], mine[c], {}, channels[k], users[k], ourselves[c])
    BY <1>2, <2>1 DEF PictureOf
  <2>8. name[c] \in [Session -> Person \cup {None}] /\ at[c] \in [Session -> Chan \cup {None}]
        /\ users[k] \in [Session -> Entry \cup {None}]
    BY <1>1, <2>2
  <2>9. Picture(exists[c], [name[c] EXCEPT ![s] = n], [at[c] EXCEPT ![s] = Root], mine[c], {},
                channels[k], [users[k] EXCEPT ![s] = <<n, Root>>], ourselves[c])
    BY <1>1, <2>7, <2>8, PictureOfJoin
  <2>10. PictureOf(c)'
    BY <1>2, <1>3, <1>4, <2>6, <2>9 DEF PictureOf
  <2>11. Own(c)'
    BY <1>2, <2>1 DEF Own
  <2> QED
    BY <2>10, <2>11
<1>9. ServersTyped' /\ ClassesOK'
  BY <1>1, <1>2, <1>3, <1>4 DEF ServersTyped, ClassesOK
<1> QED
  BY <1>2, <1>5, <1>6, <1>7, <1>8, <1>9 DEF Kept, Tracked

LEMMA MoveKeepsPicture ==
  ASSUME PictureInv, NEW c \in Conn, NEW s \in Session, NEW actor \in Session, NEW h \in Chan,
         Move(c, s, actor, h)
  PROVE  Kept(c)
<1>1. /\ name \in [Conn -> [Session -> Person \cup {None}]]
      /\ at \in [Conn -> [Session -> Chan \cup {None}]]
      /\ users \in [Class -> [Session -> Entry \cup {None}]]
      /\ ServersTyped /\ ClassesOK /\ TablesOK /\ ServerOK(c) /\ Tracked(c)
  BY DEF PictureInv, Inv, TablesOK, ServersTyped
<1>2. /\ at' = [at EXCEPT ![c][s] = h]
      /\ at[c][s] # None /\ at[c][actor] # None /\ pending[c] = {} /\ h \in exists[c]
      /\ UNCHANGED <<exists, name, mine, pending, builds, latest, class, channels, ourselves>>
  BY DEF Move, Quiet, Online, modules
<1>3. /\ at'[c] = [at[c] EXCEPT ![s] = h]
      /\ \A d \in Conn \ {c} : at'[d] = at[d]
      /\ at' \in [Conn -> [Session -> Chan \cup {None}]]
  BY <1>1, <1>2
<1>5. TablesBeside(class[c])
  <2>1. CASE UNCHANGED <<users, members>>
    BY <1>2, <2>1 DEF TablesBeside
  <2>2. CASE UserMoves(class[c], s, actor, h)
    BY <1>1, <1>2, <2>2, HandlersBeside
  <2> QED
    BY <2>1, <2>2 DEF Move
<1>6. Beside(c)
  BY <1>2, <1>3 DEF Beside
<1>7. ServerOK(c)'
  BY <1>1, <1>2, <1>3, NoneAssumption DEF ServerOK, Online, Up
<1>8. ASSUME Up(c)', builds'[c] = 2
      PROVE  Own(c)' /\ PictureOf(c)'
  <2>1. Up(c) /\ Own(c) /\ PictureOf(c)
    BY <1>1, <1>2, <1>8 DEF Up, Tracked
  <2> DEFINE k == class[c]
  <2>2. k \in Class
    BY <2>1 DEF Own
  <2>3. /\ users[k][s] = <<name[c][s], at[c][s]>> /\ users[k][actor] = <<name[c][actor], at[c][actor]>>
        /\ h \in channels[k]
    BY <1>2, <2>1 DEF PictureOf, Picture, Untold
  <2>4. users[k][s] # None /\ users[k][actor] # None
    <3>1. \A r \in Session : at[c][r] # None => <<name[c][r], at[c][r]>> \in (Person \cup {None}) \X Chan
      BY <1>1
    <3> QED
      BY <1>2, <2>3, <3>1, NoneAssumption
  <2>5. users' = [users EXCEPT ![k][s] = <<name[c][s], h>>]
    <3>1. UserMoves(k, s, actor, h)
      BY <2>1 DEF Move
    <3>2. users' = [users EXCEPT ![k][s] = <<users[k][s][1], h>>]
      BY <2>3, <2>4, <3>1 DEF UserMoves
    <3>3. users[k][s][1] = name[c][s]
      BY <2>3
    <3> QED
      BY <3>2, <3>3
  <2>6. users'[k] = [users[k] EXCEPT ![s] = <<name[c][s], h>>]
    BY <1>1, <2>2, <2>5
  <2>7. Picture(exists[c], name[c], at[c], mine[c], {}, channels[k], users[k], ourselves[c])
    BY <1>2, <2>1 DEF PictureOf
  <2>8. name[c] \in [Session -> Person \cup {None}] /\ at[c] \in [Session -> Chan \cup {None}]
        /\ users[k] \in [Session -> Entry \cup {None}]
    BY <1>1, <2>2
  <2>9. Picture(exists[c], name[c], [at[c] EXCEPT ![s] = h], mine[c], {},
                channels[k], [users[k] EXCEPT ![s] = <<name[c][s], h>>], ourselves[c])
    BY <2>7, <2>8, PictureOfMove
  <2>10. PictureOf(c)'
    BY <1>2, <1>3, <2>6, <2>9 DEF PictureOf
  <2>11. Own(c)'
    BY <1>2, <2>1 DEF Own
  <2> QED
    BY <2>10, <2>11
<1>9. ServersTyped' /\ ClassesOK'
  BY <1>1, <1>2, <1>3 DEF ServersTyped, ClassesOK
<1> QED
  BY <1>2, <1>5, <1>6, <1>7, <1>8, <1>9 DEF Kept, Tracked

LEMMA LeaveKeepsPicture ==
  ASSUME PictureInv, NEW c \in Conn, NEW s \in Session, Leave(c, s)
  PROVE  Kept(c)
<1>1. /\ name \in [Conn -> [Session -> Person \cup {None}]]
      /\ at \in [Conn -> [Session -> Chan \cup {None}]]
      /\ users \in [Class -> [Session -> Entry \cup {None}]]
      /\ ServersTyped /\ ClassesOK /\ TablesOK /\ ServerOK(c) /\ Tracked(c)
  BY DEF PictureInv, Inv, TablesOK, ServersTyped
<1>2. /\ at' = [at EXCEPT ![c][s] = None] /\ name' = [name EXCEPT ![c][s] = None]
      /\ at[c][s] # None /\ pending[c] = {} /\ s # mine[c]
      /\ UNCHANGED <<exists, mine, pending, builds, latest, class, channels, ourselves>>
  BY DEF Leave, Quiet, Online, modules
<1>3. /\ at'[c] = [at[c] EXCEPT ![s] = None] /\ name'[c] = [name[c] EXCEPT ![s] = None]
      /\ \A d \in Conn \ {c} : at'[d] = at[d] /\ name'[d] = name[d]
      /\ at' \in [Conn -> [Session -> Chan \cup {None}]]
  BY <1>1, <1>2
<1>5. TablesBeside(class[c])
  <2>1. CASE UNCHANGED <<users, members>>
    BY <1>2, <2>1 DEF TablesBeside
  <2>2. CASE UserRemove(class[c], s)
    BY <1>1, <1>2, <2>2, HandlersBeside
  <2> QED
    BY <2>1, <2>2 DEF Leave
<1>6. Beside(c)
  BY <1>2, <1>3 DEF Beside
<1>7. ServerOK(c)'
  BY <1>1, <1>2, <1>3, NoneAssumption, BotAssumption DEF ServerOK, Online, Up
<1>8. ASSUME Up(c)', builds'[c] = 2
      PROVE  Own(c)' /\ PictureOf(c)'
  <2>1. Up(c) /\ Own(c) /\ PictureOf(c)
    BY <1>1, <1>2, <1>8 DEF Up, Tracked
  <2> DEFINE k == class[c]
  <2>2. k \in Class
    BY <2>1 DEF Own
  <2>3. users[k][s] = <<name[c][s], at[c][s]>>
    BY <1>2, <2>1 DEF PictureOf, Picture, Untold
  <2>4. users[k][s] # None
    <3>1. <<name[c][s], at[c][s]>> \in (Person \cup {None}) \X Chan
      BY <1>1, <1>2
    <3> QED
      BY <2>3, <3>1, NoneAssumption
  <2>5. users' = [users EXCEPT ![k][s] = None]
    BY <2>1, <2>4 DEF Leave, UserRemove
  <2>6. users'[k] = [users[k] EXCEPT ![s] = None]
    BY <1>1, <2>2, <2>5
  <2>7. Picture(exists[c], name[c], at[c], mine[c], {}, channels[k], users[k], ourselves[c])
    BY <1>2, <2>1 DEF PictureOf
  <2>8. name[c] \in [Session -> Person \cup {None}] /\ at[c] \in [Session -> Chan \cup {None}]
        /\ users[k] \in [Session -> Entry \cup {None}]
    BY <1>1, <2>2
  <2>9. Picture(exists[c], [name[c] EXCEPT ![s] = None], [at[c] EXCEPT ![s] = None], mine[c], {},
                channels[k], [users[k] EXCEPT ![s] = None], ourselves[c])
    BY <2>7, <2>8, PictureOfLeave
  <2>10. PictureOf(c)'
    BY <1>2, <1>3, <2>6, <2>9 DEF PictureOf
  <2>11. Own(c)'
    BY <1>2, <2>1 DEF Own
  <2> QED
    BY <2>10, <2>11
<1>9. ServersTyped' /\ ClassesOK'
  BY <1>1, <1>2, <1>3 DEF ServersTyped, ClassesOK
<1> QED
  BY <1>2, <1>5, <1>6, <1>7, <1>8, <1>9 DEF Kept, Tracked

LEMMA AddKeepsPicture ==
  ASSUME PictureInv, NEW c \in Conn, NEW h \in Chan, AddChannel(c, h)
  PROVE  Kept(c)
<1>1. /\ exists \in [Conn -> SUBSET Chan] /\ channels \in [Class -> SUBSET Chan]
      /\ ServersTyped /\ ClassesOK /\ TablesOK /\ ServerOK(c) /\ Tracked(c)
  BY DEF PictureInv, Inv, TablesOK, ServersTyped
<1>2. /\ exists' = [exists EXCEPT ![c] = exists[c] \cup {h}] /\ pending[c] = {}
      /\ UNCHANGED <<name, at, mine, pending, builds, latest, class, users, ourselves>>
  BY DEF AddChannel, Quiet, modules
<1>3. /\ exists'[c] = exists[c] \cup {h} /\ \A d \in Conn \ {c} : exists'[d] = exists[d]
      /\ exists' \in [Conn -> SUBSET Chan]
  BY <1>1, <1>2
<1>5. TablesBeside(class[c])
  <2>1. CASE channels' = channels
    BY <1>2, <2>1 DEF TablesBeside
  <2>2. CASE ChannelState(class[c], h)
    BY <1>1, <1>2, <2>2, HandlersBeside
  <2> QED
    BY <2>1, <2>2 DEF AddChannel
<1>6. Beside(c)
  BY <1>2, <1>3 DEF Beside
<1>7. ServerOK(c)'
  BY <1>1, <1>2, <1>3 DEF ServerOK, Online, Up
<1>8. ASSUME Up(c)', builds'[c] = 2
      PROVE  Own(c)' /\ PictureOf(c)'
  <2>1. Up(c) /\ Own(c) /\ PictureOf(c)
    BY <1>1, <1>2, <1>8 DEF Up, Tracked
  <2> DEFINE k == class[c]
  <2>2. k \in Class
    BY <2>1 DEF Own
  <2>3. channels'[k] = channels[k] \cup {h}
    BY <1>1, <2>1, <2>2 DEF AddChannel, ChannelState
  <2>4. Picture(exists[c], name[c], at[c], mine[c], {}, channels[k], users[k], ourselves[c])
    BY <1>2, <2>1 DEF PictureOf
  <2>5. Picture(exists[c] \cup {h}, name[c], at[c], mine[c], {}, channels[k] \cup {h}, users[k],
                ourselves[c])
    BY <2>4, PictureOfChannels
  <2>6. PictureOf(c)'
    BY <1>2, <1>3, <2>3, <2>5 DEF PictureOf
  <2>7. Own(c)'
    BY <1>2, <2>1 DEF Own
  <2> QED
    BY <2>6, <2>7
<1>9. ServersTyped' /\ ClassesOK'
  BY <1>1, <1>2, <1>3 DEF ServersTyped, ClassesOK
<1> QED
  BY <1>2, <1>5, <1>6, <1>7, <1>8, <1>9 DEF Kept, Tracked

LEMMA RemoveKeepsPicture ==
  ASSUME PictureInv, NEW c \in Conn, NEW h \in Chan, RemoveChannel(c, h)
  PROVE  Kept(c)
<1>1. /\ exists \in [Conn -> SUBSET Chan]
      /\ ServersTyped /\ ClassesOK /\ TablesOK /\ ServerOK(c) /\ Tracked(c)
  BY DEF PictureInv, Inv, ServersTyped
<1>2. /\ exists' = [exists EXCEPT ![c] = exists[c] \ {h}] /\ pending[c] = {}
      /\ h # Root /\ \A s \in Session : at[c][s] # h
      /\ UNCHANGED <<name, at, mine, pending, builds, latest, class, channels, users, ourselves>>
  BY DEF RemoveChannel, Quiet, modules, tables
<1>3. /\ exists'[c] = exists[c] \ {h} /\ \A d \in Conn \ {c} : exists'[d] = exists[d]
      /\ exists' \in [Conn -> SUBSET Chan]
  BY <1>1, <1>2
<1>5. TablesBeside(class[c]) /\ Beside(c)
  BY <1>2, <1>3 DEF TablesBeside, Beside
<1>7. ServerOK(c)'
  BY <1>1, <1>2, <1>3 DEF ServerOK, Online, Up
<1>8. ASSUME Up(c)', builds'[c] = 2
      PROVE  Own(c)' /\ PictureOf(c)'
  <2>1. Up(c) /\ Own(c) /\ PictureOf(c)
    BY <1>1, <1>2, <1>8 DEF Up, Tracked
  <2>4. Picture(exists[c], name[c], at[c], mine[c], {}, channels[class[c]], users[class[c]], ourselves[c])
    BY <1>2, <2>1 DEF PictureOf
  <2>5. Picture(exists[c] \ {h}, name[c], at[c], mine[c], {}, channels[class[c]], users[class[c]],
                ourselves[c])
    BY <2>4, PictureOfChannels
  <2>6. PictureOf(c)'
    BY <1>2, <1>3, <2>5 DEF PictureOf
  <2>7. Own(c)'
    BY <1>2, <2>1 DEF Own
  <2> QED
    BY <2>6, <2>7
<1>9. ServersTyped' /\ ClassesOK'
  BY <1>1, <1>2, <1>3 DEF ServersTyped, ClassesOK
<1> QED
  BY <1>2, <1>5, <1>7, <1>8, <1>9 DEF Kept, Tracked

\* The first messages of a server add what they tell to the picture.
LEMMA ReceiveKeepsPicture ==
  ASSUME PictureInv, NEW c \in Conn, NEW m \in Message, Receive(c, m)
  PROVE  Kept(c) /\ (Tracked(c) /\ Up(c) /\ builds[c] = 2 /\ m.kind = "ChannelState"
                       => channels'[class[c]] \subseteq exists[c])
<1>1. /\ name \in [Conn -> [Session -> Person \cup {None}]]
      /\ at \in [Conn -> [Session -> Chan \cup {None}]]
      /\ ourselves \in [Conn -> Session \cup {None}]
      /\ pending \in [Conn -> SUBSET Message]
      /\ channels \in [Class -> SUBSET Chan]
      /\ users \in [Class -> [Session -> Entry \cup {None}]]
      /\ ServersTyped /\ ClassesOK /\ TablesOK /\ ServerOK(c) /\ Tracked(c) /\ mine[c] \in Session \cup {None}
  BY DEF PictureInv, Inv, TablesOK, ServersTyped, MineOK
<1>2. /\ m \in pending[c] /\ pending' = [pending EXCEPT ![c] = pending[c] \ {m}]
      /\ m.kind = "UserState" => \A o \in pending[c] : o.kind = "UserState"
      /\ UNCHANGED <<exists, name, at, mine, builds, latest, class>>
  BY DEF Receive, truth, modules
<1>3. /\ pending'[c] = pending[c] \ {m} /\ \A d \in Conn \ {c} : pending'[d] = pending[d]
      /\ pending' \in [Conn -> SUBSET Message]
  BY <1>1, <1>2
<1>4. ServerOK(c)'
  BY <1>1, <1>2 DEF ServerOK, Online, Up
<1>5. CASE m.kind = "ChannelState"
  <2>1. ChannelState(class[c], m.id) /\ UNCHANGED <<users, members, ourselves>>
    BY <1>5 DEF Receive
  <2>2. TablesBeside(class[c])
    BY <1>1, <2>1, HandlersBeside
  <2>3. Beside(c)
    BY <1>2, <1>3, <2>1 DEF Beside
  <2>4. ASSUME Up(c), builds[c] = 2
        PROVE  Own(c)' /\ PictureOf(c)' /\ channels'[class[c]] \subseteq exists[c]
    <3>1. Own(c) /\ PictureOf(c)
      BY <1>1, <2>4 DEF Tracked
    <3> DEFINE k == class[c]
    <3>2. k \in Class
      BY <3>1 DEF Own
    <3>3. channels'[k] = channels[k] \cup {m.id}
      BY <1>1, <2>1, <3>2 DEF ChannelState
    <3>4. pending[c] \in SUBSET Message
      BY <1>1
    <3>5. /\ Picture(exists[c], name[c], at[c], mine[c], pending[c] \ {m}, channels[k] \cup {m.id},
                     users[k], ourselves[c])
          /\ channels[k] \cup {m.id} \subseteq exists[c]
      <4>1. Picture(exists[c], name[c], at[c], mine[c], pending[c], channels[k], users[k], ourselves[c])
        BY <3>1 DEF PictureOf
      <4>2. m \in pending[c] /\ m.kind = "ChannelState"
        BY <1>2, <1>5
      <4> QED
        BY <3>4, <4>1, <4>2, PictureOfChannelState
    <3>6. PictureOf(c)'
      BY <1>2, <1>3, <2>1, <3>3, <3>5 DEF PictureOf
    <3>7. Own(c)'
      BY <1>2, <3>1 DEF Own
    <3> QED
      BY <3>3, <3>5, <3>6, <3>7
  <2>5. Tracked(c)'
    BY <1>2, <2>4 DEF Tracked, Up
  <2>6. ServersTyped' /\ ClassesOK'
    BY <1>1, <1>2, <1>3, <2>1 DEF ServersTyped, ClassesOK
  <2> QED
    BY <1>2, <1>4, <2>2, <2>3, <2>4, <2>5, <2>6 DEF Kept
<1>6. CASE m.kind = "UserState"
  <2> DEFINE s == m.id
             k == class[c]
  <2>1. s \in Session
    BY <1>6 DEF Message
  <2>2. UserState(c, s, name[c][s], at[c][s]) /\ channels' = channels
    BY <1>6 DEF Receive
  <2> HIDE DEF s
  <2>3. TablesBeside(class[c])
    <3>1. CASE UserJoins(class[c], s, name[c][s], at[c][s])
      BY <1>1, <2>2, <3>1, HandlersBeside
    <3>2. CASE UNCHANGED <<users, members>>
      BY <2>2, <3>2 DEF TablesBeside
    <3>3. CASE UserMoves(class[c], s, s, at[c][s])
      BY <1>1, <2>2, <3>3, HandlersBeside
    <3> QED
      BY <2>2, <3>1, <3>2, <3>3 DEF UserState
  <2>4. \E o \in Session \cup {None} :
          /\ ourselves' = [ourselves EXCEPT ![c] = o]
          /\ o = IF name[c][s] = Bot /\ users[k][s] = None /\ users'[k][s] # None THEN s ELSE ourselves[c]
    <3>1. ourselves[c] \in Session \cup {None}
      BY <1>1
    <3> QED
      BY <2>1, <2>2, <3>1 DEF UserState, Recognise
  <2>5. PICK o \in Session \cup {None} :
          /\ ourselves' = [ourselves EXCEPT ![c] = o]
          /\ o = IF name[c][s] = Bot /\ users[k][s] = None /\ users'[k][s] # None THEN s ELSE ourselves[c]
    BY <2>4
  <2>6. /\ ourselves'[c] = o /\ \A d \in Conn \ {c} : ourselves'[d] = ourselves[d]
        /\ ourselves' \in [Conn -> Session \cup {None}]
    BY <1>1, <2>5
  <2>7. Beside(c)
    BY <1>2, <1>3, <2>6 DEF Beside
  <2>8. ASSUME Up(c), builds[c] = 2
        PROVE  Own(c)' /\ PictureOf(c)'
    <3>1. Own(c) /\ PictureOf(c)
      BY <1>1, <2>8 DEF Tracked
    <3>2. k \in Class
      BY <3>1 DEF Own
    <3>3. m = [kind |-> "UserState", id |-> s]
      BY <1>6 DEF Message, s
    <3>4. Untold(pending[c], s)
      BY <1>2, <3>3 DEF Untold
    <3>5. users[k][s] = None /\ at[c][s] # None
      BY <2>1, <3>1, <3>4 DEF PictureOf, Picture
    <3>6. at[c][s] \in exists[c]
      BY <1>1, <2>1, <3>5 DEF ServerOK, Online
    <3>7. at[c][s] \in channels[k]
      <4>1. \A h : [kind |-> "ChannelState", id |-> h] \notin pending[c]
        <5>1. \A h : [kind |-> "ChannelState", id |-> h].kind # "UserState"
          OBVIOUS
        <5> QED
          BY <1>2, <1>6, <5>1
      <4> QED
        BY <3>1, <3>6, <4>1 DEF PictureOf, Picture
    <3>8. users' = [users EXCEPT ![k][s] = <<name[c][s], at[c][s]>>]
      BY <2>2, <3>5, <3>7 DEF UserState, UserJoins
    <3>9. users'[k] = [users[k] EXCEPT ![s] = <<name[c][s], at[c][s]>>]
      BY <1>1, <3>2, <3>8
    <3>10. users'[k][s] # None
      <4>1. <<name[c][s], at[c][s]>> \in (Person \cup {None}) \X Chan
        BY <1>1, <2>1, <3>5
      <4>2. users'[k][s] = <<name[c][s], at[c][s]>>
        BY <1>1, <2>1, <3>2, <3>9
      <4> QED
        BY <4>1, <4>2, NoneAssumption
    <3>11. o = IF s = mine[c] THEN s ELSE ourselves[c]
      <4>1. name[c][s] = Bot <=> s = mine[c]
        BY <1>1, <2>1, <2>8 DEF ServerOK
      <4> QED
        BY <2>5, <3>5, <3>10, <4>1
    <3>12. /\ name[c] \in [Session -> Person \cup {None}] /\ at[c] \in [Session -> Chan \cup {None}]
           /\ users[k] \in [Session -> Entry \cup {None}] /\ pending[c] \in SUBSET Message
      BY <1>1, <3>2
    <3>13. Picture(exists[c], name[c], at[c], mine[c], pending[c] \ {m}, channels[k],
                   [users[k] EXCEPT ![s] = <<name[c][s], at[c][s]>>],
                   IF s = mine[c] THEN s ELSE ourselves[c])
      <4>1. Picture(exists[c], name[c], at[c], mine[c], pending[c], channels[k], users[k], ourselves[c])
        BY <3>1 DEF PictureOf
      <4>2. s = m.id /\ s \in Session /\ m \in pending[c] /\ m.kind = "UserState"
        BY <1>2, <1>6, <2>1 DEF s
      <4> QED
        BY <3>12, <4>1, <4>2, PictureOfUserState
    <3>14. PictureOf(c)'
      BY <1>2, <1>3, <2>2, <2>6, <3>9, <3>11, <3>13 DEF PictureOf
    <3>15. Own(c)'
      BY <1>2, <3>1 DEF Own
    <3> QED
      BY <3>14, <3>15
  <2>9. Tracked(c)'
    BY <1>2, <2>8 DEF Tracked, Up
  <2>10. ServersTyped' /\ ClassesOK'
    BY <1>1, <1>2, <1>3, <2>6 DEF ServersTyped, ClassesOK
  <2> QED
    BY <1>2, <1>4, <1>6, <2>3, <2>7, <2>9, <2>10 DEF Kept
<1> QED
  BY <1>5, <1>6 DEF Message

\* A connection that ends leaves a server without the bot.
LEMMA GoneKeeps ==
  ASSUME PictureInv, NEW c \in Conn, Up(c), Gone(c), exists' = exists
  PROVE  /\ ServerOK(c)' /\ ~Up(c)'
         /\ at' \in [Conn -> [Session -> Chan \cup {None}]] /\ pending' \in [Conn -> SUBSET Message]
         /\ \A d \in Conn \ {c} : /\ name'[d] = name[d] /\ at'[d] = at[d] /\ mine'[d] = mine[d]
                                  /\ pending'[d] = pending[d]
<1> DEFINE s == mine[c]
<1>1. /\ name \in [Conn -> [Session -> Person \cup {None}]]
      /\ at \in [Conn -> [Session -> Chan \cup {None}]]
      /\ mine \in [Conn -> Session \cup {None}]
      /\ pending \in [Conn -> SUBSET Message]
      /\ ServerOK(c) /\ s \in Session
  BY DEF PictureInv, Inv, TablesOK, ServersTyped, MineOK, Up
<1>2. /\ at' = [at EXCEPT ![c][s] = None] /\ name' = [name EXCEPT ![c][s] = None]
      /\ mine' = [mine EXCEPT ![c] = None] /\ pending' = [pending EXCEPT ![c] = {}]
  BY DEF Gone
<1> HIDE DEF s
<1>3. /\ at'[c] = [at[c] EXCEPT ![s] = None] /\ name'[c] = [name[c] EXCEPT ![s] = None]
      /\ mine'[c] = None
      /\ \A d \in Conn \ {c} : /\ name'[d] = name[d] /\ at'[d] = at[d] /\ mine'[d] = mine[d]
                               /\ pending'[d] = pending[d]
      /\ at' \in [Conn -> [Session -> Chan \cup {None}]] /\ pending' \in [Conn -> SUBSET Message]
  BY <1>1, <1>2
<1>4. ~Up(c)'
  BY <1>3 DEF Up
<1>5. \A r \in Session : name[c][r] = Bot => r = s
  BY <1>1 DEF ServerOK, s
<1>6. ServerOK(c)'
  <2>1. Root \in exists'[c]
    BY <1>1 DEF ServerOK
  <2>2. \A r \in Session : at'[c][r] # None => at[c][r] # None /\ at'[c][r] = at[c][r]
    BY <1>1, <1>3
  <2>3. \A r \in Session : at'[c][r] # None => at'[c][r] \in exists'[c]
    BY <1>1, <2>2 DEF ServerOK, Online
  <2>4. \A r \in Session : name'[c][r] # Bot
    BY <1>1, <1>3, <1>5, NoneAssumption, BotAssumption
  <2> QED
    BY <1>4, <2>1, <2>3, <2>4 DEF ServerOK, Online
<1> QED
  BY <1>3, <1>4, <1>6

LEMMA DropKeepsPicture ==
  ASSUME PictureInv, NEW c \in Conn, Drop(c)
  PROVE  Kept(c)
<1>1. /\ Up(c) /\ Gone(c) /\ exists' = exists
      /\ UNCHANGED <<builds, latest, class, channels, users, members, ourselves>>
  BY DEF Drop, modules, tables
<1>2. /\ ServerOK(c)' /\ ~Up(c)'
      /\ at' \in [Conn -> [Session -> Chan \cup {None}]] /\ pending' \in [Conn -> SUBSET Message]
      /\ \A d \in Conn \ {c} : /\ name'[d] = name[d] /\ at'[d] = at[d] /\ mine'[d] = mine[d]
                               /\ pending'[d] = pending[d]
  BY <1>1, GoneKeeps
<1>3. ServersTyped' /\ ClassesOK'
  BY <1>1, <1>2 DEF PictureInv, ServersTyped, ClassesOK
<1>4. Beside(c) /\ TablesBeside(class[c])
  BY <1>1, <1>2 DEF Beside, TablesBeside
<1> QED
  BY <1>1, <1>2, <1>3, <1>4 DEF Kept, Tracked

LEMMA KickedKeepsPicture ==
  ASSUME PictureInv, NEW c \in Conn, Kicked(c)
  PROVE  Kept(c)
<1>1. /\ Up(c) /\ Gone(c) /\ exists' = exists /\ UserRemove(class[c], mine[c])
      /\ UNCHANGED <<builds, latest, class, channels, ourselves>>
  BY DEF Kicked, modules
<1>2. /\ ServerOK(c)' /\ ~Up(c)'
      /\ at' \in [Conn -> [Session -> Chan \cup {None}]] /\ pending' \in [Conn -> SUBSET Message]
      /\ \A d \in Conn \ {c} : /\ name'[d] = name[d] /\ at'[d] = at[d] /\ mine'[d] = mine[d]
                               /\ pending'[d] = pending[d]
  BY <1>1, GoneKeeps
<1>3. ServersTyped' /\ ClassesOK'
  BY <1>1, <1>2 DEF PictureInv, ServersTyped, ClassesOK
<1>4. Beside(c)
  BY <1>1, <1>2 DEF Beside
<1>5. TablesBeside(class[c])
  BY <1>1, HandlersBeside DEF PictureInv, Inv
<1> QED
  BY <1>1, <1>2, <1>3, <1>4, <1>5 DEF Kept, Tracked

LEMMA ReloadKeepsPicture ==
  ASSUME PictureInv, NEW c \in Conn, ReloadProtocol(c)
  PROVE  Kept(c)
<1>1. /\ exists' = exists /\ UNCHANGED <<latest, class, channels, users, members, ourselves>>
      /\ builds' = [builds EXCEPT ![c] = 0] /\ builds \in [Conn -> 0 .. 2]
  BY DEF ReloadProtocol, tables, PictureInv, ClassesOK
<1>2. builds'[c] = 0 /\ builds' \in [Conn -> 0 .. 2] /\ \A d \in Conn \ {c} : builds'[d] = builds[d]
  BY <1>1
<1>3. /\ ServerOK(c)'
      /\ at' \in [Conn -> [Session -> Chan \cup {None}]] /\ pending' \in [Conn -> SUBSET Message]
      /\ \A d \in Conn \ {c} : /\ name'[d] = name[d] /\ at'[d] = at[d] /\ mine'[d] = mine[d]
                               /\ pending'[d] = pending[d]
  <2>1. CASE Up(c)
    BY <1>1, <2>1, GoneKeeps DEF ReloadProtocol
  <2>2. CASE ~Up(c)
    <3>1. UNCHANGED <<exists, at, name, mine, pending>>
      BY <1>1, <2>2 DEF ReloadProtocol
    <3> QED
      BY <3>1 DEF PictureInv, ServersTyped, ServerOK, Online, Up
  <2> QED
    BY <2>1, <2>2
<1>4. ServersTyped' /\ ClassesOK'
  BY <1>1, <1>2, <1>3 DEF PictureInv, ServersTyped, ClassesOK
<1>5. Beside(c) /\ TablesBeside(class[c])
  BY <1>1, <1>2, <1>3 DEF Beside, TablesBeside
<1> QED
  BY <1>1, <1>2, <1>3, <1>4, <1>5 DEF Kept, Tracked

-----------------------------------------------------------------------------
(* A new connection *)

LEMMA ConnectKeepsPicture ==
  ASSUME PictureInv, NEW c \in Conn, NEW s \in Session, Connect(c, s), StartsApart, Inv', MineOK'
  PROVE  PictureInv'
<1>1. /\ name \in [Conn -> [Session -> Person \cup {None}]]
      /\ at \in [Conn -> [Session -> Chan \cup {None}]]
      /\ mine \in [Conn -> Session \cup {None}]
      /\ pending \in [Conn -> SUBSET Message]
      /\ ourselves \in [Conn -> Session \cup {None}]
      /\ exists \in [Conn -> SUBSET Chan]
      /\ class \in [Conn -> Class \cup {None}] /\ latest \in Class /\ builds \in [Conn -> 0 .. 2]
      /\ channels \in [Class -> SUBSET Chan]
      /\ users \in [Class -> [Session -> Entry \cup {None}]]
      /\ ServersTyped /\ ClassesOK /\ \A d \in Conn : ServerOK(d) /\ Tracked(d)
  BY DEF PictureInv, Inv, TablesOK, ServersTyped, MineOK, ClassesOK
<1> DEFINE T == [kind : {"ChannelState"}, id : exists[c]] \cup
                [kind : {"UserState"}, id : {r \in Session : at[c][r] # None} \cup {s}]
<1>2. /\ ~Up(c) /\ at[c][s] = None /\ exists' = exists
      /\ ourselves' = [ourselves EXCEPT ![c] = None]
      /\ mine' = [mine EXCEPT ![c] = s]
      /\ at' = [at EXCEPT ![c][s] = Root]
      /\ name' = [name EXCEPT ![c][s] = Bot]
      /\ pending' = [pending EXCEPT ![c] = T]
      /\ builds' = [builds EXCEPT ![c] = IF builds[c] = 0 THEN 1 ELSE 2]
  BY DEF Connect, Online, Build
<1>3. T \in SUBSET Message
  BY <1>1 DEF Message
<1> HIDE DEF T
<1>4. /\ mine'[c] = s /\ ourselves'[c] = None /\ pending'[c] = T
      /\ at'[c] = [at[c] EXCEPT ![s] = Root] /\ name'[c] = [name[c] EXCEPT ![s] = Bot]
      /\ builds'[c] = (IF builds[c] = 0 THEN 1 ELSE 2)
      /\ at' \in [Conn -> [Session -> Chan \cup {None}]] /\ pending' \in [Conn -> SUBSET Message]
      /\ ourselves' \in [Conn -> Session \cup {None}] /\ builds' \in [Conn -> 0 .. 2]
  BY <1>1, <1>2, <1>3, RootAssumption
<1>5. \A d \in Conn \ {c} :
        /\ name'[d] = name[d] /\ at'[d] = at[d] /\ mine'[d] = mine[d] /\ pending'[d] = pending[d]
        /\ ourselves'[d] = ourselves[d] /\ builds'[d] = builds[d]
  BY <1>1, <1>2
<1>6. ServerOK(c)'
  <2>1. Root \in exists[c] /\ \A r \in Session : at[c][r] # None => at[c][r] \in exists[c]
    BY <1>1 DEF ServerOK, Online
  <2>2. \A r \in Session : name[c][r] # Bot
    BY <1>1, <1>2, NoneAssumption DEF ServerOK, Up
  <2>3. \A r \in Session : name'[c][r] = Bot => r = s
    BY <1>1, <1>4, <2>2
  <2>4. \A r \in Session : at'[c][r] # None => at'[c][r] \in exists[c]
    BY <1>1, <1>4, <2>1
  <2>5. at'[c][s] = Root /\ name'[c][s] = Bot /\ Root # None
    BY <1>1, <1>4, RootAssumption, NoneAssumption
  <2> QED
    BY <1>2, <1>4, <2>1, <2>3, <2>4, <2>5 DEF ServerOK, Online, Up
<1>7. \A d \in Conn \ {c} : ServerOK(d)'
  BY <1>1, <1>2, <1>5 DEF ServerOK, Online, Up
<1>8. ServersTyped'
  BY <1>1, <1>2, <1>4 DEF ServersTyped
<1>9. CASE builds[c] = 0
  <2>1. class' = [class EXCEPT ![c] = latest] /\ UNCHANGED <<latest, channels, users, members>>
    BY <1>9 DEF Connect, Build, tables
  <2>2. /\ class'[c] = latest /\ \A d \in Conn \ {c} : class'[d] = class[d]
        /\ class' \in [Conn -> Class \cup {None}]
    BY <1>1, <2>1
  <2>3. ClassesOK'
    BY <1>1, <1>4, <2>1, <2>2 DEF ClassesOK
  <2>4. ASSUME NEW d \in Conn \ {c}, Up(d)', builds'[d] = 2
        PROVE  Own(d)' /\ PictureOf(d)'
    <3>1. Up(d) /\ builds[d] = 2
      BY <1>5, <2>4 DEF Up
    <3>2. Own(d) /\ PictureOf(d)
      BY <1>1, <3>1 DEF Tracked
    <3>3. class[d] # latest
      BY <1>4, <1>9, <3>1 DEF StartsApart
    <3>4. Own(d)'
      BY <2>2, <3>2, <3>3 DEF Own
    <3>5. PictureOf(d)'
      BY <1>2, <1>5, <2>1, <2>2, <3>2 DEF PictureOf
    <3> QED
      BY <3>4, <3>5
  <2>5. \A d \in Conn : Tracked(d)'
    BY <1>4, <1>9, <2>4 DEF Tracked
  <2> QED
    BY <1>6, <1>7, <1>8, <2>3, <2>5 DEF PictureInv
<1>10. CASE builds[c] # 0
  <2> DEFINE F == Fresh
  <2>1. /\ latest' = F /\ class' = [class EXCEPT ![c] = F]
        /\ channels' = [channels EXCEPT ![F] = {}]
        /\ users' = [users EXCEPT ![F] = [r \in Session |-> None]]
    BY <1>10 DEF Connect, Build
  <2>2. F \in Class /\ \A d \in Conn : class[d] # F
    BY <1>1, FreshIsFresh
  <2> HIDE DEF F
  <2>3. /\ class'[c] = F /\ \A d \in Conn \ {c} : class'[d] = class[d]
        /\ class' \in [Conn -> Class \cup {None}]
        /\ channels'[F] = {} /\ users'[F] = [r \in Session |-> None]
        /\ \A k \in Class \ {F} : channels'[k] = channels[k] /\ users'[k] = users[k]
    BY <1>1, <2>1, <2>2
  <2>4. ClassesOK'
    BY <1>4, <2>1, <2>2, <2>3 DEF ClassesOK
  <2>5. ASSUME NEW d \in Conn \ {c}, Up(d)', builds'[d] = 2
        PROVE  Own(d)' /\ PictureOf(d)'
    <3>1. Up(d) /\ builds[d] = 2
      BY <1>5, <2>5 DEF Up
    <3>2. Own(d) /\ PictureOf(d)
      BY <1>1, <3>1 DEF Tracked
    <3>3. class[d] \in Class \ {F} /\ class'[d] = class[d]
      BY <2>2, <2>3, <3>2 DEF Own
    <3>4. Own(d)'
      BY <2>2, <2>3, <3>2, <3>3 DEF Own
    <3>5. PictureOf(d)'
      BY <1>2, <1>5, <2>3, <3>2, <3>3 DEF PictureOf
    <3> QED
      BY <3>4, <3>5
  <2>6. Own(c)'
    BY <2>2, <2>3 DEF Own
  <2>7. PictureOf(c)'
    <3>1. /\ exists[c] \in SUBSET Chan /\ name[c] \in [Session -> Person \cup {None}]
          /\ at[c] \in [Session -> Chan \cup {None}]
      BY <1>1
    <3>2. Picture(exists[c], [name[c] EXCEPT ![s] = Bot], [at[c] EXCEPT ![s] = Root], s, T, {},
                  [r \in Session |-> None], None)
      BY <3>1, PictureOfStart, RootAssumption DEF T
    <3> QED
      BY <1>2, <1>4, <2>3, <3>2 DEF PictureOf
  <2>8. \A d \in Conn : Tracked(d)'
    BY <2>5, <2>6, <2>7 DEF Tracked
  <2> QED
    BY <1>6, <1>7, <1>8, <2>4, <2>8 DEF PictureInv
<1> QED
  BY <1>9, <1>10

-----------------------------------------------------------------------------
(* All steps *)

LEMMA PictureInitially == Init => PictureInv
<1> SUFFICES ASSUME Init PROVE PictureInv
  OBVIOUS
<1>1. Inv /\ MineOK
  BY DEF Init, Inv, TablesOK, MembersAgree, MineOK
<1>2. ServersTyped
  BY RootAssumption DEF Init, ServersTyped
<1>3. ClassesOK
  <2>1. (CHOOSE k \in Class : TRUE) \in Class
    BY ClassAssumption
  <2> QED
    BY <2>1 DEF Init, ClassesOK
<1>4. \A c \in Conn : ServerOK(c) /\ Tracked(c)
  BY NoneAssumption, BotAssumption DEF Init, ServerOK, Tracked, Up, Online
<1> QED
  BY <1>1, <1>2, <1>3, <1>4 DEF PictureInv

LEMMA KeptIsEnough ==
  ASSUME PictureInv, Inv', MineOK', NEW c \in Conn, Kept(c)
  PROVE  PictureInv'
BY OneConnection DEF Kept

LEMMA PictureSteps == PictureInv /\ [Next]_vars /\ (StartsApart \/ UNCHANGED vars) => PictureInv'
<1> SUFFICES ASSUME PictureInv, [Next]_vars, StartsApart \/ UNCHANGED vars PROVE PictureInv'
  OBVIOUS
<1>1. Inv' /\ MineOK'
  BY StepAgrees, StepMine DEF PictureInv
<1>2. CASE UNCHANGED vars
  BY <1>1, <1>2 DEF PictureInv, vars, truth, modules, tables, ServersTyped, ClassesOK, ServerOK,
                    Tracked, Online, Up, Own, PictureOf
<1>3. CASE Next /\ StartsApart
  <2>1. PICK c \in Conn :
          \/ \E s \in Session, n \in Person : Join(c, s, n)
          \/ \E s, actor \in Session, h \in Chan : Move(c, s, actor, h)
          \/ \E s \in Session : Leave(c, s) \/ Connect(c, s)
          \/ \E h \in Chan : AddChannel(c, h) \/ RemoveChannel(c, h)
          \/ \E m \in Message : Receive(c, m)
          \/ Drop(c) \/ Kicked(c) \/ ReloadProtocol(c)
    BY <1>3 DEF Next
  <2>2. CASE \E s \in Session : Connect(c, s)
    BY <1>1, <1>3, <2>2, ConnectKeepsPicture
  <2>3. CASE ~\E s \in Session : Connect(c, s)
    <3>1. Kept(c)
      BY <2>1, <2>3, JoinKeepsPicture, MoveKeepsPicture, LeaveKeepsPicture, AddKeepsPicture,
         RemoveKeepsPicture, ReceiveKeepsPicture, DropKeepsPicture, KickedKeepsPicture,
         ReloadKeepsPicture
    <3> QED
      BY <1>1, <3>1, KeptIsEnough
  <2> QED
    BY <2>2, <2>3
<1> QED
  BY <1>2, <1>3

LEMMA PictureIsExact == PictureInv => UsersAreExact
<1> SUFFICES ASSUME PictureInv, NEW c \in Conn, Again(c) PROVE Exact(c) /\ ourselves[c] = mine[c]
  BY DEF UsersAreExact
<1>1. PictureOf(c) /\ pending[c] = {}
  BY DEF PictureInv, Tracked, Again, Told, Quiet
<1> QED
  BY <1>1 DEF PictureOf, Picture, Exact, Online, Untold

\* For any number of protocols and classes, sessions, channels and people: what
\* a protocol that has connected again tracks is exactly who is there, through
\* drops, kicks and reloads, and it knows which of them is the bot; provided
\* that no factory builds its first protocol while the newest class is the one
\* of a protocol that has connected again and is still connected.
THEOREM UsersStayExact == Spec /\ [][StartsApart]_vars => []UsersAreExact
<1>1. PictureInv /\ [Next]_vars /\ [StartsApart]_vars => PictureInv'
  BY PictureSteps
<1> QED
  BY <1>1, PictureInitially, PictureIsExact, PTL DEF Spec

\* With one protocol nothing has to be provided.
THEOREM OneProtocolIsExact ==
  ASSUME \A c, d \in Conn : c = d
  PROVE  Spec => []UsersAreExact
<1>1. Next => StartsApart
  BY DEF StartsApart
<1>2. PictureInv /\ [Next]_vars => PictureInv'
  BY <1>1, PictureSteps
<1> QED
  BY <1>2, PictureInitially, PictureIsExact, PTL DEF Spec

\* What a connection still waits for comes by messages only.
LEMMA OnlyReceivingTells ==
  ASSUME PictureInv, Next, NEW c \in Conn, ~Told(c), Again(c)'
  PROVE  \E m \in Message : Receive(c, m)
<1>1. PICK d \in Conn :
        \/ \E s \in Session, n \in Person : Join(d, s, n)
        \/ \E s, actor \in Session, h \in Chan : Move(d, s, actor, h)
        \/ \E s \in Session : Leave(d, s) \/ Connect(d, s)
        \/ \E h \in Chan : AddChannel(d, h) \/ RemoveChannel(d, h)
        \/ \E m \in Message : Receive(d, m)
        \/ Drop(d) \/ Kicked(d) \/ ReloadProtocol(d)
  BY DEF Next
<1>2. /\ pending \in [Conn -> SUBSET Message] /\ mine \in [Conn -> Session \cup {None}]
      /\ builds \in [Conn -> 0 .. 2] /\ Root \in exists[c]
  BY DEF PictureInv, ServersTyped, MineOK, ClassesOK, ServerOK
<1>3. pending'[c] = {} /\ mine'[c] # None /\ builds'[c] = 2
  BY DEF Again, Told, Quiet, Up
<1>4. ~(pending'[c] = pending[c] /\ mine'[c] = mine[c])
  BY <1>3 DEF Told, Quiet, Up
<1>5. ASSUME NEW s \in Session, Connect(d, s)
      PROVE  FALSE
  <2>1. CASE d = c
    <3>1. [kind |-> "ChannelState", id |-> Root] \in pending'[c]
      BY <1>2, <1>5, <2>1 DEF Connect
    <3> QED
      BY <1>3, <3>1
  <2>2. CASE d # c
    BY <1>2, <1>4, <1>5, <2>2 DEF Connect
  <2> QED
    BY <2>1, <2>2
<1>6. ASSUME Gone(d)
      PROVE  FALSE
  BY <1>2, <1>3, <1>4, <1>6 DEF Gone
<1>7. ASSUME NEW m \in Message, Receive(d, m)
      PROVE  d = c
  BY <1>2, <1>4, <1>7 DEF Receive
<1>8. ~(UNCHANGED <<mine, pending>>)
  BY <1>4
<1>9. \/ \E s \in Session : Connect(d, s)
      \/ Gone(d)
      \/ \E m \in Message : Receive(d, m)
  BY <1>1, <1>8 DEF Join, Move, Leave, AddChannel, RemoveChannel, Drop, Kicked, ReloadProtocol
<1> QED
  BY <1>5, <1>6, <1>7, <1>9

\* Likewise, all channels of its server can be found, and when the first
\* messages are through, no others.
THEOREM ChannelsStayFound == Spec /\ [][StartsApart]_vars => ChannelsAreFound
<1> DEFINE Found == \A c \in Conn :
              /\ Again(c) => exists[c] \subseteq channels[class[c]]
              /\ ~Told(c) /\ Again(c)' => channels'[class'[c]] = exists'[c]
<1>1. ASSUME PictureInv, [Next]_vars, StartsApart \/ UNCHANGED vars
      PROVE  [Found]_vars
  <2> SUFFICES ASSUME Next, StartsApart PROVE Found
    BY <1>1
  <2>1. PictureInv'
    BY <1>1, PictureSteps
  <2>2. ASSUME NEW c \in Conn, Again(c)
        PROVE  exists[c] \subseteq channels[class[c]]
    <3>1. PictureOf(c) /\ pending[c] = {}
      BY <1>1, <2>2 DEF PictureInv, Tracked, Again, Told, Quiet
    <3> QED
      BY <3>1 DEF PictureOf, Picture
  <2>3. ASSUME NEW c \in Conn, ~Told(c), Again(c)'
        PROVE  channels'[class'[c]] = exists'[c]
    <3>1. PictureOf(c)' /\ pending'[c] = {}
      BY <2>1, <2>3 DEF PictureInv, Tracked, Again, Told, Quiet
    <3>2. exists'[c] \subseteq channels'[class'[c]]
      BY <3>1 DEF PictureOf, Picture
    <3>3. channels'[class'[c]] \subseteq exists'[c]
      <4>1. PICK m \in Message : Receive(c, m)
        BY <1>1, <2>3, OnlyReceivingTells
      <4>2. UNCHANGED <<exists, builds, class, mine>> /\ pending[c] # {}
        BY <4>1 DEF Receive, truth, modules
      <4>3. Tracked(c) /\ Up(c) /\ builds[c] = 2
        BY <1>1, <2>3, <4>2 DEF PictureInv, Again, Told, Up
      <4>4. CASE m.kind = "ChannelState"
        BY <1>1, <4>1, <4>2, <4>3, <4>4, ReceiveKeepsPicture
      <4>5. CASE m.kind # "ChannelState"
        <5>1. channels' = channels
          BY <4>1, <4>5 DEF Receive
        <5> QED
          BY <4>2, <4>3, <5>1 DEF Tracked, PictureOf, Picture
      <4> QED
        BY <4>4, <4>5
    <3> QED
      BY <3>2, <3>3
  <2> QED
    BY <2>2, <2>3
<1>2. PictureInv /\ [Next]_vars /\ [StartsApart]_vars => PictureInv' /\ [Found]_vars
  BY <1>1, PictureSteps
<1> QED
  BY <1>2, PictureInitially, PTL DEF Spec, ChannelsAreFound
=============================================================================
