--------------------------- MODULE SessionsProofs ---------------------------
(***************************************************************************)
(* Proofs about a connection.  Sessions, for any channels and number of    *)
(* connections: the bot is only where the configuration or somebody has    *)
(* put it, floods of requests are cut off, and frames are handled once.    *)
(* IRCTracking, for any people, channels and nicks: what the bot believes  *)
(* of its channels is what the server knows.                               *)
(***************************************************************************)
EXTENDS Sessions, IRCTracking, Integers, FiniteSetTheorems, WellFoundedInduction, TLAPS

\* Where the bot may be on this connection.
Put == ListedChannels \cup reasons

\* Lines that lead only into channels of C.
Leading(C) == {l \in Line : l.do = "JOIN" => l.chan \in C}

\* The lines that are under way, and those a timer of this connection would
\* send, ask for no other channels.  A timer of one before, whose channel
\* nobody may have put the bot in since, runs for a connection that is lost.
LinesLead == lines \in Seq(Leading(Put))

TimersLead ==
  \A t \in timers :
    /\ t.conn \in Nat /\ t.conn <= conn
    /\ t.call \in {"do_sign_on", "do_channel_joins", "join_channel"}
    /\ t.call = "join_channel" /\ t.conn = conn /\ Up => t.chan \in Channel \cap Put

PlacesKnown == joined \subseteq Channel /\ reasons \subseteq Channel /\ conn \in Nat

Inv == PlacesKnown /\ LinesLead /\ TimersLead /\ OnlyWherePut

-----------------------------------------------------------------------------
(***************************************************************************)
(* Lines                                                                   *)
(***************************************************************************)
LEMMA OneLine == ASSUME NEW S, NEW x \in S PROVE <<x>> \in Seq(S) /\ <<>> \in Seq(S)
OBVIOUS

LEMMA TwoLines == ASSUME NEW S, NEW x \in S, NEW y \in S PROVE <<x, y>> \in Seq(S)
OBVIOUS

LEMMA MoreLines == ASSUME NEW S, NEW s \in Seq(S), NEW t \in Seq(S) PROVE s \o t \in Seq(S)
OBVIOUS

\* A line that is no JOIN leads nowhere.
LEMMA SayLeads ==
  ASSUME NEW C, NEW what \in {"CAP REQ", "NICK", "AUTHENTICATE", "CAP END", "IDENTIFY"}
  PROVE  Say(what) \in Leading(C)
BY DEF Say, Leading, Line

LEMMA JoinLeads ==
  ASSUME NEW C, NEW c \in Channel \cap C, NEW key \in BOOLEAN
  PROVE  Join(c, key) \in Leading(C)
BY DEF Join, Leading, Line

LEMMA LeadingIsMonotone ==
  ASSUME NEW C, NEW D, C \subseteq D, NEW s \in Seq(Leading(C))
  PROVE  s \in Seq(Leading(D))
<1>1. Leading(C) \subseteq Leading(D)
  BY DEF Leading
<1> QED
  BY <1>1

\* The channels of the configuration.
LEMMA JoinsListedLead == JoinsListed \in Seq(Leading(Put))
<1>1. Listed \in Seq(Channel)
  BY ChannelAssumption
<1>2. ASSUME NEW i \in DOMAIN Listed
      PROVE  Join(Listed[i], Listed[i] \in Keyed) \in Leading(Put)
  <2>1. Listed[i] \in Channel \cap Put
    BY <1>1 DEF Put, ListedChannels
  <2>2. (Listed[i] \in Keyed) \in BOOLEAN
    OBVIOUS
  <2> QED
    BY <2>1, <2>2, JoinLeads
<1>3. DOMAIN Listed = 1 .. Len(Listed) /\ Len(Listed) \in Nat
  BY <1>1
<1>4. JoinsListed \in [1 .. Len(Listed) -> Leading(Put)]
  BY <1>2, <1>3 DEF JoinsListed
<1> QED
  BY <1>3, <1>4

-----------------------------------------------------------------------------
LEMMA Initially == Init => Inv
BY DEF Init, IRCInit, Inv, PlacesKnown, LinesLead, TimersLead, OnlyWherePut

\* What the server answers.
LEMMA ServerSteps ==
  ASSUME Inv, ServerStep
  PROVE  Inv'
<1> USE DEF Inv
<1>0. lines # <<>> => Head(lines) \in Leading(Put) /\ Tail(lines) \in Seq(Leading(Put))
  BY DEF LinesLead
<1>1. CASE Registers
  <2>1. UNCHANGED <<conn, link, timers, joined, reasons>>
    BY <1>1 DEF Registers
  <2>2. lines' \in Seq(Leading(Put))
    <3>1. \A answer : CapAnswered(answer) \in Seq(Leading(Put))
      BY SayLeads, OneLine DEF CapAnswered
    <3>2. \A accepted \in BOOLEAN : LoginAnswered(accepted) \in Seq(Leading(Put))
      BY SayLeads, OneLine DEF LoginAnswered
    <3>3. \E more \in Seq(Leading(Put)) : lines' = Tail(lines) \o more \/ lines' = Tail(lines)
      BY <1>1, <3>1, <3>2 DEF Registers, Negotiate
    <3> QED
      BY <1>0, <1>1, <3>3, MoreLines DEF Registers
  <2> QED
    BY <2>1, <2>2 DEF PlacesKnown, LinesLead, TimersLead, OnlyWherePut, Put, Up
<1>2. CASE Welcome
  <2>1. UNCHANGED <<conn, lines, joined, reasons>> /\ link # "down"
    BY <1>2 DEF Welcome, Server
  <2>2. timers' = timers \cup {Call("do_sign_on", conn, NoChannel)}
    BY <1>2 DEF Welcome
  <2>3. TimersLead'
    BY <2>1, <2>2 DEF TimersLead, Call, Up, Put, PlacesKnown
  <2> QED
    BY <2>1, <2>3 DEF PlacesKnown, LinesLead, OnlyWherePut, Put
<1>3. CASE JoinAnswered
  <2> DEFINE c == Head(lines).chan
  <2>1. UNCHANGED <<conn, link, timers, reasons>> /\ lines' = Tail(lines) /\ lines # <<>>
    BY <1>3 DEF JoinAnswered
  <2>2. Head(lines).do = "JOIN" /\ Head(lines) \in Leading(Put)
    BY <1>0, <1>3 DEF JoinAnswered
  <2>3. c \in Channel \cap Put
    BY <2>2, ChannelAssumption DEF Leading, Line
  <2>4. joined' = joined \cup {c} \/ joined' = joined
    BY <1>3 DEF JoinAnswered
  <2> QED
    BY <1>0, <2>1, <2>3, <2>4
    DEF PlacesKnown, LinesLead, TimersLead, OnlyWherePut, Put, Up
<1>4. CASE PartAnswered
  <2>1. UNCHANGED <<conn, link, timers, reasons>> /\ lines' = Tail(lines) /\ lines # <<>>
    BY <1>4 DEF PartAnswered
  <2>2. joined' \subseteq joined
    BY <1>4 DEF PartAnswered
  <2> QED
    BY <1>0, <2>1, <2>2 DEF PlacesKnown, LinesLead, TimersLead, OnlyWherePut, Put, Up
<1> QED
  BY <1>1, <1>2, <1>3, <1>4 DEF ServerStep

\* A timer sends on its own connection or not at all.
LEMMA TimerSteps ==
  ASSUME Inv, NEW t \in timers, Fire(t)
  PROVE  Inv'
<1> USE DEF Inv
<1>1. UNCHANGED <<conn, link, joined, reasons>>
  BY DEF Fire, Server
<1>2. \E more \in Seq(Leading(Put)) : lines' = Sent(t.conn, more) \/ lines' = lines
  <2>1. CASE t.call = "do_sign_on"
    <3>1. SignsOn \in Seq(Leading(Put))
      BY SayLeads, OneLine DEF SignsOn
    <3> QED
      BY <2>1, <3>1 DEF Fire, Fires
  <2>2. CASE t.call = "do_channel_joins"
    BY <2>2, JoinsListedLead DEF Fire, Fires
  <2>3. CASE t.call = "join_channel"
    <3>1. lines' = Sent(t.conn, <<Join(t.chan, FALSE)>>)
      BY <2>3 DEF Fire, Fires
    <3>2. CASE Up /\ t.conn = conn
      <4>1. t.chan \in Channel \cap Put
        BY <2>3, <3>2 DEF TimersLead
      <4>2. <<Join(t.chan, FALSE)>> \in Seq(Leading(Put))
        BY <4>1, JoinLeads, OneLine
      <4> QED
        BY <3>1, <4>2
    <3>3. CASE ~(Up /\ t.conn = conn)
      <4>1. lines' = lines
        BY <3>1, <3>3 DEF Sent
      <4>2. <<>> \in Seq(Leading(Put))
        OBVIOUS
      <4> QED
        BY <4>1, <4>2
    <3> QED
      BY <3>2, <3>3
  <2> QED
    BY <2>1, <2>2, <2>3 DEF TimersLead
<1>3. lines' \in Seq(Leading(Put))
  BY <1>2, MoreLines DEF LinesLead, Sent
<1>4. \A u \in timers' : u \in timers \/ u = Call("do_channel_joins", t.conn, NoChannel)
  BY DEF Fire, TimersLead
<1>5. t.conn \in Nat /\ t.conn <= conn
  BY DEF TimersLead
<1>6. TimersLead'
  BY <1>1, <1>4, <1>5 DEF TimersLead, Call, Up, Put
<1> QED
  BY <1>1, <1>3, <1>6 DEF PlacesKnown, LinesLead, OnlyWherePut, Put

\* A connection starts with no line and no timer of its own, and ends with the
\* bot nowhere.
LEMMA ConnectionSteps ==
  ASSUME Inv, Connect \/ Drop
  PROVE  Inv'
<1> USE DEF Inv
<1>1. CASE Connect
  <2>1. UNCHANGED <<timers, joined, reasons>> /\ conn' = conn + 1
    BY <1>1 DEF Connect, Server
  <2>2. lines' \in Seq(Leading(Put))
    <3>1. Say("CAP REQ") \in Leading(Put) /\ Say("NICK") \in Leading(Put)
      BY SayLeads
    <3> QED
      BY <1>1, <3>1, OneLine, TwoLines DEF Connect
  <2>3. TimersLead'
    BY <2>1 DEF TimersLead, PlacesKnown
  <2> QED
    BY <2>1, <2>2, <2>3 DEF PlacesKnown, LinesLead, OnlyWherePut, Put
<1>2. CASE Drop
  <2>1. UNCHANGED <<timers, conn>> /\ joined' = {} /\ reasons' = {} /\ link' = "down"
    BY <1>2 DEF Drop
  <2>2. lines' \in Seq(Leading(Put'))
    BY <1>2 DEF Drop
  <2>3. TimersLead'
    BY <2>1 DEF TimersLead, Up
  <2> QED
    BY <2>1, <2>2, <2>3 DEF PlacesKnown, LinesLead, OnlyWherePut, Put
<1> QED
  BY <1>1, <1>2

\* Being kicked, told to join or to leave.
LEMMA ChannelSteps ==
  ASSUME Inv, NEW c \in Channel,
         KickedFrom(c) \/ Leave(c) \/ \E b \in BOOLEAN : InvitedTo(c, b)
  PROVE  Inv'
<1> USE DEF Inv
<1>1. CASE KickedFrom(c)
  <2>1. UNCHANGED <<conn, link, lines, reasons>> /\ joined' \subseteq joined /\ c \in joined
    BY <1>1 DEF KickedFrom
  <2>2. \A t \in timers' : t \in timers \/ t = Call("join_channel", conn, c)
    BY <1>1 DEF KickedFrom
  <2>3. c \in Put
    BY <2>1 DEF OnlyWherePut, Put
  <2>4. TimersLead'
    BY <2>1, <2>2, <2>3 DEF TimersLead, Call, Up, Put, PlacesKnown
  <2> QED
    BY <2>1, <2>4 DEF PlacesKnown, LinesLead, OnlyWherePut, Put
<1>2. CASE Leave(c)
  <2>1. UNCHANGED <<conn, link, timers, joined, reasons>>
    BY <1>2 DEF Leave, Server
  <2>2. [do |-> "PART", chan |-> c, key |-> FALSE] \in Leading(Put)
    BY DEF Leading, Line
  <2>3. lines' \in Seq(Leading(Put))
    BY <1>2, <2>2, OneLine, MoreLines DEF Leave, Send, LinesLead
  <2> QED
    BY <2>1, <2>3 DEF PlacesKnown, LinesLead, TimersLead, OnlyWherePut, Put, Up
<1>3. CASE \E b \in BOOLEAN : InvitedTo(c, b)
  <2>1. /\ UNCHANGED <<conn, link, timers, joined>>
        /\ reasons' = reasons \cup {c} /\ lines' = lines \o <<Join(c, FALSE)>>
    BY <1>3 DEF InvitedTo, Server, Send
  <2>2. Put' = Put \cup {c}
    BY <2>1 DEF Put, ListedChannels
  <2>3. lines \in Seq(Leading(Put'))
    BY <2>2, LeadingIsMonotone DEF LinesLead
  <2>4. Join(c, FALSE) \in Leading(Put')
    BY <2>2, JoinLeads
  <2>5. LinesLead'
    BY <2>1, <2>3, <2>4, OneLine, MoreLines DEF LinesLead
  <2>6. TimersLead'
    BY <2>1, <2>2 DEF TimersLead, Up
  <2> QED
    BY <2>1, <2>5, <2>6 DEF PlacesKnown, OnlyWherePut, Put
<1> QED
  BY <1>1, <1>2, <1>3

\* Every step keeps the invariant; those of the other two machines leave all
\* it is about alone.
LEMMA Steps == Inv /\ [Next]_vars => Inv'
<1> SUFFICES ASSUME Inv, [Next]_vars PROVE Inv'
  OBVIOUS
<1>1. CASE IRC
  BY <1>1, ServerSteps, TimerSteps, ConnectionSteps, ChannelSteps DEF IRC, IRCNext
<1>2. CASE UNCHANGED ircVars
  BY <1>2
  DEF ircVars, Inv, PlacesKnown, LinesLead, TimersLead, OnlyWherePut, Put, Up, ListedChannels
<1> QED
  BY <1>1, <1>2 DEF Next, Requests, Mumble, vars

\* On every connection, whatever connections were lost before it, whichever
\* timers of theirs still run and whoever kicks or invites the bot, it is in no
\* channel that is not listed and that nobody has put it in.
THEOREM BotIsWherePut == Spec => []OnlyWherePut
<1>1. Inv => OnlyWherePut
  BY DEF Inv
<1> QED
  BY <1>1, Initially, Steps, PTL DEF Spec

-----------------------------------------------------------------------------
(***************************************************************************)
(* CTCP requests                                                           *)
(***************************************************************************)
CTCPTyped ==
  /\ since \in 0 .. Forever /\ blocked \in 0 .. Forever /\ count \in 0 .. CtcpCount + 1
  /\ answers \in Seq(0 .. Forever) /\ Len(answers) <= Remembered

\* While requests are answered, those beyond what was counted are from before
\* the time that counts, and those beyond another ctcp_count long ago.
WindowsFollow ==
  count <= CtcpCount =>
    \A i \in DOMAIN answers :
      /\ i + count <= Len(answers) => answers[i] > since \/ answers[i] = Forever
      /\ i + count + CtcpCount <= Len(answers) => answers[i] = Forever

\* When they are not, nothing was answered since.
Cut ==
  /\ count > CtcpCount => \A i \in DOMAIN answers : answers[i] >= since
  /\ count > CtcpCount /\ Len(answers) = Remembered => answers[1] = Forever
  /\ blocked <= CtcpTime => blocked = since /\ count > CtcpCount

NothingJustNow == since = Forever => \A i \in DOMAIN answers : answers[i] >= 1

CTCPInv == CTCPTyped /\ WindowsFollow /\ Cut /\ NothingJustNow

\* The answers after one more: those before it move up if there are too many.
LEMMA AnsweredIs ==
  ASSUME CTCPTyped
  PROVE  \E d \in {0, 1} :
           /\ Answered \in Seq(0 .. Forever) /\ Len(Answered) <= Remembered
           /\ Len(Answered) = Len(answers) + 1 - d
           /\ d = 1 <=> Len(answers) = Remembered
           /\ Answered[Len(Answered)] = 0
           /\ \A i \in DOMAIN Answered :
                i < Len(Answered) => i + d \in DOMAIN answers /\ Answered[i] = answers[i + d]
<1> DEFINE old == IF Len(answers) = Remembered THEN Tail(answers) ELSE answers
           d == IF Len(answers) = Remembered THEN 1 ELSE 0
<1>1. Forever \in Nat /\ Remembered \in Nat /\ Remembered >= 3
  BY CTCPAssumption DEF Forever, Remembered
<1>2. /\ old \in Seq(0 .. Forever) /\ Len(old) = Len(answers) - d
      /\ \A i \in 1 .. Len(old) : i + d \in DOMAIN answers /\ old[i] = answers[i + d]
  <2>1. CASE Len(answers) = Remembered
    BY <1>1, <2>1 DEF CTCPTyped
  <2>2. CASE Len(answers) # Remembered
    BY <1>1, <2>2 DEF CTCPTyped
  <2> QED
    BY <2>1, <2>2
<1>3. Answered = Append(old, 0) /\ d \in {0, 1}
  BY DEF Answered
<1>4. d = 1 <=> Len(answers) = Remembered
  OBVIOUS
<1> HIDE DEF old, d
<1>5. /\ Answered \in Seq(0 .. Forever) /\ Len(Answered) = Len(old) + 1
      /\ Answered[Len(Answered)] = 0
      /\ \A i \in 1 .. Len(old) : Answered[i] = old[i]
  BY <1>1, <1>2, <1>3
<1>6. /\ Len(Answered) = Len(answers) + 1 - d /\ Len(Answered) <= Remembered
      /\ Len(answers) \in Nat
  BY <1>1, <1>2, <1>3, <1>4, <1>5 DEF CTCPTyped
<1>7. ASSUME NEW i \in DOMAIN Answered, i < Len(Answered)
      PROVE  i + d \in DOMAIN answers /\ Answered[i] = answers[i + d]
  BY <1>2, <1>5, <1>7
<1> QED
  BY <1>3, <1>4, <1>5, <1>6, <1>7

LEMMA ReceivedKeeps ==
  ASSUME CTCPInv, NEW q \in Query, Received(q)
  PROVE  CTCPInv'
<1>1. CASE q = "ACTION"
  BY <1>1 DEF Received, ctcpVars, CTCPInv, CTCPTyped, WindowsFollow, Cut, NothingJustNow
<1> DEFINE reset == IF since > CtcpTime THEN 0 ELSE since
<1>2. /\ Forever = CtcpTime + 1 /\ Remembered = 2 * CtcpCount + 1
      /\ CtcpTime \in Nat /\ CtcpCount \in Nat /\ CtcpCount >= 1
      /\ since \in 0 .. Forever /\ blocked \in 0 .. Forever /\ count \in 0 .. CtcpCount + 1
      /\ answers \in Seq(0 .. Forever) /\ Len(answers) <= Remembered
  BY CTCPAssumption DEF Forever, Remembered, CTCPInv, CTCPTyped
<1>3. CASE q # "ACTION" /\ Counted > CtcpCount
  <2>1. /\ count' = CtcpCount + 1 /\ since' = 0 /\ blocked' = 0 /\ answers' = answers
        /\ count >= CtcpCount
    BY <1>2, <1>3 DEF Received, Postponed, Counted
  <2>2. Len(answers) = Remembered => answers[1] = Forever
    <3>1. Len(answers) = Remembered => 1 \in DOMAIN answers
      BY <1>2
    <3> QED
      BY <1>2, <2>1, <3>1 DEF CTCPInv, WindowsFollow, Cut
  <2>3. \A i \in DOMAIN answers : answers[i] >= 0
    BY <1>2
  <2> QED
    BY <1>2, <2>1, <2>2, <2>3 DEF CTCPInv, CTCPTyped, WindowsFollow, Cut, NothingJustNow
<1>4. CASE q # "ACTION" /\ Counted <= CtcpCount
  <2>1. /\ count' = Counted /\ since' = reset /\ blocked' = blocked
        /\ answers' = answers \/ answers' = Answered
    BY <1>2, <1>4 DEF Received, Counted
  <2>2. count' \in 1 .. CtcpCount /\ since' \in 0 .. CtcpTime /\ blocked > CtcpTime
    BY <1>2, <1>4, <2>1 DEF Counted, CTCPInv, Cut
  \* What there was before, as it is to be seen now.
  <2>3. ASSUME NEW i \in DOMAIN answers
        PROVE  /\ i + count' <= Len(answers) + 1 => answers[i] > since' \/ answers[i] = Forever
               /\ i + count' + CtcpCount <= Len(answers) + 1 => answers[i] = Forever
    <3>1. answers[i] \in 0 .. Forever /\ i \in Nat /\ i >= 1 /\ i <= Len(answers) /\ Len(answers) \in Nat
      BY <1>2
    <3>2. CASE since > CtcpTime
      <4>1. since = Forever /\ count' = 1 /\ since' = 0 /\ answers[i] >= 1
        BY <1>2, <2>1, <3>2 DEF Counted, CTCPInv, NothingJustNow
      <4>2. i + CtcpCount <= Len(answers) => answers[i] = Forever
        <5>1. CASE count > CtcpCount
          BY <1>2, <3>1, <4>1, <5>1 DEF CTCPInv, Cut
        <5>2. CASE count <= CtcpCount
          <6>1. i + count <= Len(answers) => answers[i] > since \/ answers[i] = Forever
            BY <5>2 DEF CTCPInv, WindowsFollow
          <6>2. i + CtcpCount <= Len(answers) => i + count <= Len(answers)
            BY <1>2, <3>1, <5>2
          <6> QED
            BY <1>2, <3>1, <4>1, <6>1, <6>2
        <5> QED
          BY <1>2, <5>1, <5>2
      <4> QED
        BY <1>2, <3>1, <4>1, <4>2
    <3>3. CASE since <= CtcpTime
      <4>1. count' = count + 1 /\ since' = since /\ count <= CtcpCount
        BY <1>2, <2>1, <2>2, <3>3 DEF Counted
      <4> QED
        BY <1>2, <3>1, <4>1 DEF CTCPInv, WindowsFollow
    <3> QED
      BY <1>2, <3>2, <3>3
  <2>4. CASE answers' = answers
    <3>1. WindowsFollow'
      BY <1>2, <2>2, <2>3, <2>4 DEF WindowsFollow
    <3> QED
      BY <1>2, <2>1, <2>2, <2>4, <3>1 DEF CTCPInv, CTCPTyped, Cut, NothingJustNow
  <2>5. CASE answers' = Answered
    <3>1. PICK d \in {0, 1} :
            /\ answers' \in Seq(0 .. Forever) /\ Len(answers') <= Remembered
            /\ Len(answers') = Len(answers) + 1 - d
            /\ \A i \in DOMAIN answers' :
                 i < Len(answers') => i + d \in DOMAIN answers /\ answers'[i] = answers[i + d]
      BY <2>5, AnsweredIs DEF CTCPInv
    <3>2. ASSUME NEW i \in DOMAIN answers'
          PROVE  /\ i + count' <= Len(answers') => answers'[i] > since' \/ answers'[i] = Forever
                 /\ i + count' + CtcpCount <= Len(answers') => answers'[i] = Forever
      <4>1. i \in 1 .. Len(answers')
        BY <3>1
      <4>2. CASE i < Len(answers')
        <5> DEFINE k == i + d
        <5>1. k \in DOMAIN answers /\ answers'[i] = answers[k] /\ Len(answers) \in Nat /\ d \in Nat
          BY <1>2, <3>1, <4>2
        <5>2. /\ i + count' <= Len(answers') => k + count' <= Len(answers) + 1
              /\ i + count' + CtcpCount <= Len(answers') => k + count' + CtcpCount <= Len(answers) + 1
          <6>1. /\ Len(answers') = Len(answers) + 1 - d /\ Len(answers) \in Nat /\ d \in {0, 1}
                /\ i \in Nat /\ count' \in Nat /\ CtcpCount \in Nat
            BY <1>2, <2>2, <3>1, <4>1, <5>1
          <6> QED
            BY <6>1
        <5> HIDE DEF k
        <5> QED
          BY <2>3, <5>1, <5>2
      <4>3. CASE i = Len(answers')
        BY <1>2, <2>2, <4>3
      <4> QED
        BY <3>1, <4>1, <4>2, <4>3
    <3>3. WindowsFollow'
      BY <3>2 DEF WindowsFollow
    <3> QED
      BY <1>2, <2>1, <2>2, <3>1, <3>3 DEF CTCPInv, CTCPTyped, Cut, NothingJustNow
  <2> QED
    BY <2>1, <2>4, <2>5
<1> QED
  BY <1>1, <1>2, <1>3, <1>4 DEF Counted

LEMMA SecondKeeps ==
  ASSUME CTCPInv, Second
  PROVE  CTCPInv'
<1>1. /\ Forever = CtcpTime + 1 /\ Remembered = 2 * CtcpCount + 1
      /\ CtcpTime \in Nat /\ CtcpCount \in Nat /\ CtcpCount >= 1
      /\ since \in 0 .. Forever /\ blocked \in 0 .. Forever /\ count \in 0 .. CtcpCount + 1
      /\ answers \in Seq(0 .. Forever) /\ Len(answers) <= Remembered
  BY CTCPAssumption DEF Forever, Remembered, CTCPInv, CTCPTyped
<1>2. \A a \in 0 .. Forever : Older(a) = (IF a = Forever THEN a ELSE a + 1) /\ Older(a) \in 1 .. Forever
  BY <1>1 DEF Older
<1>3. /\ answers' \in Seq(0 .. Forever) /\ Len(answers') = Len(answers)
      /\ \A i \in DOMAIN answers' :
           i \in DOMAIN answers /\ answers[i] \in 0 .. Forever /\ answers'[i] = Older(answers[i])
  <2>1. answers' = [i \in 1 .. Len(answers) |-> Older(answers[i])]
    BY <1>1 DEF Second
  <2>2. \A i \in 1 .. Len(answers) : answers[i] \in 0 .. Forever /\ Older(answers[i]) \in 0 .. Forever
    BY <1>1, <1>2
  <2> QED
    BY <1>1, <2>1, <2>2
<1>4. since' = Older(since) /\ blocked' = Older(blocked) /\ count' = count
  BY DEF Second
<1>5. ASSUME NEW i \in DOMAIN answers', count <= CtcpCount
      PROVE  /\ i + count' <= Len(answers') => answers'[i] > since' \/ answers'[i] = Forever
             /\ i + count' + CtcpCount <= Len(answers') => answers'[i] = Forever
  <2>1. /\ i + count <= Len(answers) => answers[i] > since \/ answers[i] = Forever
        /\ i + count + CtcpCount <= Len(answers) => answers[i] = Forever
    BY <1>3, <1>5 DEF CTCPInv, WindowsFollow
  <2>2. /\ answers[i] \in 0 .. Forever
        /\ answers'[i] = IF answers[i] = Forever THEN Forever ELSE answers[i] + 1
        /\ since' = IF since = Forever THEN Forever ELSE since + 1
    BY <1>1, <1>2, <1>3, <1>4
  <2>3. count' = count /\ Len(answers') = Len(answers)
    BY <1>3, <1>4
  <2>4. answers[i] > since => answers'[i] > since' \/ answers'[i] = Forever
    BY <1>1, <2>2
  <2> QED
    BY <2>1, <2>2, <2>3, <2>4
<1>6. Cut'
  <2>1. ASSUME count > CtcpCount, NEW i \in DOMAIN answers'
        PROVE  answers'[i] >= since'
    <3>1. answers[i] >= since
      BY <1>3, <2>1 DEF CTCPInv, Cut
    <3>2. /\ answers[i] \in 0 .. Forever
          /\ answers'[i] = IF answers[i] = Forever THEN Forever ELSE answers[i] + 1
          /\ since' = IF since = Forever THEN Forever ELSE since + 1
      BY <1>1, <1>2, <1>3, <1>4
    <3> QED
      BY <1>1, <3>1, <3>2
  <2>2. ASSUME count > CtcpCount, Len(answers) = Remembered
        PROVE  answers'[1] = Forever
    <3>1. answers[1] = Forever /\ 1 \in DOMAIN answers'
      BY <1>1, <1>3, <2>2 DEF CTCPInv, Cut
    <3> QED
      BY <1>1, <1>2, <1>3, <3>1
  <2>3. blocked' <= CtcpTime => blocked' = since' /\ count > CtcpCount
    BY <1>1, <1>2, <1>4 DEF CTCPInv, Cut
  <2> QED
    BY <1>3, <1>4, <2>1, <2>2, <2>3 DEF Cut
<1>7. NothingJustNow'
  BY <1>1, <1>2, <1>3 DEF NothingJustNow
<1>8. WindowsFollow'
  BY <1>4, <1>5 DEF WindowsFollow
<1> QED
  BY <1>1, <1>2, <1>3, <1>4, <1>6, <1>7, <1>8 DEF CTCPInv, CTCPTyped

LEMMA CTCPInitially == Init => CTCPInv
BY CTCPAssumption DEF Init, CTCPInit, CTCPInv, CTCPTyped, WindowsFollow, Cut, NothingJustNow, Forever, Remembered

LEMMA CTCPSteps == CTCPInv /\ [Next]_vars => CTCPInv'
<1> SUFFICES ASSUME CTCPInv, [Next]_vars PROVE CTCPInv'
  OBVIOUS
<1>1. CASE Requests
  BY <1>1, ReceivedKeeps, SecondKeeps DEF Requests, CTCPNext
<1>2. CASE UNCHANGED ctcpVars
  BY <1>2 DEF ctcpVars, CTCPInv, CTCPTyped, WindowsFollow, Cut, NothingJustNow
<1> QED
  BY <1>1, <1>2 DEF Next, IRC, Mumble, vars

\* For any limits and any requests at any times: of one more than twice
\* ctcp_count answers the first is longer ago than ctcp_time, and after a request
\* that was blocked there is no answer until that long nobody has asked.
THEOREM FloodsStayCutOff == Spec => []FloodsAreCutOff
<1>1. ASSUME CTCPInv
      PROVE  FloodsAreCutOff
  <2>1. /\ Forever = CtcpTime + 1 /\ Remembered = 2 * CtcpCount + 1
        /\ CtcpTime \in Nat /\ CtcpCount \in Nat /\ CtcpCount >= 1
        /\ since \in 0 .. Forever /\ blocked \in 0 .. Forever /\ count \in 0 .. CtcpCount + 1
        /\ answers \in Seq(0 .. Forever) /\ Len(answers) <= Remembered
    BY <1>1, CTCPAssumption DEF Forever, Remembered, CTCPInv, CTCPTyped
  <2>2. Len(answers) > 2 * CtcpCount => answers[1] = Forever
    <3>1. Len(answers) > 2 * CtcpCount => 1 \in DOMAIN answers /\ Len(answers) = Remembered
      BY <2>1
    <3> QED
      BY <1>1, <2>1, <3>1 DEF CTCPInv, WindowsFollow, Cut
  <2> QED
    BY <1>1, <2>1, <2>2 DEF FloodsAreCutOff, CTCPInv, Cut
<1> QED
  BY <1>1, CTCPInitially, CTCPSteps, PTL DEF Spec

-----------------------------------------------------------------------------
(***************************************************************************)
(* Mumble's frames                                                         *)
(***************************************************************************)
Pieces == [frame : Frame, part : {"header", "body"}]

FramesTyped ==
  /\ stream \in Seq(Frame) /\ handled \in Seq(Frame) /\ received \in Seq(Pieces)
  /\ arrived \in Nat /\ arrived <= 2 * Len(stream)
  /\ looping \in BOOLEAN

\* The frame that a piece is of.
FrameOf(k) == (k + 1) \div 2

\* The buffer starts where the frames that were handled end.
BufferFollows ==
  /\ Len(received) + 2 * Len(handled) = arrived
  /\ \A i \in DOMAIN received :
       received[i].frame = stream[FrameOf(2 * Len(handled) + i)]

HandledInOrder ==
  \A i \in DOMAIN handled : i \in DOMAIN stream /\ handled[i] = stream[i] /\ stream[i] \notin Bad

\* The loop ends for want of a frame, or at one that cannot be understood.
LoopEnds ==
  ~looping => \/ arrived < 2 * Len(handled) + 2
              \/ stream[Len(handled) + 1] \in Bad

FramesInv == FramesTyped /\ BufferFollows /\ HandledInOrder /\ LoopEnds

LEMMA Halves ==
  ASSUME NEW n \in Nat
  PROVE  /\ (2 * n + 2) \div 2 = n + 1
         /\ n \div 2 \in Nat /\ 2 * (n \div 2) <= n /\ n < 2 * (n \div 2) + 2
         /\ n >= 1 => (n + 1) \div 2 >= 1
OBVIOUS

\* A piece that has arrived is of a frame that was sent.
LEMMA PieceOfStream ==
  ASSUME NEW n \in Nat, NEW k \in Nat, k >= 1, k <= 2 * n
  PROVE  FrameOf(k) \in 1 .. n
<1> DEFINE f == FrameOf(k)
<1>1. f \in Nat /\ 2 * f <= k + 1 /\ k + 1 < 2 * f + 2
  BY Halves DEF FrameOf
<1> HIDE DEF f
<1>2. f \in 1 .. n
  BY <1>1
<1> QED
  BY <1>2 DEF f

LEMMA AppendedTo ==
  ASSUME NEW S, NEW s \in Seq(S), NEW x \in S
  PROVE  /\ Append(s, x) \in Seq(S) /\ Len(Append(s, x)) = Len(s) + 1
         /\ \A i \in 1 .. Len(s) : Append(s, x)[i] = s[i]
         /\ Append(s, x)[Len(s) + 1] = x
OBVIOUS

LEMMA PutTogether ==
  ASSUME NEW S, NEW s \in Seq(S), NEW t \in Seq(S)
  PROVE  /\ s \o t \in Seq(S) /\ Len(s \o t) = Len(s) + Len(t)
         /\ \A i \in 1 .. Len(s) : (s \o t)[i] = s[i]
         /\ \A i \in 1 .. Len(t) : (s \o t)[Len(s) + i] = t[i]
OBVIOUS

LEMMA WithoutTwo ==
  ASSUME NEW S, NEW s \in Seq(S), Len(s) >= 2
  PROVE  /\ SubSeq(s, 3, Len(s)) \in Seq(S) /\ Len(SubSeq(s, 3, Len(s))) = Len(s) - 2
         /\ \A i \in 1 .. Len(s) - 2 : i + 2 \in 1 .. Len(s) /\ SubSeq(s, 3, Len(s))[i] = s[i + 2]
<1>1. Len(s) \in Nat
  OBVIOUS
<1>2. SubSeq(s, 3, Len(s)) \in Seq(S)
  OBVIOUS
<1>3. Len(SubSeq(s, 3, Len(s))) = Len(s) - 2
  <2>1. CASE Len(s) = 2
    BY <2>1
  <2>2. CASE Len(s) > 2
    BY <1>1, <2>2
  <2> QED
    BY <1>1, <2>1, <2>2
<1>4. ASSUME NEW i \in 1 .. Len(s) - 2
      PROVE  i + 2 \in 1 .. Len(s) /\ SubSeq(s, 3, Len(s))[i] = s[i + 2]
  BY <1>1
<1> QED
  BY <1>2, <1>3, <1>4

LEMMA FunctionIsSequence ==
  ASSUME NEW S, NEW n \in Nat, NEW f \in [1 .. n -> S]
  PROVE  f \in Seq(S) /\ Len(f) = n
OBVIOUS

LEMMA EmptyHasNone ==
  ASSUME NEW S, NEW s \in Seq(S)
  PROVE  Len(s) \in Nat /\ DOMAIN s = 1 .. Len(s) /\ (s = <<>> <=> Len(s) = 0)
OBVIOUS

LEMMA StartOf ==
  ASSUME NEW S, NEW s \in Seq(S), NEW n \in Nat, n <= Len(s)
  PROVE  /\ SubSeq(s, 1, n) \in Seq(S) /\ Len(SubSeq(s, 1, n)) = n
         /\ DOMAIN SubSeq(s, 1, n) = 1 .. n
         /\ \A i \in 1 .. n : SubSeq(s, 1, n)[i] = s[i]
OBVIOUS

LEMMA SendFrameKeeps ==
  ASSUME FramesInv, NEW f \in Frame, SendFrame(f)
  PROVE  FramesInv'
<1>1. /\ stream' = Append(stream, f)
      /\ UNCHANGED <<arrived, received, looping, handled>>
  BY DEF SendFrame
<1>2. /\ stream \in Seq(Frame) /\ handled \in Seq(Frame) /\ received \in Seq(Pieces)
      /\ arrived \in Nat /\ arrived <= 2 * Len(stream)
      /\ Len(received) + 2 * Len(handled) = arrived
  BY DEF FramesInv, FramesTyped, BufferFollows
<1>3. /\ stream' \in Seq(Frame) /\ Len(stream') = Len(stream) + 1
      /\ \A i \in 1 .. Len(stream) : stream'[i] = stream[i]
  BY <1>1, <1>2, AppendedTo
<1>4. ASSUME NEW i \in DOMAIN received
      PROVE  received[i].frame = stream'[FrameOf(2 * Len(handled) + i)]
  <2>1. FrameOf(2 * Len(handled) + i) \in 1 .. Len(stream)
    <3> DEFINE k == 2 * Len(handled) + i
    <3>1. k \in Nat /\ k >= 1 /\ k <= 2 * Len(stream) /\ Len(stream) \in Nat
      BY <1>2
    <3> HIDE DEF k
    <3>2. FrameOf(k) \in 1 .. Len(stream)
      BY <3>1, PieceOfStream
    <3> QED
      BY <3>2 DEF k
  <2> QED
    BY <1>3, <2>1 DEF FramesInv, BufferFollows
<1>5. LoopEnds'
  <2>1. CASE looping
    BY <1>1, <2>1 DEF LoopEnds
  <2>2. CASE ~looping /\ arrived < 2 * Len(handled) + 2
    BY <1>1, <2>2 DEF LoopEnds
  <2>3. CASE ~looping /\ ~(arrived < 2 * Len(handled) + 2)
    <3>1. stream[Len(handled) + 1] \in Bad
      BY <2>3 DEF FramesInv, LoopEnds
    <3>2. Len(handled) + 1 \in 1 .. Len(stream)
      BY <1>2, <2>3
    <3> QED
      BY <1>1, <1>3, <3>1, <3>2 DEF LoopEnds
  <2> QED
    BY <2>1, <2>2, <2>3
<1>6. HandledInOrder'
  BY <1>1, <1>2, <1>3 DEF FramesInv, HandledInOrder
<1>7. BufferFollows'
  BY <1>1, <1>2, <1>4 DEF BufferFollows
<1>8. FramesTyped'
  BY <1>1, <1>2, <1>3 DEF FramesInv, FramesTyped
<1> QED
  BY <1>5, <1>6, <1>7, <1>8 DEF FramesInv

LEMMA DataReceivedKeeps ==
  ASSUME FramesInv, NEW n \in 1 .. 2 * MaxFrames, DataReceived(n)
  PROVE  FramesInv'
<1> DEFINE more == [i \in 1 .. n - arrived |-> Piece(arrived + i)]
<1>1. /\ received' = received \o more /\ arrived' = n /\ looping' = TRUE
      /\ n > arrived /\ n <= 2 * Len(stream)
      /\ UNCHANGED <<stream, handled>>
  BY DEF DataReceived
<1>2. /\ stream \in Seq(Frame) /\ handled \in Seq(Frame) /\ received \in Seq(Pieces)
      /\ arrived \in Nat /\ n \in Nat
      /\ Len(received) + 2 * Len(handled) = arrived
  BY DEF FramesInv, FramesTyped, BufferFollows
<1>3. ASSUME NEW i \in 1 .. n - arrived
      PROVE  /\ Piece(arrived + i) \in Pieces
             /\ Piece(arrived + i).frame = stream[FrameOf(arrived + i)]
  <2> DEFINE k == arrived + i
  <2>1. k \in Nat /\ k >= 1 /\ k <= 2 * Len(stream) /\ Len(stream) \in Nat
    BY <1>1, <1>2
  <2> HIDE DEF k
  <2>2. FrameOf(k) \in 1 .. Len(stream)
    BY <2>1, PieceOfStream
  <2>3. stream[FrameOf(k)] \in Frame
    BY <1>2, <2>2
  <2>4. Piece(k) \in Pieces /\ Piece(k).frame = stream[FrameOf(k)]
    BY <2>3 DEF Piece, Pieces, FrameOf
  <2> QED
    BY <2>4 DEF k
<1>4. /\ more \in Seq(Pieces) /\ Len(more) = n - arrived
      /\ \A i \in 1 .. Len(more) : more[i].frame = stream[FrameOf(arrived + i)]
  <2>1. n - arrived \in Nat
    BY <1>1, <1>2
  <2>4. more \in [1 .. n - arrived -> Pieces]
    BY <1>3
  <2>2. more \in Seq(Pieces) /\ Len(more) = n - arrived
    BY <2>1, <2>4, FunctionIsSequence
  <2>3. ASSUME NEW i \in 1 .. n - arrived
        PROVE  more[i].frame = stream[FrameOf(arrived + i)]
    BY <1>3
  <2> QED
    BY <2>2, <2>3
<1> HIDE DEF more
<1>5. /\ received' \in Seq(Pieces) /\ Len(received') = Len(received) + Len(more)
      /\ \A i \in 1 .. Len(received) : received'[i] = received[i]
      /\ \A i \in 1 .. Len(more) : received'[Len(received) + i] = more[i]
  <2>1. received' = received \o more /\ received \in Seq(Pieces) /\ more \in Seq(Pieces)
    BY <1>1, <1>2, <1>4
  <2> QED
    BY <2>1, PutTogether
<1>6. ASSUME NEW i \in DOMAIN received'
      PROVE  received'[i].frame = stream[FrameOf(2 * Len(handled) + i)]
  <2>1. CASE i <= Len(received)
    BY <1>2, <1>5, <2>1 DEF FramesInv, BufferFollows
  <2>2. CASE i > Len(received)
    <3> DEFINE k == i - Len(received)
    <3>1. k \in 1 .. Len(more) /\ i = Len(received) + k
      BY <1>2, <1>4, <1>5, <2>2
    <3>2. received'[i].frame = stream[FrameOf(arrived + k)]
      BY <1>4, <1>5, <3>1
    <3>3. arrived + k = 2 * Len(handled) + i
      BY <1>2, <3>1
    <3> QED
      BY <3>2, <3>3
  <2> QED
    BY <1>5, <2>1, <2>2
<1>7. BufferFollows'
  <2>1. Len(received') + 2 * Len(handled) = n
    <3>1. /\ Len(received') = Len(received) + (n - arrived) /\ Len(received) + 2 * Len(handled) = arrived
          /\ Len(received) \in Nat /\ Len(handled) \in Nat /\ n \in Nat /\ arrived \in Nat
      BY <1>2, <1>4, <1>5, EmptyHasNone
    <3> QED
      BY <3>1
  <2> QED
    BY <1>1, <1>6, <2>1 DEF BufferFollows
<1> QED
  BY <1>1, <1>2, <1>5, <1>7 DEF FramesInv, FramesTyped, HandledInOrder, LoopEnds

\* What the buffer starts with is the frame after those that were handled.
LEMMA CurrentIsNext ==
  ASSUME FramesInv, received # <<>>
  PROVE  Current = stream[Len(handled) + 1]
<1>1. /\ received \in Seq(Pieces) /\ handled \in Seq(Frame) /\ 1 \in DOMAIN received
      /\ Len(handled) \in Nat
  BY DEF FramesInv, FramesTyped
<1>2. received[1].frame = stream[FrameOf(2 * Len(handled) + 1)]
  BY <1>1 DEF FramesInv, BufferFollows
<1>3. FrameOf(2 * Len(handled) + 1) = Len(handled) + 1
  BY <1>1, Halves DEF FrameOf
<1> QED
  BY <1>2, <1>3 DEF Current

LEMMA LoopKeeps ==
  ASSUME FramesInv, Loop
  PROVE  FramesInv'
<1>1. /\ stream \in Seq(Frame) /\ handled \in Seq(Frame) /\ received \in Seq(Pieces)
      /\ arrived \in Nat /\ arrived <= 2 * Len(stream)
      /\ Len(received) + 2 * Len(handled) = arrived
      /\ Len(handled) \in Nat /\ Len(received) \in Nat
  BY DEF FramesInv, FramesTyped, BufferFollows
<1>2. CASE WaitForMore
  <2>1. UNCHANGED <<stream, arrived, received, handled>> /\ looping' = FALSE /\ NeedsMore
    BY <1>2 DEF WaitForMore
  <2>2. Len(received) <= 1
    <3>1. received = <<>> \/ Len(received) = 1
      BY <2>1 DEF NeedsMore
    <3>2. Len(received) = 0 \/ Len(received) = 1
      BY <1>1, <3>1, EmptyHasNone
    <3> QED
      BY <3>2
  <2>3. LoopEnds'
    BY <1>1, <2>1, <2>2 DEF LoopEnds
  <2> QED
    BY <2>1, <2>3 DEF FramesInv, FramesTyped, BufferFollows, HandledInOrder
<1>3. CASE NotAvailable \/ DoesNotParse
  <2>1. /\ UNCHANGED <<stream, arrived, received, handled>> /\ looping' = FALSE /\ ~NeedsMore
        /\ Current \in Bad
    BY <1>3 DEF NotAvailable, DoesNotParse, LostThen, Bad
  <2>2. received # <<>>
    BY <2>1 DEF NeedsMore
  <2>3. LoopEnds'
    BY <2>1, <2>2, CurrentIsNext DEF LoopEnds
  <2> QED
    BY <2>1, <2>3 DEF FramesInv, FramesTyped, BufferFollows, HandledInOrder
<1>4. CASE Handle
  <2>1. /\ handled' = Append(handled, Current) /\ received' = SubSeq(received, 3, Len(received))
        /\ UNCHANGED <<stream, arrived, looping>> /\ looping /\ ~NeedsMore
        /\ Current \notin Bad
    BY <1>4 DEF Handle, Consumed, Bad
  <2>2. received # <<>> /\ Len(received) >= 2
    <3>1. received # <<>> /\ Len(received) # 1
      BY <2>1 DEF NeedsMore, Bad
    <3>2. Len(received) # 0
      BY <1>1, <3>1, EmptyHasNone
    <3>3. Len(received) \in Nat
      BY <1>1
    <3>4. \A k \in Nat : k # 0 /\ k # 1 => k >= 2
      OBVIOUS
    <3> QED
      BY ONLY <3>1, <3>2, <3>3, <3>4, Zenon
  <2>3. /\ Current = stream[Len(handled) + 1] /\ Len(handled) + 1 \in DOMAIN stream
        /\ Current \in Frame
    BY <1>1, <2>2, CurrentIsNext
  <2>4. /\ handled' \in Seq(Frame) /\ Len(handled') = Len(handled) + 1
        /\ \A i \in 1 .. Len(handled) : handled'[i] = handled[i]
        /\ handled'[Len(handled) + 1] = Current
    BY <1>1, <2>1, <2>3, AppendedTo
  <2>5. /\ received' \in Seq(Pieces) /\ Len(received') = Len(received) - 2
        /\ \A i \in DOMAIN received' : i + 2 \in DOMAIN received /\ received'[i] = received[i + 2]
    BY <1>1, <2>1, <2>2, WithoutTwo
  <2>6. ASSUME NEW i \in DOMAIN received'
        PROVE  received'[i].frame = stream[FrameOf(2 * Len(handled') + i)]
    <3>1. received[i + 2].frame = stream[FrameOf(2 * Len(handled) + (i + 2))]
      BY <2>5 DEF FramesInv, BufferFollows
    <3>2. 2 * Len(handled) + (i + 2) = 2 * Len(handled') + i
      BY <1>1, <2>4, <2>5
    <3> QED
      BY <2>5, <3>1, <3>2
  <2>7. HandledInOrder'
    BY <2>1, <2>3, <2>4 DEF FramesInv, HandledInOrder
  <2>8. BufferFollows'
    <3>1. /\ Len(received') = Len(received) - 2 /\ Len(handled') = Len(handled) + 1
          /\ Len(received) + 2 * Len(handled) = arrived
          /\ Len(received) \in Nat /\ Len(handled) \in Nat /\ arrived \in Nat
      BY <1>1, <2>4, <2>5
    <3>2. Len(received') + 2 * Len(handled') = arrived
      BY <3>1
    <3> QED
      BY <2>1, <2>6, <3>2 DEF BufferFollows
  <2> QED
    BY <1>1, <2>1, <2>4, <2>5, <2>7, <2>8 DEF FramesInv, FramesTyped, LoopEnds
<1> QED
  BY <1>2, <1>3, <1>4 DEF Loop

LEMMA FramesInitially == Init => FramesInv
<1> SUFFICES ASSUME Init PROVE FramesInv
  OBVIOUS
<1>1. stream = <<>> /\ arrived = 0 /\ received = <<>> /\ looping = FALSE /\ handled = <<>>
  BY DEF Init, MumbleInit
<1>2. /\ stream \in Seq(Frame) /\ received \in Seq(Pieces) /\ handled \in Seq(Frame)
      /\ Len(stream) = 0 /\ Len(received) = 0 /\ Len(handled) = 0
      /\ DOMAIN received = {} /\ DOMAIN handled = {}
  BY <1>1
<1>3. FramesTyped
  <2>1. arrived = 0 /\ Len(stream) = 0 /\ looping \in BOOLEAN
    BY <1>1, <1>2
  <2>2. arrived \in Nat /\ arrived <= 2 * Len(stream)
    BY ONLY <2>1
  <2> QED
    BY <1>2, <2>1, <2>2 DEF FramesTyped
<1>4. BufferFollows /\ HandledInOrder
  BY <1>1, <1>2 DEF BufferFollows, HandledInOrder
<1>5. LoopEnds
  BY <1>1, <1>2 DEF LoopEnds
<1> QED
  BY <1>3, <1>4, <1>5 DEF FramesInv

LEMMA FramesSteps == FramesInv /\ [Next]_vars => FramesInv'
<1> SUFFICES ASSUME FramesInv, [Next]_vars PROVE FramesInv'
  OBVIOUS
<1>1. CASE UNCHANGED <<stream, arrived, received, looping, handled>>
  BY <1>1 DEF FramesInv, FramesTyped, BufferFollows, HandledInOrder, LoopEnds
<1>2. CASE Mumble /\ ~(Begin \/ Lose \/ Ping \/ Shutdown)
  BY <1>2, SendFrameKeeps, DataReceivedKeeps, LoopKeeps DEF Mumble, MumbleNext
<1>3. CASE ~Mumble \/ Begin \/ Lose \/ Ping \/ Shutdown
  BY <1>1, <1>3 DEF Next, IRC, Requests, vars, mumbleVars, Begin, Lose, LostThen, Ping, Shutdown
<1> QED
  BY <1>2, <1>3

\* However the frames of a connection are cut into pieces, whatever handlers
\* raise and whenever the connection ends: between two reads all frames that
\* have arrived as a whole were handled, once and in their order, up to the
\* first that cannot be understood.
THEOREM FramesWereHandledOnce == Spec => []FramesAreHandledOnce
<1>1. ASSUME FramesInv
      PROVE  FramesAreHandledOnce
  <2>1. /\ stream \in Seq(Frame) /\ handled \in Seq(Frame)
        /\ arrived \in Nat /\ arrived <= 2 * Len(stream) /\ 2 * Len(handled) <= arrived
        /\ Len(handled) \in Nat /\ Len(stream) \in Nat
    BY <1>1 DEF FramesInv, FramesTyped, BufferFollows
  <2> DEFINE h == Len(handled)
             w == arrived \div 2
  <2>2. /\ w \in Nat /\ 2 * w <= arrived /\ arrived < 2 * w + 2
    BY <2>1, Halves
  <2> HIDE DEF w
  <2>3. h <= w /\ w <= Len(stream)
    BY <2>1, <2>2
  <2>4. handled = SubSeq(stream, 1, h)
    BY <1>1, <2>1, <2>3 DEF FramesInv, HandledInOrder
  <2>5. Whole = SubSeq(stream, 1, w)
    BY DEF Whole, w
  <2>6. DOMAIN Whole = 1 .. w /\ \A i \in 1 .. w : Whole[i] = stream[i]
    BY <2>1, <2>2, <2>3, <2>5, StartOf
  <2>7. ASSUME NEW i \in 1 .. h
        PROVE  i \in Due
    <3>1. i \in DOMAIN Whole /\ \A j \in 1 .. i : j \in 1 .. h /\ j \in 1 .. w
      BY <2>1, <2>2, <2>3, <2>6
    <3>2. \A j \in 1 .. h : stream[j] \notin Bad
      BY <1>1, <2>1 DEF FramesInv, HandledInOrder
    <3> QED
      BY <2>6, <3>1, <3>2 DEF Due
  <2>8. ASSUME ~looping, NEW i \in Due
        PROVE  i \in 1 .. h
    <3>1. i \in 1 .. w /\ \A j \in 1 .. i : Whole[j] \notin Bad
      BY <2>6 DEF Due
    <3>2. CASE arrived < 2 * h + 2
      BY <2>1, <2>2, <3>1, <3>2
    <3>3. CASE stream[h + 1] \in Bad
      <4>1. h + 1 \in 1 .. i => Whole[h + 1] = stream[h + 1]
        BY <2>6, <3>1, <2>2
      <4> QED
        BY <2>1, <3>1, <3>3, <4>1
    <3> QED
      BY <1>1, <2>8, <3>2, <3>3 DEF FramesInv, LoopEnds
  <2>9. ~looping => DOMAIN handled = Due
    <3>1. DOMAIN handled = 1 .. h
      BY <2>1
    <3> QED
      BY <2>7, <2>8, <3>1
  <2> QED
    <3>1. h \in 0 .. Len(stream)
      BY <2>1, <2>2, <2>3
    <3> QED
      BY <2>4, <2>9, <3>1 DEF FramesAreHandledOnce
<1> QED
  BY <1>1, FramesInitially, FramesSteps, PTL DEF Spec

-----------------------------------------------------------------------------
(***************************************************************************)
(* Users and channels on IRC                                               *)
(***************************************************************************)
\* What the server keeps to by itself: who is not connected is nowhere, has no
\* rank where it is not, and shares its nick with nobody; the bot keeps its own.
ServerIsSound ==
  /\ \A p \in Person : nickOf[p] = Off => where[p] = {}
  /\ \A p \in Person : opOf[p] \subseteq where[p]
  /\ \A p, q \in Person : nickOf[p] = nickOf[q] /\ nickOf[p] # Off => p = q
  /\ nickOf[Self] = BotNick

Distinct(s) == \A i, j \in DOMAIN s : s[i] = s[j] => i = j

\* Users and channels list each other, and nothing else.
ListsAgree ==
  /\ known = where[Self]
  /\ awaited \subseteq known
  /\ \A o \in Obj : o \in Tracked <=> chans[o] # {}
  /\ \A o \in Obj : chans[o] \subseteq known
  /\ \A o \in Obj, c \in Chan : o \in members[c] <=> c \in chans[o]
  /\ Distinct(users)
  /\ ourselves # Nobody => nick[ourselves] = BotNick

\* A user who is tracked is one person, under its nick of now, and where it is
\* said to be; and no other user is that person.
ObjectsAreSound ==
  /\ \A o \in Tracked : nick[o] = nickOf[who[o]] /\ chans[o] \subseteq where[who[o]]
  /\ \A o, q \in Tracked : who[o] = who[q] => o = q

\* Replies are true as they come in, and who is in a channel that the server
\* has been asked about, and has begun to answer, is a member, with its rank,
\* or still to come in a reply.
Member(p, c) == \E o \in members[c] : who[o] = p /\ (c \in opOf[p] => c \in ops[o])
Coming ==
  /\ \A r \in replies : r[2] \in where[r[1]] \cap known /\ (r[3] <=> r[2] \in opOf[r[1]])
  /\ \A p \in Person, c \in known \ awaited : c \in where[p] =>
       (\E r \in replies : r[1] = p /\ r[2] = c) \/ Member(p, c)

TrackingInv == TypeOK /\ ServerIsSound /\ ListsAgree /\ ObjectsAreSound /\ Coming

\* What the theorem is about: the server answers no WHO for a channel the bot
\* has left, the bot keeps its nick, and there are objects enough.
Regular == ~LateWho /\ MayUse[Self] = {BotNick} /\ ~IsFiniteSet(Obj)

-----------------------------------------------------------------------------
\* A set of numbers has a least one.
LEMMA LeastNumber ==
  ASSUME NEW S, S \subseteq Nat, S # {}
  PROVE  \E m \in S : \A k \in S : m <= k
<1> DEFINE R == {ss \in Nat \X Nat : ss[1] < ss[2]}
<1>1. IsWellFoundedOn(R, Nat)
  BY NatLessThanWellFounded DEF OpToRel
<1>2. \A j, k \in Nat : <<k, j>> \notin R => j <= k
  OBVIOUS
<1> HIDE DEF R
<1>3. PICK m \in S : \A k \in S : <<k, m>> \notin R
  BY <1>1, WFMin, Zenon
<1>4. ASSUME NEW k \in S PROVE m <= k
  <2>1. m \in Nat /\ k \in Nat
    OBVIOUS
  <2>2. <<k, m>> \notin R
    BY <1>3
  <2> QED
    BY <1>2, <2>1, <2>2
<1> QED
  BY <1>4

\* What is left of a list after n of its elements have been looked at.
Leaving(left, s, S, n) ==
  left = [i \in 0 .. n |->
            IF i = 0 THEN <<>>
            ELSE IF s[i] \in S THEN left[i - 1] ELSE Append(left[i - 1], s[i])]

LEMMA LeavingExists ==
  ASSUME NEW s, NEW S, NEW n \in Nat
  PROVE  \E left : Leaving(left, s, S, n)
<1> DEFINE Missed == {m \in Nat : ~\E left : Leaving(left, s, S, m)}
<1> SUFFICES ASSUME Missed # {} PROVE FALSE
  OBVIOUS
<1>1. PICK m \in Missed : \A k \in Missed : m <= k
  BY LeastNumber
<1>2. m # 0
  <2> DEFINE left == [i \in 0 .. 0 |-> <<>>]
  <2>1. left[0] = <<>>
    OBVIOUS
  <2>2. Leaving(left, s, S, 0)
    BY DEF Leaving
  <2> QED
    BY <2>2
<1>3. m - 1 \in Nat /\ m - 1 \notin Missed
  BY <1>1, <1>2
<1>4. PICK left : Leaving(left, s, S, m - 1)
  BY <1>3
<1> DEFINE more == IF s[m] \in S THEN left[m - 1] ELSE Append(left[m - 1], s[m])
           long == [i \in 0 .. m |-> IF i = m THEN more ELSE left[i]]
<1>5. \A i \in 0 .. m - 1 :
        left[i] = IF i = 0 THEN <<>>
                  ELSE IF s[i] \in S THEN left[i - 1] ELSE Append(left[i - 1], s[i])
  BY <1>4 DEF Leaving
<1>6. \A i \in 0 .. m - 1 : long[i] = left[i]
  BY <1>3
<1>7. long[m] = more
  BY <1>3
<1>8. \A i \in 0 .. m :
        long[i] = IF i = 0 THEN <<>>
                  ELSE IF s[i] \in S THEN long[i - 1] ELSE Append(long[i - 1], s[i])
  <2> SUFFICES ASSUME NEW i \in 0 .. m
               PROVE  long[i] = IF i = 0 THEN <<>>
                                ELSE IF s[i] \in S THEN long[i - 1] ELSE Append(long[i - 1], s[i])
    OBVIOUS
  <2>1. CASE i = m
    <3>1. m - 1 \in 0 .. m - 1
      BY <1>3
    <3>2. long[m - 1] = left[m - 1]
      BY <1>6, <3>1
    <3> HIDE DEF long
    <3> QED
      BY <1>2, <1>7, <2>1, <3>2
  <2>2. CASE i = 0
    <3>1. 0 \in 0 .. m - 1
      BY <1>3
    <3>2. long[0] = left[0] /\ left[0] = <<>>
      BY <1>5, <1>6, <3>1
    <3> HIDE DEF long
    <3> QED
      BY <2>2, <3>2
  <2>3. CASE i # 0 /\ i # m
    <3>1. i \in 0 .. m - 1 /\ i - 1 \in 0 .. m - 1
      BY <1>3, <2>3
    <3>2. long[i] = left[i] /\ long[i - 1] = left[i - 1]
      BY <1>6, <3>1
    <3>3. left[i] = IF s[i] \in S THEN left[i - 1] ELSE Append(left[i - 1], s[i])
      BY <1>5, <2>3, <3>1
    <3> HIDE DEF long
    <3> QED
      BY <2>3, <3>2, <3>3
  <2> QED
    BY <2>1, <2>2, <2>3
<1>9. long = [i \in 0 .. m |->
                IF i = 0 THEN <<>>
                ELSE IF s[i] \in S THEN long[i - 1] ELSE Append(long[i - 1], s[i])]
  BY <1>8
<1>10. Leaving(long, s, S, m)
  <2> HIDE DEF long
  <2> QED
    BY <1>9 DEF Leaving
<1> QED
  BY <1>1, <1>10

LEMMA AppendIs ==
  ASSUME NEW S, NEW s \in Seq(S), NEW x \in S
  PROVE  /\ Append(s, x) \in Seq(S) /\ Len(Append(s, x)) = Len(s) + 1 /\ Len(s) \in Nat
         /\ Append(s, x)[Len(s) + 1] = x
         /\ \A i \in 1 .. Len(s) : Append(s, x)[i] = s[i]
OBVIOUS

\* The elements of a list.
In(s) == {s[i] : i \in DOMAIN s}

LEMMA AppendOne ==
  ASSUME NEW S, NEW s \in Seq(S), NEW x \in S
  PROVE  /\ Append(s, x) \in Seq(S) /\ In(Append(s, x)) = In(s) \cup {x}
         /\ Distinct(s) /\ x \notin In(s) => Distinct(Append(s, x))
<1> DEFINE t == Append(s, x)
           l == Len(s)
<1>1. /\ t \in Seq(S) /\ Len(t) = l + 1 /\ l \in Nat /\ t[l + 1] = x
      /\ \A i \in 1 .. l : t[i] = s[i]
  BY AppendIs
<1>2. DOMAIN t = 1 .. l + 1 /\ DOMAIN s = 1 .. l
  BY <1>1
<1> HIDE DEF t, l
<1>3. In(t) = In(s) \cup {x}
  <2>1. 1 .. l + 1 = (1 .. l) \cup {l + 1}
    BY <1>1
  <2> QED
    BY <1>1, <1>2, <2>1 DEF In
<1>4. ASSUME Distinct(s), x \notin In(s) PROVE Distinct(t)
  <2> SUFFICES ASSUME NEW i \in DOMAIN t, NEW j \in DOMAIN t, t[i] = t[j] PROVE i = j
    BY DEF Distinct
  <2>1. \A k \in 1 .. l : s[k] # x
    BY <1>2, <1>4 DEF In
  <2>2. \A k, m \in 1 .. l : s[k] = s[m] => k = m
    BY <1>2, <1>4 DEF Distinct
  <2>3. (i = l + 1 \/ i \in 1 .. l) /\ (j = l + 1 \/ j \in 1 .. l)
    BY <1>1, <1>2
  <2> QED
    BY <1>1, <2>1, <2>2, <2>3
<1> QED
  BY <1>1, <1>3, <1>4 DEF t

\* Without leaves, of a list without repetitions, what is not in S.
LEMMA WithoutIs ==
  ASSUME NEW T, NEW s \in Seq(T), Distinct(s), NEW S
  PROVE  /\ Without(s, S) \in Seq(T) /\ Distinct(Without(s, S))
         /\ In(Without(s, S)) = In(s) \ S
<1> DEFINE n == Len(s)
           way == CHOOSE left : Leaving(left, s, S, n)
           First(k) == {s[i] : i \in 1 .. k}
           Good(k) == way[k] \in Seq(T) /\ Distinct(way[k]) /\ In(way[k]) = First(k) \ S
           Missed == {k \in 0 .. n : ~Good(k)}
<1>1. n \in Nat /\ DOMAIN s = 1 .. n
  OBVIOUS
<1>2. Leaving(way, s, S, n)
  BY <1>1, LeavingExists
<1>3. Without(s, S) = way[n]
  BY DEF Without, Leaving
<1> HIDE DEF way
<1>4. \A i \in 0 .. n :
        way[i] = IF i = 0 THEN <<>>
                 ELSE IF s[i] \in S THEN way[i - 1] ELSE Append(way[i - 1], s[i])
  BY <1>2 DEF Leaving
<1>5. Missed = {}
  <2> SUFFICES ASSUME Missed # {} PROVE FALSE
    OBVIOUS
  <2>1. Missed \subseteq Nat
    OBVIOUS
  <2>2. PICK k \in Missed : \A j \in Missed : k <= j
    BY <2>1, LeastNumber
  <2>3. k \in 0 .. n /\ ~Good(k)
    BY <2>2
  <2>4. k # 0
    <3> SUFFICES ASSUME k = 0 PROVE FALSE
      OBVIOUS
    <3>1. way[0] = <<>>
      BY <1>1, <1>4
    <3>2. <<>> \in Seq(T) /\ Distinct(<<>>) /\ In(<<>>) = {}
      BY DEF Distinct, In
    <3>3. First(0) = {}
      OBVIOUS
    <3> HIDE DEF First
    <3> QED
      BY <2>3, <3>1, <3>2, <3>3
  <2> DEFINE b == k - 1
  <2>5. b \in 0 .. n /\ k \in 1 .. n /\ k = b + 1 /\ ~(k <= b)
    BY <1>1, <2>3, <2>4
  <2>6. way[k] = IF s[k] \in S THEN way[b] ELSE Append(way[b], s[k])
    BY <1>4, <2>3, <2>4
  <2> HIDE DEF b
  <2>7. b \notin Missed
    BY <2>2, <2>5
  <2>8. Good(b)
    BY <2>5, <2>7
  <2>9. First(k) = First(b) \cup {s[k]} /\ s[k] \in T
    <3>1. 1 .. k = (1 .. b) \cup {k}
      BY <2>5
    <3> QED
      BY <1>1, <2>5, <3>1
  <2>10. s[k] \notin First(b)
    <3> SUFFICES ASSUME NEW i \in 1 .. b, s[i] = s[k] PROVE FALSE
      OBVIOUS
    <3>1. i \in DOMAIN s /\ k \in DOMAIN s /\ i # k
      BY <1>1, <2>5
    <3> QED
      BY <3>1 DEF Distinct
  <2> HIDE DEF First
  <2>11. CASE s[k] \in S
    BY <2>3, <2>6, <2>8, <2>9, <2>11
  <2>12. CASE s[k] \notin S
    <3> DEFINE t == Append(way[b], s[k])
    <3>1. t \in Seq(T) /\ In(t) = In(way[b]) \cup {s[k]} /\ Distinct(t)
      BY <2>8, <2>9, <2>10, AppendOne
    <3>2. way[k] = t
      BY <2>6, <2>12
    <3> HIDE DEF t
    <3> QED
      BY <2>3, <2>8, <2>9, <2>12, <3>1, <3>2
  <2> QED
    BY <2>11, <2>12
<1>6. Good(n)
  <2>1. n \in 0 .. n
    BY <1>1
  <2> QED
    BY <1>5, <2>1
<1>7. First(n) = In(s)
  BY <1>1 DEF In
<1> HIDE DEF First, n
<1> QED
  BY <1>3, <1>6, <1>7

-----------------------------------------------------------------------------
\* get_user finds one of those looked for, if there is one.
LEMMA FirstOfIs ==
  ASSUME TypeOK, NEW S
  PROVE  \/ FirstOf(S) = Nobody /\ Tracked \cap S = {}
         \/ FirstOf(S) \in Tracked \cap S /\ FirstOf(S) \in Obj
<1>1. users \in Seq(Obj)
  BY DEF TypeOK
<1>2. CASE Tracked \cap S = {}
  BY <1>2 DEF FirstOf
<1>3. CASE Tracked \cap S # {}
  <2> DEFINE P == {i \in DOMAIN users : users[i] \in S}
             Q(i) == users[i] \in S /\ \A j \in 1 .. i - 1 : users[j] \notin S
  <2>1. P \subseteq Nat /\ P # {}
    BY <1>1, <1>3 DEF Tracked
  <2>2. PICK m \in P : \A k \in P : m <= k
    BY <2>1, LeastNumber
  <2>3. m \in DOMAIN users /\ Q(m)
    <3> SUFFICES ASSUME NEW j \in 1 .. m - 1, users[j] \in S PROVE FALSE
      BY <2>2
    <3>1. j \in DOMAIN users /\ ~(m <= j)
      BY <1>1, <2>1, <2>2
    <3> QED
      BY <2>2, <3>1
  <2> DEFINE i == CHOOSE i \in DOMAIN users : Q(i)
  <2>4. i \in DOMAIN users /\ users[i] \in S
    BY <2>3
  <2>5. FirstOf(S) = users[i]
    BY <1>3 DEF FirstOf
  <2> HIDE DEF i
  <2> QED
    BY <1>1, <2>4, <2>5 DEF Tracked
<1> QED
  BY <1>2, <1>3

\* Looking somebody up by nick, with or without ident and host, finds the one
\* user who is that person, or there is none.
Found(o, p) ==
  \/ o = Nobody /\ \A q \in Tracked : who[q] # p
  \/ o \in Tracked /\ o \in Obj /\ o # Nobody /\ who[o] = p /\ nick[o] = nickOf[p]

LEMMA TrackedAre ==
  ASSUME TypeOK
  PROVE  Tracked \subseteq Obj /\ Tracked = In(users) /\ users \in Seq(Obj)
  BY DEF TypeOK, Tracked, In

LEMMA LookedUp ==
  ASSUME TrackingInv, NEW p \in Person, nickOf[p] # Off
  PROVE  Found(ByNick(nickOf[p]), p) /\ Found(ByMask(nickOf[p], p), p)
<1>1. /\ TypeOK /\ Tracked \subseteq Obj /\ Nobody \notin Obj
      /\ \A o \in Tracked : nick[o] = nickOf[who[o]]
      /\ \A q, r \in Person : nickOf[q] = nickOf[r] /\ nickOf[q] # Off => q = r
      /\ \A o \in Obj : who[o] \in Person
  BY TrackedAre, ValuesAssumption DEF TrackingInv, TypeOK, ObjectsAreSound, ServerIsSound
<1>2. Found(ByNick(nickOf[p]), p)
  <2> DEFINE S == {o \in Obj : nick[o] = nickOf[p]}
             f == ByNick(nickOf[p])
  <2>1. (f = Nobody /\ Tracked \cap S = {}) \/ (f \in Tracked \cap S /\ f \in Obj)
    <3>1. f = FirstOf(S)
      BY DEF ByNick
    <3> HIDE DEF f, S
    <3> QED
      BY <1>1, <3>1, FirstOfIs
  <2> HIDE DEF f
  <2>2. \A o \in Tracked : o \in S <=> who[o] = p
    BY <1>1
  <2> QED
    BY <1>1, <2>1, <2>2 DEF Found, f
<1>3. Found(ByMask(nickOf[p], p), p)
  <2> DEFINE S == {o \in Obj : nick[o] = nickOf[p] /\ who[o] = p}
             f == ByMask(nickOf[p], p)
  <2>1. (f = Nobody /\ Tracked \cap S = {}) \/ (f \in Tracked \cap S /\ f \in Obj)
    <3>1. f = FirstOf(S)
      BY DEF ByMask
    <3> HIDE DEF f, S
    <3> QED
      BY <1>1, <3>1, FirstOfIs
  <2> HIDE DEF f
  <2>2. \A o \in Tracked : o \in S <=> who[o] = p
    BY <1>1
  <2> QED
    BY <1>1, <2>1, <2>2 DEF Found, f
<1> QED
  BY <1>2, <1>3

\* A new user is none there was.
LEMMA NewIs ==
  ASSUME TypeOK, ~IsFiniteSet(Obj)
  PROVE  New \in Obj /\ New \notin Tracked /\ New # ourselves
<1>1. users \in Seq(Obj)
  BY DEF TypeOK
<1> DEFINE l == Len(users)
           D == 1 .. l
           U == Tracked \cup {ourselves}
<1>2. l \in Nat /\ DOMAIN users = D
  BY <1>1
<1>3. IsFiniteSet(D)
  BY <1>2, FS_Interval
<1>4. Tracked = {users[i] : i \in D}
  BY <1>2 DEF Tracked
<1>5. IsFiniteSet(Tracked)
  <2>1. users \in [D -> Obj]
    BY <1>1, <1>2
  <2>2. users \in Surjection(D, Tracked)
    BY <1>1, <1>2, <1>4 DEF Surjection
  <2> HIDE DEF D
  <2> QED
    BY <1>3, <2>2, FS_Surjection, Zenon
<1>6. IsFiniteSet(U)
  BY <1>5, FS_AddElement
<1>7. ~(Obj \subseteq U)
  <2> HIDE DEF U
  <2> QED
    BY <1>6, FS_Subset
<1>8. Unused # {}
  BY <1>7 DEF Unused
<1>9. New \in Unused
  BY <1>8 DEF New
<1> QED
  BY <1>9 DEF Unused

\* The user u that is person p, there before or new, is added to channel c.
Added(u, p, c) ==
  /\ u \in Obj
  /\ users' \in Seq(Obj) /\ Distinct(users') /\ Tracked' = Tracked \cup {u}
  /\ nick' \in [Obj -> Nick \cup {Off}] /\ who' \in [Obj -> Person]
  /\ chans' \in [Obj -> SUBSET (Chan \cup {NoChan})]
  /\ nick'[u] = nickOf[p] /\ who'[u] = p /\ chans'[u] = chans[u] \cup {c}
  /\ \A o \in Obj \ {u} : nick'[o] = nick[o] /\ who'[o] = who[o] /\ chans'[o] = chans[o]
  /\ \A o \in Tracked : who[o] = p <=> o = u
  /\ u = ourselves => u \in Tracked

UserFor(p) == IF ByMask(nickOf[p], p) = Nobody THEN New ELSE ByMask(nickOf[p], p)

LEMMA Adding ==
  ASSUME TrackingInv, ~IsFiniteSet(Obj), NEW p \in Person, nickOf[p] # Off, NEW c \in Chan,
         AddToChannel(ByMask(nickOf[p], p), nickOf[p], p, c)
  PROVE  /\ Added(UserFor(p), p, c)
         /\ ByMask(nickOf[p], p) = Nobody => UserFor(p) \notin Tracked
<1> DEFINE f == ByMask(nickOf[p], p)
           u == UserFor(p)
<1>1. /\ TypeOK /\ users \in Seq(Obj) /\ Distinct(users) /\ Tracked = In(users) /\ Tracked \subseteq Obj
      /\ nick \in [Obj -> Nick \cup {Off}] /\ who \in [Obj -> Person]
      /\ chans \in [Obj -> SUBSET (Chan \cup {NoChan})] /\ nickOf[p] \in Nick \cup {Off}
      /\ \A o \in Obj : o \in Tracked <=> chans[o] # {}
      /\ \A o, q \in Tracked : who[o] = who[q] => o = q
  BY TrackedAre DEF TrackingInv, TypeOK, ListsAgree, ObjectsAreSound
<1>2. Found(f, p)
  BY LookedUp
<1>3. New \in Obj /\ New \notin Tracked /\ New # ourselves
  BY <1>1, NewIs
<1>4. u = IF f = Nobody THEN New ELSE f
  BY DEF UserFor
<1>5. /\ users' = IF f = Nobody THEN Append(users, u) ELSE users
      /\ nick' = [nick EXCEPT ![u] = nickOf[p]]
      /\ who' = [who EXCEPT ![u] = p]
      /\ chans' = [chans EXCEPT ![u] = IF f = Nobody THEN {c} ELSE @ \cup {c}]
  BY DEF AddToChannel, UserFor
<1> HIDE DEF f, u
<1>6. u \in Obj /\ (f = Nobody => u \notin Tracked /\ u # ourselves)
  BY <1>2, <1>3, <1>4 DEF Found
<1>7. chans' = [chans EXCEPT ![u] = @ \cup {c}]
  <2>1. f = Nobody => chans[u] = {}
    BY <1>1, <1>6
  <2> QED
    BY <1>5, <2>1
<1>8. users' \in Seq(Obj) /\ Distinct(users') /\ Tracked' = Tracked \cup {u}
  <2>1. CASE f = Nobody
    <3> DEFINE t == Append(users, u)
    <3>1. t \in Seq(Obj) /\ In(t) = In(users) \cup {u} /\ Distinct(t)
      BY <1>1, <1>6, <2>1, AppendOne
    <3>2. users' = t
      BY <1>5, <2>1
    <3> HIDE DEF t
    <3>3. Tracked' = In(users')
      BY DEF Tracked, In
    <3> QED
      BY <1>1, <3>1, <3>2, <3>3
  <2>2. CASE f # Nobody
    <3>1. users' = users /\ u \in Tracked
      BY <1>2, <1>4, <1>5, <2>2 DEF Found
    <3>2. Tracked' = Tracked
      BY <3>1 DEF Tracked
    <3> QED
      BY <1>1, <3>1, <3>2
  <2> QED
    BY <2>1, <2>2
<1>9. /\ \A o \in Tracked : who[o] = p <=> o = u
      /\ u = ourselves => u \in Tracked
  BY <1>1, <1>2, <1>4, <1>6 DEF Found
<1>10. /\ nick' \in [Obj -> Nick \cup {Off}] /\ who' \in [Obj -> Person]
       /\ chans' \in [Obj -> SUBSET (Chan \cup {NoChan})]
       /\ nick'[u] = nickOf[p] /\ who'[u] = p /\ chans'[u] = chans[u] \cup {c}
       /\ \A o \in Obj \ {u} : nick'[o] = nick[o] /\ who'[o] = who[o] /\ chans'[o] = chans[o]
  BY <1>1, <1>5, <1>6, <1>7
<1> QED
  BY <1>6, <1>8, <1>9, <1>10 DEF Added, f, u

\* Users and channels still agree with each other and with the server.
LEMMA AddedAgrees ==
  ASSUME TrackingInv, NEW p \in Person, NEW c \in Chan, NEW u, Added(u, p, c),
         members' = [members EXCEPT ![c] = @ \cup {u}],
         nickOf' = nickOf, nickOf[p] # Off,
         where' \in [Person -> SUBSET Chan], \A q \in Person : where[q] \subseteq where'[q], c \in where'[p],
         known' = where'[Self], c \in known', awaited' \subseteq known',
         ourselves' = ourselves \/ (ourselves' = u /\ p = Self)
  PROVE  ListsAgree' /\ ObjectsAreSound' /\ members' \in [Chan -> SUBSET Obj]
<1>1. /\ Tracked \subseteq Obj /\ members \in [Chan -> SUBSET Obj] /\ known = where[Self]
      /\ \A o \in Obj : o \in Tracked <=> chans[o] # {}
      /\ \A o \in Obj : chans[o] \subseteq known
      /\ \A o \in Obj : \A d \in Chan : o \in members[d] <=> d \in chans[o]
      /\ ourselves # Nobody => nick[ourselves] = BotNick
      /\ ourselves \in Obj \cup {Nobody}
      /\ nickOf[Self] = BotNick
      /\ \A o \in Tracked : nick[o] = nickOf[who[o]] /\ chans[o] \subseteq where[who[o]]
      /\ \A o, q \in Tracked : who[o] = who[q] => o = q
      /\ \A o \in Obj : who[o] \in Person
  BY TrackedAre DEF TrackingInv, TypeOK, ListsAgree, ObjectsAreSound, ServerIsSound
<1>2. /\ u \in Obj /\ Distinct(users') /\ Tracked' = Tracked \cup {u}
      /\ nick'[u] = nickOf[p] /\ who'[u] = p /\ chans'[u] = chans[u] \cup {c}
      /\ \A o \in Obj \ {u} : nick'[o] = nick[o] /\ who'[o] = who[o] /\ chans'[o] = chans[o]
      /\ \A o \in Tracked : who[o] = p <=> o = u
      /\ u = ourselves => u \in Tracked
  BY DEF Added
<1>3. \A o \in Obj : o \in Tracked' <=> chans'[o] # {}
  BY <1>1, <1>2
<1>4. known \subseteq known' /\ SelfAssumption
  BY <1>1, SelfAssumption DEF SelfAssumption
<1>5. \A o \in Obj : chans'[o] \subseteq known'
  BY <1>1, <1>2, <1>4
<1>6. /\ members' \in [Chan -> SUBSET Obj]
      /\ members'[c] = members[c] \cup {u} /\ \A d \in Chan \ {c} : members'[d] = members[d]
  BY <1>1, <1>2
<1>7. \A o \in Obj, d \in Chan : o \in members'[d] <=> d \in chans'[o]
  BY <1>1, <1>2, <1>6
<1>8. ourselves' # Nobody => nick'[ourselves'] = BotNick
  <2>1. CASE ourselves' = u /\ p = Self
    BY <1>1, <1>2, <2>1
  <2>2. CASE ourselves' = ourselves /\ ourselves # Nobody
    <3>1. ourselves \in Obj /\ nick[ourselves] = BotNick
      BY <1>1, <2>2
    <3>2. CASE ourselves = u
      <4>1. nick[u] = nickOf[p]
        BY <1>1, <1>2, <3>2
      <4> QED
        BY <1>2, <2>2, <3>1, <3>2, <4>1
    <3>3. CASE ourselves # u
      BY <1>2, <2>2, <3>1, <3>3
    <3> QED
      BY <3>2, <3>3
  <2> QED
    BY <2>1, <2>2
<1>9. \A o \in Tracked' : nick'[o] = nickOf'[who'[o]] /\ chans'[o] \subseteq where'[who'[o]]
  <2> SUFFICES ASSUME NEW o \in Tracked'
               PROVE  nick'[o] = nickOf'[who'[o]] /\ chans'[o] \subseteq where'[who'[o]]
    OBVIOUS
  <2>1. CASE o = u
    <3>1. chans[u] \subseteq where[p]
      <4>1. CASE u \in Tracked
        BY <1>1, <1>2, <4>1
      <4>2. CASE u \notin Tracked
        BY <1>1, <1>2, <4>2
      <4> QED
        BY <4>1, <4>2
    <3> QED
      BY <1>2, <2>1, <3>1
  <2>2. CASE o # u
    BY <1>1, <1>2, <2>2
  <2> QED
    BY <2>1, <2>2
<1>10. \A o, q \in Tracked' : who'[o] = who'[q] => o = q
  BY <1>1, <1>2
<1> QED
  BY <1>2, <1>3, <1>5, <1>6, <1>7, <1>8, <1>9, <1>10 DEF ListsAgree, ObjectsAreSound

\* Who was a member of a channel is one after somebody is added.
LEMMA AddedMembers ==
  ASSUME TrackingInv, NEW p \in Person, NEW c \in Chan, NEW u, Added(u, p, c),
         members' = [members EXCEPT ![c] = @ \cup {u}],
         opOf' = opOf, \A o \in Tracked : ops[o] \subseteq ops'[o],
         NEW q \in Person, NEW d \in Chan, Member(q, d)
  PROVE  Member(q, d)'
<1>1. PICK o \in members[d] : who[o] = q /\ (d \in opOf[q] => d \in ops[o])
  BY DEF Member
<1>2. members \in [Chan -> SUBSET Obj] /\ o \in Obj /\ o \in Tracked
  BY DEF TrackingInv, TypeOK, ListsAgree
<1>3. o \in members'[d]
  BY <1>2
<1>4. who'[o] = q
  BY <1>1, <1>2 DEF Added
<1>5. d \in opOf'[q] => d \in ops'[o]
  BY <1>1, <1>2
<1> QED
  BY <1>3, <1>4, <1>5 DEF Member

LEMMA ServerChannels ==
  ASSUME TypeOK, NEW p \in Person, NEW c \in Chan,
         where' = [where EXCEPT ![p] = @ \cup {c}]
  PROVE  /\ where' \in [Person -> SUBSET Chan] /\ c \in where'[p] /\ where'[p] = where[p] \cup {c}
         /\ \A q \in Person \ {p} : where'[q] = where[q]
         /\ \A q \in Person : where[q] \subseteq where'[q]
  BY DEF TypeOK

\* Somebody who is not the bot joins a channel that the bot is not in.
LEMMA JoinUnseen ==
  ASSUME TrackingInv, NEW p \in Person, NEW c \in Chan, JoinChannel(p, c), p # Self, ~Sees(c)
  PROVE  TrackingInv'
<1>1. /\ where' = [where EXCEPT ![p] = @ \cup {c}] /\ nickOf[p] # Off /\ replies = {}
      /\ UNCHANGED <<awaited, nickOf, opOf, replies, view>>
  BY DEF JoinChannel, Quiet
<1>2. UNCHANGED <<users, nick, who, chans, ops, known, members, ourselves>>
  BY <1>1 DEF view, objVars
<1>3. TypeOK
  BY DEF TrackingInv
<1>4. /\ where' \in [Person -> SUBSET Chan] /\ where'[p] = where[p] \cup {c}
      /\ \A q \in Person \ {p} : where'[q] = where[q]
      /\ \A q \in Person : where[q] \subseteq where'[q]
  BY <1>1, <1>3, ServerChannels
<1>5. TypeOK'
  BY <1>1, <1>2, <1>3, <1>4 DEF TypeOK
<1>6. BotNick' = BotNick /\ Tracked' = Tracked /\ Self \in Person /\ known = where[Self]
      /\ \A o \in Tracked : who[o] \in Person
  BY <1>2, SelfAssumption, TrackedAre, <1>3 DEF BotNick, Tracked, TrackingInv, ListsAgree, TypeOK
<1>7. ServerIsSound'
  BY <1>1, <1>4, <1>6 DEF TrackingInv, ServerIsSound
<1>8. ListsAgree'
  BY <1>1, <1>2, <1>4, <1>6 DEF TrackingInv, ListsAgree, Distinct
<1>9. ObjectsAreSound'
  BY <1>1, <1>2, <1>4, <1>6 DEF TrackingInv, ObjectsAreSound
<1>10. c \notin known
  BY <1>6 DEF Sees
<1>11. \A q \in Person, d \in Chan : Member(q, d)' <=> Member(q, d)
  BY <1>1, <1>2 DEF Member
<1>12. known \subseteq Chan
  BY <1>3 DEF TypeOK
<1>13. Coming'
  BY <1>1, <1>2, <1>4, <1>10, <1>11, <1>12 DEF TrackingInv, Coming
<1> QED
  BY <1>5, <1>7, <1>8, <1>9, <1>13 DEF TrackingInv

\* The bot joins a channel, or somebody joins one that the bot is in.
LEMMA JoinSeen ==
  ASSUME TrackingInv, ~IsFiniteSet(Obj), NEW p \in Person, NEW c \in Chan, JoinChannel(p, c),
         p = Self \/ Sees(c)
  PROVE  TrackingInv'
<1> DEFINE f == ByMask(nickOf[p], p)
           u == UserFor(p)
           isBot == nickOf[p] = OwnNick
<1>1. /\ where' = [where EXCEPT ![p] = @ \cup {c}] /\ nickOf[p] # Off /\ replies = {} /\ c \notin where[p]
      /\ AddToChannel(f, nickOf[p], p, c)
      /\ ops' = [ops EXCEPT ![u] = IF f = Nobody THEN {} ELSE @]
      /\ known' = known \cup {c}
      /\ members' = [members EXCEPT ![c] = @ \cup {u}]
      /\ ourselves' = IF isBot /\ ourselves = Nobody THEN u ELSE ourselves
      /\ awaited' = IF isBot THEN awaited \cup {c} ELSE awaited
      /\ nickOf' = nickOf /\ opOf' = opOf /\ replies' = replies
  BY DEF JoinChannel, Quiet, UserFor
<1>2. TypeOK
  BY DEF TrackingInv
<1>3. Added(u, p, c) /\ (f = Nobody => u \notin Tracked)
  BY <1>1, Adding
<1> HIDE DEF f, u
<1>4. /\ where' \in [Person -> SUBSET Chan] /\ where'[p] = where[p] \cup {c} /\ c \in where'[p]
      /\ \A q \in Person \ {p} : where'[q] = where[q]
      /\ \A q \in Person : where[q] \subseteq where'[q]
  BY <1>1, <1>2, ServerChannels
<1>5. isBot <=> p = Self
  <2>1. OwnNick = BotNick
    BY DEF OwnNick, TrackingInv, ListsAgree
  <2>2. nickOf[p] = BotNick => p = Self
    BY <1>1, SelfAssumption DEF TrackingInv, ServerIsSound
  <2>3. nickOf[Self] = BotNick
    BY DEF TrackingInv, ServerIsSound
  <2> QED
    BY <2>1, <2>2, <2>3
<1> HIDE DEF isBot
<1>6. /\ Self \in Person /\ known = where[Self] /\ awaited \subseteq known /\ known \subseteq Chan
      /\ \A o \in Tracked : o \in Obj
  BY <1>2, SelfAssumption, TrackedAre DEF TrackingInv, ListsAgree, TypeOK
<1>7. known' = where'[Self] /\ c \in known' /\ awaited' \subseteq known' /\ (p # Self => known' = known)
  BY <1>1, <1>4, <1>5, <1>6 DEF Sees
<1>8. ourselves' = ourselves \/ (ourselves' = u /\ p = Self)
  BY <1>1, <1>5
<1>9. ListsAgree' /\ ObjectsAreSound' /\ members' \in [Chan -> SUBSET Obj]
  BY <1>1, <1>3, <1>4, <1>7, <1>8, AddedAgrees
<1>10. u \in Obj
  BY <1>3 DEF Added
<1>11. TypeOK'
  <2>1. ops' \in [Obj -> SUBSET Chan]
    BY <1>1, <1>2, <1>10 DEF TypeOK
  <2>2. awaited' \subseteq Chan /\ known' \subseteq Chan /\ ourselves' \in Obj \cup {Nobody}
    BY <1>1, <1>2, <1>6, <1>7, <1>8, <1>10 DEF TypeOK
  <2>3. /\ users' \in Seq(Obj) /\ nick' \in [Obj -> Nick \cup {Off}] /\ who' \in [Obj -> Person]
        /\ chans' \in [Obj -> SUBSET (Chan \cup {NoChan})]
    BY <1>3 DEF Added
  <2> QED
    BY <1>1, <1>2, <1>4, <1>9, <2>1, <2>2, <2>3 DEF TypeOK
<1>12. ServerIsSound'
  <2>1. BotNick' = BotNick
    BY DEF BotNick
  <2> QED
    BY <1>1, <1>4, <1>6, <2>1 DEF TrackingInv, ServerIsSound
<1>13. \A o \in Tracked : ops[o] \subseteq ops'[o]
  <2>1. ops \in [Obj -> SUBSET Chan]
    BY <1>2 DEF TypeOK
  <2> QED
    BY <1>1, <1>3, <1>6, <2>1
<1>14. \A q \in Person, d \in Chan : Member(q, d) => Member(q, d)'
  BY <1>1, <1>3, <1>13, AddedMembers
<1>15. \A q \in Person, d \in known \ awaited : d \in where[q] => Member(q, d)
  BY <1>1 DEF TrackingInv, Coming
<1>16. ASSUME p # Self PROVE Member(p, c)'
  <2>1. who'[u] = p /\ u \in members'[c]
    <3>1. members \in [Chan -> SUBSET Obj]
      BY <1>2 DEF TypeOK
    <3> QED
      BY <1>1, <1>3, <3>1 DEF Added
  <2>2. c \notin opOf'[p]
    BY <1>1 DEF TrackingInv, ServerIsSound
  <2> QED
    BY <2>1, <2>2 DEF Member
<1>17. ASSUME NEW q \in Person, NEW d \in known' \ awaited', d \in where'[q] PROVE Member(q, d)'
  <2>1. CASE p = Self
    <3>1. d # c /\ d \in known \ awaited /\ d \in Chan
      BY <1>1, <1>5, <1>6, <1>17, <2>1
    <3>2. d \in where[q]
      BY <1>4, <1>17, <3>1
    <3> QED
      BY <1>14, <1>15, <3>1, <3>2
  <2>2. CASE p # Self
    <3>1. d \in known \ awaited /\ d \in Chan
      BY <1>1, <1>5, <1>6, <1>7, <1>17, <2>2
    <3>2. CASE d \in where[q]
      BY <1>14, <1>15, <3>1, <3>2
    <3>3. CASE d \notin where[q]
      <4>1. q = p /\ d = c
        BY <1>4, <1>17, <3>3
      <4> QED
        BY <1>16, <2>2, <4>1
    <3> QED
      BY <3>2, <3>3
  <2> QED
    BY <2>1, <2>2
<1>18. Coming'
  BY <1>1, <1>17 DEF Coming
<1> QED
  BY <1>9, <1>11, <1>12, <1>18 DEF TrackingInv

\* A reply for somebody in a channel.
LEMMA ReplyKeeps ==
  ASSUME TrackingInv, ~IsFiniteSet(Obj), NEW r \in replies, WhoReply(r)
  PROVE  TrackingInv'
<1>1. TypeOK
  BY DEF TrackingInv
<1>2. r \in Person \X Chan \X BOOLEAN
  BY <1>1 DEF TypeOK
<1>3. PICK p, c, op : r = <<p, c, op>> /\ p \in Person /\ c \in Chan /\ op \in BOOLEAN
  BY <1>2
<1>4. c \in where[p] /\ c \in known /\ (op <=> c \in opOf[p])
  BY <1>3 DEF TrackingInv, Coming
<1> DEFINE f == ByMask(nickOf[p], p)
           u == UserFor(p)
<1>5. WhoResponse(p, c, op)
  BY <1>3, <1>4 DEF WhoReply
<1>6. /\ AddToChannel(f, nickOf[p], p, c)
      /\ members' = [members EXCEPT ![c] = @ \cup {u}]
      /\ ops' = [ops EXCEPT ![u] = (IF f = Nobody THEN {} ELSE @) \cup (IF op THEN {c} ELSE {})]
      /\ known' = known /\ ourselves' = ourselves
  BY <1>5 DEF WhoResponse, UserFor
<1>7. replies' = replies \ {r} /\ where' = where /\ nickOf' = nickOf /\ opOf' = opOf /\ awaited' = awaited
  BY DEF WhoReply, truth
<1>8. nickOf[p] # Off
  BY <1>3, <1>4 DEF TrackingInv, ServerIsSound
<1>9. Added(u, p, c) /\ (f = Nobody => u \notin Tracked)
  BY <1>3, <1>6, <1>8, Adding
<1> HIDE DEF f, u
<1>10. /\ where \in [Person -> SUBSET Chan] /\ known = where[Self] /\ awaited \subseteq known
       /\ known \subseteq Chan /\ \A o \in Tracked : o \in Obj
  BY <1>1, TrackedAre DEF TrackingInv, ListsAgree, TypeOK
<1>11. ListsAgree' /\ ObjectsAreSound' /\ members' \in [Chan -> SUBSET Obj]
  <2>1. /\ where' \in [Person -> SUBSET Chan] /\ \A q \in Person : where[q] \subseteq where'[q]
        /\ c \in where'[p] /\ known' = where'[Self] /\ c \in known' /\ awaited' \subseteq known'
        /\ (ourselves' = ourselves \/ (ourselves' = u /\ p = Self))
    BY <1>4, <1>6, <1>7, <1>10
  <2> QED
    BY <1>3, <1>6, <1>7, <1>8, <1>9, <2>1, AddedAgrees
<1>12. u \in Obj
  BY <1>9 DEF Added
<1>13. ops \in [Obj -> SUBSET Chan] /\ members \in [Chan -> SUBSET Obj]
  BY <1>1 DEF TypeOK
<1>14. TypeOK'
  <2>1. ops' \in [Obj -> SUBSET Chan]
    BY <1>3, <1>6, <1>12, <1>13
  <2>2. /\ users' \in Seq(Obj) /\ nick' \in [Obj -> Nick \cup {Off}] /\ who' \in [Obj -> Person]
        /\ chans' \in [Obj -> SUBSET (Chan \cup {NoChan})]
    BY <1>9 DEF Added
  <2> QED
    BY <1>1, <1>6, <1>7, <1>11, <2>1, <2>2 DEF TypeOK
<1>15. ServerIsSound'
  BY <1>7 DEF TrackingInv, ServerIsSound, BotNick
<1>16. \A o \in Tracked : ops[o] \subseteq ops'[o]
  BY <1>6, <1>9, <1>10, <1>13
<1>17. \A q \in Person, d \in Chan : Member(q, d) => Member(q, d)'
  BY <1>3, <1>6, <1>7, <1>9, <1>16, AddedMembers
<1>18. Member(p, c)'
  <2>1. who'[u] = p /\ u \in members'[c]
    BY <1>3, <1>6, <1>9, <1>13 DEF Added
  <2>2. c \in opOf'[p] => c \in ops'[u]
    BY <1>4, <1>6, <1>7, <1>12, <1>13
  <2> QED
    BY <2>1, <2>2 DEF Member
<1>19. \A s \in replies' : s[2] \in where'[s[1]] \cap known' /\ (s[3] <=> s[2] \in opOf'[s[1]])
  BY <1>6, <1>7 DEF TrackingInv, Coming
<1>20. ASSUME NEW q \in Person, NEW d \in known' \ awaited', d \in where'[q]
       PROVE  (\E s \in replies' : s[1] = q /\ s[2] = d) \/ Member(q, d)'
  <2>1. d \in known \ awaited /\ d \in Chan /\ d \in where[q]
    BY <1>6, <1>7, <1>10, <1>20
  <2>2. (\E s \in replies : s[1] = q /\ s[2] = d) \/ Member(q, d)
    BY <2>1 DEF TrackingInv, Coming
  <2>3. CASE Member(q, d)
    BY <1>17, <2>1, <2>3
  <2>4. ASSUME NEW s \in replies, s[1] = q, s[2] = d
        PROVE  (\E t \in replies' : t[1] = q /\ t[2] = d) \/ Member(q, d)'
    <3>1. CASE s = r
      <4>1. q = p /\ d = c
        BY <1>3, <2>4, <3>1
      <4> QED
        BY <1>18, <4>1
    <3>2. CASE s # r
      BY <1>7, <2>4, <3>2
    <3> QED
      BY <3>1, <3>2
  <2> QED
    BY <2>2, <2>3, <2>4
<1>21. Coming'
  BY <1>19, <1>20 DEF Coming
<1> QED
  BY <1>11, <1>14, <1>15, <1>21 DEF TrackingInv

\* When users lose channels, and those who have none left are forgotten, users
\* and channels still agree with each other and with the server.
LEMMA LossAgrees ==
  ASSUME TrackingInv, NEW D, users' = Without(users, D),
         nick' = nick, who' = who, ourselves' = ourselves,
         \A o \in Obj : chans'[o] \subseteq chans[o] \cap known',
         \A o \in Tracked : o \in D <=> chans'[o] = {},
         \A o \in Obj : \A d \in Chan : o \in members'[d] <=> d \in chans'[o],
         known' = where'[Self], awaited' \subseteq known',
         \A o \in Tracked : chans'[o] # {} =>
           nick[o] = nickOf'[who[o]] /\ chans'[o] \subseteq where'[who[o]]
  PROVE  ListsAgree' /\ ObjectsAreSound' /\ users' \in Seq(Obj)
<1>1. /\ users \in Seq(Obj) /\ Tracked = In(users) /\ Distinct(users) /\ Tracked \subseteq Obj
      /\ \A o \in Obj : o \in Tracked <=> chans[o] # {}
      /\ ourselves # Nobody => nick[ourselves] = BotNick
      /\ \A o, q \in Tracked : who[o] = who[q] => o = q
  BY TrackedAre DEF TrackingInv, ListsAgree, ObjectsAreSound
<1>2. users' \in Seq(Obj) /\ Distinct(users') /\ In(users') = In(users) \ D
  BY <1>1, WithoutIs
<1>3. Tracked' = Tracked \ D
  BY <1>1, <1>2 DEF Tracked, In
<1>4. \A o \in Obj : o \in Tracked' <=> chans'[o] # {}
  BY <1>1, <1>3
<1>5. BotNick' = BotNick
  BY DEF BotNick
<1>6. ListsAgree'
  BY <1>1, <1>2, <1>4, <1>5 DEF ListsAgree
<1>7. ObjectsAreSound'
  BY <1>1, <1>3 DEF ObjectsAreSound
<1> QED
  BY <1>2, <1>6, <1>7

LEMMA StillMember ==
  ASSUME who' = who, ops' = ops, NEW q, NEW d, opOf'[q] \subseteq opOf[q], Member(q, d),
         \A o \in members[d] : who[o] = q => o \in members'[d]
  PROVE  Member(q, d)'
  BY DEF Member

\* The server's side of a part.
LEMMA ServerParts ==
  ASSUME TrackingInv, NEW p \in Person, NEW c \in Chan,
         where' = [where EXCEPT ![p] = @ \ {c}],
         opOf' = [opOf EXCEPT ![p] = @ \ {c}], nickOf' = nickOf
  PROVE  /\ ServerIsSound'
         /\ where' \in [Person -> SUBSET Chan] /\ opOf' \in [Person -> SUBSET Chan]
         /\ where'[p] = where[p] \ {c} /\ \A q \in Person \ {p} : where'[q] = where[q]
         /\ \A q \in Person : opOf'[q] \subseteq opOf[q]
<1>1. where \in [Person -> SUBSET Chan] /\ opOf \in [Person -> SUBSET Chan]
  BY DEF TrackingInv, TypeOK
<1>2. /\ where' \in [Person -> SUBSET Chan] /\ opOf' \in [Person -> SUBSET Chan]
      /\ where'[p] = where[p] \ {c} /\ \A q \in Person \ {p} : where'[q] = where[q]
      /\ opOf'[p] = opOf[p] \ {c} /\ \A q \in Person \ {p} : opOf'[q] = opOf[q]
  BY <1>1
<1>3. BotNick' = BotNick
  BY DEF BotNick
<1>4. ServerIsSound'
  BY <1>2, <1>3 DEF TrackingInv, ServerIsSound
<1> QED
  BY <1>2, <1>4

\* Somebody leaves a channel that the bot is not in.
LEMMA PartUnseen ==
  ASSUME TrackingInv, NEW p \in Person, NEW c \in Chan, Part(p, c), ~Sees(c)
  PROVE  TrackingInv'
<1>1. /\ where' = [where EXCEPT ![p] = @ \ {c}] /\ opOf' = [opOf EXCEPT ![p] = @ \ {c}]
      /\ c \in where[p] /\ replies = {} /\ nickOf' = nickOf /\ replies' = replies
      /\ awaited' = IF p = Self /\ ~LateWho THEN awaited \ {c} ELSE awaited
      /\ UNCHANGED view
  BY DEF Part, Quiet
<1>2. UNCHANGED <<users, nick, who, chans, ops, known, members, ourselves>>
  BY <1>1 DEF view, objVars
<1>3. TypeOK /\ known = where[Self] /\ Self \in Person /\ known \subseteq Chan /\ c \notin known
  BY SelfAssumption DEF TrackingInv, TypeOK, ListsAgree, Sees
<1>4. p # Self /\ awaited' = awaited
  BY <1>1 DEF Sees
<1>5. /\ ServerIsSound'
      /\ where' \in [Person -> SUBSET Chan] /\ opOf' \in [Person -> SUBSET Chan]
      /\ where'[p] = where[p] \ {c} /\ \A q \in Person \ {p} : where'[q] = where[q]
      /\ \A q \in Person : opOf'[q] \subseteq opOf[q]
  BY <1>1, ServerParts
<1>6. TypeOK'
  BY <1>1, <1>2, <1>3, <1>4, <1>5 DEF TypeOK
<1>7. BotNick' = BotNick /\ Tracked' = Tracked /\ \A o \in Tracked : o \in Obj /\ who[o] \in Person
  BY <1>2, <1>3, TrackedAre DEF BotNick, Tracked, TypeOK
<1>8. ListsAgree'
  BY <1>2, <1>3, <1>4, <1>5, <1>7 DEF TrackingInv, ListsAgree, Distinct
<1>9. \A o \in Tracked : nick[o] = nickOf[who[o]] /\ chans[o] \subseteq where[who[o]] /\ c \notin chans[o]
  BY <1>3, <1>7 DEF TrackingInv, ListsAgree, ObjectsAreSound
<1>10. \A o \in Tracked : chans[o] \subseteq where'[who[o]]
  BY <1>5, <1>7, <1>9
<1>11. ObjectsAreSound'
  BY <1>1, <1>2, <1>7, <1>9, <1>10 DEF TrackingInv, ObjectsAreSound
<1>12. \A q \in Person, d \in Chan : Member(q, d) => Member(q, d)'
  BY <1>2, <1>5, StillMember
<1>13. Coming'
  BY <1>1, <1>2, <1>3, <1>4, <1>5, <1>12 DEF TrackingInv, Coming
<1> QED
  BY <1>5, <1>6, <1>8, <1>11, <1>13 DEF TrackingInv

\* The bot leaves a channel.
LEMMA PartSelf ==
  ASSUME TrackingInv, Regular, NEW c \in Chan, Part(Self, c)
  PROVE  TrackingInv'
<1> DEFINE D == {o \in members[c] : chans'[o] = {}}
<1>1. TypeOK /\ known = where[Self] /\ Self \in Person /\ known \subseteq Chan /\ awaited \subseteq known
  BY SelfAssumption DEF TrackingInv, TypeOK, ListsAgree
<1>2. /\ where' = [where EXCEPT ![Self] = @ \ {c}] /\ opOf' = [opOf EXCEPT ![Self] = @ \ {c}]
      /\ c \in where[Self] /\ replies = {} /\ nickOf' = nickOf /\ replies' = replies
      /\ awaited' = awaited \ {c}
      /\ SelfPartChannel(c)
  BY DEF Part, Quiet, Sees, Regular, TrackingInv, ServerIsSound
<1>3. /\ chans' = [o \in Obj |-> IF o \in members[c] THEN chans[o] \ {c} ELSE chans[o]]
      /\ users' = Without(users, D)
      /\ members' = [members EXCEPT ![c] = {}]
      /\ known' = known \ {c}
      /\ nick' = nick /\ who' = who /\ ops' = ops /\ ourselves' = ourselves
  BY <1>1, <1>2 DEF SelfPartChannel
<1>4. /\ ServerIsSound'
      /\ where' \in [Person -> SUBSET Chan] /\ opOf' \in [Person -> SUBSET Chan]
      /\ where'[Self] = where[Self] \ {c} /\ \A q \in Person \ {Self} : where'[q] = where[q]
      /\ \A q \in Person : opOf'[q] \subseteq opOf[q]
  BY <1>1, <1>2, ServerParts
<1>5. /\ chans \in [Obj -> SUBSET (Chan \cup {NoChan})] /\ members \in [Chan -> SUBSET Obj]
      /\ \A o \in Obj : o \in Tracked <=> chans[o] # {}
      /\ \A o \in Obj : chans[o] \subseteq known
      /\ \A o \in Obj : \A d \in Chan : o \in members[d] <=> d \in chans[o]
      /\ \A o \in Tracked : nick[o] = nickOf[who[o]] /\ chans[o] \subseteq where[who[o]]
      /\ \A o \in Tracked : o \in Obj /\ who[o] \in Person
  BY <1>1, TrackedAre DEF TrackingInv, TypeOK, ListsAgree, ObjectsAreSound
<1>6. \A o \in Obj : chans'[o] = chans[o] \ {c}
  BY <1>3, <1>5
<1>7. members'[c] = {} /\ \A d \in Chan \ {c} : members'[d] = members[d]
  BY <1>3, <1>5
<1>8. \A o \in Obj : \A d \in Chan : o \in members'[d] <=> d \in chans'[o]
  BY <1>5, <1>6, <1>7
<1>9. \A o \in Tracked : o \in D <=> chans'[o] = {}
  <2> SUFFICES ASSUME NEW o \in Tracked, chans'[o] = {} PROVE o \in members[c]
    OBVIOUS
  <2>1. chans[o] # {} /\ chans[o] \ {c} = {} /\ o \in Obj
    BY <1>5, <1>6
  <2> QED
    BY <1>5, <2>1
<1>10. \A o \in Obj : chans'[o] \subseteq chans[o] \cap known'
  BY <1>3, <1>5, <1>6
<1>11. known' = where'[Self] /\ awaited' \subseteq known'
  BY <1>1, <1>2, <1>3, <1>4
<1>12. \A o \in Tracked : nick[o] = nickOf'[who[o]] /\ chans'[o] \subseteq where'[who[o]]
  BY <1>2, <1>4, <1>5, <1>6
<1> HIDE DEF D
<1>13. ListsAgree' /\ ObjectsAreSound' /\ users' \in Seq(Obj)
  <2>1. users' = Without(users, D) /\ nick' = nick /\ who' = who /\ ourselves' = ourselves
    BY <1>3
  <2>2. \A o \in Tracked : chans'[o] # {} =>
          nick[o] = nickOf'[who[o]] /\ chans'[o] \subseteq where'[who[o]]
    BY <1>12
  <2>3. TrackingInv
    OBVIOUS
  <2> QED
    BY ONLY <1>8, <1>9, <1>10, <1>11, <2>1, <2>2, <2>3, LossAgrees
<1>14. TypeOK'
  <2>1. chans' \in [Obj -> SUBSET (Chan \cup {NoChan})] /\ members' \in [Chan -> SUBSET Obj]
    BY <1>3, <1>5
  <2> QED
    BY <1>1, <1>2, <1>3, <1>4, <1>13, <2>1 DEF TypeOK
<1>15. ASSUME NEW q \in Person, NEW d \in known' \ awaited', d \in where'[q] PROVE Member(q, d)'
  <2>1. d \in known \ awaited /\ d # c /\ d \in Chan
    BY <1>1, <1>2, <1>3, <1>15
  <2>2. d \in where[q]
    BY <1>4, <1>15
  <2>3. Member(q, d)
    BY <1>2, <2>1, <2>2 DEF TrackingInv, Coming
  <2> QED
    BY <1>3, <1>4, <1>7, <2>1, <2>3, StillMember
<1>16. Coming'
  BY <1>2, <1>15 DEF Coming
<1> QED
  BY <1>4, <1>13, <1>14, <1>16 DEF TrackingInv

\* Somebody else leaves a channel that the bot is in.
LEMMA PartSeen ==
  ASSUME TrackingInv, NEW p \in Person, p # Self, NEW c \in Chan, Part(p, c), Sees(c)
  PROVE  TrackingInv'
<1> DEFINE f == ByNick(nickOf[p])
<1>1. TypeOK /\ known = where[Self] /\ Self \in Person /\ known \subseteq Chan /\ awaited \subseteq known
  BY SelfAssumption DEF TrackingInv, TypeOK, ListsAgree
<1>2. c \in where[p] /\ nickOf[p] # Off /\ nickOf[p] # BotNick
  <2>1. c \in where[p]
    BY DEF Part
  <2> QED
    BY <1>1, <2>1 DEF TrackingInv, ServerIsSound
<1>3. /\ where' = [where EXCEPT ![p] = @ \ {c}] /\ opOf' = [opOf EXCEPT ![p] = @ \ {c}]
      /\ replies = {} /\ nickOf' = nickOf /\ replies' = replies
      /\ awaited' = awaited
      /\ UserChannelPart(f, c)
  BY <1>2 DEF Part, Quiet
<1>4. Found(f, p)
  BY <1>2, LookedUp
<1> HIDE DEF f
<1>5. /\ ServerIsSound'
      /\ where' \in [Person -> SUBSET Chan] /\ opOf' \in [Person -> SUBSET Chan]
      /\ where'[p] = where[p] \ {c} /\ \A q \in Person \ {p} : where'[q] = where[q]
      /\ \A q \in Person : opOf'[q] \subseteq opOf[q]
  BY <1>3, ServerParts
<1>6. /\ chans \in [Obj -> SUBSET (Chan \cup {NoChan})] /\ members \in [Chan -> SUBSET Obj]
      /\ Nobody \notin Obj /\ users \in Seq(Obj) /\ Distinct(users)
      /\ \A o \in Obj : o \in Tracked <=> chans[o] # {}
      /\ \A o \in Obj : chans[o] \subseteq known
      /\ \A o \in Obj : \A d \in Chan : o \in members[d] <=> d \in chans[o]
      /\ \A o \in Tracked : nick[o] = nickOf[who[o]] /\ chans[o] \subseteq where[who[o]]
      /\ \A o \in Tracked : o \in Obj /\ who[o] \in Person
  BY <1>1, TrackedAre, ValuesAssumption DEF TrackingInv, TypeOK, ListsAgree, ObjectsAreSound
<1>7. f = Nobody => c \in awaited
  <2> SUFFICES ASSUME c \notin awaited, f = Nobody PROVE FALSE
    OBVIOUS
  <2>1. Member(p, c)
    BY <1>1, <1>2, <1>3 DEF TrackingInv, Coming, Sees
  <2>2. PICK o \in members[c] : who[o] = p
    BY <2>1 DEF Member
  <2>3. o \in Obj /\ o \in Tracked
    BY <1>6, <2>2
  <2> QED
    BY <1>4, <1>6, <2>2, <2>3 DEF Found
<1>8. known' = where'[Self] /\ c \in known
  <2>1. known' = known
    BY <1>3 DEF UserChannelPart, view
  <2> QED
    BY <1>1, <1>5, <2>1 DEF Sees
<1>9. CASE f = Nobody /\ users = <<>>
  <2>1. UNCHANGED view
    BY <1>3, <1>9 DEF UserChannelPart
  <2>2. UNCHANGED <<users, nick, who, chans, ops, known, members, ourselves>>
    BY <2>1 DEF view, objVars
  <2>3. Tracked = {} /\ Tracked' = {}
    BY <1>9, <2>2 DEF Tracked
  <2>4. BotNick' = BotNick
    BY DEF BotNick
  <2>5. ListsAgree'
    BY <1>3, <1>8, <2>2, <2>3, <2>4 DEF TrackingInv, ListsAgree, Distinct
  <2>6. ObjectsAreSound'
    BY <2>3 DEF ObjectsAreSound
  <2>7. TypeOK'
    BY <1>1, <1>3, <1>5, <2>2 DEF TypeOK
  <2>8. \A q \in Person, d \in Chan : Member(q, d) => Member(q, d)'
    BY <1>5, <2>2, StillMember
  <2>9. Coming'
    BY <1>1, <1>3, <1>5, <2>2, <2>8 DEF TrackingInv, Coming
  <2> QED
    BY <1>5, <2>5, <2>6, <2>7, <2>9 DEF TrackingInv
<1>10. CASE ~(f = Nobody /\ users = <<>>)
  <2> DEFINE o == IF f # Nobody THEN f ELSE Head(users)
             D == IF chans'[o] = {} THEN {o} ELSE {}
  <2>1. o \in Tracked /\ o \in Obj
    <3>1. f = Nobody => Head(users) \in Tracked
      <4> SUFFICES ASSUME f = Nobody PROVE Head(users) \in Tracked
        OBVIOUS
      <4>1. Head(users) = users[1] /\ 1 \in DOMAIN users
        BY <1>6, <1>10
      <4> QED
        BY <4>1 DEF Tracked
    <3> QED
      BY <1>4, <1>6, <3>1 DEF Found
  <2>2. o # Nobody
    BY <1>6, <2>1
  <2>3. /\ chans' = [chans EXCEPT ![o] = @ \ {c}]
        /\ members' = [members EXCEPT ![c] = @ \ {o}]
        /\ users' = Without(users, D)
        /\ UNCHANGED <<nick, who, ops, known, ourselves>>
    <3>1. o = IF f # Nobody THEN f ELSE IF users = <<>> THEN Nobody ELSE Head(users)
      BY <1>10
    <3> HIDE DEF o
    <3> QED
      BY <1>3, <1>8, <2>2, <3>1 DEF UserChannelPart, CheckLostTrack
  <2> HIDE DEF o
  <2>4. /\ chans' \in [Obj -> SUBSET (Chan \cup {NoChan})] /\ members' \in [Chan -> SUBSET Obj]
        /\ chans'[o] = chans[o] \ {c} /\ \A q \in Obj \ {o} : chans'[q] = chans[q]
        /\ members'[c] = members[c] \ {o} /\ \A d \in Chan \ {c} : members'[d] = members[d]
    BY <1>6, <2>1, <2>3
  <2>5. \A q \in Obj : \A d \in Chan : q \in members'[d] <=> d \in chans'[q]
    BY <1>6, <2>4
  <2>6. \A q \in Tracked : q \in D <=> chans'[q] = {}
    BY <1>6, <2>4
  <2>7. \A q \in Obj : chans'[q] \subseteq chans[q] \cap known'
    BY <1>6, <2>3, <2>4
  <2>8. awaited' \subseteq known'
    BY <1>1, <1>3, <2>3
  <2>9. ASSUME NEW q \in Tracked PROVE nick[q] = nickOf'[who[q]] /\ chans'[q] \subseteq where'[who[q]]
    <3>1. nick[q] = nickOf'[who[q]] /\ chans'[q] \subseteq where[who[q]] /\ who[q] \in Person
      BY <1>3, <1>6, <2>4
    <3>2. who[q] = p => c \notin chans'[q]
      <4> SUFFICES ASSUME who[q] = p PROVE c \notin chans'[q]
        OBVIOUS
      <4>1. f # Nobody /\ f \in Tracked /\ who[f] = p
        BY <1>4 DEF Found
      <4>2. q = f
        BY <4>1 DEF TrackingInv, ObjectsAreSound
      <4>3. q = o
        BY <4>1, <4>2 DEF o
      <4> QED
        BY <2>4, <4>3
    <3> QED
      BY <1>5, <3>1, <3>2
  <2> HIDE DEF D
  <2>10. ListsAgree' /\ ObjectsAreSound' /\ users' \in Seq(Obj)
    BY <1>8, <2>3, <2>5, <2>6, <2>7, <2>8, <2>9, LossAgrees
  <2>11. TypeOK'
    BY <1>1, <1>3, <1>5, <2>3, <2>4, <2>10 DEF TypeOK
  <2>12. ASSUME NEW q \in Person, NEW d \in known' \ awaited', d \in where'[q] PROVE Member(q, d)'
    <3>1. d \in known \ awaited /\ d \in Chan /\ d \in where[q] /\ (d = c => q # p)
      BY <1>1, <1>3, <1>5, <2>3, <2>12
    <3>2. Member(q, d)
      BY <1>3, <3>1 DEF TrackingInv, Coming
    <3>3. \A x \in members[d] : who[x] = q => x \in members'[d]
      <4>1. CASE d # c
        BY <2>4, <3>1, <4>1
      <4>2. CASE d = c
        <5>1. f # Nobody
          BY <1>7, <3>1, <4>2
        <5>2. o = f /\ who[o] = p
          BY <1>4, <5>1 DEF Found, o
        <5> QED
          BY <2>4, <3>1, <4>2, <5>2
      <4> QED
        BY <4>1, <4>2
    <3> QED
      BY <1>5, <2>3, <3>2, <3>3, StillMember
  <2>13. Coming'
    BY <1>3, <2>12 DEF Coming
  <2> QED
    BY <1>5, <2>10, <2>11, <2>13 DEF TrackingInv
<1> QED
  BY <1>9, <1>10

\* The nick the bot keeps is a nick.
LEMMA BotNickIs == ASSUME Regular PROVE BotNick \in Nick
  BY MayUseAssumption, SelfAssumption DEF Regular

\* Somebody disconnects.
LEMMA QuitKeeps ==
  ASSUME TrackingInv, NEW p \in Person, Quit(p)
  PROVE  TrackingInv'
<1> DEFINE o == ByMask(nickOf[p], p)
<1>1. /\ TypeOK /\ known = where[Self] /\ Self \in Person /\ known \subseteq Chan /\ awaited \subseteq known
      /\ where \in [Person -> SUBSET Chan] /\ opOf \in [Person -> SUBSET Chan]
      /\ nickOf \in [Person -> Nick \cup {Off}]
  BY SelfAssumption DEF TrackingInv, TypeOK, ListsAgree
<1>2. /\ p # Self /\ nickOf[p] # Off /\ replies = {} /\ replies' = replies /\ awaited' = awaited
      /\ nickOf' = [nickOf EXCEPT ![p] = Off]
      /\ where' = [where EXCEPT ![p] = {}]
      /\ opOf' = [opOf EXCEPT ![p] = {}]
      /\ IF ~Shares(p) \/ o = Nobody THEN UNCHANGED view
         ELSE QuitUser(o) /\ UNCHANGED <<nick, who, ops, known, ourselves>>
  BY DEF Quit, Quiet
<1>3. Found(o, p)
  BY <1>2, LookedUp
<1> HIDE DEF o
<1>4. /\ where' \in [Person -> SUBSET Chan] /\ opOf' \in [Person -> SUBSET Chan]
      /\ nickOf' \in [Person -> Nick \cup {Off}]
      /\ where'[p] = {} /\ opOf'[p] = {} /\ nickOf'[p] = Off
      /\ \A q \in Person \ {p} : where'[q] = where[q] /\ opOf'[q] = opOf[q] /\ nickOf'[q] = nickOf[q]
  BY <1>1, <1>2
<1>5. ServerIsSound'
  <2>1. BotNick' = BotNick
    BY DEF BotNick
  <2> QED
    BY <1>1, <1>2, <1>4, <2>1 DEF TrackingInv, ServerIsSound
<1>6. /\ chans \in [Obj -> SUBSET (Chan \cup {NoChan})] /\ members \in [Chan -> SUBSET Obj]
      /\ NoChan \notin Chan
      /\ \A q \in Obj : q \in Tracked <=> chans[q] # {}
      /\ \A q \in Obj : chans[q] \subseteq known
      /\ \A q \in Obj : \A d \in Chan : q \in members[d] <=> d \in chans[q]
      /\ \A q \in Tracked : nick[q] = nickOf[who[q]] /\ chans[q] \subseteq where[who[q]]
      /\ \A q \in Tracked : q \in Obj /\ who[q] \in Person
      /\ \A q, r \in Tracked : who[q] = who[r] => q = r
  BY <1>1, TrackedAre, ValuesAssumption DEF TrackingInv, TypeOK, ListsAgree, ObjectsAreSound
<1>7. CASE \A q \in Tracked : who[q] # p
  <2>1. o = Nobody
    BY <1>3, <1>7 DEF Found
  <2>2. UNCHANGED <<users, nick, who, chans, ops, known, members, ourselves>>
    BY <1>2, <2>1 DEF view, objVars
  <2>3. BotNick' = BotNick /\ Tracked' = Tracked
    BY <2>2 DEF BotNick, Tracked
  <2>4. ListsAgree'
    BY <1>1, <1>2, <1>4, <2>2, <2>3 DEF TrackingInv, ListsAgree, Distinct
  <2>5. ObjectsAreSound'
    BY <1>4, <1>6, <1>7, <2>2, <2>3 DEF ObjectsAreSound
  <2>6. TypeOK'
    BY <1>1, <1>2, <1>4, <2>2 DEF TypeOK
  <2>7. \A q \in Person, d \in Chan : Member(q, d) => Member(q, d)'
    <3>1. \A q \in Person : opOf'[q] \subseteq opOf[q]
      BY <1>4
    <3> QED
      BY <2>2, <3>1, StillMember
  <2>8. \A q \in Person, d \in Chan : d \in where'[q] => d \in where[q]
    BY <1>4
  <2>9. Coming'
    BY <1>1, <1>2, <2>2, <2>7, <2>8 DEF TrackingInv, Coming
  <2> QED
    BY <1>5, <2>4, <2>5, <2>6, <2>9 DEF TrackingInv
<1>8. CASE ~\A q \in Tracked : who[q] # p
  <2>1. o \in Tracked /\ o \in Obj /\ o # Nobody /\ who[o] = p
    BY <1>3, <1>8 DEF Found
  <2>2. Shares(p)
    <3>1. chans[o] # {} /\ chans[o] \subseteq where[p] /\ chans[o] \subseteq where[Self]
      BY <1>1, <1>6, <2>1
    <3> QED
      BY <3>1 DEF Shares
  <2>3. QuitUser(o) /\ UNCHANGED <<nick, who, ops, known, ourselves>>
    BY <1>2, <2>1, <2>2
  <2>4. NoChan \notin chans[o] /\ chans[o] # {}
    BY <1>1, <1>6, <2>1
  <2>5. /\ chans' = [chans EXCEPT ![o] = @ \ (chans[o] \cup {NoChan})]
        /\ members' = [d \in Chan |-> IF d \in chans[o] THEN members[d] \ {o} ELSE members[d]]
    BY <2>3, <2>4 DEF QuitUser
  <2>6. CheckLostTrack(o)
    BY <2>3, <2>4 DEF QuitUser
  <2>7. chans'[o] = {} /\ \A q \in Obj \ {o} : chans'[q] = chans[q]
    BY <1>6, <2>1, <2>5
  <2>8. users' = Without(users, {o})
    BY <2>6, <2>7 DEF CheckLostTrack
  <2>9. /\ chans' \in [Obj -> SUBSET (Chan \cup {NoChan})] /\ members' \in [Chan -> SUBSET Obj]
        /\ \A d \in Chan : members'[d] = members[d] \ {o}
    BY <1>6, <2>1, <2>5
  <2>10. \A q \in Obj : \A d \in Chan : q \in members'[d] <=> d \in chans'[q]
    BY <1>6, <2>7, <2>9
  <2>11. \A q \in Tracked : q \in {o} <=> chans'[q] = {}
    BY <1>6, <2>7
  <2>12. \A q \in Obj : chans'[q] \subseteq chans[q] \cap known'
    BY <1>6, <2>3, <2>7
  <2>13. known' = where'[Self] /\ awaited' \subseteq known'
    BY <1>1, <1>2, <1>4, <2>3
  <2>14. \A q \in Tracked : chans'[q] # {} =>
           nick[q] = nickOf'[who[q]] /\ chans'[q] \subseteq where'[who[q]]
    <3> SUFFICES ASSUME NEW q \in Tracked, chans'[q] # {}
                 PROVE  nick[q] = nickOf'[who[q]] /\ chans'[q] \subseteq where'[who[q]]
      OBVIOUS
    <3>1. q # o /\ who[q] # p /\ who[q] \in Person
      BY <1>6, <2>1, <2>7
    <3> QED
      BY <1>4, <1>6, <2>7, <3>1
  <2>15. ListsAgree' /\ ObjectsAreSound' /\ users' \in Seq(Obj)
    <3>1. TrackingInv /\ nick' = nick /\ who' = who /\ ourselves' = ourselves
      BY <2>3
    <3> QED
      BY ONLY <2>8, <2>10, <2>11, <2>12, <2>13, <2>14, <3>1, LossAgrees
  <2>16. TypeOK'
    BY <1>1, <1>2, <1>4, <2>3, <2>9, <2>15 DEF TypeOK
  <2>17. ASSUME NEW q \in Person, NEW d \in known' \ awaited', d \in where'[q] PROVE Member(q, d)'
    <3>1. d \in known \ awaited /\ d \in Chan /\ d \in where[q] /\ q # p
      BY <1>1, <1>2, <1>4, <2>3, <2>17
    <3>2. Member(q, d)
      BY <1>2, <3>1 DEF TrackingInv, Coming
    <3>3. \A x \in members[d] : who[x] = q => x \in members'[d]
      BY <2>1, <2>9, <3>1
    <3>4. opOf'[q] \subseteq opOf[q]
      BY <1>4, <3>1
    <3> QED
      BY <2>3, <3>2, <3>3, <3>4, StillMember
  <2>18. Coming'
    BY <1>2, <2>17 DEF Coming
  <2> QED
    BY <1>5, <2>15, <2>16, <2>18 DEF TrackingInv
<1> QED
  BY <1>7, <1>8

\* Somebody connects: nobody who is tracked.
LEMMA ComeOnlineKeeps ==
  ASSUME TrackingInv, Regular, NEW p \in Person, NEW n \in Nick, ComeOnline(p, n)
  PROVE  TrackingInv'
<1>1. /\ nickOf[p] = Off /\ n \in MayUse[p] /\ (\A q \in Person : nickOf[q] # n)
      /\ nickOf' = [nickOf EXCEPT ![p] = n]
      /\ UNCHANGED <<where, opOf, awaited, replies>> /\ UNCHANGED view
  BY DEF ComeOnline
<1>2. UNCHANGED <<users, nick, who, chans, ops, known, members, ourselves>>
  BY <1>1 DEF view, objVars
<1>3. /\ TypeOK /\ nickOf \in [Person -> Nick \cup {Off}] /\ Off \notin Nick /\ Self \in Person
      /\ \A o \in Tracked : o \in Obj /\ who[o] \in Person
  BY ValuesAssumption, SelfAssumption, TrackedAre DEF TrackingInv, TypeOK
<1>4. /\ nickOf' \in [Person -> Nick \cup {Off}] /\ nickOf'[p] = n
      /\ \A q \in Person \ {p} : nickOf'[q] = nickOf[q]
  BY <1>1, <1>3
<1>5. TypeOK'
  BY <1>1, <1>2, <1>3, <1>4 DEF TypeOK
<1>6. BotNick' = BotNick /\ Tracked' = Tracked
  BY <1>2 DEF BotNick, Tracked
<1>7. p # Self
  <2>1. nickOf[Self] = BotNick /\ BotNick \in Nick
    BY <1>3, BotNickIs DEF TrackingInv, ServerIsSound
  <2> QED
    BY <1>1, <1>3, <2>1
<1>8. ServerIsSound'
  BY <1>1, <1>3, <1>4, <1>6, <1>7 DEF TrackingInv, ServerIsSound
<1>9. ListsAgree'
  BY <1>1, <1>2, <1>6 DEF TrackingInv, ListsAgree, Distinct
<1>10. \A o \in Tracked : who[o] # p
  <2>1. where[p] = {}
    BY <1>1 DEF TrackingInv, ServerIsSound
  <2> QED
    BY <1>3, <2>1 DEF TrackingInv, ListsAgree, ObjectsAreSound
<1>11. ObjectsAreSound'
  BY <1>1, <1>2, <1>3, <1>4, <1>6, <1>10 DEF TrackingInv, ObjectsAreSound
<1>12. Coming'
  BY <1>1, <1>2 DEF TrackingInv, Coming, Member
<1> QED
  BY <1>5, <1>8, <1>9, <1>11, <1>12 DEF TrackingInv

\* Somebody changes nick, and so does the user who is that person.
LEMMA ChangeNickKeeps ==
  ASSUME TrackingInv, Regular, NEW p \in Person, NEW n \in Nick, ChangeNick(p, n)
  PROVE  TrackingInv'
<1> DEFINE o == ByNick(nickOf[p])
<1>1. /\ nickOf[p] # Off /\ n \in MayUse[p] /\ (\A q \in Person : nickOf[q] # n)
      /\ nickOf' = [nickOf EXCEPT ![p] = n]
      /\ nick' = IF (p = Self \/ Shares(p)) /\ o # Nobody THEN [nick EXCEPT ![o] = n] ELSE nick
      /\ UNCHANGED <<where, opOf, awaited, replies, users, who, chans, ops, known, members, ourselves>>
  BY DEF ChangeNick
<1>2. Found(o, p)
  BY <1>1, LookedUp
<1> HIDE DEF o
<1>3. /\ TypeOK /\ nickOf \in [Person -> Nick \cup {Off}] /\ Off \notin Nick /\ Self \in Person
      /\ nick \in [Obj -> Nick \cup {Off}] /\ ourselves \in Obj \cup {Nobody}
      /\ known = where[Self] /\ nickOf[Self] = BotNick
      /\ \A q \in Tracked : q \in Obj /\ who[q] \in Person
      /\ \A q \in Tracked : nick[q] = nickOf[who[q]] /\ chans[q] \subseteq where[who[q]]
      /\ \A q, r \in Tracked : who[q] = who[r] => q = r
      /\ \A q \in Obj : q \in Tracked <=> chans[q] # {}
      /\ \A q \in Obj : chans[q] \subseteq known
      /\ ourselves # Nobody => nick[ourselves] = BotNick
  BY ValuesAssumption, SelfAssumption, TrackedAre
    DEF TrackingInv, TypeOK, ListsAgree, ServerIsSound, ObjectsAreSound
<1>4. /\ nickOf' \in [Person -> Nick \cup {Off}] /\ nickOf'[p] = n
      /\ \A q \in Person \ {p} : nickOf'[q] = nickOf[q]
  BY <1>1, <1>3
<1>5. p # Self /\ nickOf[p] # BotNick
  <2>1. p # Self
    BY <1>1, <1>3 DEF Regular
  <2> QED
    BY <1>1, <1>3, <2>1 DEF TrackingInv, ServerIsSound
<1>6. BotNick' = BotNick /\ Tracked' = Tracked
  BY <1>1 DEF BotNick, Tracked
<1>7. ServerIsSound'
  BY <1>1, <1>3, <1>4, <1>5, <1>6 DEF TrackingInv, ServerIsSound
<1>8. o # Nobody => Shares(p) /\ nick' = [nick EXCEPT ![o] = n]
  <2> SUFFICES ASSUME o # Nobody PROVE Shares(p)
    BY <1>1
  <2>1. o \in Tracked /\ who[o] = p
    BY <1>2 DEF Found
  <2>2. chans[o] # {} /\ chans[o] \subseteq where[p] /\ chans[o] \subseteq where[Self]
    BY <1>3, <2>1
  <2> QED
    BY <2>2 DEF Shares
<1>9. /\ nick' \in [Obj -> Nick \cup {Off}]
      /\ \A q \in Tracked : nick'[q] = IF who[q] = p THEN n ELSE nick[q]
      /\ ourselves # Nobody => nick'[ourselves] = BotNick
  <2>1. CASE o = Nobody
    BY <1>1, <1>2, <1>3, <2>1 DEF Found
  <2>2. CASE o # Nobody
    <3>1. o \in Tracked /\ o \in Obj /\ who[o] = p /\ nick[o] = nickOf[p]
      BY <1>2, <2>2 DEF Found
    <3>2. o # ourselves
      BY <1>3, <1>5, <2>2, <3>1
    <3> QED
      BY <1>3, <1>8, <2>2, <3>1, <3>2
  <2> QED
    BY <2>1, <2>2
<1>10. TypeOK'
  BY <1>1, <1>3, <1>4, <1>9 DEF TypeOK
<1>11. ListsAgree'
  BY <1>1, <1>6, <1>9 DEF TrackingInv, ListsAgree, Distinct
<1>12. ObjectsAreSound'
  BY <1>1, <1>3, <1>4, <1>6, <1>9 DEF ObjectsAreSound
<1>13. Coming'
  BY <1>1 DEF TrackingInv, Coming, Member
<1> QED
  BY <1>7, <1>10, <1>11, <1>12, <1>13 DEF TrackingInv

\* Somebody's rank in a channel changes, and so does the user's.
LEMMA ChangeModeKeeps ==
  ASSUME TrackingInv, NEW p \in Person, NEW c \in Chan, ChangeMode(p, c)
  PROVE  TrackingInv'
<1> DEFINE o == ByNick(nickOf[p])
<1>1. /\ c \in where[p] /\ replies = {}
      /\ opOf' = [opOf EXCEPT ![p] = IF c \in @ THEN @ \ {c} ELSE @ \cup {c}]
      /\ ops' = IF Sees(c) /\ c \in known /\ o # Nobody
                THEN [ops EXCEPT ![o] = IF c \in opOf[p] THEN @ \ {c} ELSE @ \cup {c}]
                ELSE ops
      /\ UNCHANGED <<where, nickOf, awaited, replies, users, nick, who, chans, known, members, ourselves>>
  BY DEF ChangeMode, Quiet
<1>2. nickOf[p] # Off
  BY <1>1 DEF TrackingInv, ServerIsSound
<1>3. Found(o, p)
  BY <1>2, LookedUp
<1> HIDE DEF o
<1>4. /\ TypeOK /\ opOf \in [Person -> SUBSET Chan] /\ ops \in [Obj -> SUBSET Chan]
      /\ members \in [Chan -> SUBSET Obj]
      /\ known = where[Self] /\ known \subseteq Chan /\ Self \in Person
      /\ \A q \in Obj : q \in Tracked <=> chans[q] # {}
      /\ \A q \in Obj : \A d \in Chan : q \in members[d] <=> d \in chans[q]
      /\ \A q, r \in Tracked : who[q] = who[r] => q = r
      /\ Nobody \notin Obj
  BY SelfAssumption, ValuesAssumption DEF TrackingInv, TypeOK, ListsAgree, ObjectsAreSound
<1>5. /\ opOf' \in [Person -> SUBSET Chan]
      /\ opOf'[p] = IF c \in opOf[p] THEN opOf[p] \ {c} ELSE opOf[p] \cup {c}
      /\ \A q \in Person \ {p} : opOf'[q] = opOf[q]
  BY <1>1, <1>4
<1>6. /\ ops' \in [Obj -> SUBSET Chan]
      /\ \A q \in Obj \ {o} : ops'[q] = ops[q]
      /\ o # Nobody => \A d \in Chan \ {c} : d \in ops'[o] <=> d \in ops[o]
      /\ o # Nobody /\ c \in known => (c \in ops'[o] <=> c \notin opOf[p])
  <2>1. CASE Sees(c) /\ c \in known /\ o # Nobody
    <3>1. o \in Obj
      BY <1>3, <2>1 DEF Found
    <3>2. ops' = [ops EXCEPT ![o] = IF c \in opOf[p] THEN @ \ {c} ELSE @ \cup {c}]
      BY <1>1, <2>1
    <3> QED
      BY <1>4, <3>1, <3>2
  <2>2. CASE ~(Sees(c) /\ c \in known /\ o # Nobody)
    <3>1. ops' = ops
      BY <1>1, <2>2
    <3> QED
      BY <1>4, <2>2, <3>1 DEF Sees
  <2> QED
    BY <2>1, <2>2
<1>7. TypeOK'
  BY <1>1, <1>4, <1>5, <1>6 DEF TypeOK
<1>8. BotNick' = BotNick /\ Tracked' = Tracked
  BY <1>1 DEF BotNick, Tracked
<1>9. ServerIsSound'
  BY <1>1, <1>5, <1>8 DEF TrackingInv, ServerIsSound
<1>10. ListsAgree'
  BY <1>1, <1>8 DEF TrackingInv, ListsAgree, Distinct
<1>11. ObjectsAreSound'
  BY <1>1, <1>8 DEF TrackingInv, ObjectsAreSound
<1>12. ASSUME NEW q \in Person, NEW d \in known \ awaited, d \in where[q] PROVE Member(q, d)'
  <2>1. Member(q, d) /\ d \in Chan
    BY <1>1, <1>4, <1>12 DEF TrackingInv, Coming
  <2>2. PICK x \in members[d] : who[x] = q /\ (d \in opOf[q] => d \in ops[x])
    BY <2>1 DEF Member
  <2>3. x \in Obj /\ x \in Tracked
    BY <1>4, <2>1, <2>2
  <2>4. d \in opOf'[q] => d \in ops'[x]
    <3>1. CASE q = p
      <4>1. x = o /\ o # Nobody
        BY <1>3, <1>4, <2>2, <2>3, <3>1 DEF Found
      <4>2. CASE d = c
        BY <1>5, <1>6, <1>12, <3>1, <4>1, <4>2
      <4>3. CASE d # c
        BY <1>5, <1>6, <2>1, <2>2, <3>1, <4>1, <4>3
      <4> QED
        BY <4>2, <4>3
    <3>2. CASE q # p
      <4>1. x # o
        BY <1>3, <1>4, <2>2, <2>3, <3>2 DEF Found
      <4> QED
        BY <1>5, <1>6, <2>2, <2>3, <3>2, <4>1
    <3> QED
      BY <3>1, <3>2
  <2> QED
    BY <1>1, <2>2, <2>4 DEF Member
<1>13. Coming'
  BY <1>1, <1>12 DEF Coming
<1> QED
  BY <1>7, <1>9, <1>10, <1>11, <1>13 DEF TrackingInv

\* The server answers: everybody in the channel is to come.
LEMMA AnswerKeeps ==
  ASSUME TrackingInv, NEW c \in Chan, AnswerWho(c)
  PROVE  TrackingInv'
<1>1. /\ replies = {} /\ c \in awaited /\ awaited' = awaited \ {c}
      /\ replies' = {<<p, c, c \in opOf[p]>> : p \in {q \in Person : c \in where[q]}}
      /\ UNCHANGED <<where, nickOf, opOf, users, nick, who, chans, ops, known, members, ourselves>>
  BY DEF AnswerWho, Quiet, truth, view, objVars
<1>2. TypeOK /\ known \subseteq Chan /\ awaited \subseteq known
  BY DEF TrackingInv, TypeOK, ListsAgree
<1>3. ASSUME NEW r \in replies'
      PROVE  \E p \in Person :
               /\ c \in where[p] /\ r[1] = p /\ r[2] = c /\ (r[3] <=> c \in opOf[p])
               /\ r \in Person \X Chan \X BOOLEAN
  <2>1. PICK p \in Person : c \in where[p] /\ r = <<p, c, c \in opOf[p]>>
    BY <1>1, Zenon
  <2>2. PICK b \in BOOLEAN : b = (c \in opOf[p])
    <3>1. CASE c \in opOf[p]
      <4>1. (c \in opOf[p]) = TRUE
        BY <3>1
      <4> WITNESS TRUE \in BOOLEAN
      <4> QED
        BY <4>1
    <3>2. CASE c \notin opOf[p]
      <4>1. (c \in opOf[p]) = FALSE
        BY <3>2
      <4> WITNESS FALSE \in BOOLEAN
      <4> QED
        BY <4>1
    <3> QED
      BY <3>1, <3>2
  <2>3. r = <<p, c, b>>
    BY <2>1, <2>2, Zenon
  <2>4. r[1] = p /\ r[2] = c /\ r[3] = b /\ r \in Person \X Chan \X BOOLEAN
    BY <2>3
  <2> QED
    BY <2>1, <2>2, <2>4
<1>4. TypeOK'
  BY <1>1, <1>2, <1>3 DEF TypeOK
<1>5. BotNick' = BotNick /\ Tracked' = Tracked
  BY <1>1 DEF BotNick, Tracked
<1>6. ServerIsSound' /\ ObjectsAreSound'
  BY <1>1, <1>5 DEF TrackingInv, ServerIsSound, ObjectsAreSound
<1>7. ListsAgree'
  BY <1>1, <1>5 DEF TrackingInv, ListsAgree, Distinct
<1>8. \A q, d : Member(q, d)' <=> Member(q, d)
  BY <1>1 DEF Member
<1>9. \A r \in replies' : r[2] \in where'[r[1]] \cap known' /\ (r[3] <=> r[2] \in opOf'[r[1]])
  BY <1>1, <1>2, <1>3
<1>10. ASSUME NEW p \in Person, NEW d \in known' \ awaited', d \in where'[p]
       PROVE  (\E r \in replies' : r[1] = p /\ r[2] = d) \/ Member(p, d)'
  <2>1. CASE d = c
    <3> DEFINE r == <<p, c, c \in opOf[p]>>
    <3>1. r \in replies' /\ r[1] = p /\ r[2] = c
      BY <1>1, <1>10, <2>1
    <3> QED
      BY <2>1, <3>1
  <2>2. CASE d # c
    BY <1>1, <1>8, <1>10, <2>2 DEF TrackingInv, Coming
  <2> QED
    BY <2>1, <2>2
<1>11. Coming'
  BY <1>9, <1>10 DEF Coming
<1> QED
  BY <1>4, <1>6, <1>7, <1>11 DEF TrackingInv

\* A new connection starts with nothing.
LEMMA ReconnectKeeps ==
  ASSUME TrackingInv, Reconnect
  PROVE  TrackingInv'
<1>1. /\ replies = {} /\ replies' = {}
      /\ where' = [where EXCEPT ![Self] = {}]
      /\ opOf' = [opOf EXCEPT ![Self] = {}]
      /\ nickOf' = [nickOf EXCEPT ![Self] = BotNick]
      /\ awaited' = {} /\ users' = <<>> /\ chans' = [o \in Obj |-> {}] /\ known' = {}
      /\ members' = [c \in Chan |-> {}] /\ ourselves' = Nobody
      /\ UNCHANGED <<nick, who, ops>>
  BY DEF Reconnect, Quiet
<1>2. TypeOK /\ Self \in Person /\ nickOf[Self] = BotNick /\ BotNick' = BotNick
  BY SelfAssumption DEF TrackingInv, ServerIsSound, BotNick
<1>3. /\ nickOf' = nickOf
      /\ where' \in [Person -> SUBSET Chan] /\ opOf' \in [Person -> SUBSET Chan]
      /\ where'[Self] = {} /\ opOf'[Self] = {}
      /\ \A q \in Person \ {Self} : where'[q] = where[q] /\ opOf'[q] = opOf[q]
  BY <1>1, <1>2 DEF TypeOK
<1>4. TypeOK'
  BY <1>1, <1>2, <1>3 DEF TypeOK
<1>5. ServerIsSound'
  BY <1>2, <1>3 DEF TrackingInv, ServerIsSound
<1>6. Tracked' = {}
  BY <1>1 DEF Tracked
<1>7. ListsAgree'
  BY <1>1, <1>2, <1>3, <1>6 DEF ListsAgree, Distinct
<1>8. ObjectsAreSound' /\ Coming'
  BY <1>1, <1>6 DEF ObjectsAreSound, Coming
<1> QED
  BY <1>4, <1>5, <1>7, <1>8 DEF TrackingInv

LEMMA TrackingStarts == TrackingInit => TrackingInv
<1> SUFFICES ASSUME TrackingInit PROVE TrackingInv
  OBVIOUS
<1>1. Self \in Person /\ where[Self] = {} /\ Tracked = {}
  BY SelfAssumption DEF TrackingInit, Tracked
<1>2. TypeOK
  BY <1>1 DEF TrackingInit, TypeOK
<1>3. ServerIsSound
  BY <1>1 DEF TrackingInit, ServerIsSound
<1>4. ListsAgree
  BY <1>1 DEF TrackingInit, ListsAgree, Distinct
<1>5. ObjectsAreSound /\ Coming
  BY <1>1 DEF TrackingInit, ObjectsAreSound, Coming
<1> QED
  BY <1>2, <1>3, <1>4, <1>5 DEF TrackingInv

LEMMA TrackingSteps ==
  ASSUME Regular PROVE TrackingInv /\ [TrackingNext]_trackingVars => TrackingInv'
<1> SUFFICES ASSUME TrackingInv, [TrackingNext]_trackingVars PROVE TrackingInv'
  OBVIOUS
<1>1. ~IsFiniteSet(Obj)
  BY DEF Regular
<1>2. ASSUME NEW p \in Person, NEW c \in Chan, JoinChannel(p, c) PROVE TrackingInv'
  BY <1>1, <1>2, JoinSeen, JoinUnseen
<1>3. ASSUME NEW p \in Person, NEW c \in Chan, Part(p, c) PROVE TrackingInv'
  BY <1>3, PartUnseen, PartSelf, PartSeen
<1>4. ASSUME NEW p \in Person, NEW c \in Chan, ChangeMode(p, c) PROVE TrackingInv'
  BY <1>4, ChangeModeKeeps
<1>5. ASSUME NEW p \in Person, Quit(p) PROVE TrackingInv'
  BY <1>5, QuitKeeps
<1>6. ASSUME NEW p \in Person, NEW n \in Nick, ComeOnline(p, n) PROVE TrackingInv'
  BY <1>6, ComeOnlineKeeps
<1>7. ASSUME NEW p \in Person, NEW n \in Nick, ChangeNick(p, n) PROVE TrackingInv'
  BY <1>7, ChangeNickKeeps
<1>8. ASSUME NEW c \in Chan, AnswerWho(c) PROVE TrackingInv'
  BY <1>8, AnswerKeeps
<1>9. ASSUME NEW r \in replies, WhoReply(r) PROVE TrackingInv'
  BY <1>1, <1>9, ReplyKeeps
<1>10. ASSUME Reconnect PROVE TrackingInv'
  BY <1>10, ReconnectKeeps
<1>11. ASSUME UNCHANGED trackingVars PROVE TrackingInv'
  <2>1. UNCHANGED <<where, nickOf, opOf, awaited, replies, users, nick, who, chans, ops, known, members, ourselves>>
    BY <1>11 DEF trackingVars, truth, view, objVars
  <2>2. BotNick' = BotNick /\ Tracked' = Tracked
    BY <2>1 DEF BotNick, Tracked
  <2>3. TypeOK' /\ ServerIsSound' /\ ObjectsAreSound'
    BY <2>1, <2>2 DEF TrackingInv, TypeOK, ServerIsSound, ObjectsAreSound
  <2>4. ListsAgree' /\ Coming'
    BY <2>1, <2>2 DEF TrackingInv, ListsAgree, Distinct, Coming, Member
  <2> QED
    BY <2>3, <2>4 DEF TrackingInv
<1> QED
  BY <1>2, <1>3, <1>4, <1>5, <1>6, <1>7, <1>8, <1>9, <1>10, <1>11 DEF TrackingNext

\* With every reply in, the picture is the server's.
LEMMA PictureIsExact ==
  ASSUME TrackingInv PROVE MembersAreExact
<1>1. /\ TypeOK /\ users \in Seq(Obj) /\ Distinct(users) /\ known = where[Self] /\ known \subseteq Chan
      /\ members \in [Chan -> SUBSET Obj]
      /\ \A o \in Obj : o \in Tracked <=> chans[o] # {}
      /\ \A o \in Obj : chans[o] \subseteq known
      /\ \A o \in Obj : \A c \in Chan : o \in members[c] <=> c \in chans[o]
      /\ \A o \in Tracked : nick[o] = nickOf[who[o]] /\ chans[o] \subseteq where[who[o]]
      /\ \A o, q \in Tracked : who[o] = who[q] => o = q
      /\ \A o \in Obj : who[o] \in Person
  BY DEF TrackingInv, TypeOK, ListsAgree, ObjectsAreSound
<1>2. Cardinality(Tracked) = Len(users)
  <2> DEFINE n == Len(users)
             D == 1 .. n
  <2>1. n \in Nat /\ DOMAIN users = D /\ users \in [D -> Obj]
    BY <1>1
  <2>2. users \in Surjection(D, Tracked) /\ users \in Injection(D, Tracked)
    BY <1>1, <2>1 DEF Tracked, Surjection, Injection, IsInjective, Distinct
  <2>3. IsFiniteSet(D) /\ Cardinality(D) = IF 1 > n THEN 0 ELSE n - 1 + 1
    BY <2>1, FS_Interval
  <2>4. Cardinality(D) = n
    BY <2>1, <2>3
  <2> HIDE DEF D, n
  <2>5. Cardinality(Tracked) = Cardinality(D)
    BY <2>2, <2>3, FS_Surjection
  <2> QED
    BY <2>4, <2>5 DEF n
<1>3. ASSUME NEW c \in where[Self], Settled(c)
      PROVE  /\ \A p \in Person : c \in where[p] => \E o \in members[c] : Is(o, p)
             /\ \A o \in members[c] : \E p \in Person :
                  c \in where[p] /\ Is(o, p) /\ (c \in opOf[p] => c \in ops[o])
  <2>1. c \in Chan /\ c \in known \ awaited /\ replies = {}
    BY <1>1, <1>3 DEF Settled
  <2>2. \A o \in members[c] : o \in Obj /\ o \in Tracked /\ Is(o, who[o]) /\ c \in where[who[o]] /\ who[o] \in Person
    BY <1>1, <2>1 DEF Is
  <2>3. \A p \in Person : c \in where[p] => Member(p, c)
    BY <2>1 DEF TrackingInv, Coming
  <2>4. \A p \in Person : c \in where[p] => \E o \in members[c] : Is(o, p)
    BY <2>2, <2>3 DEF Member
  <2>5. ASSUME NEW o \in members[c]
        PROVE  \E p \in Person : c \in where[p] /\ Is(o, p) /\ (c \in opOf[p] => c \in ops[o])
    <3>1. PICK q \in members[c] : who[q] = who[o] /\ (c \in opOf[who[o]] => c \in ops[q])
      BY <2>2, <2>3, <2>5 DEF Member
    <3>2. q = o
      BY <1>1, <2>2, <2>5, <3>1
    <3> QED
      BY <2>2, <2>5, <3>1, <3>2
  <2> QED
    BY <2>4, <2>5
<1>4. \A c \in Chan : members[c] # {} => c \in known
  BY <1>1
<1> QED
  BY <1>1, <1>2, <1>3, <1>4 DEF MembersAreExact

\* For any people, channels, nicks and order of what happens: the bot has a
\* Channel exactly for the channels it is in; once the WHO it asked there has
\* been answered, their users are exactly the people in them, under the nicks
\* they have now, and the operators are known; and users and channels list
\* each other always.  So it is as long as the server does not answer a WHO
\* for a channel the bot has left, and the bot keeps its nick.
THEOREM TrackingIsExact == ASSUME Regular PROVE TrackingSpec => []MembersAreExact
<1>1. TrackingInv => MembersAreExact
  BY PictureIsExact
<1> QED
  BY <1>1, TrackingStarts, TrackingSteps, PTL DEF TrackingSpec

=============================================================================
