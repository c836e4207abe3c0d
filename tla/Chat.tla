-------------------------------- MODULE Chat --------------------------------
(***************************************************************************)
(* The two plugins that hear everything people say: a message is one event *)
(* MessageReceived, which the factoids and the URLs plugin both handle, so *)
(* a factoid's text may hold links.  Their coroutines and callbacks share  *)
(* the reactor's thread.                                                   *)
(***************************************************************************)
EXTENDS Factoids, URLs, FiniteSets

CONSTANTS
  MaxInputs,  \* bound: links, requests to shorten and settings people say, and
              \* handlers and shorteners that come and go
  MaxMixed    \* bound: these and requests to factoids, where there are both

ASSUME InputsAssumption == {MaxInputs, MaxMixed} \subseteq Nat /\ UrlChan \subseteq Spot /\ InPrivate = UrlChan \cap Users

VARIABLE inputs  \* how many there were

chatVars == <<factVars, urlVars, inputs>>

ChatInit == FactInit /\ UrlInit /\ inputs = 0

\* A short command at the beginning of a message: ?? and its kin ask for what
\* fits best, the others name where they write.
ShortGet(spot) == \E key \in Key : Ask("get", "unsaid", key, spot)

ShortChange(spot) ==
  \E verb \in Verb \ {"get"}, loc \in Kept, key \in Key : Ask(verb, loc, key, spot)

\* A message with links, that may be a short command as well.
Message(spot, links) ==
  \E allowed \in BOOLEAN, short \in {0, 1} :
    /\ inputs' = inputs + Len(links)
    /\ Hear(spot, links, allowed)
    /\ IF short = 1 THEN ShortGet(spot) \/ ShortChange(spot) ELSE UNCHANGED factVars

\* A command, which no handler of MessageReceived hears.
Command(spot) ==
  /\ Quiet
  /\ \E verb \in Verb, loc \in Location, key \in Key : Ask(verb, loc, key, spot)
  /\ UNCHANGED <<urlVars, inputs>>

Change == (PluginStep \/ CommandStep) /\ inputs' = inputs + 1 /\ UNCHANGED factVars

\* Requests to factoids are bounded by MaxTasks.
WithinBounds ==
  /\ inputs' <= MaxInputs
  /\ tasks' # <<>> /\ inputs' # 0 => Len(tasks') + inputs' <= MaxMixed

Say ==
  \/ \E spot \in UrlChan, u, v \in Url : Message(spot, <<u>>) \/ Message(spot, <<u, v>>)
  \/ \E spot \in Spot : Command(spot)
  \/ Change

ChatNext ==
  \/ Say /\ WithinBounds
  \/ FactStep /\ UNCHANGED <<urlVars, inputs>>
  \/ (RunStep \/ ShortenStep) /\ UNCHANGED <<factVars, inputs>>

\* The reactor goes on, and every request to the network and every handler
\* ends, in one way or another, as long as the plugin's resolver is there.
ChatFairness ==
  \A i \in 1 .. MaxRuns :
    WF_chatVars(active /\ i \in DOMAIN runs /\ (Check(i) \/ Answered(i) \/ Arrived(i) \/ Match(i) \/ Called(i))
            /\ UNCHANGED <<factVars, inputs>>)

ChatSpec == ChatInit /\ [][ChatNext]_chatVars /\ ChatFairness

ChatTypeOK == FactTypeOK /\ UrlTypeOK

-----------------------------------------------------------------------------
(***************************************************************************)
(* Properties of the factoids and the links.                               *)
(***************************************************************************)
Changes(i, r) ==
  /\ tasks[i].verb # "get" /\ tasks[i].outcome \in {"pending", "ok", "missing"}
  /\ IF tasks[i].verb = "delete"
       THEN /\ r[1] = tasks[i].key /\ r[2] = tasks[i].loc /\ r[3] = tasks[i].spot[1]
            /\ r[2] = "channel" => r[4] = tasks[i].spot[2]
       ELSE r = <<tasks[i].key, tasks[i].loc, tasks[i].spot[1], tasks[i].spot[2]>>

\* What the changes of a row that were carried out make of it, in the order
\* in which they were asked for.
CarriedOut(r) ==
  LET after[i \in 0 .. Len(tasks)] ==
        IF i = 0 THEN <<>>
        ELSE IF ~Changes(i, r) \/ tasks[i].outcome = "pending" THEN after[i - 1]
        ELSE CASE tasks[i].verb = "add" -> Append(after[i - 1], i)
               [] tasks[i].verb = "set" -> <<i>>
               [] tasks[i].verb = "delete" -> <<>>
  IN after[Len(tasks)]

\* Changes of a row that do not overlap all take effect, each on the result of
\* the one before, whatever runs next to them in the thread pool: the caller
\* that has been told of a change finds it.
ChangesTakeEffect ==
  \A r \in Row :
    (\A i, j \in DOMAIN tasks : i < j /\ Changes(i, r) /\ Changes(j, r) => i \in tasks[j].after)
    => rows[r] = CarriedOut(r)

\* An answer holds what was written for one place that the one who asked may
\* see from where they are: for their channel of their protocol, for their
\* protocol, or for everywhere.
AnswersAreVisible ==
  \A g \in DOMAIN tasks :
    tasks[g].verb = "get" /\ tasks[g].outcome = "ok" =>
      \E loc \in Kept :
        \A n \in DOMAIN tasks[g].lines :
          LET by == tasks[tasks[g].lines[n]]
          IN /\ by.loc = loc /\ by.key = tasks[g].key
             /\ loc = "channel" => by.spot = tasks[g].spot
             /\ loc = "protocol" => by.spot[1] = tasks[g].spot[1]

\* A link that had been shortened when somebody asked is not shortened again,
\* and everybody gets the same result from the same shortener: also of two
\* results for one link, stored by requests that overlapped.
ShortOnce ==
  \A i \in DOMAIN shortens :
    shortens[i].stage = "over" /\ shortens[i].known # 0 => shortens[i].answer = shortens[i].known

\* The handling of a message with links ends while the plugin is active, even
\* if its links redirect in a circle and handlers fail, come and go.
EveryMessageEnds ==
  \A i \in 1 .. MaxRuns : i \in DOMAIN runs ~> ~active \/ (i \in DOMAIN runs /\ runs[i].stage = "over")
=============================================================================
