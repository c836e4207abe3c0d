-------------------------------- MODULE URLs --------------------------------
(***************************************************************************)
(* The URLs plugin (plugins/urls): links in messages are followed through  *)
(* redirects, kept as the last link of their channel and given to handlers *)
(* in the order of their priorities; the one that ships fetches the page   *)
(* and tells its title.  A message's handler is a coroutine of the reactor *)
(* thread, which waits for the network between its steps, so messages      *)
(* overlap.  Links are also shortened, once per shortener: the results are *)
(* kept in a database.                                                     *)
(***************************************************************************)
EXTENDS Integers, Sequences, SequencesExt

CONSTANTS
  Url,           \* links
  Redirects,     \* the links whose domain is in redirects.domains
  Leads,         \* where the server of a link redirects to, if it does; external
  MaxRedirects,  \* redirects.max
  Blacklisted,   \* links that match the blacklist
  UrlChan,       \* channels, and people who talk to the bot in private:
  InPrivate,     \* these are no channels
  Handler,       \* names of handlers
  Website,       \* the handler that ships
  Priority,      \* Priority[h]; Website has the lowest
  Shortener,     \* names of shorteners
  Tinyurl,       \* the one that ships
  MaxShorten,    \* bound: requests to shorten
  MaxRuns,       \* bound: messages with links
  NoUrl

\* What may become of a call of a handler.
CallResult == {"no match", "cascade", "stop", "exception"}

ASSUME UrlAssumption ==
  /\ InPrivate \subseteq UrlChan
  /\ Redirects \subseteq Url /\ Blacklisted \subseteq Url /\ Leads \in [Url -> Url]
  /\ Website \in Handler /\ Tinyurl \in Shortener /\ NoUrl \notin Url
  /\ Priority \in [Handler -> Int] /\ MaxRedirects \in Nat

VARIABLES
  active,      \* the plugin has not been deactivated
  handlers,    \* URLsPlugin.handlers: the list of each priority
  shorteners,  \* URLsPlugin.shorteners
  channels,    \* channels.yml: status, last link and shortener; who has no
               \* entry has what ensure_channel would write
  runs,        \* the coroutines of message_handler and run_handlers
  cache,       \* table urls, in the order of its rows
  inserts,     \* rows a thread of the pool has yet to insert
  shortens     \* the requests to shorten so far

urlVars == <<active, handlers, shorteners, channels, runs, cache, inserts, shortens>>

Priorities == {Priority[h] : h \in Handler}
Setting == [on : BOOLEAN, last : Url \cup {NoUrl}, shortener : Shortener]
Run ==
  [chan : UrlChan, todo : Seq(Url), url : Url \cup {NoUrl}, redirects : 0 .. MaxRedirects,
   stage : {"checking", "redirecting", "found", "matching", "calling", "over"},
   prios : SUBSET Priorities,  \* those to come, the present one included
   inside : BOOLEAN,           \* the list of the present one has been taken
   next : Nat,                 \* index into it
   handler : Handler \cup {NoUrl}]  \* the one that is waited for
Stored == [url : Url, shortener : Shortener, short : Nat]
Shorten ==
  [url : Url, shortener : Shortener, stage : {"looking", "asking", "over", "failed"},
   known : Nat, answer : Nat]  \* 0 is nothing

UrlInit ==
  /\ active = TRUE
  /\ handlers = [p \in Priorities |-> IF p = Priority[Website] THEN <<Website>> ELSE <<>>]
  /\ shorteners = {Tinyurl}
  /\ channels = [c \in UrlChan |-> [on |-> TRUE, last |-> NoUrl, shortener |-> Tinyurl]]
  /\ runs = <<>>
  /\ cache = <<>>
  /\ inserts = {}
  /\ shortens = <<>>

-----------------------------------------------------------------------------
\* The reactor's thread is not inside a coroutine.
Quiet == \A i \in DOMAIN runs : runs[i].stage \in {"redirecting", "calling", "over"}

Highest(P) == CHOOSE p \in P : \A q \in P : q <= p

AtLink(run, stage, url, todo) ==
  [run EXCEPT !.stage = stage, !.url = url, !.todo = todo, !.redirects = 0,
              !.prios = {}, !.inside = FALSE, !.next = 1, !.handler = NoUrl]

\* A run goes to its next link, or is over.
NextLink(run) ==
  IF run.todo = <<>> THEN AtLink(run, "over", NoUrl, <<>>)
  ELSE AtLink(run, "checking", Head(run.todo), Tail(run.todo))

\* A return or an exception leaves the other links of the message alone.
Dropped(run) == AtLink(run, "over", NoUrl, <<>>)

StepsTo(i, run) ==
  /\ runs' = [runs EXCEPT ![i] = run]
  /\ UNCHANGED <<active, handlers, shorteners, cache, inserts, shortens>>

NewRun(c, links) ==
  NextLink([chan |-> c, todo |-> links, url |-> NoUrl, redirects |-> 0,
            stage |-> "checking", prios |-> {}, inside |-> FALSE, next |-> 1,
            handler |-> NoUrl])

\* message_handler up to its first link, if the author of the message has the
\* permission urls.trigger.
Hear(c, links, allowed) ==
  /\ active /\ Quiet /\ Len(runs) < MaxRuns
  /\ runs' = IF allowed /\ channels[c].on THEN Append(runs, NewRun(c, links)) ELSE runs
  /\ UNCHANGED <<active, handlers, shorteners, channels, cache, inserts, shortens>>

-----------------------------------------------------------------------------
\* The loop over redirects, up to a request or past its end.
Follows(run) == run.url \in Redirects /\ run.redirects < MaxRedirects

ForgetsToCountBug(run) == run.redirects

Counted(run) == run.redirects + 1

Check(i) ==
  /\ runs[i].stage = "checking"
  /\ StepsTo(i, IF Follows(runs[i])
                  THEN [runs[i] EXCEPT !.stage = "redirecting", !.redirects = Counted(runs[i])]
                  ELSE [runs[i] EXCEPT !.stage = "found"])
  /\ UNCHANGED channels

\* The server of the link answers: with a redirect, with a page, or not.
Answered(i) ==
  /\ runs[i].stage = "redirecting" /\ Quiet
  /\ \/ StepsTo(i, [runs[i] EXCEPT !.stage = "checking", !.url = Leads[runs[i].url]])
     \/ StepsTo(i, [runs[i] EXCEPT !.stage = "found"])
     \/ StepsTo(i, Dropped(runs[i]))
  /\ UNCHANGED channels

\* "last" is set before run_handlers looks at the blacklist.
Arrived(i) ==
  /\ runs[i].stage = "found"
  /\ IF runs[i].redirects >= MaxRedirects
       THEN StepsTo(i, Dropped(runs[i])) /\ UNCHANGED channels
       ELSE /\ channels' = IF runs[i].chan \in InPrivate THEN channels
                            ELSE [channels EXCEPT ![runs[i].chan].last = runs[i].url]
            /\ StepsTo(i, IF runs[i].url \in Blacklisted THEN NextLink(runs[i])
                          ELSE [runs[i] EXCEPT !.stage = "matching", !.prios = Priorities])

-----------------------------------------------------------------------------
\* run_handlers walks over the lists themselves.  A list is taken when its
\* turn comes, and after deactivate() there are new, empty ones.
List(run) ==
  IF active \/ run.inside THEN handlers[Highest(run.prios)] ELSE <<>>

NextList(run) ==
  IF run.prios = {Highest(run.prios)} THEN NextLink(run)
  ELSE [run EXCEPT !.prios = @ \ {Highest(@)}, !.inside = FALSE, !.next = 1]

NextHandler(run) == 
  [run EXCEPT !.stage = "matching", !.inside = TRUE, !.next = @ + 1, !.handler = NoUrl]

\* An exception that match() or call() raises is logged, and the next handler
\* comes; the Deferred they return raises its failure at the yield, outside
\* of the try, and nothing catches it.
AfterWaiting(run, result) ==
  CASE result = "stop" -> NextLink(run)
    [] result = "exception" -> Dropped(run)
    [] OTHER -> NextHandler(run)

AfterCall(run, result) == IF result = "stop" THEN NextLink(run) ELSE NextHandler(run)

\* The handler that ships stops, or does not match; its call always waits,
\* for the address of the host; the page is fetched later, by itself.
MayResult(h) == IF h = Website THEN {"stop", "exception"} ELSE CallResult
MayReturn(h) == IF h = Website THEN {"no match"} ELSE CallResult

Match(i) ==
  /\ runs[i].stage = "matching"
  /\ LET run == runs[i]
         list == List(run)
     IN \/ run.next > Len(list) /\ StepsTo(i, NextList(run))
        \/ /\ run.next <= Len(list)
           /\ \E result \in MayReturn(list[run.next]) : StepsTo(i, AfterCall(run, result))
        \/ /\ run.next <= Len(list)
           /\ StepsTo(i, [run EXCEPT !.stage = "calling", !.inside = TRUE,
                                   !.handler = list[run.next]])
  /\ UNCHANGED channels

\* What a handler waited for has come.
Called(i) ==
  /\ runs[i].stage = "calling" /\ Quiet
  /\ \E result \in MayResult(runs[i].handler) : StepsTo(i, AfterWaiting(runs[i], result))
  /\ UNCHANGED channels

\* add_handler and remove_handler, by plugins that come and go.
AddHandler(h) ==
  /\ active /\ Quiet
  /\ h \notin Range(handlers[Priority[h]])
  /\ handlers' = [handlers EXCEPT ![Priority[h]] = Append(@, h)]
  /\ UNCHANGED <<active, shorteners, channels, runs, cache, inserts, shortens>>

RemoveHandler(h) ==
  /\ active /\ Quiet
  /\ h \in Range(handlers[Priority[h]])
  /\ handlers' = [handlers EXCEPT ![Priority[h]] = Remove(@, h)]
  /\ UNCHANGED <<active, shorteners, channels, runs, cache, inserts, shortens>>

Deactivate ==
  /\ active /\ Quiet
  /\ active' = FALSE
  /\ UNCHANGED <<handlers, shorteners, channels, runs, cache, inserts, shortens>>

-----------------------------------------------------------------------------
\* The urls command: status and shortener of a channel.
SetStatus(c, on) ==
  /\ active /\ Quiet /\ c \notin InPrivate
  /\ channels' = [channels EXCEPT ![c].on = on]
  /\ UNCHANGED <<active, handlers, shorteners, runs, cache, inserts, shortens>>

SetShortener(c, s) ==
  /\ active /\ Quiet /\ c \notin InPrivate
  /\ s \in shorteners
  /\ channels' = [channels EXCEPT ![c].shortener = s]
  /\ UNCHANGED <<active, handlers, shorteners, runs, cache, inserts, shortens>>

\* add_shortener and remove_shortener, by other plugins.
AddShortener(s) ==
  /\ active /\ Quiet
  /\ shorteners' = shorteners \cup {s}
  /\ UNCHANGED <<active, handlers, channels, runs, cache, inserts, shortens>>

RemoveShortener(s) ==
  /\ active /\ Quiet
  /\ shorteners' = shorteners \ {s}
  /\ UNCHANGED <<active, handlers, channels, runs, cache, inserts, shortens>>

\* The first row of a link and a shortener; 0 if there is none.
LatestRowBug(u, s) ==
  LET at == {i \in DOMAIN cache : cache[i].url = u /\ cache[i].shortener = s}
  IN IF at = {} THEN 0 ELSE cache[CHOOSE i \in at : \A j \in at : i >= j].short

LookUp(u, s) ==
  LET at == {i \in DOMAIN cache : cache[i].url = u /\ cache[i].shortener = s}
  IN IF at = {} THEN 0 ELSE cache[CHOOSE i \in at : \A j \in at : i <= j].short

\* get_shortener, with the shipped default.
ShortenerOf(c) ==
  IF c \notin InPrivate /\ channels[c].shortener \in shorteners THEN channels[c].shortener ELSE Tinyurl

\* shorten_command: in a channel for its last link or one that is given, but
\* not before somebody has linked something there.
AskToShorten(c, u) ==
  /\ active /\ Quiet /\ Len(shortens) < MaxShorten
  /\ c \in InPrivate \/ channels[c].last # NoUrl
  /\ ShortenerOf(c) \in shorteners
  /\ shortens' = Append(shortens, [url |-> u, shortener |-> ShortenerOf(c), stage |-> "looking",
                                   known |-> LookUp(u, ShortenerOf(c)), answer |-> 0])
  /\ UNCHANGED <<active, handlers, shorteners, channels, runs, cache, inserts>>

ShortenSteps(i, stage, answer) ==
  /\ shortens' = [shortens EXCEPT ![i].stage = stage, ![i].answer = answer]
  /\ UNCHANGED <<active, handlers, shorteners, channels, runs, cache>>

\* The SELECT, and what shorten() makes of its result.  If it fails, so does
\* the request, without an answer.
Look(i) ==
  LET s == shortens[i]
      short == LookUp(s.url, s.shortener)
  IN /\ s.stage = "looking"
     /\ \/ ShortenSteps(i, IF short = 0 /\ s.shortener \in shorteners THEN "asking" ELSE "over", short)
        \/ ShortenSteps(i, "failed", 0)
     /\ UNCHANGED inserts

\* The shortener answers, or fails; nothing waits for the INSERT.
Shortened(i) ==
  /\ shortens[i].stage = "asking" /\ Quiet
  /\ \/ /\ ShortenSteps(i, "over", i)
        /\ inserts' = inserts \cup {[url |-> shortens[i].url, shortener |-> shortens[i].shortener, short |-> i]}
     \/ ShortenSteps(i, "over", 0) /\ UNCHANGED inserts

Store(row) ==
  /\ inserts' = inserts \ {row}
  /\ cache' \in {cache, Append(cache, row)}  \* it may fail
  /\ UNCHANGED <<active, handlers, shorteners, channels, runs, shortens>>

-----------------------------------------------------------------------------
RunStep == \E i \in DOMAIN runs : Check(i) \/ Answered(i) \/ Arrived(i) \/ Match(i) \/ Called(i)

PluginStep ==
  \/ \E h \in Handler : AddHandler(h) \/ RemoveHandler(h)
  \/ \E s \in Shortener : AddShortener(s) \/ RemoveShortener(s)
  \/ Deactivate

ShortenStep ==
  \/ \E i \in DOMAIN shortens : Look(i) \/ Shortened(i)
  \/ \E row \in inserts : Store(row)

CommandStep ==
  \E c \in UrlChan :
    \/ \E on \in BOOLEAN : SetStatus(c, on)
    \/ \E s \in Shortener : SetShortener(c, s)
    \/ \E u \in Url : AskToShorten(c, u)

UrlTypeOK ==
  /\ active \in BOOLEAN
  /\ handlers \in [Priorities -> Seq(Handler)]
  /\ shorteners \subseteq Shortener
  /\ channels \in [UrlChan -> Setting]
  /\ runs \in Seq(Run)
  /\ cache \in Seq(Stored) /\ inserts \subseteq Stored
  /\ shortens \in Seq(Shorten)
=============================================================================
