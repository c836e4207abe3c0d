------------------------------- MODULE Cookies -------------------------------
(***************************************************************************)
(* The cookies of the handler that fetches pages                           *)
(* (plugins/urls/handlers/website, cookiejar): one session for all sites   *)
(* and one for each group of sites, each with a jar that is loaded from a  *)
(* file and saved to it after a fetch.  A site behind a proxy gets a       *)
(* session of its own each time, with a jar of its own from the same file. *)
(*                                                                         *)
(* A cookie is a number, one site has one; a later one is greater.         *)
(* Requests run in threads, and callbacks in the reactor's.                *)
(***************************************************************************)
EXTENDS Integers, Sequences

CONSTANTS
  Site,
  JarOf,       \* JarOf[s]: the jar get_session chooses for s, or NoJar
  NoJar,       \* for a site in sessions.never
  Proxied,     \* the sites that have a proxy
  Fleeting,    \* sites that give cookies without an end, which load() drops
  MaxCookies,  \* bound: cookies sites give
  MaxJars,     \* bound: jars made between two starts of the bot
  MaxFetches   \* bound: fetches under way

Global == "global"  \* the jar of sites in no group
Jar == ({JarOf[s] : s \in Site} \cup {Global}) \ {NoJar}

ASSUME CookiesAssumption ==
  /\ Proxied \subseteq Site /\ Fleeting \subseteq Site
  /\ {MaxCookies, MaxJars, MaxFetches} \subseteq Nat /\ NoJar # Global

Mode == {"discard", "session", "update", "save"}
Cookie == 0 .. MaxCookies

VARIABLES
  mode,      \* of the jars
  cookieFile,
  jars,      \* the jars that were made: of which file, and their cookies
  shared,    \* the jar that a session uses again and again, or 0
  fetches,   \* those under way
  given,     \* cookies given by sites
  mixed      \* files of jars that were made for a proxy, or outlived a reload

cookieVars == <<mode, cookieFile, jars, shared, fetches, given, mixed>>

Cookies == [Site -> Cookie]
Fetch == [site : Site, jar : 0 .. MaxJars, answered : BOOLEAN]

\* get_cookie_jar
LoadedFrom(j) == [of |-> j, cookies |-> [s \in Site |-> IF s \in Fleeting THEN 0 ELSE cookieFile[j][s]]]

CookiesInit ==
  /\ mode = [j \in Jar |-> "save"]
  /\ cookieFile = [j \in Jar |-> [s \in Site |-> 0]]
  /\ jars = <<>> /\ shared = [j \in Jar |-> 0] /\ fetches = <<>> /\ given = 0 /\ mixed = {}

\* save, which two of the modes leave out.
SavesTo(j) == mode[j] \notin {"discard", "session"}

SaveJar(o) ==
  LET j == jars[o].of
  IN cookieFile' = IF SavesTo(j) THEN [cookieFile EXCEPT ![j] = jars[o].cookies] ELSE cookieFile

-----------------------------------------------------------------------------
\* The handler is made: reload() with nothing to tear down, and the modes of
\* the configuration.
StartSessions ==
  /\ jars = <<>>
  /\ jars' = <<LoadedFrom(Global)>>
  /\ shared' = [shared EXCEPT ![Global] = 1]
  /\ mode' \in [Jar -> Mode]
  /\ UNCHANGED <<cookieFile, fetches, given, mixed>>

\* get_session: a jar there is, or a new one, which groups share from then on.
NewGroupEachTimeBug(s) == JarOf[s] # Global

OwnJar(s) == JarOf[s] = Global /\ s \in Proxied

StartFetch(s) ==
  /\ Len(jars) \in 1 .. MaxJars - 1 /\ Len(fetches) < MaxFetches
  /\ LET j == JarOf[s]
         Begin(o) == fetches' = Append(fetches, [site |-> s, jar |-> o, answered |-> FALSE])
     IN IF j = NoJar THEN Begin(0) /\ UNCHANGED <<jars, shared>>
        ELSE IF ~OwnJar(s) /\ shared[j] # 0 THEN Begin(shared[j]) /\ UNCHANGED <<jars, shared>>
        ELSE /\ jars' = Append(jars, LoadedFrom(j))
             /\ shared' = IF OwnJar(s) THEN shared ELSE [shared EXCEPT ![j] = Len(jars')]
             /\ Begin(Len(jars'))
  /\ mixed' = IF s \in Proxied THEN mixed \cup ({JarOf[s]} \cap {Global}) ELSE mixed
  /\ UNCHANGED <<mode, cookieFile, given>>

\* set_cookie, in the thread of the request: "update" takes what is there.
Takes(o, s) ==
  \/ mode[jars[o].of] \in {"save", "session"}
  \/ mode[jars[o].of] = "update" /\ jars[o].cookies[s] # 0

\* The site answers, with a cookie or without.
SiteAnswers(i, cookie) ==
  /\ ~fetches[i].answered /\ (cookie => given < MaxCookies)
  /\ fetches' = [fetches EXCEPT ![i].answered = TRUE]
  /\ LET o == fetches[i].jar
         s == fetches[i].site
     IN IF cookie
        THEN /\ given' = given + 1
             /\ jars' = IF o # 0 /\ Takes(o, s) THEN [jars EXCEPT ![o].cookies[s] = given'] ELSE jars
        ELSE UNCHANGED <<given, jars>>
  /\ UNCHANGED <<mode, cookieFile, shared, mixed>>

\* callback, and errback: of what failed, on the way or in callback, the jar is
\* saved as well; of a page that is not read, or is at an internal address, not.
FetchEnds(i, saves) ==
  /\ saves \/ fetches[i].answered
  /\ fetches' = [n \in 1 .. Len(fetches) - 1 |-> fetches[IF n < i THEN n ELSE n + 1]]
  /\ IF saves /\ fetches[i].jar # 0 THEN SaveJar(fetches[i].jar) ELSE UNCHANGED cookieFile
  /\ UNCHANGED <<mode, jars, shared, given, mixed>>

\* reload and teardown, also by reloading the plugin: all shared jars are saved,
\* and made anew.  Fetches under way keep theirs.
ReloadSessions ==
  /\ jars # <<>> /\ Len(jars) < MaxJars
  /\ cookieFile' = [j \in Jar |->
       IF shared[j] # 0 /\ SavesTo(j) THEN jars[shared[j]].cookies ELSE cookieFile[j]]
  /\ jars' = Append(jars, [of |-> Global, cookies |->
       [s \in Site |-> IF s \in Fleeting THEN 0 ELSE cookieFile'[Global][s]]])
  /\ shared' = [j \in Jar |-> IF j = Global THEN Len(jars') ELSE 0]
  /\ mixed' = mixed \cup {jars[fetches[i].jar].of : i \in {i \in DOMAIN fetches : fetches[i].jar # 0}}
  /\ UNCHANGED <<mode, fetches, given>>

\* The bot ends; what was not saved is lost.
CookiesEnd ==
  /\ jars' = <<>> /\ shared' = [j \in Jar |-> 0] /\ fetches' = <<>> /\ mixed' = {}
  /\ UNCHANGED <<mode, cookieFile, given>>

FetchStep == \E i \in DOMAIN fetches, b \in BOOLEAN : SiteAnswers(i, b) \/ FetchEnds(i, b)

CookiesTypeOK ==
  /\ mode \in [Jar -> Mode] /\ cookieFile \in [Jar -> Cookies] /\ given \in Cookie
  /\ jars \in Seq([of : Jar, cookies : Cookies]) /\ shared \in [Jar -> 0 .. Len(jars)]
  /\ fetches \in Seq(Fetch) /\ mixed \subseteq Jar
=============================================================================
