# A formal model of Ultros

Ultros is a chat bot in Python 2 on Twisted: it connects to IRC and Mumble
servers, and plugins give it commands and reactions.  These modules model the
parts of it whose state changes are hard to test: what happens when callbacks,
commands, signals, drops, retries, crashes and slow requests come in an order
nobody planned for.

## The system

Everything but a few helper threads runs on one Twisted reactor thread.  A
handler runs to its end before another starts, so interleaving happens between
handlers, at every `yield` of an `inlineCallbacks` function, and in the thread
pools of the factoids' database, the metrics and the pages that are fetched.
The package manager is a program of its own.

| Component (source) | State | Operations | Talks to |
|---|---|---|---|
| Factory manager (`system/factory_manager.py`, `system/core.py`) | `factories`, `running` | setup, run, load/unload/reload protocol, unload, signal | factories, plugin manager, storage |
| Factories (`system/protocols/generic/factory.py`, `irc/factory.py`, `mumble/factory.py`) | `protocol`, `reconnection_attempts`, `task`, `shutting_down` | connect, buildProtocol, clientConnected/Failed/Lost, maybe_reconnect, shutdown | Twisted connector, factory manager |
| Plugin manager and loaders (`system/plugins/`) | `info_objects`, `plugin_objects`, `loaders` | scan, load, unload, reload, all at once | plugins, commands, events, storage |
| Event manager (`system/events/`) | `callbacks` | add, remove, run | every protocol and plugin |
| Command manager (`system/commands/manager.py`) | `commands`, `aliases`, the auth and permissions handlers | register, unregister, process_input, run_command | auth, permissions, events |
| Rate limiters (`system/decorators/ratelimit.py`, `utils/ratelimit.py`) | allowance, queue, looping call; tokens | call, update | commands |
| Storage manager (`system/storage/manager.py`, `files.py`) | open files and their owners | get_file, release_file, release_files | every component with a file |
| Data and config files (`system/storage/data.py`, `config.py`) | contents, mutex, context flag | load, save, reload, `with`, write | the file system, callbacks |
| IRC protocol (`system/protocols/irc/`) | users, channels, ranks, ourselves; sign-on and rejoin timers; the CTCP counter | one handler per IRC message | events, commands |
| Mumble protocol (`system/protocols/mumble/`) | users, channels, ACLs, ourselves; the receive buffer, pings, statistics | one handler per protobuf message | events, commands |
| Auth (`plugins/auth/auth_handler.py`, `__init__.py`) | passwords, logins, blacklist | register, login, logout, passwd, checks | commands, data files |
| Permissions (`plugins/auth/permissions_handler.py`) | users, groups, inheritance | check, edit | commands, auth |
| Bridge (`plugins/bridge/`) | rules | relay messages, actions, joins, parts, kicks, quits | protocols, events |
| Factoids (`plugins/factoids/`) | a database | add, set, delete, get | permissions, a thread pool |
| URLs (`plugins/urls/`) | handlers, shorteners, last links, a database of short links, sessions and cookies | follow, handle, shorten | events, sites, threads |
| Metrics (`system/metrics/`) | a setting, an ID and a status on disk | start, submit, end | a web site, a thread pool |
| Package manager (`packages.py`, `utils/packages/`) | packages.yml, downloaded files, ETags | install, update, uninstall | a web site |
| Management, control, pages, dialectizer, debug | settings | commands that call the managers | the managers |
| Logging, console, help, tokens, translations, launcher, Opus | | I/O, formatting, foreign functions | |

What makes each component correct, where it is hard:

| Component | Hard behaviour | Properties that make it correct |
|---|---|---|
| Factory manager, factories | retries, drops, shutdowns and reloads in any order; callbacks of a factory that was already replaced | a retry is only ever pending on a live, disconnected factory; no live factory is left idle; a retired one stays down; limits end |
| Plugin manager | `yield` in set-up and deactivation, while other operations run; the order in which plugins are loaded | the table, the commands and the events agree; dependencies come first; a shutdown ends |
| Events, commands | handlers and commands added and removed while plugins come and go, cancelled and failing handlers, shared aliases | a message is heard once by everybody or consumed; commands and aliases lead to who registered them |
| Bridge | rules that form a circle, what the bot says is an event again | a message is relayed once by a rule, and never back |
| IRC, Mumble tracking | messages about users not known yet; reconnections | what is tracked is what the server has |
| IRC sessions | SASL, kicks, drops while sign-on and rejoin timers run | the bot gets where it should be and nowhere else |
| CTCP limit | a window that is counted from its last reset | a flood is cut off |
| Mumble sessions | frames in pieces, handlers that raise, a shutdown before sign-on | every frame is handled once, in order |
| Storage, data files | two owners, nested blocks, a full disk, edits by hand, a crash in a save | what is shared is what the file says |
| Auth | several files per command; crashes | a confirmed password works; files agree; sessions belong to accounts |
| Permissions | groups that inherit in chains and cycles; denials; places | a check is reachability over the groups, less what is denied |
| Factoids | queries that overlap on a thread pool | changes take effect; answers are what one may see |
| URLs | redirects in a circle, handlers and shorteners that come and go during requests | handling ends; a link is shortened once |
| Cookies | one file shared by sessions, fetches that overlap | a file never goes back to an older cookie |
| Metrics | lost answers, reports that overlap | what the bot has recorded of the site is true |
| Packages | downloads cut off, runs killed, nested requirements | a file that is passed over is current; requirements come first |

## The modules

A module that ends in `Props` extends its component and holds properties only,
one in `Proofs` the theorems, and `MC*` gives TLC an instance.  Where there is no
`Props`, the module ends with its properties, and one that composes others with the
properties of what it composes.

| Module | Role | Composed in |
|---|---|---|
| `Connection`, `ConnectionProps`, `ConnectionProofs` | factory manager and factories | |
| `Supervisor` | what reconnection promises, without names, tables, timers or callbacks; `Connection` refines it | |
| `Plugins`, `PluginsProps`, `PluginsProofs` | plugin operations and registrations | `Loading` |
| `PluginOrder` | the order `load_plugins` computes | `Loading` |
| `Loading` | ordering, then loading in that order | |
| `Messages`, `MessagesProps`, `MessagesProofs` | protocols, events, commands, auth and the bridge, around one message | |
| `IRCTracking` | users, channels and operators, next to the server's; its proofs are in `SessionsProofs` | |
| `MumbleTracking`, `MumbleTrackingProps`, `MumbleTrackingProofs` | users and channels, next to the server's | |
| `IRCSession`, `CTCP`, `MumbleSession` | what the protocols do by themselves on a connection | `Sessions` |
| `Sessions`, `SessionsProofs` | the three, each behaviour running one | |
| `Accounts`, `AccountsProofs` | auth's files, sessions and commands | |
| `Permissions`, `PermissionsProps`, `PermissionsProofs` | entries, edits and `check()`; whom the graph of groups lets do what | |
| `Factoids`, `URLs` | the plugins that hear every message | `Chat` |
| `Chat` | both, on one event and one thread; its proofs are in `PluginsProofs` | |
| `Storage` | the storage manager and the files it gives out | `Files` |
| `Metrics`, `Packages`, `Cookies` | others that keep files | `Files` |
| `Files`, `FilesProofs` | what is on disk, through ends of the bot at any step | |

Components meet where the code lets them: a plugin's set-up in `Plugins`
registers commands and events, whose dispatch is in `Messages`; `unload` of the
factory manager appears in `Plugins` as the operation that unloads every plugin and
stops the reactor; `Messages` asks a permissions handler, whose answers
are `Permissions`; the saves of `Accounts` are the blocks of `Storage` seen
from closer, with a crash inside a save; a factoid's message in `Chat` may hold links.

### Connection

A factory is `<<name, generation>>`: one `Factory` object that was made for a
protocol name.  `link[f]` is the state of its Twisted connector (with
"closing" for a transport told to close), `timer[f]` the `DelayedCall` that
`maybe_reconnect` keeps in `task`, `attempts[f]`, `shuttingDown[f]` and
`protocol[f]` the attributes of those names.  `table` is `factories`,
`unloading` the manager inside `unload`, between the protocols and
`reactor.stop`.  There is one action per thing the reactor can call: the four
connector callbacks, the timer, a sign-on, the commands that load, unload and
reload a protocol, `setup`, `run`, and a signal.  An action is the whole
callback: `ConnectionFailed` contains `maybe_reconnect`, `UnloadProtocol` the
factory's and the protocol's `shutdown`.  Reading options follows the code, not
the example file (see *Disagreements*).

### Plugins, PluginOrder, Loading

An operation is an `inlineCallbacks` function; `op[p]` is its kind, its plugins
left and the Deferred it `waits` for.  `Progress` runs an operation from one
`yield` to the next.  `objects` is `plugin_objects`, `command[n]` and
`handler[n]` who holds the command and the event handler of plugin `n`:
commands are removed by owner, handlers by plugin name.  A `setup()` goes through what
`Registers` has for its name, one registration per step: a command that is taken is
refused with a warning, a handler that is taken raises, and between any two the
set-up may raise, wait for a Deferred or give up.  What it has registered stays if it
raises.  One command and one handler stand for any number of each; a plugin may have
either, both in any order, or none.  An object is `<<name, generation>>`, and a new one
takes the smallest generation that is free.  `PluginOrder` is the loop of
`load_plugins` over `to_load`, with its passes as steps; its result is compared to a
definition without passes: what is below a plugin is the least set that is closed under
dependencies.  `Loading` runs the order first and goes on to
`Plugins` with what came out of it.

### Messages

`stack` holds the dispatches that are under way, as one call is inside another: a
message that arrives is `PreMessageReceived`, then `PreCommand` and a command or
not, then `MessageReceived`; a handler or a command that answers sends, and
what is sent is an event again.  A frame of the stack is an event, the handlers that
are left of its list, and whether it is cancelled; a step calls one handler or passes
it over.  Handlers may raise, cancel, rewrite, answer and relay
(by `Rule`), and a command may load or unload a plugin.  The registry is
`callbacks`, `commands`, `aliases` and `perms`.  A load is one step here and ends in one of
three ways: with everything registered (`whole`), with any part of it because `setup()`
raised, or with nothing because it gave up.  What a set-up that raised leaves is known by
`orphans` (its commands, which an unload by owner does not find), `strays` (its handlers,
which one by name does) and `perms = "orphan"`.  Which registrations come before the one
that raises is any subset here, where a plugin has an order; auth's other handler,
`set_auth_handler`, is only what makes a set-up give up.  `heard` and `lines` are history
variables: whose handlers got the message, and what was sent by which rule.

### IRCTracking

The server's truth (`nickOf`, `where`, `opOf`) and the bot's tables are
both variables.  Something that happens on the server and the handler of its
message are one step, as a stream keeps its order and a handler ends before
the next; only the WHO that the bot asks is answered later, one reply per
person.  `User` objects are numbers, as the code mutates them in place and may
hold objects that are no longer in `users`.

### MumbleTracking

`channels`, `users` and their members are indexed by class: in the code they are
attributes of the class `Protocol`, shared by its instances.  They only start
empty because a factory reloads the protocol's module, which makes a new class,
from its second build on.  The first messages of a server are steps of their own;
a later change and its handler are one.

### IRCSession, CTCP, MumbleSession

`IRCSession` has the connection, the SASL exchange, and the timers as a set of
calls with the connection each belongs to: two five seconds after the welcome
and one after a kick.  `sasl` says what the server has made of the negotiation; it waits for
`CAP END` once it has taken notice of `CAP REQ`, also of a capability or a login it has
refused.  `refused` has the channels that it did not let the bot into when last asked.  They are not cancelled when the connection is lost, and each
connection has a protocol object of its own.  Lines that are queued by the rate limit
reach the server in order or are lost.  `CTCP` keeps times as ages, so that there is
no clock to bound.  In `MumbleSession` a stream of frames arrives in pieces
and `dataReceived` goes through its loop step by step, as handlers may raise or
close the connection in the middle of it; pings, statistics and the configured channel
are part of its state, with no property of their own.

### Accounts

`mem` and `disk` are passwords.yml, permissions.yml and blacklist.yml in memory
and in their files.  Every `with data:` block saves, whether anything changed or
not, and a save truncates the file before it writes it: a command is one step
in memory and a queue of saves of two steps each, and the bot may crash before any
of them.  `told`, `given`, `inFlight` and `cut` are history variables: what has been
confirmed, what was shown in a channel, which command runs, whether a crash
cut one short.

### Permissions

An entry of a group or user maps places (everywhere, a protocol, a source of one) to
nodes.  A node is what a line of the file does: the names that match it and
whether it denies.  `Visited` is the recursion of `check` over groups with the
set it has been to, as a function on the number of calls; the operations that edit
are actions with the lookups, guards and wrong keys of the code.  A
hand-written file is a choice among `Files`.  `PermissionsProps` says who may do what
without a walk: the groups a permission may come from are the least set that is closed
under inheritance.

### Factoids, URLs, Chat

A request to the factoids is a record in `tasks`, whose queries are steps of the
thread pool and whose answer is one of the reactor.  A row's lines are the numbers of
the requests that wrote them.  In `URLs`, `runs` are the coroutines of messages, one
step from one `yield` to the next (redirect, handler, answer), `shortens` those of the
`shorten` command; handlers and shorteners are added and removed between steps.

### Storage, Metrics, Packages, Cookies, Files

`objects` are the Python objects the storage manager has made, `tracked` those it
gives out now; a holder keeps an object after it is released.  The contents of a
file are a number, the change it has seen last, or empty, broken or missing.
A `with` block is one step with the save at its end, which may fail.
`Metrics` has the settings, the looping call, the reports on
threads and what the web site holds.  `Packages` is a run of the package manager
with a stack of requirements and the files still to download.
`Cookies` has jars as objects, the files they are saved to, and fetches that hold
them.  `Files` adds the end of the bot at any step.

## The runs

| Run | Instance | Shows |
|---|---|---|
| `conn_safety` | an irc factory with a limit of 1 and a mumble one without limit, two Factory objects each | `RetryIsSafe`, `NeverStranded`, `TableIsCurrent`, `RetiredStaysDown` |
| `conn_live` | one network with a limit of 2, fair | `ImplementsSupervisor`: the factories refine `Supervisor`; `RetryHappens`, `NoEndlessRetries` |
| `plug_safety` | all lists of up to three of three plugins, all dependencies, up to one mismatch of versions; then two of the plugins, one depending on the other and slow to set up, one registering its command first and one its handler; three operations, three objects a name | `DependenciesComeFirst`, `FindsAllLoadable`; `LoadedKeepsRegistrations`, `TableIsExact` |
| `plug_live` | two plugins, one slow to set up, with a command only and depending on the other, which is slow to deactivate and may give up; two operations; fair | `UnloadedOwnsNothing`; `ShutdownStops` |
| `irc_tracking` | the bot, two people and two channels, or three people and one | `MembersAreExact`: what is tracked is what the server has, once WHO is answered |
| `mumble_tracking` | three sessions, three people, two channels, reconnections and reloads | `MembersAgree`, always; `UsersAreExact`, `ChannelsAreFound` on every connection but a factory's first |
| `sessions` | two IRC connections that sign on with SASL, a line or neither, three channels, one with a key and one not listed; CTCP requests with a limit of 2 in 3; three frames of seven kinds; fair | `OnlyWherePut`, `FloodsAreCutOff`, `FramesAreHandledOnce`, `SettlesIn` |
| `messages` | five plugins, of which one may raise in its set-up and one give up, two protocols with two channels each and private, four rules of which two form a circle, aliases that two plugins want | `HeardOnceOrConsumed`, `RegistryIsExact`, `RelayedOnce` |
| `accounts` | two accounts, two people, two passwords, crashes | `ConfirmedPasswordsWork`, `FilesAgree`, `SessionsAreExact`, `ChannelPasswordsAreRefused` |
| `permissions` | three groups, two accounts, two protocols and a channel, from no file, a chain with a denial, and a cycle with an empty section; two edits | `AnswersFollowTheGraph`, `EditsAreMonotone` |
| `chat` | two requests to factoids in three places; a link that redirects to itself; two handlers, two shorteners; fair | `ChangesTakeEffect`, `AnswersAreVisible`, `ShortOnce`, `EveryMessageEnds` |
| `files` | two plugins with two data files and a configuration; two reports; four packages with requirements that nest and refer to themselves; five sites, one behind a proxy; the bot or the package manager killed at any step | `SharedIsOnDisk`, `SiteKnows`, `SkippedIsCurrent`, `RequirementsComeFirst`, `CookiesAreKept` |

Every run passes.  Each property has a mutant in `PROJECT.json`, a definition of the
model changed as a bug would change the code, that breaks it; definitions whose
names end in `Bug` are only used there.

### Bounds

- `Generation` bounds the objects made for one name.  Two are enough for the
  question that matters, what an old object does next to its replacement;
  `plug_safety` has three, so that each of three operations may make one.
- `AttemptCap` bounds callbacks that fail or drop a connection when the factory
  has no limit; it is one above every limit used.
- `Op` bounds operations at one time.  Three where nothing else is large, as the
  hazards need one operation that waits, one that undoes what it waits for and one
  that does it again; two with two plugins.
- `MaxList`: lists of three hold every way two plugins can depend on each other next
  to a third, and the same plugin listed twice.
- `Loading` goes on only with the list that is in order already: other lists with the
  same result would start the same behaviours again.
- `Obj` (IRC) is the number of `User` objects alive together.  `OneAtATime`
  leaves the third person out while there is a second channel.  Two people
  and two channels give every order of joining, parting and WHO; the third
  person is there for a nick that changes hands.  `LateWho` is false: a WHO that is
  answered after the bot has left a channel leaves users behind (*Disagreements*).
- Three Mumble sessions are the bot, another and a number that is given out
  again; two classes at a time are the old and the new one, and a class that
  nothing is of is reused.
- `VIEW Relevant` hides what objects or classes hold that nothing refers to.
- `NDefaults` is the number of permissions of the default group; two are enough
  for an incomplete one.
- `MaxEdits` is two: an edit of what another edit has left.  The starting files hold
  what would take more.
- A message in `messages` needs no bound: the stack is never deeper than two, and
  the journals start again with each message.
- `chat`: `MaxTasks` requests to factoids (two that overlap), `MaxRuns` messages
  with links and `MaxShorten` requests to shorten, of which the third may meet the
  results of two that overlapped; `MaxRedirects` is the code's limit, made small;
  `MaxInputs` bounds what people and handlers do, `MaxMixed` that next to requests to
  factoids, which share only the thread.
- `files`: `MaxOps` uses of one part, `MaxMixed` in all when several are used, since
  they share only the end of the bot.  `MaxChanges`, `MaxObjects`, `MaxIds`,
  `MaxReports`, `MaxVersions`, `MaxCookies`, `MaxFetches` and `MaxJars`: of each thing,
  an old and a new one, and one more where a third actor can come between.
  `MaxDepth` stands for Python's recursion limit.
- `sessions`: `MaxConns` is a lost connection and the next; `MaxAsked` kicks, invitations and
  commands; `MaxFrames` one frame before and one after the one that goes wrong;
  `CtcpTime` and `CtcpCount` are small numbers for the configured ones.

Deadlock is checked in `accounts`, `irc_tracking`, `mumble_tracking` and `messages`,
where the system may always go on, and not where the program or its inputs end.
Symmetric values are those that no constant tells apart; runs with liveness
properties have none.

### Fairness

- `Connection`: timers fire and a connection attempt succeeds or fails (Twisted's
  connectors time out), both weakly fair for each factory: the reactor runs what is due.
  Nothing is assumed of servers, operators or signals: a connection may stay up, or drop,
  for ever; nor of `setup`, `run` and the end of `unload`.
- `Plugins`: weak fairness for each operation and strong fairness for each Deferred
  that fires, since a plugin's own work is served in every turn of the reactor
  however many operations come and go.
- `Sessions`: for IRC only, weak fairness of the timers the reactor has to call and of a
  server that is up answering what it was asked.  It does not answer a negotiation that is
  not ended: `SettlesIn` lets a refused SASL login through.  CTCP and Mumble have safety
  properties only.
- `Chat`: weak fairness of each message's coroutine, as long as the plugin is active:
  a request to the network ends in one way or another, if only by TCP's own limits.
- The other modules have safety properties only.

## What is proved

The theorems hold for all values of the constants that satisfy the assumptions named in
the modules, with no bound having a particular value.

| Module | Theorem | Says |
|---|---|---|
| `ConnectionProofs` | `TypeCorrect` | `Spec => []TypeOK` |
| | `Invariance` | `Spec => []Inv`, the inductive invariant |
| | `RetriesAreSafe` | `Spec => []RetryIsSafe` |
| | `NoneStranded` | `Spec => []NeverStranded` |
| | `TableStaysCurrent` | `Spec => []TableIsCurrent` |
| | `ShutdownIsFinal` | `Spec => RetiredStaysDown` |
| | `Refinement` | `Spec => ImplementsSupervisor` |
| `PluginsProofs` | `TypeCorrect` | `Spec => []TypeOK` |
| | `UnloadedIsSilent` | `Spec => []UnloadedOwnsNothing` |
| | `TableStaysExact` | `Spec => []TableIsExact` |
| | `RegistrationsStay` | `Spec => []LoadedKeepsRegistrations` |
| | `OrderIsRight` | `LoadingSpec => []DependenciesComeFirst` |
| | `OrderIsComplete` | `LoadingSpec => []FindsAllLoadable` |
| | `ChangesStay` | `ChatSpec => []ChangesTakeEffect` |
| | `AnswersStayVisible` | `ChatSpec => []AnswersAreVisible` |
| | `ShortenedOnce` | `ChatSpec => []ShortOnce` |
| `MessagesProofs` | `RegistryStaysExact` | `Spec => []RegistryIsExact` |
| | `MessagesAreHeard` | `Spec => []HeardOnceOrConsumed` |
| | `EverythingIsRelayedOnce` | `Spec => []RelayedOnce`, if what cancels messages ranks below the bridge |
| `SessionsProofs` | `BotIsWherePut` | `Spec => []OnlyWherePut` |
| | `FloodsStayCutOff` | `Spec => []FloodsAreCutOff` |
| | `FramesWereHandledOnce` | `Spec => []FramesAreHandledOnce` |
| | `TrackingIsExact` | `TrackingSpec => []MembersAreExact`, if no WHO comes late and the bot keeps its nick |
| `MumbleTrackingProofs` | `UsersAndChannelsAgree` | `Spec => []MembersAgree` |
| | `UsersStayExact`, `ChannelsStayFound` | `[]UsersAreExact` and `ChannelsAreFound`, if no first protocol starts on the tables of one that runs |
| | `OneProtocolIsExact` | `Spec => []UsersAreExact` for a single protocol |
| `AccountsProofs` | `SessionsStayExact` | `Spec => []SessionsAreExact` |
| | `FilesStayAgreed` | `Spec => []FilesAgree` |
| | `ConfirmedPasswordsGoOn` | `Spec => []ConfirmedPasswordsWork` |
| | `GivenPasswordsAreRefused` | `Spec => ChannelPasswordsAreRefused` |
| `PermissionsProofs` | `TypeCorrect` | `Spec => []TypeOK` |
| | `GroupEditsAreMonotone` | `Spec => EditsAreMonotone` |
| | `AnswersAreRight` | `Spec => []AnswersFollowTheGraph` |
| `FilesProofs` | `SharedStaysOnDisk` | `Spec => []SharedIsOnDisk` |
| | `PassedOverIsCurrent` | `Spec => []SkippedIsCurrent` |
| | `RequirementsAreRecorded` | `Spec => RequirementsComeFirst` |
| | `RecordsOfTheSiteAreTrue` | `Spec => []SiteKnows` |
| | `NoCookieIsLost` | `Spec => CookiesAreKept` |

The library's rules of induction take an operator as a parameter, which the prover cannot
instantiate.  Where a recursive function or a count goes over numbers, the proofs take the
least number for which the claim fails instead (`LeastNumber`, from the well-foundedness of
`<`), and where a definition would need a transitive closure, it is a least closed set.

**Connection.**  `RetryIsSafe`, `NeverStranded` and `TableIsCurrent` are not inductive
alone.  A factory that enters the table must not have been shut down before it is set up
(`UnusedIsFresh`); a factory that is shut down must have been set up, so
that it is not also one of those starting in the same step, which is what
`TableIsCurrent` says of the table that `unload` walks; `load_protocols` must find only
factories that are new (`NothingBeforeSetUp`); and `NeverStranded` needs that the
counter never passes its limit (`WithinBudget`), as it says that a factory gives up at
exactly its limit and the code only tests for at least that.  `Inv` is the conjunction of
these with `TypeOK`.  The actions do to factories one of three things, each a definition
and a lemma: a connection ends and may be retried (`Ended`), it advances
(`Advanced`), or a set of factories is shut down while new ones start (`Replaced`).
`StepKinds` shows every action to be one of them, one lemma for each shows that it preserves
`Inv`, and another that it is a step of `Supervisor`: what has ended is planned or given
up, what advances is retried or succeeds, what is replaced is retired.

**Plugins.**  An object must not own anything once it is unloaded, though operations that
overlap may be at it still.  What is being deactivated has lost its registrations
(`WaitIsTrue`) and does not get them back, since an object is only set up when it is
unused, by one load (`SetUpsAreTrue`), and what the table has is not (`ObjectsKnown`); what
never waits is all the reactor does (`QuickSetUps`).

`TableInv` is for the other two invariants, name by name.  Nothing in `load_plugin` looks for
a set-up of the same plugin that is under way; only a handler that is taken keeps the
second from being loaded too.  `SetUpIsSound` says what a set-up that has got so far owns, and
`NameIsSound` that the handler is the object's in the table, if there is one.  The two properties
leave out the names for which the code gives nothing, and each exception is needed; TLC has
a behaviour for every one of them:

- Slow set-ups of a plugin that registers no handler, or may give up before it, do not
  clash: two of them are loaded at once and one overwrites the other's entry.
- The command of a set-up that raised is never removed, and the next object of the name is
  loaded without it.  A slow set-up that asks for its command before its handler may be
  refused it for one that is unloaded while it waits.
- With a slow `deactivate()` the second of two overlapping unloads deletes what was loaded in
  between, whose registrations stay; only a handler among them keeps the next object of the
  name from going without.  Slow both ways, it takes the handler of an object still setting up.
- One that gave up counts as loaded, with whatever it had registered.

**Loading.**  `OrderInv` is about the loop in the middle of a pass: the entries of what
waits agree with the dependencies (`EntriesAgree`), no plugin of the list gets lost or comes
twice (`NothingLost`), and a pass that has moved nothing so far has left what it went by
with dependencies that are unmet (`StuckSoFar`).  When a pass ends with nothing moved,
each plugin that is left depends on one that is left or that cannot be loaded.  From a loadable
one the way down through those that are left would never end, so with finitely many it
would meet itself: one of them would be below itself, which a loadable plugin is not.

**Chat.**  Nothing in the table of factoids or of short links says when it was written, so the
invariants tie each line to the request that wrote it.

- *Answers* (`LinesKnown`): the lines of a row, and those that an add has read and not yet
  written back, are of requests for exactly that row; a get takes one row of a place that its
  caller is in (`GetSees`).
- *Changes* (`RowsFollow`): what a row has is what the changes carried out so far make of it, if
  those did not overlap, and what an add has read is still the row if none has come between.
  A request that fails drops out of what overlaps, so the invariant cannot speak of those that
  are still pending, as the property does; a pending one that is then carried out is
  the last, since it was not over when any later one was made (`TimesKnown`).
  `CarriedOut` is a recursive function over all requests; `MadeSame`, `MadeMore` and
  `MadeNext` say how it changes with them.
- *Short links* (`FirstIsKept`): rows are only appended, so the first row of a link and a shortener
  stays the first, and whoever asked when there was one does not ask the service.

**Permissions.**  An edit of one group's nodes leaves inheritance, empty sections and the
existence of groups as they are, so `check` visits the same groups as before.  What one of
them says only changes for the edited group, and in one direction; a relation between the
two states (`Covers`) carries that to what a group, and then a caller, is granted.
`AnswersAreRight` compares the recursion with the graph.  `Walk` says that a function is the
recursion of `check`, which `WalkExists` provides; as long as it grows it takes in
another group in each call, so after as many calls as there are groups it is closed
(`WalkCloses`), and everything it holds is in every closed set (`VisitedIsLeast`).

**MumbleTracking.**  `MembersAgree` is inductive once every class's tables have their
types (`TablesOK`) and the bot's own session is a session (`MineOK`).  The handlers are
proved for any class, as the class of a connection changes with reloads.  `UsersAreExact`
only speaks of connections whose server has told everything; the invariant says of all
times that what is tracked and what the server has still to tell make up what there is
(`Picture`).  It holds of a protocol that has connected again because its class is its own
(`Own`).  With several protocols that is not so: a factory's first protocol takes
the newest class, and if that is the class of a protocol that has connected again and
still runs, the two write into the same tables.  TLC gives that behaviour with two
connections; `StartsApart`, which says that it does not occur, is the condition of two theorems, and
`OneProtocolIsExact` shows that a single protocol needs none.

**Sessions.**  The three parts share no state.

- *Where the bot is* (`Inv`): lines under way and timers of the present connection only lead
  where the bot is put (`LinesLead`, `TimersLead`); connections are numbered
  (`PlacesKnown`), and a timer of an older one finds its transport gone.
- *CTCP* (`CTCPInv`): the counter and the ages of the answers of the past belong together
  (`WindowsFollow`).  Answers beyond those counted are older than the present window, and
  answers beyond another `ctcp_count` are older than `ctcp_time`, which is where twice the limit
  comes from; when the counter is over the limit nothing has been answered since (`Cut`).
- *Frames* (`FramesInv`): the receive buffer begins where the handled frames end
  (`BufferFollows`), what was handled is a beginning of the stream (`HandledInOrder`), and the
  loop only stops for want of a whole frame or at one it cannot read (`LoopEnds`).

**IRCTracking.**  `MembersAreExact` speaks of channels whose WHO is answered.  `TrackingInv`
adds what the server keeps to by itself (`ServerIsSound`), that users and channels list
each other at all times (`ListsAgree`), that a tracked object is one person under the nick of
now and no person has two (`ObjectsAreSound`), and that whoever is in a channel whose WHO has
begun to be answered is a member, or has a reply under way that is still true (`Coming`).  The
handlers that take a user out of its channels one after another are followed by a
recursive function (`Leaving`).  `Regular` has the hypotheses, and the code needs each of them: a
WHO answered after the bot has left a channel makes a user that stays, and the bot does not
follow a nick change of its own, as Twisted's `nickname` has changed before it compares
(both under *Disagreements*).  `User` objects are as many as memory has, which is
`~IsFiniteSet(Obj)`; the run has just enough for its people.

**Messages.**  `RegistryIsExact` is proved from invariants for its parts.  A plugin takes the
commands that are free, and an alias of its own only for a command it has taken; unloading
removes both by owner (`AliasesLead`).  A set-up that raises takes them too, and keeps them:
the command is then an orphan for good, and the next object of the name does without.  A
handler it leaves is in the way of the next set-up, which raises in turn, so no stray
is of a plugin that is set up.  A dispatch, however deep, changes the registry only where a
command loads or unloads a plugin, so all other steps leave it.

- *Heard* (`HeardInv`): the callbacks of an event are those of the plugins that are set up and
  ask for it, and the strays, by priority (`CallbacksExact`).  The stack has a few shapes only (`Under`): one dispatch, or an
  answer that is sent from within `MessageReceived`.  Whoever should hear the message
  has heard it or is among the handlers left in that frame, and the former outrank the
  latter (`Told`).  Plugins only come and go when a command runs, and then no
  `MessageReceived` of that message follows.
- *Relayed* (`RelayInv`): what is said is numbered; what the bridge is still to be told of, by
  the frame at the top or one that it turns into, has not been relayed (`Untold`), so nothing is
  relayed twice (`NoneTwice`), and what is relayed raises no event that the bridge has a
  handler for.  `AllTold` is the other half: unless the bridge has still to hear
  of the message, every rule of its place has relayed it.  The assumptions are those of the code:
  finitely many rules, and plugins that cancel or change a message rank below
  the bridge's 1000.

**Accounts.**  The files are behind the memory by the saves in the queue.  `Brings` says what
a queue of saves makes of files, one lemma composes it for queues that are put together,
and `SavesBringMem` is the invariant: the queue brings what is on disk to what is in memory.
Between commands the queue is empty and both are equal.  A crash cuts the queue anywhere, so
what is told apart must hold of every save in it (`OnlySaves`): all of them, and the file
but for the one that is torn, have the confirmed passwords of every account but the one
whose command is under way (`ConfirmedIsKept`), and the passwords given away in channels
(`GivenIsKept`).  `WholeUnlessCut` carries what the two files say of each other through
start-up, where the default account is made in several saves.  `NobodyAssumption` says that the value for an
unreadable file is no hash and no blacklist.

**Files.**  The parts of `Files` share no state, and each has an invariant of its own.

- *Storage*: two files never share an object: one that is tracked or held for a file is of
  that file (`ObjectsOfFiles`), so a block in one file changes no other, and what is
  written through an object that was released is counted against the file it is of.
- *Packages* (`PackagesInv`): a frame of `install_package` knows how far its file has
  come (`FrameOK`): one being written is not whole, one to be noted is of the version that
  was answered, which is one there has been.  An ETag is of a version there has been,
  and of a file that is gone it says that the file was removed (`EtagsKnown`), so a
  file that is opened for writing is one whose ETag is not the repository's, or gone.
  The requirements a frame has been through are met, and stay met since only one that
  has no caller removes anything; that gives `RequirementsComeFirst`.
- *Metrics* (`MetricsInv`): a thread that has its answer has left at the site what it will
  note (`ToldIsThere`), and that stays so because all threads of one run of the bot
  tell the site the same; a file that says disabled while the bot reports is one of a bot
  that was switched on again (`SwitchedOn`), which the last exception of `SiteKnows` is for.
- *Cookies* (`CookiesInv`): the jar that sessions share is ahead of its file (`Ahead`), and
  no fetch has another jar of that file unless it is mixed (`FetchesShare`), so that what
  a fetch saves is never behind.

## What is only model-checked

- Liveness: `RetryHappens`, `NoEndlessRetries`, `ShutdownStops`, `SettlesIn`,
  `EveryMessageEnds`.  The prover has no rule for fairness that would reach them.

Every safety property that a run checks is proved, four of them under the conditions that
the table gives; there the code needs the condition, and *What is proved* says why.

## What is not modelled

`PROJECT.json` lists every component with the part that is left out.  In short:

- *Connection*: reading the protocols' configuration, TLS, a missing section in settings.yml.
- *Plugins*: `scan`, and loaders being added or removed, which nothing does while the bot runs.
- *Messages*: threaded dispatch, single handlers or commands being removed (nothing calls
  these), the fields of events, splitting arguments, the bridge's tokens and formatting.
- *The command rate limiter*: arithmetic with the wall clock in real numbers; being
  limited is an outcome of `Run`, and no command of the bot uses its queue.
- *IRC*: ranks other than operator, channel modes, topics, the rate of lines, the bot changing
  its own nick.
- *Mumble*: links, flags, ACLs, HTML.  The run has one protocol; what several share is in
  the theorems' condition.
- *Accounts*: `delete_user`, unloading or reloading the plugin, letter case, records from
  before `algo`; a file is taken to fit the write buffer; popular passwords are not among
  `Password`.
- *Permissions*: options of groups, which no check reads.
- *Storage*: callbacks on reload, in-memory and Redis data, Python configuration, the filter of
  path names.
- *Factoids, URLs*: the web interface, tokens in factoids, recognising links in text,
  reading and decoding pages.
- *Metrics, packages*: what a report says; folders, listing, and what pip installs.
- Debug and pages plugins, launcher, console, logging, help, translations and tokens:
  input, output and formatting.  Mumble's protocol buffers are generated and the Opus
  bindings a foreign-function wrapper nothing uses.

## Disagreements

What the code does and its comments, example files or names say otherwise, and
other things that were met while reading.  The models follow the code.  Paths are under
`src/system/` or `src/plugins/`.

Factories:

- A factory that is shut down while it connects goes on and is built
  (`protocols/generic/factory.py:203`, `:227`).  The connection is its last (`RetiredStaysDown`).
- `max-delay` is read as `max_delay` (181), and a protocol's own `reset-on-success` is
  ignored (258).  A factory whose `buildProtocol` fails is dropped from the table and
  goes on retrying (243).
- With nothing loaded, `unload` runs before the reactor does, and the bot idles
  (`factory_manager.py:135`, `:439`).  `Connection` has both orders; that `unload` comes to
  its end is up to `unload_plugins`, and so to `ShutdownStops` of `Plugins`.

Plugins:

- `reload_plugin` only unloads a plugin that is loaded (`plugins/manager.py:557`, `:573`).
- Two unloads of a plugin that overlap raise `KeyError` (517), which also stops
  the shutdown command before `reactor.stop` (`factory_manager.py:437`).
- A plugin that disables itself still counts as loaded (`plugins/plugin.py:113`), as does
  auth when there is an auth handler already; unloading a plugin leaves its dependents
  (`plugins/manager.py:487`); one whose set-up ends during a shutdown stays loaded (441).
- `register_command` only warns of a name that is taken (`commands/manager.py:110`) and no
  plugin looks at its answer, so one may be loaded without its command; only
  `add_callback` raises (`events/manager.py:109`).  What a set-up that raised has registered
  stays (`plugins/loaders/python.py:66`): a handler among it is in the way of every later
  load of the name.

Messages:

- Only control characters make `process_input` return `False`, of which its caller takes
  an item; a cancelled `PreCommand` runs; `MessageSent` cannot be cancelled, and
  a cancelled notice is delivered.
- Mumble delivers the original text where `PreMessageReceived` handlers have changed it,
  and its `send_action` raises both `ActionSent` and `MessageSent`: the bridge relays it twice.
- A plugin whose alias was taken does not get it when its owner is unloaded.
- A threaded dispatch looks its handler up when the thread runs, after the loop.
- Bridge: quits, connections and removals have a user as their target, so only "user" rules
  relay them, though bridge.yml.example lists them for a channel; what replaces a user's
  name accumulates over rules; `to_["target"] == "user"` compares the wrong key.

IRC:

- Somebody who is not tracked parts, and the first user that is (often the bot itself) is
  taken out of the channel (`protocols/irc/protocol.py:488`, `:1126`).
- A WHO reply for a channel that was left makes a user that is never removed (781); after a
  nick change Twisted's own `nickname` is stale (664); ranks outlive a part (1127).
- A channel's own `kick_rejoin` and key are never found (a list of dictionaries is asked for
  a name), though irc-esper.yml.example shows them.
- Sign-on timers go on after a drop, so that `PostSetup` is raised for a connection that is
  gone; a leave command does not cancel a rejoin.
- After a refused SASL login or a `NAK` there is no `CAP END`, and registration hangs
  (`protocols/irc/protocol.py:753`, `:723`).
- The window of the CTCP limit is fixed, so that twice the limit fits into its time.

Mumble:

- A factory's first connection uses the newest module there is, with its users
  (`protocols/mumble/factory.py:91`, `mumble/protocol.py:98`): those of the factory it
  replaces, or of another Mumble protocol that has connected again and still runs.
- A protocol that is shut down before it knows its own user leaves its transport open and
  its timers running (`mumble/protocol.py:228`); it counts as connected before it
  is authenticated, so that a refused password is retried without limit (276).
- Statistics of somebody who has left raise `KeyError`, where a check for `None` follows
  (905); links in a new channel's message raise as well (573), and links of known channels
  are not mirrored.  A removed channel stays until the next connection.
- `ParseFromString` is outside the `try`, and a message that cannot be parsed drops the
  connection.

Auth and permissions:

- A crash between saving the default account and its permissions leaves a superadmin without
  permissions for good (`auth/auth_handler.py:140`), and a crash in any save of
  passwords.yml, even that of a failed login, loses all accounts.
- `add_group_permission` ignores its protocol ("As with add_user_permission");
  `add_user_permission` and `remove_user_permission` read "protocol" and write "protocols",
  which wipes entries; a user's permissions at a source are looked up in the wrong
  dictionary; extra groups are looked up under the protocol's name in lower case.
- Reloading an empty permissions.yml does not make the default group again.

Factoids and URLs:

- A global factoid can only be deleted from the protocol it was set on; `get` with a location
  asks for the exact protocol and channel.
- A transaction starts at the first statement that writes, so overlapping adds lose lines,
  and an unexpected failure of the database gets no reply.
- Too many redirects, or a handler that fails later, end the rest of a message's links, where
  the comment in `urls/handlers/handler.py:83` has the next handler called.
- `shorten` needs a last link even if it is given one.  The branch on character sets in
  `background_callback` cannot be reached.
- Cookies without an expiry are saved, and `load` drops them.  A fetch through a proxy, or one
  that is under way during a reload, saves its own copy over what others have saved; a page
  that is not read ends without saving.

Metrics and packages:

- A bot that is switched on again with its ID keeps "disabled" in its file, so a later
  "off" is not sent; a refusal to disable is recorded as disabled; overlapping
  reports may stop the task twice, which asserts.
- Uninstalling keeps ETags, so that what broke off after an install is passed over by a
  later one.  A failure halfway leaves files unrecorded, an unknown requirement is
  passed over, dependents and shared files are not looked at when a package is removed,
  and packages that require each other recurse to Python's limit.

Storage:

- A released object stays with those who hold it, so a file may have two.  A save that fails
  leaves the guard of the block set.  `YamlConfig.write` leaves a broken text and raises,
  `JSONConfig.write` swallows it.  `exists` is not updated by `reload`, and an empty
  file is no JSON.  `release_file` does not filter its path as `get_file` does.

## What is left

In this order: the bot's own nick changes and ranks other than operator in `IRCTracking`,
with the numeric rate of lines in `IRCSession`; links and ACLs in `MumbleTracking`; callbacks
on reload in `Storage`, composed with `Permissions`, which registers one.
