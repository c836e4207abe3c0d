------------------------------ MODULE Messages ------------------------------
(***************************************************************************)
(* What happens to what people say and do: the protocols turn it into      *)
(* events (privmsg, noticed, ctcpQuery of irc/protocol, the message        *)
(* handlers of mumble/protocol), the event manager runs the plugins'       *)
(* handlers, the command manager runs commands, and the bridge relays what *)
(* is said in one place to others, where what the bot says is an event     *)
(* again.  All of it happens in one thread, one call inside another: the   *)
(* stack holds the dispatches that are under way.                          *)
(*                                                                         *)
(* A message's text is the command or alias it names, or one of the words  *)
(* below.  A place is a protocol and a channel, or Private: a user.        *)
(***************************************************************************)
EXTENDS Integers, FiniteSets, Sequences, SequencesExt

CONSTANTS
  Irc, Mumble,  \* names of protocols of the two kinds
  Chan,         \* channels, the same names everywhere
  Private,      \* instead of a channel, a user
  Anywhere,     \* the source "*" of a rule
  Plugin,       \* names of plugins that may be loaded
  Hooks,        \* Hooks[p]: the events plugin p has handlers for
  TakesCancelled, \* plugins whose handlers take events that are cancelled
  ChannelsOnly, \* those whose filter only takes what is said in channels
  Canceller, Answerer, \* those that cancel or change events, and that answer
  Rank,         \* Rank[p]: priority and name, as _sort compares them
  Commands,     \* Commands[p]: the commands p registers
  AliasesOf,    \* AliasesOf[p]: <<alias, command>>, in the order p registers them
  Restricted,   \* commands with a permission
  OpenByDefault,\* those with default=True
  MayRaise,     \* plugins whose setup() may raise
  MayGiveUp,    \* those whose setup() may return before it registers anything
  Bridge, Auth, \* the plugins of these names
  Rule,         \* the bridge's rules
  Unreachable,  \* places send_msg does not find, or of protocols not loaded
  None

Prot == Irc \cup Mumble
Place == Prot \X (Chan \cup {Private})
Command == UNION {Commands[p] : p \in Plugin}
Alias == UNION {{AliasesOf[p][i][1] : i \in DOMAIN AliasesOf[p]} : p \in Plugin}

\* No command, less than the control characters, nothing but them, and a
\* command nobody has.
Text == {"talk", "short", "bare", "unknown"} \cup Command \cup Alias

\* What is said and done: IRC channel events, Mumble ones, and what both have.
Form == {"message", "notice", "action", "join", "part", "kick", "quit",
         "connect", "moved-from", "moved-to", "remove", "disconnect"}

\* Events, named by the part of their names that tells them apart.
Event == {"PreMessageReceived", "PreCommand", "UnknownCommand", "MessageReceived",
          "CTCPQueryReceived", "ActionReceived", "MessageSent", "ActionSent", "Membership"}

Rules ==
  [from : Prot, type : {"user", "channel"}, source : Chan \cup {Anywhere},
   to : Prot, target : Chan \cup {Private}, formats : SUBSET Form]

ASSUME RuleAssumption == Rule \subseteq Rules /\ IsFiniteSet(Rule) /\ None \notin Rule
\* What the bridge's setup() asks for, of the events that matter here.
ASSUME BridgeAssumption ==
  Bridge \in Plugin => Hooks[Bridge] =
    {"PreMessageReceived", "MessageSent", "ActionSent", "ActionReceived", "Membership"}
ASSUME PluginAssumption ==
  /\ Hooks \in [Plugin -> SUBSET Event]
  /\ Rank \in [Plugin -> Int] /\ \A p, q \in Plugin : p # q => Rank[p] # Rank[q]
  /\ OpenByDefault \subseteq Restricted /\ Restricted \subseteq Command
  /\ MayRaise \cup MayGiveUp \subseteq Plugin
  /\ \A p \in Plugin : AliasesOf[p] \in Seq(STRING \X Commands[p])
  /\ None \notin Plugin \cup {Auth, "auth", "orphan"} \cup Command

VARIABLES
  loaded,     \* plugins that are loaded
  whole,      \* those of them whose setup() has registered everything
  callbacks,  \* EventManager.callbacks: event -> handlers in order
  commands,   \* CommandManager.commands: command -> owner
  aliases,    \* CommandManager.aliases: alias -> command
  orphans,    \* commands whose owner is an object whose setup() has raised
  strays,     \* <<plugin, event>> of the handlers that such objects have
  perms,      \* CommandManager.perm_handler: auth's, or of such an object of auth
  text,       \* event.message, and event.command of a PreCommand
  result,     \* what became of the message
  stack,      \* dispatches under way, the innermost first
  received,   \* what is being handled, or was last
  heard,      \* journal: whose MessageReceived handlers were called with it
  lines       \* journal: what the bot has sent since

registry == <<loaded, whole, callbacks, commands, aliases, orphans, strays, perms>>
vars == <<registry, text, result, stack, received, heard, lines>>

\* What is said: where, in which form, and as which of what is said meanwhile.
Thing == [where : Place, form : Form, n : 0..3]
Frame == [event : Event, left : Seq(Plugin), cancelled : BOOLEAN, thing : Thing]
Line == [where : Place, rule : Rule \cup {None}, thing : Thing]

Results == {"none", "NotACommand", "Unknown", "UnknownOverridden", "Success", "NoPermission",
            "Managed", "RateLimited", "Error", "Raised", "Cancelled", "Heard"}

TypeOK ==
  /\ loaded \subseteq Plugin /\ whole \subseteq loaded
  /\ orphans \subseteq Command /\ strays \subseteq Plugin \X Event
  /\ perms \in {None, "auth", "orphan"}
  /\ callbacks \in [Event -> Seq(Plugin)]
  /\ commands \in [Command -> Plugin \cup {None}]
  /\ aliases \in [Alias -> Command \cup {None}]
  /\ text \in Text /\ result \in Results
  /\ stack \in Seq(Frame) /\ Len(stack) <= 2
  /\ received \in Thing \cup {None} /\ heard \in Seq(Plugin)
  /\ lines \in Seq(Line)

Init ==
  /\ loaded = {} /\ whole = {} /\ orphans = {} /\ strays = {} /\ perms = None
  /\ callbacks = [e \in Event |-> <<>>]
  /\ commands = [c \in Command |-> None]
  /\ aliases = [a \in Alias |-> None]
  /\ text = "talk" /\ result = "none"
  /\ stack = <<>> /\ received = None /\ heard = <<>> /\ lines = <<>>

-----------------------------------------------------------------------------
(***************************************************************************)
(* Registering                                                             *)
(***************************************************************************)
\* Faulty variants named ...Bug are used by the mutants of PROJECT.json only.
\* add_callback: sorted by priority and name, both descending.  The others are
\* sorted already, so the new one goes in after those that rank above it.
WithHandler(handlers, p) ==
  LET above == {i \in DOMAIN handlers : Rank[handlers[i]] > Rank[p]}
  IN InsertAt(handlers, Cardinality(above) + 1, p)

\* A plugin has no more than one handler for an event.
WithoutHandler(handlers, p) ==
  LET places == {i \in DOMAIN handlers : handlers[i] = p}
  IN IF places = {} THEN handlers ELSE RemoveAt(handlers, CHOOSE i \in places : TRUE)

\* register_command, for commands `names` of p: first come, first served.
WithCommands(owner, p, names) ==
  [c \in Command |-> IF c \in names /\ owner[c] = None THEN p ELSE owner[c]]
WithAliases(target, owner, p, names) ==
  LET Mine(a) == {i \in DOMAIN AliasesOf[p] :
                    /\ AliasesOf[p][i][1] = a
                    /\ AliasesOf[p][i][2] \in names /\ owner[AliasesOf[p][i][2]] = None}
  IN [a \in Alias |->
        IF target[a] # None \/ Mine(a) = {} THEN target[a]
        ELSE AliasesOf[p][CHOOSE i \in Mine(a) : \A j \in Mine(a) : i <= j][2]]

\* What p's setup() does when it gets as far as these commands and handlers.
\* add_callback raises if the plugin's name has a handler for the event.
Registers(p, names, events) ==
  /\ \A e \in events : \A i \in DOMAIN callbacks[e] : callbacks[e][i] # p
  /\ commands' = WithCommands(commands, p, names)
  /\ aliases' = WithAliases(aliases, commands, p, names)
  /\ callbacks' = [e \in Event |->
       IF e \in events THEN WithHandler(callbacks[e], p) ELSE callbacks[e]]

\* auth's setup() begins with set_permissions_handler.
Loads(p) ==
  /\ p \notin loaded
  /\ loaded' = loaded \cup {p} /\ whole' = whole \cup {p}
  /\ Registers(p, Commands[p], Hooks[p])
  /\ perms' = IF p = Auth /\ perms = None THEN "auth" ELSE perms
  /\ UNCHANGED <<orphans, strays>>

\* setup() raises: what it has registered stays, though it is not loaded.
LoadRaises(p) ==
  /\ p \notin loaded
  /\ p \in MayRaise \/ \E e \in Hooks[p] : \E i \in DOMAIN callbacks[e] : callbacks[e][i] = p
  /\ \E names \in SUBSET Commands[p], events \in SUBSET Hooks[p] :
       /\ Registers(p, names, events)
       /\ orphans' = orphans \cup {c \in names : commands[c] = None}
       /\ strays' = strays \cup ({p} \X events)
  /\ perms' \in IF p = Auth /\ perms = None THEN {None, "orphan"} ELSE {perms}
  /\ UNCHANGED <<loaded, whole>>

\* setup() disables the plugin or, auth's, finds an auth handler there; and returns.
LoadGivesUp(p) ==
  /\ p \notin loaded /\ p \in MayGiveUp
  /\ loaded' = loaded \cup {p}
  /\ perms' \in IF p = Auth /\ perms = None THEN {None, "auth"} ELSE {perms}
  /\ UNCHANGED <<whole, callbacks, commands, aliases, orphans, strays>>

\* The commands that are p's, of the object that is loaded.
Owned(p) == {c \in Command \ orphans : commands[c] = p}

KeepsAliasesBug(target, p) == target

\* unregister_commands_for_owner: an alias goes with the command it stands for.
WithoutAliases(target, p) ==
  [a \in Alias |-> IF target[a] \in Owned(p) THEN None ELSE target[a]]

\* unload_plugin: commands by their owner, handlers by the plugin's name, and
\* what its deactivate() does: auth's takes away its handler, not one of an
\* earlier object, whose class is another since setup() has reloaded the module.
Unloads(p) ==
  /\ p \in loaded
  /\ loaded' = loaded \ {p} /\ whole' = whole \ {p}
  /\ commands' = [c \in Command |-> IF c \in Owned(p) THEN None ELSE commands[c]]
  /\ aliases' = WithoutAliases(aliases, p)
  /\ callbacks' = [e \in Event |-> WithoutHandler(callbacks[e], p)]
  /\ strays' = {s \in strays : s[1] # p}
  /\ perms' = IF p = Auth /\ perms = "auth" THEN None ELSE perms
  /\ UNCHANGED orphans

Manages(p) == Loads(p) \/ LoadRaises(p) \/ LoadGivesUp(p) \/ Unloads(p)

Load ==
  /\ stack = <<>>
  /\ \E p \in Plugin : Manages(p)
  /\ result' = "none" /\ text' = "talk" /\ received' = None /\ heard' = <<>> /\ lines' = <<>>
  /\ UNCHANGED stack

-----------------------------------------------------------------------------
(***************************************************************************)
(* Dispatching                                                             *)
(***************************************************************************)
\* run_callback, before its loop.
Dispatch(e, thing, cancelled) ==
  [event |-> e, left |-> callbacks[e], cancelled |-> cancelled, thing |-> thing]

Top == Head(stack)
Rest == Tail(stack)
Replace(frame) == stack' = <<frame>> \o Rest
Ended(r) == stack' = <<>> /\ result' = r
Dispatching == stack # <<>> /\ Top.left # <<>>
Dispatched(e) == stack # <<>> /\ Top.left = <<>> /\ Top.event = e

\* Whether the filter and cancelled let handler p have the event.
Takes(p) ==
  /\ Top.cancelled => p \in TakesCancelled
  /\ ~(Top.event = "MessageReceived" /\ Top.thing.where[2] = Private /\ p \in ChannelsOnly)

\* The next handler is called, or passed over.
Calls(p) ==
  /\ Dispatching
  /\ p = Head(Top.left)
  /\ Takes(p)
  /\ heard' = IF Top.event = "MessageReceived" THEN Append(heard, p) ELSE heard

PassOver ==
  /\ Dispatching
  /\ ~Takes(Head(Top.left))
  /\ Replace([Top EXCEPT !.left = Tail(@)])
  /\ UNCHANGED <<registry, received, text, result, heard, lines>>

StopsAtErrorBug(p) ==
  /\ Calls(p) /\ p # Bridge
  /\ \/ Replace([Top EXCEPT !.left = Tail(@)])
     \/ Replace([Top EXCEPT !.left = <<>>])
  /\ UNCHANGED <<registry, received, text, result, lines>>

\* A handler that does nothing that matters here, or raises: run_callback logs
\* the exception and goes on.
CallQuiet(p) ==
  /\ Calls(p) /\ p # Bridge
  /\ Replace([Top EXCEPT !.left = Tail(@)])
  /\ UNCHANGED <<registry, received, text, result, lines>>

\* A handler that cancels the event.
CallCancels(p) ==
  /\ Calls(p) /\ p \in Canceller
  /\ Top.event \in {"PreMessageReceived", "UnknownCommand", "CTCPQueryReceived", "ActionSent"}
  /\ Replace([Top EXCEPT !.left = Tail(@), !.cancelled = TRUE])
  /\ UNCHANGED <<registry, received, text, result, lines>>

\* A handler that puts something else into event.message or event.command.
CallRewrites(p) ==
  /\ Calls(p) /\ p \in Canceller
  /\ Top.event \in {"PreMessageReceived", "PreCommand"}
  /\ \E t \in Text \ {text} : text' = t
  /\ Replace([Top EXCEPT !.left = Tail(@)])
  /\ UNCHANGED <<registry, received, result, lines>>

-----------------------------------------------------------------------------
(***************************************************************************)
(* Saying things                                                           *)
(***************************************************************************)
\* send_msg and send_action are events first.
Said == Cardinality({i \in DOMAIN lines : lines[i].rule = None})
Say(form, where) ==
  Dispatch(IF form = "action" THEN "ActionSent" ELSE "MessageSent",
           [where |-> where, form |-> form, n |-> Said + 1], FALSE)

\* A handler that answers where the message came from.
CallAnswers(p) ==
  /\ Calls(p) /\ p \in Answerer
  /\ Top.event = "MessageReceived"
  /\ stack' = <<Say("message", Top.thing.where)>>
              \o <<[Top EXCEPT !.left = Tail(@)]>> \o Rest
  /\ UNCHANGED <<registry, received, text, result, lines>>

\* sendLine, once MessageSent has been handled; it cannot be cancelled.
MessageIsSent ==
  /\ Dispatched("MessageSent")
  /\ lines' = Append(lines, [where |-> Top.thing.where, rule |-> None, thing |-> Top.thing])
  /\ stack' = Rest
  /\ UNCHANGED <<registry, received, text, result, heard>>

\* On Mumble an action is a message after all, with an event of its own.
ActionIsSent ==
  /\ Dispatched("ActionSent")
  /\ IF Top.cancelled THEN stack' = Rest /\ UNCHANGED lines
     ELSE IF Top.thing.where[1] \in Mumble
     THEN Replace(Dispatch("MessageSent", [Top.thing EXCEPT !.form = "message"], FALSE))
          /\ UNCHANGED lines
     ELSE /\ lines' = Append(lines, [where |-> Top.thing.where, rule |-> None, thing |-> Top.thing])
          /\ stack' = Rest
  /\ UNCHANGED <<registry, received, text, result, heard>>

-----------------------------------------------------------------------------
(***************************************************************************)
(* The bridge                                                              *)
(***************************************************************************)
\* do_rules, for something said or done in a place.
Matches(r, where, form) ==
  /\ r.from = where[1]
  /\ IF where[2] = Private THEN r.type = "user"
     ELSE r.type = "channel" /\ r.source \in {Anywhere, where[2]}
  /\ (IF form = "notice" THEN "message" ELSE form) \in r.formats
  /\ <<r.to, r.target>> \notin Unreachable

Relays(thing) ==
  SetToSeq({[where |-> <<r.to, r.target>>, rule |-> r, thing |-> thing] :
              r \in {q \in Rule : Matches(q, thing.where, thing.form)}})

RelaysAreEventsBug ==
  /\ Calls(Bridge)
  /\ lines' = lines \o Relays(Top.thing)
  /\ LET Again(l) == Dispatch("MessageSent", [Top.thing EXCEPT !.where = l.where], FALSE)
         new == Relays(Top.thing)
     IN stack' = [i \in DOMAIN new |-> Again(new[i])] \o <<[Top EXCEPT !.left = Tail(@)]>> \o Rest
  /\ UNCHANGED <<registry, received, text, result>>

\* What it relays is no event again: do_rules calls send_msg with use_event
\* False.  Of somebody who moves it tells those in the old channel as well.
CallBridge ==
  /\ Calls(Bridge)
  /\ IF Top.thing.form = "moved-to"
     THEN \E c \in Chan \ {Top.thing.where[2]} :
            lines' = lines \o Relays([Top.thing EXCEPT !.form = "moved-from", !.where[2] = c])
                           \o Relays(Top.thing)
     ELSE lines' = lines \o Relays(Top.thing)
  /\ Replace([Top EXCEPT !.left = Tail(@)])
  /\ UNCHANGED <<registry, received, text, result>>

-----------------------------------------------------------------------------
(***************************************************************************)
(* Messages and commands                                                   *)
(***************************************************************************)
Begin(e, cancelled, where, form) ==
  /\ stack = <<>>
  /\ received' = [where |-> where, form |-> form, n |-> 0]
  /\ stack' = <<Dispatch(e, received', cancelled)>>
  /\ result' = "none" /\ heard' = <<>> /\ lines' = <<>>
  /\ UNCHANGED registry

\* privmsg, handle_msg_textmessage, and noticed, which is IRC's.
Receive ==
  \E where \in Place, t \in Text, form \in {"message", "notice"} :
    /\ form = "notice" => where[1] \in Irc
    /\ Begin("PreMessageReceived", FALSE, where, form)
    /\ text' = t

\* ctcpQuery: blocked, that is cancelled, when there are too many of them.
ReceiveCTCP ==
  /\ \E p \in Irc, c \in Chan \cup {Private}, blocked \in BOOLEAN :
       Begin("CTCPQueryReceived", blocked, <<p, c>>, "action")
  /\ UNCHANGED text

\* Joins, parts, kicks, moves; the target of the others is the user.
Happen ==
  /\ \E where \in Place, form \in Form \ {"message", "notice", "action", "moved-from"} :
       /\ form \in {"join", "part", "kick", "quit"} => where[1] \in Irc
       /\ form \in {"connect", "moved-to", "remove", "disconnect"} => where[1] \in Mumble
       /\ where[2] = Private <=> form \in {"quit", "connect", "remove", "disconnect"}
       /\ Begin("Membership", FALSE, where, form)
  /\ UNCHANGED text

\* Quits and removals are told of twice, the second time by UserDisconnected.
MembershipEnds ==
  /\ Dispatched("Membership")
  /\ IF Top.thing.form \in {"quit", "remove"}
     THEN /\ Replace(Dispatch("Membership", [Top.thing EXCEPT !.form = "disconnect"], FALSE))
          /\ UNCHANGED result
     ELSE Ended("Heard")
  /\ UNCHANGED <<registry, received, text, heard, lines>>

CTCPEnds ==
  /\ Dispatched("CTCPQueryReceived")
  /\ Replace(Dispatch("ActionReceived", Top.thing, Top.cancelled))
  /\ UNCHANGED <<registry, received, text, result, heard, lines>>

ActionEnds ==
  /\ Dispatched("ActionReceived")
  /\ Ended("Heard")
  /\ UNCHANGED <<registry, received, text, heard, lines>>

\* MessageReceived, for what is no command.
Deliver(r) ==
  /\ Replace(Dispatch("MessageReceived", Top.thing, FALSE))
  /\ result' = r

\* What becomes of a message once PreMessageReceived has been handled: noticed
\* does not look at cancelled, and a command needs more than control
\* characters (process_input returns False, of which its caller takes [0]).
Decide ==
  /\ Dispatched("PreMessageReceived")
  /\ \/ Top.thing.form = "notice" /\ Deliver("NotACommand")
     \/ Top.thing.form = "message" /\ Top.cancelled /\ Ended("Cancelled")
     \/ /\ Top.thing.form = "message" /\ ~Top.cancelled
        /\ \/ text \in {"talk", "short"} /\ Deliver("NotACommand")
           \/ text = "bare" /\ Ended("Raised")
           \/ /\ text \notin {"talk", "short", "bare"}
              /\ Replace(Dispatch("PreCommand", Top.thing, FALSE))
              /\ UNCHANGED result
  /\ UNCHANGED <<registry, received, text, heard, lines>>

\* The command meant by event.command, or None.  What a handler of PreCommand
\* leaves there is looked up as it is; cancelled is not looked at.
Meant ==
  IF text \in Command /\ commands[text] # None THEN text
  ELSE IF text \in Alias THEN aliases[text] ELSE None

\* run_command, when there is no such command.
Unknown ==
  /\ Dispatched("PreCommand") /\ Meant = None
  /\ Replace(Dispatch("UnknownCommand", Top.thing, FALSE))
  /\ UNCHANGED <<registry, received, text, result, heard, lines>>

UnknownEnds ==
  /\ Dispatched("UnknownCommand")
  /\ IF Top.cancelled THEN Ended("UnknownOverridden") ELSE Deliver("Unknown")
  /\ UNCHANGED <<registry, received, text, heard, lines>>

\* The permissions handler may say yes or no; without one it depends.
Refused(c) ==
  /\ c \in Restricted
  /\ perms = None => c \notin OpenByDefault

NoPermission ==
  /\ Dispatched("PreCommand") /\ Meant # None
  /\ Refused(Meant)
  /\ Ended("NoPermission")
  /\ UNCHANGED <<registry, received, text, heard, lines>>

\* A command runs: it ends quietly, answers or acts in public or in private,
\* fails, is limited in its rate, or is one that loads or unloads a plugin.
\* An alias that leads nowhere is an error as well.
Answered(form, where, r) == stack' = <<Say(form, where)>> /\ result' = r

Run ==
  LET where == Top.thing.where
      whisper == <<where[1], Private>>
  IN /\ Dispatched("PreCommand") /\ Meant # None
     /\ perms = None => ~Refused(Meant)
     /\ IF commands[Meant] = None
        THEN Answered("message", whisper, "Error") /\ UNCHANGED registry
        ELSE \/ Ended("Success") /\ UNCHANGED registry
             \/ /\ \E form \in {"message", "action"}, w \in {where, whisper} :
                     Answered(form, w, "Success")
                /\ UNCHANGED registry
             \/ /\ \E r \in {"Error", "RateLimited"} : Answered("message", whisper, r)
                /\ UNCHANGED registry
             \/ Ended("Managed") /\ \E p \in Plugin : Manages(p)
     /\ UNCHANGED <<received, text, heard, lines>>

MessageEnds ==
  /\ Dispatched("MessageReceived")
  /\ Ended(result)
  /\ UNCHANGED <<registry, received, text, heard, lines>>

-----------------------------------------------------------------------------
Handle(p) == CallQuiet(p) \/ CallCancels(p) \/ CallRewrites(p) \/ CallAnswers(p)

Next ==
  \/ Load \/ Receive \/ ReceiveCTCP \/ Happen
  \/ PassOver \/ CallBridge \/ \E p \in Plugin : Handle(p)
  \/ MessageIsSent \/ ActionIsSent
  \/ MembershipEnds \/ CTCPEnds \/ ActionEnds
  \/ Decide \/ Unknown \/ UnknownEnds \/ NoPermission \/ Run \/ MessageEnds

Spec == Init /\ [][Next]_vars
=============================================================================
