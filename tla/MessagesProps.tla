--------------------------- MODULE MessagesProps ---------------------------
(* Properties of Messages: who hears of a message, who answers a command,  *)
(* and what the bridge makes of both.                                      *)
EXTENDS Messages

\* No message or other event is being handled, and one was.
Done == stack = <<>> /\ result # "none"

\* Who handles what: plugins that are set up, and what is left of set-ups that
\* raised.
Hooked == strays \cup {h \in Plugin \X Event : h[1] \in whole /\ h[2] \in Hooks[h[1]]}

Hears(p) == <<p, "MessageReceived">> \in Hooked

\* However plugins came and went and set-ups raised halfway, a message that is no
\* command, or an unknown one nobody has taken over, is heard by every plugin
\* that asked for messages, exactly once and in the order of their priorities,
\* even if others raise (run_callback); one that ran as a command, failed as
\* one, or was cancelled is heard by nobody (privmsg).
HeardOnceOrConsumed ==
  /\ \A i, j \in DOMAIN heard : i < j => Rank[heard[i]] > Rank[heard[j]]
  /\ Done /\ result \in {"NotACommand", "Unknown"} =>
       \A p \in Plugin : Hears(p) => p \in ChannelsOnly \/ \E i \in DOMAIN heard : heard[i] = p
  /\ result \notin {"NotACommand", "Unknown"} => heard = <<>>
  /\ \A i \in DOMAIN heard : Hears(heard[i])

\* What the registry has belongs to plugins that are set up, or has been left by
\* a set-up that raised, which nothing takes away (an unload goes by owner): a
\* command is answered by one that registered it, an alias leads to a command
\* that is there and was registered with it, and no other permissions handler is
\* asked.  A plugin that is set up has all commands no other plugin wants, but
\* for those an earlier object of its name has kept; and none of its handlers
\* is such an object's, which would have kept it from being loaded.
RegistryIsExact ==
  /\ \A c \in Command : commands[c] # None =>
       c \in Commands[commands[c]] /\ (commands[c] \in whole \/ c \in orphans)
  /\ \A c \in orphans : commands[c] # None
  /\ \A a \in Alias : aliases[a] # None =>
       /\ commands[aliases[a]] # None
       /\ <<a, aliases[a]>> \in {AliasesOf[commands[aliases[a]]][i] :
                                   i \in DOMAIN AliasesOf[commands[aliases[a]]]}
  /\ perms = "auth" => Auth \in loaded
  /\ Auth \in whole => perms # None
  /\ \A p \in whole : \A c \in Commands[p] :
       commands[c] = p \/ \E q \in Plugin \ {p} : c \in Commands[q]
  /\ \A s \in strays : s[1] \notin whole

\* How often rule r has relayed what was said n-th (0 is what was received).
Relayed(r, n, form) ==
  Cardinality({i \in DOMAIN lines :
                 lines[i].rule = r /\ lines[i].thing.n = n /\ lines[i].thing.form = form})

\* The bridge relays what is said once by every rule, and what it relays never
\* comes back to it, in whatever circle the rules go.  It relays every message
\* of a place it has a rule for, commands and those that are cancelled as well.
\* (What the bot does on Mumble is relayed in two forms, as an action and as
\* the message it is sent as.)
RelayedOnce ==
  /\ \A r \in Rule, n \in 0..3, form \in Form : Relayed(r, n, form) <= 1
  /\ Done /\ received.form \in {"message", "notice"} /\ Bridge \in whole /\ result # "Managed" =>
       \A r \in Rule : Matches(r, received.where, received.form) =>
         Relayed(r, 0, received.form) = 1
=============================================================================
