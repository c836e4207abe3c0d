----------------------------- MODULE MCMessages -----------------------------
(* Instances of Messages for model checking.                               *)
EXTENDS MessagesProps

CONSTANTS irc, mumble, c, d, private, anywhere, auth, bridge, urls, chat, filter, none

MCHooks ==
  [p \in Plugin |->
     CASE p = auth -> {"PreCommand"}
       [] p = bridge -> {"PreMessageReceived", "MessageSent", "ActionSent", "ActionReceived", "Membership"}
       [] p = urls -> {"MessageReceived"}
       [] p = chat -> {"MessageReceived", "MessageSent"}
       [] p = filter -> {"PreMessageReceived", "UnknownCommand", "CTCPQueryReceived",
                         "ActionSent", "MessageReceived"}]
MCRank == [p \in Plugin |->
  CASE p = auth -> 10000 [] p = bridge -> 1000 [] p = urls -> 12 [] p = chat -> 11 [] p = filter -> 2]

\* Two plugins that want the same alias.
MCCommands == [p \in Plugin |->
  CASE p = auth -> {"login"} [] p = chat -> {"note"} [] p = filter -> {"ban"} [] OTHER -> {}]
MCAliases == [p \in Plugin |->
  CASE p = chat -> <<<<"n", "note">>>> [] p = filter -> <<<<"n", "ban">>>> [] OTHER -> <<>>]

\* Two rules in a circle, one of them for all channels, one for what is said
\* in private, and one to somebody who is not there.
To(from, type, source, to, target, formats) ==
  [from |-> from, type |-> type, source |-> source, to |-> to, target |-> target,
   formats |-> formats]
MCRules ==
  {To(irc, "channel", c, mumble, c, {"message", "action", "join", "part", "kick"}),
   To(mumble, "channel", anywhere, irc, c, {"message", "action", "moved-from", "moved-to"}),
   To(irc, "user", c, mumble, d, {"message", "quit", "disconnect"}),
   To(irc, "channel", d, mumble, private, {"message"})}
MCUnreachable == {<<mumble, private>>}
=============================================================================
