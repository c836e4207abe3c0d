----------------------------- MODULE MCPlugins -----------------------------
(* Instances of Plugins for model checking.                                *)
EXTENDS PluginsProps, TLC

CONSTANTS auth, control

\* control.plug depends on Auth, and registers commands only.
Deps == auth :> {} @@ control :> {auth}
BootOrder == <<auth, control>>
Registered == auth :> <<"command", "handler">> @@ control :> <<"command">>
=============================================================================
