----------------------------- MODULE MCLoading -----------------------------
(* The instance of Loading for model checking.                             *)
EXTENDS Loading, PluginsProps, TLC

CONSTANTS auth, dialectizer, urls

\* dialectizer.plug depends on Auth; urls is there to be ordered with them.
Deps == auth :> {} @@ dialectizer :> {auth}
BootOrder == <<auth, dialectizer>>

\* auth's commands come before its event handler, dialectizer's after it.
Registered == auth :> <<"command", "handler">> @@ dialectizer :> <<"handler", "command">>
Symmetric == Permutations(Op)
=============================================================================
