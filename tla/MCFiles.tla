------------------------------ MODULE MCFiles ------------------------------
(* Instances of Files for model checking.                                  *)
EXTENDS Files, TLC

CONSTANTS base, tools, extra, circle, old, common, tool, blog, shop, onion, forum, bank

\* tools shares its files with the packages it requires, circle requires itself,
\* and base a package that there is no more.
FileLists ==
  base :> <<common>> @@ tools :> <<tool, common>> @@ extra :> <<tool>> @@ circle :> <<>>
Requirements ==
  base :> <<old>> @@ tools :> <<extra, base>> @@ extra :> <<base>> @@ circle :> <<circle>>
JarsOfSites ==
  blog :> "global" @@ shop :> "global" @@ onion :> "global" @@ forum :> "group" @@ bank :> "none"
Symmetric == Permutations(User)
=============================================================================
