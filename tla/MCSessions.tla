----------------------------- MODULE MCSessions -----------------------------
(* Instances of Sessions for model checking.                               *)
EXTENDS Sessions

CONSTANTS main, locked, other

BothListed == <<main, locked>>
=============================================================================
