---------------------------- MODULE MCDiscovery ----------------------------
(* Pages of up to two tools, two of which are not configured. *)
EXTENDS Discovery

ATool(name, compiles) == [name |-> name, compiles |-> compiles]
Listed == {ATool("refund", TRUE), ATool("refund", FALSE), ATool("lookup", TRUE),
           ATool("export", FALSE), ATool("audit", TRUE), Invalid}
MCPages == {<< >>} \cup {<<x>> : x \in Listed} \cup {<<x, y>> : x, y \in Listed}
=============================================================================
