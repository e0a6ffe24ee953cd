----------------------------- MODULE MCService -----------------------------
(***************************************************************************)
(* Two processes on one database, two keys, two starts and two requests.   *)
(* Processes and keys are interchangeable, so the first start is of the    *)
(* process a with the key k; the second may be of either with either.      *)
(***************************************************************************)
EXTENDS Service

MCStarts == <<{<<"a", "k">>}, Servers \X Keys>>
MCKinds == <<{"action", "create"}, {"action"}>>
=============================================================================
