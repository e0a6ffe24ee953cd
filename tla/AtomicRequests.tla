--------------------------- MODULE AtomicRequests ---------------------------
(***************************************************************************)
(* What the control API promises to a client, whose transactions, locks    *)
(* and processes it does not see: a request takes effect once, whole, or   *)
(* not at all; it is answered at most once, with its effect only after it  *)
(* took place and with a refusal only if it never will.  An error says     *)
(* nothing: the effect may be there, or still come.                        *)
(***************************************************************************)
CONSTANTS Requests, Effects, None

VARIABLES effect, answer    \* request -> its effect, its answer, or None

vars == <<effect, answer>>

Init == effect = [r \in Requests |-> None] /\ answer = [r \in Requests |-> None]

TakeEffect(r, e) ==
    /\ effect[r] = None /\ answer[r] \in {None, "error"}
    /\ effect' = [effect EXCEPT ![r] = e]
    /\ UNCHANGED answer

Answer(r, a) ==
    /\ answer[r] = None
    /\ \/ a \in Effects /\ effect[r] = a
       \/ a = "rejected" /\ effect[r] = None
       \/ a = "error"
    /\ answer' = [answer EXCEPT ![r] = a]
    /\ UNCHANGED effect

Next == \E r \in Requests :
    \/ \E e \in Effects : TakeEffect(r, e)
    \/ \E a \in Effects \cup {"rejected", "error"} : Answer(r, a)

Spec == Init /\ [][Next]_vars
=============================================================================
