------------------------------ MODULE LinkLife ------------------------------
(***************************************************************************)
(* What a link endpoint promises the call that uses it: the events of each *)
(* link tell one life, in order.  A link is silent, then perhaps up, then  *)
(* closed for good; identification and packets come only while it is up,   *)
(* so to this specification they are stuttering.                           *)
(***************************************************************************)
CONSTANT Links

VARIABLE told

Init == told = [l \in Links |-> "silent"]

Becomes(l, from, to) ==
    /\ told[l] \in from
    /\ told' = [told EXCEPT ![l] = to]

Next == \E l \in Links :
    \/ Becomes(l, {"silent"}, "up")
    \/ Becomes(l, {"silent", "up"}, "closed")

Spec == Init /\ [][Next]_told
=============================================================================
