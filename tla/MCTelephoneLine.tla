-------------------------- MODULE MCTelephoneLine --------------------------
(* Three links, two callers of whom one may be blocked, two profiles.      *)
EXTENDS TelephoneLine, TLC

CONSTANTS l1, l2, l3, alice, mallory, medium, low

MCLinks      == {l1, l2, l3}
MCIdentities == {alice, mallory}
MCProfiles   == {medium, low}

(* Everyone may call, or everyone but mallory. *)
MCPolicies ==
    {[allowed |-> MCIdentities, blocked |-> {}],
     [allowed |-> MCIdentities, blocked |-> {mallory}]}

(* Every single signal, an empty packet, and packets of two signals of     *)
(* which the first does not end the call.                                  *)
MCPayloads == {packet \in Packets : Orderly(packet)}

LinkSymmetry == Permutations(MCLinks)
=============================================================================
