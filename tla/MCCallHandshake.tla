-------------------------- MODULE MCCallHandshake --------------------------
(* One link, one caller, two profiles.  The callee admits the caller or    *)
(* not, and may be busy elsewhere.                                         *)
EXTENDS CallHandshake

CONSTANTS alice, medium, low

MCLinks      == {link}
MCIdentities == {alice}
MCProfiles   == {medium, low}

MCPolicies == {[allowed |-> {alice}, blocked |-> {}], [allowed |-> {alice}, blocked |-> {alice}]}

(* The caller names a profile, or none. *)
MCIntents == {low, NoProfile}
=============================================================================
