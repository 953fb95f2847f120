------------------------- MODULE MCTelephonyService -------------------------
(* Two links, one caller, two profiles, peers that send single signals.    *)
EXTENDS TelephonyService, TLC

CONSTANTS l1, l2, alice, medium, low

MCLinks    == {l1, l2}
MCProfiles == {medium, low}

MCPayloads == {<<StatusSignal(s)>> : s \in Status} \cup {<<ProfileSignal(low)>>}

(* One dial leaves the profile open, the other names it. *)
MCDials == {[identity |-> alice, profile |-> p] : p \in {NoProfile, medium}}

(* Enough where dials are not the question. *)
OneDial == {[identity |-> alice, profile |-> NoProfile]}

OneCaller == {alice}

LinkSymmetry == Permutations(MCLinks)
=============================================================================
