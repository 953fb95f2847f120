---------------------------- MODULE MCFramePath ----------------------------
(* Two Codec2 profiles, alike but for their identity, and one Opus profile *)
(* whose frames are larger: two of them do not fit one packet.             *)
EXTENDS FramePath

CONSTANTS low, verylow, medium

MCProfiles == {low, verylow, medium}
MCKindOf   == [p \in MCProfiles |-> IF p = medium THEN "Opus" ELSE "Codec2"]
MCParts    == [p \in MCProfiles |-> IF p = medium THEN 1 ELSE 2]
MCSizeOf   == [p \in MCProfiles |-> IF p = medium THEN 2 ELSE 1]

Codec2Symmetry == Permutations({low, verylow})
=============================================================================
