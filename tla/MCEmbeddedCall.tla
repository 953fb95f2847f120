--------------------------- MODULE MCEmbeddedCall ---------------------------
(* A session that supports two of three profiles, with and without a       *)
(* microphone, as caller and as callee.                                    *)
EXTENDS EmbeddedCall

CONSTANTS medium, low, verylow

MCProfiles == {medium, low, verylow}
MCRoles    == {"Incoming", "Outgoing"}

MCConfigs ==
    {[allowed |-> {low, verylow}, preferred |-> low, capture |-> capture, playback |-> TRUE] :
        capture \in BOOLEAN}
=============================================================================
