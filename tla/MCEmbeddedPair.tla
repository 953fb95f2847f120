--------------------------- MODULE MCEmbeddedPair ---------------------------
(* A callee that prefers one of three profiles and supports any others;    *)
(* every device, and a host that dials with any profile or none, calls it. *)
EXTENDS EmbeddedPair

CONSTANTS medium, low, verylow

MCProfiles == {medium, low, verylow}

MCDevices == {c \in Config : c.capture /\ c.playback}

(* The profiles are interchangeable, so one preference stands for all.     *)
MCCallees == {c \in MCDevices : c.preferred = low}

MCOffers == MCProfiles \cup {NoProfile}
=============================================================================
