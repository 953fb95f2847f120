------------------------------ MODULE OneCall ------------------------------
(***************************************************************************)
(* What a telephone line promises the application, call by call: a link    *)
(* carries at most one call in its life, the application hears of its      *)
(* beginning and of its end exactly once, at most one call lives at a      *)
(* time, and audio runs only inside a live call and is closed when it ends.*)
(* TelephoneLine implements this specification.                            *)
(***************************************************************************)
CONSTANT Links

VARIABLES
    phase,      \* phase[l]: what the application was told about link l
    audio       \* audio[l]: the audio pipelines of link l

vars == <<phase, audio>>

Live(l) == phase[l] = "live"

Init ==
    /\ phase = [l \in Links |-> "none"]
    /\ audio = [l \in Links |-> "closed"]

Begin(l) ==
    /\ phase[l] = "none"
    /\ \A k \in Links : ~Live(k)
    /\ phase' = [phase EXCEPT ![l] = "live"]
    /\ UNCHANGED audio

(* Pipelines move forward only: closed, open, running. *)
OpenAudio(l) ==
    /\ Live(l)
    /\ audio[l] = "closed"
    /\ audio' = [audio EXCEPT ![l] = "open"]
    /\ UNCHANGED phase

StartAudio(l) ==
    /\ Live(l)
    /\ audio[l] # "running"
    /\ audio' = [audio EXCEPT ![l] = "running"]
    /\ UNCHANGED phase

End(l) ==
    /\ Live(l)
    /\ phase' = [phase EXCEPT ![l] = "over"]
    /\ audio' = [audio EXCEPT ![l] = "closed"]

Next == \E l \in Links : Begin(l) \/ OpenAudio(l) \/ StartAudio(l) \/ End(l)

Spec == Init /\ [][Next]_vars
=============================================================================
