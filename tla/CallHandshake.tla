--------------------------- MODULE CallHandshake ---------------------------
(***************************************************************************)
(* Two telephones set up one call over one Reticulum link.  Each side is a *)
(* TelephonyRuntimeCore; the signals they send one another, each in an     *)
(* LXST packet of its own, may be lost, delayed and reordered: link data   *)
(* packets are neither acknowledged nor sequenced, and a full transport    *)
(* queue drops them too.  What recovers the answer is the service's retry: *)
(* the callee repeats CONNECTING, ESTABLISHED until the caller's echo of   *)
(* ESTABLISHED arrives or the answer times out.                            *)
(*                                                                         *)
(* The model starts when the caller's service has accepted the call.       *)
(***************************************************************************)
EXTENDS RuntimeCore, FiniteSets

CONSTANTS
    link,           \* the link of the call
    callerId,       \* the caller's identity
    Intents,        \* profiles the caller may dial with (NoProfile: none named)
    Policies        \* access policies of the callee

ASSUME HandshakeAssumption ==
    /\ link \in Links
    /\ callerId \in Identities
    /\ Intents \subseteq Profiles \cup {NoProfile}
    /\ Policies \subseteq AccessPolicy

Side == {"caller", "callee"}

Other(side) == IF side = "caller" THEN "callee" ELSE "caller"

(* What travels: signals, and the identification of the caller. *)
Identify == [kind |-> "identify"]
Message  == Signal \cup {Identify}

VARIABLES
    core,       \* core[side]: the side's runtime core
    end,        \* end[side]: the side's end of the link
    flight,     \* flight[side]: the messages on their way to side
    audio,      \* audio[side]: what the side's audio pipelines were told
    timed,      \* the callee's service has an answer timeout
    switching   \* how the profile signals of a switch fared

vars == <<core, end, flight, audio, timed, switching>>

TypeOK ==
    /\ core \in [Side -> Core]
    /\ end \in [Side -> {"none", "up", "closed"}]
    /\ flight \in [Side -> SUBSET Message]
    /\ audio \in [Side -> {"closed", "open", "running", "unopened"}]
    /\ timed \in BOOLEAN
    /\ switching \in {"none", "clean", "disturbed"}

OpenPolicy == [allowed |-> Identities, blocked |-> {}]

(* The caller has dialled and its link is up; the callee's end comes up    *)
(* when the caller's round-trip packet arrives, if it does.                *)
Init ==
    /\ \E profile \in Intents, policy \in Policies, busy \in BOOLEAN :
          core = [side \in Side |->
                    IF side = "caller"
                    THEN StartOutgoingCall(NewCore(OpenPolicy), link, callerId, profile).core
                    ELSE SetExternalBusy(NewCore(policy), busy).core]
    /\ end = [side \in Side |-> IF side = "caller" THEN "up" ELSE "none"]
    /\ flight = [side \in Side |-> {}]
    /\ audio = [side \in Side |-> "closed"]
    /\ timed \in BOOLEAN
    /\ switching = "none"

-----------------------------------------------------------------------------
(* Carrying out a step *)

Asks(step, type) == \E i \in DOMAIN step.commands : step.commands[i].action.type = type

Sent(step) ==
    {step.commands[i].action.signal :
        i \in {j \in DOMAIN step.commands : step.commands[j].action.type = "SendSignal"}}
      \cup (IF Asks(step, "IdentifyLocalIdentity") THEN {Identify} ELSE {})

(* Audio told to start without ever having been opened is "unopened". *)
Heard(side, step) ==
    IF Asks(step, "StopAudioPipelines") THEN "closed"
    ELSE IF Asks(step, "OpenAudioPipelines") THEN "open"
    ELSE IF Asks(step, "StartAudioPipelines")
    THEN IF audio[side] = "open" THEN "running" ELSE "unopened"
    ELSE audio[side]

(* The side takes the step; inbox is what is on its way to it afterwards.  *)
(* A message already on its way is not counted twice.                      *)
Act(side, step, inbox) ==
    /\ core'   = [core EXCEPT ![side] = step.core]
    /\ audio'  = [audio EXCEPT ![side] = Heard(side, step)]
    /\ flight' = [flight EXCEPT ![side] = inbox,
                                ![Other(side)] = @ \cup Sent(step)]

Local(side, step) ==
    /\ end[side] = "up"
    /\ Act(side, step, flight[side])
    /\ end' = [end EXCEPT ![side] = IF Asks(step, "TeardownLink") THEN "closed" ELSE @]
    /\ UNCHANGED timed

Calls(side)   == HasCall(core[side])
CallOf(side)  == core[side].active.call
Talking(side) == Calls(side) /\ CallOf(side).status = Established

ProfilesUnderWay == {m \in flight["caller"] \cup flight["callee"] : m.kind = "profile"}

(* A switch is clean when both sides talk and no profile signal is under   *)
(* way; another profile signal sent or lost before it arrives disturbs it. *)
SwitchedTo(step) ==
    IF ~\E m \in Sent(step) : m.kind = "profile" THEN switching
    ELSE IF Talking("caller") /\ Talking("callee") /\ ProfilesUnderWay = {} THEN "clean"
    ELSE "disturbed"

SwitchedLosing(message) ==
    IF message.kind = "profile" THEN "disturbed" ELSE switching

-----------------------------------------------------------------------------
(* The network *)

LinkUp ==
    /\ end["callee"] = "none"
    /\ LET step == LinkEstablished(core["callee"], link) IN
       /\ Act("callee", step, flight["callee"])
       /\ end' = [end EXCEPT !["callee"] =
                     IF Asks(step, "TeardownLink") THEN "closed" ELSE "up"]
    /\ UNCHANGED <<timed, switching>>

Received(side, message) ==
    IF message = Identify
    THEN RemoteIdentified(core[side], link, callerId)
    ELSE AcceptPlaintext(core[side], link, <<message>>)

(* Packets that reach a closed end, or one not yet up, are dropped. *)
Deliver(side, message) ==
    /\ message \in flight[side]
    /\ IF end[side] = "up"
       THEN LET step == Received(side, message) IN
            /\ Act(side, step, flight[side] \ {message})
            /\ end' = [end EXCEPT ![side] =
                          IF Asks(step, "TeardownLink") THEN "closed" ELSE @]
            /\ switching' = SwitchedTo(step)
       ELSE /\ flight' = [flight EXCEPT ![side] = @ \ {message}]
            /\ switching' = SwitchedLosing(message)
            /\ UNCHANGED <<core, end, audio>>
    /\ UNCHANGED timed

Lose(side, message) ==
    /\ message \in flight[side]
    /\ flight' = [flight EXCEPT ![side] = @ \ {message}]
    /\ switching' = SwitchedLosing(message)
    /\ UNCHANGED <<core, end, audio, timed>>

Close(side) ==
    /\ end[side] = "up"
    /\ Act(side, LinkClosed(core[side], link), flight[side])
    /\ end' = [end EXCEPT ![side] = "closed"]
    /\ UNCHANGED <<timed, switching>>

(* The other side's close, or its silence, is noticed. *)
PeerGone(side) == end[Other(side)] = "closed" /\ Close(side)

(* The link, or the interface under it, fails. *)
LinkFails(side) == Close(side)

-----------------------------------------------------------------------------
(* The users and the services' timers *)

(* The steps of users and timers that send no profile signal. *)
Plainly(side, step) == Local(side, step) /\ UNCHANGED switching

Pickup == Plainly("callee", AnswerActive(core["callee"], link))

HangUp(side) == Calls(side) /\ Plainly(side, HangupActive(core[side], FALSE))

Switch(side) == \E p \in Profiles :
    LET step == SwitchActiveProfile(core[side], p)
    IN  Local(side, step) /\ switching' = SwitchedTo(step)

AnswerRetry == Plainly("callee", RetryAnswerActive(core["callee"], link))

AnswerExpires ==
    /\ timed
    /\ Plainly("callee", TimeoutAnswerActive(core["callee"], link))

RingExpires ==
    /\ Calls("callee")
    /\ CallOf("callee").status = Ringing
    /\ Plainly("callee", HangupActive(core["callee"], TRUE))

(* Deliberate fault: the dial timer covers a call only until it rings.     *)
DialExpiresEarly ==
    /\ Calls("caller")
    /\ CallOf("caller").status = Calling
    /\ Plainly("caller", HangupActive(core["caller"], FALSE))

DialExpires ==
    /\ Calls("caller")
    /\ CallOf("caller").status # Established
    /\ Plainly("caller", HangupActive(core["caller"], FALSE))

-----------------------------------------------------------------------------
Network ==
    \/ LinkUp
    \/ \E side \in Side :
          \/ \E message \in Message : Deliver(side, message) \/ Lose(side, message)
          \/ PeerGone(side)
          \/ LinkFails(side)

Timers == AnswerRetry \/ AnswerExpires \/ RingExpires \/ DialExpires

Users == Pickup \/ \E side \in Side : HangUp(side) \/ Switch(side)

Next == Network \/ Timers \/ Users

Spec == Init /\ [][Next]_vars

(* Both event loops tick for ever, so a timer that stays due is served, and *)
(* Reticulum tells a side that its peer's end is gone.                     *)
TimersFire ==
    /\ WF_vars(AnswerExpires) /\ WF_vars(RingExpires) /\ WF_vars(DialExpires)
    /\ \A side \in Side : WF_vars(PeerGone(side))

(* Retries run, and the network does not lose one message for ever. *)
RetriesArrive ==
    /\ WF_vars(AnswerRetry)
    /\ \A side \in Side : WF_vars(PeerGone(side))
    /\ SF_vars(Deliver("caller", StatusSignal(Connecting)))
    /\ SF_vars(Deliver("callee", StatusSignal(Established)))
-----------------------------------------------------------------------------
(* Properties *)

Answering == Calls("callee") /\ CanRetryAnswer(CallOf("callee"))

(* The caller is connected only to a callee who picked up: no loss or      *)
(* reordering of signals, and no timer, connects it to one that rings      *)
(* (receive_signal, retry_answer).                                         *)
ConnectedMeansAnswered ==
    Calls("caller") /\ CallOf("caller").status >= Connecting =>
        \/ Calls("callee") /\ CallOf("callee").answered
        \/ end["callee"] = "closed"

(* The callee believes in the call, and runs its audio, only when the      *)
(* caller believes in it: its own ESTABLISHED, queued or even delivered,   *)
(* proves nothing (the comment in answer).                                 *)
EchoIsProof ==
    /\ audio["callee"] = "running" => Talking("callee")
    /\ Talking("callee") =>
          \/ Calls("caller") /\ CallOf("caller").status >= Connecting
          \/ end["caller"] = "closed"

(* Whoever talks, talks to somebody: each side's belief in the call rests  *)
(* on what the other side did, not on what was sent to it.                 *)
TalkIsMutual == TypeOK /\ ConnectedMeansAnswered /\ EchoIsProof

(* A profile switch that nothing disturbs, and that arrived, leaves both   *)
(* sides in one profile, whatever was lost or crossed before it            *)
(* (switch_profile, receive_signal).                                       *)
SwitchAgreement ==
    switching = "clean" /\ ProfilesUnderWay = {} /\ Talking("caller") /\ Talking("callee") =>
        CallOf("caller").profile = CallOf("callee").profile

(* No call is one-sided for ever: if the timers fire, and the callee has   *)
(* an answer timeout, a caller who talks is joined by the callee, or the   *)
(* call ends.                                                              *)
NoOneSidedCall ==
    TimersFire /\ timed => (Talking("caller") ~> (Talking("callee") \/ ~Calls("caller")))

(* Neither side waits for ever before the call is established, if the      *)
(* timers fire and the callee has an answer timeout.                       *)
NobodyWaitsForever ==
    TimersFire /\ timed => \A side \in Side : Calls(side) ~> (Talking(side) \/ ~Calls(side))

(* The retry recovers every loss: without an answer timeout, an answered   *)
(* call is established unless somebody ends it, provided the network       *)
(* delivers some of the repetitions.                                       *)
RetryRecovers ==
    RetriesArrive /\ ~timed => (Answering ~> (Talking("callee") \/ ~Calls("callee")))
=============================================================================
