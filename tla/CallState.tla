----------------------------- MODULE CallState -----------------------------
(***************************************************************************)
(* The transition core of one LXST call (lxst-core, shared/telephony.rs).  *)
(* Host and microcontroller builds share it.  A call is a record; every    *)
(* operation of the Rust type is a pure operator that returns a result     *)
(* [call |-> the state after, actions |-> the ordered actions it asks its  *)
(* owner to perform].  This module has no variables: RuntimeCore,          *)
(* CallHandshake and EmbeddedSession apply it.                             *)
(***************************************************************************)
EXTENDS Naturals, Sequences

CONSTANTS
    Profiles,          \* the telephony profiles two peers can select
    DefaultProfile,    \* Profile::DEFAULT
    NoProfile          \* Option::None

ASSUME ProfileAssumption ==
    /\ DefaultProfile \in Profiles
    /\ NoProfile \notin Profiles

-----------------------------------------------------------------------------
(* Statuses carry their wire values: receive_signal compares them by order. *)

Busy        == 0
Rejected    == 1
Calling     == 2
Available   == 3
Ringing     == 4
Connecting  == 5
Established == 6

Status     == Busy .. Established
AutoStatus == Calling .. Established

StatusSignal(s)  == [kind |-> "status", status |-> s]
ProfileSignal(p) == [kind |-> "profile", profile |-> p]
RawSignal        == [kind |-> "raw"]

Signal == {StatusSignal(s) : s \in Status}
            \cup {ProfileSignal(p) : p \in Profiles}
            \cup {RawSignal}

(* The role, status, profile and answered flag of a call.  Only automatic  *)
(* statuses are ever stored: Busy and Rejected end the call instead.       *)
Call == [role     : {"Incoming", "Outgoing"},
         status   : AutoStatus,
         profile  : Profiles \cup {NoProfile},
         answered : BOOLEAN]

-----------------------------------------------------------------------------
(* Actions.  Actions::push refuses a fifth one.                            *)

ActionCapacity == 4

Do(type)           == [type |-> type]
SendSignal(signal) == [type |-> "SendSignal", signal |-> signal]
SendStatus(s)      == SendSignal(StatusSignal(s))
SelectProfile(p)   == [type |-> "SelectProfile", profile |-> p]
SwitchProfile(p)   == [type |-> "SwitchProfile", profile |-> p]
Terminate(s)       == [type |-> "Terminate", reason |-> s]
IgnoreSignal(sig)  == [type |-> "IgnoreSignal", signal |-> sig]

Action ==
    [type : {"IdentifyLocalIdentity", "PrepareDialingPipelines", "ResetDialingPipelines",
             "OpenAudioPipelines", "StartAudioPipelines", "StartDialTone", "TeardownLink",
             "RingIncomingCall"}]
      \cup [type : {"SendSignal", "IgnoreSignal"}, signal : Signal]
      \cup [type : {"SelectProfile", "SwitchProfile"}, profile : Profiles]
      \cup [type : {"Terminate"}, reason : Status]

Result(call, actions) == [call |-> call, actions |-> actions]

Ignore(call, signal) == Result(call, <<IgnoreSignal(signal)>>)

-----------------------------------------------------------------------------
(* Construction *)

OutgoingCall(profile) ==
    [role |-> "Outgoing", status |-> Calling, profile |-> profile, answered |-> FALSE]

IncomingCall ==
    [role |-> "Incoming", status |-> Available, profile |-> NoProfile, answered |-> FALSE]

(* The call with another status, with another profile, or answered. *)
At(call, s)    == [call EXCEPT !.status = s]
Using(call, p) == [call EXCEPT !.profile = p]
Answered(call) == [call EXCEPT !.answered = TRUE]

(* The profile a call settles on when it has to name one. *)
EnsuredProfile(call) ==
    IF call.profile = NoProfile THEN DefaultProfile ELSE call.profile

-----------------------------------------------------------------------------
(* Local operations *)

IncomingLinkEstablished(lineBusy) ==
    IF lineBusy
    THEN <<SendStatus(Busy), Do("TeardownLink")>>
    ELSE <<SendStatus(Available)>>

CallerIdentified(call, lineBusy, allowed) ==
    IF lineBusy \/ ~allowed
    THEN Result(call, <<SendStatus(Busy), Do("TeardownLink")>>)
    ELSE Result(At(call, Ringing),
                <<Do("ResetDialingPipelines"), SendStatus(Ringing), Do("RingIncomingCall")>>)

CanAnswer(call) == call.role = "Incoming" /\ call.status = Ringing

(* Deliberate fault: the callee's own ESTABLISHED establishes the call.    *)
AnswerAtOnce(call) ==
    IF ~CanAnswer(call) THEN Result(call, <<>>)
    ELSE Result(Answered(At(Using(call, EnsuredProfile(call)), Established)),
                <<SelectProfile(EnsuredProfile(call)), SendStatus(Connecting),
                  Do("OpenAudioPipelines"), SendStatus(Established)>>)

(* The answer offer is CONNECTING followed by ESTABLISHED; the call itself *)
(* stays in CONNECTING until the caller echoes ESTABLISHED.                *)
Answer(call) ==
    IF ~CanAnswer(call) THEN Result(call, <<>>)
    ELSE Result(Answered(At(Using(call, EnsuredProfile(call)), Connecting)),
                <<SelectProfile(EnsuredProfile(call)), SendStatus(Connecting),
                  Do("OpenAudioPipelines"), SendStatus(Established)>>)

CanRetryAnswer(call) ==
    call.role = "Incoming" /\ call.answered /\ call.status = Connecting

RetryAnswer(call) ==
    IF CanRetryAnswer(call)
    THEN <<SendStatus(Connecting), SendStatus(Established)>>
    ELSE <<>>

(* Deliberate fault: the peer is told the profile that is being left.      *)
SwitchToTold(call, p) ==
    IF call.profile = p THEN Result(call, <<>>)
    ELSE Result(Using(call, p),
                IF call.status = Established
                THEN <<SendSignal(ProfileSignal(call.profile)), SwitchProfile(p)>>
                ELSE <<SelectProfile(p)>>)

SwitchTo(call, p) ==
    IF call.profile = p THEN Result(call, <<>>)
    ELSE Result(Using(call, p),
                IF call.status = Established
                THEN <<SendSignal(ProfileSignal(p)), SwitchProfile(p)>>
                ELSE <<SelectProfile(p)>>)

(* Deliberate fault: a hangup leaves the link up.                          *)
HangupSilently(call, ringTimeout) ==
    Result([At(call, Available) EXCEPT !.answered = FALSE],
           IF CanAnswer(call) /\ ~ringTimeout THEN <<SendStatus(Rejected)>> ELSE <<>>)

Hangup(call, ringTimeout) ==
    Result([At(call, Available) EXCEPT !.answered = FALSE],
           IF CanAnswer(call) /\ ~ringTimeout
           THEN <<SendStatus(Rejected), Do("TeardownLink")>>
           ELSE <<Do("TeardownLink")>>)

-----------------------------------------------------------------------------
(* receive_signal, one operator per signal *)

ReceiveAvailable(call, signal) ==
    IF call.status >= Available THEN Ignore(call, signal)
    ELSE Result(At(call, Available), <<Do("IdentifyLocalIdentity")>>)

(* Deliberate fault: only a repetition of RINGING itself is ignored.       *)
ReceiveRingingAgain(call, signal) ==
    IF call.status = Ringing THEN Ignore(call, signal)
    ELSE Result(At(Using(call, EnsuredProfile(call)), Ringing),
                <<SelectProfile(EnsuredProfile(call)), Do("PrepareDialingPipelines"),
                  SendSignal(ProfileSignal(EnsuredProfile(call))), Do("StartDialTone")>>)

ReceiveRinging(call, signal) ==
    IF call.status >= Ringing THEN Ignore(call, signal)
    ELSE Result(At(Using(call, EnsuredProfile(call)), Ringing),
                <<SelectProfile(EnsuredProfile(call)), Do("PrepareDialingPipelines"),
                  SendSignal(ProfileSignal(EnsuredProfile(call))), Do("StartDialTone")>>)

(* Deliberate fault: a caller that went past CONNECTING does not echo      *)
(* again.                                                                  *)
ReceiveConnectingOnce(call, signal) ==
    IF call.status >= Connecting THEN Ignore(call, signal)
    ELSE Result(At(call, Connecting),
                IF call.role = "Outgoing"
                THEN <<Do("ResetDialingPipelines"), Do("OpenAudioPipelines"),
                       SendStatus(Established)>>
                ELSE <<Do("ResetDialingPipelines"), Do("OpenAudioPipelines")>>)

(* A caller that already went past CONNECTING echoes ESTABLISHED again, so  *)
(* that a callee whose first echo was lost can recover.                     *)
ReceiveConnecting(call, signal) ==
    IF call.status >= Connecting
    THEN IF call.role = "Outgoing"
         THEN Result(call, <<SendStatus(Established)>>)
         ELSE Ignore(call, signal)
    ELSE Result(At(call, Connecting),
                IF call.role = "Outgoing"
                THEN <<Do("ResetDialingPipelines"), Do("OpenAudioPipelines"),
                       SendStatus(Established)>>
                ELSE <<Do("ResetDialingPipelines"), Do("OpenAudioPipelines")>>)

ReceiveEstablished(call, signal) ==
    IF call.status = Established THEN Ignore(call, signal)
    ELSE Result(At(call, Established), <<Do("StartAudioPipelines")>>)

ReceiveProfile(call, p) ==
    IF call.profile = p THEN Result(call, <<>>)
    ELSE Result(Using(call, p),
                IF call.status = Established THEN <<SwitchProfile(p)>> ELSE <<SelectProfile(p)>>)

(* Deliberate fault: an incoming call listens as soon as it rings.         *)
DeafUntilRinging(call, signal) ==
    call.role = "Incoming" /\ call.status < Ringing /\ signal.kind = "status"

(* Until it is answered an incoming call listens to no status at all. *)
DeafToStatus(call, signal) ==
    call.role = "Incoming" /\ ~call.answered /\ signal.kind = "status"

ReceiveStatus(call, signal) ==
    LET s == signal.status IN
    IF s \in {Busy, Rejected} THEN Result(call, <<Terminate(s)>>)
    ELSE IF s = Available   THEN ReceiveAvailable(call, signal)
    ELSE IF s = Ringing     THEN ReceiveRinging(call, signal)
    ELSE IF s = Connecting  THEN ReceiveConnecting(call, signal)
    ELSE IF s = Established THEN ReceiveEstablished(call, signal)
    ELSE Ignore(call, signal)       \* Calling

ReceiveSignal(call, signal) ==
    IF signal.kind = "profile" THEN ReceiveProfile(call, signal.profile)
    ELSE IF signal.kind = "raw" \/ DeafToStatus(call, signal) THEN Ignore(call, signal)
    ELSE ReceiveStatus(call, signal)
=============================================================================
