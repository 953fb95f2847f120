-------------------------- MODULE EmbeddedSession --------------------------
(***************************************************************************)
(* Session (lxst-embedded, session.rs): a microcontroller's policy around  *)
(* the shared call transitions.  It lets nothing through before the peer   *)
(* is verified, negotiates the profile within what the device supports,    *)
(* and owns the microphone: it alone orders capture to start and to stop.  *)
(*                                                                         *)
(* Every method is a pure operator that returns the session after and the  *)
(* events, in order, that its embedder has to carry out.  The code keeps   *)
(* absolute times and is told the present; here a time is what is left     *)
(* until it, in ticks, and Elapsed takes one off.                          *)
(***************************************************************************)
EXTENDS CallState, Integers

CONSTANTS
    SetupTime, RingTime, AnswerTime,    \* ticks until a call not established ends
    ProfileTime,    \* ticks a suggested profile may stay unconfirmed
    TalkLimit,      \* ticks of one transmission
    RetryTime,      \* ticks between two answer offers
    Generations,    \* how many audio generations there are before they wrap
    NotEnded        \* Option::None for the reason of the end

ASSUME SessionAssumption ==
    /\ SetupTime \in Nat /\ RingTime \in Nat /\ AnswerTime \in Nat
    /\ ProfileTime \in Nat /\ TalkLimit \in Nat \ {0} /\ RetryTime \in Nat
    /\ Generations \in Nat /\ Generations > 1
    /\ NotEnded \notin {"Local", "Remote", "Rejected", "Busy", "Timeout",
                        "ProfileUnsupported", "AudioUnavailable", "RouteLost"}

MaxRetries == 3
Never == -1         \* Option::None for the profile deadline

EndReason == {"Local", "Remote", "Rejected", "Busy", "Timeout",
              "ProfileUnsupported", "AudioUnavailable", "RouteLost"}

(* Session::new refuses every other configuration. *)
Config == {c \in [allowed : SUBSET Profiles, preferred : Profiles,
                  capture : BOOLEAN, playback : BOOLEAN] :
              (c.capture \/ c.playback) /\ c.preferred \in c.allowed}

Session == [call         : Call,
            config       : Config,
            linked       : BOOLEAN,
            verified     : BOOLEAN,
            ready        : BOOLEAN,     \* the audio device is configured
            transmitting : BOOLEAN,
            inputDown    : BOOLEAN,     \* the talk button is held
            generation   : 0 .. Generations - 1,
            ended        : EndReason \cup {NotEnded},
            suggested    : BOOLEAN,
            retries      : 0 .. MaxRetries,
            deadline     : Nat,
            profileLeft  : Nat \cup {Never},
            retryLeft    : Nat,
            talkLeft     : Nat]

NewSession(role, config) ==
    LET call == IF role = "Incoming" THEN IncomingCall ELSE OutgoingCall(config.preferred)
    IN  [call |-> SwitchTo(call, config.preferred).call, config |-> config,
         linked |-> FALSE, verified |-> FALSE, ready |-> FALSE, transmitting |-> FALSE,
         inputDown |-> FALSE, generation |-> 1, ended |-> NotEnded, suggested |-> FALSE,
         retries |-> 0, deadline |-> SetupTime, profileLeft |-> Never, retryLeft |-> 0,
         talkLeft |-> 0]

-----------------------------------------------------------------------------
(* Events are the shared transitions' actions and these.                   *)

EventCapacity == 8

CaptureOn      == Do("CaptureOn")
CaptureOff     == Do("CaptureOff")
FlushMedia     == Do("FlushMedia")
HasEnded(r)    == [type |-> "Ended", reason |-> r]

Emit(session, events) == [session |-> session, events |-> events]
Quiet(session)        == Emit(session, <<>>)

Alive(s)    == s.ended = NotEnded
Incoming(s) == s.call.role = "Incoming"
InCall(s)   == s.call.status = Established

MediaReady(s) ==
    Alive(s) /\ s.linked /\ s.verified /\ s.ready /\ s.profileLeft = Never /\ InCall(s)

PlaybackAllowed(s) == MediaReady(s) /\ s.config.playback /\ ~s.transmitting

(* stop_capture: the session, and the order to the device if it captures.  *)
Silenced(s)   == [s EXCEPT !.transmitting = FALSE, !.talkLeft = 0]
StopOrders(s) == IF s.transmitting THEN <<CaptureOff>> ELSE <<>>

End(s, reason) ==
    LET hungup == Hangup(s.call, reason = "Timeout") IN
    IF ~Alive(s) THEN Quiet(s)
    ELSE Emit([Silenced(s) EXCEPT !.call = hungup.call, !.ready = FALSE, !.ended = reason],
              StopOrders(s) \o <<FlushMedia>> \o hungup.actions \o <<HasEnded(reason)>>)

-----------------------------------------------------------------------------
(* The link owner and the user *)

LinkIsUp(s) ==
    IF ~Alive(s) \/ s.linked THEN Quiet(s)
    ELSE Emit([s EXCEPT !.linked = TRUE],
              IF Incoming(s) THEN IncomingLinkEstablished(FALSE) ELSE <<>>)

PeerVerified(s) ==
    LET ringing == CallerIdentified(s.call, FALSE, TRUE) IN
    IF ~Alive(s) \/ ~s.linked \/ s.verified THEN Quiet(s)
    ELSE IF Incoming(s)
    THEN Emit([s EXCEPT !.verified = TRUE, !.call = ringing.call, !.deadline = RingTime],
              Append(ringing.actions, SendSignal(ProfileSignal(s.config.preferred))))
    ELSE Quiet([s EXCEPT !.verified = TRUE])

AnswerCall(s) ==
    IF ~Alive(s) \/ ~s.verified \/ ~CanAnswer(s.call) THEN Quiet(s)
    ELSE Emit([s EXCEPT !.call = Answer(s.call).call, !.deadline = AnswerTime,
                        !.retryLeft = RetryTime],
              Answer(s.call).actions)

-----------------------------------------------------------------------------
(* receive_signal *)

Forwarded(s, signal) ==
    LET outcome == ReceiveSignal(s.call, signal)
    IN  Emit([s EXCEPT !.call = outcome.call], outcome.actions)

CounterOffer(s) ==
    ProfileSignal(IF s.call.profile = NoProfile THEN s.config.preferred ELSE s.call.profile)

(* Deliberate fault: a profile in dispute does not stop the transmission.  *)
RefuseProfileTalking(s) ==
    IF s.suggested THEN End(s, "ProfileUnsupported")
    ELSE Emit([s EXCEPT !.suggested = TRUE, !.profileLeft = ProfileTime],
              <<FlushMedia, SendSignal(CounterOffer(s))>>)

(* Deliberate fault: every unsupported profile is answered.                *)
RefuseProfileEachTime(s) ==
    Emit([Silenced(s) EXCEPT !.suggested = TRUE, !.profileLeft = ProfileTime],
         StopOrders(s) \o <<FlushMedia, SendSignal(CounterOffer(s))>>)

(* A profile the device does not support is answered once with the one in  *)
(* use; a second one ends the session.                                     *)
RefuseProfile(s) ==
    IF s.suggested THEN End(s, "ProfileUnsupported")
    ELSE Emit([Silenced(s) EXCEPT !.suggested = TRUE, !.profileLeft = ProfileTime],
              StopOrders(s) \o <<FlushMedia, SendSignal(CounterOffer(s))>>)

(* A new profile takes the device's configuration away.  Only the incoming *)
(* side confirms it, so that confirmations do not echo for ever.           *)
Reconfigured(s) ==
    [Silenced(s) EXCEPT !.ready = FALSE, !.generation = (@ + 1) % Generations,
                        !.profileLeft = Never]

(* Deliberate fault: neither side confirms the profile it adopts.          *)
AdoptProfileSilently(s, signal) ==
    LET taken == Forwarded(Reconfigured(s), signal) IN
    IF s.call.profile = signal.profile THEN Quiet([s EXCEPT !.profileLeft = Never])
    ELSE Emit(taken.session, StopOrders(s) \o <<FlushMedia>> \o taken.events)

(* Deliberate fault: both sides confirm the profile they adopt.            *)
AdoptProfileEchoing(s, signal) ==
    LET taken == Forwarded(Reconfigured(s), signal) IN
    IF s.call.profile = signal.profile THEN Quiet([s EXCEPT !.profileLeft = Never])
    ELSE Emit(taken.session,
              StopOrders(s) \o <<FlushMedia, SendSignal(signal)>> \o taken.events)

AdoptProfile(s, signal) ==
    LET taken == Forwarded(Reconfigured(s), signal) IN
    IF s.call.profile = signal.profile THEN Quiet([s EXCEPT !.profileLeft = Never])
    ELSE Emit(taken.session,
              StopOrders(s) \o <<FlushMedia>>
                \o (IF Incoming(s) THEN <<SendSignal(signal)>> ELSE <<>>)
                \o taken.events)

(* The order in which statuses are believed: a callee waits for nothing    *)
(* but the caller's ESTABLISHED, a caller climbs step by step.             *)
Believes(s, status) ==
    LET current == s.call.status IN
    IF Incoming(s) THEN s.call.answered /\ status = Established
    ELSE \/ status = Available   /\ current \in {Calling, Available}
         \/ status = Ringing     /\ current \in {Available, Ringing}
         \/ status = Connecting  /\ current \in {Ringing, Connecting, Established}
         \/ status = Established /\ current \in {Connecting, Established}

(* Deliberate fault: repeated RINGING extends the ringing.                 *)
DeadlineRenewed(s, status) ==
    IF status = Ringing THEN RingTime
    ELSE IF status = Connecting /\ s.call.status = Ringing THEN AnswerTime
    ELSE s.deadline

DeadlineAfter(s, status) ==
    IF status = Ringing /\ s.call.status # Ringing THEN RingTime
    ELSE IF status = Connecting /\ s.call.status = Ringing THEN AnswerTime
    ELSE s.deadline

HearStatus(s, signal) ==
    LET status == signal.status IN
    IF status = Busy THEN End(s, "Busy")
    ELSE IF status = Rejected THEN End(s, "Rejected")
    ELSE IF status = Calling \/ ~Believes(s, status) THEN Quiet(s)
    ELSE Forwarded([s EXCEPT !.deadline = DeadlineAfter(s, status)], signal)

(* Deliberate fault: a device accepts no profile but the one it prefers.   *)
ReceivePreferredOnly(s, signal) ==
    IF ~Alive(s) \/ ~s.linked \/ ~s.verified THEN Quiet(s)
    ELSE IF signal.kind = "raw" THEN Forwarded(s, signal)
    ELSE IF signal.kind = "status" THEN HearStatus(s, signal)
    ELSE IF signal.profile = s.config.preferred THEN AdoptProfile(s, signal)
    ELSE RefuseProfile(s)

Receive(s, signal) ==
    IF ~Alive(s) \/ ~s.linked \/ ~s.verified THEN Quiet(s)
    ELSE IF signal.kind = "raw" THEN Forwarded(s, signal)
    ELSE IF signal.kind = "status" THEN HearStatus(s, signal)
    ELSE IF signal.profile \in s.config.allowed THEN AdoptProfile(s, signal)
    ELSE RefuseProfile(s)

(* Media in the suggested profile confirms it. *)
ReceiveProfileMedia(s, p) ==
    IF /\ Alive(s) /\ s.linked /\ s.verified /\ InCall(s)
       /\ s.call.profile = p /\ p \in s.config.allowed /\ s.profileLeft > 0
    THEN Quiet([s EXCEPT !.profileLeft = Never])
    ELSE Quiet(s)

-----------------------------------------------------------------------------
(* The audio device and the talk button *)

(* Deliberate fault: a report of an earlier configuration counts.          *)
AudioReadyAnyTime(s, generation, success) ==
    IF ~Alive(s) THEN Quiet(s)
    ELSE IF ~success THEN End(s, "AudioUnavailable")
    ELSE Quiet([s EXCEPT !.ready = TRUE])

(* Deliberate fault: a transmission cut off by a reconfiguration resumes   *)
(* after it.                                                               *)
AudioReadyResuming(s, generation, success) ==
    LET configured == [s EXCEPT !.ready = TRUE] IN
    IF ~Alive(s) \/ generation # s.generation THEN Quiet(s)
    ELSE IF ~success THEN End(s, "AudioUnavailable")
    ELSE IF s.inputDown /\ s.config.capture /\ MediaReady(configured)
    THEN Emit([configured EXCEPT !.transmitting = TRUE, !.talkLeft = TalkLimit], <<CaptureOn>>)
    ELSE Quiet(configured)

AudioReady(s, generation, success) ==
    IF ~Alive(s) \/ generation # s.generation THEN Quiet(s)
    ELSE IF ~success THEN End(s, "AudioUnavailable")
    ELSE Quiet([s EXCEPT !.ready = TRUE])

PressTalk(s) ==
    LET held == [s EXCEPT !.inputDown = TRUE] IN
    IF s.inputDown THEN Quiet(s)
    ELSE IF ~MediaReady(s) \/ ~s.config.capture THEN Quiet(held)
    ELSE Emit([held EXCEPT !.transmitting = TRUE, !.talkLeft = TalkLimit],
              <<FlushMedia, CaptureOn>>)

ReleaseTalk(s) ==
    Emit([Silenced(s) EXCEPT !.inputDown = FALSE], StopOrders(s) \o <<FlushMedia>>)

-----------------------------------------------------------------------------
(* tick *)

RetryDue(s) == CanRetryAnswer(s.call) /\ s.retryLeft = 0 /\ s.retries < MaxRetries

LimitTalk(s) ==
    IF s.transmitting /\ s.talkLeft = 0
    THEN Emit(Silenced(s), StopOrders(s) \o <<FlushMedia>>)
    ELSE Quiet(s)

RetryOffer(s) ==
    IF RetryDue(s)
    THEN Emit([s EXCEPT !.retries = @ + 1, !.retryLeft = RetryTime], RetryAnswer(s.call))
    ELSE Quiet(s)

Tick(s) ==
    LET limited == LimitTalk(s)
        retried == RetryOffer(limited.session)
    IN  IF ~Alive(s) THEN Quiet(s)
        ELSE IF s.profileLeft = 0 THEN End(s, "ProfileUnsupported")
        ELSE IF ~InCall(s) /\ s.deadline = 0 THEN End(s, "Timeout")
        ELSE Emit(retried.session, limited.events \o retried.events)

(* A time that has come stays come; once the session ended none is read.   *)
Less(time) == IF time > 0 THEN time - 1 ELSE time

Elapsed(s) ==
    IF ~Alive(s) THEN s
    ELSE [s EXCEPT !.deadline = Less(@), !.profileLeft = Less(@), !.retryLeft = Less(@),
                   !.talkLeft = Less(@)]
=============================================================================
