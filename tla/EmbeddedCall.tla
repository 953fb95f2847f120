---------------------------- MODULE EmbeddedCall ----------------------------
(***************************************************************************)
(* One embedded session on its device, against a peer that may signal      *)
(* anything in any order.  The embedder reports the link, the verified     *)
(* peer, media, the talk button and the passing of time, and carries out   *)
(* the session's events; a worker configures the codec and the audio       *)
(* device, one profile at a time and possibly late.                        *)
(***************************************************************************)
EXTENDS EmbeddedSession, Sequences

CONSTANTS
    Roles,      \* roles the session may have
    Configs,    \* its configurations
    MaxJobs     \* bound of the configurations the worker is behind

ASSUME DeviceAssumption ==
    /\ Roles \subseteq {"Incoming", "Outgoing"}
    /\ Configs \subseteq Config
    /\ MaxJobs \in Nat \ {0} /\ MaxJobs < Generations

VARIABLES
    session,
    mic,        \* whether the device captures
    onAir,      \* ticks it has captured without a pause
    jobs,       \* configurations asked of the worker and not reported
    device,     \* the profile the audio device was last configured for
    polled      \* the session has been ticked in this tick of the clock

vars == <<session, mic, onAir, jobs, device, polled>>

Job == [generation : 0 .. Generations - 1, profile : Profiles]

TypeOK ==
    /\ session \in Session
    /\ mic \in BOOLEAN /\ polled \in BOOLEAN
    /\ onAir \in Nat
    /\ jobs \in Seq(Job) /\ Len(jobs) <= MaxJobs
    /\ device \in Profiles \cup {NoProfile}

JobFor(s) == [generation |-> s.generation, profile |-> s.call.profile]

Init ==
    /\ session \in {NewSession(role, config) : role \in Roles, config \in Configs}
    /\ mic = FALSE /\ onAir = 0
    /\ jobs = <<JobFor(session)>>
    /\ device = NoProfile
    /\ polled = FALSE

-----------------------------------------------------------------------------
(* Carrying out events *)

Asks(step, event) == \E i \in DOMAIN step.events : step.events[i] = event

(* The worker is asked whenever the session forgets its configuration. *)
Carry(step) ==
    /\ session' = step.session
    /\ mic' = (Asks(step, CaptureOn) \/ (mic /\ ~Asks(step, CaptureOff)))
    /\ onAir' = IF mic' THEN onAir ELSE 0

NewJob(s) == s.generation # session.generation

Simply(step) == Carry(step) /\ UNCHANGED <<jobs, device, polled>>

LinkUp == Simply(LinkIsUp(session))

Verify == Simply(PeerVerified(session))

Pickup == Simply(AnswerCall(session))

Hear ==
    \E signal \in Signal :
        LET step == Receive(session, signal) IN
        /\ NewJob(step.session) => Len(jobs) < MaxJobs
        /\ Carry(step)
        /\ jobs' = IF NewJob(step.session) THEN Append(jobs, JobFor(step.session)) ELSE jobs
        /\ UNCHANGED <<device, polled>>

HearMedia == \E p \in Profiles : Simply(ReceiveProfileMedia(session, p))

Press == Simply(PressTalk(session))

Release == Simply(ReleaseTalk(session))

(* The worker is done with its oldest job.                                 *)
Configured ==
    /\ jobs # <<>>
    /\ \E success \in BOOLEAN :
          /\ Carry(AudioReady(session, Head(jobs).generation, success))
          /\ device' = IF success THEN Head(jobs).profile ELSE device
    /\ jobs' = Tail(jobs)
    /\ UNCHANGED polled

HangUp == \E reason \in {"Local", "Remote", "RouteLost"} : Simply(End(session, reason))

Poll ==
    /\ Carry(Tick(session))
    /\ polled' = TRUE
    /\ UNCHANGED <<jobs, device>>

(* The embedder ticks the session at least once in every tick of the clock. *)
ClockTick ==
    /\ polled
    /\ polled' = FALSE
    /\ session' = Elapsed(session)
    /\ onAir' = IF mic THEN onAir + 1 ELSE 0
    /\ UNCHANGED <<mic, jobs, device>>

Next ==
    \/ LinkUp \/ Verify \/ Pickup \/ Hear \/ HearMedia
    \/ Press \/ Release \/ Configured \/ HangUp
    \/ Poll \/ ClockTick

Spec == Init /\ [][Next]_vars

(* Time passes, and the embedder keeps ticking the session. *)
FairSpec == Spec /\ WF_vars(Poll) /\ WF_vars(ClockTick)

-----------------------------------------------------------------------------
(* Properties *)

(* The device captures exactly while the session believes it transmits,    *)
(* every way out of a transmission ordering the capture off (stop_capture, *)
(* set_transmitting); and only in an established call with a verified      *)
(* peer, a configured device, a profile nobody disputes and the button     *)
(* held, and never longer than the talk limit and the tick it ends in.     *)
MicNeedsAuthority ==
    /\ mic <=> session.transmitting
    /\ mic => MediaReady(session) /\ session.config.capture /\ session.inputDown
    /\ onAir <= TalkLimit

(* Only a fresh press of the talk button starts capture: nothing that      *)
(* happens while it is held, be it the end of a reconfiguration, a         *)
(* confirmed profile or the echo of the answer, starts it.                 *)
FreshPressOnly == [][~mic /\ mic' => ~session.inputDown]_vars

(* A session that believes its device ready is right: whatever the worker  *)
(* reports late is of an earlier generation, and is not believed.          *)
ReadyMeansConfigured == session.ready => device = session.call.profile

(* The device is typed, and what the session believes of it is true. *)
DeviceAgrees == TypeOK /\ ReadyMeansConfigured

(* A session is established or ends, whatever the peer does or leaves: no  *)
(* signal extends the deadlines for ever.                                  *)
SetupEnds == Alive(session) ~> (InCall(session) \/ ~Alive(session))

(* A suggested profile is confirmed or ends the session: an unsupported    *)
(* preference does not keep a call without media for ever.                 *)
SuggestionResolves ==
    session.profileLeft # Never ~> (session.profileLeft = Never \/ ~Alive(session))

(* No session keeps its user waiting, for the call or for its profile.     *)
SessionResolves == SetupEnds /\ SuggestionResolves
=============================================================================
