---------------------------- MODULE EmbeddedPair ----------------------------
(***************************************************************************)
(* A caller and an embedded callee negotiate the profile of their call     *)
(* over a link that delivers in order and loses nothing.  The callee is an *)
(* EmbeddedSession; the caller is another one, or a host that runs the     *)
(* bare CallState and adopts whatever it is offered.  The two offers       *)
(* cross: the callee states its preference when it rings, the caller its   *)
(* own when it hears the ringing.                                          *)
(***************************************************************************)
EXTENDS EmbeddedSession, Sequences

CONSTANTS
    Callers,    \* configurations of an embedded caller
    Callees,    \* configurations of the callee
    HostOffers  \* profiles a host dials with (NoProfile: none named)

ASSUME PairAssumption ==
    /\ Callers \subseteq Config
    /\ Callees \subseteq Config
    /\ HostOffers \subseteq Profiles \cup {NoProfile}

VARIABLES
    caller,     \* the caller: a session, or the host's call
    callee,     \* the callee's session
    toCaller,   \* signals on their way to the caller, in order
    toCallee,   \* signals on their way to the callee
    identified  \* the caller identified itself on the link

pairVars == <<caller, callee, toCaller, toCallee, identified>>

(* A host's call is over when the callee's BUSY or REJECTED ended it, or    *)
(* when its link is gone.                                                  *)
HostCaller == [over : BOOLEAN, call : Call]
IsHost(c)  == "over" \in DOMAIN c

CallerOver == IF IsHost(caller) THEN caller.over ELSE ~Alive(caller)

PairTypeOK ==
    /\ caller \in HostCaller \cup Session
    /\ callee \in Session
    /\ toCaller \in Seq(Signal) /\ toCallee \in Seq(Signal)
    /\ identified \in BOOLEAN

(* The link is up at both ends, and the caller knows whom it called: the   *)
(* link's proof told it.  The callee has signalled that it is available.   *)
Connected(config) == PeerVerified(LinkIsUp(NewSession("Outgoing", config)).session).session

(* What the events send, after each of them. *)
SentUpTo(events) ==
    LET sent[i \in 0 .. Len(events)] ==
            IF i = 0 THEN <<>>
            ELSE IF events[i].type = "SendSignal" THEN Append(sent[i - 1], events[i].signal)
            ELSE sent[i - 1]
    IN  sent

Signals(events) == SentUpTo(events)[Len(events)]

PairInit ==
    /\ \/ \E config \in Callers : caller = Connected(config)
       \/ \E p \in HostOffers : caller = [over |-> FALSE, call |-> OutgoingCall(p)]
    /\ \E config \in Callees :
          /\ callee = LinkIsUp(NewSession("Incoming", config)).session
          /\ toCaller = Signals(LinkIsUp(NewSession("Incoming", config)).events)
    /\ toCallee = <<>>
    /\ identified = FALSE

-----------------------------------------------------------------------------
Identifies(events) == \E i \in DOMAIN events : events[i].type = "IdentifyLocalIdentity"

(* The caller's step: what it becomes and what it emits. *)
CallerHears(signal) ==
    IF IsHost(caller)
    THEN LET outcome == ReceiveSignal(caller.call, signal)
             ended   == \E i \in DOMAIN outcome.actions : outcome.actions[i].type = "Terminate"
         IN  IF caller.over THEN Quiet(caller)
             ELSE Emit([over |-> ended, call |-> outcome.call], outcome.actions)
    ELSE Receive(caller, signal)

CallerActs(step, inbox) ==
    /\ caller' = step.session
    /\ toCaller' = inbox
    /\ toCallee' = toCallee \o Signals(step.events)
    /\ identified' = (identified \/ Identifies(step.events))
    /\ UNCHANGED callee

CalleeActs(step, inbox) ==
    /\ callee' = step.session
    /\ toCallee' = inbox
    /\ toCaller' = toCaller \o Signals(step.events)
    /\ UNCHANGED <<caller, identified>>

DeliverToCaller == toCaller # <<>> /\ CallerActs(CallerHears(Head(toCaller)), Tail(toCaller))

DeliverToCallee == toCallee # <<>> /\ CalleeActs(Receive(callee, Head(toCallee)), Tail(toCallee))

(* The caller's identification is verified; it is not a signal. *)
VerifyCaller == identified /\ ~callee.verified /\ CalleeActs(PeerVerified(callee), toCallee)

CalleeAnswers == CanAnswer(callee.call) /\ CalleeActs(AnswerCall(callee), toCallee)

(* The devices are configured for the profile of the moment.               *)
CalleeConfigured ==
    ~callee.ready /\ CalleeActs(AudioReady(callee, callee.generation, TRUE), toCallee)

CallerConfigured ==
    ~IsHost(caller) /\ ~caller.ready
       /\ CallerActs(AudioReady(caller, caller.generation, TRUE), toCaller)

(* Authenticated media of an established peer arrives in its profile.      *)
MediaToCallee ==
    /\ caller.call.status = Established /\ caller.call.profile # NoProfile
    /\ CalleeActs(ReceiveProfileMedia(callee, caller.call.profile), toCallee)

MediaToCaller ==
    /\ ~IsHost(caller) /\ callee.call.status = Established
    /\ CallerActs(ReceiveProfileMedia(caller, callee.call.profile), toCaller)

CalleeTicks == CalleeActs(Tick(callee), toCallee)

CallerTicks == ~IsHost(caller) /\ CallerActs(Tick(caller), toCaller)

(* An ended party has torn the link down: after the last signal, the other *)
(* one's owner notices.                                                    *)
CalleeLosesLink ==
    CallerOver /\ toCallee = <<>> /\ CalleeActs(End(callee, "Remote"), toCallee)

CallerLosesLink ==
    /\ ~Alive(callee) /\ toCaller = <<>>
    /\ CallerActs(IF IsHost(caller) THEN Quiet([caller EXCEPT !.over = TRUE])
                  ELSE End(caller, "Remote"),
                  toCaller)

BothElapse ==
    /\ callee' = Elapsed(callee)
    /\ caller' = IF IsHost(caller) THEN caller ELSE Elapsed(caller)
    /\ UNCHANGED <<toCaller, toCallee, identified>>

PairNext ==
    \/ DeliverToCaller \/ DeliverToCallee
    \/ VerifyCaller \/ CalleeAnswers
    \/ CallerConfigured \/ CalleeConfigured
    \/ MediaToCallee \/ MediaToCaller
    \/ CallerTicks \/ CalleeTicks
    \/ CallerLosesLink \/ CalleeLosesLink
    \/ BothElapse

PairSpec == PairInit /\ [][PairNext]_pairVars

PairFairSpec == PairSpec /\ WF_pairVars(DeliverToCaller) /\ WF_pairVars(DeliverToCallee)

-----------------------------------------------------------------------------
(* Properties *)

Settled == toCaller = <<>> /\ toCallee = <<>>

(* When nothing is on its way, two parties in a call agree on its profile: *)
(* crossed offers converge, also where a side that suggested a profile     *)
(* still waits to have it confirmed.                                       *)
CrossedOffersConverge ==
    Settled /\ Alive(callee) /\ ~CallerOver /\ InCall(callee) /\ caller.call.status = Established
    => caller.call.profile = callee.call.profile

(* Confirmations do not echo: whatever the offers, the negotiation ends.   *)
NoEchoLoop == <>[]Settled

(* Where each side supports what the other prefers, no negotiation fails.  *)
Compatible ==
    /\ ~IsHost(caller)
    /\ callee.config.preferred \in caller.config.allowed
    /\ caller.config.preferred \in callee.config.allowed

CompatibleNeverRefused ==
    Compatible => "ProfileUnsupported" \notin {caller.ended, callee.ended}

(* Whatever offers cross, they converge on one profile, and where they can *)
(* be met neither side gives the call up.                                  *)
OffersMeet == CrossedOffersConverge /\ CompatibleNeverRefused
=============================================================================
