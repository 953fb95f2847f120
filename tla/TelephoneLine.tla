--------------------------- MODULE TelephoneLine ---------------------------
(***************************************************************************)
(* One TelephonyRuntimeCore driven by everything that can reach it: the    *)
(* events of its Reticulum links, and the application's controls.          *)
(*                                                                         *)
(* wire is the state of each link at the endpoint.  An incoming link runs  *)
(* in the link manager, whose events queue up in channels of their own and *)
(* outlive the link: after it is torn down ("closing") what was queued     *)
(* still arrives.  The queue of an outgoing link goes away with the link.  *)
(*                                                                         *)
(* phase and audio fold the commands the core emits, as the application    *)
(* and its audio pipelines do.                                             *)
(***************************************************************************)
EXTENDS RuntimeCore, FiniteSets

CONSTANTS
    Policies,       \* access policies the application installs
    Payloads        \* the signals of the LXST packets that peers send

ASSUME TrafficAssumption ==
    /\ IsFiniteSet(Links)
    /\ Policies \subseteq AccessPolicy
    /\ Payloads \subseteq Packets

VARIABLES core, wire, phase, audio

vars == <<core, wire, phase, audio>>

(* "broken" would be a call announced twice, or ended without being live. *)
TypeOK ==
    /\ core \in Core
    /\ wire \in [Links -> {"unused", "requested", "outgoing", "incoming", "closing", "gone"}]
    /\ phase \in [Links -> {"none", "live", "over", "broken"}]
    /\ audio \in [Links -> {"closed", "open", "running"}]

Init ==
    /\ core \in {NewCore(p) : p \in Policies}
    /\ wire  = [l \in Links |-> "unused"]
    /\ phase = [l \in Links |-> "none"]
    /\ audio = [l \in Links |-> "closed"]

-----------------------------------------------------------------------------
(* Consumers of commands *)

TornDown(state) ==
    IF state = "incoming" THEN "closing"
    ELSE IF state \in {"requested", "outgoing"} THEN "gone"
    ELSE state

AudioAfter(step, l) ==
    IF Orders(step, l, "StopAudioPipelines") THEN "closed"
    ELSE IF Orders(step, l, "StartAudioPipelines") THEN "running"
    ELSE IF Orders(step, l, "OpenAudioPipelines") THEN "open"
    ELSE audio[l]

PhaseAfter(step, l) ==
    IF Orders(step, l, "CallTerminated")
    THEN IF phase[l] = "live" THEN "over" ELSE "broken"
    ELSE IF Orders(step, l, "RingIncomingCall")
    THEN IF phase[l] = "none" THEN "live" ELSE "broken"
    ELSE phase[l]

(* The core takes a step on the links as linksNow has them, and its        *)
(* commands are carried out.                                               *)
Take(step, linksNow) ==
    /\ core'  = step.core
    /\ wire'  = [l \in Links |-> IF Orders(step, l, "TeardownLink")
                                 THEN TornDown(linksNow[l]) ELSE linksNow[l]]
    /\ phase' = [l \in Links |-> PhaseAfter(step, l)]
    /\ audio' = [l \in Links |-> AudioAfter(step, l)]

-----------------------------------------------------------------------------
(* Link events *)

IncomingUp(l) ==
    /\ wire[l] = "unused"
    /\ Take(LinkEstablished(core, l), [wire EXCEPT ![l] = "incoming"])

OutgoingUp(l) ==
    /\ wire[l] = "requested"
    /\ Take(LinkEstablished(core, l), [wire EXCEPT ![l] = "outgoing"])

(* A peer may identify again on a link that already carries a call. *)
Identified(l) ==
    /\ wire[l] \in {"incoming", "closing"}
    /\ \E i \in Identities : Take(RemoteIdentified(core, l, i), wire)

PacketIn(l) ==
    /\ wire[l] \in {"incoming", "closing", "outgoing"}
    /\ \E signals \in Payloads : Take(AcceptPlaintext(core, l, signals), wire)

(* A failed control send closes an incoming link at once, while events of  *)
(* it may still be queued; otherwise the close event is its last.          *)
Closed(l) ==
    /\ wire[l] \in {"requested", "outgoing", "incoming", "closing"}
    /\ \E after \in {"gone"} \cup (IF wire[l] = "incoming" THEN {"closing"} ELSE {}) :
          Take(LinkClosed(core, l), [wire EXCEPT ![l] = after])

-----------------------------------------------------------------------------
(* Controls *)

(* The application hears OutgoingCallStarted when the core accepts. *)
Dial(l) ==
    /\ wire[l] = "unused"
    /\ ~LineBusy(core)
    /\ \E i \in Identities, p \in Profiles \cup {NoProfile} :
          core' = StartOutgoingCall(core, l, i, p).core
    /\ wire'  = [wire EXCEPT ![l] = "requested"]
    /\ phase' = [phase EXCEPT ![l] = IF @ = "none" THEN "live" ELSE "broken"]
    /\ UNCHANGED audio

Pickup(l) == Take(AnswerActive(core, l), wire)

Repeat(l) == Take(RetryAnswerActive(core, l), wire)

GiveUp(l) == Take(TimeoutAnswerActive(core, l), wire)

Switch == \E p \in Profiles : Take(SwitchActiveProfile(core, p), wire)

HangUp == \E ringTimeout \in BOOLEAN : Take(HangupActive(core, ringTimeout), wire)

SetBusy == \E busy \in BOOLEAN : Take(SetExternalBusy(core, busy), wire)

SetPolicy == \E p \in Policies : Take(SetAccessPolicy(core, p), wire)

Enumerations(S) ==
    {order \in [1 .. Cardinality(S) -> S] : \A x \in S : \E i \in DOMAIN order : order[i] = x}

ShutDown == \E order \in Enumerations(core.pending) : Take(ShutdownCore(core, order), wire)

-----------------------------------------------------------------------------
LinkEvent(l) == IncomingUp(l) \/ OutgoingUp(l) \/ Identified(l) \/ PacketIn(l) \/ Closed(l)

Control(l) == Dial(l) \/ Pickup(l) \/ Repeat(l) \/ GiveUp(l)

Next ==
    \/ \E l \in Links : LinkEvent(l) \/ Control(l)
    \/ Switch \/ HangUp \/ SetBusy \/ SetPolicy \/ ShutDown

Spec == Init /\ [][Next]_vars

-----------------------------------------------------------------------------
(* Properties.  The invariants hold when no packet carries a signal behind *)
(* one that ends the call, as none of this code's own packets does:        *)
(* otherwise AndThen loses the commands that announce the end.             *)

OrderlyPackets == \A packet \in Payloads : Orderly(packet)

(* The application's idea of the call is the core's: a call was announced  *)
(* and not yet ended on link l exactly when l is the active link, and no   *)
(* call is announced or ended twice (RingIncomingCall, CallTerminated).    *)
LedgerExact ==
    \A l \in Links : phase[l] # "broken" /\ (phase[l] = "live" <=> IsActive(core, l))

(* No audio pipeline survives its call, and none of an incoming call opens *)
(* before the local user has answered: whatever the peer signals, in       *)
(* whatever order (receive_signal, answer, and all ways to end a call).    *)
AudioFollowsCall ==
    \A l \in Links : audio[l] # "closed" =>
        /\ IsActive(core, l)
        /\ core.active.call.role = "Incoming" => core.active.call.answered

(* No link is left up without an owner: it is pending, it carries the      *)
(* active call, or the core asked for its teardown (busy, blocked caller,  *)
(* hangup, remote busy, shutdown).                                         *)
NoOrphanLink ==
    \A l \in Links : wire[l] \in {"requested", "outgoing", "incoming"} =>
        l \in core.pending \/ IsActive(core, l)

(* The active call's own packets are parsed until its link is closing: no  *)
(* event on another link, and no refused call, takes its ingress away.     *)
ActiveCallHears ==
    HasCall(core) =>
        core.active.link \in core.ingress \/ wire[core.active.link] = "closing"

(* What the five invariants above rest on: an unused link is unknown to the *)
(* core; a pending link is parsed and was never announced; only pending    *)
(* links and the active one are parsed; an outgoing request is the call's; *)
(* and audio runs only in an established call.                             *)
Bookkeeping ==
    /\ core.pending \subseteq core.ingress
    /\ \A l \in core.pending : phase[l] = "none"
    /\ \A l \in core.ingress : l \in core.pending \/ IsActive(core, l)
    /\ \A l \in Links : wire[l] = "unused" => phase[l] = "none" /\ l \notin core.ingress
    /\ \A l \in Links : wire[l] = "requested" =>
          IsActive(core, l) /\ core.active.call.role = "Outgoing"
    /\ \A l \in Links : audio[l] = "running" => core.active.call.status = Established

(* Within one call the status never moves back: a delayed or repeated      *)
(* signal cannot regress a call that went past it.                         *)
StatusNeverRegresses ==
    [][\A l \in Links : IsActive(core, l) /\ IsActive(core, l)' =>
          core'.active.call.status >= core.active.call.status]_vars

(* The line implements the promise of OneCall. *)
Promise == INSTANCE OneCall
PromiseKept == Promise!Spec
=============================================================================
