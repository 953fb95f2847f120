---------------------------- MODULE RuntimeCore ----------------------------
(***************************************************************************)
(* TelephonyRuntimeCore (lxst-telephony, lib.rs): the synchronous owner of *)
(* one telephone line.  It holds the access policy, the external busy flag,*)
(* the incoming links whose caller is not yet identified, the links whose  *)
(* LXST plaintext it will parse, and at most one active call.              *)
(*                                                                         *)
(* Every method is a pure operator on a core record that returns a step:   *)
(* the core after, the commands its owner has to execute, in order, and    *)
(* "ok" or the error.  TelephoneLine drives one core with every event of   *)
(* its links.                                                              *)
(***************************************************************************)
EXTENDS CallState

CONSTANTS
    Links,          \* Reticulum link identifiers
    Identities,     \* remote identity hashes
    NoCall          \* Option::None for the active call

ASSUME NoCallAssumption ==
    NoCall \notin [link : Links, identity : Identities, call : Call]

-----------------------------------------------------------------------------
(* State *)

(* CallerAllowPolicy is the set of identities it admits (all, none, or a   *)
(* list); a blocked identity is refused whatever that set says.            *)
AccessPolicy == [allowed : SUBSET Identities, blocked : SUBSET Identities]

IsAllowed(access, identity) ==
    identity \notin access.blocked /\ identity \in access.allowed

ActiveCall == [link : Links, identity : Identities, call : Call]

Core == [access       : AccessPolicy,
         externalBusy : BOOLEAN,
         pending      : SUBSET Links,    \* established, caller not identified
         ingress      : SUBSET Links,    \* plaintext of these links is parsed
         active       : ActiveCall \cup {NoCall}]

NewCore(access) ==
    [access |-> access, externalBusy |-> FALSE, pending |-> {}, ingress |-> {},
     active |-> NoCall]

HasCall(core)     == core.active # NoCall
IsActive(core, l) == HasCall(core) /\ core.active.link = l

LineBusy(core)    == core.externalBusy \/ HasCall(core)

Errors == {"UnknownLink", "LineBusy", "NoActiveCall", "WrongActiveLink",
           "CallNotAnswerable", "CallNotEstablished"}

Step(core, commands) == [core |-> core, commands |-> commands, result |-> "ok"]
Refuse(core, error)  == [core |-> core, commands |-> <<>>, result |-> error]

-----------------------------------------------------------------------------
(* Commands are actions addressed to a link.  The core handles Terminate   *)
(* itself; it is always alone in its transition's actions.                 *)

Command(l, action) == [link |-> l, action |-> action]

CommandsFrom(l, actions) == [i \in DOMAIN actions |-> Command(l, actions[i])]

NoReason == Established + 1     \* Option::None for the reason of a termination

CallTerminated(reason) == [type |-> "CallTerminated", reason |-> reason]

Terminates(actions) == \E i \in DOMAIN actions : actions[i].type = "Terminate"

(* Whether the step asks for a command of this type on link l. *)
Orders(step, l, type) ==
    \E i \in DOMAIN step.commands :
        step.commands[i].link = l /\ step.commands[i].action.type = type

WithCall(core, call) == [core EXCEPT !.active.call = call]

(* The core without link l and without an active call. *)
Released(core, l) ==
    [core EXCEPT !.active  = NoCall,
                 !.pending = @ \ {l},
                 !.ingress = @ \ {l}]

-----------------------------------------------------------------------------
(* Configuration *)

SetAccessPolicy(core, access) == Step([core EXCEPT !.access = access], <<>>)

SetExternalBusy(core, busy) == Step([core EXCEPT !.externalBusy = busy], <<>>)

-----------------------------------------------------------------------------
(* Link events *)

LinkUpIncoming(core, l) ==
    Step(IF LineBusy(core) THEN core
         ELSE [core EXCEPT !.pending = @ \cup {l}, !.ingress = @ \cup {l}],
         CommandsFrom(l, IncomingLinkEstablished(LineBusy(core))))

LinkUpOutgoing(core, l) == Step([core EXCEPT !.ingress = @ \cup {l}], <<>>)

(* The generic event is outgoing exactly when it names the active link of  *)
(* an outgoing call.                                                       *)
LinkEstablished(core, l) ==
    IF IsActive(core, l) /\ core.active.call.role = "Outgoing"
    THEN LinkUpOutgoing(core, l)
    ELSE LinkUpIncoming(core, l)

RemoteIdentified(core, l, identity) ==
    LET allowed == IsAllowed(core.access, identity)
        outcome == CallerIdentified(IncomingCall, LineBusy(core), allowed)
    IN  IF l \notin core.pending \cup core.ingress
        THEN Refuse(core, "UnknownLink")
        ELSE Step(IF LineBusy(core) \/ ~allowed
                  THEN [core EXCEPT !.pending = @ \ {l}, !.ingress = @ \ {l}]
                  ELSE [core EXCEPT !.pending = @ \ {l},
                                    !.active  = [link |-> l, identity |-> identity,
                                                 call |-> outcome.call]],
                  CommandsFrom(l, outcome.actions))

(* Deliberate fault: a closed link ends the call and leaves its audio      *)
(* running.                                                                *)
LinkClosedPlaying(core, l) ==
    IF IsActive(core, l)
    THEN Step(Released(core, l), CommandsFrom(l, <<CallTerminated(NoReason)>>))
    ELSE Step([core EXCEPT !.pending = @ \ {l}, !.ingress = @ \ {l}], <<>>)

LinkClosed(core, l) ==
    IF IsActive(core, l)
    THEN Step(Released(core, l),
              CommandsFrom(l, <<Do("StopAudioPipelines"), CallTerminated(NoReason)>>))
    ELSE Step([core EXCEPT !.pending = @ \ {l}, !.ingress = @ \ {l}], <<>>)

ReceiveOn(core, l, signal) ==
    LET outcome == ReceiveSignal(core.active.call, signal)
        reason  == outcome.actions[1].reason
    IN  IF ~HasCall(core) THEN Refuse(core, "NoActiveCall")
        ELSE IF core.active.link # l THEN Refuse(core, "WrongActiveLink")
        ELSE IF Terminates(outcome.actions)
        THEN Step(Released(core, l),
                  CommandsFrom(l, <<Do("StopAudioPipelines"), Do("TeardownLink"),
                                    CallTerminated(reason)>>))
        ELSE Step(WithCall(core, outcome.call),
                  CommandsFrom(l, outcome.actions))

(* The second signal of a packet acts on the core the first one left.  If  *)
(* it fails, the whole packet fails: the commands the first one asked for  *)
(* are lost, its effect on the core is not.                                *)
AndThen(first, l, signal) ==
    LET second == ReceiveOn(first.core, l, signal)
    IN  IF first.result # "ok" THEN first
        ELSE IF second.result # "ok" THEN Refuse(second.core, second.result)
        ELSE Step(second.core, first.commands \o second.commands)

MaxSignals == 2     \* signals in one LXST packet that the model considers

SingleSignals == {<<s>> : s \in Signal}
SignalPairs   == {<<s, t>> : s, t \in Signal}

Packets == {<<>>} \cup SingleSignals \cup SignalPairs

(* A packet is orderly if no signal stands behind one that ends the call.  *)
Final(signal) == signal \in {StatusSignal(Busy), StatusSignal(Rejected)}

Orderly(packet) == Len(packet) = MaxSignals => ~Final(packet[1])

AcceptPlaintext(core, l, signals) ==
    IF l \notin core.ingress THEN Refuse(core, "UnknownLink")
    ELSE IF signals = <<>> THEN Step(core, <<>>)
    ELSE IF Len(signals) = 1 THEN ReceiveOn(core, l, signals[1])
    ELSE AndThen(ReceiveOn(core, l, signals[1]), l, signals[2])

-----------------------------------------------------------------------------
(* Local operations *)

(* Deliberate fault: the dialled link's packets are parsed only once it is *)
(* up.                                                                     *)
StartOutgoingCallDeaf(core, l, identity, profile) ==
    IF LineBusy(core) THEN Refuse(core, "LineBusy")
    ELSE Step([core EXCEPT !.active = [link |-> l, identity |-> identity,
                                       call |-> OutgoingCall(profile)]],
              <<>>)

StartOutgoingCall(core, l, identity, profile) ==
    IF LineBusy(core) THEN Refuse(core, "LineBusy")
    ELSE Step([core EXCEPT !.ingress = @ \cup {l},
                           !.active  = [link |-> l, identity |-> identity,
                                        call |-> OutgoingCall(profile)]],
              <<>>)

(* The operations addressed to one exact link share these two errors. *)
WrongCall(core, l) ==
    IF ~HasCall(core) THEN "NoActiveCall" ELSE "WrongActiveLink"

AnswerActive(core, l) ==
    LET outcome == Answer(core.active.call)
    IN  IF ~IsActive(core, l) THEN Refuse(core, WrongCall(core, l))
        ELSE IF ~CanAnswer(core.active.call) THEN Refuse(core, "CallNotAnswerable")
        ELSE Step(WithCall(core, outcome.call),
                  CommandsFrom(l, outcome.actions))

RetryAnswerActive(core, l) ==
    IF ~IsActive(core, l) THEN Refuse(core, WrongCall(core, l))
    ELSE IF ~CanRetryAnswer(core.active.call) THEN Refuse(core, "CallNotAnswerable")
    ELSE Step(core, CommandsFrom(l, RetryAnswer(core.active.call)))

SwitchActiveProfile(core, p) ==
    LET outcome == SwitchTo(core.active.call, p)
    IN  IF ~HasCall(core) THEN Refuse(core, "NoActiveCall")
        ELSE IF core.active.call.status # Established
        THEN Refuse(core, "CallNotEstablished")
        ELSE Step(WithCall(core, outcome.call),
                  CommandsFrom(core.active.link, outcome.actions))

(* Deliberate fault: a local hangup is not announced.                      *)
TerminateUnannounced(core, ringTimeout, reason) ==
    LET l       == core.active.link
        actions == Hangup(core.active.call, ringTimeout).actions
    IN  IF ~HasCall(core) THEN Refuse(core, "NoActiveCall")
        ELSE Step(Released(core, l),
                  CommandsFrom(l, actions \o <<Do("StopAudioPipelines")>>))

TerminateActive(core, ringTimeout, reason) ==
    LET l       == core.active.link
        actions == Hangup(core.active.call, ringTimeout).actions
    IN  IF ~HasCall(core) THEN Refuse(core, "NoActiveCall")
        ELSE Step(Released(core, l),
                  CommandsFrom(l, actions \o <<Do("StopAudioPipelines"), CallTerminated(reason)>>))

HangupActive(core, ringTimeout) == TerminateActive(core, ringTimeout, NoReason)

TimeoutAnswerActive(core, l) ==
    IF ~IsActive(core, l) THEN Refuse(core, WrongCall(core, l))
    ELSE IF ~CanRetryAnswer(core.active.call) THEN Refuse(core, "CallNotAnswerable")
    ELSE TerminateActive(core, FALSE, Connecting)

(* Deliberate fault: a shutdown forgets the pending links without tearing  *)
(* them down.                                                              *)
ShutdownOnlyCall(core, order) ==
    Step([core EXCEPT !.active = NoCall, !.pending = {}, !.ingress = {}],
         HangupActive(core, FALSE).commands)

(* The order in which pending links are torn down is that of a hash set;   *)
(* order is some sequence of them.                                         *)
ShutdownCore(core, order) ==
    LET hungup == HangupActive(core, FALSE)
    IN  Step([core EXCEPT !.active = NoCall, !.pending = {}, !.ingress = {}],
             hungup.commands \o
               [i \in DOMAIN order |-> Command(order[i], Do("TeardownLink"))])
=============================================================================
