-------------------------- MODULE TelephonyService --------------------------
(***************************************************************************)
(* TelephonyService (lxst-telephony, lib.rs): the task that owns a         *)
(* RuntimeCore and its Reticulum endpoint, and that talks to the           *)
(* application through a channel of controls and a channel of events.      *)
(*                                                                         *)
(* The task runs one handler at a time, so a control, a due timer and a    *)
(* completed discovery are one action each.  Only a drive is cut into its  *)
(* steps, because it handles every event that is ready before it publishes *)
(* anything: DriveOne handles one link event and holds back what the       *)
(* application is to hear of it; PublishOne and EndDrive follow when the   *)
(* endpoint has run dry.                                                   *)
(*                                                                         *)
(* The endpoint is what the service sees of it: which links it owns, and   *)
(* whether it accepts a command.                                           *)
(***************************************************************************)
EXTENDS RuntimeCore, FiniteSets

CONSTANTS
    Payloads,       \* the signals of the LXST packets that peers send
    Dials,          \* the calls the application asks for
    MaxTasks,       \* discoveries of one dial that may be under way at once
    Patience,       \* ticks until a call timer is due
    Disorders,      \* what may go wrong around the service, see below
    None            \* Option::None

(* "dispatch"  the mailbox of the transport is full for the registration   *)
(*             or the request of a new link;                               *)
(* "promote"   it is full when the proof of an outgoing link arrives;      *)
(* "batch"     it is full for the signals of an answer;                    *)
(* "control"   a command of a control or a timer is refused, for want of   *)
(*             room or by the link;                                        *)
(* "drive"     a command of a link event is refused;                       *)
(* "stray"     packets on links that do not carry the call;                *)
(* "again"     identification on links that are not pending;               *)
(* "audio"     inbound audio in the batch that changes the profile;        *)
(* "encode"    a frame of the application that the encoder rejects;        *)
(* "drop"      a link is gone before the drive comes to its events.        *)
AllDisorders == {"dispatch", "promote", "batch", "control", "drive",
                 "stray", "again", "audio", "encode", "drop"}

Dial   == [identity : Identities, profile : Profiles \cup {NoProfile}]
Stream == [link : Links, profile : Profiles]
Timer  == [link : Links, kind : {"IncomingRing", "OutgoingCall"}, left : 0 .. Patience]
Offer  == [link : Links, left : 0 .. Patience]

ASSUME ServiceAssumption ==
    /\ IsFiniteSet(Links)
    /\ Payloads \subseteq Packets
    /\ Dials \subseteq Dial
    /\ MaxTasks \in Nat \ {0}
    /\ Patience \in Nat \ {0}
    /\ Disorders \subseteq AllDisorders
    /\ None \notin Dial \cup Stream \cup Timer \cup Offer

VARIABLES
    core,
    loop,           \* "idle", "driving", "publishing" or "stopped"
    held,           \* announcements of the drive that are not published yet
    wire,           \* the links as the endpoint owns them
    offered,        \* links whose whole answer the transport admitted
    timer,          \* active_timeout
    answering,      \* the answer that waits for the caller's echo
    discovery,      \* outgoing_discovery
    tasks,          \* how many discoveries of each dial are under way
    transmit,       \* opus_transmit_stream
    receive,        \* opus_receive_stream
    told,           \* what the application heard of the call on each link
    dialling,       \* what it heard of its last dial: "no", "yes", "broken"
    onAir           \* the streams it believes to be running

loopVars  == <<loop, held>>
timerVars == <<timer, answering>>
dialVars  == <<discovery, tasks, dialling>>
mediaVars == <<transmit, receive, onAir>>
vars == <<core, wire, offered, told, loopVars, timerVars, dialVars, mediaVars>>

Announcement == [link : Links, action : {Do("RingIncomingCall")}
                                   \cup {CallTerminated(r) : r \in Status \cup {NoReason}}]

TypeOK ==
    /\ core \in Core
    /\ loop \in {"idle", "driving", "publishing", "stopped"}
    /\ held \in Seq(Announcement)
    /\ wire \in [Links -> {"unused", "requested", "outgoing", "incoming",
                        "dropped", "retired", "closing", "gone"}]
    /\ offered \subseteq Links
    /\ timer \in Timer \cup {None}
    /\ answering \in Offer \cup {None}
    /\ discovery \in Dials \cup {None}
    /\ tasks \in [Dials -> 0 .. MaxTasks]
    /\ transmit \in Stream \cup {None}
    /\ receive \in Stream \cup {None}
    /\ told \in [Links -> {"none", "live", "over", "broken"}]
    /\ dialling \in {"no", "yes", "broken"}
    /\ onAir \subseteq {"transmit", "receive"}

Init ==
    /\ core = NewCore([allowed |-> Identities, blocked |-> {}])
    /\ loop = "idle"
    /\ held = <<>>
    /\ wire = [l \in Links |-> "unused"]
    /\ offered = {}
    /\ timer = None
    /\ answering = None
    /\ discovery = None
    /\ tasks = [d \in Dials |-> 0]
    /\ transmit = None
    /\ receive = None
    /\ told = [l \in Links |-> "none"]
    /\ dialling = "no"
    /\ onAir = {}

-----------------------------------------------------------------------------
(* The endpoint's side: carrying out commands *)

Executable == {"SendSignal", "IdentifyLocalIdentity", "TeardownLink"}

Owned(links, l) == links[l] \in {"requested", "outgoing", "incoming"}

TornDown(state) == IF state = "incoming" THEN "closing" ELSE "gone"

(* The links after the teardowns among the commands at positions at. *)
TearDown(links, commands, at) ==
    [l \in Links |->
        IF \E i \in at : commands[i] = Command(l, Do("TeardownLink"))
        THEN TornDown(links[l]) ELSE links[l]]

(* Only the teardown of an incoming link, and of one still being           *)
(* requested, needs no room in the mailbox of the transport.               *)
NeedsRoom(links, command) ==
    command.action.type # "TeardownLink" \/ links[command.link] = "outgoing"

(* The ways a list of commands can end: all carried out, or a first one    *)
(* refused.  A refused teardown of an outgoing link still drops the link.  *)
(* A link the endpoint does not own refuses every command.                 *)
Outcomes(commands, links, occasion) ==
    LET due       == {i \in DOMAIN commands : commands[i].action.type \in Executable}
        unknown   == {i \in due : ~Owned(links, commands[i].link)}
        refusable == {i \in due : occasion \in Disorders /\ NeedsRoom(links, commands[i])}
        first     == {i \in unknown \cup refusable : \A j \in unknown : i <= j}
        before(i) == {j \in due : j < i \/ (j = i /\ i \notin unknown)}
    IN  {[ok |-> FALSE, links |-> TearDown(links, commands, before(i))] : i \in first}
          \cup {[ok |-> TRUE, links |-> TearDown(links, commands, due)] : i \in {0} \ unknown}

-----------------------------------------------------------------------------
(* The application's side: what it hears *)

IsAnnounced(command) == command.action.type \in {"RingIncomingCall", "CallTerminated"}

(* No list of commands makes more than one announcement. *)
Announced(commands) ==
    LET announcing == {i \in DOMAIN commands : IsAnnounced(commands[i])}
    IN  IF announcing = {} THEN <<>> ELSE <<commands[CHOOSE i \in announcing : TRUE]>>

Hear(state, type) ==
    IF type = "RingIncomingCall"
    THEN IF state = "none" THEN "live" ELSE "broken"
    ELSE IF state = "live" THEN "over" ELSE "broken"

Heard(announcement) ==
    [told EXCEPT ![announcement.link] = Hear(@, announcement.action.type)]

HeardAll(commands) ==
    IF Announced(commands) = <<>> THEN told ELSE Heard(Announced(commands)[1])

-----------------------------------------------------------------------------
(* refresh_active_timeout *)

AwaitsEcho(c, l) == IsActive(c, l) /\ CanRetryAnswer(c.active.call)

(* A stream lives as long as its call is established in its profile. *)
StreamFits(c, s) ==
    /\ IsActive(c, s.link)
    /\ c.active.call.status = Established
    /\ c.active.call.profile = s.profile

(* Deliberate fault: streams are cleared only when no call is left.        *)
KeptWhileBusy(c, s) == IF HasCall(c) THEN s ELSE None

Kept(c, s) == IF s # None /\ StreamFits(c, s) THEN s ELSE None

StillAnswering(c, a) == IF a # None /\ AwaitsEcho(c, a.link) THEN a ELSE None

(* Deliberate fault: only incoming calls are timed.                        *)
TimerKindIncoming(c) ==
    IF HasCall(c) /\ c.active.call.role = "Incoming" /\ c.active.call.status = Ringing
    THEN "IncomingRing"
    ELSE "none"

(* The kind of timer the call needs, if any. *)
TimerKind(c) ==
    IF ~HasCall(c) THEN "none"
    ELSE IF c.active.call.role = "Incoming" /\ c.active.call.status = Ringing
    THEN "IncomingRing"
    ELSE IF c.active.call.role = "Outgoing" /\ c.active.call.status # Established
    THEN "OutgoingCall"
    ELSE "none"

NewTimer(c) == [link |-> c.active.link, kind |-> TimerKind(c), left |-> Patience]

(* Deliberate fault: every refresh sets the timer anew.                    *)
TimerForRestarted(c, t) == IF TimerKind(c) = "none" THEN None ELSE NewTimer(c)

(* A timer of the same call and kind goes on; any other is replaced. *)
TimerFor(c, t) ==
    IF TimerKind(c) = "none" THEN None
    ELSE IF t # None /\ t = [NewTimer(c) EXCEPT !.left = t.left] THEN t
    ELSE NewTimer(c)

(* Deliberate fault: streams are stopped without an event.                 *)
RefreshSilently(c, t, a) ==
    /\ timer'     = TimerFor(c, t)
    /\ answering' = StillAnswering(c, a)
    /\ transmit'  = Kept(c, transmit)
    /\ receive'   = Kept(c, receive)
    /\ UNCHANGED onAir

Refresh(c, t, a) ==
    /\ timer'     = TimerFor(c, t)
    /\ answering' = StillAnswering(c, a)
    /\ transmit'  = Kept(c, transmit)
    /\ receive'   = Kept(c, receive)
    /\ onAir'     = onAir \ ((IF Kept(c, transmit) # transmit THEN {"transmit"} ELSE {})
                        \cup (IF Kept(c, receive) # receive THEN {"receive"} ELSE {}))

-----------------------------------------------------------------------------
(* Driving the endpoint *)

(* Deliberate fault: each step replaces what earlier steps announced.      *)
DriveLast(step, linksNow) ==
    /\ loop \in {"idle", "driving"}
    /\ core' = step.core
    /\ \E out \in (IF step.result = "ok" THEN Outcomes(step.commands, linksNow, "drive")
                   ELSE {[ok |-> FALSE, links |-> linksNow]}) :
          /\ wire' = out.links
          /\ held' = IF out.ok THEN Announced(step.commands) ELSE <<>>
          /\ loop' = IF out.ok THEN "driving" ELSE "idle"
    /\ UNCHANGED <<offered, told, timerVars, dialVars, mediaVars>>

(* A step the core refuses, or whose commands the endpoint refuses, ends   *)
(* the whole drive with an Error event: what was held is dropped.          *)
Drive(step, linksNow) ==
    /\ loop \in {"idle", "driving"}
    /\ core' = step.core
    /\ \E out \in (IF step.result = "ok" THEN Outcomes(step.commands, linksNow, "drive")
                   ELSE {[ok |-> FALSE, links |-> linksNow]}) :
          /\ wire' = out.links
          /\ held' = IF out.ok THEN held \o Announced(step.commands) ELSE <<>>
          /\ loop' = IF out.ok THEN "driving" ELSE "idle"
    /\ UNCHANGED <<offered, told, timerVars, dialVars, mediaVars>>

IncomingUp(l) ==
    /\ wire[l] = "unused"
    /\ Drive(LinkEstablished(core, l), [wire EXCEPT ![l] = "incoming"])

OutgoingUp(l) ==
    /\ wire[l] = "requested"
    /\ Drive(LinkEstablished(core, l), [wire EXCEPT ![l] = "outgoing"])

(* What an incoming link had queued before it was lost or torn down still  *)
(* arrives, and before its close does (try_recv_link_event).               *)
Late(l, disorder) ==
    disorder \in Disorders /\ wire[l] \in {"incoming", "dropped", "closing"}

Identified(l) ==
    /\ (wire[l] \in {"incoming", "dropped"} /\ l \in core.pending) \/ Late(l, "again")
    /\ \E i \in Identities : Drive(RemoteIdentified(core, l, i), wire)

PacketIn(l) ==
    /\ (wire[l] \in {"incoming", "outgoing", "dropped"} /\ IsActive(core, l))
          \/ Late(l, "stray")
    /\ \E signals \in Payloads : Drive(AcceptPlaintext(core, l, signals), wire)

(* The link manager loses an incoming link, or the endpoint retires an     *)
(* outgoing one, before the drive comes to the events that are queued.     *)
Dropped(l) ==
    /\ "drop" \in Disorders
    /\ Owned(wire, l)
    /\ loop \in {"idle", "driving"}
    /\ loop' = "driving"
    /\ wire' = [wire EXCEPT ![l] = IF @ = "incoming" THEN "dropped" ELSE "retired"]
    /\ UNCHANGED <<core, held, offered, told, timerVars, dialVars, mediaVars>>

CloseQueued(l) == wire[l] \in {"dropped", "retired"}

Closed(l) ==
    /\ Owned(wire, l) \/ CloseQueued(l) \/ wire[l] = "closing"
    /\ Drive(LinkClosed(core, l), [wire EXCEPT ![l] = "gone"])

(* The proof of an outgoing link is good, but its binding cannot be        *)
(* queued: the link is retired, its LinkClosed queued behind the error.    *)
PromotionFails(l) ==
    /\ "promote" \in Disorders
    /\ wire[l] = "requested"
    /\ loop \in {"idle", "driving"}
    /\ wire' = [wire EXCEPT ![l] = "retired"]
    /\ held' = <<>>
    /\ loop' = "idle"
    /\ UNCHANGED <<core, offered, told, timerVars, dialVars, mediaVars>>

(* A drive does not stop before it has handled the closes it found. *)
NothingQueued == \A l \in Links : ~CloseQueued(l)

PublishOne ==
    /\ loop \in {"driving", "publishing"}
    /\ held # <<>>
    /\ loop = "driving" => NothingQueued
    /\ loop' = "publishing"
    /\ told' = Heard(Head(held))
    /\ held' = Tail(held)
    /\ UNCHANGED <<core, wire, offered, timerVars, dialVars, mediaVars>>

(* deliver_opus_receive_stream compares the stream with the call as the    *)
(* whole drive left it; a stream that no longer fits goes without a word.  *)
SpoilReceive ==
    /\ "audio" \in Disorders
    /\ loop \in {"driving", "publishing"}
    /\ loop = "driving" => NothingQueued
    /\ receive # None
    /\ HasCall(core) /\ core.active.call.status = Established
    /\ receive # [link |-> core.active.link, profile |-> EnsuredProfile(core.active.call)]
    /\ loop' = "publishing"
    /\ receive' = None
    /\ UNCHANGED <<core, held, wire, offered, told, timerVars, dialVars, transmit, onAir>>

EndDrive ==
    /\ loop \in {"driving", "publishing"}
    /\ held = <<>>
    /\ loop = "driving" => NothingQueued
    /\ loop' = "idle"
    /\ Refresh(core, timer, answering)
    /\ UNCHANGED <<core, held, wire, offered, told, dialVars>>

-----------------------------------------------------------------------------
(* Controls of a call *)

(* control_commands: the step's commands are carried out and published.    *)
(* When the endpoint refuses one of them nothing is published.             *)
Control(step, t) ==
    /\ core' = step.core
    /\ \E out \in Outcomes(step.commands, wire, "control") :
          /\ wire' = out.links
          /\ IF out.ok
             THEN told' = HeardAll(step.commands) /\ Refresh(step.core, t, answering)
             ELSE timer' = t /\ UNCHANGED <<told, answering, mediaVars>>
    /\ UNCHANGED <<offered, dialVars, loopVars>>

(* Deliberate fault: a refused answer leaves the call answered.            *)
AnswerExactKept(l) ==
    LET step == AnswerActive(core, l) IN
    /\ loop = "idle"
    /\ step.result = "ok"
    /\ core' = step.core
    /\ \/ /\ Owned(wire, l)
          /\ offered' = offered \cup {l}
          /\ told' = HeardAll(step.commands)
          /\ Refresh(step.core, timer, [link |-> l, left |-> Patience])
       \/ /\ "batch" \in Disorders \/ ~Owned(wire, l)
          /\ UNCHANGED <<offered, told, timerVars, mediaVars>>
    /\ UNCHANGED <<wire, dialVars, loopVars>>

(* answer_exact: both signals of the answer get a place in the mailbox, or *)
(* the call is again what it was.                                          *)
AnswerExact(l) ==
    LET step == AnswerActive(core, l) IN
    /\ loop = "idle"
    /\ step.result = "ok"
    /\ \/ /\ Owned(wire, l)
          /\ core' = step.core
          /\ offered' = offered \cup {l}
          /\ told' = HeardAll(step.commands)
          /\ Refresh(step.core, timer, [link |-> l, left |-> Patience])
       \/ /\ "batch" \in Disorders \/ ~Owned(wire, l)
          /\ UNCHANGED <<core, offered, told, timerVars, mediaVars>>
    /\ UNCHANGED <<wire, dialVars, loopVars>>

HangupControl(ringTimeout) ==
    /\ loop = "idle"
    /\ discovery = None
    /\ HasCall(core)
    /\ Control(HangupActive(core, ringTimeout), timer)

Switch(p) ==
    /\ loop = "idle"
    /\ SwitchActiveProfile(core, p).result = "ok"
    /\ Control(SwitchActiveProfile(core, p), timer)

SetBusy(busy) ==
    /\ loop = "idle"
    /\ core' = SetExternalBusy(core, busy).core
    /\ Refresh(core', timer, answering)
    /\ UNCHANGED <<wire, offered, told, dialVars, loopVars>>

(* Everything that makes the task leave its loop: the control, or a        *)
(* channel that closed.  Refused commands go unnoticed now.                *)
Enumerations(S) ==
    {order \in [1 .. Cardinality(S) -> S] : \A x \in S : \E i \in DOMAIN order : order[i] = x}

ShutDown ==
    /\ loop = "idle"
    /\ loop' = "stopped"
    /\ \E order \in Enumerations(core.pending) :
          LET step == ShutdownCore(core, order) IN
          /\ core' = step.core
          /\ \E out \in Outcomes(step.commands, wire, "control") :
                /\ wire' = out.links
                /\ told' = IF out.ok THEN HeardAll(step.commands) ELSE told
    /\ discovery' = None
    /\ timer' = None /\ answering' = None
    /\ transmit' = None /\ receive' = None /\ onAir' = {}
    /\ UNCHANGED <<held, offered, tasks, dialling>>

-----------------------------------------------------------------------------
(* Dialling *)

(* The outcome of a dial is heard once, and only while one is pending. *)
DialOutcome == IF dialling = "yes" THEN "no" ELSE "broken"

(* start_outgoing_discovery: a busy line answers with a plain Error. *)
StartDiscovery(d) ==
    /\ loop = "idle"
    /\ ~LineBusy(core)
    /\ discovery = None
    /\ tasks[d] < MaxTasks
    /\ discovery' = d
    /\ tasks' = [tasks EXCEPT ![d] = @ + 1]
    /\ dialling' = IF dialling = "no" THEN "yes" ELSE "broken"
    /\ UNCHANGED <<core, wire, offered, told, timerVars, mediaVars, loopVars>>

(* A hangup during a discovery cancels the discovery, and nothing else. *)
CancelDial ==
    /\ loop = "idle"
    /\ discovery # None
    /\ discovery' = None
    /\ dialling' = DialOutcome
    /\ UNCHANGED <<core, wire, offered, told, tasks, timerVars, mediaVars, loopVars>>

DialFails ==
    /\ dialling' = DialOutcome
    /\ UNCHANGED <<told, timerVars, mediaVars>>

(* The discovery itself failed, or the path request or the core refuses. *)
NoDialling ==
    /\ DialFails
    /\ UNCHANGED <<core, wire>>

(* The link is requested and the application told.  *)
Dialled(l, step) ==
    /\ core' = step.core
    /\ wire' = [wire EXCEPT ![l] = "requested"]
    /\ told' = [told EXCEPT ![l] = IF @ = "none" THEN "live" ELSE "broken"]
    /\ dialling' = DialOutcome
    /\ Refresh(step.core, timer, answering)

(* The core took the call, then the transport did not take the link.       *)
DispatchFails(l, step) ==
    /\ "dispatch" \in Disorders
    /\ core' = step.core
    /\ wire' = [wire EXCEPT ![l] = "gone"]
    /\ DialFails

(* Deliberate fault: every completion is believed.                         *)
BelievedAlways(d) == TRUE

(* A completion is believed if it names what is being discovered now. *)
Believed(d) == discovery = d

Discovered(d) ==
    /\ loop = "idle"
    /\ tasks[d] > 0
    /\ tasks' = [tasks EXCEPT ![d] = @ - 1]
    /\ IF Believed(d)
       THEN /\ discovery' = None
            /\ \/ NoDialling
               \/ \E l \in Links :
                     LET step == StartOutgoingCall(core, l, d.identity, d.profile) IN
                     /\ wire[l] = "unused"
                     /\ step.result = "ok"
                     /\ Dialled(l, step) \/ DispatchFails(l, step)
       ELSE UNCHANGED <<core, wire, told, timerVars, mediaVars, discovery, dialling>>
    /\ UNCHANGED <<offered, loopVars>>

-----------------------------------------------------------------------------
(* Timers *)

Tick ==
    /\ loop # "stopped"
    /\ \E t \in {timer, answering} : t # None /\ t.left > 0
    /\ timer' = IF timer # None /\ timer.left > 0
                THEN [timer EXCEPT !.left = @ - 1] ELSE timer
    /\ answering' = IF answering # None /\ answering.left > 0
                    THEN [answering EXCEPT !.left = @ - 1] ELSE answering
    /\ UNCHANGED <<core, wire, offered, told, loopVars, dialVars, mediaVars>>

(* The answer is repeated, if the mailbox has room, as long as its call    *)
(* waits for the echo.                                                     *)
RetryDue ==
    /\ loop = "idle"
    /\ answering # None
    /\ answering.left > 0
    /\ answering' = IF RetryAnswerActive(core, answering.link).result = "ok"
                    THEN answering ELSE None
    /\ UNCHANGED <<core, wire, offered, told, timer, loopVars, dialVars, mediaVars>>

(* timeout_answering publishes the end of the call even when the endpoint  *)
(* refuses its commands.                                                   *)
AnswerExpires ==
    LET step == TimeoutAnswerActive(core, answering.link) IN
    /\ loop = "idle"
    /\ answering # None
    /\ answering.left = 0
    /\ IF step.result = "ok"
       THEN /\ core' = step.core
            /\ \E out \in Outcomes(step.commands, wire, "control") : wire' = out.links
            /\ told' = HeardAll(step.commands)
            /\ Refresh(step.core, timer, None)
       ELSE /\ answering' = None
            /\ UNCHANGED <<core, wire, told, timer, mediaVars>>
    /\ UNCHANGED <<offered, loopVars, dialVars>>

(* The timer is due for the call it was set for, still in the same phase. *)
TimesOut ==
    /\ IsActive(core, timer.link)
    /\ TimerKind(core) = timer.kind

TimerExpires ==
    /\ loop = "idle"
    /\ timer # None
    /\ timer.left = 0
    /\ IF TimesOut
       THEN Control(HangupActive(core, timer.kind = "IncomingRing"), None)
       ELSE /\ IF HasCall(core)
               THEN Refresh(core, timer, answering)
               ELSE timer' = None /\ UNCHANGED <<answering, mediaVars>>
            /\ UNCHANGED <<core, wire, offered, told, loopVars, dialVars>>

-----------------------------------------------------------------------------
(* Media streams *)

StreamOf(c) == [link |-> c.active.link, profile |-> EnsuredProfile(c.active.call)]

CanStream == HasCall(core) /\ core.active.call.status = Established

(* send_opus_frames looks at the active call, not at the stream's link. *)
Sendable(s) == CanStream /\ s.profile = EnsuredProfile(core.active.call)

MediaStep ==
    /\ loop = "idle"
    /\ UNCHANGED <<core, wire, offered, told, loopVars, dialVars, timerVars>>

StartTransmit ==
    /\ MediaStep
    /\ CanStream
    /\ transmit' = StreamOf(core)
    /\ onAir' = onAir \cup {"transmit"}
    /\ UNCHANGED receive

(* On request, or when the source closed. *)
StopTransmit ==
    /\ MediaStep
    /\ transmit # None
    /\ transmit' = None
    /\ onAir' = onAir \ {"transmit"}
    /\ UNCHANGED receive

(* Frames of the source that cannot be sent cost the stream its life. *)
PumpFails ==
    /\ MediaStep
    /\ transmit # None
    /\ "encode" \in Disorders \/ ~Sendable(transmit)
    /\ transmit' = None
    /\ UNCHANGED <<receive, onAir>>

StartReceive ==
    /\ MediaStep
    /\ CanStream
    /\ receive' = StreamOf(core)
    /\ onAir' = onAir \cup {"receive"}
    /\ UNCHANGED transmit

(* On request, or when the sink closed. *)
StopReceive ==
    /\ MediaStep
    /\ receive # None
    /\ receive' = None
    /\ onAir' = onAir \ {"receive"}
    /\ UNCHANGED transmit

-----------------------------------------------------------------------------
LinkEvent(l) ==
    IncomingUp(l) \/ OutgoingUp(l) \/ Identified(l) \/ PacketIn(l) \/ Closed(l)
      \/ PromotionFails(l) \/ Dropped(l)

Timers == Tick \/ RetryDue \/ AnswerExpires \/ TimerExpires

Media == StartTransmit \/ StopTransmit \/ PumpFails \/ StartReceive \/ StopReceive

Publish == PublishOne \/ SpoilReceive \/ EndDrive

Next ==
    \/ \E l \in Links : LinkEvent(l) \/ AnswerExact(l)
    \/ Publish
    \/ \E b \in BOOLEAN : HangupControl(b) \/ SetBusy(b)
    \/ \E p \in Profiles : Switch(p)
    \/ \E d \in Dials : StartDiscovery(d) \/ Discovered(d)
    \/ CancelDial \/ ShutDown
    \/ Timers
    \/ Media

Spec == Init /\ [][Next]_vars

(* Due timers and finished discoveries are served although links keep the  *)
(* task busy: select! picks among ready branches at random, so a branch    *)
(* that is ready again and again is taken.  A drive ends because events    *)
(* are drained faster than peers send them.                                *)
Fairness ==
    /\ WF_vars(Tick) /\ WF_vars(PublishOne) /\ WF_vars(EndDrive)
    /\ SF_vars(AnswerExpires) /\ SF_vars(TimerExpires)
    /\ \A d \in Dials : SF_vars(Discovered(d))

FairSpec == Spec /\ Fairness

-----------------------------------------------------------------------------
(* Properties.  Between handlers the application, the timers and the       *)
(* streams agree with the core.                                            *)

(* The line is never taken by a call the application does not know of.     *)
NoPhantomCall ==
    loop = "idle" /\ HasCall(core) => told[core.active.link] = "live"

(* A call the application believes to be live is: every way a call can end *)
(* reaches it as CallTerminated (drive_ready, control_commands, timers).   *)
EndAnnounced ==
    loop \in {"idle", "stopped"} =>
        \A l \in Links : told[l] = "live" => IsActive(core, l)

(* The event stream is the application's view of its calls: it knows of    *)
(* every call there is and of no other, and no call begins or ends twice.  *)
CallsTold ==
    /\ NoPhantomCall
    /\ EndAnnounced
    /\ \A l \in Links : told[l] # "broken"

Clocks == {timer, answering} \ {None}

(* Whatever a call waits for, exactly one clock ends the waiting, and none *)
(* of an earlier call or phase is left (refresh_active_timeout).           *)
EveryCallTimed ==
    loop = "idle" =>
        IF HasCall(core) /\ core.active.call.status # Established
        THEN /\ Cardinality(Clocks) = 1
             /\ \A clock \in Clocks : clock.link = core.active.link
             /\ answering # None <=> core.active.call.answered
             /\ timer # None =>
                   (timer.kind = "IncomingRing" <=> core.active.call.role = "Incoming")
        ELSE Clocks = {}

(* A call is answered only when both signals of its answer were admitted;  *)
(* an answer the transport had no room for left the call ringing.          *)
AnsweredMeansOffered ==
    HasCall(core) /\ core.active.call.answered => core.active.link \in offered

(* Each dial the application was promised an outcome of gets exactly one:  *)
(* by a cancellation, or by a discovery of the same identity and profile,  *)
(* which is under way as long as the dial is pending.  Discoveries of      *)
(* other dials, late or failed, settle nothing; of two discoveries of the  *)
(* same identity and profile either may, for the code tells no more apart. *)
DialLedger ==
    /\ dialling # "broken"
    /\ loop # "stopped" => (dialling = "yes" <=> discovery # None)
    /\ discovery # None => tasks[discovery] > 0

(* No stream outlives its call or its profile, and the application knows   *)
(* which of its streams are running (clear_unless_established).            *)
StreamsAgree ==
    loop = "idle" =>
        /\ \A s \in {transmit, receive} \ {None} : CanStream /\ s = StreamOf(core)
        /\ "transmit" \in onAir <=> transmit # None
        /\ "receive" \in onAir <=> receive # None

(* The loop is typed, and its streams are those of the call it is in. *)
LoopAgrees == TypeOK /\ StreamsAgree

(* Even when hangups fail and drives are cut short, no frame of one call's *)
(* stream is sent on the link of another: send_opus_frames compares only   *)
(* profiles, so what protects the next call is that nothing establishes it *)
(* before its setup has refreshed the streams.                             *)
NoCrossTalk ==
    loop = "idle" /\ transmit # None /\ Sendable(transmit) =>
        transmit.link = core.active.link

(* A call that is being set up is established or over in the end.          *)
SetupEnds ==
    \A l \in Links :
        IsActive(core, l) /\ core.active.call.status # Established
          ~> ~IsActive(core, l) \/ core.active.call.status = Established
=============================================================================
