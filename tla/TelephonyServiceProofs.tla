----------------------- MODULE TelephonyServiceProofs -----------------------
(***************************************************************************)
(* The safety properties of TelephonyService, for every set of links,      *)
(* identities, profiles, dials and timeouts.                               *)
(*                                                                         *)
(* What no disorder breaks needs no assumption: an answered call was       *)
(* offered whole, no frame crosses to another call, every dial has one     *)
(* outcome.  That the application, the clocks and the streams agree with   *)
(* the core is proved of a service whose commands are carried out, except  *)
(* for the signals of an answer: the other refusals are those that break   *)
(* it.                                                                     *)
(***************************************************************************)
EXTENDS TelephonyService, CallProofs, FiniteSetTheorems, TLAPS

-----------------------------------------------------------------------------
(* What holds whatever is refused *)

(* How far a call is: an incoming one rings until it is answered. *)
Shaped(call) ==
    /\ call.role = "Outgoing" => ~call.answered
    /\ call.role = "Incoming" /\ ~call.answered => call.status = Ringing
    /\ call.role = "Incoming" /\ call.answered => call.status >= Connecting

(* A call that the transmit stream is not of has not been refreshed since  *)
(* it began, and nothing can establish it before it is: it waits for its   *)
(* answer, or its link was never requested.                                *)
Waits(call, state) ==
    \/ call.role = "Incoming" /\ ~call.answered
    \/ call.status = Calling /\ state = "gone"

Foreign ==
    transmit # None /\ HasCall(core) /\ transmit.link # core.active.link =>
        Waits(core.active.call, wire[core.active.link])

Sturdy ==
    /\ TypeOK
    /\ HasCall(core) => Shaped(core.active.call)
    /\ AnsweredMeansOffered
    /\ Foreign

-----------------------------------------------------------------------------
(* What holds while commands are carried out *)

(* Nothing is refused but the signals of an answer, and no signal stands   *)
(* behind one that ends the call.                                          *)
Undisturbed ==
    /\ Disorders \subseteq {"batch"}
    /\ \A packet \in Payloads : Orderly(packet)

(* The endpoint owns the links the core speaks to, and what is requested   *)
(* is the link of the call that was dialled.                               *)
Wired ==
    /\ HasCall(core) => Owned(wire, core.active.link) /\ core.active.link \in core.ingress
    /\ \A l \in core.pending :
          wire[l] = "incoming" /\ l \in core.ingress /\ ~IsActive(core, l)
    /\ \A l \in Links :
          wire[l] = "requested" => IsActive(core, l) /\ core.active.call.role = "Outgoing"

(* The announcement of this type on link l is on its way at position i. *)
Due(i, l, type) == held[i].link = l /\ held[i].action.type = type

Rings(l) == \E i \in DOMAIN held : Due(i, l, "RingIncomingCall")
Stops(l) == \E i \in DOMAIN held : Due(i, l, "CallTerminated")

(* What the application heard and will hear of a link is one call at most, *)
(* and ends with what the core holds.                                      *)
Story ==
    /\ \A l \in Links :
          /\ told[l] # "broken"
          /\ IsActive(core, l) <=> (told[l] = "live" \/ Rings(l)) /\ ~Stops(l)
          /\ Rings(l) => told[l] = "none"
          /\ wire[l] = "unused" \/ l \in core.pending => told[l] = "none" /\ ~Rings(l)
          /\ told[l] = "over" => ~Stops(l)
    /\ \A i, j \in DOMAIN held :
          held[i].link = held[j].link /\ held[i].action.type = held[j].action.type => i = j
    /\ \A j \in DOMAIN held : \A l \in Links :
          Due(j, l, "CallTerminated") =>
              told[l] = "live" \/ \E i \in DOMAIN held : i < j /\ Due(i, l, "RingIncomingCall")

(* Between drives nothing is held back. *)
Quiet ==
    /\ loop \in {"idle", "stopped"} => held = <<>>
    /\ loop = "stopped" => ~HasCall(core)

Echoing == \A l \in Links : AwaitsEcho(core, l) => answering # None /\ answering.link = l

(* The clocks are as a refresh leaves them, the streams as they started.   *)
Refreshed ==
    /\ TimerFor(core, timer) = timer
    /\ StillAnswering(core, answering) = answering
    /\ \A s \in {transmit, receive} \ {None} : CanStream /\ s = StreamOf(core)

OnAir ==
    /\ "transmit" \in onAir <=> transmit # None
    /\ "receive" \in onAir <=> receive # None

IInv ==
    /\ Sturdy /\ Wired /\ Story /\ Quiet /\ Echoing /\ OnAir
    /\ loop = "idle" => Refreshed

-----------------------------------------------------------------------------
(* Steps of the core, whatever the packet *)

(* The call of d, if any, is the one of c, no more answered than it was.   *)
Led(c, d) ==
    HasCall(d) =>
        /\ HasCall(c) /\ d.active.link = c.active.link
        /\ d.active.call.role = c.active.call.role
        /\ d.active.call.answered = c.active.call.answered
        /\ d.active.call.status >= c.active.call.status
        /\ c.active.call.role = "Incoming" /\ ~c.active.call.answered
              => d.active.call.status = c.active.call.status

Steady(c, r) ==
    /\ r.core \in Core /\ r.commands \in Seq(Commands)
    /\ Led(c, r.core)

LEMMA CallTyped ==
    ASSUME NEW c \in Core, HasCall(c)
    PROVE  /\ c.active.link \in Links /\ c.active.call \in Call
           /\ c.active.call.status \in 2 .. 6
           /\ c.active.call.role \in {"Incoming", "Outgoing"}
           /\ c.active.call.answered \in BOOLEAN
BY ActiveTyped, StatusValues DEF Call

LEMMA SameLed ==
    ASSUME NEW c \in Core, NEW d, d.active = c.active
    PROVE  Led(c, d)
<1>1. HasCall(d) <=> HasCall(c)
  BY DEF HasCall
<1>2. HasCall(c) => c.active.call.status >= c.active.call.status
  BY CallTyped
<1> QED BY <1>1, <1>2 DEF Led

LEMMA LedTwice ==
    ASSUME NEW c \in Core, NEW d \in Core, NEW e \in Core, Led(c, d), Led(d, e)
    PROVE  Led(c, e)
<1> SUFFICES ASSUME HasCall(e)
             PROVE  Led(c, e)
  BY DEF Led
<1>1. HasCall(c) /\ HasCall(d)
  BY DEF Led
<1>2. /\ c.active.call.status \in 2 .. 6 /\ d.active.call.status \in 2 .. 6
      /\ e.active.call.status \in 2 .. 6
  BY <1>1, CallTyped
<1> QED BY <1>1, <1>2 DEF Led

LEMMA LedShaped ==
    ASSUME NEW c \in Core, NEW d \in Core, Led(c, d), HasCall(d), Shaped(c.active.call)
    PROVE  Shaped(d.active.call)
<1>1. HasCall(c)
  BY DEF Led
<1>2. /\ c.active.call.status \in 2 .. 6 /\ d.active.call.status \in 2 .. 6
      /\ c.active.call.answered \in BOOLEAN
  BY <1>1, CallTyped
<1> QED BY <1>1, <1>2, StatusValues DEF Led, Shaped

LEMMA RefusalSteady ==
    ASSUME NEW c \in Core, NEW e
    PROVE  Steady(c, Refuse(c, e)) /\ Refuse(c, e).core = c
<1>1. Refuse(c, e).core = c /\ Refuse(c, e).commands = <<>>
  BY DEF Refuse
<1> QED BY <1>1, SameLed DEF Steady

LEMMA EndsSteady ==
    ASSUME NEW c, NEW r, NEW l, NEW teardown, Ends(c, r, l, teardown)
    PROVE  Steady(c, r) /\ ~HasCall(r.core)
BY DEF Ends, Steady, Led, HasCall

LEMMA ReceiveOnSteady ==
    ASSUME NEW c \in Core, NEW l \in Links, NEW s \in Signal, NEW r, r = ReceiveOn(c, l, s)
    PROVE  Steady(c, r) /\ (~IsActive(c, l) => r.core = c)
<1> DEFINE o == ReceiveSignal(c.active.call, s)
<1>1. CASE ~IsActive(c, l)
  <2>1. \E e : r = Refuse(c, e)
    BY <1>1 DEF ReceiveOn, IsActive
  <2> QED BY <2>1, RefusalSteady
<1>2. CASE IsActive(c, l) /\ EndsCall(c.active.call, s)
  <2>1. c.active.call \in Call
    BY <1>2, ActiveTyped DEF IsActive
  <2>2. Terminates(o.actions)
    <3>1. o.actions = <<Terminate(s.status)>>
      BY <1>2, <2>1, ReceiveSignalEnds
    <3> QED BY <3>1 DEF Terminates, Terminate
  <2>3. r.core = Released(c, l)
    BY <1>2, <2>2 DEF ReceiveOn, IsActive, Step
  <2>4. ~IsActive(r.core, l)
    BY <2>3, ReleasedTyped DEF IsActive, HasCall
  <2>5. Ends(c, r, l, TRUE)
    BY <1>2, <2>4, ReceiveOnShape DEF Continues
  <2> QED BY <1>2, <2>5, EndsSteady
<1>3. CASE IsActive(c, l) /\ ~EndsCall(c.active.call, s)
  <2>1. HasCall(c) /\ c.active.call \in Call
    BY <1>3, ActiveTyped DEF IsActive
  <2>2. Forward(c.active.call, o) /\ Leads(c.active.call, s, o)
    BY <1>3, <2>1, ReceiveSignalForward, ReceiveTold
  <2>3. ~Terminates(o.actions)
    BY <2>2 DEF Terminates, Forward, Fits, CallAction, CallEffects
  <2>4. r.core = WithCall(c, o.call) /\ r.commands = CommandsFrom(l, o.actions)
    BY <1>3, <2>3 DEF ReceiveOn, IsActive, Step
  <2> HIDE DEF o
  <2>5. o.call \in Call /\ o.actions \in Seq(LineAction)
    BY <2>2 DEF Forward, Fits, CallAction, LineAction
  <2>6. /\ r.core \in Core /\ r.core.active.link = c.active.link
        /\ r.core.active.call = o.call
    BY <2>1, <2>4, <2>5, WithCallTyped
  <2>7. r.commands \in Seq(Commands)
    BY <2>4, <2>5, CommandsTyped
  <2>8. Led(c, r.core)
    BY <2>1, <2>2, <2>6 DEF Led, Forward, Leads
  <2> QED BY <1>3, <2>6, <2>7, <2>8 DEF Steady
<1> QED BY <1>1, <1>2, <1>3

LEMMA PacketSteady ==
    ASSUME NEW c \in Core, NEW l \in Links, NEW p \in Packets, NEW r,
           r = AcceptPlaintext(c, l, p)
    PROVE  Steady(c, r) /\ (~IsActive(c, l) => r.core = c)
<1>1. CASE l \notin c.ingress
  BY <1>1, RefusalSteady DEF AcceptPlaintext
<1>2. CASE l \in c.ingress /\ p = <<>>
  <2>1. r.core = c /\ r.commands = <<>>
    BY <1>2 DEF AcceptPlaintext, Step
  <2> QED BY <2>1, SameLed DEF Steady
<1>3. CASE l \in c.ingress /\ p \in SingleSignals
  <2>1. p[1] \in Signal /\ p # <<>> /\ Len(p) = 1
    BY <1>3 DEF SingleSignals
  <2> QED BY <1>3, <2>1, ReceiveOnSteady DEF AcceptPlaintext
<1>4. CASE l \in c.ingress /\ p \in SignalPairs
  <2> DEFINE f == ReceiveOn(c, l, p[1])
             g == ReceiveOn(f.core, l, p[2])
  <2>1. p[1] \in Signal /\ p[2] \in Signal /\ p # <<>> /\ Len(p) = 2
    BY <1>4 DEF SignalPairs
  <2>2. r = AndThen(f, l, p[2])
    BY <1>4, <2>1 DEF AcceptPlaintext
  <2>3. \/ r = f
        \/ r.core = g.core /\ r.commands = <<>>
        \/ r.core = g.core /\ r.commands = f.commands \o g.commands
    <3>1. \/ r = f
          \/ r = Refuse(g.core, g.result)
          \/ r = Step(g.core, f.commands \o g.commands)
      BY <2>2 DEF AndThen
    <3>2. /\ Refuse(g.core, g.result).core = g.core
          /\ Refuse(g.core, g.result).commands = <<>>
      BY DEF Refuse
    <3>3. /\ Step(g.core, f.commands \o g.commands).core = g.core
          /\ Step(g.core, f.commands \o g.commands).commands = f.commands \o g.commands
      BY DEF Step
    <3> HIDE DEF f, g
    <3> QED BY <3>1, <3>2, <3>3
  <2>4. Steady(c, f) /\ (~IsActive(c, l) => f.core = c)
    BY <2>1, ReceiveOnSteady
  <2>5. Steady(f.core, g) /\ (~IsActive(f.core, l) => g.core = f.core)
    BY <2>1, <2>4, ReceiveOnSteady DEF Steady
  <2> HIDE DEF f, g
  <2>6. Led(c, g.core)
    BY <2>4, <2>5, LedTwice DEF Steady
  <2>7. <<>> \in Seq(Commands) /\ f.commands \o g.commands \in Seq(Commands)
    BY <2>4, <2>5 DEF Steady
  <2>8. r.core \in Core /\ r.commands \in Seq(Commands) /\ Led(c, r.core)
    BY <2>3, <2>4, <2>5, <2>6, <2>7 DEF Steady
  <2> QED BY <2>3, <2>4, <2>5, <2>8 DEF Steady
<1>5. p = <<>> \/ p \in SingleSignals \/ p \in SignalPairs
  BY DEF Packets
<1> QED BY <1>1, <1>2, <1>3, <1>4, <1>5

LEMMA TypedFrom ==
    ASSUME NEW d, NEW l \in Links, NEW a \in Seq(LineAction)
    PROVE  /\ Step(d, CommandsFrom(l, a)).core = d
           /\ Step(d, CommandsFrom(l, a)).result = "ok"
           /\ Step(d, CommandsFrom(l, a)).commands \in Seq(Commands)
BY CommandsTyped DEF Step

LEMMA LinkUpSteady ==
    ASSUME NEW c \in Core, NEW l \in Links, NEW r, r = LinkEstablished(c, l)
    PROVE  Steady(c, r) /\ r.core.active = c.active /\ r.result = "ok"
<1>1. CASE IsActive(c, l) /\ c.active.call.role = "Outgoing"
  <2>1. r = Step([c EXCEPT !.ingress = @ \cup {l}], <<>>)
    BY <1>1 DEF LinkEstablished, LinkUpOutgoing
  <2>2. /\ r.core = [c EXCEPT !.ingress = @ \cup {l}] /\ r.commands = <<>>
        /\ r.result = "ok"
    BY <2>1 DEF Step
  <2>3. r.core \in Core /\ r.core.active = c.active /\ r.commands \in Seq(Commands)
    BY <2>2 DEF Core
  <2> QED BY <2>2, <2>3, SameLed DEF Steady
<1>2. CASE ~(IsActive(c, l) /\ c.active.call.role = "Outgoing")
  <2> DEFINE d == IF LineBusy(c) THEN c
                  ELSE [c EXCEPT !.pending = @ \cup {l}, !.ingress = @ \cup {l}]
             a == IncomingLinkEstablished(LineBusy(c))
  <2>1. r = Step(d, CommandsFrom(l, a))
    BY <1>2 DEF LinkEstablished, LinkUpIncoming
  <2>2. d \in Core /\ d.active = c.active
    BY DEF Core
  <2>3. a \in Seq(LineAction)
    <3>1. /\ SendStatus(Busy) \in LineAction /\ SendStatus(Available) \in LineAction
          /\ Do("TeardownLink") \in LineAction
      BY ActionsTyped, StatusValues DEF CallAction, LineAction, Do, Action
    <3> QED BY <3>1 DEF IncomingLinkEstablished
  <2> HIDE DEF d, a
  <2>4. r.core = d /\ r.result = "ok" /\ r.commands \in Seq(Commands)
    BY <2>1, <2>3, TypedFrom
  <2> QED BY <2>2, <2>4, SameLed DEF Steady
<1> QED BY <1>1, <1>2

(* A call that has just begun. *)
Begun(d) ==
    HasCall(d) /\ ~d.active.call.answered /\ Shaped(d.active.call)

LEMMA IdentifiedSteady ==
    ASSUME NEW c \in Core, NEW l \in Links, NEW i \in Identities,
           NEW r, r = RemoteIdentified(c, l, i)
    PROVE  /\ r.core \in Core /\ r.commands \in Seq(Commands)
           /\ Led(c, r.core) \/ (Begun(r.core) /\ r.core.active.call.role = "Incoming")
<1> DEFINE allowed == IsAllowed(c.access, i)
           call == At(IncomingCall, Ringing)
           less == [c EXCEPT !.pending = @ \ {l}, !.ingress = @ \ {l}]
           active == [link |-> l, identity |-> i, call |-> call]
           more == [c EXCEPT !.pending = @ \ {l}, !.active = active]
           refuse == <<SendStatus(Busy), Do("TeardownLink")>>
           ring == <<Do("ResetDialingPipelines"), SendStatus(Ringing), Do("RingIncomingCall")>>
<1>1. /\ refuse \in Seq(LineAction) /\ ring \in Seq(LineAction)
  <2>1. /\ SendStatus(Busy) \in LineAction /\ SendStatus(Ringing) \in LineAction
        /\ Do("TeardownLink") \in LineAction /\ Do("RingIncomingCall") \in LineAction
        /\ Do("ResetDialingPipelines") \in LineAction
    BY ActionsTyped, StatusValues DEF CallAction, LineAction, Do, Action
  <2> QED BY <2>1
<1>2. less \in Core /\ less.active = c.active
  BY DEF Core
<1>3. /\ call \in Call /\ call.role = "Incoming" /\ call.status = Ringing
      /\ ~call.answered
  <2>1. IncomingCall \in Call /\ IncomingCall.role = "Incoming" /\ ~IncomingCall.answered
    BY StatusValues DEF IncomingCall, Call
  <2>2. Ringing \in AutoStatus
    BY StatusValues
  <2> QED BY <2>1, <2>2, AtTyped DEF SameButStatus
<1> HIDE DEF call
<1>4. active \in ActiveCall /\ active.call = call
  BY <1>3 DEF ActiveCall
<1> HIDE DEF active
<1>5. more \in Core /\ HasCall(more) /\ more.active = active
  BY <1>4, NoCallAssumption DEF Core, HasCall, ActiveCall
<1>6. CASE l \notin c.pending \cup c.ingress
  <2>1. r = Refuse(c, "UnknownLink")
    BY <1>6 DEF RemoteIdentified
  <2> QED BY <2>1, RefusalSteady DEF Steady
<1>7. CASE l \in c.pending \cup c.ingress /\ (LineBusy(c) \/ ~allowed)
  <2>1. r = Step(less, CommandsFrom(l, refuse))
    BY <1>7 DEF RemoteIdentified, CallerIdentified, Result
  <2> HIDE DEF less, refuse
  <2>2. r.core = less /\ r.commands \in Seq(Commands)
    BY <1>1, <2>1, TypedFrom
  <2> QED BY <1>2, <2>2, SameLed
<1>8. CASE l \in c.pending \cup c.ingress /\ ~LineBusy(c) /\ allowed
  <2>1. r = Step(more, CommandsFrom(l, ring))
    BY <1>8 DEF RemoteIdentified, CallerIdentified, Result, active, call
  <2> HIDE DEF more, ring
  <2>2. r.core = more /\ r.commands \in Seq(Commands)
    BY <1>1, <2>1, TypedFrom
  <2>3. Begun(more) /\ more.active.call.role = "Incoming"
    BY <1>3, <1>4, <1>5 DEF Begun, Shaped
  <2> QED BY <1>5, <2>2, <2>3
<1> QED BY <1>6, <1>7, <1>8

LEMMA CloseSteady ==
    ASSUME NEW c \in Core, NEW l \in Links, NEW r, r = LinkClosed(c, l)
    PROVE  Steady(c, r) /\ r.result = "ok"
<1>1. CASE IsActive(c, l)
  <2>1. r.result = "ok"
    BY <1>1 DEF LinkClosed, Step
  <2> QED BY <1>1, <2>1, CloseActiveShape, EndsSteady
<1>2. CASE ~IsActive(c, l)
  <2> DEFINE less == [c EXCEPT !.pending = @ \ {l}, !.ingress = @ \ {l}]
  <2>1. less \in Core /\ less.active = c.active
    BY DEF Core
  <2>2. r = Step(less, <<>>)
    BY <1>2 DEF LinkClosed
  <2> HIDE DEF less
  <2>3. r.core = less /\ r.commands = <<>> /\ r.result = "ok"
    BY <2>2 DEF Step
  <2>4. <<>> \in Seq(Commands)
    OBVIOUS
  <2> QED BY <2>1, <2>3, <2>4, SameLed DEF Steady
<1> QED BY <1>1, <1>2

LEMMA HangupSteady ==
    ASSUME NEW c \in Core, NEW timeout \in BOOLEAN, NEW reason \in Status \cup {NoReason},
           NEW r, r = TerminateActive(c, timeout, reason)
    PROVE  Steady(c, r) /\ ~HasCall(r.core)
<1>1. CASE ~HasCall(c)
  <2>1. r = Refuse(c, "NoActiveCall")
    BY <1>1 DEF TerminateActive
  <2> QED BY <1>1, <2>1, RefusalSteady
<1>2. CASE HasCall(c)
  <2>1. \E l \in Links : Ends(c, r, l, TRUE)
    BY <1>2, TerminateShape
  <2> QED BY <2>1, EndsSteady
<1> QED BY <1>1, <1>2

LEMMA SwitchSteady ==
    ASSUME NEW c \in Core, NEW p \in Profiles, NEW r, r = SwitchActiveProfile(c, p)
    PROVE  /\ Steady(c, r)
           /\ HasCall(c) /\ HasCall(r.core) =>
                 r.core.active.call.status = c.active.call.status
<1> DEFINE o == SwitchTo(c.active.call, p)
           l == c.active.link
<1>1. CASE ~HasCall(c) \/ c.active.call.status # Established
  <2>1. \E e : r = Refuse(c, e)
    BY <1>1 DEF SwitchActiveProfile
  <2> QED BY <2>1, RefusalSteady
<1>2. CASE HasCall(c) /\ c.active.call.status = Established
  <2>1. c.active.call \in Call /\ l \in Links
    BY <1>2, ActiveTyped
  <2>2. Forward(c.active.call, o)
    BY <2>1, SwitchToForward
  <2>3. /\ o.call.status = c.active.call.status
        /\ o.call.answered = c.active.call.answered
    BY <2>1 DEF SwitchTo, Result, Using, Call
  <2>4. r = Step(WithCall(c, o.call), CommandsFrom(l, o.actions))
    BY <1>2 DEF SwitchActiveProfile
  <2> HIDE DEF o
  <2>5. o.call \in Call /\ o.actions \in Seq(LineAction)
    BY <2>2 DEF Forward, Fits, CallAction, LineAction
  <2>6. r.core = WithCall(c, o.call) /\ r.commands \in Seq(Commands)
    BY <2>1, <2>4, <2>5, TypedFrom
  <2>7. /\ r.core \in Core /\ r.core.active.link = c.active.link
        /\ r.core.active.call = o.call
    BY <1>2, <2>5, <2>6, WithCallTyped
  <2> QED BY <1>2, <2>2, <2>3, <2>6, <2>7 DEF Steady, Led, Forward
<1> QED BY <1>1, <1>2

LEMMA NoReasonTyped == NoReason \in Status \cup {NoReason} /\ Connecting \in Status
BY StatusValues

LEMMA TimeoutSteady ==
    ASSUME NEW c \in Core, NEW l, NEW r, r = TimeoutAnswerActive(c, l), r.result = "ok"
    PROVE  /\ Steady(c, r) /\ ~HasCall(r.core)
           /\ AwaitsEcho(c, l) /\ r = TerminateActive(c, FALSE, Connecting)
<1>1. CASE ~IsActive(c, l) \/ ~CanRetryAnswer(c.active.call)
  <2>1. \E e \in {"NoActiveCall", "WrongActiveLink", "CallNotAnswerable"} : r = Refuse(c, e)
    BY <1>1 DEF TimeoutAnswerActive, WrongCall
  <2>2. r.result # "ok"
    BY <2>1 DEF Refuse
  <2> QED BY <2>2
<1>2. CASE IsActive(c, l) /\ CanRetryAnswer(c.active.call)
  <2>1. r = TerminateActive(c, FALSE, Connecting)
    BY <1>2 DEF TimeoutAnswerActive
  <2> QED BY <1>2, <2>1, HangupSteady, NoReasonTyped DEF AwaitsEcho
<1> QED BY <1>1, <1>2

(* An accepted answer: the call is answered and connecting. *)
LEMMA AnswerAccepted ==
    ASSUME NEW c \in Core, NEW l \in Links, NEW r, r = AnswerActive(c, l), r.result = "ok"
    PROVE  /\ r.core \in Core /\ r.commands \in Seq(Commands)
           /\ IsActive(c, l) /\ CanAnswer(c.active.call) /\ Continues(c, r, l)
           /\ r.core.active.call.role = "Incoming" /\ r.core.active.call.answered
           /\ r.core.active.call.status = Connecting
<1> DEFINE o == Answer(c.active.call)
<1>1. CASE ~IsActive(c, l) \/ ~CanAnswer(c.active.call)
  <2>1. \E e \in {"NoActiveCall", "WrongActiveLink", "CallNotAnswerable"} : r = Refuse(c, e)
    BY <1>1 DEF AnswerActive, WrongCall
  <2>2. r.result # "ok"
    BY <2>1 DEF Refuse
  <2> QED BY <2>2
<1>2. CASE IsActive(c, l) /\ CanAnswer(c.active.call)
  <2>1. HasCall(c) /\ c.active.call \in Call
    BY <1>2, ActiveTyped DEF IsActive
  <2>2. Forward(c.active.call, o) /\ o.call.answered /\ Plays(c.active.call, o)
    BY <1>2, <2>1, AnswerForward, AnswerPlays
  <2>3. o.call.status = Connecting
    BY <1>2, <2>1 DEF Answer, Result, Answered, At, Using, Call
  <2>4. r = Step(WithCall(c, o.call), CommandsFrom(l, o.actions))
    BY <1>2 DEF AnswerActive
  <2> HIDE DEF o
  <2>5. Continues(c, r, l)
    BY <1>2, <2>2, <2>4, ForwardContinues
  <2>6. r.core = WithCall(c, o.call)
    BY <2>4 DEF Step
  <2>7. r.core.active.call = o.call
    BY <2>1, <2>2, <2>6, WithCallTyped DEF Forward
  <2>8. o.call.role = "Incoming"
    BY <1>2, <2>2 DEF CanAnswer, Forward
  <2> QED BY <1>2, <2>2, <2>3, <2>5, <2>7, <2>8 DEF Continues
<1> QED BY <1>1, <1>2

LEMMA DialBegins ==
    ASSUME NEW c \in Core, NEW l \in Links, NEW d \in Dials,
           NEW r, r = StartOutgoingCall(c, l, d.identity, d.profile), r.result = "ok"
    PROVE  /\ ~LineBusy(c) /\ r.core \in Core /\ Begun(r.core) /\ r.commands = <<>>
           /\ r.core.active.link = l /\ r.core.active.call.role = "Outgoing"
           /\ r.core.active.call.status = Calling
           /\ r.core.pending = c.pending /\ r.core.ingress = c.ingress \cup {l}
<1> DEFINE call == OutgoingCall(d.profile)
           active == [link |-> l, identity |-> d.identity, call |-> call]
           e == [c EXCEPT !.ingress = @ \cup {l}, !.active = active]
<1>1. d.identity \in Identities /\ d.profile \in Profiles \cup {NoProfile}
  BY ServiceAssumption DEF Dial
<1>2. call \in Call /\ call.role = "Outgoing" /\ call.status = Calling /\ ~call.answered
  BY <1>1, StatusValues DEF OutgoingCall, Call
<1>3. LineBusy(c) => r.result = "LineBusy"
  BY DEF StartOutgoingCall, Refuse
<1>4. ~LineBusy(c)
  BY <1>3
<1>5. r.core = e /\ r.commands = <<>>
  BY <1>4 DEF StartOutgoingCall, Step
<1> HIDE DEF call
<1>6. active \in ActiveCall /\ active.link = l /\ active.call = call
  BY <1>1, <1>2 DEF ActiveCall
<1> HIDE DEF active
<1>7. /\ e \in Core /\ HasCall(e) /\ e.active = active
      /\ e.pending = c.pending /\ e.ingress = c.ingress \cup {l}
  BY <1>6, NoCallAssumption DEF Core, HasCall, ActiveCall
<1> QED BY <1>2, <1>4, <1>5, <1>6, <1>7 DEF Begun, Shaped

(* The commands that tear down the links of order. *)
Downs(order) == [i \in DOMAIN order |-> Command(order[i], Do("TeardownLink"))]

(* The commands of a shutdown end the call, if any, then tear down what    *)
(* is pending.                                                             *)
LEMMA ShutdownTyped ==
    ASSUME NEW c \in Core, NEW order, order \in Enumerations(c.pending),
           NEW r, r = ShutdownCore(c, order), NEW h, h = HangupActive(c, FALSE),
           NEW downs, downs = Downs(order)
    PROVE  /\ r.core \in Core /\ r.core.active = NoCall
           /\ r.core.pending = {} /\ r.core.ingress = {}
           /\ h.commands \in Seq(Commands) /\ downs \in Seq(Commands)
           /\ \A i \in DOMAIN downs : downs[i].link \in c.pending
<1> DEFINE e == [c EXCEPT !.active = NoCall, !.pending = {}, !.ingress = {}]
<1>1. r.core = e
  BY DEF ShutdownCore, Step
<1>2. e \in Core /\ e.active = NoCall /\ e.pending = {} /\ e.ingress = {}
  BY DEF Core
<1>3. h.commands \in Seq(Commands)
  BY HangupSteady, NoReasonTyped DEF HangupActive, Steady
<1>4. c.pending \subseteq Links /\ IsFiniteSet(c.pending)
  <2>1. c.pending \subseteq Links
    BY DEF Core
  <2> QED BY <2>1, ServiceAssumption, FS_Subset
<1>5. Cardinality(c.pending) \in Nat
  BY <1>4, FS_CardinalityType
<1>6. order \in [1 .. Cardinality(c.pending) -> c.pending]
  BY DEF Enumerations
<1>7. Do("TeardownLink") \in LineAction
  BY DEF Do, LineAction, Action
<1>8. \A l \in c.pending : Command(l, Do("TeardownLink")) \in Commands
                           /\ Command(l, Do("TeardownLink")).link = l
  BY <1>4, <1>7 DEF Command, Commands
<1>9. downs \in [1 .. Cardinality(c.pending) -> Commands]
  BY <1>6, <1>8 DEF Downs
<1>10. downs \in Seq(Commands)
  BY <1>5, <1>9
<1>11. \A i \in DOMAIN downs : downs[i].link \in c.pending
  BY <1>6, <1>8 DEF Downs
<1> HIDE DEF e
<1> QED BY <1>1, <1>2, <1>3, <1>10, <1>11

-----------------------------------------------------------------------------
(* What becomes of commands *)

LinkState == {"unused", "requested", "outgoing", "incoming", "dropped", "retired",
              "closing", "gone"}

LEMMA OutcomeLinks ==
    ASSUME NEW commands, NEW links \in [Links -> LinkState], NEW occasion,
           NEW out \in Outcomes(commands, links, occasion)
    PROVE  /\ out.ok \in BOOLEAN /\ out.links \in [Links -> LinkState]
           /\ \A l \in Links :
                 \/ out.links[l] = links[l]
                 \/ /\ out.links[l] = TornDown(links[l])
                    /\ \E i \in DOMAIN commands : commands[i] = Command(l, Do("TeardownLink"))
           /\ \A l \in Links : links[l] = "gone" => out.links[l] = "gone"
<1>1. PICK at \in SUBSET DOMAIN commands, b \in BOOLEAN :
         out = [ok |-> b, links |-> TearDown(links, commands, at)]
  BY DEF Outcomes
<1>2. out.ok = b /\ out.links = TearDown(links, commands, at)
  BY <1>1
<1>3. \A s \in LinkState : TornDown(s) \in LinkState
  BY DEF TornDown, LinkState
<1>4. out.links \in [Links -> LinkState]
  BY <1>2, <1>3 DEF TearDown
<1>5. \A l \in Links :
        \/ out.links[l] = links[l]
        \/ /\ out.links[l] = TornDown(links[l])
           /\ \E i \in DOMAIN commands : commands[i] = Command(l, Do("TeardownLink"))
  BY <1>2 DEF TearDown
<1>6. TornDown("gone") = "gone"
  BY DEF TornDown
<1> QED BY <1>2, <1>4, <1>5, <1>6

(* A link that is gone stays gone. *)
GoneStays(links, after) ==
    /\ after \in [Links -> LinkState]
    /\ \A l \in Links : links[l] = "gone" => after[l] = "gone"

LEMMA OutcomeTyped ==
    ASSUME NEW commands, NEW links, links \in [Links -> LinkState], NEW occasion,
           NEW out, out \in Outcomes(commands, links, occasion)
    PROVE  GoneStays(links, out.links)
BY OutcomeLinks DEF GoneStays

LEMMA AnnouncedIs ==
    ASSUME NEW commands
    PROVE  \/ /\ Announced(commands) = <<>>
              /\ \A i \in DOMAIN commands : ~IsAnnounced(commands[i])
           \/ \E i \in DOMAIN commands :
                 IsAnnounced(commands[i]) /\ Announced(commands) = <<commands[i]>>
<1> DEFINE announcing == {i \in DOMAIN commands : IsAnnounced(commands[i])}
<1>1. CASE announcing = {}
  BY <1>1 DEF Announced
<1>2. CASE announcing # {}
  <2> DEFINE i == CHOOSE j \in announcing : TRUE
  <2>1. i \in announcing
    BY <1>2
  <2>2. Announced(commands) = <<commands[i]>>
    BY <1>2 DEF Announced
  <2> HIDE DEF i
  <2> QED BY <2>1, <2>2
<1> QED BY <1>1, <1>2

LEMMA AnnouncedTyped ==
    ASSUME NEW commands \in Seq(Commands)
    PROVE  Announced(commands) \in Seq(Announcement)
<1>1. \A command \in Commands : IsAnnounced(command) => command \in Announcement
  <2> TAKE command \in Commands
  <2> HAVE IsAnnounced(command)
  <2>1. /\ command \in [link : Links, action : LineAction]
        /\ command.action.type \in {"RingIncomingCall", "CallTerminated"}
    BY DEF Commands, IsAnnounced
  <2>2. command.action \in {Do("RingIncomingCall")}
                              \cup {CallTerminated(r) : r \in Status \cup {NoReason}}
    <3>1. \/ command.action \in [type : {"RingIncomingCall"}]
          \/ command.action \in [type : {"CallTerminated"}, reason : Status \cup {NoReason}]
      BY <2>1 DEF LineAction, Action
    <3>2. CASE command.action \in [type : {"RingIncomingCall"}]
      BY <3>2 DEF Do
    <3>3. CASE command.action \in [type : {"CallTerminated"}, reason : Status \cup {NoReason}]
      <4>1. command.action = CallTerminated(command.action.reason)
        BY <3>3 DEF CallTerminated
      <4> QED BY <3>3, <4>1
    <3> QED BY <3>1, <3>2, <3>3
  <2> QED BY <2>1, <2>2 DEF Announcement
<1>2. \A i \in DOMAIN commands : commands[i] \in Commands
  OBVIOUS
<1>3. CASE Announced(commands) = <<>>
  BY <1>3
<1>4. ASSUME NEW i \in DOMAIN commands, IsAnnounced(commands[i]),
             Announced(commands) = <<commands[i]>>
      PROVE  Announced(commands) \in Seq(Announcement)
  BY <1>1, <1>2, <1>4
<1> QED BY <1>3, <1>4, AnnouncedIs

LEMMA HearTyped ==
    ASSUME NEW s, NEW type
    PROVE  Hear(s, type) \in {"none", "live", "over", "broken"}
BY DEF Hear

LEMMA HeardTyped ==
    ASSUME TypeOK, NEW commands, NEW announcement
    PROVE  /\ Heard(announcement) \in [Links -> {"none", "live", "over", "broken"}]
           /\ HeardAll(commands) \in [Links -> {"none", "live", "over", "broken"}]
<1>1. \A a : Heard(a) \in [Links -> {"none", "live", "over", "broken"}]
  BY HearTyped DEF Heard, TypeOK
<1> QED BY <1>1 DEF HeardAll, TypeOK

-----------------------------------------------------------------------------
(* What a refresh leaves *)

LEMMA RefreshTyped ==
    ASSUME NEW c \in Core, NEW t \in Timer \cup {None}, NEW a \in Offer \cup {None},
           TypeOK, Refresh(c, t, a)
    PROVE  /\ timer' \in Timer \cup {None} /\ answering' \in Offer \cup {None}
           /\ transmit' \in Stream \cup {None} /\ receive' \in Stream \cup {None}
           /\ onAir' \subseteq {"transmit", "receive"}
           /\ transmit' # None => transmit' = transmit /\ StreamFits(c, transmit)
           /\ receive' # None => receive' = receive /\ StreamFits(c, receive)
<1>1. timer' \in Timer \cup {None}
  <2>1. CASE TimerKind(c) = "none"
    BY <2>1 DEF Refresh, TimerFor
  <2>2. CASE TimerKind(c) # "none"
    <3>1. HasCall(c) /\ TimerKind(c) \in {"IncomingRing", "OutgoingCall"}
      BY <2>2 DEF TimerKind
    <3>2. c.active.link \in Links
      BY <3>1, CallTyped
    <3>3. Patience \in 0 .. Patience
      BY ServiceAssumption
    <3>4. NewTimer(c) \in Timer
      BY <3>1, <3>2, <3>3 DEF NewTimer, Timer
    <3> QED BY <3>4 DEF Refresh, TimerFor
  <2> QED BY <2>1, <2>2
<1>2. answering' \in Offer \cup {None}
  BY DEF Refresh, StillAnswering
<1>3. /\ transmit' \in Stream \cup {None} /\ receive' \in Stream \cup {None}
      /\ transmit' # None => transmit' = transmit /\ StreamFits(c, transmit)
      /\ receive' # None => receive' = receive /\ StreamFits(c, receive)
  BY DEF Refresh, Kept, TypeOK
<1>4. onAir' \subseteq {"transmit", "receive"}
  BY DEF Refresh, TypeOK
<1> QED BY <1>1, <1>2, <1>3, <1>4

-----------------------------------------------------------------------------
(* Every step keeps the service sturdy, whatever is refused *)

(* How a step may change the call: it is led on, a call whose link was     *)
(* never requested stays as it is, or a call begins.                       *)
Moves(c, d, links) ==
    /\ Led(c, d)
    /\ HasCall(d) /\ d.active.call.status # c.active.call.status
          => links[c.active.link] # "gone"

(* The transmit stream is left alone, or is of the call. *)
Streams(d) ==
    transmit' = transmit \/ (transmit' # None /\ HasCall(d) => transmit'.link = d.active.link)

LEMMA CallSturdy ==
    ASSUME Sturdy, TypeOK', NEW d \in Core, core' = d,
           \A l \in Links : wire[l] = "gone" => wire'[l] = "gone",
           offered \subseteq offered', Streams(d),
           \/ Moves(core, d, wire)
           \/ /\ Begun(d)
              /\ \/ transmit' # None => transmit'.link = d.active.link
                 \/ Waits(d.active.call, wire'[d.active.link])
    PROVE  Sturdy'
<1> SUFFICES ASSUME HasCall(d)
             PROVE  Sturdy'
  BY DEF Sturdy, AnsweredMeansOffered, Foreign
<1>1. core \in Core /\ (HasCall(core) => Shaped(core.active.call))
  BY DEF Sturdy, TypeOK
<1>2. CASE Moves(core, d, wire)
  <2>1. Led(core, d) /\ HasCall(core) /\ d.active.link = core.active.link
    BY <1>2 DEF Moves, Led
  <2>2. Shaped(d.active.call)
    BY <1>1, <2>1, LedShaped
  <2>3. d.active.call.answered => d.active.link \in offered'
    BY <2>1 DEF Led, Sturdy, AnsweredMeansOffered
  <2>4. transmit' # None /\ transmit'.link # d.active.link
           => Waits(d.active.call, wire'[d.active.link])
    <3> SUFFICES ASSUME transmit' # None, transmit'.link # d.active.link
                 PROVE  Waits(d.active.call, wire'[d.active.link])
      OBVIOUS
    <3>1. transmit' = transmit
      BY DEF Streams
    <3>2. Waits(core.active.call, wire[core.active.link])
      BY <2>1, <3>1 DEF Sturdy, Foreign
    <3>3. CASE core.active.call.role = "Incoming" /\ ~core.active.call.answered
      BY <2>1, <3>3 DEF Led, Waits
    <3>4. CASE core.active.call.status = Calling /\ wire[core.active.link] = "gone"
      <4>1. d.active.call.status = Calling
        BY <1>2, <3>4 DEF Moves
      <4>2. core.active.link \in Links
        BY <1>1, <2>1, CallTyped
      <4> QED BY <2>1, <3>4, <4>1, <4>2 DEF Waits
    <3> QED BY <3>2, <3>3, <3>4 DEF Waits
  <2> QED BY <2>2, <2>3, <2>4 DEF Sturdy, AnsweredMeansOffered, Foreign
<1>3. CASE /\ Begun(d)
           /\ \/ transmit' # None => transmit'.link = d.active.link
              \/ Waits(d.active.call, wire'[d.active.link])
  BY <1>3 DEF Sturdy, AnsweredMeansOffered, Foreign, Begun
<1> QED BY <1>2, <1>3

LEMMA DriveSturdy ==
    ASSUME Sturdy, NEW r, NEW links \in [Links -> LinkState], Drive(r, links),
           r.core \in Core, r.commands \in Seq(Commands),
           \A l \in Links : wire[l] = "gone" => links[l] = "gone",
           Moves(core, r.core, wire)
             \/ (Begun(r.core) /\ r.core.active.call.role = "Incoming")
    PROVE  Sturdy'
<1>1. core' = r.core /\ transmit' = transmit /\ offered' = offered
  BY DEF Drive, mediaVars
<1>2. PICK out \in (IF r.result = "ok" THEN Outcomes(r.commands, links, "drive")
                    ELSE {[ok |-> FALSE, links |-> links]}) :
         /\ wire' = out.links
         /\ held' = IF out.ok THEN held \o Announced(r.commands) ELSE <<>>
         /\ loop' = IF out.ok THEN "driving" ELSE "idle"
  BY DEF Drive
<1>3. /\ wire' \in [Links -> LinkState]
      /\ \A l \in Links : wire[l] = "gone" => wire'[l] = "gone"
  <2>1. CASE r.result = "ok"
    BY <1>2, <2>1, OutcomeLinks
  <2>2. CASE r.result # "ok"
    BY <1>2, <2>2
  <2> QED BY <2>1, <2>2
<1>4. held' \in Seq(Announcement) /\ loop' \in {"idle", "driving"}
  <2>1. held \in Seq(Announcement) /\ Announced(r.commands) \in Seq(Announcement)
    BY AnnouncedTyped DEF Sturdy, TypeOK
  <2>2. held \o Announced(r.commands) \in Seq(Announcement)
    BY <2>1
  <2> QED BY <1>2, <2>2
<1>5. TypeOK'
  <2>1. UNCHANGED <<offered, told, timerVars, dialVars, mediaVars>>
    BY DEF Drive
  <2> QED BY <1>1, <1>3, <1>4, <2>1
          DEF Sturdy, TypeOK, timerVars, dialVars, mediaVars, LinkState
<1> QED BY <1>1, <1>3, <1>5, CallSturdy DEF Streams, Waits, Begun

LEMMA LinkEventSturdy ==
    ASSUME Sturdy, NEW l \in Links, LinkEvent(l)
    PROVE  Sturdy'
<1>1. /\ core \in Core /\ wire \in [Links -> LinkState]
  BY DEF Sturdy, TypeOK, LinkState
<1>2. ASSUME NEW s \in LinkState
      PROVE  [wire EXCEPT ![l] = s] \in [Links -> LinkState]
  BY <1>1
<1>3. ASSUME NEW c \in Core, NEW d \in Core, d.active = c.active
      PROVE  Moves(c, d, wire)
  BY <1>3, SameLed DEF Moves, HasCall
<1>4. CASE IncomingUp(l) \/ OutgoingUp(l)
  <2> DEFINE r == LinkEstablished(core, l)
  <2>1. /\ r.core \in Core /\ r.commands \in Seq(Commands) /\ r.core.active = core.active
    BY <1>1, LinkUpSteady DEF Steady
  <2>2. Moves(core, r.core, wire)
    BY <1>1, <1>3, <2>1
  <2>3. PICK s \in {"incoming", "outgoing"} :
           wire[l] # "gone" /\ Drive(r, [wire EXCEPT ![l] = s])
    BY <1>4 DEF IncomingUp, OutgoingUp
  <2>4. /\ [wire EXCEPT ![l] = s] \in [Links -> LinkState]
        /\ \A k \in Links : wire[k] = "gone" => [wire EXCEPT ![l] = s][k] = "gone"
    BY <1>1, <2>3 DEF LinkState
  <2> HIDE DEF r
  <2> QED BY <2>1, <2>2, <2>3, <2>4, DriveSturdy
<1>5. CASE Identified(l)
  <2>1. PICK i \in Identities : Drive(RemoteIdentified(core, l, i), wire)
    BY <1>5 DEF Identified
  <2> DEFINE r == RemoteIdentified(core, l, i)
  <2>2. /\ r.core \in Core /\ r.commands \in Seq(Commands)
        /\ Led(core, r.core) \/ (Begun(r.core) /\ r.core.active.call.role = "Incoming")
    BY <1>1, IdentifiedSteady
  <2>3. Led(core, r.core) => Moves(core, r.core, wire)
    <3>1. \/ r.core.active = core.active
          \/ HasCall(r.core) /\ ~HasCall(core)
      BY <1>1 DEF RemoteIdentified, Refuse, Step, LineBusy, HasCall, Core
    <3> QED BY <1>1, <1>3, <2>2, <3>1 DEF Led
  <2> HIDE DEF r
  <2> QED BY <1>1, <2>1, <2>2, <2>3, DriveSturdy DEF r
<1>6. CASE PacketIn(l)
  <2>1. PICK p \in Payloads : Drive(AcceptPlaintext(core, l, p), wire)
    BY <1>6 DEF PacketIn
  <2> DEFINE r == AcceptPlaintext(core, l, p)
  <2>2. p \in Packets
    BY ServiceAssumption
  <2>3. Steady(core, r) /\ (~IsActive(core, l) => r.core = core)
    BY <1>1, <2>2, PacketSteady
  <2>4. wire[l] # "gone"
    BY <1>6 DEF PacketIn, Late
  <2>5. Moves(core, r.core, wire)
    <3>1. CASE IsActive(core, l)
      BY <2>3, <2>4, <3>1 DEF Moves, Steady, IsActive
    <3>2. CASE ~IsActive(core, l)
      BY <1>1, <1>3, <2>3, <3>2
    <3> QED BY <3>1, <3>2
  <2> HIDE DEF r
  <2> QED BY <1>1, <2>1, <2>3, <2>5, DriveSturdy DEF r, Steady
<1>7. CASE Closed(l)
  <2> DEFINE r == LinkClosed(core, l)
             links == [wire EXCEPT ![l] = "gone"]
  <2>1. Steady(core, r)
    BY <1>1, CloseSteady
  <2>2. r.core.active = core.active \/ ~HasCall(r.core)
    BY <1>1, ReleasedTyped DEF LinkClosed, Step, HasCall, Core
  <2>3. Moves(core, r.core, wire)
    BY <1>1, <1>3, <2>1, <2>2 DEF Moves, Steady
  <2>4. links \in [Links -> LinkState] /\ \A k \in Links : wire[k] = "gone" => links[k] = "gone"
    BY <1>1 DEF LinkState
  <2>5. Drive(r, links)
    BY <1>7 DEF Closed
  <2> HIDE DEF r, links
  <2> QED BY <2>1, <2>3, <2>4, <2>5, DriveSturdy DEF Steady
<1>8. CASE PromotionFails(l) \/ Dropped(l)
  <2>1. PICK s \in {"retired", "dropped"} : wire' = [wire EXCEPT ![l] = s] /\ wire[l] # "gone"
    BY <1>1, <1>8 DEF PromotionFails, Dropped, Owned
  <2>2. /\ wire' \in [Links -> LinkState]
        /\ \A k \in Links : wire[k] = "gone" => wire'[k] = "gone"
    BY <1>1, <2>1 DEF LinkState
  <2>3. /\ UNCHANGED <<core, offered, told, timerVars, dialVars, mediaVars>>
        /\ loop' \in {"idle", "driving"} /\ (held' = held \/ held' = <<>>)
    BY <1>8 DEF PromotionFails, Dropped
  <2>5. <<>> \in Seq(Announcement)
    OBVIOUS
  <2>6. held' \in Seq(Announcement)
    BY <2>3, <2>5 DEF Sturdy, TypeOK
  <2>4. TypeOK'
    BY <2>2, <2>3, <2>6 DEF Sturdy, TypeOK, timerVars, dialVars, mediaVars, LinkState
  <2>7. Moves(core, core, wire)
    BY <1>1, <1>3
  <2> QED BY <1>1, <2>2, <2>3, <2>4, <2>7, CallSturdy DEF Streams, mediaVars
<1> QED BY <1>4, <1>5, <1>6, <1>7, <1>8 DEF LinkEvent

LEMMA SameSturdy ==
    ASSUME Sturdy, TypeOK', UNCHANGED <<core, wire, offered>>, Streams(core)
    PROVE  Sturdy'
<1>1. core \in Core
  BY DEF Sturdy, TypeOK
<1>2. Moves(core, core, wire)
  BY <1>1, SameLed DEF Moves
<1> QED BY <1>1, <1>2, CallSturdy DEF Streams

(* What a refresh keeps is of the call, so that only the answer matters.   *)
LEMMA RefreshSturdy ==
    ASSUME Sturdy, NEW d \in Core, core' = d,
           NEW t \in Timer \cup {None}, NEW a \in Offer \cup {None}, Refresh(d, t, a),
           wire' \in [Links -> LinkState],
           told' \in [Links -> {"none", "live", "over", "broken"}],
           held' \in Seq(Announcement),
           loop' \in {"idle", "driving", "publishing", "stopped"},
           discovery' \in Dials \cup {None}, tasks' \in [Dials -> 0 .. MaxTasks],
           dialling' \in {"no", "yes", "broken"},
           offered \subseteq offered', offered' \subseteq Links,
           \/ Led(core, d) \/ Begun(d)
           \/ Shaped(d.active.call) /\ d.active.link \in offered'
    PROVE  Sturdy'
<1>1. TypeOK
  BY DEF Sturdy
<1>2. /\ timer' \in Timer \cup {None} /\ answering' \in Offer \cup {None}
      /\ transmit' \in Stream \cup {None} /\ receive' \in Stream \cup {None}
      /\ onAir' \subseteq {"transmit", "receive"}
      /\ transmit' # None => transmit' = transmit /\ StreamFits(d, transmit)
  BY <1>1, RefreshTyped
<1>3. TypeOK'
  BY <1>2 DEF TypeOK, LinkState
<1>4. Foreign'
  BY <1>2 DEF Foreign, StreamFits, IsActive
<1>5. HasCall(d) => /\ Shaped(d.active.call)
                    /\ d.active.call.answered => d.active.link \in offered'
  <2>1. CASE Led(core, d)
    <3> SUFFICES ASSUME HasCall(d)
                 PROVE  /\ Shaped(d.active.call)
                        /\ d.active.call.answered => d.active.link \in offered'
      OBVIOUS
    <3>1. /\ HasCall(core) /\ core \in Core /\ Shaped(core.active.call)
          /\ core.active.call.answered => core.active.link \in offered
      BY <1>1, <2>1 DEF Led, Sturdy, AnsweredMeansOffered, TypeOK
    <3> QED BY <2>1, <3>1, LedShaped DEF Led
  <2>2. CASE Begun(d)
    BY <2>2 DEF Begun
  <2>3. CASE Shaped(d.active.call) /\ d.active.link \in offered'
    BY <2>3
  <2> QED BY <2>1, <2>2, <2>3
<1> QED BY <1>3, <1>4, <1>5 DEF Sturdy, AnsweredMeansOffered

LEMMA PublishSturdy ==
    ASSUME Sturdy, Publish
    PROVE  Sturdy'
<1>1. TypeOK /\ core \in Core /\ held \in Seq(Announcement)
  BY DEF Sturdy, TypeOK
<1>2. CASE PublishOne
  <2>1. /\ UNCHANGED <<core, wire, offered, timerVars, dialVars, mediaVars>>
        /\ loop' = "publishing" /\ told' = Heard(Head(held)) /\ held' = Tail(held)
        /\ held # <<>>
    BY <1>2 DEF PublishOne
  <2>2. held' \in Seq(Announcement)
    BY <1>1, <2>1
  <2>3. told' \in [Links -> {"none", "live", "over", "broken"}]
    BY <1>1, <2>1, HeardTyped
  <2>4. TypeOK'
    BY <1>1, <2>1, <2>2, <2>3 DEF TypeOK, timerVars, dialVars, mediaVars
  <2> QED BY <2>1, <2>4, SameSturdy DEF Streams, mediaVars
<1>3. CASE SpoilReceive
  <2>1. /\ UNCHANGED <<core, held, wire, offered, told, timerVars, dialVars, transmit, onAir>>
        /\ loop' = "publishing" /\ receive' = None
    BY <1>3 DEF SpoilReceive
  <2>2. TypeOK'
    BY <1>1, <2>1 DEF TypeOK, timerVars, dialVars
  <2> QED BY <2>1, <2>2, SameSturdy DEF Streams
<1>4. CASE EndDrive
  <2>1. /\ UNCHANGED <<core, held, wire, offered, told, dialVars>> /\ loop' = "idle"
        /\ Refresh(core, timer, answering)
    BY <1>4 DEF EndDrive
  <2>2. Led(core, core)
    BY <1>1, SameLed
  <2> QED BY <1>1, <2>1, <2>2, RefreshSturdy DEF TypeOK, dialVars, LinkState
<1> QED BY <1>2, <1>3, <1>4 DEF Publish

LEMMA ControlSturdy ==
    ASSUME Sturdy, loop = "idle", NEW r, NEW t \in Timer \cup {None}, Control(r, t),
           r.core \in Core, Moves(core, r.core, wire)
    PROVE  Sturdy'
<1>1. TypeOK /\ wire \in [Links -> LinkState]
  BY DEF Sturdy, TypeOK, LinkState
<1>2. PICK out \in Outcomes(r.commands, wire, "control") :
         /\ wire' = out.links
         /\ IF out.ok
            THEN told' = HeardAll(r.commands) /\ Refresh(r.core, t, answering)
            ELSE timer' = t /\ UNCHANGED <<told, answering, mediaVars>>
  BY DEF Control
<1>3. core' = r.core /\ UNCHANGED <<offered, dialVars, loopVars>>
  BY DEF Control
<1>4. /\ wire' \in [Links -> LinkState]
      /\ \A l \in Links : wire[l] = "gone" => wire'[l] = "gone"
  <2>1. GoneStays(wire, out.links)
    BY <1>1, OutcomeTyped, Zenon
  <2> QED BY <1>2, <2>1 DEF GoneStays
<1>5. CASE out.ok
  <2>1. told' \in [Links -> {"none", "live", "over", "broken"}]
    BY <1>1, <1>2, <1>5, HeardTyped
  <2>2. /\ Refresh(r.core, t, answering) /\ answering \in Offer \cup {None}
        /\ Led(core, r.core)
    BY <1>1, <1>2, <1>5 DEF TypeOK, Moves
  <2>3. /\ held' \in Seq(Announcement)
        /\ loop' \in {"idle", "driving", "publishing", "stopped"}
        /\ discovery' \in Dials \cup {None} /\ tasks' \in [Dials -> 0 .. MaxTasks]
        /\ dialling' \in {"no", "yes", "broken"}
        /\ offered \subseteq offered' /\ offered' \subseteq Links
    BY <1>1, <1>3 DEF TypeOK, dialVars, loopVars
  <2> QED BY <1>3, <1>4, <2>1, <2>2, <2>3, RefreshSturdy
<1>6. CASE ~out.ok
  <2>1. timer' = t /\ UNCHANGED <<told, answering, mediaVars>>
    BY <1>2, <1>6
  <2>2. TypeOK'
    BY <1>1, <1>3, <1>4, <2>1 DEF TypeOK, dialVars, loopVars, mediaVars, LinkState
  <2>3. Streams(r.core)
    BY <2>1 DEF Streams, mediaVars
  <2> QED BY <1>3, <1>4, <2>2, <2>3, CallSturdy
<1> QED BY <1>5, <1>6

LEMMA EndMoves ==
    ASSUME NEW c, NEW d, ~HasCall(d)
    PROVE  Moves(c, d, wire)
BY DEF Moves, Led

LEMMA CallControlSturdy ==
    ASSUME Sturdy,
           \/ \E b \in BOOLEAN : HangupControl(b) \/ SetBusy(b)
           \/ \E p \in Profiles : Switch(p)
           \/ ShutDown
    PROVE  Sturdy'
<1>1. /\ TypeOK /\ core \in Core /\ timer \in Timer \cup {None}
      /\ wire \in [Links -> LinkState]
  BY DEF Sturdy, TypeOK, LinkState
<1>2. ASSUME NEW b \in BOOLEAN, HangupControl(b)
      PROVE  Sturdy'
  <2> DEFINE r == HangupActive(core, b)
  <2>1. r.core \in Core /\ ~HasCall(r.core)
    BY <1>1, HangupSteady, NoReasonTyped DEF HangupActive, Steady
  <2>2. Moves(core, r.core, wire)
    BY <2>1, EndMoves
  <2>3. loop = "idle" /\ Control(r, timer)
    BY <1>2 DEF HangupControl
  <2> HIDE DEF r
  <2> QED BY <1>1, <2>1, <2>2, <2>3, ControlSturdy
<1>3. ASSUME NEW b \in BOOLEAN, SetBusy(b)
      PROVE  Sturdy'
  <2> DEFINE d == SetExternalBusy(core, b).core
  <2>1. d \in Core /\ d.active = core.active
    BY <1>1 DEF SetExternalBusy, Step, Core
  <2>2. /\ core' = d /\ Refresh(d, timer, answering) /\ loop = "idle"
        /\ UNCHANGED <<wire, offered, told, dialVars, loopVars>>
    BY <1>3 DEF SetBusy
  <2> HIDE DEF d
  <2>3. Led(core, d)
    BY <1>1, <2>1, SameLed
  <2>4. /\ wire' \in [Links -> LinkState] /\ answering \in Offer \cup {None}
        /\ told' \in [Links -> {"none", "live", "over", "broken"}]
        /\ held' \in Seq(Announcement)
        /\ loop' \in {"idle", "driving", "publishing", "stopped"}
        /\ discovery' \in Dials \cup {None} /\ tasks' \in [Dials -> 0 .. MaxTasks]
        /\ dialling' \in {"no", "yes", "broken"}
        /\ offered \subseteq offered' /\ offered' \subseteq Links
    BY <1>1, <2>2 DEF TypeOK, dialVars, loopVars, LinkState
  <2> QED BY <1>1, <2>1, <2>2, <2>3, <2>4, RefreshSturdy
<1>4. ASSUME NEW p \in Profiles, Switch(p)
      PROVE  Sturdy'
  <2> DEFINE r == SwitchActiveProfile(core, p)
  <2>1. /\ Steady(core, r)
        /\ HasCall(core) /\ HasCall(r.core) =>
              r.core.active.call.status = core.active.call.status
    BY <1>1, SwitchSteady
  <2>2. loop = "idle" /\ Control(r, timer)
    BY <1>4 DEF Switch
  <2> HIDE DEF r
  <2>3. Moves(core, r.core, wire)
    BY <2>1 DEF Moves, Steady, Led
  <2>4. r.core \in Core
    BY <2>1 DEF Steady
  <2> QED BY <1>1, <2>2, <2>3, <2>4, ControlSturdy
<1>5. CASE ShutDown
  <2>1. PICK order \in Enumerations(core.pending) :
           LET step == ShutdownCore(core, order) IN
           /\ core' = step.core
           /\ \E out \in Outcomes(step.commands, wire, "control") :
                 /\ wire' = out.links
                 /\ told' = IF out.ok THEN HeardAll(step.commands) ELSE told
    BY <1>5 DEF ShutDown
  <2> DEFINE r == ShutdownCore(core, order)
  <2>2. r.core \in Core /\ r.core.active = NoCall
    BY <1>1 DEF ShutdownCore, Step, Core
  <2>3. PICK out \in Outcomes(r.commands, wire, "control") :
           wire' = out.links /\ told' = IF out.ok THEN HeardAll(r.commands) ELSE told
    BY <2>1
  <2>4. core' = r.core
    BY <2>1
  <2> HIDE DEF r
  <2>5. /\ wire' \in [Links -> LinkState]
        /\ \A l \in Links : wire[l] = "gone" => wire'[l] = "gone"
    <3>1. GoneStays(wire, out.links)
      BY <1>1, OutcomeTyped, Zenon
    <3> QED BY <2>3, <3>1 DEF GoneStays
  <2>6. told' \in [Links -> {"none", "live", "over", "broken"}]
    BY <1>1, <2>3, HeardTyped DEF TypeOK
  <2>7. /\ loop' = "stopped" /\ discovery' = None /\ timer' = None /\ answering' = None
        /\ transmit' = None /\ receive' = None /\ onAir' = {}
        /\ UNCHANGED <<held, offered, tasks, dialling>>
    BY <1>5 DEF ShutDown
  <2>8. TypeOK'
    BY <1>1, <2>2, <2>4, <2>5, <2>6, <2>7 DEF TypeOK, LinkState
  <2>9. Moves(core, r.core, wire)
    BY <2>2, EndMoves DEF HasCall
  <2>10. Streams(r.core)
    BY <2>7 DEF Streams
  <2>11. offered \subseteq offered'
    BY <2>7
  <2> QED BY <2>2, <2>4, <2>5, <2>8, <2>9, <2>10, <2>11, CallSturdy
<1> QED BY <1>2, <1>3, <1>4, <1>5

LEMMA AnswerSturdy ==
    ASSUME Sturdy, NEW l \in Links, AnswerExact(l)
    PROVE  Sturdy'
<1>1. TypeOK /\ core \in Core
  BY DEF Sturdy, TypeOK
<1> DEFINE r == AnswerActive(core, l)
           offer == [link |-> l, left |-> Patience]
<1>2. /\ r.core \in Core /\ r.commands \in Seq(Commands) /\ Continues(core, r, l)
      /\ r.core.active.call.role = "Incoming" /\ r.core.active.call.answered
      /\ r.core.active.call.status = Connecting
  BY <1>1, AnswerAccepted DEF AnswerExact
<1>3. /\ loop = "idle" /\ UNCHANGED <<wire, dialVars, loopVars>>
      /\ \/ /\ core' = r.core /\ offered' = offered \cup {l}
            /\ told' = HeardAll(r.commands) /\ Refresh(r.core, timer, offer)
         \/ UNCHANGED <<core, offered, told, timerVars, mediaVars>>
  BY DEF AnswerExact
<1>4. offer \in Offer
  BY ServiceAssumption DEF Offer
<1> HIDE DEF r, offer
<1>5. CASE /\ core' = r.core /\ offered' = offered \cup {l}
           /\ told' = HeardAll(r.commands) /\ Refresh(r.core, timer, offer)
  <2>1. IsActive(r.core, l)
    BY <1>2 DEF Continues
  <2>2. Shaped(r.core.active.call)
    BY <1>2, StatusValues DEF Shaped
  <2>3. r.core.active.link \in offered' /\ offered \subseteq offered' /\ offered' \subseteq Links
    BY <1>1, <1>5, <2>1 DEF IsActive, TypeOK
  <2>4. told' \in [Links -> {"none", "live", "over", "broken"}]
    BY <1>1, <1>5, HeardTyped
  <2>5. /\ wire' \in [Links -> LinkState] /\ timer \in Timer \cup {None}
        /\ held' \in Seq(Announcement)
        /\ loop' \in {"idle", "driving", "publishing", "stopped"}
        /\ discovery' \in Dials \cup {None} /\ tasks' \in [Dials -> 0 .. MaxTasks]
        /\ dialling' \in {"no", "yes", "broken"}
    BY <1>1, <1>3 DEF TypeOK, dialVars, loopVars, LinkState
  <2> QED BY <1>2, <1>4, <1>5, <2>2, <2>3, <2>4, <2>5, RefreshSturdy
<1>6. CASE UNCHANGED <<core, offered, told, timerVars, mediaVars>>
  <2>1. TypeOK'
    BY <1>1, <1>3, <1>6 DEF TypeOK, timerVars, mediaVars, dialVars, loopVars
  <2> QED BY <1>3, <1>6, <2>1, SameSturdy DEF Streams, mediaVars
<1> QED BY <1>3, <1>5, <1>6

LEMMA DialSturdy ==
    ASSUME Sturdy,
           (\E d \in Dials : StartDiscovery(d) \/ Discovered(d)) \/ CancelDial
    PROVE  Sturdy'
<1>1. /\ TypeOK /\ core \in Core /\ tasks \in [Dials -> 0 .. MaxTasks]
      /\ wire \in [Links -> LinkState]
      /\ DialOutcome \in {"no", "yes", "broken"}
  BY DEF Sturdy, TypeOK, LinkState, DialOutcome
<1>2. ASSUME NEW d \in Dials, StartDiscovery(d)
      PROVE  Sturdy'
  <2>1. /\ UNCHANGED <<core, wire, offered, told, timerVars, mediaVars, loopVars>>
        /\ discovery' = d /\ dialling' \in {"yes", "broken"}
        /\ tasks' = [tasks EXCEPT ![d] = @ + 1] /\ tasks[d] < MaxTasks
    BY <1>2 DEF StartDiscovery
  <2>2. tasks' \in [Dials -> 0 .. MaxTasks]
    BY <1>1, <2>1, ServiceAssumption
  <2>3. TypeOK'
    BY <1>1, <2>1, <2>2 DEF TypeOK, timerVars, mediaVars, loopVars
  <2> QED BY <2>1, <2>3, SameSturdy DEF Streams, mediaVars
<1>3. CASE CancelDial
  <2>1. /\ UNCHANGED <<core, wire, offered, told, tasks, timerVars, mediaVars, loopVars>>
        /\ discovery' = None /\ dialling' = DialOutcome
    BY <1>3 DEF CancelDial
  <2>2. TypeOK'
    BY <1>1, <2>1 DEF TypeOK, timerVars, mediaVars, loopVars
  <2> QED BY <2>1, <2>2, SameSturdy DEF Streams, mediaVars
<1>4. ASSUME NEW d \in Dials, Discovered(d)
      PROVE  Sturdy'
  <2>1. /\ UNCHANGED <<offered, loopVars>>
        /\ tasks' = [tasks EXCEPT ![d] = @ - 1] /\ tasks[d] > 0
    BY <1>4 DEF Discovered
  <2>2. tasks' \in [Dials -> 0 .. MaxTasks]
    BY <1>1, <2>1, ServiceAssumption
  <2>3. CASE ~Believed(d)
    <3>1. UNCHANGED <<core, wire, told, timerVars, mediaVars, discovery, dialling>>
      BY <1>4, <2>3 DEF Discovered
    <3>2. TypeOK'
      BY <1>1, <2>1, <2>2, <3>1 DEF TypeOK, timerVars, mediaVars, loopVars
    <3> QED BY <2>1, <3>1, <3>2, SameSturdy DEF Streams, mediaVars
  <2>4. CASE Believed(d) /\ discovery' = None /\ NoDialling
    <3>1. UNCHANGED <<core, wire, told, timerVars, mediaVars>> /\ dialling' = DialOutcome
      BY <2>4 DEF NoDialling, DialFails
    <3>2. TypeOK'
      BY <1>1, <2>1, <2>2, <2>4, <3>1 DEF TypeOK, timerVars, mediaVars, loopVars
    <3> QED BY <2>1, <3>1, <3>2, SameSturdy DEF Streams, mediaVars
  <2>5. ASSUME NEW l \in Links, discovery' = None, wire[l] = "unused",
               NEW r, r = StartOutgoingCall(core, l, d.identity, d.profile), r.result = "ok",
               Dialled(l, r) \/ DispatchFails(l, r)
        PROVE  Sturdy'
    <3>1. /\ r.core \in Core /\ Begun(r.core)
          /\ r.core.active.link = l /\ r.core.active.call.status = Calling
      BY <1>1, <2>5, DialBegins
    <3>2. ASSUME NEW s \in LinkState
          PROVE  [wire EXCEPT ![l] = s] \in [Links -> LinkState]
      BY <1>1
    <3>3. \A s \in LinkState : \A k \in Links :
             wire[k] = "gone" => [wire EXCEPT ![l] = s][k] = "gone"
      BY <1>1, <2>5
    <3>4. CASE Dialled(l, r)
      <4>1. /\ core' = r.core /\ wire' = [wire EXCEPT ![l] = "requested"]
            /\ told' = [told EXCEPT ![l] = IF @ = "none" THEN "live" ELSE "broken"]
            /\ dialling' = DialOutcome /\ Refresh(r.core, timer, answering)
        BY <3>4 DEF Dialled
      <4>2. wire' \in [Links -> LinkState]
        BY <3>2, <4>1 DEF LinkState
      <4>3. told' \in [Links -> {"none", "live", "over", "broken"}]
        BY <1>1, <4>1 DEF TypeOK
      <4>4. /\ timer \in Timer \cup {None} /\ answering \in Offer \cup {None}
            /\ held' \in Seq(Announcement)
            /\ loop' \in {"idle", "driving", "publishing", "stopped"}
            /\ discovery' \in Dials \cup {None}
            /\ offered \subseteq offered' /\ offered' \subseteq Links
        BY <1>1, <2>1, <2>5 DEF TypeOK, loopVars
      <4>5. dialling' \in {"no", "yes", "broken"}
        BY <1>1, <4>1
      <4> QED BY <2>2, <3>1, <4>1, <4>2, <4>3, <4>4, <4>5, RefreshSturdy
    <3>5. CASE DispatchFails(l, r)
      <4>1. /\ core' = r.core /\ wire' = [wire EXCEPT ![l] = "gone"]
            /\ dialling' = DialOutcome /\ UNCHANGED <<told, timerVars, mediaVars>>
        BY <3>5 DEF DispatchFails, DialFails
      <4>2. /\ wire' \in [Links -> LinkState] /\ wire'[l] = "gone"
            /\ \A k \in Links : wire[k] = "gone" => wire'[k] = "gone"
        BY <1>1, <3>2, <3>3, <4>1 DEF LinkState
      <4>3. TypeOK'
        BY <1>1, <2>1, <2>2, <2>5, <3>1, <4>1, <4>2
           DEF TypeOK, timerVars, mediaVars, loopVars, LinkState
      <4>4. Waits(r.core.active.call, wire'[r.core.active.link])
        BY <3>1, <4>2 DEF Waits
      <4>5. Streams(r.core) /\ offered \subseteq offered'
        BY <2>1, <4>1 DEF Streams, mediaVars
      <4> QED BY <3>1, <4>1, <4>2, <4>3, <4>4, <4>5, CallSturdy
    <3> QED BY <2>5, <3>4, <3>5
  <2>6. Believed(d) =>
           /\ discovery' = None
           /\ \/ NoDialling
              \/ \E l \in Links :
                    /\ wire[l] = "unused"
                    /\ StartOutgoingCall(core, l, d.identity, d.profile).result = "ok"
                    /\ \/ Dialled(l, StartOutgoingCall(core, l, d.identity, d.profile))
                       \/ DispatchFails(l, StartOutgoingCall(core, l, d.identity, d.profile))
    BY <1>4 DEF Discovered
  <2> QED BY <2>3, <2>4, <2>5, <2>6
<1> QED BY <1>2, <1>3, <1>4

LEMMA TimerSturdy ==
    ASSUME Sturdy, Timers
    PROVE  Sturdy'
<1>1. /\ TypeOK /\ core \in Core /\ wire \in [Links -> LinkState]
      /\ timer \in Timer \cup {None} /\ answering \in Offer \cup {None}
  BY DEF Sturdy, TypeOK, LinkState
<1>2. CASE Tick
  <2>1. UNCHANGED <<core, wire, offered, told, loopVars, dialVars, mediaVars>>
    BY <1>2 DEF Tick
  <2>2. timer' \in Timer \cup {None}
    <3>1. CASE timer # None /\ timer.left > 0
      <4>1. timer \in Timer /\ timer' = [timer EXCEPT !.left = @ - 1]
        BY <1>1, <1>2, <3>1 DEF Tick
      <4>2. timer.left - 1 \in 0 .. Patience
        BY <3>1, <4>1, ServiceAssumption DEF Timer
      <4> QED BY <4>1, <4>2 DEF Timer
    <3>2. CASE ~(timer # None /\ timer.left > 0)
      BY <1>1, <1>2, <3>2 DEF Tick
    <3> QED BY <3>1, <3>2
  <2>3. answering' \in Offer \cup {None}
    <3>1. CASE answering # None /\ answering.left > 0
      <4>1. answering \in Offer /\ answering' = [answering EXCEPT !.left = @ - 1]
        BY <1>1, <1>2, <3>1 DEF Tick
      <4>2. answering.left - 1 \in 0 .. Patience
        BY <3>1, <4>1, ServiceAssumption DEF Offer
      <4> QED BY <4>1, <4>2 DEF Offer
    <3>2. CASE ~(answering # None /\ answering.left > 0)
      BY <1>1, <1>2, <3>2 DEF Tick
    <3> QED BY <3>1, <3>2
  <2>4. TypeOK'
    BY <1>1, <2>1, <2>2, <2>3 DEF TypeOK, loopVars, dialVars, mediaVars
  <2> QED BY <2>1, <2>4, SameSturdy DEF Streams, mediaVars
<1>3. CASE RetryDue
  <2>1. /\ UNCHANGED <<core, wire, offered, told, timer, loopVars, dialVars, mediaVars>>
        /\ answering' \in {answering, None}
    BY <1>3 DEF RetryDue
  <2>2. TypeOK'
    BY <1>1, <2>1 DEF TypeOK, loopVars, dialVars, mediaVars
  <2> QED BY <2>1, <2>2, SameSturdy DEF Streams, mediaVars
<1>4. CASE AnswerExpires
  <2> DEFINE r == TimeoutAnswerActive(core, answering.link)
  <2>1. /\ UNCHANGED <<offered, loopVars, dialVars>>
        /\ IF r.result = "ok"
           THEN /\ core' = r.core
                /\ \E out \in Outcomes(r.commands, wire, "control") : wire' = out.links
                /\ told' = HeardAll(r.commands) /\ Refresh(r.core, timer, None)
           ELSE answering' = None /\ UNCHANGED <<core, wire, told, timer, mediaVars>>
    BY <1>4 DEF AnswerExpires
  <2>2. r.result = "ok" => Steady(core, r)
    BY <1>1, TimeoutSteady
  <2> HIDE DEF r
  <2>3. CASE r.result = "ok"
    <3>1. PICK out \in Outcomes(r.commands, wire, "control") : wire' = out.links
      BY <2>1, <2>3
    <3>5. wire' \in [Links -> LinkState]
      <4>1. GoneStays(wire, out.links)
        BY <1>1, OutcomeTyped, Zenon
      <4> QED BY <3>1, <4>1 DEF GoneStays
    <3>6. told' \in [Links -> {"none", "live", "over", "broken"}]
      BY <1>1, <2>1, <2>3, HeardTyped
    <3>2. /\ held' \in Seq(Announcement)
          /\ loop' \in {"idle", "driving", "publishing", "stopped"}
          /\ discovery' \in Dials \cup {None} /\ tasks' \in [Dials -> 0 .. MaxTasks]
          /\ dialling' \in {"no", "yes", "broken"}
          /\ offered \subseteq offered' /\ offered' \subseteq Links
      BY <1>1, <2>1 DEF TypeOK, dialVars, loopVars
    <3>3. r.core \in Core /\ Led(core, r.core)
      BY <2>2, <2>3 DEF Steady
    <3>4. core' = r.core /\ Refresh(r.core, timer, None)
      BY <2>1, <2>3
    <3> QED BY <1>1, <3>2, <3>3, <3>4, <3>5, <3>6, RefreshSturdy
  <2>4. CASE r.result # "ok"
    <3>1. TypeOK'
      BY <1>1, <2>1, <2>4 DEF TypeOK, loopVars, dialVars, mediaVars
    <3> QED BY <2>1, <2>4, <3>1, SameSturdy DEF Streams, mediaVars
  <2> QED BY <2>3, <2>4
<1>5. CASE TimerExpires /\ TimesOut
  <2> DEFINE b == timer.kind = "IncomingRing"
             r == HangupActive(core, b)
  <2>1. r.core \in Core /\ ~HasCall(r.core)
    <3>1. b \in BOOLEAN
      OBVIOUS
    <3> HIDE DEF b
    <3> QED BY <1>1, <3>1, HangupSteady, NoReasonTyped DEF HangupActive, Steady
  <2>2. Moves(core, r.core, wire)
    BY <2>1, EndMoves
  <2>3. loop = "idle" /\ Control(r, None)
    BY <1>5 DEF TimerExpires
  <2> HIDE DEF r
  <2> QED BY <2>1, <2>2, <2>3, ControlSturdy
<1>6. CASE TimerExpires /\ ~TimesOut
  <2>1. /\ UNCHANGED <<core, wire, offered, told, loopVars, dialVars>>
        /\ \/ Refresh(core, timer, answering)
           \/ timer' = None /\ UNCHANGED <<answering, mediaVars>>
    BY <1>6 DEF TimerExpires
  <2>2. CASE Refresh(core, timer, answering)
    <3>1. /\ held' \in Seq(Announcement) /\ wire' \in [Links -> LinkState]
          /\ told' \in [Links -> {"none", "live", "over", "broken"}]
          /\ loop' \in {"idle", "driving", "publishing", "stopped"}
          /\ discovery' \in Dials \cup {None} /\ tasks' \in [Dials -> 0 .. MaxTasks]
          /\ dialling' \in {"no", "yes", "broken"}
          /\ offered \subseteq offered' /\ offered' \subseteq Links
      BY <1>1, <2>1 DEF TypeOK, dialVars, loopVars
    <3>2. Led(core, core)
      BY <1>1, SameLed
    <3> QED BY <1>1, <2>1, <2>2, <3>1, <3>2, RefreshSturdy
  <2>3. CASE timer' = None /\ UNCHANGED <<answering, mediaVars>>
    <3>1. TypeOK'
      BY <1>1, <2>1, <2>3 DEF TypeOK, loopVars, dialVars, mediaVars
    <3> QED BY <2>1, <2>3, <3>1, SameSturdy DEF Streams, mediaVars
  <2> QED BY <2>1, <2>2, <2>3
<1> QED BY <1>2, <1>3, <1>4, <1>5, <1>6 DEF Timers

LEMMA MediaSturdy ==
    ASSUME Sturdy, Media
    PROVE  Sturdy'
<1>1. TypeOK /\ core \in Core
  BY DEF Sturdy, TypeOK
<1>2. UNCHANGED <<core, wire, offered, told, loopVars, dialVars, timerVars>>
  BY DEF Media, StartTransmit, StopTransmit, PumpFails, StartReceive, StopReceive, MediaStep
<1>3. CanStream => StreamOf(core) \in Stream /\ StreamOf(core).link = core.active.link
  BY <1>1, CallTyped, EnsuredIsProfile DEF CanStream, StreamOf, Stream
<1>4. /\ transmit' \in Stream \cup {None} /\ receive' \in Stream \cup {None}
      /\ onAir' \subseteq {"transmit", "receive"}
      /\ Streams(core)
  <2>1. CASE StartTransmit
    <3>1. CanStream /\ transmit' = StreamOf(core) /\ onAir' = onAir \cup {"transmit"}
          /\ receive' = receive
      BY <2>1 DEF StartTransmit
    <3> QED BY <1>1, <1>3, <3>1 DEF TypeOK, Streams
  <2>2. CASE StopTransmit \/ PumpFails
    BY <1>1, <2>2 DEF StopTransmit, PumpFails, TypeOK, Streams
  <2>3. CASE StartReceive
    <3>1. CanStream /\ receive' = StreamOf(core) /\ onAir' = onAir \cup {"receive"}
          /\ transmit' = transmit
      BY <2>3 DEF StartReceive
    <3> QED BY <1>1, <1>3, <3>1 DEF TypeOK, Streams
  <2>4. CASE StopReceive
    BY <1>1, <2>4 DEF StopReceive, TypeOK, Streams
  <2> QED BY <2>1, <2>2, <2>3, <2>4 DEF Media
<1>5. TypeOK'
  BY <1>1, <1>2, <1>4 DEF TypeOK, loopVars, dialVars, timerVars
<1> QED BY <1>2, <1>4, <1>5, SameSturdy

LEMMA InitSturdy ==
    ASSUME Init
    PROVE  Sturdy
<1>1. core = NewCore([allowed |-> Identities, blocked |-> {}]) /\ transmit = None
  BY DEF Init
<1>2. core \in Core /\ ~HasCall(core)
  BY <1>1 DEF NewCore, Core, AccessPolicy, HasCall
<1>3. [d \in Dials |-> 0] \in [Dials -> 0 .. MaxTasks]
  BY ServiceAssumption
<1>4. <<>> \in Seq(Announcement)
  OBVIOUS
<1>5. TypeOK
  BY <1>2, <1>3, <1>4 DEF Init, TypeOK
<1> QED BY <1>1, <1>2, <1>5 DEF Sturdy, AnsweredMeansOffered, Foreign

LEMMA NextSturdy ==
    ASSUME Sturdy, [Next]_vars
    PROVE  Sturdy'
<1>1. CASE Next
  BY <1>1, LinkEventSturdy, AnswerSturdy, PublishSturdy, CallControlSturdy, DialSturdy,
     TimerSturdy, MediaSturdy DEF Next
<1>2. CASE UNCHANGED vars
  BY <1>2 DEF vars, loopVars, timerVars, dialVars, mediaVars, Sturdy, TypeOK,
     AnsweredMeansOffered, Foreign, Shaped
<1> QED BY <1>1, <1>2

(* Whatever fails around it, the service keeps its state well formed, its  *)
(* calls in shape and its transmit stream away from calls it is not of.    *)
THEOREM ServiceSturdy == Spec => []Sturdy
<1>1. Init => Sturdy
  BY InitSturdy
<1>2. Sturdy /\ [Next]_vars => Sturdy'
  BY NextSturdy
<1> QED BY <1>1, <1>2, PTL DEF Spec

(* No call is answered unless both signals of its answer were admitted:    *)
(* a full mailbox leaves the call ringing (answer_exact).                  *)
THEOREM AnswersOffered == Spec => []AnsweredMeansOffered
<1>1. Sturdy => AnsweredMeansOffered
  BY DEF Sturdy
<1> QED BY <1>1, ServiceSturdy, PTL

(* Frames of one call's stream never leave on the link of another, however *)
(* hangups fail and drives are cut short (send_opus_frames).               *)
THEOREM NoFrameCrosses == Spec => []NoCrossTalk
<1>1. Sturdy => NoCrossTalk
  <2> SUFFICES ASSUME Sturdy, transmit # None, Sendable(transmit),
                      transmit.link # core.active.link
               PROVE  FALSE
    BY DEF NoCrossTalk
  <2>1. HasCall(core) /\ core.active.call.status = Established /\ Shaped(core.active.call)
    BY DEF Sendable, CanStream, Sturdy
  <2>2. Waits(core.active.call, wire[core.active.link])
    BY <2>1 DEF Sturdy, Foreign
  <2> QED BY <2>1, <2>2, StatusValues DEF Waits, Shaped
<1> QED BY <1>1, ServiceSturdy, PTL

(* Every dial has one outcome, of a cancellation or of a discovery of the  *)
(* same identity and profile, which is under way as long as the dial is    *)
(* pending; no other discovery, late or failed, settles it.                *)
THEOREM DialsSettled == Spec => []DialLedger
<1> DEFINE Inv == Sturdy /\ DialLedger
<1>1. Init => DialLedger
  BY DEF Init, DialLedger
<1>2. ASSUME Sturdy, DialLedger, [Next]_vars
      PROVE  DialLedger'
  <2>1. /\ None \notin Dials /\ discovery \in Dials \cup {None}
        /\ dialling \in {"no", "yes", "broken"}
        /\ tasks \in [Dials -> 0 .. MaxTasks] /\ MaxTasks \in Nat
    BY <1>2, ServiceAssumption DEF Sturdy, TypeOK
  <2>2. CASE UNCHANGED <<dialVars, loop>>
    BY <1>2, <2>2 DEF DialLedger, dialVars
  <2>3. CASE UNCHANGED dialVars /\ loop # "stopped"
    BY <1>2, <2>3 DEF DialLedger, dialVars
  <2>4. CASE ShutDown
    BY <1>2, <2>4 DEF DialLedger, ShutDown
  <2>5. ASSUME NEW d \in Dials, StartDiscovery(d)
        PROVE  DialLedger'
    BY <1>2, <2>1, <2>5 DEF DialLedger, StartDiscovery, loopVars
  <2>6. CASE CancelDial
    BY <1>2, <2>6 DEF DialLedger, CancelDial, DialOutcome, loopVars
  <2>7. ASSUME NEW d \in Dials, Discovered(d)
        PROVE  DialLedger'
    <3>1. CASE ~Believed(d)
      <4>1. /\ discovery' = discovery /\ dialling' = dialling /\ loop' = loop
            /\ tasks' = [tasks EXCEPT ![d] = @ - 1]
        BY <2>7, <3>1 DEF Discovered, loopVars
      <4>2. ASSUME discovery # None PROVE tasks'[discovery] = tasks[discovery]
        BY <2>1, <3>1, <4>1, <4>2 DEF Believed
      <4> QED BY <1>2, <4>1, <4>2 DEF DialLedger
    <3>2. CASE Believed(d)
      <4>1. discovery' = None /\ dialling' = DialOutcome /\ loop = "idle" /\ loop' = loop
        BY <2>7, <3>2 DEF Discovered, NoDialling, Dialled, DispatchFails, DialFails, loopVars
      <4> QED BY <1>2, <2>1, <3>2, <4>1 DEF DialLedger, DialOutcome, Believed
    <3> QED BY <3>1, <3>2
  <2>8. ASSUME NEW l \in Links, LinkEvent(l) \/ AnswerExact(l)
        PROVE  UNCHANGED dialVars /\ loop # "stopped"
    BY <2>8 DEF LinkEvent, IncomingUp, OutgoingUp, Identified, PacketIn, Closed,
       PromotionFails, Dropped, Drive, AnswerExact
  <2>9. Publish => UNCHANGED dialVars /\ loop # "stopped"
    BY DEF Publish, PublishOne, SpoilReceive, EndDrive
  <2>10. ASSUME NEW b \in BOOLEAN, HangupControl(b) \/ SetBusy(b)
         PROVE  UNCHANGED <<dialVars, loop>>
    BY <2>10 DEF HangupControl, SetBusy, Control, loopVars
  <2>11. ASSUME NEW p \in Profiles, Switch(p)
         PROVE  UNCHANGED <<dialVars, loop>>
    BY <2>11 DEF Switch, Control, loopVars
  <2>12. Timers => UNCHANGED <<dialVars, loop>>
    BY DEF Timers, Tick, RetryDue, AnswerExpires, TimerExpires, Control, loopVars
  <2>13. Media => UNCHANGED <<dialVars, loop>>
    BY DEF Media, StartTransmit, StopTransmit, PumpFails, StartReceive, StopReceive,
       MediaStep, loopVars
  <2>14. UNCHANGED vars => UNCHANGED <<dialVars, loop>>
    BY DEF vars, loopVars
  <2> QED BY <1>2, <2>2, <2>3, <2>4, <2>5, <2>6, <2>7, <2>8, <2>9, <2>10, <2>11, <2>12, <2>13, <2>14
          DEF Next
<1>3. Init => Inv
  BY <1>1, InitSturdy
<1>4. Inv /\ [Next]_vars => Inv'
  BY <1>2, NextSturdy
<1>5. Inv => DialLedger
  OBVIOUS
<1> QED BY <1>3, <1>4, <1>5, PTL DEF Spec

-----------------------------------------------------------------------------
(* Commands that are carried out *)

OnLink(commands, l) == \A i \in DOMAIN commands : commands[i].link = l

(* The links after the teardowns a step orders. *)
After(links, r) ==
    [l \in Links |-> IF Orders(r, l, "TeardownLink") THEN TornDown(links[l]) ELSE links[l]]

LEMMA TeardownIs ==
    ASSUME NEW command \in Commands, command.action.type = "TeardownLink"
    PROVE  command = Command(command.link, Do("TeardownLink"))
<1>1. command \in [link : Links, action : LineAction]
  BY DEF Commands
<1>2. command.action \in [type : {"TeardownLink"}]
  BY <1>1 DEF LineAction, Action
<1>3. command.action = Do("TeardownLink")
  BY <1>2 DEF Do
<1>4. command = [link |-> command.link, action |-> command.action]
  BY <1>1
<1> QED BY <1>3, <1>4 DEF Command

LEMMA Heeded ==
    ASSUME Undisturbed, NEW r, r.commands \in Seq(Commands),
           NEW links, links \in [Links -> LinkState],
           NEW occasion, occasion \in {"drive", "control"},
           \A i \in DOMAIN r.commands :
               r.commands[i].action.type \in Executable => Owned(links, r.commands[i].link),
           NEW out, out \in Outcomes(r.commands, links, occasion)
    PROVE  out.ok /\ out.links = After(links, r)
<1> DEFINE due == {i \in DOMAIN r.commands : r.commands[i].action.type \in Executable}
           unknown == {i \in due : ~Owned(links, r.commands[i].link)}
           refusable == {i \in due : occasion \in Disorders /\ NeedsRoom(links, r.commands[i])}
<1>1. unknown = {}
  OBVIOUS
<1>2. refusable = {}
  <2>1. occasion \notin Disorders
    BY DEF Undisturbed
  <2> QED BY <2>1
<1>3. out = [ok |-> TRUE, links |-> TearDown(links, r.commands, due)]
  <2> DEFINE first == {i \in unknown \cup refusable : \A j \in unknown : i <= j}
  <2>1. first = {}
    BY <1>1, <1>2
  <2>2. out \in {[ok |-> FALSE, links |-> TearDown(links, r.commands,
                          {j \in due : j < i \/ (j = i /\ i \notin unknown)})] : i \in first}
                  \cup {[ok |-> TRUE, links |-> TearDown(links, r.commands, due)]
                          : i \in {0} \ unknown}
    BY DEF Outcomes
  <2> HIDE DEF first, unknown, due
  <2> QED BY <2>1, <2>2
<1>4. \A l \in Links :
        (\E i \in due : r.commands[i] = Command(l, Do("TeardownLink")))
           <=> Orders(r, l, "TeardownLink")
  <2> TAKE l \in Links
  <2>1. ASSUME NEW i \in due, r.commands[i] = Command(l, Do("TeardownLink"))
        PROVE  Orders(r, l, "TeardownLink")
    BY <2>1 DEF Orders, Command, Do
  <2>2. ASSUME NEW i \in DOMAIN r.commands, r.commands[i].link = l,
               r.commands[i].action.type = "TeardownLink"
        PROVE  i \in due /\ r.commands[i] = Command(l, Do("TeardownLink"))
    <3>1. r.commands[i] \in Commands
      BY <2>2
    <3>2. r.commands[i] = Command(l, Do("TeardownLink"))
      BY <2>2, <3>1, TeardownIs
    <3> QED BY <2>2, <3>2 DEF Executable
  <2> QED BY <2>1, <2>2 DEF Orders
<1>5. TearDown(links, r.commands, due) = After(links, r)
  <2> HIDE DEF due
  <2> QED BY <1>4 DEF TearDown, After
<1> QED BY <1>3, <1>5

LEMMA AfterTyped ==
    ASSUME NEW links \in [Links -> LinkState], NEW r
    PROVE  /\ After(links, r) \in [Links -> LinkState]
           /\ \A l \in Links : After(links, r)[l] = "unused" => links[l] = "unused"
           /\ \A l \in Links : ~Orders(r, l, "TeardownLink") => After(links, r)[l] = links[l]
           /\ \A l \in Links : Orders(r, l, "TeardownLink") =>
                                   After(links, r)[l] = TornDown(links[l])
           /\ \A l \in Links : TornDown(links[l]) \in {"gone", "closing"}
<1>1. \A s \in LinkState : TornDown(s) \in LinkState /\ TornDown(s) \in {"gone", "closing"}
  BY DEF TornDown, LinkState
<1> QED BY <1>1 DEF After

LEMMA AnnouncesNothing ==
    ASSUME NEW r, r.commands \in Seq(Commands),
           \A k \in Links : ~Orders(r, k, "RingIncomingCall") /\ ~Orders(r, k, "CallTerminated")
    PROVE  Announced(r.commands) = <<>>
<1> SUFFICES ASSUME NEW i \in DOMAIN r.commands, IsAnnounced(r.commands[i])
             PROVE  FALSE
  BY AnnouncedIs
<1>1. r.commands[i] \in Commands
  OBVIOUS
<1>2. r.commands[i].link \in Links
  BY <1>1 DEF Commands
<1> QED BY <1>2 DEF IsAnnounced, Orders

LEMMA AnnouncesOne ==
    ASSUME NEW r, r.commands \in Seq(Commands), NEW l \in Links, NEW type,
           type \in {"RingIncomingCall", "CallTerminated"}, Orders(r, l, type),
           \A k \in Links : \A t \in {"RingIncomingCall", "CallTerminated"} :
               Orders(r, k, t) => k = l /\ t = type
    PROVE  \E a : Announced(r.commands) = <<a>> /\ a.link = l /\ a.action.type = type
<1>1. PICK j \in DOMAIN r.commands : r.commands[j].link = l /\ r.commands[j].action.type = type
  BY DEF Orders
<1>2. IsAnnounced(r.commands[j])
  BY <1>1 DEF IsAnnounced
<1>3. PICK i \in DOMAIN r.commands :
         IsAnnounced(r.commands[i]) /\ Announced(r.commands) = <<r.commands[i]>>
  BY <1>2, AnnouncedIs
<1>4. r.commands[i] \in Commands
  OBVIOUS
<1>5. r.commands[i].link \in Links
  BY <1>4 DEF Commands
<1>6. r.commands[i].link = l /\ r.commands[i].action.type = type
  BY <1>3, <1>5 DEF IsAnnounced, Orders
<1> QED BY <1>3, <1>6

LEMMA EndAnnounces ==
    ASSUME NEW r, r.commands \in Seq(Commands), NEW l \in Links,
           \A k \in Links : /\ Orders(r, k, "CallTerminated") <=> k = l
                            /\ ~Orders(r, k, "RingIncomingCall")
    PROVE  \E a : Announced(r.commands) = <<a>> /\ a.link = l /\ a.action.type = "CallTerminated"
BY AnnouncesOne

-----------------------------------------------------------------------------
(* How the story goes on *)

LEMMA StorySame ==
    ASSUME Story, held' = held, told' = told,
           \A l \in Links : IsActive(core', l) <=> IsActive(core, l),
           \A l \in Links : wire'[l] = "unused" \/ l \in core'.pending =>
                               wire[l] = "unused" \/ l \in core.pending
    PROVE  Story'
BY DEF Story, Rings, Stops, Due

(* One more announcement is held back. *)
LEMMA OneMore ==
    ASSUME NEW a, held \in Seq(Announcement), held' = held \o <<a>>, held' \in Seq(Announcement)
    PROVE  /\ DOMAIN held = 1 .. Len(held) /\ Len(held) \in Nat
           /\ DOMAIN held' = 1 .. Len(held) + 1
           /\ \A i \in DOMAIN held : held'[i] = held[i]
           /\ held'[Len(held) + 1] = a
           /\ \A l, type : (\E i \in DOMAIN held' : Due(i, l, type)')
                              <=> \/ \E i \in DOMAIN held : Due(i, l, type)
                                  \/ a.link = l /\ a.action.type = type
<1>1. /\ DOMAIN held = 1 .. Len(held) /\ Len(held) \in Nat
      /\ DOMAIN held' = 1 .. Len(held) + 1
      /\ \A i \in DOMAIN held : held'[i] = held[i]
      /\ held'[Len(held) + 1] = a
  OBVIOUS
<1>2. \A i \in DOMAIN held' : i \in DOMAIN held \/ i = Len(held) + 1
  BY <1>1
<1>3. /\ \A i \in DOMAIN held : i \in DOMAIN held'
      /\ Len(held) + 1 \in DOMAIN held'
  BY <1>1
<1> QED BY <1>1, <1>2, <1>3 DEF Due

LEMMA StoryRings ==
    ASSUME Story, NEW a, NEW l \in Links, a.link = l, a.action.type = "RingIncomingCall",
           held \in Seq(Announcement), held' = held \o <<a>>, held' \in Seq(Announcement),
           told' = told, l \in core.pending, ~HasCall(core),
           \A k \in Links : IsActive(core', k) <=> k = l,
           \A k \in Links : wire'[k] = "unused" \/ k \in core'.pending =>
                               k # l /\ (wire[k] = "unused" \/ k \in core.pending)
    PROVE  Story'
<1> DEFINE n == Len(held) + 1
<1>1. /\ DOMAIN held = 1 .. Len(held) /\ Len(held) \in Nat
      /\ DOMAIN held' = 1 .. n
      /\ \A i \in DOMAIN held : held'[i] = held[i]
      /\ held'[n] = a
      /\ \A k, type : (\E i \in DOMAIN held' : Due(i, k, type)')
                              <=> \/ \E i \in DOMAIN held : Due(i, k, type)
                                  \/ a.link = k /\ a.action.type = type
  BY OneMore
<1>2. told[l] = "none" /\ ~Rings(l) /\ ~Stops(l)
  BY DEF Story, Stops, Rings
<1>3. \A k \in Links : Rings(k)' <=> Rings(k) \/ k = l
  <2> TAKE k \in Links
  <2>1. (\E i \in DOMAIN held' : Due(i, k, "RingIncomingCall")')
           <=> (\E i \in DOMAIN held : Due(i, k, "RingIncomingCall")) \/ k = l
    BY <1>1
  <2> QED BY <2>1 DEF Rings
<1>4. \A k \in Links : Stops(k)' <=> Stops(k)
  <2> TAKE k \in Links
  <2>1. a.action.type # "CallTerminated"
    OBVIOUS
  <2>2. (\E i \in DOMAIN held' : Due(i, k, "CallTerminated")')
           <=> (\E i \in DOMAIN held : Due(i, k, "CallTerminated"))
    BY <1>1, <2>1, Zenon
  <2> QED BY <2>2 DEF Stops
<1>5. \A k \in Links : ~IsActive(core, k)
  BY DEF IsActive
<1>6. ASSUME NEW k \in Links
      PROVE  /\ told'[k] # "broken"
             /\ IsActive(core', k) <=> (told'[k] = "live" \/ Rings(k)') /\ ~Stops(k)'
             /\ Rings(k)' => told'[k] = "none"
             /\ wire'[k] = "unused" \/ k \in core'.pending => told'[k] = "none" /\ ~Rings(k)'
             /\ told'[k] = "over" => ~Stops(k)'
  BY <1>2, <1>3, <1>4, <1>5 DEF Story
<1>7. ASSUME NEW i \in DOMAIN held', NEW j \in DOMAIN held', held'[i].link = held'[j].link,
             held'[i].action.type = held'[j].action.type
      PROVE  i = j
  <2>1. CASE i # n /\ j # n
    BY <1>1, <1>7, <2>1 DEF Story
  <2>2. CASE i = n /\ j # n
    BY <1>1, <1>2, <1>7, <2>2 DEF Rings, Due
  <2>3. CASE i # n /\ j = n
    BY <1>1, <1>2, <1>7, <2>3 DEF Rings, Due
  <2> QED BY <2>1, <2>2, <2>3
<1>8. ASSUME NEW j \in DOMAIN held', NEW k \in Links, Due(j, k, "CallTerminated")'
      PROVE  \/ told'[k] = "live"
             \/ \E i \in DOMAIN held' : i < j /\ Due(i, k, "RingIncomingCall")'
  <2>1. j \in DOMAIN held /\ Due(j, k, "CallTerminated")
    BY <1>1, <1>8 DEF Due
  <2>2. \/ told[k] = "live"
        \/ \E i \in DOMAIN held : i < j /\ Due(i, k, "RingIncomingCall")
    BY <2>1 DEF Story
  <2> QED BY <1>1, <2>2 DEF Due
<1> HIDE DEF n
<1> QED BY <1>6, <1>7, <1>8 DEF Story

LEMMA StoryStops ==
    ASSUME Story, NEW a, NEW l \in Links, a.link = l, a.action.type = "CallTerminated",
           held \in Seq(Announcement), held' = held \o <<a>>, held' \in Seq(Announcement),
           told' = told, IsActive(core, l), ~HasCall(core'),
           \A k \in Links : wire'[k] = "unused" \/ k \in core'.pending =>
                               wire[k] = "unused" \/ k \in core.pending
    PROVE  Story'
<1> DEFINE n == Len(held) + 1
<1>1. /\ DOMAIN held = 1 .. Len(held) /\ Len(held) \in Nat
      /\ DOMAIN held' = 1 .. n
      /\ \A i \in DOMAIN held : held'[i] = held[i]
      /\ held'[n] = a
      /\ \A k, type : (\E i \in DOMAIN held' : Due(i, k, type)')
                              <=> \/ \E i \in DOMAIN held : Due(i, k, type)
                                  \/ a.link = k /\ a.action.type = type
  BY OneMore
<1>2. (told[l] = "live" \/ Rings(l)) /\ ~Stops(l) /\ (Rings(l) => told[l] = "none")
  BY DEF Story
<1>3. \A k \in Links : Rings(k)' <=> Rings(k)
  <2> TAKE k \in Links
  <2>1. (\E i \in DOMAIN held' : Due(i, k, "RingIncomingCall")')
           <=> (\E i \in DOMAIN held : Due(i, k, "RingIncomingCall"))
    BY <1>1
  <2> QED BY <2>1 DEF Rings
<1>4. \A k \in Links : Stops(k)' <=> Stops(k) \/ k = l
  <2> TAKE k \in Links
  <2>1. (\E i \in DOMAIN held' : Due(i, k, "CallTerminated")')
           <=> (\E i \in DOMAIN held : Due(i, k, "CallTerminated")) \/ k = l
    BY <1>1
  <2> QED BY <2>1 DEF Stops
<1>5. \A k \in Links : ~IsActive(core', k) /\ (IsActive(core, k) => k = l)
  BY DEF IsActive
<1>6. ASSUME NEW k \in Links
      PROVE  /\ told'[k] # "broken"
             /\ IsActive(core', k) <=> (told'[k] = "live" \/ Rings(k)') /\ ~Stops(k)'
             /\ Rings(k)' => told'[k] = "none"
             /\ wire'[k] = "unused" \/ k \in core'.pending => told'[k] = "none" /\ ~Rings(k)'
             /\ told'[k] = "over" => ~Stops(k)'
  BY <1>2, <1>3, <1>4, <1>5 DEF Story
<1>7. ASSUME NEW i \in DOMAIN held', NEW j \in DOMAIN held', held'[i].link = held'[j].link,
             held'[i].action.type = held'[j].action.type
      PROVE  i = j
  <2>1. CASE i # n /\ j # n
    BY <1>1, <1>7, <2>1 DEF Story
  <2>2. CASE i = n /\ j # n
    BY <1>1, <1>2, <1>7, <2>2 DEF Stops, Due
  <2>3. CASE i # n /\ j = n
    BY <1>1, <1>2, <1>7, <2>3 DEF Stops, Due
  <2> QED BY <2>1, <2>2, <2>3
<1>8. ASSUME NEW j \in DOMAIN held', NEW k \in Links, Due(j, k, "CallTerminated")'
      PROVE  \/ told'[k] = "live"
             \/ \E i \in DOMAIN held' : i < j /\ Due(i, k, "RingIncomingCall")'
  <2>1. CASE j = n
    <3>1. k = l
      BY <1>1, <1>8, <2>1 DEF Due
    <3>2. CASE told[l] = "live"
      BY <3>1, <3>2
    <3>3. CASE Rings(l)
      <4>1. PICK i \in DOMAIN held : Due(i, l, "RingIncomingCall")
        BY <3>3 DEF Rings
      <4>2. i \in DOMAIN held' /\ i < j /\ Due(i, l, "RingIncomingCall")'
        BY <1>1, <2>1, <4>1 DEF Due
      <4> QED BY <3>1, <4>2
    <3> QED BY <1>2, <3>2, <3>3
  <2>2. CASE j # n
    <3>1. j \in DOMAIN held /\ Due(j, k, "CallTerminated")
      BY <1>1, <1>8, <2>2 DEF Due
    <3>2. \/ told[k] = "live"
          \/ \E i \in DOMAIN held : i < j /\ Due(i, k, "RingIncomingCall")
      BY <3>1 DEF Story
    <3> QED BY <1>1, <3>2 DEF Due
  <2> QED BY <2>1, <2>2
<1> HIDE DEF n
<1> QED BY <1>6, <1>7, <1>8 DEF Story

LEMMA StoryPublishes ==
    ASSUME Story, held \in Seq(Announcement), held # <<>>, held' = Tail(held),
           told \in [Links -> {"none", "live", "over", "broken"}],
           told' = Heard(Head(held)), core' = core, wire' = wire
    PROVE  Story'
<1>0. PICK h : h = held[1]
  OBVIOUS
<1> DEFINE n == Len(held)
           l == h.link
           moved(k, type) == \E i \in DOMAIN held : i # 1 /\ Due(i, k, type)
<1>1. /\ n \in Nat /\ n >= 1 /\ DOMAIN held = 1 .. n /\ 1 \in DOMAIN held
      /\ DOMAIN held' = 1 .. n - 1
      /\ \A i \in DOMAIN held' : i + 1 \in DOMAIN held /\ held'[i] = held[i + 1]
      /\ \A i \in DOMAIN held : i # 1 => i - 1 \in DOMAIN held' /\ held'[i - 1] = held[i]
      /\ h = Head(held) /\ h \in Announcement
  BY <1>0
<1>2. l \in Links /\ h.action.type \in {"RingIncomingCall", "CallTerminated"}
  BY <1>1 DEF Announcement, Do, CallTerminated
<1>3. /\ \A k \in Links : k # l => told'[k] = told[k]
      /\ told'[l] = Hear(told[l], h.action.type)
  BY <1>1, <1>2 DEF Heard
<1>4. \A k, type : (\E i \in DOMAIN held' : Due(i, k, type)') <=> moved(k, type)
  <2>1. \A i \in DOMAIN held' : \A k, type : Due(i, k, type)' <=> Due(i + 1, k, type)
    BY <1>1 DEF Due
  <2>2. \A i \in DOMAIN held' : i + 1 # 1
    BY <1>1
  <2>3. \A i \in DOMAIN held : i # 1 =>
           i - 1 \in DOMAIN held' /\ \A k, type : Due(i - 1, k, type)' <=> Due(i, k, type)
    BY <1>1 DEF Due
  <2> QED BY <1>1, <2>1, <2>2, <2>3
<1>5. \A k \in Links : Rings(k)' <=> moved(k, "RingIncomingCall")
  BY <1>4 DEF Rings
<1>6. \A k \in Links : Stops(k)' <=> moved(k, "CallTerminated")
  BY <1>4 DEF Stops
<1>7. Due(1, l, h.action.type)
  BY <1>0 DEF Due
<1>8. ~moved(l, h.action.type)
  BY <1>1, <1>7 DEF Story, Due
<1>9. \A k \in Links : \A type : Due(1, k, type) <=> k = l /\ type = h.action.type
  BY <1>0 DEF Due
<1>10. \A k \in Links :
          /\ Rings(k) <=> Rings(k)' \/ (k = l /\ h.action.type = "RingIncomingCall")
          /\ Stops(k) <=> Stops(k)' \/ (k = l /\ h.action.type = "CallTerminated")
  BY <1>1, <1>5, <1>6, <1>9 DEF Rings, Stops
<1>11. \A i, j \in DOMAIN held' :
           held'[i].link = held'[j].link /\ held'[i].action.type = held'[j].action.type => i = j
  <2> SUFFICES ASSUME NEW i \in DOMAIN held', NEW j \in DOMAIN held',
                      held'[i].link = held'[j].link,
                      held'[i].action.type = held'[j].action.type
               PROVE  i = j
    OBVIOUS
  <2>1. i + 1 = j + 1
    BY <1>1 DEF Story
  <2> QED BY <1>1, <2>1
<1>12. ASSUME NEW j \in DOMAIN held', NEW k \in Links, Due(j, k, "CallTerminated")'
       PROVE  \/ told[k] = "live"
              \/ k = l /\ h.action.type = "RingIncomingCall"
              \/ \E i \in DOMAIN held' : i < j /\ Due(i, k, "RingIncomingCall")'
  <2>1. j + 1 \in DOMAIN held /\ Due(j + 1, k, "CallTerminated")
    BY <1>1, <1>12 DEF Due
  <2>2. \/ told[k] = "live"
        \/ \E i \in DOMAIN held : i < j + 1 /\ Due(i, k, "RingIncomingCall")
    BY <2>1 DEF Story
  <2>3. ASSUME NEW i \in DOMAIN held, i < j + 1, Due(i, k, "RingIncomingCall")
        PROVE  \/ k = l /\ h.action.type = "RingIncomingCall"
               \/ \E x \in DOMAIN held' : x < j /\ Due(x, k, "RingIncomingCall")'
    <3>1. CASE i = 1
      BY <1>9, <2>3, <3>1
    <3>2. CASE i # 1
      <4>1. i - 1 \in DOMAIN held' /\ i - 1 < j
        BY <1>1, <2>3, <3>2
      <4>2. Due(i - 1, k, "RingIncomingCall")'
        BY <1>1, <2>3, <3>2 DEF Due
      <4> QED BY <4>1, <4>2
    <3> QED BY <3>1, <3>2
  <2> QED BY <2>2, <2>3
<1> HIDE DEF n, l, moved
<1>13. CASE h.action.type = "RingIncomingCall"
  <2>1. told[l] = "none" /\ told'[l] = "live" /\ ~Rings(l)'
    <3>1. Rings(l)
      BY <1>2, <1>10, <1>13
    <3>2. told[l] = "none"
      BY <1>2, <3>1 DEF Story
    <3>3. told'[l] = "live"
      BY <1>3, <1>13, <3>2 DEF Hear
    <3>4. ~Rings(l)'
      BY <1>2, <1>5, <1>8, <1>13
    <3> QED BY <3>2, <3>3, <3>4
  <2>2. ASSUME NEW k \in Links
        PROVE  /\ told'[k] # "broken"
               /\ IsActive(core', k) <=> (told'[k] = "live" \/ Rings(k)') /\ ~Stops(k)'
               /\ Rings(k)' => told'[k] = "none"
               /\ wire'[k] = "unused" \/ k \in core'.pending => told'[k] = "none" /\ ~Rings(k)'
               /\ told'[k] = "over" => ~Stops(k)'
    <3>1. /\ told[k] # "broken"
          /\ IsActive(core, k) <=> (told[k] = "live" \/ Rings(k)) /\ ~Stops(k)
          /\ Rings(k) => told[k] = "none"
          /\ wire[k] = "unused" \/ k \in core.pending => told[k] = "none" /\ ~Rings(k)
          /\ told[k] = "over" => ~Stops(k)
      BY DEF Story
    <3>2. CASE k = l
      BY <1>2, <1>10, <1>13, <2>1, <3>1, <3>2
    <3>3. CASE k # l
      BY <1>3, <1>10, <3>1, <3>3
    <3> QED BY <3>2, <3>3
  <2>3. \A j \in DOMAIN held' : \A k \in Links : Due(j, k, "CallTerminated")' =>
           told'[k] = "live" \/ \E i \in DOMAIN held' : i < j /\ Due(i, k, "RingIncomingCall")'
    BY <1>3, <1>12, <2>1
  <2> QED BY <1>11, <2>2, <2>3 DEF Story
<1>14. CASE h.action.type = "CallTerminated"
  <2>1. told[l] = "live" /\ told'[l] = "over" /\ ~Stops(l)' /\ Stops(l)
    <3>1. Due(1, l, "CallTerminated") /\ Stops(l)
      BY <1>2, <1>7, <1>10, <1>14
    <3>2. told[l] = "live" \/ \E i \in DOMAIN held : i < 1 /\ Due(i, l, "RingIncomingCall")
      BY <1>1, <1>2, <3>1 DEF Story
    <3>3. told[l] = "live"
      BY <1>1, <3>2
    <3>4. told'[l] = "over"
      BY <1>3, <1>14, <3>3 DEF Hear
    <3>5. ~Stops(l)'
      BY <1>2, <1>6, <1>8, <1>14
    <3> QED BY <3>1, <3>3, <3>4, <3>5
  <2>2. ASSUME NEW k \in Links
        PROVE  /\ told'[k] # "broken"
               /\ IsActive(core', k) <=> (told'[k] = "live" \/ Rings(k)') /\ ~Stops(k)'
               /\ Rings(k)' => told'[k] = "none"
               /\ wire'[k] = "unused" \/ k \in core'.pending => told'[k] = "none" /\ ~Rings(k)'
               /\ told'[k] = "over" => ~Stops(k)'
    <3>1. /\ told[k] # "broken"
          /\ IsActive(core, k) <=> (told[k] = "live" \/ Rings(k)) /\ ~Stops(k)
          /\ Rings(k) => told[k] = "none"
          /\ wire[k] = "unused" \/ k \in core.pending => told[k] = "none" /\ ~Rings(k)
          /\ told[k] = "over" => ~Stops(k)
      BY DEF Story
    <3>2. CASE k = l
      BY <1>2, <1>10, <1>14, <2>1, <3>1, <3>2
    <3>3. CASE k # l
      BY <1>3, <1>10, <3>1, <3>3
    <3> QED BY <3>2, <3>3
  <2>3. \A j \in DOMAIN held' : \A k \in Links : Due(j, k, "CallTerminated")' =>
           told'[k] = "live" \/ \E i \in DOMAIN held' : i < j /\ Due(i, k, "RingIncomingCall")'
    <3> SUFFICES ASSUME NEW j \in DOMAIN held', NEW k \in Links, Due(j, k, "CallTerminated")'
                 PROVE  \/ told'[k] = "live"
                        \/ \E i \in DOMAIN held' : i < j /\ Due(i, k, "RingIncomingCall")'
      OBVIOUS
    <3>1. k # l
      BY <2>1 DEF Stops
    <3> QED BY <1>3, <1>12, <1>14, <3>1
  <2> QED BY <1>11, <2>2, <2>3 DEF Story
<1> QED BY <1>2, <1>13, <1>14

(* Between drives the story is told to its end. *)
IdleStory ==
    \A l \in Links :
        /\ told[l] # "broken"
        /\ IsActive(core, l) <=> told[l] = "live"
        /\ wire[l] = "unused" \/ l \in core.pending => told[l] = "none"

LEMMA StoryIdle ==
    ASSUME Story, held = <<>>
    PROVE  IdleStory
<1>1. \A l \in Links : ~Rings(l) /\ ~Stops(l)
  BY DEF Rings, Stops
<1> QED BY <1>1 DEF Story, IdleStory

LEMMA StoryIdleNext ==
    ASSUME IdleStory', held' = <<>>
    PROVE  Story'
<1>1. DOMAIN held' = {}
  OBVIOUS
<1>2. \A l \in Links : ~Rings(l)' /\ ~Stops(l)'
  BY <1>1 DEF Rings, Stops
<1> QED BY <1>1, <1>2 DEF Story, IdleStory

-----------------------------------------------------------------------------
(* What a refresh establishes *)

LEMMA EchoKept ==
    ASSUME core \in Core, HasCall(core) => Shaped(core.active.call), Echoing,
           NEW d \in Core, core' = d, Led(core, d) \/ Begun(d),
           answering' \in {answering, StillAnswering(d, answering)}
    PROVE  Echoing'
<1> SUFFICES ASSUME NEW l \in Links, AwaitsEcho(d, l)
             PROVE  answering' # None /\ answering'.link = l
  BY DEF Echoing
<1>1. /\ HasCall(d) /\ d.active.link = l /\ d.active.call.role = "Incoming"
      /\ d.active.call.answered /\ d.active.call.status = Connecting
  BY DEF AwaitsEcho, IsActive, CanRetryAnswer
<1>2. Led(core, d)
  BY <1>1 DEF Begun
<1>3. /\ HasCall(core) /\ core.active.link = l /\ core.active.call.role = "Incoming"
      /\ core.active.call.answered /\ Shaped(core.active.call)
      /\ Connecting >= core.active.call.status
  BY <1>1, <1>2 DEF Led
<1>4. core.active.call.status = Connecting
  BY <1>3, CallTyped, StatusValues DEF Shaped
<1>5. AwaitsEcho(core, l)
  BY <1>3, <1>4 DEF AwaitsEcho, IsActive, CanRetryAnswer
<1>6. answering # None /\ answering.link = l
  BY <1>5 DEF Echoing
<1> QED BY <1>6 DEF StillAnswering

LEMMA KeptIs ==
    ASSUME NEW c \in Core, NEW s \in Stream \cup {None}, s # None, StreamFits(c, s)
    PROVE  /\ HasCall(c) /\ c.active.call.status = Established
           /\ s = StreamOf(c)
<1>1. s \in Stream
  OBVIOUS
<1>2. s.link = c.active.link /\ s.profile = c.active.call.profile /\ s.profile \in Profiles
  BY <1>1 DEF StreamFits, IsActive, Stream
<1>3. s.profile = EnsuredProfile(c.active.call)
  BY <1>2, ProfileAssumption DEF EnsuredProfile
<1> QED BY <1>1, <1>2, <1>3 DEF StreamFits, IsActive, StreamOf, Stream

LEMMA RefreshedBy ==
    ASSUME TypeOK, NEW c \in Core, core' = c,
           NEW t \in Timer \cup {None}, NEW a \in Offer \cup {None}, Refresh(c, t, a)
    PROVE  Refreshed' /\ (OnAir => OnAir')
<1>1. TimerFor(c, timer') = timer'
  <2>1. timer' = TimerFor(c, t)
    BY DEF Refresh
  <2>2. NewTimer(c).left = Patience /\ [NewTimer(c) EXCEPT !.left = Patience] = NewTimer(c)
    BY DEF NewTimer
  <2>3. CASE TimerKind(c) = "none"
    BY <2>1, <2>3 DEF TimerFor
  <2>4. CASE TimerKind(c) # "none" /\ t # None /\ t = [NewTimer(c) EXCEPT !.left = t.left]
    BY <2>1, <2>4 DEF TimerFor
  <2>5. CASE /\ TimerKind(c) # "none"
             /\ ~(t # None /\ t = [NewTimer(c) EXCEPT !.left = t.left])
    <3>1. timer' = NewTimer(c)
      BY <2>1, <2>5 DEF TimerFor
    <3> QED BY <2>2, <2>5, <3>1 DEF TimerFor
  <2> QED BY <2>3, <2>4, <2>5
<1>2. StillAnswering(c, answering') = answering'
  BY DEF Refresh, StillAnswering
<1>3. /\ transmit' = Kept(c, transmit) /\ receive' = Kept(c, receive)
      /\ onAir' = onAir \ ((IF Kept(c, transmit) # transmit THEN {"transmit"} ELSE {})
                        \cup (IF Kept(c, receive) # receive THEN {"receive"} ELSE {}))
  BY DEF Refresh
<1>4. \A s \in Stream \cup {None} :
         Kept(c, s) # None => /\ HasCall(c) /\ c.active.call.status = Established
                              /\ Kept(c, s) = StreamOf(c)
  BY KeptIs DEF Kept
<1>5. (CanStream)' /\ StreamOf(c) = (StreamOf(core))' <=>
         HasCall(c) /\ c.active.call.status = Established
  BY DEF CanStream
<1>6. transmit \in Stream \cup {None} /\ receive \in Stream \cup {None}
  BY DEF TypeOK
<1>7. \A s \in {transmit', receive'} \ {None} : (CanStream)' /\ s = (StreamOf(core))'
  BY <1>3, <1>4, <1>5, <1>6
<1>8. OnAir => OnAir'
  <2>1. (Kept(c, transmit) = transmit \/ Kept(c, transmit) = None)
        /\ (Kept(c, receive) = receive \/ Kept(c, receive) = None)
    BY DEF Kept
  <2> QED BY <1>3, <2>1 DEF OnAir
<1> QED BY <1>1, <1>2, <1>7, <1>8 DEF Refreshed

-----------------------------------------------------------------------------
(* Steps that speak to one link *)

LEMMA OnLinkFrom ==
    ASSUME NEW d, NEW l, NEW actions
    PROVE  OnLink(Step(d, CommandsFrom(l, actions)).commands, l)
BY DEF OnLink, Step, CommandsFrom, Command

LEMMA OnLinkBoth ==
    ASSUME NEW l, NEW a \in Seq(Commands), NEW b \in Seq(Commands), OnLink(a, l), OnLink(b, l)
    PROVE  OnLink(a \o b, l)
<1> SUFFICES ASSUME NEW i \in DOMAIN (a \o b)
             PROVE  (a \o b)[i].link = l
  BY DEF OnLink
<1>1. CASE i <= Len(a)
  <2>1. i \in DOMAIN a /\ (a \o b)[i] = a[i]
    BY <1>1
  <2> QED BY <2>1 DEF OnLink
<1>2. CASE i > Len(a)
  <2>1. i - Len(a) \in DOMAIN b /\ (a \o b)[i] = b[i - Len(a)]
    BY <1>2
  <2> QED BY <2>1 DEF OnLink
<1> QED BY <1>1, <1>2

LEMMA ReceiveOnLink ==
    ASSUME NEW c, NEW l, IsActive(c, l), NEW s, NEW r, r = ReceiveOn(c, l, s)
    PROVE  r.result = "ok" /\ OnLink(r.commands, l)
<1>1. \E d, actions : r = Step(d, CommandsFrom(l, actions))
  BY DEF ReceiveOn, IsActive
<1>2. \A d, actions : Step(d, CommandsFrom(l, actions)).result = "ok"
  BY DEF Step
<1> QED BY <1>1, <1>2, OnLinkFrom

LEMMA PacketOnLink ==
    ASSUME NEW c \in Core, NEW l \in Links, IsActive(c, l), l \in c.ingress,
           NEW p \in Packets, Orderly(p), NEW r, r = AcceptPlaintext(c, l, p)
    PROVE  r.result = "ok" /\ OnLink(r.commands, l)
<1>1. CASE p = <<>>
  BY <1>1 DEF AcceptPlaintext, Step, OnLink
<1>2. CASE p \in SingleSignals
  <2>1. p # <<>> /\ Len(p) = 1
    BY <1>2 DEF SingleSignals
  <2> QED BY <2>1, ReceiveOnLink DEF AcceptPlaintext
<1>3. CASE p \in SignalPairs
  <2> DEFINE f == ReceiveOn(c, l, p[1])
             g == ReceiveOn(f.core, l, p[2])
  <2>1. p[1] \in Signal /\ p[2] \in Signal /\ p # <<>> /\ Len(p) = 2
    BY <1>3 DEF SignalPairs
  <2>2. ~Final(p[1])
    BY <2>1 DEF Orderly, MaxSignals
  <2>3. f.result = "ok" /\ OnLink(f.commands, l)
    BY ReceiveOnLink
  <2>4. Continues(c, f, l)
    BY <2>1, <2>2, ReceiveOnShape
  <2>5. IsActive(f.core, l) /\ f.core \in Core /\ f.commands \in Seq(Commands)
    BY <2>4 DEF Continues
  <2>6. g.result = "ok" /\ OnLink(g.commands, l)
    BY <2>5, ReceiveOnLink
  <2>7. g.commands \in Seq(Commands)
    BY <2>1, <2>5, ReceiveOnSteady DEF Steady
  <2> DEFINE both == f.commands \o g.commands
  <2>8. r = Step(g.core, both)
    BY <2>1, <2>3, <2>6 DEF AcceptPlaintext, AndThen
  <2> HIDE DEF f, g
  <2>9. OnLink(both, l)
    BY <2>3, <2>5, <2>6, <2>7, OnLinkBoth
  <2> HIDE DEF both
  <2>10. r.result = "ok" /\ r.commands = both
    BY <2>8 DEF Step
  <2> QED BY <2>9, <2>10
<1>4. p = <<>> \/ p \in SingleSignals \/ p \in SignalPairs
  BY DEF Packets
<1> QED BY <1>1, <1>2, <1>3, <1>4

LEMMA DriveHeeded ==
    ASSUME Undisturbed, NEW r, r.commands \in Seq(Commands), r.result = "ok",
           NEW links, links \in [Links -> LinkState], Drive(r, links),
           NEW l, OnLink(r.commands, l),
           (\E i \in DOMAIN r.commands : r.commands[i].action.type \in Executable)
               => Owned(links, l)
    PROVE  /\ core' = r.core /\ loop' = "driving" /\ wire' = After(links, r)
           /\ held' = held \o Announced(r.commands)
           /\ UNCHANGED <<told, answering, transmit, receive, onAir>>
<1>1. PICK out \in Outcomes(r.commands, links, "drive") :
         /\ wire' = out.links
         /\ held' = IF out.ok THEN held \o Announced(r.commands) ELSE <<>>
         /\ loop' = IF out.ok THEN "driving" ELSE "idle"
  BY DEF Drive
<1>2. \A i \in DOMAIN r.commands :
         r.commands[i].action.type \in Executable => Owned(links, r.commands[i].link)
  BY DEF OnLink
<1>3. out.ok /\ out.links = After(links, r)
  BY <1>2, Heeded
<1>4. core' = r.core /\ UNCHANGED <<offered, told, timerVars, dialVars, mediaVars>>
  BY DEF Drive
<1> QED BY <1>1, <1>3, <1>4 DEF timerVars, mediaVars

LEMMA DriveFinishes ==
    ASSUME IInv, Sturdy', Wired', Story', loop' = "driving",
           UNCHANGED <<answering, transmit, receive, onAir>>,
           NEW d \in Core, core' = d, Led(core, d) \/ Begun(d)
    PROVE  IInv'
<1>1. Echoing'
  <2>1. core \in Core /\ (HasCall(core) => Shaped(core.active.call)) /\ Echoing
    BY DEF IInv, Sturdy, TypeOK
  <2> QED BY <2>1, EchoKept
<1>2. OnAir'
  BY DEF IInv, OnAir
<1>3. Quiet'
  BY DEF Quiet
<1> QED BY <1>1, <1>2, <1>3 DEF IInv

LEMMA NothingSaid ==
    ASSUME held \in Seq(Announcement)
    PROVE  held \o <<>> = held
OBVIOUS

(* A new incoming link is refused while the line is busy, and waits for    *)
(* its caller's identity otherwise.                                        *)
LEMMA UpShape ==
    ASSUME NEW c \in Core, NEW l \in Links, ~IsActive(c, l), NEW r, r = LinkEstablished(c, l)
    PROVE  /\ r.result = "ok" /\ r.commands \in Seq(Commands) /\ OnLink(r.commands, l)
           /\ \A k \in Links : /\ ~Orders(r, k, "RingIncomingCall")
                               /\ ~Orders(r, k, "CallTerminated")
                               /\ Orders(r, k, "TeardownLink") <=> k = l /\ LineBusy(c)
           /\ LineBusy(c) => r.core = c
           /\ ~LineBusy(c) => /\ r.core \in Core /\ ~HasCall(r.core)
                              /\ r.core.pending = c.pending \cup {l}
                              /\ r.core.ingress = c.ingress \cup {l}
<1> DEFINE d == IF LineBusy(c) THEN c
                ELSE [c EXCEPT !.pending = @ \cup {l}, !.ingress = @ \cup {l}]
           a == IncomingLinkEstablished(LineBusy(c))
<1>1. r = Step(d, CommandsFrom(l, a))
  BY DEF LinkEstablished, LinkUpIncoming
<1>2. /\ LineBusy(c) => d = c
      /\ ~LineBusy(c) => /\ d \in Core /\ ~HasCall(d)
                         /\ d.pending = c.pending \cup {l}
                         /\ d.ingress = c.ingress \cup {l}
  BY DEF Core, LineBusy, HasCall
<1>3. /\ "RingIncomingCall" \notin Effects(a) /\ "CallTerminated" \notin Effects(a)
      /\ "TeardownLink" \in Effects(a) <=> LineBusy(c)
  <2>1. CASE LineBusy(c)
    <3>1. a = <<SendStatus(Busy), Do("TeardownLink")>>
      BY <2>1 DEF IncomingLinkEstablished
    <3>2. Effects(a) = {"SendSignal", "TeardownLink"}
      BY <3>1 DEF Effects, SendStatus, SendSignal, Do
    <3> QED BY <2>1, <3>2
  <2>2. CASE ~LineBusy(c)
    <3>1. a = <<SendStatus(Available)>>
      BY <2>2 DEF IncomingLinkEstablished
    <3>2. Effects(a) = {"SendSignal"}
      BY <3>1 DEF Effects, SendStatus, SendSignal
    <3> QED BY <2>2, <3>2
  <2> QED BY <2>1, <2>2
<1>4. r.result = "ok" /\ r.commands \in Seq(Commands)
  BY LinkUpSteady DEF Steady
<1> HIDE DEF d, a
<1>5. r.core = d /\ OnLink(r.commands, l)
  BY <1>1, OnLinkFrom DEF Step
<1>6. \A k \in Links : \A t : Orders(r, k, t) <=> k = l /\ t \in Effects(a)
  BY <1>1, OrdersFrom
<1> QED BY <1>2, <1>3, <1>4, <1>5, <1>6

(* An identified caller is turned away, or rings. *)
LEMMA IdentifiedShape ==
    ASSUME NEW c \in Core, NEW l \in Links, l \in c.pending, NEW i \in Identities,
           NEW r, r = RemoteIdentified(c, l, i)
    PROVE  /\ r.result = "ok" /\ r.commands \in Seq(Commands) /\ OnLink(r.commands, l)
           /\ r.core \in Core
           /\ \A k \in Links : ~Orders(r, k, "CallTerminated")
           /\ \/ /\ r.core.active = c.active
                 /\ r.core.pending = c.pending \ {l} /\ r.core.ingress = c.ingress \ {l}
                 /\ \A k \in Links : ~Orders(r, k, "RingIncomingCall")
                 /\ \A k \in Links : Orders(r, k, "TeardownLink") <=> k = l
              \/ /\ ~HasCall(c) /\ IsActive(r.core, l)
                 /\ r.core.pending = c.pending \ {l} /\ r.core.ingress = c.ingress
                 /\ \A k \in Links : Orders(r, k, "RingIncomingCall") <=> k = l
                 /\ \A k \in Links : ~Orders(r, k, "TeardownLink")
<1> DEFINE allowed == IsAllowed(c.access, i)
           less == [c EXCEPT !.pending = @ \ {l}, !.ingress = @ \ {l}]
           active == [link |-> l, identity |-> i, call |-> At(IncomingCall, Ringing)]
           more == [c EXCEPT !.pending = @ \ {l}, !.active = active]
           refuse == <<SendStatus(Busy), Do("TeardownLink")>>
           ring == <<Do("ResetDialingPipelines"), SendStatus(Ringing), Do("RingIncomingCall")>>
<1>1. r.core \in Core /\ r.commands \in Seq(Commands)
  BY IdentifiedSteady
<1>2. CASE LineBusy(c) \/ ~allowed
  <2>1. r = Step(less, CommandsFrom(l, refuse))
    BY <1>2 DEF RemoteIdentified, CallerIdentified, Result
  <2>2. /\ less.active = c.active /\ less.pending = c.pending \ {l}
        /\ less.ingress = c.ingress \ {l}
    BY DEF Core
  <2>3. Effects(refuse) = {"SendSignal", "TeardownLink"}
    BY DEF Effects, SendStatus, SendSignal, Do
  <2> HIDE DEF less, refuse
  <2>4. r.core = less /\ r.result = "ok" /\ OnLink(r.commands, l)
    BY <2>1, OnLinkFrom DEF Step
  <2>5. \A k \in Links : \A t : Orders(r, k, t) <=> k = l /\ t \in Effects(refuse)
    BY <2>1, OrdersFrom
  <2> QED BY <1>1, <2>2, <2>3, <2>4, <2>5
<1>3. CASE ~LineBusy(c) /\ allowed
  <2>1. r = Step(more, CommandsFrom(l, ring))
    BY <1>3 DEF RemoteIdentified, CallerIdentified, Result
  <2>2. /\ more.active = active /\ more.pending = c.pending \ {l}
        /\ more.ingress = c.ingress
    BY DEF Core
  <2>3. active.link = l /\ ~HasCall(c)
    BY <1>3 DEF LineBusy
  <2>4. Effects(ring) = {"ResetDialingPipelines", "SendSignal", "RingIncomingCall"}
    BY DEF Effects, SendStatus, SendSignal, Do
  <2> HIDE DEF more, ring, active
  <2>5. r.core = more /\ r.result = "ok" /\ OnLink(r.commands, l)
    BY <2>1, OnLinkFrom DEF Step
  <2>6. IsActive(r.core, l)
    <3>1. HasCall(r.core)
      <4>1. active \in ActiveCall
        <5>1. Ringing \in AutoStatus /\ IncomingCall \in Call
          BY StatusValues DEF IncomingCall, Call
        <5>2. At(IncomingCall, Ringing) \in Call
          BY <5>1, AtTyped
        <5> QED BY <5>2 DEF active, ActiveCall
      <4> QED BY <2>2, <2>5, <4>1, NoCallAssumption DEF HasCall, ActiveCall
    <3> QED BY <2>2, <2>3, <2>5, <3>1 DEF IsActive
  <2>7. \A k \in Links : \A t : Orders(r, k, t) <=> k = l /\ t \in Effects(ring)
    BY <2>1, OrdersFrom
  <2> QED BY <1>1, <2>2, <2>3, <2>4, <2>5, <2>6, <2>7
<1> QED BY <1>2, <1>3

LEMMA LinkUpInv ==
    ASSUME Undisturbed, IInv, NEW l \in Links, IncomingUp(l) \/ OutgoingUp(l)
    PROVE  IInv'
<1> DEFINE r == LinkEstablished(core, l)
<1>1. /\ core \in Core /\ wire \in [Links -> LinkState] /\ held \in Seq(Announcement)
      /\ Wired /\ Story /\ Sturdy
  BY DEF IInv, Sturdy, TypeOK, LinkState
<1>2. Sturdy'
  BY <1>1, LinkEventSturdy DEF LinkEvent
<1>3. held' \in Seq(Announcement)
  BY <1>2 DEF Sturdy, TypeOK
<1>4. CASE OutgoingUp(l)
  <2> DEFINE links == [wire EXCEPT ![l] = "outgoing"]
             d == [core EXCEPT !.ingress = @ \cup {l}]
  <2>1. wire[l] = "requested" /\ Drive(r, links)
    BY <1>4 DEF OutgoingUp
  <2>2. IsActive(core, l) /\ core.active.call.role = "Outgoing"
    BY <1>1, <2>1 DEF Wired
  <2>3. r = Step(d, <<>>)
    BY <2>2 DEF LinkEstablished, LinkUpOutgoing
  <2>4. /\ d \in Core /\ d.active = core.active /\ d.pending = core.pending
        /\ d.ingress = core.ingress \cup {l}
    BY <1>1 DEF Core
  <2>5. /\ links \in [Links -> LinkState] /\ links[l] = "outgoing"
        /\ \A k \in Links : k # l => links[k] = wire[k]
    BY <1>1 DEF LinkState
  <2> HIDE DEF r, d, links
  <2>6. r.core = d /\ r.commands = <<>> /\ r.result = "ok"
    BY <2>3 DEF Step
  <2>7. /\ core' = d /\ loop' = "driving" /\ wire' = After(links, r)
        /\ held' = held \o Announced(r.commands)
        /\ UNCHANGED <<told, answering, transmit, receive, onAir>>
    <3>1. r.commands \in Seq(Commands) /\ OnLink(r.commands, l)
      BY <2>6 DEF OnLink
    <3>2. ~\E i \in DOMAIN r.commands : r.commands[i].action.type \in Executable
      BY <2>6
    <3> QED BY <2>1, <2>5, <2>6, <3>1, <3>2, DriveHeeded
  <2>8. wire' = links
    <3>1. \A k \in Links : ~Orders(r, k, "TeardownLink")
      BY <2>6 DEF Orders
    <3> QED BY <2>5, <2>7, <3>1 DEF After
  <2>9. held' = held
    <3>1. Announced(r.commands) = <<>>
      BY <2>6 DEF Announced
    <3> QED BY <1>1, <2>7, <3>1, NothingSaid
  <2>10. \A k \in Links : IsActive(core', k) <=> IsActive(core, k)
    BY <2>4, <2>7 DEF IsActive, HasCall
  <2>11. Wired'
    <3>1. HasCall(core') => Owned(wire', core'.active.link) /\ core'.active.link \in core'.ingress
      BY <2>2, <2>4, <2>5, <2>7, <2>8 DEF IsActive, Owned
    <3>2. \A k \in core'.pending :
             wire'[k] = "incoming" /\ k \in core'.ingress /\ ~IsActive(core', k)
      <4> SUFFICES ASSUME NEW k \in core'.pending
                   PROVE  wire'[k] = "incoming" /\ k \in core'.ingress /\ ~IsActive(core', k)
        OBVIOUS
      <4>1. /\ k \in core.pending /\ k \in Links /\ wire[k] = "incoming"
            /\ k \in core.ingress /\ ~IsActive(core, k)
        BY <1>1, <2>4, <2>7 DEF Wired, Core
      <4> QED BY <2>1, <2>4, <2>5, <2>7, <2>8, <2>10, <4>1
    <3>3. \A k \in Links : wire'[k] = "requested" =>
             IsActive(core', k) /\ core'.active.call.role = "Outgoing"
      BY <1>1, <2>4, <2>5, <2>7, <2>8, <2>10 DEF Wired
    <3> QED BY <3>1, <3>2, <3>3 DEF Wired
  <2>12. Story'
    <3>1. \A k \in Links : wire'[k] = "unused" \/ k \in core'.pending =>
                              wire[k] = "unused" \/ k \in core.pending
      BY <2>4, <2>5, <2>7, <2>8
    <3> QED BY <1>1, <2>7, <2>9, <2>10, <3>1, StorySame
  <2>13. Led(core, d)
    BY <1>1, <2>4, SameLed
  <2> QED BY <1>2, <2>4, <2>7, <2>11, <2>12, <2>13, DriveFinishes
<1>5. CASE IncomingUp(l)
  <2> DEFINE links == [wire EXCEPT ![l] = "incoming"]
  <2>1. wire[l] = "unused" /\ Drive(r, links)
    BY <1>5 DEF IncomingUp
  <2>2. ~IsActive(core, l) /\ l \notin core.pending
    BY <1>1, <2>1 DEF Wired, IsActive, Owned
  <2>3. /\ r.result = "ok" /\ r.commands \in Seq(Commands) /\ OnLink(r.commands, l)
        /\ \A k \in Links : /\ ~Orders(r, k, "RingIncomingCall")
                            /\ ~Orders(r, k, "CallTerminated")
                            /\ Orders(r, k, "TeardownLink") <=> k = l /\ LineBusy(core)
        /\ LineBusy(core) => r.core = core
        /\ ~LineBusy(core) => /\ r.core \in Core /\ ~HasCall(r.core)
                              /\ r.core.pending = core.pending \cup {l}
                              /\ r.core.ingress = core.ingress \cup {l}
    BY <1>1, <2>2, UpShape
  <2>4. /\ links \in [Links -> LinkState] /\ links[l] = "incoming"
        /\ \A k \in Links : k # l => links[k] = wire[k]
    BY <1>1 DEF LinkState
  <2>5. r.core.active = core.active
    BY <1>1, LinkUpSteady
  <2> HIDE DEF r, links
  <2>6. /\ core' = r.core /\ loop' = "driving" /\ wire' = After(links, r)
        /\ held' = held \o Announced(r.commands)
        /\ UNCHANGED <<told, answering, transmit, receive, onAir>>
    <3>1. Owned(links, l)
      BY <2>4 DEF Owned
    <3> QED BY <2>1, <2>3, <2>4, <3>1, DriveHeeded
  <2>7. /\ wire'[l] \in {"incoming", "closing"}
        /\ ~LineBusy(core) => wire'[l] = "incoming"
        /\ \A k \in Links : k # l => wire'[k] = wire[k]
    BY <2>3, <2>4, <2>6 DEF After, TornDown
  <2>8. held' = held
    BY <1>1, <2>3, <2>6, AnnouncesNothing, NothingSaid
  <2>9. \A k \in Links : IsActive(core', k) <=> IsActive(core, k)
    BY <2>5, <2>6 DEF IsActive, HasCall
  <2>10. /\ core'.ingress = core.ingress \/ core'.ingress = core.ingress \cup {l}
         /\ \/ core'.pending = core.pending
            \/ /\ core'.pending = core.pending \cup {l} /\ ~LineBusy(core)
               /\ core'.ingress = core.ingress \cup {l}
    BY <2>3, <2>6
  <2>11. Wired'
    <3>1. HasCall(core') => Owned(wire', core'.active.link) /\ core'.active.link \in core'.ingress
      <4> SUFFICES ASSUME HasCall(core')
                   PROVE  Owned(wire', core'.active.link) /\ core'.active.link \in core'.ingress
        OBVIOUS
      <4>1. /\ HasCall(core) /\ core.active.link # l /\ core.active.link \in Links
            /\ core'.active.link = core.active.link
        BY <1>1, <2>2, <2>5, <2>6, CallTyped DEF HasCall, IsActive
      <4> QED BY <1>1, <2>7, <2>10, <4>1 DEF Wired, Owned
    <3>2. \A k \in core'.pending :
             wire'[k] = "incoming" /\ k \in core'.ingress /\ ~IsActive(core', k)
      <4> SUFFICES ASSUME NEW k \in core'.pending
                   PROVE  wire'[k] = "incoming" /\ k \in core'.ingress /\ ~IsActive(core', k)
        OBVIOUS
      <4>1. CASE k \in core.pending
        <5>1. /\ k \in Links /\ wire[k] = "incoming" /\ k \in core.ingress /\ k # l
              /\ ~IsActive(core, k)
          BY <1>1, <2>2, <4>1 DEF Wired, Core
        <5> QED BY <2>7, <2>9, <2>10, <5>1
      <4>2. CASE k \notin core.pending
        BY <2>2, <2>7, <2>9, <2>10, <4>2
      <4> QED BY <4>1, <4>2
    <3>3. \A k \in Links : wire'[k] = "requested" =>
             IsActive(core', k) /\ core'.active.call.role = "Outgoing"
      <4> SUFFICES ASSUME NEW k \in Links, wire'[k] = "requested"
                   PROVE  IsActive(core', k) /\ core'.active.call.role = "Outgoing"
        OBVIOUS
      <4>1. k # l /\ wire[k] = "requested"
        BY <2>7
      <4>2. IsActive(core, k) /\ core.active.call.role = "Outgoing"
        BY <1>1, <4>1 DEF Wired
      <4> QED BY <2>5, <2>6, <2>9, <4>2
    <3> QED BY <3>1, <3>2, <3>3 DEF Wired
  <2>12. Story'
    <3>1. \A k \in Links : wire'[k] = "unused" \/ k \in core'.pending =>
                              wire[k] = "unused" \/ k \in core.pending
      BY <2>1, <2>7, <2>10
    <3> QED BY <1>1, <2>6, <2>8, <2>9, <3>1, StorySame
  <2>13. r.core \in Core /\ Led(core, r.core)
    BY <1>1, <2>3, <2>5, SameLed
  <2> QED BY <1>2, <2>6, <2>11, <2>12, <2>13, DriveFinishes
<1> QED BY <1>4, <1>5

LEMMA IdentifiedInv ==
    ASSUME Undisturbed, IInv, NEW l \in Links, Identified(l)
    PROVE  IInv'
<1>1. /\ core \in Core /\ wire \in [Links -> LinkState] /\ held \in Seq(Announcement)
      /\ Wired /\ Story /\ Sturdy
  BY DEF IInv, Sturdy, TypeOK, LinkState
<1>2. Sturdy'
  BY <1>1, LinkEventSturdy DEF LinkEvent
<1>3. held' \in Seq(Announcement)
  BY <1>2 DEF Sturdy, TypeOK
<1>4. /\ l \in core.pending /\ wire[l] = "incoming" /\ l \in core.ingress
      /\ ~IsActive(core, l)
  <2>1. l \in core.pending
    BY DEF Identified, Late, Undisturbed
  <2> QED BY <1>1, <2>1 DEF Wired
<1>5. PICK i \in Identities : Drive(RemoteIdentified(core, l, i), wire)
  BY DEF Identified
<1> DEFINE r == RemoteIdentified(core, l, i)
<1>6. /\ r.result = "ok" /\ r.commands \in Seq(Commands) /\ OnLink(r.commands, l)
      /\ r.core \in Core
      /\ \A k \in Links : ~Orders(r, k, "CallTerminated")
      /\ \/ /\ r.core.active = core.active
            /\ r.core.pending = core.pending \ {l} /\ r.core.ingress = core.ingress \ {l}
            /\ \A k \in Links : ~Orders(r, k, "RingIncomingCall")
            /\ \A k \in Links : Orders(r, k, "TeardownLink") <=> k = l
         \/ /\ ~HasCall(core) /\ IsActive(r.core, l)
            /\ r.core.pending = core.pending \ {l} /\ r.core.ingress = core.ingress
            /\ \A k \in Links : Orders(r, k, "RingIncomingCall") <=> k = l
            /\ \A k \in Links : ~Orders(r, k, "TeardownLink")
  BY <1>1, <1>4, IdentifiedShape
<1>7. Led(core, r.core) \/ Begun(r.core)
  BY <1>1, IdentifiedSteady
<1>8. Drive(r, wire)
  BY <1>5
<1> HIDE DEF r
<1>9. /\ core' = r.core /\ loop' = "driving" /\ wire' = After(wire, r)
      /\ held' = held \o Announced(r.commands)
      /\ UNCHANGED <<told, answering, transmit, receive, onAir>>
  BY <1>1, <1>4, <1>6, <1>8, DriveHeeded DEF Owned
<1>10. CASE /\ r.core.active = core.active
            /\ r.core.pending = core.pending \ {l} /\ r.core.ingress = core.ingress \ {l}
            /\ \A k \in Links : ~Orders(r, k, "RingIncomingCall")
            /\ \A k \in Links : Orders(r, k, "TeardownLink") <=> k = l
  <2>1. wire'[l] = "closing" /\ \A k \in Links : k # l => wire'[k] = wire[k]
    BY <1>4, <1>9, <1>10 DEF After, TornDown
  <2>2. held' = held
    BY <1>1, <1>6, <1>9, <1>10, AnnouncesNothing, NothingSaid
  <2>3. \A k \in Links : IsActive(core', k) <=> IsActive(core, k)
    BY <1>9, <1>10 DEF IsActive, HasCall
  <2>4. Wired'
    <3>1. HasCall(core') => Owned(wire', core'.active.link) /\ core'.active.link \in core'.ingress
      <4> SUFFICES ASSUME HasCall(core')
                   PROVE  Owned(wire', core'.active.link) /\ core'.active.link \in core'.ingress
        OBVIOUS
      <4>1. /\ HasCall(core) /\ core.active.link # l /\ core.active.link \in Links
            /\ core'.active.link = core.active.link
        BY <1>1, <1>4, <1>9, <1>10, CallTyped DEF HasCall, IsActive
      <4> QED BY <1>1, <1>9, <1>10, <2>1, <4>1 DEF Wired, Owned
    <3>2. \A k \in core'.pending :
             wire'[k] = "incoming" /\ k \in core'.ingress /\ ~IsActive(core', k)
      <4> SUFFICES ASSUME NEW k \in core'.pending
                   PROVE  wire'[k] = "incoming" /\ k \in core'.ingress /\ ~IsActive(core', k)
        OBVIOUS
      <4>1. k # l /\ k \in core.pending /\ k \in Links
        BY <1>1, <1>9, <1>10 DEF Core
      <4> QED BY <1>1, <1>9, <1>10, <2>1, <2>3, <4>1 DEF Wired
    <3>3. \A k \in Links : wire'[k] = "requested" =>
             IsActive(core', k) /\ core'.active.call.role = "Outgoing"
      <4> SUFFICES ASSUME NEW k \in Links, wire'[k] = "requested"
                   PROVE  IsActive(core', k) /\ core'.active.call.role = "Outgoing"
        OBVIOUS
      <4>1. wire[k] = "requested"
        BY <2>1
      <4>2. IsActive(core, k) /\ core.active.call.role = "Outgoing"
        BY <1>1, <4>1 DEF Wired
      <4> QED BY <1>9, <1>10, <2>3, <4>2
    <3> QED BY <3>1, <3>2, <3>3 DEF Wired
  <2>5. Story'
    <3>1. \A k \in Links : wire'[k] = "unused" \/ k \in core'.pending =>
                              wire[k] = "unused" \/ k \in core.pending
      BY <1>9, <1>10, <2>1
    <3> QED BY <1>1, <1>9, <2>2, <2>3, <3>1, StorySame
  <2> QED BY <1>2, <1>6, <1>7, <1>9, <2>4, <2>5, DriveFinishes
<1>11. CASE /\ ~HasCall(core) /\ IsActive(r.core, l)
            /\ r.core.pending = core.pending \ {l} /\ r.core.ingress = core.ingress
            /\ \A k \in Links : Orders(r, k, "RingIncomingCall") <=> k = l
            /\ \A k \in Links : ~Orders(r, k, "TeardownLink")
  <2>1. \A k \in Links : wire'[k] = wire[k]
    BY <1>9, <1>11 DEF After
  <2>2. \A k \in Links : IsActive(core', k) <=> k = l
    BY <1>9, <1>11 DEF IsActive
  <2>3. Wired'
    <3>1. HasCall(core') => Owned(wire', core'.active.link) /\ core'.active.link \in core'.ingress
      <4>1. core'.active.link = l
        BY <1>9, <1>11 DEF IsActive
      <4> QED BY <1>4, <1>9, <1>11, <2>1, <4>1 DEF Owned
    <3>2. \A k \in core'.pending :
             wire'[k] = "incoming" /\ k \in core'.ingress /\ ~IsActive(core', k)
      <4> SUFFICES ASSUME NEW k \in core'.pending
                   PROVE  wire'[k] = "incoming" /\ k \in core'.ingress /\ ~IsActive(core', k)
        OBVIOUS
      <4>1. k # l /\ k \in core.pending /\ k \in Links
        BY <1>1, <1>9, <1>11 DEF Core
      <4> QED BY <1>1, <1>9, <1>11, <2>1, <2>2, <4>1 DEF Wired
    <3>3. \A k \in Links : wire'[k] # "requested"
      BY <1>1, <1>11, <2>1 DEF Wired, IsActive
    <3> QED BY <3>1, <3>2, <3>3 DEF Wired
  <2>4. Story'
    <3>1. PICK a : Announced(r.commands) = <<a>> /\ a.link = l /\ a.action.type = "RingIncomingCall"
      BY <1>6, <1>11, AnnouncesOne
    <3>2. \A k \in Links : wire'[k] = "unused" \/ k \in core'.pending =>
                              k # l /\ (wire[k] = "unused" \/ k \in core.pending)
      BY <1>4, <1>9, <1>11, <2>1
    <3> QED BY <1>1, <1>3, <1>4, <1>9, <1>11, <2>2, <3>1, <3>2, StoryRings
  <2> QED BY <1>2, <1>6, <1>7, <1>9, <2>3, <2>4, DriveFinishes
<1> QED BY <1>6, <1>10, <1>11

LEMMA WiredEnded ==
    ASSUME Wired, core \in Core, NEW l \in Links, IsActive(core, l), ~HasCall(core'),
           core'.pending = core.pending \ {l}, core'.ingress = core.ingress \ {l},
           \A k \in Links : k # l => wire'[k] = wire[k], wire'[l] # "requested"
    PROVE  Wired'
<1>1. \A k \in core'.pending :
         wire'[k] = "incoming" /\ k \in core'.ingress /\ ~IsActive(core', k)
  <2> SUFFICES ASSUME NEW k \in core'.pending
               PROVE  wire'[k] = "incoming" /\ k \in core'.ingress /\ ~IsActive(core', k)
    OBVIOUS
  <2>1. k # l /\ k \in core.pending /\ k \in Links
    BY DEF Core
  <2> QED BY <2>1 DEF Wired, IsActive
<1>2. \A k \in Links : wire'[k] # "requested"
  <2> SUFFICES ASSUME NEW k \in Links, wire'[k] = "requested"
               PROVE  FALSE
    OBVIOUS
  <2>1. k # l /\ wire[k] = "requested"
    OBVIOUS
  <2>2. IsActive(core, k)
    BY <2>1 DEF Wired
  <2> QED BY <2>1, <2>2 DEF IsActive
<1> QED BY <1>1, <1>2 DEF Wired

(* A call that goes on keeps its link and its place in the story.          *)
LEMMA WiredOn ==
    ASSUME Wired, NEW l \in Links, IsActive(core, l), IsActive(core', l),
           core'.pending = core.pending, core'.ingress = core.ingress, wire' = wire,
           core'.active.call.role = core.active.call.role
    PROVE  Wired'
BY DEF Wired, IsActive

LEMMA PacketInv ==
    ASSUME Undisturbed, IInv, NEW l \in Links, PacketIn(l)
    PROVE  IInv'
<1>1. /\ core \in Core /\ wire \in [Links -> LinkState] /\ held \in Seq(Announcement)
      /\ Wired /\ Story /\ Sturdy
  BY DEF IInv, Sturdy, TypeOK, LinkState
<1>2. Sturdy'
  BY <1>1, LinkEventSturdy DEF LinkEvent
<1>3. held' \in Seq(Announcement)
  BY <1>2 DEF Sturdy, TypeOK
<1>4. IsActive(core, l) /\ Owned(wire, l) /\ l \in core.ingress
  <2>1. IsActive(core, l)
    BY DEF PacketIn, Late, Undisturbed
  <2> QED BY <1>1, <2>1 DEF Wired, IsActive
<1>5. PICK p \in Payloads : Drive(AcceptPlaintext(core, l, p), wire)
  BY DEF PacketIn
<1>6. p \in Packets /\ Orderly(p)
  BY ServiceAssumption DEF Undisturbed
<1> DEFINE r == AcceptPlaintext(core, l, p)
<1>7. r.result = "ok" /\ OnLink(r.commands, l)
  BY <1>1, <1>4, <1>6, PacketOnLink
<1>8. r.core \in Core /\ r.commands \in Seq(Commands) /\ Led(core, r.core)
  BY <1>1, <1>6, PacketSteady DEF Steady
<1>9. Idles(core, r) \/ Continues(core, r, l) \/ Ends(core, r, l, TRUE)
  BY <1>1, <1>6, PacketShape
<1>10. Drive(r, wire)
  BY <1>5
<1> HIDE DEF r
<1>11. /\ core' = r.core /\ loop' = "driving" /\ wire' = After(wire, r)
       /\ held' = held \o Announced(r.commands)
       /\ UNCHANGED <<told, answering, transmit, receive, onAir>>
  BY <1>1, <1>4, <1>7, <1>8, <1>10, DriveHeeded
<1>12. CASE Idles(core, r) \/ Continues(core, r, l)
  <2>1. /\ IsActive(core', l) /\ core'.pending = core.pending /\ core'.ingress = core.ingress
        /\ core'.active.call.role = core.active.call.role
        /\ \A k \in Links : \A t \in LifeEffects : ~Orders(r, k, t)
    BY <1>4, <1>11, <1>12 DEF Idles, Continues, IsActive, HasCall
  <2>2. wire' = wire
    <3>1. \A k \in Links : ~Orders(r, k, "TeardownLink")
      BY <2>1 DEF LifeEffects
    <3> QED BY <1>1, <1>11, <3>1 DEF After
  <2>3. held' = held
    <3>1. \A k \in Links : ~Orders(r, k, "RingIncomingCall") /\ ~Orders(r, k, "CallTerminated")
      BY <2>1 DEF LifeEffects
    <3> QED BY <1>1, <1>8, <1>11, <3>1, AnnouncesNothing, NothingSaid
  <2>4. \A k \in Links : IsActive(core', k) <=> IsActive(core, k)
    BY <1>4, <2>1 DEF IsActive
  <2>5. Wired'
    BY <1>1, <1>4, <2>1, <2>2, WiredOn
  <2>6. Story'
    <3>1. \A k \in Links : wire'[k] = "unused" \/ k \in core'.pending =>
                              wire[k] = "unused" \/ k \in core.pending
      BY <2>1, <2>2
    <3> QED BY <1>1, <1>11, <2>3, <2>4, <3>1, StorySame
  <2> QED BY <1>2, <1>8, <1>11, <2>5, <2>6, DriveFinishes
<1>13. CASE Ends(core, r, l, TRUE)
  <2>1. /\ ~HasCall(core') /\ core'.pending = core.pending \ {l}
        /\ core'.ingress = core.ingress \ {l}
        /\ \A k \in Links : /\ Orders(r, k, "TeardownLink") <=> k = l
                            /\ Orders(r, k, "CallTerminated") <=> k = l
                            /\ ~Orders(r, k, "RingIncomingCall")
    BY <1>11, <1>13 DEF Ends, HasCall
  <2>2. /\ wire'[l] \in {"gone", "closing"}
        /\ \A k \in Links : k # l => wire'[k] = wire[k]
    BY <1>1, <1>11, <2>1 DEF After, TornDown
  <2>3. Wired'
    BY <1>1, <1>4, <2>1, <2>2, WiredEnded
  <2>4. Story'
    <3>1. PICK a : Announced(r.commands) = <<a>> /\ a.link = l /\ a.action.type = "CallTerminated"
      BY <1>8, <2>1, EndAnnounces
    <3>2. \A k \in Links : wire'[k] = "unused" \/ k \in core'.pending =>
                              wire[k] = "unused" \/ k \in core.pending
      BY <2>1, <2>2
    <3> QED BY <1>1, <1>3, <1>4, <1>11, <2>1, <3>1, <3>2, StoryStops
  <2> QED BY <1>2, <1>8, <1>11, <2>3, <2>4, DriveFinishes
<1> QED BY <1>9, <1>12, <1>13

LEMMA ClosedInv ==
    ASSUME Undisturbed, IInv, NEW l \in Links, Closed(l)
    PROVE  IInv'
<1>1. /\ core \in Core /\ wire \in [Links -> LinkState] /\ held \in Seq(Announcement)
      /\ Wired /\ Story /\ Sturdy
  BY DEF IInv, Sturdy, TypeOK, LinkState
<1>2. Sturdy'
  BY <1>1, LinkEventSturdy DEF LinkEvent
<1>3. held' \in Seq(Announcement)
  BY <1>2 DEF Sturdy, TypeOK
<1> DEFINE r == LinkClosed(core, l)
           links == [wire EXCEPT ![l] = "gone"]
           a == <<Do("StopAudioPipelines"), CallTerminated(NoReason)>>
           less == [core EXCEPT !.pending = @ \ {l}, !.ingress = @ \ {l}]
<1>4. Steady(core, r) /\ r.result = "ok" /\ Drive(r, links)
  BY <1>1, CloseSteady DEF Closed
<1>5. /\ links \in [Links -> LinkState] /\ links[l] = "gone"
      /\ \A k \in Links : k # l => links[k] = wire[k]
  BY <1>1 DEF LinkState
<1>6. IsActive(core, l) => r = Step(Released(core, l), CommandsFrom(l, a))
  BY DEF LinkClosed
<1>7. ~IsActive(core, l) => r = Step(less, <<>>)
  BY DEF LinkClosed
<1>8. /\ less.active = core.active /\ less.pending = core.pending \ {l}
      /\ less.ingress = core.ingress \ {l}
  BY <1>1 DEF Core
<1>9. \A i \in DOMAIN a : a[i].type \notin Executable
  BY DEF Do, CallTerminated, Executable
<1>10. IsActive(core, l) => Ends(core, r, l, FALSE)
  BY <1>1, CloseActiveShape
<1> HIDE DEF r, links, a, less
<1>11. /\ OnLink(r.commands, l)
       /\ ~\E i \in DOMAIN r.commands : r.commands[i].action.type \in Executable
  <2>1. CASE IsActive(core, l)
    <3>1. r.commands = CommandsFrom(l, a)
      BY <1>6, <2>1 DEF Step
    <3>2. OnLink(r.commands, l)
      BY <1>6, <2>1, OnLinkFrom
    <3>3. \A i \in DOMAIN r.commands : i \in DOMAIN a /\ r.commands[i].action = a[i]
      BY <3>1 DEF CommandsFrom, Command
    <3> QED BY <1>9, <3>2, <3>3
  <2>2. CASE ~IsActive(core, l)
    <3>1. r.commands = <<>>
      BY <1>7, <2>2 DEF Step
    <3> QED BY <3>1 DEF OnLink
  <2> QED BY <2>1, <2>2
<1>12. /\ core' = r.core /\ loop' = "driving" /\ wire' = After(links, r)
       /\ held' = held \o Announced(r.commands)
       /\ UNCHANGED <<told, answering, transmit, receive, onAir>>
  BY <1>4, <1>5, <1>11, DriveHeeded DEF Steady
<1>13. CASE IsActive(core, l)
  <2>1. /\ ~HasCall(core') /\ core'.pending = core.pending \ {l}
        /\ core'.ingress = core.ingress \ {l}
        /\ \A k \in Links : /\ ~Orders(r, k, "TeardownLink")
                            /\ Orders(r, k, "CallTerminated") <=> k = l
                            /\ ~Orders(r, k, "RingIncomingCall")
    BY <1>10, <1>12, <1>13 DEF Ends, HasCall
  <2>2. /\ wire'[l] = "gone"
        /\ \A k \in Links : k # l => wire'[k] = wire[k]
    BY <1>5, <1>12, <2>1 DEF After
  <2>3. Wired'
    BY <1>1, <1>13, <2>1, <2>2, WiredEnded
  <2>4. Story'
    <3>1. PICK x : Announced(r.commands) = <<x>> /\ x.link = l /\ x.action.type = "CallTerminated"
      BY <1>4, <2>1, EndAnnounces DEF Steady
    <3>2. \A k \in Links : wire'[k] = "unused" \/ k \in core'.pending =>
                              wire[k] = "unused" \/ k \in core.pending
      BY <2>1, <2>2
    <3> QED BY <1>1, <1>3, <1>12, <1>13, <2>1, <3>1, <3>2, StoryStops
  <2> QED BY <1>2, <1>4, <1>12, <2>3, <2>4, DriveFinishes DEF Steady
<1>14. CASE ~IsActive(core, l)
  <2>1. r.core = less /\ r.commands = <<>>
    BY <1>7, <1>14 DEF Step
  <2>2. /\ wire'[l] = "gone"
        /\ \A k \in Links : k # l => wire'[k] = wire[k]
    <3>1. \A k \in Links : ~Orders(r, k, "TeardownLink")
      BY <2>1 DEF Orders
    <3> QED BY <1>5, <1>12, <3>1 DEF After
  <2>3. held' = held
    <3>1. Announced(r.commands) = <<>>
      BY <2>1 DEF Announced
    <3> QED BY <1>1, <1>12, <3>1, NothingSaid
  <2>4. \A k \in Links : IsActive(core', k) <=> IsActive(core, k)
    BY <1>8, <1>12, <2>1 DEF IsActive, HasCall
  <2>5. Wired'
    <3>1. HasCall(core') => Owned(wire', core'.active.link) /\ core'.active.link \in core'.ingress
      <4> SUFFICES ASSUME HasCall(core')
                   PROVE  Owned(wire', core'.active.link) /\ core'.active.link \in core'.ingress
        OBVIOUS
      <4>1. /\ HasCall(core) /\ core.active.link # l /\ core.active.link \in Links
            /\ core'.active.link = core.active.link
        BY <1>1, <1>8, <1>12, <1>14, <2>1, CallTyped DEF HasCall, IsActive
      <4> QED BY <1>1, <1>8, <1>12, <2>1, <2>2, <4>1 DEF Wired, Owned
    <3>2. \A k \in core'.pending :
             wire'[k] = "incoming" /\ k \in core'.ingress /\ ~IsActive(core', k)
      <4> SUFFICES ASSUME NEW k \in core'.pending
                   PROVE  wire'[k] = "incoming" /\ k \in core'.ingress /\ ~IsActive(core', k)
        OBVIOUS
      <4>1. k # l /\ k \in core.pending /\ k \in Links
        BY <1>1, <1>8, <1>12, <2>1 DEF Core
      <4> QED BY <1>1, <1>8, <1>12, <2>1, <2>2, <2>4, <4>1 DEF Wired
    <3>3. \A k \in Links : wire'[k] = "requested" =>
             IsActive(core', k) /\ core'.active.call.role = "Outgoing"
      <4> SUFFICES ASSUME NEW k \in Links, wire'[k] = "requested"
                   PROVE  IsActive(core', k) /\ core'.active.call.role = "Outgoing"
        OBVIOUS
      <4>1. wire[k] = "requested"
        BY <2>2
      <4>2. IsActive(core, k) /\ core.active.call.role = "Outgoing"
        BY <1>1, <4>1 DEF Wired
      <4> QED BY <1>8, <1>12, <2>1, <2>4, <4>2
    <3> QED BY <3>1, <3>2, <3>3 DEF Wired
  <2>6. Story'
    <3>1. \A k \in Links : wire'[k] = "unused" \/ k \in core'.pending =>
                              wire[k] = "unused" \/ k \in core.pending
      BY <1>8, <1>12, <2>1, <2>2
    <3> QED BY <1>1, <1>12, <2>3, <2>4, <3>1, StorySame
  <2> QED BY <1>2, <1>4, <1>12, <2>5, <2>6, DriveFinishes DEF Steady
<1> QED BY <1>13, <1>14

LEMMA WiredSame ==
    ASSUME Wired, core'.active = core.active, core'.pending = core.pending,
           core'.ingress = core.ingress, wire' = wire
    PROVE  Wired'
BY DEF Wired, IsActive, HasCall

LEMMA LinkEventInv ==
    ASSUME Undisturbed, IInv, NEW l \in Links, LinkEvent(l)
    PROVE  IInv'
<1>1. ~PromotionFails(l) /\ ~Dropped(l)
  BY DEF Undisturbed, PromotionFails, Dropped
<1> QED BY <1>1, LinkUpInv, IdentifiedInv, PacketInv, ClosedInv DEF LinkEvent

(* A handler that ends in a refresh leaves an idle loop in order. *)
LEMMA IdleFinishes ==
    ASSUME IInv, Sturdy', Wired', Story', Echoing', held' = <<>>, loop' = "idle",
           NEW d \in Core, core' = d, NEW t \in Timer \cup {None},
           NEW a \in Offer \cup {None}, Refresh(d, t, a)
    PROVE  IInv'
<1>1. TypeOK /\ OnAir
  BY DEF IInv, Sturdy
<1>2. Refreshed' /\ OnAir'
  BY <1>1, RefreshedBy
<1>3. Quiet'
  BY DEF Quiet
<1> QED BY <1>2, <1>3 DEF IInv

LEMMA PublishInv ==
    ASSUME Undisturbed, IInv, Publish
    PROVE  IInv'
<1>1. /\ core \in Core /\ held \in Seq(Announcement) /\ Wired /\ Story /\ Sturdy /\ Echoing
      /\ told \in [Links -> {"none", "live", "over", "broken"}] /\ TypeOK
      /\ HasCall(core) => Shaped(core.active.call)
  BY DEF IInv, Sturdy, TypeOK
<1>2. Sturdy'
  BY <1>1, PublishSturdy
<1>3. CASE PublishOne
  <2>1. /\ UNCHANGED <<core, wire, offered, timerVars, dialVars, mediaVars>>
        /\ loop' = "publishing" /\ told' = Heard(Head(held)) /\ held' = Tail(held)
        /\ held # <<>>
    BY <1>3 DEF PublishOne
  <2>2. Story'
    BY <1>1, <2>1, StoryPublishes
  <2>3. Wired'
    BY <1>1, <2>1, WiredSame
  <2>4. Echoing'
    BY <1>1, <2>1 DEF Echoing, timerVars
  <2>5. OnAir'
    BY <2>1 DEF IInv, OnAir, mediaVars
  <2> QED BY <1>2, <2>1, <2>2, <2>3, <2>4, <2>5 DEF IInv, Quiet
<1>4. ~SpoilReceive
  BY DEF Undisturbed, SpoilReceive
<1>5. CASE EndDrive
  <2>1. /\ UNCHANGED <<core, held, wire, offered, told, dialVars>> /\ loop' = "idle"
        /\ Refresh(core, timer, answering) /\ held = <<>>
    BY <1>5 DEF EndDrive
  <2>2. Wired'
    BY <1>1, <2>1, WiredSame
  <2>3. Story'
    <3>1. IdleStory
      BY <1>1, <2>1, StoryIdle
    <3>2. IdleStory'
      BY <2>1, <3>1 DEF IdleStory
    <3> QED BY <2>1, <3>2, StoryIdleNext
  <2>4. Echoing'
    <3>1. Led(core, core) /\ answering' = StillAnswering(core, answering)
      BY <1>1, <2>1, SameLed DEF Refresh
    <3> QED BY <1>1, <2>1, <3>1, EchoKept
  <2>5. timer \in Timer \cup {None} /\ answering \in Offer \cup {None}
    BY <1>1 DEF TypeOK
  <2> QED BY <1>1, <1>2, <2>1, <2>2, <2>3, <2>4, <2>5, IdleFinishes
<1> QED BY <1>3, <1>4, <1>5 DEF Publish

(* Between drives, a call that ends is heard to end. *)
LEMMA IdleEnds ==
    ASSUME IInv, held = <<>>, held' = held, NEW r, NEW l \in Links, Ends(core, r, l, TRUE),
           core' = r.core, wire' = After(wire, r), told' = HeardAll(r.commands)
    PROVE  Wired' /\ Story'
<1>1. /\ core \in Core /\ wire \in [Links -> LinkState] /\ Wired /\ Story
      /\ told \in [Links -> {"none", "live", "over", "broken"}]
  BY DEF IInv, Sturdy, TypeOK, LinkState
<1>2. /\ ~HasCall(core') /\ core'.pending = core.pending \ {l}
      /\ core'.ingress = core.ingress \ {l} /\ r.commands \in Seq(Commands)
      /\ IsActive(core, l)
      /\ \A k \in Links : /\ Orders(r, k, "TeardownLink") <=> k = l
                          /\ Orders(r, k, "CallTerminated") <=> k = l
                          /\ ~Orders(r, k, "RingIncomingCall")
  BY DEF Ends, HasCall
<1>3. /\ wire'[l] \in {"gone", "closing"}
      /\ \A k \in Links : k # l => wire'[k] = wire[k]
  BY <1>1, <1>2 DEF After, TornDown
<1>4. PICK a : Announced(r.commands) = <<a>> /\ a.link = l /\ a.action.type = "CallTerminated"
  BY <1>2, EndAnnounces
<1>5. told' = [told EXCEPT ![l] = Hear(@, "CallTerminated")]
  <2>1. HeardAll(r.commands) = Heard(a)
    BY <1>4 DEF HeardAll
  <2> QED BY <1>4, <2>1 DEF Heard
<1>6. IdleStory
  BY <1>1, StoryIdle
<1>7. IdleStory'
  <2> SUFFICES ASSUME NEW k \in Links
               PROVE  /\ told'[k] # "broken"
                      /\ IsActive(core', k) <=> told'[k] = "live"
                      /\ wire'[k] = "unused" \/ k \in core'.pending => told'[k] = "none"
    BY DEF IdleStory
  <2>1. /\ told[k] # "broken" /\ (IsActive(core, k) <=> told[k] = "live")
        /\ wire[k] = "unused" \/ k \in core.pending => told[k] = "none"
    BY <1>6 DEF IdleStory
  <2>2. ~IsActive(core', k)
    BY <1>2 DEF IsActive
  <2>3. CASE k = l
    <3>1. told'[k] = "over"
      BY <1>1, <1>2, <1>5, <2>1, <2>3 DEF Hear
    <3> QED BY <1>2, <1>3, <2>2, <2>3, <3>1
  <2>4. CASE k # l
    <3>1. told'[k] = told[k] /\ ~IsActive(core, k)
      BY <1>1, <1>2, <1>5, <2>4 DEF IsActive
    <3> QED BY <1>2, <1>3, <2>1, <2>2, <2>4, <3>1
  <2> QED BY <2>3, <2>4
<1>8. Story'
  BY <1>7, StoryIdleNext
<1>9. Wired'
  BY <1>1, <1>2, <1>3, WiredEnded
<1> QED BY <1>8, <1>9

LEMMA ControlHeeded ==
    ASSUME Undisturbed, NEW r, r.commands \in Seq(Commands), wire \in [Links -> LinkState],
           NEW t, Control(r, t), NEW l, OnLink(r.commands, l), Owned(wire, l)
    PROVE  /\ core' = r.core /\ wire' = After(wire, r) /\ told' = HeardAll(r.commands)
           /\ Refresh(r.core, t, answering) /\ UNCHANGED loopVars
<1>1. PICK out \in Outcomes(r.commands, wire, "control") :
         /\ wire' = out.links
         /\ IF out.ok
            THEN told' = HeardAll(r.commands) /\ Refresh(r.core, t, answering)
            ELSE timer' = t /\ UNCHANGED <<told, answering, mediaVars>>
  BY DEF Control
<1>2. \A i \in DOMAIN r.commands :
         r.commands[i].action.type \in Executable => Owned(wire, r.commands[i].link)
  BY DEF OnLink
<1>3. out.ok /\ out.links = After(wire, r)
  BY <1>2, Heeded
<1>4. core' = r.core /\ UNCHANGED loopVars
  BY DEF Control
<1> QED BY <1>1, <1>3, <1>4

LEMMA HangupEnds ==
    ASSUME NEW c \in Core, HasCall(c), NEW timeout \in BOOLEAN,
           NEW reason \in Status \cup {NoReason}, NEW r, r = TerminateActive(c, timeout, reason)
    PROVE  /\ Ends(c, r, c.active.link, TRUE) /\ OnLink(r.commands, c.active.link)
           /\ c.active.link \in Links
<1>1. \E d, actions : r = Step(d, CommandsFrom(c.active.link, actions))
  BY DEF TerminateActive
<1>2. OnLink(r.commands, c.active.link)
  BY <1>1, OnLinkFrom
<1>3. \E l \in Links : Ends(c, r, l, TRUE)
  <2>1. r # Refuse(c, "NoActiveCall")
    <3>1. r.result = "ok"
      BY DEF TerminateActive, Step
    <3> QED BY <3>1 DEF Refuse
  <2> QED BY <2>1, TerminateShape
<1>4. Ends(c, r, c.active.link, TRUE) /\ c.active.link \in Links
  BY <1>3 DEF Ends, IsActive
<1> QED BY <1>2, <1>4

(* A hangup through Control: by the user, or because a timer is due. *)
LEMMA HangupInv ==
    ASSUME Undisturbed, IInv, Sturdy', loop = "idle", HasCall(core), NEW b \in BOOLEAN,
           NEW t \in Timer \cup {None}, Control(HangupActive(core, b), t)
    PROVE  IInv'
<1> DEFINE r == HangupActive(core, b)
           l == core.active.link
<1>1. /\ core \in Core /\ wire \in [Links -> LinkState] /\ held = <<>>
      /\ answering \in Offer \cup {None} /\ Owned(wire, l)
  BY DEF IInv, Sturdy, TypeOK, LinkState, Quiet, Wired
<1>2. PICK k : k = l
  OBVIOUS
<1>3. Ends(core, r, k, TRUE) /\ OnLink(r.commands, k) /\ k \in Links
  BY <1>1, <1>2, HangupEnds, NoReasonTyped DEF HangupActive
<1>4. r.commands \in Seq(Commands) /\ r.core \in Core /\ ~HasCall(r.core)
  BY <1>3 DEF Ends, HasCall
<1>5. Owned(wire, k)
  BY <1>1, <1>2
<1> HIDE DEF r, l
<1>6. /\ core' = r.core /\ wire' = After(wire, r) /\ told' = HeardAll(r.commands)
      /\ Refresh(r.core, t, answering) /\ UNCHANGED loopVars
  <2>1. Control(r, t)
    BY DEF r
  <2> QED BY <1>1, <1>3, <1>4, <1>5, <2>1, ControlHeeded
<1>7. held' = held /\ loop' = loop
  BY <1>6 DEF loopVars
<1>8. Wired' /\ Story'
  BY <1>1, <1>3, <1>6, <1>7, IdleEnds
<1>9. Echoing'
  BY <1>4, <1>6 DEF Echoing, AwaitsEcho, IsActive
<1> QED BY <1>1, <1>4, <1>6, <1>7, <1>8, <1>9, IdleFinishes

(* A step that continues the call, or nothing, is not heard of. *)
LEMMA IdleGoesOn ==
    ASSUME IInv, held = <<>>, held' = held, NEW r, r.commands \in Seq(Commands),
           NEW l \in Links, Continues(core, r, l), core' = r.core,
           wire' = wire, told' = HeardAll(r.commands)
    PROVE  Wired' /\ Story'
<1>1. Wired /\ Story /\ core \in Core
  BY DEF IInv, Sturdy, TypeOK
<1>2. /\ IsActive(core, l) /\ IsActive(core', l)
      /\ core'.pending = core.pending /\ core'.ingress = core.ingress
      /\ core'.active.call.role = core.active.call.role
      /\ \A k \in Links : \A t \in LifeEffects : ~Orders(r, k, t)
  BY DEF Continues
<1>3. told' = told
  <2>1. \A k \in Links : ~Orders(r, k, "RingIncomingCall") /\ ~Orders(r, k, "CallTerminated")
    BY <1>2 DEF LifeEffects
  <2>2. Announced(r.commands) = <<>>
    BY <2>1, AnnouncesNothing
  <2> QED BY <2>2 DEF HeardAll
<1>4. \A k \in Links : IsActive(core', k) <=> IsActive(core, k)
  BY <1>2 DEF IsActive
<1>5. IdleStory
  BY <1>1, StoryIdle
<1>6. IdleStory'
  BY <1>2, <1>3, <1>4, <1>5 DEF IdleStory
<1>7. Story'
  BY <1>6, StoryIdleNext
<1>8. Wired'
  BY <1>1, <1>2, WiredOn
<1> QED BY <1>7, <1>8

LEMMA SwitchInv ==
    ASSUME Undisturbed, IInv, NEW p \in Profiles, Switch(p)
    PROVE  IInv'
<1> DEFINE r == SwitchActiveProfile(core, p)
<1>1. /\ core \in Core /\ wire \in [Links -> LinkState] /\ held = <<>> /\ Sturdy
      /\ answering \in Offer \cup {None} /\ timer \in Timer \cup {None} /\ loop = "idle"
      /\ Wired /\ Echoing /\ (HasCall(core) => Shaped(core.active.call))
  BY DEF IInv, Sturdy, TypeOK, LinkState, Quiet, Switch
<1>2. Sturdy'
  BY <1>1, CallControlSturdy
<1>3. r.result = "ok" /\ Control(r, timer)
  BY DEF Switch
<1>4. HasCall(core) /\ core.active.call.status = Established
  <2>1. ~HasCall(core) \/ core.active.call.status # Established =>
           \E e \in {"NoActiveCall", "CallNotEstablished"} : r = Refuse(core, e)
    BY DEF SwitchActiveProfile
  <2>2. \A e \in {"NoActiveCall", "CallNotEstablished"} : Refuse(core, e).result # "ok"
    BY DEF Refuse
  <2> QED BY <1>3, <2>1, <2>2
<1>5. PICK l \in Links : l = core.active.link /\ IsActive(core, l)
  BY <1>1, <1>4, CallTyped DEF IsActive
<1>6. r.commands \in Seq(Commands) /\ r.core \in Core /\ Led(core, r.core)
  BY <1>1, SwitchSteady DEF Steady
<1>7. OnLink(r.commands, l)
  <2>1. \E d, actions : r = Step(d, CommandsFrom(l, actions))
    BY <1>4, <1>5 DEF SwitchActiveProfile
  <2> QED BY <2>1, OnLinkFrom
<1>8. Continues(core, r, l)
  <2> DEFINE o == SwitchTo(core.active.call, p)
  <2>1. core.active.call \in Call
    BY <1>1, <1>4, CallTyped
  <2>2. Forward(core.active.call, o)
    BY <2>1, SwitchToForward
  <2>3. Effects(o.actions) \cap AudioEffects = {}
    <3>1. o.actions \in {<<>>, <<SendSignal(ProfileSignal(p)), SwitchProfile(p)>>,
                         <<SelectProfile(p)>>}
      BY DEF SwitchTo, Result
    <3> QED BY <3>1 DEF Effects, AudioEffects, SendSignal, SwitchProfile, SelectProfile
  <2>4. Plays(core.active.call, o)
    BY <2>3 DEF Plays, AudioEffects
  <2>5. r = Step(WithCall(core, o.call), CommandsFrom(l, o.actions))
    BY <1>4, <1>5 DEF SwitchActiveProfile
  <2> HIDE DEF o, r
  <2> QED BY <1>1, <1>5, <2>2, <2>3, <2>4, <2>5, ForwardContinues
<1>9. Owned(wire, l)
  BY <1>1, <1>4, <1>5 DEF Wired
<1> HIDE DEF r
<1>10. /\ core' = r.core /\ wire' = After(wire, r) /\ told' = HeardAll(r.commands)
       /\ Refresh(r.core, timer, answering) /\ UNCHANGED loopVars
  BY <1>1, <1>3, <1>6, <1>7, <1>9, ControlHeeded
<1>11. wire' = wire
  <2>1. \A k \in Links : ~Orders(r, k, "TeardownLink")
    BY <1>8 DEF Continues, LifeEffects
  <2> QED BY <1>1, <1>10, <2>1 DEF After
<1>12. held' = held /\ loop' = loop
  BY <1>10 DEF loopVars
<1>13. Wired' /\ Story'
  BY <1>1, <1>6, <1>8, <1>10, <1>11, <1>12, IdleGoesOn
<1>14. Echoing'
  <2>1. answering' = StillAnswering(r.core, answering)
    BY <1>10 DEF Refresh
  <2> QED BY <1>1, <1>6, <1>10, <2>1, EchoKept
<1> QED BY <1>1, <1>2, <1>6, <1>10, <1>12, <1>13, <1>14, IdleFinishes

(* Nothing that the invariant speaks of changes. *)
LEMMA SameInv ==
    ASSUME IInv, Sturdy', UNCHANGED <<core, wire, told, loopVars, timerVars, mediaVars>>
    PROVE  IInv'
<1>1. /\ core' = core /\ wire' = wire /\ told' = told /\ held' = held /\ loop' = loop
      /\ timer' = timer /\ answering' = answering /\ transmit' = transmit
      /\ receive' = receive /\ onAir' = onAir
  BY DEF loopVars, timerVars, mediaVars
<1>2. Wired' /\ Story'
  BY <1>1, WiredSame, StorySame DEF IInv
<1>3. Echoing' /\ Quiet' /\ OnAir'
  BY <1>1 DEF IInv, Echoing, Quiet, OnAir
<1>4. loop' = "idle" => Refreshed'
  <2>1. Refreshed => Refreshed'
    BY <1>1 DEF Refreshed, CanStream
  <2> QED BY <1>1, <2>1 DEF IInv
<1> QED BY <1>2, <1>3, <1>4 DEF IInv

LEMMA AnswerInv ==
    ASSUME Undisturbed, IInv, NEW l \in Links, AnswerExact(l)
    PROVE  IInv'
<1> DEFINE r == AnswerActive(core, l)
           offer == [link |-> l, left |-> Patience]
<1>1. /\ core \in Core /\ wire \in [Links -> LinkState] /\ held = <<>> /\ Sturdy
      /\ timer \in Timer \cup {None} /\ loop = "idle" /\ Wired /\ Story /\ Echoing /\ TypeOK
  BY DEF IInv, Sturdy, TypeOK, LinkState, Quiet, AnswerExact
<1>2. Sturdy'
  BY <1>1, AnswerSturdy
<1>3. /\ r.core \in Core /\ r.commands \in Seq(Commands) /\ Continues(core, r, l)
      /\ r.core.active.call.role = "Incoming" /\ r.core.active.call.answered
      /\ r.core.active.call.status = Connecting
  BY <1>1, AnswerAccepted DEF AnswerExact
<1>4. /\ UNCHANGED <<wire, dialVars, loopVars>>
      /\ \/ /\ core' = r.core /\ told' = HeardAll(r.commands)
            /\ Refresh(r.core, timer, offer)
         \/ UNCHANGED <<core, offered, told, timerVars, mediaVars>>
  BY DEF AnswerExact
<1>5. offer \in Offer /\ offer.link = l /\ offer # None
  BY ServiceAssumption DEF Offer
<1> HIDE DEF r, offer
<1>6. held' = held /\ loop' = loop /\ wire' = wire
  BY <1>4 DEF loopVars
<1>7. CASE /\ core' = r.core /\ told' = HeardAll(r.commands)
           /\ Refresh(r.core, timer, offer)
  <2>1. Wired' /\ Story'
    BY <1>1, <1>3, <1>6, <1>7, IdleGoesOn
  <2>2. AwaitsEcho(r.core, l) /\ \A k \in Links : AwaitsEcho(r.core, k) => k = l
    BY <1>3 DEF AwaitsEcho, CanRetryAnswer, Continues, IsActive
  <2>3. answering' = offer
    BY <1>5, <1>7, <2>2 DEF Refresh, StillAnswering
  <2>4. Echoing'
    BY <1>5, <1>7, <2>2, <2>3 DEF Echoing
  <2> QED BY <1>1, <1>2, <1>3, <1>5, <1>6, <1>7, <2>1, <2>4, IdleFinishes
<1>8. CASE UNCHANGED <<core, offered, told, timerVars, mediaVars>>
  <2>1. UNCHANGED <<core, wire, told, loopVars, timerVars, mediaVars>>
    BY <1>4, <1>8
  <2> QED BY <1>2, <2>1, SameInv
<1> QED BY <1>4, <1>7, <1>8

LEMMA SetBusyInv ==
    ASSUME Undisturbed, IInv, NEW b \in BOOLEAN, SetBusy(b)
    PROVE  IInv'
<1> DEFINE d == SetExternalBusy(core, b).core
<1>1. /\ core \in Core /\ held = <<>> /\ Sturdy /\ Wired /\ Story /\ Echoing /\ loop = "idle"
      /\ answering \in Offer \cup {None} /\ timer \in Timer \cup {None}
      /\ HasCall(core) => Shaped(core.active.call)
  BY DEF IInv, Sturdy, TypeOK, Quiet, SetBusy
<1>2. Sturdy'
  BY <1>1, CallControlSturdy
<1>3. /\ core' = d /\ Refresh(d, timer, answering)
      /\ held' = held /\ loop' = loop /\ wire' = wire /\ told' = told
  BY DEF SetBusy, loopVars
<1>4. /\ d \in Core /\ d.active = core.active /\ d.pending = core.pending
      /\ d.ingress = core.ingress
  BY <1>1 DEF SetExternalBusy, Step, Core
<1> HIDE DEF d
<1>5. Wired'
  BY <1>1, <1>3, <1>4, WiredSame
<1>6. Story'
  <2>1. \A l \in Links : IsActive(core', l) <=> IsActive(core, l)
    BY <1>3, <1>4 DEF IsActive, HasCall
  <2> QED BY <1>1, <1>3, <1>4, <2>1, StorySame
<1>7. Echoing'
  <2>1. Led(core, d) /\ answering' = StillAnswering(d, answering)
    BY <1>1, <1>3, <1>4, SameLed DEF Refresh
  <2> QED BY <1>1, <1>3, <1>4, <2>1, EchoKept
<1> QED BY <1>1, <1>2, <1>3, <1>4, <1>5, <1>6, <1>7, IdleFinishes

(* A call that is dialled is heard of, and its link is requested. *)
LEMMA DialledInv ==
    ASSUME Undisturbed, IInv, Sturdy', held = <<>>, UNCHANGED loopVars, loop = "idle",
           NEW l \in Links, wire[l] = "unused",
           NEW d \in Dials, NEW r, r = StartOutgoingCall(core, l, d.identity, d.profile),
           r.result = "ok", Dialled(l, r)
    PROVE  IInv'
<1>1. /\ core \in Core /\ wire \in [Links -> LinkState] /\ Wired /\ Story /\ Echoing
      /\ told \in [Links -> {"none", "live", "over", "broken"}]
      /\ answering \in Offer \cup {None} /\ timer \in Timer \cup {None}
      /\ HasCall(core) => Shaped(core.active.call)
  BY DEF IInv, Sturdy, TypeOK, LinkState
<1>2. /\ ~LineBusy(core) /\ r.core \in Core /\ Begun(r.core)
      /\ r.core.active.link = l /\ r.core.active.call.role = "Outgoing"
      /\ r.core.pending = core.pending /\ r.core.ingress = core.ingress \cup {l}
  <2>1. core \in Core
    BY <1>1
  <2> QED BY <2>1, DialBegins, SMTT(30)
<1>3. /\ core' = r.core /\ wire' = [wire EXCEPT ![l] = "requested"]
      /\ told' = [told EXCEPT ![l] = IF @ = "none" THEN "live" ELSE "broken"]
      /\ Refresh(r.core, timer, answering) /\ held' = held /\ loop' = loop
  BY DEF Dialled, loopVars
<1>4. HasCall(core') /\ ~HasCall(core) /\ \A k \in Links : IsActive(core', k) <=> k = l
  BY <1>2, <1>3 DEF Begun, LineBusy, IsActive, HasCall
<1>5. /\ wire'[l] = "requested" /\ \A k \in Links : k # l => wire'[k] = wire[k]
      /\ l \notin core.pending
  BY <1>1, <1>3 DEF Wired
<1>6. Wired'
  <2>1. Owned(wire', core'.active.link) /\ core'.active.link \in core'.ingress
    BY <1>2, <1>3, <1>5 DEF Owned
  <2>2. \A k \in core'.pending :
           wire'[k] = "incoming" /\ k \in core'.ingress /\ ~IsActive(core', k)
    <3> SUFFICES ASSUME NEW k \in core.pending
                 PROVE  wire'[k] = "incoming" /\ k \in core'.ingress /\ ~IsActive(core', k)
      BY <1>2, <1>3
    <3>1. k # l /\ k \in Links
      BY <1>1, <1>5 DEF Core
    <3> QED BY <1>1, <1>2, <1>3, <1>4, <1>5, <3>1 DEF Wired
  <2>3. \A k \in Links :
           wire'[k] = "requested" => IsActive(core', k) /\ core'.active.call.role = "Outgoing"
    <3> SUFFICES ASSUME NEW k \in Links, wire'[k] = "requested"
                 PROVE  IsActive(core', k) /\ core'.active.call.role = "Outgoing"
      OBVIOUS
    <3>1. k = l
      BY <1>1, <1>4, <1>5 DEF Wired, IsActive
    <3> QED BY <1>2, <1>3, <1>4, <3>1
  <2> QED BY <2>1, <2>2, <2>3 DEF Wired
<1>7. IdleStory
  BY <1>1, StoryIdle
<1>8. IdleStory'
  <2> SUFFICES ASSUME NEW k \in Links
               PROVE  /\ told'[k] # "broken"
                      /\ IsActive(core', k) <=> told'[k] = "live"
                      /\ wire'[k] = "unused" \/ k \in core'.pending => told'[k] = "none"
    BY DEF IdleStory
  <2>1. /\ told[k] # "broken" /\ (IsActive(core, k) <=> told[k] = "live")
        /\ wire[k] = "unused" \/ k \in core.pending => told[k] = "none"
    BY <1>7 DEF IdleStory
  <2>2. CASE k = l
    <3>1. told'[k] = "live" /\ k \notin core'.pending
      BY <1>1, <1>2, <1>3, <1>5, <2>1, <2>2
    <3> QED BY <1>4, <1>5, <2>2, <3>1
  <2>3. CASE k # l
    <3>1. told'[k] = told[k] /\ ~IsActive(core, k)
      BY <1>1, <1>3, <1>4, <2>3 DEF IsActive
    <3> QED BY <1>2, <1>3, <1>4, <1>5, <2>1, <2>3, <3>1
  <2> QED BY <2>2, <2>3
<1>9. Story'
  BY <1>3, <1>8, StoryIdleNext
<1>10. Echoing'
  <2>1. answering' = StillAnswering(r.core, answering)
    BY <1>3 DEF Refresh
  <2> QED BY <1>1, <1>2, <1>3, <2>1, EchoKept
<1> QED BY <1>1, <1>2, <1>3, <1>6, <1>9, <1>10, IdleFinishes

LEMMA DialInv ==
    ASSUME Undisturbed, IInv,
           (\E d \in Dials : StartDiscovery(d) \/ Discovered(d)) \/ CancelDial
    PROVE  IInv'
<1>1. Sturdy /\ Sturdy'
  BY DialSturdy DEF IInv
<1>2. ASSUME NEW d \in Dials, StartDiscovery(d)
      PROVE  IInv'
  <2>1. UNCHANGED <<core, wire, told, loopVars, timerVars, mediaVars>>
    BY <1>2 DEF StartDiscovery
  <2> QED BY <1>1, <2>1, SameInv
<1>3. CASE CancelDial
  <2>1. UNCHANGED <<core, wire, told, loopVars, timerVars, mediaVars>>
    BY <1>3 DEF CancelDial
  <2> QED BY <1>1, <2>1, SameInv
<1>4. ASSUME NEW d \in Dials, Discovered(d)
      PROVE  IInv'
  <2>1. loop = "idle" /\ UNCHANGED loopVars /\ held = <<>>
    BY <1>4 DEF Discovered, IInv, Quiet
  <2>2. CASE ~Believed(d)
    <3>1. UNCHANGED <<core, wire, told, loopVars, timerVars, mediaVars>>
      BY <1>4, <2>2 DEF Discovered
    <3> QED BY <1>1, <3>1, SameInv
  <2>3. CASE NoDialling
    <3>1. UNCHANGED <<core, wire, told, loopVars, timerVars, mediaVars>>
      BY <2>1, <2>3 DEF NoDialling, DialFails
    <3> QED BY <1>1, <3>1, SameInv
  <2>4. ASSUME NEW l \in Links, wire[l] = "unused",
               NEW r, r = StartOutgoingCall(core, l, d.identity, d.profile), r.result = "ok",
               Dialled(l, r) \/ DispatchFails(l, r)
        PROVE  IInv'
    <3>1. Dialled(l, r)
      BY <2>4 DEF Undisturbed, DispatchFails
    <3> QED BY <1>1, <2>1, <2>4, <3>1, DialledInv
  <2>5. Believed(d) =>
           \/ NoDialling
           \/ \E l \in Links :
                 /\ wire[l] = "unused"
                 /\ StartOutgoingCall(core, l, d.identity, d.profile).result = "ok"
                 /\ \/ Dialled(l, StartOutgoingCall(core, l, d.identity, d.profile))
                    \/ DispatchFails(l, StartOutgoingCall(core, l, d.identity, d.profile))
    BY <1>4 DEF Discovered
  <2> QED BY <2>2, <2>3, <2>4, <2>5
<1> QED BY <1>2, <1>3, <1>4

LEMMA MediaInv ==
    ASSUME Undisturbed, IInv, Media
    PROVE  IInv'
<1>1. /\ Sturdy /\ Wired /\ Story /\ Quiet /\ Echoing /\ OnAir /\ TypeOK
      /\ core \in Core
  BY DEF IInv, Sturdy, TypeOK
<1>2. Sturdy'
  BY <1>1, MediaSturdy
<1>3. loop = "idle" /\ UNCHANGED <<core, wire, offered, told, loopVars, dialVars, timerVars>>
  BY DEF Media, StartTransmit, StopTransmit, PumpFails, StartReceive, StopReceive, MediaStep
<1>4. /\ core' = core /\ wire' = wire /\ told' = told /\ held' = held /\ loop' = loop
      /\ timer' = timer /\ answering' = answering
  BY <1>3 DEF loopVars, timerVars
<1>5. Wired' /\ Story'
  BY <1>1, <1>4, WiredSame, StorySame
<1>6. Echoing' /\ Quiet'
  BY <1>1, <1>4 DEF Echoing, Quiet
<1>7. Refreshed
  BY <1>3 DEF IInv
<1>8. ~PumpFails
  <2>1. "encode" \notin Disorders
    BY DEF Undisturbed
  <2>2. transmit # None => Sendable(transmit)
    BY <1>7 DEF Refreshed, Sendable, StreamOf
  <2> QED BY <2>1, <2>2 DEF PumpFails
<1>9. CanStream => StreamOf(core) # None
  BY <1>1, CallTyped, EnsuredIsProfile, ServiceAssumption DEF CanStream, StreamOf, Stream
<1>10. /\ \A s \in {transmit', receive'} \ {None} : CanStream /\ s = StreamOf(core)
       /\ "transmit" \in onAir' <=> transmit' # None
       /\ "receive" \in onAir' <=> receive' # None
  <2>1. CASE StartTransmit
    BY <1>1, <1>7, <1>9, <2>1 DEF StartTransmit, Refreshed, OnAir
  <2>2. CASE StopTransmit
    BY <1>1, <1>7, <2>2 DEF StopTransmit, Refreshed, OnAir
  <2>3. CASE StartReceive
    BY <1>1, <1>7, <1>9, <2>3 DEF StartReceive, Refreshed, OnAir
  <2>4. CASE StopReceive
    BY <1>1, <1>7, <2>4 DEF StopReceive, Refreshed, OnAir
  <2> QED BY <1>8, <2>1, <2>2, <2>3, <2>4 DEF Media
<1>11. OnAir'
  BY <1>10 DEF OnAir
<1>12. Refreshed'
  BY <1>4, <1>7, <1>10 DEF Refreshed, CanStream
<1> QED BY <1>2, <1>5, <1>6, <1>11, <1>12 DEF IInv

(* The clocks that run down are the same clocks. *)
LEMMA TickInv ==
    ASSUME Undisturbed, IInv, Sturdy', Tick
    PROVE  IInv'
<1>1. /\ Wired /\ Story /\ Quiet /\ Echoing /\ OnAir /\ TypeOK /\ core \in Core
      /\ timer \in Timer \cup {None} /\ answering \in Offer \cup {None}
  BY DEF IInv, Sturdy, TypeOK
<1>2. /\ core' = core /\ wire' = wire /\ told' = told /\ held' = held /\ loop' = loop
      /\ transmit' = transmit /\ receive' = receive /\ onAir' = onAir
  BY DEF Tick, loopVars, mediaVars
<1>3. Wired' /\ Story'
  BY <1>1, <1>2, WiredSame, StorySame
<1>4. Quiet' /\ OnAir'
  BY <1>1, <1>2 DEF Quiet, OnAir
<1>5. timer' \in Timer \cup {None} /\ answering' \in Offer \cup {None}
  BY DEF Sturdy, TypeOK
<1>6. \/ answering' = answering
      \/ /\ answering # None /\ answering' = [answering EXCEPT !.left = answering.left - 1]
  BY DEF Tick
<1>7. /\ answering' = None <=> answering = None
      /\ answering # None => answering'.link = answering.link
  <2>1. CASE answering' = answering
    BY <2>1
  <2>2. CASE answering # None /\ answering' = [answering EXCEPT !.left = answering.left - 1]
    <3>1. answering \in Offer /\ None \notin Offer
      BY <1>1, <2>2, ServiceAssumption
    <3>2. answering' \in [link : Links, left : Int] /\ answering'.link = answering.link
      BY <2>2, <3>1, ServiceAssumption DEF Offer
    <3>3. answering' # None
      <4>1. answering'.left \in 0 .. Patience
        BY <1>1, <2>2, <3>1, ServiceAssumption DEF Offer, Tick
      <4>2. answering' \in Offer
        BY <3>2, <4>1 DEF Offer
      <4> QED BY <3>1, <4>2
    <3> QED BY <2>2, <3>2, <3>3
  <2> QED BY <1>6, <2>1, <2>2
<1>8. Echoing'
  BY <1>1, <1>2, <1>7 DEF Echoing
<1>9. Refreshed => Refreshed'
  <2> SUFFICES ASSUME Refreshed
               PROVE  Refreshed'
    OBVIOUS
  <2>1. TimerFor(core, timer') = timer'
    <3>1. TimerFor(core, timer) = timer
      BY DEF Refreshed
    <3>2. CASE timer' = timer
      BY <3>1, <3>2
    <3>3. CASE timer # None /\ timer' = [timer EXCEPT !.left = timer.left - 1]
      <4>1. timer \in Timer /\ None \notin Timer
        BY <1>1, <3>3, ServiceAssumption
      <4>2. TimerKind(core) # "none"
        BY <3>1, <3>3 DEF TimerFor
      <4>3. timer = [NewTimer(core) EXCEPT !.left = timer.left]
        <5>1. CASE timer = NewTimer(core)
          BY <5>1 DEF NewTimer
        <5> QED BY <3>1, <3>3, <4>2, <5>1 DEF TimerFor
      <4>4. timer' = [NewTimer(core) EXCEPT !.left = timer'.left]
        BY <3>3, <4>1, <4>3 DEF NewTimer, Timer
      <4>5. timer' # None
        <5>1. timer' \in [link : Links, kind : {"IncomingRing", "OutgoingCall"}, left : Int]
              /\ timer.left > 0
          BY <3>3, <4>1, ServiceAssumption DEF Timer, Tick
        <5>2. timer'.left \in 0 .. Patience
          BY <3>3, <4>1, <5>1, ServiceAssumption DEF Timer
        <5>3. timer' \in Timer
          BY <5>1, <5>2 DEF Timer
        <5> QED BY <4>1, <5>3
      <4> QED BY <4>2, <4>4, <4>5 DEF TimerFor
    <3>4. \/ timer' = timer
          \/ timer # None /\ timer' = [timer EXCEPT !.left = timer.left - 1]
      BY DEF Tick
    <3> QED BY <3>2, <3>3, <3>4
  <2>2. StillAnswering(core, answering') = answering'
    <3>1. StillAnswering(core, answering) = answering
      BY DEF Refreshed
    <3> QED BY <1>7, <3>1 DEF StillAnswering
  <2>3. \A s \in {transmit, receive} \ {None} : CanStream /\ s = StreamOf(core)
    BY DEF Refreshed
  <2> QED BY <1>2, <2>1, <2>2, <2>3 DEF Refreshed, CanStream
<1> QED BY <1>2, <1>3, <1>4, <1>8, <1>9 DEF IInv

(* A waiting answer that is due ends its call. *)
LEMMA AnswerExpiresInv ==
    ASSUME Undisturbed, IInv, Sturdy', AnswerExpires
    PROVE  IInv'
<1> DEFINE r == TimeoutAnswerActive(core, answering.link)
           l == core.active.link
<1>1. /\ core \in Core /\ wire \in [Links -> LinkState] /\ held = <<>> /\ Refreshed
      /\ timer \in Timer \cup {None} /\ loop = "idle" /\ Wired
  BY DEF IInv, Sturdy, TypeOK, LinkState, Quiet, AnswerExpires
<1>2. UNCHANGED loopVars /\ answering # None
  BY DEF AnswerExpires
<1>3. AwaitsEcho(core, answering.link)
  BY <1>1, <1>2 DEF Refreshed, StillAnswering
<1>4. r = TerminateActive(core, FALSE, Connecting) /\ r.result = "ok"
  <2>1. r = TerminateActive(core, FALSE, Connecting)
    BY <1>3 DEF AwaitsEcho, TimeoutAnswerActive, WrongCall
  <2>2. TerminateActive(core, FALSE, Connecting).result = "ok"
    BY <1>3 DEF AwaitsEcho, IsActive, TerminateActive, Step
  <2> QED BY <2>1, <2>2
<1>5. HasCall(core)
  BY <1>3 DEF AwaitsEcho, IsActive
<1>6. PICK k : k = l
  OBVIOUS
<1>7. Ends(core, r, k, TRUE) /\ OnLink(r.commands, k) /\ k \in Links
  BY <1>1, <1>4, <1>5, <1>6, HangupEnds, NoReasonTyped
<1>8. Owned(wire, k)
  BY <1>1, <1>5, <1>6 DEF Wired
<1>9. /\ core' = r.core /\ told' = HeardAll(r.commands) /\ Refresh(r.core, timer, None)
      /\ \E out \in Outcomes(r.commands, wire, "control") : wire' = out.links
  BY <1>4 DEF AnswerExpires
<1> HIDE DEF r, l
<1>10. r.commands \in Seq(Commands) /\ r.core \in Core /\ ~HasCall(r.core)
  BY <1>7 DEF Ends, HasCall
<1>11. wire' = After(wire, r)
  <2>1. \A i \in DOMAIN r.commands :
          r.commands[i].action.type \in Executable => Owned(wire, r.commands[i].link)
    BY <1>7, <1>8 DEF OnLink
  <2>2. PICK out \in Outcomes(r.commands, wire, "control") : wire' = out.links
    BY <1>9
  <2> QED BY <1>1, <1>10, <2>1, <2>2, Heeded
<1>12. held' = held /\ loop' = loop
  BY <1>2 DEF loopVars
<1>13. Wired' /\ Story'
  BY <1>1, <1>7, <1>9, <1>11, <1>12, IdleEnds
<1>14. Echoing'
  BY <1>9, <1>10 DEF Echoing, AwaitsEcho, IsActive
<1> QED BY <1>1, <1>9, <1>10, <1>12, <1>13, <1>14, IdleFinishes

LEMMA TimerInv ==
    ASSUME Undisturbed, IInv, Timers
    PROVE  IInv'
<1>1. Sturdy /\ Sturdy'
  BY TimerSturdy DEF IInv
<1>2. CASE Tick
  BY <1>1, <1>2, TickInv
<1>3. CASE RetryDue
  <2>1. Refreshed /\ answering # None
    BY <1>3 DEF RetryDue, IInv
  <2>2. AwaitsEcho(core, answering.link)
    BY <2>1 DEF Refreshed, StillAnswering
  <2>3. RetryAnswerActive(core, answering.link).result = "ok"
    BY <2>2 DEF AwaitsEcho, RetryAnswerActive, WrongCall, Step
  <2>4. UNCHANGED <<core, wire, told, loopVars, timerVars, mediaVars>>
    BY <1>3, <2>3 DEF RetryDue, timerVars
  <2> QED BY <1>1, <2>4, SameInv
<1>4. CASE AnswerExpires
  BY <1>1, <1>4, AnswerExpiresInv
<1>5. CASE TimerExpires
  <2>1. Refreshed /\ timer # None /\ loop = "idle"
    BY <1>5 DEF TimerExpires, IInv
  <2>2. TimerKind(core) # "none" /\ timer.link = core.active.link /\ timer.kind = TimerKind(core)
    <3>1. TimerFor(core, timer) = timer
      BY <2>1 DEF Refreshed
    <3> QED BY <2>1, <3>1 DEF TimerFor, NewTimer
  <2>3. TimesOut /\ HasCall(core)
    BY <2>2 DEF TimesOut, IsActive, TimerKind
  <2>4. Control(HangupActive(core, timer.kind = "IncomingRing"), None)
    BY <1>5, <2>3 DEF TimerExpires
  <2>5. PICK b \in BOOLEAN : b = (timer.kind = "IncomingRing")
    OBVIOUS
  <2>6. Control(HangupActive(core, b), None)
    BY <2>4, <2>5
  <2> QED BY <1>1, <2>1, <2>3, <2>6, HangupInv
<1> QED BY <1>2, <1>3, <1>4, <1>5 DEF Timers

(* The commands of a shutdown all go to links the endpoint owns, and end   *)
(* what there is.                                                          *)
LEMMA ShutdownShape ==
    ASSUME Wired, core \in Core, NEW order, order \in Enumerations(core.pending),
           NEW r, r = ShutdownCore(core, order)
    PROVE  /\ r.core \in Core /\ r.core.active = NoCall /\ r.core.pending = {}
           /\ r.commands \in Seq(Commands)
           /\ \A i \in DOMAIN r.commands : Owned(wire, r.commands[i].link)
           /\ \A k \in Links : /\ IsActive(core, k) => Orders(r, k, "TeardownLink")
                               /\ Orders(r, k, "CallTerminated") <=> IsActive(core, k)
                               /\ ~Orders(r, k, "RingIncomingCall")
<1>0. PICK h, downs : h = HangupActive(core, FALSE) /\ downs = Downs(order)
  OBVIOUS
<1>1. /\ r.core \in Core /\ r.core.active = NoCall /\ r.core.pending = {}
      /\ r.commands = h.commands \o downs
      /\ h.commands \in Seq(Commands) /\ downs \in Seq(Commands)
      /\ \A i \in DOMAIN downs : downs[i].link \in core.pending
  <2>1. r.commands = h.commands \o downs
    BY <1>0 DEF ShutdownCore, Step, Downs
  <2>2. r.core \in Core /\ r.core.active = NoCall /\ r.core.pending = {}
    BY DEF ShutdownCore, Step, Core
  <2>3. h.commands \in Seq(Commands) /\ downs \in Seq(Commands)
    BY <1>0, ShutdownTyped, Zenon
  <2>4. \A i \in DOMAIN downs : downs[i].link \in core.pending
    BY <1>0, ShutdownTyped, Zenon
  <2> QED BY <2>1, <2>2, <2>3, <2>4
<1>2. \A i \in DOMAIN downs : downs[i].action.type = "TeardownLink"
  BY <1>0 DEF Downs, Command, Do
<1>3. \A i \in DOMAIN h.commands : HasCall(core) /\ h.commands[i].link = core.active.link
  <2>1. CASE HasCall(core)
    <3>1. OnLink(h.commands, core.active.link)
      BY <1>0, <2>1, HangupEnds, NoReasonTyped DEF HangupActive
    <3> QED BY <2>1, <3>1 DEF OnLink
  <2>2. CASE ~HasCall(core)
    <3>1. h.commands = <<>>
      BY <1>0, <2>2 DEF HangupActive, TerminateActive, Refuse
    <3> QED BY <3>1
  <2> QED BY <2>1, <2>2
<1>4. \A k \in Links : /\ Orders(h, k, "TeardownLink") <=> IsActive(core, k)
                       /\ Orders(h, k, "CallTerminated") <=> IsActive(core, k)
                       /\ ~Orders(h, k, "RingIncomingCall")
  <2>1. CASE HasCall(core)
    <3>1. Ends(core, h, core.active.link, TRUE)
      BY <1>0, <2>1, HangupEnds, NoReasonTyped DEF HangupActive
    <3> QED BY <2>1, <3>1 DEF Ends, IsActive
  <2>2. CASE ~HasCall(core)
    <3>1. DOMAIN h.commands = {}
      BY <1>3, <2>2
    <3> QED BY <2>2, <3>1 DEF Orders, IsActive
  <2> QED BY <2>1, <2>2
<1>5. \A k \in Links, t \in {"TeardownLink", "CallTerminated", "RingIncomingCall"} :
         /\ Orders(r, k, t) <=> Orders(h, k, t) \/ Orders(Step(core, downs), k, t)
         /\ Orders(Step(core, downs), k, t) => t = "TeardownLink"
  <2> TAKE k \in Links, t \in {"TeardownLink", "CallTerminated", "RingIncomingCall"}
  <2>1. Orders(r, k, t) <=> Orders(Step(core, h.commands \o downs), k, t)
    BY <1>1 DEF Orders, Step
  <2>2. Orders(h, k, t) <=> Orders(Step(core, h.commands), k, t)
    BY DEF Orders, Step
  <2>3. Orders(Step(core, downs), k, t) => t = "TeardownLink"
    BY <1>2 DEF Orders, Step
  <2> QED BY <1>1, <2>1, <2>2, <2>3, OrdersBoth
<1>6. \A i \in DOMAIN r.commands : Owned(wire, r.commands[i].link)
  <2> SUFFICES ASSUME NEW i \in DOMAIN r.commands
               PROVE  Owned(wire, r.commands[i].link)
    OBVIOUS
  <2>1. CASE i <= Len(h.commands)
    <3>1. i \in DOMAIN h.commands /\ r.commands[i] = h.commands[i]
      BY <1>1, <2>1
    <3> QED BY <1>3, <3>1 DEF Wired
  <2>2. CASE i > Len(h.commands)
    <3>1. PICK j : j = i - Len(h.commands)
      OBVIOUS
    <3>2. j \in DOMAIN downs /\ r.commands[i] = downs[j]
      BY <1>1, <2>2, <3>1
    <3> QED BY <1>1, <3>2 DEF Wired, Owned
  <2>3. i \in Nat /\ Len(h.commands) \in Nat
    BY <1>1
  <2> QED BY <2>1, <2>2, <2>3
<1>7. r.commands \in Seq(Commands)
  BY <1>1
<1> QED BY <1>1, <1>4, <1>5, <1>6, <1>7

LEMMA ShutDownInv ==
    ASSUME Undisturbed, IInv, ShutDown
    PROVE  IInv'
<1>1. /\ Sturdy /\ core \in Core /\ wire \in [Links -> LinkState] /\ held = <<>> /\ Wired
      /\ Story /\ told \in [Links -> {"none", "live", "over", "broken"}]
  BY DEF IInv, Sturdy, TypeOK, LinkState, Quiet, ShutDown
<1>2. Sturdy'
  BY <1>1, CallControlSturdy
<1>3. /\ loop' = "stopped" /\ timer' = None /\ answering' = None /\ held' = held
      /\ transmit' = None /\ receive' = None /\ onAir' = {}
  BY DEF ShutDown
<1>4. PICK order \in Enumerations(core.pending) :
         LET step == ShutdownCore(core, order) IN
         /\ core' = step.core
         /\ \E out \in Outcomes(step.commands, wire, "control") :
               /\ wire' = out.links
               /\ told' = IF out.ok THEN HeardAll(step.commands) ELSE told
  BY DEF ShutDown
<1> DEFINE r == ShutdownCore(core, order)
<1>5. /\ r.core \in Core /\ r.core.active = NoCall /\ r.core.pending = {}
      /\ r.commands \in Seq(Commands)
      /\ \A i \in DOMAIN r.commands : Owned(wire, r.commands[i].link)
      /\ \A k \in Links : /\ IsActive(core, k) => Orders(r, k, "TeardownLink")
                          /\ Orders(r, k, "CallTerminated") <=> IsActive(core, k)
                          /\ ~Orders(r, k, "RingIncomingCall")
  BY <1>1, ShutdownShape
<1>6. PICK out \in Outcomes(r.commands, wire, "control") :
         wire' = out.links /\ told' = IF out.ok THEN HeardAll(r.commands) ELSE told
  BY <1>4
<1>7. core' = r.core
  BY <1>4
<1> HIDE DEF r
<1>8. out.ok /\ out.links = After(wire, r)
  BY <1>1, <1>5, Heeded
<1>9. wire' = After(wire, r) /\ told' = HeardAll(r.commands)
  BY <1>6, <1>8
<1>10. ~HasCall(core') /\ core'.pending = {} /\ \A k \in Links : ~IsActive(core', k)
  BY <1>5, <1>7 DEF HasCall, IsActive
<1>11. Wired'
  <2>1. \A k \in Links : wire'[k] # "requested"
    <3> SUFFICES ASSUME NEW k \in Links, wire'[k] = "requested"
                 PROVE  FALSE
      OBVIOUS
    <3>1. ~Orders(r, k, "TeardownLink") /\ wire[k] = "requested"
      BY <1>1, <1>9, AfterTyped
    <3> QED BY <1>1, <1>5, <3>1 DEF Wired
  <2> QED BY <1>10, <2>1 DEF Wired
<1>12. \A k \in Links : told'[k] = IF IsActive(core, k) THEN "over" ELSE told[k]
  <2>1. \A k \in Links : IsActive(core, k) <=> told[k] = "live"
    BY <1>1, StoryIdle DEF IdleStory
  <2>2. CASE HasCall(core)
    <3>1. PICK l \in Links : l = core.active.link
      BY <1>1, <2>2, CallTyped
    <3>2. \A k \in Links : IsActive(core, k) <=> k = l
      BY <2>2, <3>1 DEF IsActive
    <3>3. PICK a : Announced(r.commands) = <<a>> /\ a.link = l
                   /\ a.action.type = "CallTerminated"
      BY <1>5, <3>2, EndAnnounces
    <3>4. told' = [told EXCEPT ![l] = Hear(@, "CallTerminated")]
      <4>1. HeardAll(r.commands) = Heard(a)
        BY <3>3 DEF HeardAll
      <4> QED BY <1>9, <3>3, <4>1 DEF Heard
    <3>5. told[l] = "live"
      BY <2>1, <3>2
    <3> QED BY <1>1, <3>2, <3>4, <3>5 DEF Hear
  <2>3. CASE ~HasCall(core)
    <3>1. \A k \in Links : ~IsActive(core, k)
      BY <2>3 DEF IsActive
    <3>2. Announced(r.commands) = <<>>
      BY <1>5, <3>1, AnnouncesNothing
    <3> QED BY <1>9, <3>1, <3>2 DEF HeardAll
  <2> QED BY <2>2, <2>3
<1>13. Story'
  <2>1. IdleStory
    BY <1>1, StoryIdle
  <2>2. \A k \in Links : wire'[k] = "unused" => wire[k] = "unused"
    BY <1>1, <1>9, AfterTyped
  <2>3. \A k \in Links : IsActive(core, k) => wire[k] # "unused"
    BY <1>1 DEF Wired, Owned, IsActive
  <2>4. IdleStory'
    <3> SUFFICES ASSUME NEW k \in Links
                 PROVE  /\ told'[k] # "broken" /\ told'[k] # "live"
                        /\ wire'[k] = "unused" => told'[k] = "none"
      BY <1>10 DEF IdleStory
    <3> QED BY <1>12, <2>1, <2>2, <2>3 DEF IdleStory
  <2> QED BY <1>1, <1>3, <2>4, StoryIdleNext
<1>14. Quiet' /\ Echoing' /\ OnAir'
  BY <1>1, <1>3, <1>10 DEF Quiet, Echoing, AwaitsEcho, OnAir
<1> QED BY <1>2, <1>3, <1>11, <1>13, <1>14 DEF IInv

LEMMA InitInv ==
    ASSUME Init
    PROVE  IInv
<1>1. /\ core = NewCore([allowed |-> Identities, blocked |-> {}]) /\ held = <<>>
      /\ wire = [l \in Links |-> "unused"] /\ told = [l \in Links |-> "none"]
      /\ timer = None /\ answering = None /\ transmit = None /\ receive = None
      /\ onAir = {} /\ loop = "idle"
  BY DEF Init
<1>2. ~HasCall(core) /\ core.pending = {} /\ \A l \in Links : ~IsActive(core, l)
  BY <1>1 DEF NewCore, HasCall, IsActive
<1>3. Sturdy
  BY InitSturdy
<1>4. Wired
  BY <1>1, <1>2 DEF Wired
<1>5. Story
  <2>1. DOMAIN held = {}
    BY <1>1
  <2>2. \A l \in Links : ~Rings(l) /\ ~Stops(l)
    BY <2>1 DEF Rings, Stops
  <2> QED BY <1>1, <1>2, <2>1, <2>2 DEF Story
<1>6. Quiet /\ Echoing /\ OnAir
  BY <1>1, <1>2 DEF Quiet, Echoing, AwaitsEcho, OnAir
<1>7. Refreshed
  BY <1>1, <1>2 DEF Refreshed, TimerFor, TimerKind, StillAnswering
<1> QED BY <1>3, <1>4, <1>5, <1>6, <1>7 DEF IInv

LEMMA NextInv ==
    ASSUME Undisturbed, IInv, [Next]_vars
    PROVE  IInv'
<1>1. CASE UNCHANGED vars
  <2>1. UNCHANGED <<core, wire, told, loopVars, timerVars, mediaVars>>
    BY <1>1 DEF vars
  <2>2. Sturdy'
    BY NextSturdy DEF IInv
  <2> QED BY <2>1, <2>2, SameInv
<1>2. ASSUME NEW l \in Links, LinkEvent(l) \/ AnswerExact(l)
      PROVE  IInv'
  BY <1>2, LinkEventInv, AnswerInv
<1>3. ASSUME NEW b \in BOOLEAN, HangupControl(b) \/ SetBusy(b)
      PROVE  IInv'
  <2>1. CASE HangupControl(b)
    <3>1. loop = "idle" /\ HasCall(core) /\ Control(HangupActive(core, b), timer)
      BY <2>1 DEF HangupControl
    <3>2. Sturdy' /\ timer \in Timer \cup {None}
      BY NextSturdy DEF IInv, Sturdy, TypeOK
    <3> QED BY <3>1, <3>2, HangupInv
  <2> QED BY <1>3, <2>1, SetBusyInv
<1>4. ASSUME NEW p \in Profiles, Switch(p)
      PROVE  IInv'
  BY <1>4, SwitchInv
<1> QED BY <1>1, <1>2, <1>3, <1>4, PublishInv, DialInv, ShutDownInv, TimerInv, MediaInv DEF Next

-----------------------------------------------------------------------------
(* What an undisturbed service keeps *)

(* While commands are carried out, the application's view of the calls,    *)
(* the clocks and the streams go with the core at every step of a drive.   *)
THEOREM ServiceInvariant ==
    ASSUME Undisturbed
    PROVE  Spec => []IInv
<1>1. Init => IInv
  BY InitInv
<1>2. IInv /\ [Next]_vars => IInv'
  BY NextInv
<1> QED BY <1>1, <1>2, PTL DEF Spec

(* The application hears of every call when it begins and when it ends,    *)
(* once each, and of no call that is not there (drive_ready, publish).     *)
THEOREM AllCallsTold ==
    ASSUME Undisturbed
    PROVE  Spec => []CallsTold
<1>1. IInv => CallsTold
  <2> SUFFICES ASSUME IInv
               PROVE  CallsTold
    OBVIOUS
  <2>1. Story /\ Quiet /\ core \in Core
    BY DEF IInv, Sturdy, TypeOK
  <2>2. \A l \in Links : told[l] # "broken"
    BY <2>1 DEF Story
  <2>3. loop \in {"idle", "stopped"} => IdleStory
    BY <2>1, StoryIdle DEF Quiet
  <2>4. NoPhantomCall
    <3> SUFFICES ASSUME loop = "idle", HasCall(core)
                 PROVE  told[core.active.link] = "live"
      BY DEF NoPhantomCall
    <3>1. core.active.link \in Links /\ IsActive(core, core.active.link)
      BY <2>1, CallTyped DEF IsActive
    <3> QED BY <2>3, <3>1 DEF IdleStory
  <2>5. EndAnnounced
    BY <2>3 DEF EndAnnounced, IdleStory
  <2> QED BY <2>2, <2>4, <2>5 DEF CallsTold
<1> QED BY <1>1, ServiceInvariant, PTL

(* A call that waits for something has exactly one clock that ends the     *)
(* waiting, of the right kind and on its own link; other calls have none   *)
(* (refresh_active_timeout).                                               *)
THEOREM AllCallsTimed ==
    ASSUME Undisturbed
    PROVE  Spec => []EveryCallTimed
<1>1. IInv => EveryCallTimed
  <2> SUFFICES ASSUME IInv, loop = "idle"
               PROVE  EveryCallTimed
    BY DEF EveryCallTimed
  <2>1. /\ Refreshed /\ Echoing /\ core \in Core
        /\ HasCall(core) => Shaped(core.active.call)
    BY DEF IInv, Sturdy, TypeOK
  <2>2. /\ TimerFor(core, timer) = timer
        /\ StillAnswering(core, answering) = answering
    BY <2>1 DEF Refreshed
  <2>3. answering # None => AwaitsEcho(core, answering.link)
    BY <2>2 DEF StillAnswering
  <2>4. timer # None => /\ TimerKind(core) # "none" /\ timer.link = core.active.link
                        /\ timer.kind = TimerKind(core)
    BY <2>2 DEF TimerFor, NewTimer
  <2>5. CASE HasCall(core) /\ core.active.call.status # Established
    <3> DEFINE l == core.active.link
               call == core.active.call
    <3>1. /\ l \in Links /\ call.role \in {"Incoming", "Outgoing"}
          /\ call.answered \in BOOLEAN /\ call.status \in 2 .. 6
          /\ Shaped(call) /\ call.status # Established
      BY <2>1, <2>5, CallTyped
    <3>2. call.answered => call.role = "Incoming" /\ call.status = Connecting
      BY <3>1, StatusValues DEF Shaped
    <3>3. answering # None <=> call.answered
      <4>1. ASSUME answering # None
            PROVE  call.answered
        BY <2>3, <4>1 DEF AwaitsEcho, CanRetryAnswer
      <4>2. ASSUME call.answered
            PROVE  answering # None
        <5>1. AwaitsEcho(core, l)
          BY <2>5, <3>2, <4>2 DEF AwaitsEcho, IsActive, CanRetryAnswer
        <5> QED BY <2>1, <3>1, <5>1 DEF Echoing
      <4> QED BY <4>1, <4>2
    <3>4. answering # None => answering.link = l
      BY <2>3 DEF AwaitsEcho, IsActive
    <3>5. /\ TimerKind(core) \in {"IncomingRing", "OutgoingCall"} <=> ~call.answered
          /\ TimerKind(core) # "none" =>
                (TimerKind(core) = "IncomingRing" <=> call.role = "Incoming")
      BY <2>5, <3>1, <3>2, StatusValues DEF TimerKind, Shaped
    <3>6. timer # None <=> ~call.answered
      <4>1. ASSUME ~call.answered
            PROVE  timer # None
        <5>1. TimerKind(core) # "none"
          BY <3>5, <4>1
        <5>2. NewTimer(core) # None
          <6>1. Patience \in 0 .. Patience
            BY ServiceAssumption
          <6>2. NewTimer(core) \in Timer
            BY <3>1, <3>5, <4>1, <6>1 DEF NewTimer, Timer
          <6> QED BY <6>2, ServiceAssumption
        <5> QED BY <2>2, <5>1, <5>2 DEF TimerFor
      <4>2. ASSUME call.answered
            PROVE  timer = None
        BY <2>4, <3>5, <4>2, <3>2 DEF TimerKind
      <4> QED BY <4>1, <4>2
    <3>7. Cardinality(Clocks) = 1
      <4>1. Clocks = {timer} \/ Clocks = {answering}
        BY <3>3, <3>6 DEF Clocks
      <4> QED BY <4>1, FS_Singleton
    <3>8. \A clock \in Clocks : clock.link = l
      BY <2>4, <3>4 DEF Clocks
    <3> QED BY <2>4, <2>5, <3>3, <3>5, <3>7, <3>8 DEF EveryCallTimed
  <2>6. CASE ~(HasCall(core) /\ core.active.call.status # Established)
    <3>1. answering = None
      BY <2>3, <2>6, StatusValues DEF AwaitsEcho, IsActive, CanRetryAnswer
    <3>2. timer = None
      BY <2>4, <2>6, StatusValues DEF TimerKind
    <3> QED BY <2>6, <3>1, <3>2 DEF EveryCallTimed, Clocks
  <2> QED BY <2>5, <2>6
<1> QED BY <1>1, ServiceInvariant, PTL

(* The state is typed, no stream outlives its call or profile, and the     *)
(* application knows which of its streams run (clear_unless_established).  *)
THEOREM LoopInStep ==
    ASSUME Undisturbed
    PROVE  Spec => []LoopAgrees
<1>1. IInv => LoopAgrees
  BY DEF IInv, Sturdy, LoopAgrees, StreamsAgree, Refreshed, OnAir
<1> QED BY <1>1, ServiceInvariant, PTL
=============================================================================
