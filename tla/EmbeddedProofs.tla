--------------------------- MODULE EmbeddedProofs ---------------------------
(***************************************************************************)
(* Proofs about EmbeddedCall and EmbeddedPair.                             *)
(*                                                                         *)
(* EmbeddedCall: the microphone follows the session, which has the         *)
(* authority to open it, and closes it within the talk limit; the device a *)
(* session believes ready is configured for the profile of its call; and   *)
(* no method emits more events than there is room for.                     *)
(*                                                                         *)
(* EmbeddedPair, from "What events send" on: the offers that two parties   *)
(* exchange are counted, made against heard, so that a negotiation with    *)
(* nothing left on its way has brought both to one profile.                *)
(*                                                                         *)
(* They hold for every set of profiles, every configuration, all times,    *)
(* however many generations there are, and, for EmbeddedCall, whatever the *)
(* peer signals.                                                           *)
(***************************************************************************)
EXTENDS EmbeddedCall, EmbeddedPair, CallProofs, WellFoundedInduction, TLAPS

-----------------------------------------------------------------------------
(* What a step has to keep *)

(* The audio generations go around. *)
After(g)   == IF g = Generations - 1 THEN 0 ELSE g + 1
Back(g, k) == IF k <= g THEN g - k ELSE g + Generations - k

(* The device captures exactly while the session transmits, which it does  *)
(* only where it may.                                                      *)
MaySpeak(s) == MediaReady(s) /\ s.config.capture /\ s.inputDown

MicFollows ==
    /\ mic <=> session.transmitting
    /\ session.transmitting => MaySpeak(session)

(* What is left of the talk limit bounds what is to come on air; a session *)
(* that was ticked in this tick of the clock has some left.                *)
TalkTimed ==
    /\ ~mic => onAir = 0
    /\ mic => onAir + session.talkLeft <= TalkLimit
    /\ mic /\ polled => session.talkLeft > 0

(* The worker's jobs are of the last generations, one after the other; the *)
(* last is the session's own.                                              *)
JobsInStep ==
    /\ session.call.profile \in Profiles
    /\ \A i \in DOMAIN jobs :
          jobs[i].generation = Back(session.generation, Len(jobs) - i)
    /\ jobs # <<>> => jobs[Len(jobs)] = JobFor(session)
    /\ session.ready => jobs = <<>> /\ device = session.call.profile

IInv == TypeOK /\ MicFollows /\ TalkTimed /\ JobsInStep

-----------------------------------------------------------------------------
(* Sequences of events *)

DeviceEvents == {"CaptureOn", "CaptureOff", "FlushMedia"}

Event == Action \cup [type : DeviceEvents] \cup [type : {"Ended"}, reason : EndReason]

Has(events, event) == \E i \in DOMAIN events : events[i] = event

(* Events that leave the microphone alone, and events that stop a          *)
(* transmission there may be.                                              *)
Silent(events) ==
    /\ events \in Seq(Event)
    /\ ~Has(events, CaptureOn) /\ ~Has(events, CaptureOff)

Stopping(s, events) ==
    /\ events \in Seq(Event)
    /\ ~Has(events, CaptureOn)
    /\ Has(events, CaptureOff) <=> s.transmitting

LEMMA HasJoined ==
    ASSUME NEW a \in Seq(Event), NEW b \in Seq(Event), NEW e
    PROVE  /\ a \o b \in Seq(Event) /\ Len(a \o b) = Len(a) + Len(b)
           /\ Has(a \o b, e) <=> Has(a, e) \/ Has(b, e)
<1>1. a \o b \in Seq(Event) /\ Len(a \o b) = Len(a) + Len(b)
  OBVIOUS
<1>2. ASSUME Has(a \o b, e)
      PROVE  Has(a, e) \/ Has(b, e)
  <2>1. PICK i \in DOMAIN (a \o b) : (a \o b)[i] = e
    BY <1>2 DEF Has
  <2>2. CASE i <= Len(a)
    <3>1. i \in DOMAIN a /\ (a \o b)[i] = a[i]
      BY <2>1, <2>2
    <3> QED BY <2>1, <3>1 DEF Has
  <2>3. CASE i > Len(a)
    <3>1. i - Len(a) \in DOMAIN b /\ (a \o b)[i] = b[i - Len(a)]
      BY <2>1, <2>3
    <3> QED BY <2>1, <3>1 DEF Has
  <2> QED BY <2>1, <2>2, <2>3
<1>3. ASSUME Has(a, e)
      PROVE  Has(a \o b, e)
  <2>1. PICK i \in DOMAIN a : a[i] = e
    BY <1>3 DEF Has
  <2>2. i \in DOMAIN (a \o b) /\ (a \o b)[i] = a[i]
    BY <2>1
  <2> QED BY <2>1, <2>2 DEF Has
<1>4. ASSUME Has(b, e)
      PROVE  Has(a \o b, e)
  <2>1. PICK i \in DOMAIN b : b[i] = e
    BY <1>4 DEF Has
  <2>2. i + Len(a) \in DOMAIN (a \o b) /\ (a \o b)[i + Len(a)] = b[i]
    BY <2>1
  <2> QED BY <2>1, <2>2 DEF Has
<1> QED BY <1>1, <1>2, <1>3, <1>4

LEMMA CaptureEvents ==
    /\ CaptureOn \in Event /\ CaptureOff \in Event /\ FlushMedia \in Event
    /\ CaptureOn.type = "CaptureOn" /\ CaptureOff.type = "CaptureOff"
    /\ FlushMedia.type = "FlushMedia"
    /\ CaptureOn # CaptureOff
BY DEF CaptureOn, CaptureOff, FlushMedia, Do, Event, DeviceEvents

(* The transitions' actions never touch the microphone. *)
LEMMA ActionsSilent ==
    ASSUME NEW actions \in Seq(Action)
    PROVE  Silent(actions)
<1>1. actions \in Seq(Event)
  BY DEF Event
<1>2. ASSUME NEW i \in DOMAIN actions
      PROVE  actions[i] # CaptureOn /\ actions[i] # CaptureOff
  <2>1. actions[i] \in Action
    OBVIOUS
  <2>2. actions[i].type # "CaptureOn" /\ actions[i].type # "CaptureOff"
    BY <2>1 DEF Action
  <2> QED BY <2>2, CaptureEvents
<1> QED BY <1>1, <1>2 DEF Silent, Has

LEMMA OneSilent ==
    ASSUME NEW e \in Event, e # CaptureOn, e # CaptureOff
    PROVE  Silent(<<e>>) /\ Len(<<e>>) = 1
<1>1. <<e>> \in Seq(Event) /\ Len(<<e>>) = 1 /\ \A i \in DOMAIN <<e>> : <<e>>[i] = e
  OBVIOUS
<1> QED BY <1>1 DEF Silent, Has

LEMMA NothingSilent == Silent(<<>>) /\ Len(<<>>) = 0
BY DEF Silent, Has

LEMMA FlushSilent == Silent(<<FlushMedia>>) /\ Len(<<FlushMedia>>) = 1
<1>1. FlushMedia \in Event /\ FlushMedia # CaptureOn /\ FlushMedia # CaptureOff
  BY CaptureEvents
<1> QED BY <1>1, OneSilent

LEMMA EndedSilent ==
    ASSUME NEW reason \in EndReason
    PROVE  Silent(<<HasEnded(reason)>>) /\ Len(<<HasEnded(reason)>>) = 1
<1>1. /\ HasEnded(reason) \in Event
      /\ HasEnded(reason) # CaptureOn /\ HasEnded(reason) # CaptureOff
  BY CaptureEvents DEF HasEnded, Event
<1> QED BY <1>1, OneSilent

LEMMA SilentJoined ==
    ASSUME NEW a, NEW b, Silent(a), Silent(b)
    PROVE  Silent(a \o b) /\ Len(a \o b) = Len(a) + Len(b)
BY HasJoined DEF Silent

LEMMA StopOrdersStop ==
    ASSUME NEW s, s.transmitting \in BOOLEAN
    PROVE  Stopping(s, StopOrders(s)) /\ Len(StopOrders(s)) <= 1
<1>1. CASE s.transmitting
  <2>1. StopOrders(s) = <<CaptureOff>>
    BY <1>1 DEF StopOrders
  <2>2. /\ <<CaptureOff>> \in Seq(Event) /\ Len(<<CaptureOff>>) = 1
        /\ DOMAIN <<CaptureOff>> = {1} /\ <<CaptureOff>>[1] = CaptureOff
    BY CaptureEvents
  <2> QED BY <1>1, <2>1, <2>2, CaptureEvents DEF Stopping, Has
<1>2. CASE ~s.transmitting
  BY <1>2 DEF StopOrders, Stopping, Has
<1> QED BY <1>1, <1>2

LEMMA StoppingMore ==
    ASSUME NEW s, NEW a, NEW b, Stopping(s, a), Silent(b)
    PROVE  Stopping(s, a \o b) /\ Len(a \o b) = Len(a) + Len(b)
BY HasJoined DEF Silent, Stopping

-----------------------------------------------------------------------------
(* The shape of the session's methods.  All but the press of the button    *)
(* leave the microphone closed or as it is, and tell the device so; all    *)
(* but a new profile and the worker's report leave its configuration.      *)

(* A transmission goes on with the authority it had. *)
GoesOn(s, t) ==
    /\ s.transmitting
    /\ t.talkLeft = s.talkLeft
    /\ s.inputDown => t.inputDown
    /\ MediaReady(s) => MediaReady(t)

Gentle(s, r) ==
    /\ r.session \in Session
    /\ r.session.config = s.config
    /\ r.session.transmitting => GoesOn(s, r.session)
    /\ r.events \in Seq(Event) /\ Len(r.events) <= EventCapacity
    /\ ~Asks(r, CaptureOn)
    /\ Asks(r, CaptureOff) <=> s.transmitting /\ ~r.session.transmitting

SameAudio(s, t) ==
    /\ t.generation = s.generation
    /\ t.call.profile = s.call.profile
    /\ t.ready => s.ready

NewAudio(s, t) ==
    /\ t.generation = After(s.generation)
    /\ t.call.profile \in Profiles
    /\ ~t.ready

LEMMA AsksIs ==
    ASSUME NEW t, NEW events, NEW e
    PROVE  /\ Asks(Emit(t, events), e) <=> Has(events, e)
           /\ Emit(t, events).session = t /\ Emit(t, events).events = events
BY DEF Asks, Emit, Has

(* Silent events of a session that keeps its microphone as it is. *)
LEMMA SilentGentle ==
    ASSUME NEW s \in Session, NEW t \in Session, t.config = s.config,
           t.transmitting = s.transmitting, t.transmitting => GoesOn(s, t),
           NEW events, Silent(events), Len(events) <= EventCapacity
    PROVE  Gentle(s, Emit(t, events))
BY AsksIs DEF Gentle, Silent

(* Stopping events of a session that closes it. *)
LEMMA StoppingGentle ==
    ASSUME NEW s \in Session, NEW t \in Session, t.config = s.config,
           ~t.transmitting,
           NEW events, Stopping(s, events), Len(events) <= EventCapacity
    PROVE  Gentle(s, Emit(t, events))
BY AsksIs DEF Gentle, Stopping

LEMMA QuietGentle ==
    ASSUME NEW s \in Session, NEW t \in Session, t.config = s.config,
           t.transmitting = s.transmitting, t.transmitting => GoesOn(s, t)
    PROVE  Gentle(s, Quiet(t)) /\ Quiet(t).session = t
<1>1. Len(<<>>) <= EventCapacity
  BY DEF EventCapacity
<1> QED BY <1>1, NothingSilent, SilentGentle, AsksIs DEF Quiet

(* A session that does nothing. *)
LEMMA IdleGentle ==
    ASSUME NEW s \in Session
    PROVE  /\ Gentle(s, Quiet(s)) /\ SameAudio(s, s)
           /\ Quiet(s).session = s
<1>1. s.transmitting => GoesOn(s, s)
  BY DEF GoesOn
<1> QED BY <1>1, QuietGentle DEF SameAudio

LEMMA SessionFields ==
    ASSUME NEW s \in Session
    PROVE  /\ s.call \in Call /\ s.config \in Config
           /\ s.linked \in BOOLEAN /\ s.verified \in BOOLEAN /\ s.ready \in BOOLEAN
           /\ s.transmitting \in BOOLEAN /\ s.inputDown \in BOOLEAN
           /\ s.generation \in 0 .. Generations - 1
           /\ s.ended \in EndReason \cup {NotEnded} /\ s.suggested \in BOOLEAN
           /\ s.retries \in 0 .. MaxRetries /\ s.deadline \in Nat
           /\ s.profileLeft \in Nat \cup {Never} /\ s.retryLeft \in Nat
           /\ s.talkLeft \in Nat
           /\ s.config.preferred \in Profiles /\ s.config.preferred \in s.config.allowed
BY DEF Session, Config

(* stop_capture *)
LEMMA SilencedIs ==
    ASSUME NEW s \in Session
    PROVE  /\ Silenced(s) \in Session
           /\ ~Silenced(s).transmitting /\ Silenced(s).talkLeft = 0
           /\ Silenced(s).config = s.config /\ Silenced(s).call = s.call
           /\ Silenced(s).generation = s.generation /\ Silenced(s).ready = s.ready
           /\ Silenced(s).inputDown = s.inputDown /\ Silenced(s).ended = s.ended
           /\ Silenced(s).retries = s.retries
BY DEF Silenced, Session

-----------------------------------------------------------------------------
(* end *)

LEMMA HangupIs ==
    ASSUME NEW c \in Call, NEW timeout \in BOOLEAN
    PROVE  /\ Hangup(c, timeout).call \in Call
           /\ Hangup(c, timeout).call.profile = c.profile
           /\ Hangup(c, timeout).actions \in Seq(Action)
           /\ Len(Hangup(c, timeout).actions) <= 2
<1> DEFINE no == SendStatus(Rejected)
           down == Do("TeardownLink")
<1>1. no \in Action
  BY StatusValues, ActionsTyped DEF CallAction
<1>2. down \in Action
  BY DEF Do, Action
<1>3. /\ Hangup(c, timeout).call = [At(c, Available) EXCEPT !.answered = FALSE]
      /\ \/ Hangup(c, timeout).actions = <<no, down>>
         \/ Hangup(c, timeout).actions = <<down>>
  BY DEF Hangup, Result
<1>4. At(c, Available) \in Call /\ At(c, Available).profile = c.profile
  <2>1. Available \in AutoStatus
    BY StatusValues
  <2>2. At(c, Available).profile = c.profile
    BY DEF Call, At
  <2> QED BY <2>1, <2>2, AtTyped
<1>5. /\ [At(c, Available) EXCEPT !.answered = FALSE] \in Call
      /\ [At(c, Available) EXCEPT !.answered = FALSE].profile = c.profile
  BY <1>4 DEF Call
<1> HIDE DEF no, down
<1>6. /\ <<no, down>> \in Seq(Action) /\ Len(<<no, down>>) = 2
      /\ <<down>> \in Seq(Action) /\ Len(<<down>>) = 1
  BY <1>1, <1>2
<1>7. /\ Hangup(c, timeout).actions \in Seq(Action)
      /\ Len(Hangup(c, timeout).actions) <= 2
  <2> DEFINE p == <<no, down>>
             q == <<down>>
  <2>1. Hangup(c, timeout).actions = p \/ Hangup(c, timeout).actions = q
    BY <1>3
  <2>2. p \in Seq(Action) /\ Len(p) = 2 /\ q \in Seq(Action) /\ Len(q) = 1
    BY <1>6
  <2> HIDE DEF p, q
  <2>3. CASE Hangup(c, timeout).actions = p
    <3>1. Len(Hangup(c, timeout).actions) = 2
      BY <2>2, <2>3
    <3>2. Hangup(c, timeout).actions \in Seq(Action)
      BY <2>2, <2>3
    <3> QED BY <3>1, <3>2
  <2>4. CASE Hangup(c, timeout).actions = q
    BY <2>2, <2>4
  <2> QED BY <2>1, <2>3, <2>4
<1> QED BY <1>3, <1>5, <1>7

(* Ending stops the microphone and forgets that the device is ready.       *)
LEMMA EndGentle ==
    ASSUME NEW s \in Session, NEW reason \in EndReason
    PROVE  /\ Gentle(s, End(s, reason)) /\ SameAudio(s, End(s, reason).session)
           /\ Alive(s) => ~End(s, reason).session.ready
<1>1. CASE ~Alive(s)
  BY <1>1, IdleGentle DEF End
<1>2. CASE Alive(s)
  <2> DEFINE h == Hangup(s.call, reason = "Timeout")
             t == [Silenced(s) EXCEPT !.call = h.call, !.ready = FALSE, !.ended = reason]
             e == StopOrders(s) \o <<FlushMedia>> \o h.actions \o <<HasEnded(reason)>>
  <2>1. End(s, reason) = Emit(t, e)
    BY <1>2 DEF End
  <2>2. /\ h.call \in Call /\ h.call.profile = s.call.profile
        /\ h.actions \in Seq(Action) /\ Len(h.actions) <= 2 /\ Len(h.actions) \in Nat
    <3>1. s.call \in Call /\ (reason = "Timeout") \in BOOLEAN
      BY SessionFields
    <3>2. /\ h.call \in Call /\ h.call.profile = s.call.profile
          /\ h.actions \in Seq(Action) /\ Len(h.actions) <= 2
      <4> DEFINE timeout == reason = "Timeout"
      <4>1. h = Hangup(s.call, timeout)
        OBVIOUS
      <4> HIDE DEF h, timeout
      <4>2. timeout \in BOOLEAN
        BY <3>1 DEF timeout
      <4> QED BY <3>1, <4>1, <4>2, HangupIs
    <3> HIDE DEF h
    <3> QED BY <3>2
  <2> HIDE DEF h
  <2>3. /\ t \in Session /\ t.config = s.config /\ ~t.transmitting
        /\ t.generation = s.generation /\ t.call = h.call /\ ~t.ready
    <3>1. Silenced(s) \in Session
      BY SilencedIs
    <3>2. t \in Session /\ t.call = h.call /\ ~t.ready
      BY <2>2, <3>1 DEF Session
    <3>3. /\ t.config = Silenced(s).config /\ t.transmitting = Silenced(s).transmitting
          /\ t.generation = Silenced(s).generation
      BY <3>1 DEF Session
    <3> HIDE DEF t
    <3> QED BY <3>2, <3>3, SilencedIs
  <2>4. Silent(h.actions)
    BY <2>2, ActionsSilent
  <2>5. Stopping(s, StopOrders(s)) /\ Len(StopOrders(s)) <= 1 /\ Len(StopOrders(s)) \in Nat
    BY StopOrdersStop, SessionFields DEF Stopping
  <2> DEFINE a == StopOrders(s) \o <<FlushMedia>>
             b == a \o h.actions
  <2>6. Stopping(s, a) /\ Len(a) = Len(StopOrders(s)) + 1
    BY <2>5, FlushSilent, StoppingMore
  <2>7. Stopping(s, b) /\ Len(b) = Len(a) + Len(h.actions)
    <3> HIDE DEF a
    <3> QED BY <2>4, <2>6, StoppingMore
  <2>8. Stopping(s, e) /\ Len(e) = Len(b) + 1
    <3> HIDE DEF b
    <3> DEFINE f == <<HasEnded(reason)>>
    <3>1. e = b \o f
      BY DEF b
    <3>2. Silent(f) /\ Len(f) = 1
      BY EndedSilent
    <3> HIDE DEF a, t, e, f
    <3>3. Stopping(s, b \o f) /\ Len(b \o f) = Len(b) + Len(f)
      BY <2>7, <3>2, StoppingMore
    <3>4. Stopping(s, e) /\ Len(e) = Len(b) + Len(f)
      BY <3>1, <3>3, Zenon
    <3> QED BY <3>2, <3>4, SMTT(30)
  <2>9. Len(e) <= EventCapacity
    <3> HIDE DEF a, b, e
    <3>1. Len(e) = Len(StopOrders(s)) + 1 + Len(h.actions) + 1
      BY <2>6, <2>7, <2>8, SMTT(30)
    <3>2. Len(h.actions) <= 2 /\ Len(h.actions) \in Nat
      BY <2>2
    <3>3. Len(StopOrders(s)) <= 1 /\ Len(StopOrders(s)) \in Nat
      BY <2>5
    <3>4. \A x, y \in Nat : x <= 1 /\ y <= 2 => x + 1 + y + 1 <= EventCapacity
      BY DEF EventCapacity
    <3> QED BY <3>1, <3>2, <3>3, <3>4
  <2> HIDE DEF e, t
  <2>10. Gentle(s, Emit(t, e)) /\ Emit(t, e).session = t
    BY <2>3, <2>8, <2>9, StoppingGentle, AsksIs
  <2>11. SameAudio(s, t)
    BY <2>2, <2>3 DEF SameAudio
  <2> QED BY <2>1, <2>3, <2>10, <2>11
<1> QED BY <1>1, <1>2

-----------------------------------------------------------------------------
(* The link owner and the user *)

LEMMA LinkIsUpGentle ==
    ASSUME NEW s \in Session
    PROVE  Gentle(s, LinkIsUp(s)) /\ SameAudio(s, LinkIsUp(s).session)
<1>1. CASE ~Alive(s) \/ s.linked
  BY <1>1, IdleGentle DEF LinkIsUp
<1>2. CASE Alive(s) /\ ~s.linked
  <2> DEFINE t == [s EXCEPT !.linked = TRUE]
             e == IF Incoming(s) THEN IncomingLinkEstablished(FALSE) ELSE <<>>
  <2>1. LinkIsUp(s) = Emit(t, e)
    BY <1>2 DEF LinkIsUp
  <2>2. t \in Session /\ t.config = s.config /\ t.transmitting = s.transmitting
    BY DEF Session
  <2>3. t.transmitting => GoesOn(s, t)
    BY <2>2 DEF Session, GoesOn, MediaReady, Alive, InCall
  <2>4. SameAudio(s, t)
    BY DEF Session, SameAudio
  <2>5. Silent(e) /\ Len(e) <= EventCapacity
    <3>1. SendStatus(Available) \in Action
      BY StatusValues, ActionsTyped DEF CallAction
    <3> DEFINE x == SendStatus(Available)
               p == <<x>>
    <3>2. e = <<>> \/ e = p
      BY DEF IncomingLinkEstablished
    <3> HIDE DEF e, x
    <3>3. e \in Seq(Action) /\ Len(e) <= 1
      <4>1. p \in Seq(Action) /\ Len(p) = 1
        BY <3>1 DEF x
      <4>2. <<>> \in Seq(Action) /\ Len(<<>>) = 0
        OBVIOUS
      <4> HIDE DEF p
      <4>3. CASE e = <<>>
        BY <4>2, <4>3
      <4>4. CASE e = p
        <5>1. Len(e) = 1
          BY <4>1, <4>4
        <5>2. e \in Seq(Action)
          BY <4>1, <4>4
        <5> QED BY <5>1, <5>2
      <4> QED BY <3>2, <4>3, <4>4
    <3> QED BY <3>3, ActionsSilent DEF EventCapacity
  <2> HIDE DEF t, e
  <2>6. Gentle(s, Emit(t, e)) /\ Emit(t, e).session = t
    BY <2>2, <2>3, <2>5, SilentGentle, AsksIs
  <2> QED BY <2>1, <2>4, <2>6
<1> QED BY <1>1, <1>2

(* A short sequence of actions is silent. *)
LEMMA ActionTuples ==
    ASSUME NEW a \in Action, NEW b \in Action, NEW c \in Action, NEW d \in Action
    PROVE  /\ Silent(<<a>>) /\ Len(<<a>>) = 1
           /\ Silent(<<a, b>>) /\ Len(<<a, b>>) = 2
           /\ Silent(<<a, b, c>>) /\ Len(<<a, b, c>>) = 3
           /\ Silent(<<a, b, c, d>>) /\ Len(<<a, b, c, d>>) = 4
<1>1. /\ <<a>> \in Seq(Action) /\ <<a, b>> \in Seq(Action)
      /\ <<a, b, c>> \in Seq(Action) /\ <<a, b, c, d>> \in Seq(Action)
  OBVIOUS
<1>2. /\ Len(<<a>>) = 1 /\ Len(<<a, b>>) = 2
      /\ Len(<<a, b, c>>) = 3 /\ Len(<<a, b, c, d>>) = 4
  OBVIOUS
<1> QED BY <1>1, <1>2, ActionsSilent

LEMMA SessionActions ==
    /\ \A st \in Status : SendStatus(st) \in Action
    /\ \A p \in Profiles : SendSignal(ProfileSignal(p)) \in Action /\ SelectProfile(p) \in Action
    /\ \A sig \in Signal : SendSignal(sig) \in Action
    /\ Do("ResetDialingPipelines") \in Action /\ Do("RingIncomingCall") \in Action
    /\ Do("OpenAudioPipelines") \in Action
<1>1. Do("RingIncomingCall") \in Action
  BY DEF Do, Action
<1> QED BY <1>1, ActionsTyped DEF CallAction

LEMMA PeerVerifiedGentle ==
    ASSUME NEW s \in Session
    PROVE  Gentle(s, PeerVerified(s)) /\ SameAudio(s, PeerVerified(s).session)
<1>1. CASE ~Alive(s) \/ ~s.linked \/ s.verified
  BY <1>1, IdleGentle DEF PeerVerified
<1>2. CASE ~(~Alive(s) \/ ~s.linked \/ s.verified) /\ ~Incoming(s)
  <2> DEFINE t == [s EXCEPT !.verified = TRUE]
  <2>1. PeerVerified(s) = Quiet(t)
    BY <1>2 DEF PeerVerified
  <2>2. t \in Session /\ t.config = s.config /\ t.transmitting = s.transmitting
    BY DEF Session
  <2>3. t.transmitting => GoesOn(s, t)
    BY <2>2 DEF Session, GoesOn, MediaReady, Alive, InCall
  <2>4. SameAudio(s, t)
    BY DEF Session, SameAudio
  <2> HIDE DEF t
  <2>5. Gentle(s, Quiet(t)) /\ Quiet(t).session = t
    BY <2>2, <2>3, QuietGentle
  <2> QED BY <2>1, <2>4, <2>5
<1>3. CASE ~(~Alive(s) \/ ~s.linked \/ s.verified) /\ Incoming(s)
  <2> DEFINE c == At(s.call, Ringing)
             x == Do("ResetDialingPipelines")
             y == SendStatus(Ringing)
             z == Do("RingIncomingCall")
             w == SendSignal(ProfileSignal(s.config.preferred))
             t == [s EXCEPT !.verified = TRUE, !.call = c, !.deadline = RingTime]
  <2>1. PeerVerified(s) = Emit(t, Append(<<x, y, z>>, w))
    BY <1>3 DEF PeerVerified, CallerIdentified, Result
  <2>2. c \in Call
    BY SessionFields, AtTyped, StatusValues
  <2>3. c.profile = s.call.profile
    BY SessionFields DEF Call, At
  <2>4. ~s.verified /\ (s.transmitting => ~MediaReady(s))
    BY <1>3 DEF MediaReady
  <2> HIDE DEF c
  <2>5. t \in Session
    BY <2>2, SessionAssumption DEF Session
  <2>6. /\ t.config = s.config /\ t.transmitting = s.transmitting /\ t.call = c
        /\ t.talkLeft = s.talkLeft /\ t.inputDown = s.inputDown
        /\ t.generation = s.generation /\ t.ready = s.ready
    BY <2>2 DEF Session
  <2>7. x \in Action /\ y \in Action /\ z \in Action /\ w \in Action
    BY SessionActions, SessionFields, StatusValues
  <2> HIDE DEF x, y, z, w, t
  <2>8. Silent(Append(<<x, y, z>>, w)) /\ Len(Append(<<x, y, z>>, w)) = 4
    <3> DEFINE a == <<x, y, z>>
    <3>1. a \in Seq(Action)
      BY <2>7
    <3>2. Len(a) = 3
      OBVIOUS
    <3> HIDE DEF a
    <3>3. Append(a, w) \in Seq(Action) /\ Len(Append(a, w)) = Len(a) + 1
      BY <2>7, <3>1
    <3>4. Silent(Append(a, w))
      BY <3>3, ActionsSilent
    <3>5. Len(Append(a, w)) = 4
      BY <3>2, <3>3
    <3> QED BY <3>4, <3>5 DEF a
  <2>9. t.transmitting => GoesOn(s, t)
    BY <2>4, <2>6 DEF GoesOn
  <2>10. Len(Append(<<x, y, z>>, w)) <= EventCapacity
    BY <2>8 DEF EventCapacity
  <2> DEFINE e == Append(<<x, y, z>>, w)
  <2> HIDE DEF e
  <2>11. Gentle(s, Emit(t, e)) /\ Emit(t, e).session = t
    BY <2>5, <2>6, <2>8, <2>9, <2>10, SilentGentle, AsksIs DEF e
  <2> QED BY <2>1, <2>3, <2>6, <2>11 DEF SameAudio, e
<1> QED BY <1>1, <1>2, <1>3

(* A call that names its profile is answered with it. *)
LEMMA AnswerCallGentle ==
    ASSUME NEW s \in Session, s.call.profile \in Profiles
    PROVE  Gentle(s, AnswerCall(s)) /\ SameAudio(s, AnswerCall(s).session)
<1>1. CASE ~Alive(s) \/ ~s.verified \/ ~CanAnswer(s.call)
  BY <1>1, IdleGentle DEF AnswerCall
<1>2. CASE ~(~Alive(s) \/ ~s.verified \/ ~CanAnswer(s.call))
  <2> DEFINE p == EnsuredProfile(s.call)
             c == Answered(At(Using(s.call, p), Connecting))
             x == SelectProfile(p)
             y == SendStatus(Connecting)
             z == Do("OpenAudioPipelines")
             w == SendStatus(Established)
             t == [s EXCEPT !.call = c, !.deadline = AnswerTime, !.retryLeft = RetryTime]
  <2>1. AnswerCall(s) = Emit(t, <<x, y, z, w>>)
    BY <1>2 DEF AnswerCall, Answer, Result
  <2>2. p = s.call.profile
    BY ProfileAssumption DEF EnsuredProfile
  <2>3. c \in Call /\ c.profile = s.call.profile
    <3>1. Using(s.call, p) \in Call
      BY <2>2, SessionFields, UsingTyped
    <3>2. Using(s.call, p).profile = p
      BY SessionFields DEF Using, Call
    <3> DEFINE d == Using(s.call, p)
    <3>3. At(d, Connecting) \in Call
      <4> HIDE DEF d
      <4> QED BY <3>1, AtTyped, StatusValues DEF d
    <3> HIDE DEF d, p
    <3>4. At(d, Connecting).profile = d.profile
      BY <3>1 DEF At, Call, d
    <3> DEFINE f == At(d, Connecting)
    <3> HIDE DEF f
    <3>5. Answered(f) \in Call /\ Answered(f).profile = f.profile
      BY <3>3 DEF Answered, Call, f
    <3> QED BY <2>2, <3>2, <3>4, <3>5 DEF d, f
  <2>4. s.transmitting => ~MediaReady(s)
    BY <1>2, StatusValues DEF MediaReady, CanAnswer, InCall
  <2>5. x \in Action /\ y \in Action /\ z \in Action /\ w \in Action
    BY <2>2, SessionActions, StatusValues
  <2> HIDE DEF c, p
  <2>6. t \in Session
    BY <2>3, SessionAssumption DEF Session
  <2>7. /\ t.config = s.config /\ t.transmitting = s.transmitting /\ t.call = c
        /\ t.talkLeft = s.talkLeft /\ t.inputDown = s.inputDown
        /\ t.generation = s.generation /\ t.ready = s.ready
    BY <2>3 DEF Session
  <2> DEFINE e == <<x, y, z, w>>
  <2> HIDE DEF x, y, z, w, t
  <2>8. Silent(e) /\ Len(e) = 4
    BY <2>5, ActionTuples
  <2> HIDE DEF e
  <2>9. t.transmitting => GoesOn(s, t)
    BY <2>4, <2>7 DEF GoesOn
  <2>10. Len(e) <= EventCapacity
    BY <2>8 DEF EventCapacity
  <2>11. Gentle(s, Emit(t, e)) /\ Emit(t, e).session = t
    BY <2>6, <2>7, <2>8, <2>9, <2>10, SilentGentle, AsksIs
  <2> QED BY <2>1, <2>3, <2>7, <2>11 DEF SameAudio, e
<1> QED BY <1>1, <1>2

-----------------------------------------------------------------------------
(* receive_signal *)

(* A status never changes the profile a call names; a profile sets it.     *)
LEMMA ProfileAfter ==
    ASSUME NEW c \in Call, c.profile \in Profiles, NEW sig \in Signal
    PROVE  ReceiveSignal(c, sig).call.profile
             = IF sig.kind = "profile" THEN sig.profile ELSE c.profile
<1>0. EnsuredProfile(c) = c.profile
  BY ProfileAssumption DEF EnsuredProfile
<1>1. \A st \in AutoStatus : At(c, st).profile = c.profile
  BY DEF At, Call
<1>2. \A p \in Profiles : Using(c, p).profile = p /\ Using(c, p) \in Call
  BY UsingTyped DEF Using, Call
<1>3. \A p \in Profiles : \A st \in AutoStatus : At(Using(c, p), st).profile = p
  BY <1>2 DEF At, Call
<1>4. CASE sig.kind = "profile"
  <2>1. sig.profile \in Profiles
    BY <1>4, SignalCases
  <2>2. ReceiveProfile(c, sig.profile).call.profile = sig.profile
    BY <1>2, <2>1 DEF ReceiveProfile, Result
  <2> QED BY <1>4, <2>2 DEF ReceiveSignal
<1>5. CASE sig.kind # "profile"
  <2>1. Ignore(c, sig).call.profile = c.profile
    BY DEF Ignore, Result
  <2>2. ReceiveAvailable(c, sig).call.profile = c.profile
    BY <1>1, <2>1, StatusValues DEF ReceiveAvailable, Result
  <2>3. ReceiveRinging(c, sig).call.profile = c.profile
    BY <1>0, <1>3, <2>1, StatusValues DEF ReceiveRinging, Result
  <2>4. ReceiveConnecting(c, sig).call.profile = c.profile
    BY <1>1, <2>1, StatusValues DEF ReceiveConnecting, Result
  <2>5. ReceiveEstablished(c, sig).call.profile = c.profile
    BY <1>1, <2>1, StatusValues DEF ReceiveEstablished, Result
  <2>6. Result(c, <<Terminate(sig.status)>>).call.profile = c.profile
    BY DEF Result
  <2>7. ReceiveStatus(c, sig).call.profile = c.profile
    BY <2>1, <2>2, <2>3, <2>4, <2>5, <2>6 DEF ReceiveStatus
  <2> QED BY <1>5, <2>1, <2>7 DEF ReceiveSignal
<1> QED BY <1>4, <1>5

(* A session that differs in its call's deadline only. *)
Alike(s, t) ==
    /\ t.config = s.config /\ t.call = s.call
    /\ t.transmitting = s.transmitting /\ t.talkLeft = s.talkLeft
    /\ t.inputDown = s.inputDown /\ t.generation = s.generation
    /\ t.ended = s.ended /\ t.linked = s.linked /\ t.verified = s.verified
    /\ t.ready = s.ready /\ t.profileLeft = s.profileLeft

(* The shared transitions take the call further, and nothing else. *)
LEMMA ForwardedIs ==
    ASSUME NEW s \in Session, NEW t \in Session, Alike(s, t), s.call.profile \in Profiles,
           NEW sig \in Signal, ~EndsCall(s.call, sig),
           NEW r, r = Forwarded(t, sig)
    PROVE  /\ r.session \in Session /\ r.session.config = s.config
           /\ r.session.transmitting = s.transmitting
           /\ r.session.transmitting => GoesOn(s, r.session)
           /\ r.session.generation = s.generation /\ r.session.ready = s.ready
           /\ r.session.call.profile
                = IF sig.kind = "profile" THEN sig.profile ELSE s.call.profile
           /\ r = Emit(r.session, r.events)
           /\ Silent(r.events) /\ Len(r.events) <= 4 /\ Len(r.events) \in Nat
<1> DEFINE o == ReceiveSignal(s.call, sig)
           u == [t EXCEPT !.call = o.call]
<1>1. r = Emit(u, o.actions)
  BY DEF Forwarded, Alike
<1>2. s.call \in Call
  BY SessionFields
<1>3. Forward(s.call, o)
  BY <1>2, ReceiveSignalForward
<1>4. o.call.profile = IF sig.kind = "profile" THEN sig.profile ELSE s.call.profile
  BY <1>2, ProfileAfter
<1> HIDE DEF o
<1>5. /\ o.call \in Call /\ o.call.status >= s.call.status
      /\ o.actions \in Seq(CallAction) /\ Len(o.actions) <= 4
  BY <1>3 DEF Forward, Fits, ActionCapacity
<1>6. o.actions \in Seq(Action) /\ Len(o.actions) \in Nat
  BY <1>5 DEF CallAction
<1>7. Silent(o.actions)
  BY <1>6, ActionsSilent
<1>8. u \in Session
  BY <1>5 DEF Session
<1>9. /\ u.call = o.call /\ u.config = s.config /\ u.transmitting = s.transmitting
      /\ u.talkLeft = s.talkLeft /\ u.inputDown = s.inputDown
      /\ u.generation = s.generation /\ u.ready = s.ready
      /\ u.ended = s.ended /\ u.linked = s.linked /\ u.verified = s.verified
      /\ u.profileLeft = s.profileLeft
  BY DEF Session, Alike
<1> HIDE DEF u
<1>10. s.call.status = Established => u.call.status = Established
  BY <1>2, <1>5, <1>9, StatusValues DEF Call
<1>11. MediaReady(s) => MediaReady(u)
  BY <1>9, <1>10 DEF MediaReady, Alive, InCall
<1>12. s.transmitting => GoesOn(s, u)
  BY <1>9, <1>11 DEF GoesOn
<1>13. r.session = u /\ r.events = o.actions
  BY <1>1, AsksIs
<1> QED BY <1>1, <1>4, <1>5, <1>6, <1>7, <1>8, <1>9, <1>12, <1>13

LEMMA AlikeSelf ==
    ASSUME NEW s
    PROVE  Alike(s, s)
BY DEF Alike

(* A status or a raw signal handed on leaves the device alone. *)
LEMMA ForwardedGentle ==
    ASSUME NEW s \in Session, NEW t \in Session, Alike(s, t), s.call.profile \in Profiles,
           NEW sig \in Signal, ~EndsCall(s.call, sig), sig.kind # "profile"
    PROVE  Gentle(s, Forwarded(t, sig)) /\ SameAudio(s, Forwarded(t, sig).session)
<1> DEFINE r == Forwarded(t, sig)
<1> HIDE DEF r
<1>0. r = Forwarded(t, sig)
  BY DEF r
<1>1. /\ r.session \in Session /\ r.session.config = s.config
      /\ r.session.transmitting = s.transmitting
      /\ r.session.transmitting => GoesOn(s, r.session)
      /\ r.session.generation = s.generation /\ r.session.ready = s.ready
      /\ r.session.call.profile = s.call.profile
      /\ r = Emit(r.session, r.events)
      /\ Silent(r.events) /\ Len(r.events) <= 4 /\ Len(r.events) \in Nat
  BY <1>0, ForwardedIs
<1>2. Len(r.events) <= EventCapacity
  BY <1>1 DEF EventCapacity
<1>3. Gentle(s, Emit(r.session, r.events))
  BY <1>1, <1>2, SilentGentle
<1>4. SameAudio(s, r.session)
  BY <1>1 DEF SameAudio
<1> QED BY <1>0, <1>1, <1>3, <1>4

LEMMA HearStatusGentle ==
    ASSUME NEW s \in Session, s.call.profile \in Profiles,
           NEW sig \in Signal, sig.kind = "status"
    PROVE  Gentle(s, HearStatus(s, sig)) /\ SameAudio(s, HearStatus(s, sig).session)
<1> DEFINE st == sig.status
<1>1. CASE st = Busy
  BY <1>1, EndGentle DEF HearStatus, EndReason
<1>2. CASE st = Rejected /\ st # Busy
  BY <1>2, EndGentle DEF HearStatus, EndReason
<1>3. CASE st \notin {Busy, Rejected} /\ (st = Calling \/ ~Believes(s, st))
  BY <1>3, IdleGentle DEF HearStatus
<1>4. CASE st \notin {Busy, Rejected} /\ ~(st = Calling \/ ~Believes(s, st))
  <2> DEFINE t == [s EXCEPT !.deadline = DeadlineAfter(s, st)]
  <2>1. HearStatus(s, sig) = Forwarded(t, sig)
    BY <1>4 DEF HearStatus
  <2>2. DeadlineAfter(s, st) \in Nat
    BY SessionAssumption, SessionFields DEF DeadlineAfter
  <2>3. t \in Session
    BY <2>2 DEF Session
  <2>4. Alike(s, t)
    BY DEF Session, Alike
  <2>5. ~EndsCall(s.call, sig)
    BY <1>4 DEF EndsCall
  <2>6. sig.kind # "profile"
    OBVIOUS
  <2> HIDE DEF t
  <2> QED BY <2>1, <2>3, <2>4, <2>5, <2>6, ForwardedGentle
<1> QED BY <1>1, <1>2, <1>3, <1>4

LEMMA CounterOfferTyped ==
    ASSUME NEW s \in Session
    PROVE  SendSignal(CounterOffer(s)) \in Action
<1>1. s.call.profile \in Profiles \cup {NoProfile} /\ s.config.preferred \in Profiles
  BY SessionFields DEF Call
<1> QED BY <1>1, SessionActions DEF CounterOffer

LEMMA RefuseProfileGentle ==
    ASSUME NEW s \in Session
    PROVE  Gentle(s, RefuseProfile(s)) /\ SameAudio(s, RefuseProfile(s).session)
<1>1. CASE s.suggested
  BY <1>1, EndGentle DEF RefuseProfile, EndReason
<1>2. CASE ~s.suggested
  <2> DEFINE t == [Silenced(s) EXCEPT !.suggested = TRUE, !.profileLeft = ProfileTime]
             x == SendSignal(CounterOffer(s))
             e == StopOrders(s) \o <<FlushMedia, x>>
  <2>1. RefuseProfile(s) = Emit(t, e)
    BY <1>2 DEF RefuseProfile
  <2>2. Silenced(s) \in Session
    BY SilencedIs
  <2>3. /\ t \in Session /\ t.config = Silenced(s).config
        /\ t.transmitting = Silenced(s).transmitting /\ t.call = Silenced(s).call
        /\ t.generation = Silenced(s).generation /\ t.ready = Silenced(s).ready
    BY <2>2, SessionAssumption DEF Session
  <2> HIDE DEF t, x
  <2>4. ~t.transmitting /\ t.config = s.config /\ SameAudio(s, t)
    BY <2>3, SilencedIs DEF SameAudio
  <2>5. Silent(<<FlushMedia, x>>) /\ Len(<<FlushMedia, x>>) = 2
    <3> DEFINE f == <<FlushMedia, x>>
    <3>1. x \in Event /\ x # CaptureOn /\ x # CaptureOff
      <4>1. x \in Action
        BY CounterOfferTyped DEF x
      <4>2. x.type # "CaptureOn" /\ x.type # "CaptureOff"
        BY <4>1 DEF Action
      <4> QED BY <4>1, <4>2, CaptureEvents DEF Event
    <3>2. /\ f \in Seq(Event) /\ Len(f) = 2
          /\ \A i \in DOMAIN f : f[i] = FlushMedia \/ f[i] = x
      BY <3>1, CaptureEvents
    <3>3. FlushMedia # CaptureOn /\ FlushMedia # CaptureOff
      BY CaptureEvents
    <3> HIDE DEF f
    <3>4. Silent(f)
      BY <3>1, <3>2, <3>3 DEF Silent, Has
    <3> QED BY <3>2, <3>4 DEF f
  <2>6. Stopping(s, StopOrders(s)) /\ Len(StopOrders(s)) <= 1 /\ Len(StopOrders(s)) \in Nat
    BY StopOrdersStop, SessionFields DEF Stopping
  <2>7. Stopping(s, e) /\ Len(e) <= EventCapacity
    <3> DEFINE f == <<FlushMedia, x>>
    <3>1. Silent(f) /\ Len(f) = 2
      BY <2>5
    <3>2. e = StopOrders(s) \o f
      OBVIOUS
    <3> HIDE DEF f, e
    <3>3. Stopping(s, StopOrders(s) \o f) /\ Len(StopOrders(s) \o f) = Len(StopOrders(s)) + Len(f)
      BY <2>6, <3>1, StoppingMore
    <3>4. Len(e) = Len(StopOrders(s)) + 2
      BY <3>1, <3>2, <3>3
    <3>5. \A n \in Nat : n <= 1 => n + 2 <= EventCapacity
      BY DEF EventCapacity
    <3> QED BY <2>6, <3>2, <3>3, <3>4, <3>5
  <2> HIDE DEF e
  <2>8. Gentle(s, Emit(t, e)) /\ Emit(t, e).session = t
    BY <2>3, <2>4, <2>7, StoppingGentle, AsksIs
  <2> QED BY <2>1, <2>4, <2>8
<1> QED BY <1>1, <1>2

(* A new profile is a new generation of the device's configuration.        *)
LEMMA NextGeneration ==
    ASSUME NEW g \in 0 .. Generations - 1
    PROVE  (g + 1) % Generations = After(g) /\ After(g) \in 0 .. Generations - 1
           /\ After(g) # g
<1>1. Generations \in Nat /\ Generations > 1
  BY SessionAssumption
<1>2. CASE g = Generations - 1
  <2>1. (g + 1) % Generations = 0
    BY <1>1, <1>2
  <2> QED BY <1>1, <1>2, <2>1 DEF After
<1>3. CASE g # Generations - 1
  <2>1. g + 1 \in 0 .. Generations - 1
    BY <1>1, <1>3
  <2>2. (g + 1) % Generations = g + 1
    BY <1>1, <2>1
  <2> QED BY <1>1, <1>3, <2>1, <2>2 DEF After
<1> QED BY <1>2, <1>3

LEMMA ReconfiguredIs ==
    ASSUME NEW s \in Session
    PROVE  /\ Reconfigured(s) \in Session /\ Reconfigured(s).config = s.config
           /\ ~Reconfigured(s).transmitting /\ ~Reconfigured(s).ready
           /\ Reconfigured(s).generation = After(s.generation)
           /\ Reconfigured(s).call = s.call
<1>1. /\ Silenced(s) \in Session /\ ~Silenced(s).transmitting
      /\ Silenced(s).config = s.config /\ Silenced(s).call = s.call
      /\ Silenced(s).generation = s.generation
  BY SilencedIs
<1>2. s.generation \in 0 .. Generations - 1
  BY SessionFields
<1>3. /\ (s.generation + 1) % Generations = After(s.generation)
      /\ After(s.generation) \in 0 .. Generations - 1
  BY <1>2, NextGeneration
<1>4. Reconfigured(s) = [Silenced(s) EXCEPT !.ready = FALSE,
                            !.generation = After(s.generation), !.profileLeft = Never]
  BY <1>1, <1>3 DEF Reconfigured, Session
<1> QED BY <1>1, <1>3, <1>4 DEF Session

LEMMA AdoptProfileGentle ==
    ASSUME NEW s \in Session, s.call.profile \in Profiles,
           NEW sig \in Signal, sig.kind = "profile"
    PROVE  /\ Gentle(s, AdoptProfile(s, sig))
           /\ \/ SameAudio(s, AdoptProfile(s, sig).session)
              \/ NewAudio(s, AdoptProfile(s, sig).session)
<1>1. CASE s.call.profile = sig.profile
  <2> DEFINE t == [s EXCEPT !.profileLeft = Never]
  <2>1. AdoptProfile(s, sig) = Quiet(t)
    BY <1>1 DEF AdoptProfile
  <2>2. t \in Session /\ t.config = s.config /\ t.transmitting = s.transmitting
    BY DEF Session
  <2>3. t.transmitting => GoesOn(s, t)
    BY <2>2 DEF Session, GoesOn, MediaReady, Alive, InCall
  <2>4. SameAudio(s, t)
    BY DEF Session, SameAudio
  <2> HIDE DEF t
  <2>5. Gentle(s, Quiet(t)) /\ Quiet(t).session = t
    BY <2>2, <2>3, QuietGentle
  <2> QED BY <2>1, <2>4, <2>5
<1>2. CASE s.call.profile # sig.profile
  <2> DEFINE u == Reconfigured(s)
             r == Forwarded(u, sig)
             x == SendSignal(sig)
             a == StopOrders(s) \o <<FlushMedia>>
             b == IF Incoming(s) THEN <<x>> ELSE <<>>
             e == a \o b \o r.events
  <2>1. AdoptProfile(s, sig) = Emit(r.session, e)
    BY <1>2 DEF AdoptProfile
  <2>2. /\ u \in Session /\ u.config = s.config /\ ~u.transmitting /\ ~u.ready
        /\ u.generation = After(s.generation) /\ u.call = s.call
    BY ReconfiguredIs
  <2>3. Alike(u, u) /\ ~EndsCall(u.call, sig)
    BY AlikeSelf DEF EndsCall
  <2> HIDE DEF u
  <2>4. /\ r.session \in Session /\ r.session.config = u.config
        /\ r.session.transmitting = u.transmitting
        /\ r.session.generation = u.generation /\ r.session.ready = u.ready
        /\ r.session.call.profile = sig.profile
        /\ Silent(r.events) /\ Len(r.events) <= 4 /\ Len(r.events) \in Nat
    <3> DEFINE q == r
    <3>1. q = Forwarded(u, sig)
      OBVIOUS
    <3>2. u.call.profile \in Profiles
      BY <2>2
    <3> HIDE DEF q
    <3>3. /\ q.session \in Session /\ q.session.config = u.config
          /\ q.session.transmitting = u.transmitting
          /\ q.session.generation = u.generation /\ q.session.ready = u.ready
          /\ q.session.call.profile = sig.profile
          /\ Silent(q.events) /\ Len(q.events) <= 4 /\ Len(q.events) \in Nat
      BY <2>2, <2>3, <3>1, <3>2, ForwardedIs
    <3> QED BY <3>3 DEF q
  <2> HIDE DEF r
  <2>5. x \in Action
    BY SessionActions
  <2> HIDE DEF x
  <2>6. Stopping(s, StopOrders(s)) /\ Len(StopOrders(s)) <= 1 /\ Len(StopOrders(s)) \in Nat
    BY StopOrdersStop, SessionFields DEF Stopping
  <2>7. Stopping(s, a) /\ Len(a) = Len(StopOrders(s)) + 1
    BY <2>6, FlushSilent, StoppingMore
  <2>8. Silent(b) /\ Len(b) \in {0, 1}
    <3>1. Silent(<<x>>) /\ Len(<<x>>) = 1
      BY <2>5, ActionTuples
    <3> QED BY <3>1, NothingSilent
  <2> HIDE DEF a, b
  <2>9. Stopping(s, a \o b) /\ Len(a \o b) = Len(a) + Len(b)
    BY <2>7, <2>8, StoppingMore
  <2> DEFINE f == a \o b
  <2>10. e = f \o r.events
    OBVIOUS
  <2> HIDE DEF e, f
  <2>11. Stopping(s, f \o r.events) /\ Len(f \o r.events) = Len(f) + Len(r.events)
    BY <2>4, <2>9, StoppingMore DEF f
  <2>12. Len(e) <= EventCapacity
    <3>1. Len(e) = Len(StopOrders(s)) + 1 + Len(b) + Len(r.events)
      BY <2>7, <2>9, <2>10, <2>11 DEF f
    <3>2. \A i, j, k \in Nat : i <= 1 /\ j \in {0, 1} /\ k <= 4 => i + 1 + j + k <= EventCapacity
      BY DEF EventCapacity
    <3>3. Len(b) \in Nat
      BY <2>8
    <3> QED BY <2>4, <2>6, <2>8, <3>1, <3>2, <3>3
  <2>13. Stopping(s, e)
    BY <2>10, <2>11
  <2>14. ~r.session.transmitting /\ r.session.config = s.config
    BY <2>2, <2>4
  <2>15. Gentle(s, Emit(r.session, e)) /\ Emit(r.session, e).session = r.session
    BY <2>4, <2>12, <2>13, <2>14, StoppingGentle, AsksIs
  <2>16. NewAudio(s, r.session)
    BY <2>2, <2>4, SignalCases DEF NewAudio
  <2> QED BY <2>1, <2>15, <2>16
<1> QED BY <1>1, <1>2

LEMMA ReceiveGentle ==
    ASSUME NEW s \in Session, s.call.profile \in Profiles, NEW sig \in Signal
    PROVE  /\ Gentle(s, Receive(s, sig))
           /\ \/ SameAudio(s, Receive(s, sig).session)
              \/ NewAudio(s, Receive(s, sig).session)
<1>1. CASE ~Alive(s) \/ ~s.linked \/ ~s.verified
  BY <1>1, IdleGentle DEF Receive
<1>2. CASE ~(~Alive(s) \/ ~s.linked \/ ~s.verified)
  <2>1. CASE sig.kind = "raw"
    <3>1. ~EndsCall(s.call, sig) /\ sig.kind # "profile"
      BY <2>1 DEF EndsCall
    <3>2. Receive(s, sig) = Forwarded(s, sig)
      BY <1>2, <2>1 DEF Receive
    <3> QED BY <3>1, <3>2, AlikeSelf, ForwardedGentle
  <2>2. CASE sig.kind = "status"
    <3>1. Receive(s, sig) = HearStatus(s, sig)
      BY <1>2, <2>2 DEF Receive
    <3> QED BY <2>2, <3>1, HearStatusGentle
  <2>3. CASE sig.kind = "profile" /\ sig.profile \in s.config.allowed
    <3>1. Receive(s, sig) = AdoptProfile(s, sig)
      BY <1>2, <2>3 DEF Receive
    <3> QED BY <2>3, <3>1, AdoptProfileGentle
  <2>4. CASE sig.kind = "profile" /\ sig.profile \notin s.config.allowed
    <3>1. Receive(s, sig) = RefuseProfile(s)
      BY <1>2, <2>4 DEF Receive
    <3> QED BY <3>1, RefuseProfileGentle
  <2> QED BY <2>1, <2>2, <2>3, <2>4, SignalCases
<1> QED BY <1>1, <1>2

LEMMA ReceiveProfileMediaGentle ==
    ASSUME NEW s \in Session, NEW p
    PROVE  /\ Gentle(s, ReceiveProfileMedia(s, p))
           /\ SameAudio(s, ReceiveProfileMedia(s, p).session)
<1> DEFINE t == [s EXCEPT !.profileLeft = Never]
<1>1. ReceiveProfileMedia(s, p) = Quiet(t) \/ ReceiveProfileMedia(s, p) = Quiet(s)
  BY DEF ReceiveProfileMedia
<1>2. t \in Session /\ t.config = s.config /\ t.transmitting = s.transmitting
  BY DEF Session
<1>3. t.transmitting => GoesOn(s, t)
  BY <1>2 DEF Session, GoesOn, MediaReady, Alive, InCall
<1>4. SameAudio(s, t)
  BY DEF Session, SameAudio
<1> HIDE DEF t
<1>5. Gentle(s, Quiet(t)) /\ Quiet(t).session = t
  BY <1>2, <1>3, QuietGentle
<1>6. Gentle(s, Quiet(s)) /\ SameAudio(s, s) /\ Quiet(s).session = s
  BY IdleGentle
<1> QED BY <1>1, <1>4, <1>5, <1>6

-----------------------------------------------------------------------------
(* The audio device and the talk button *)

(* The worker's report makes a device ready only for the generation of the *)
(* moment.                                                                 *)
Reported(s, generation, success, t) ==
    /\ t.generation = s.generation
    /\ t.call.profile = s.call.profile
    /\ t.ready => s.ready \/ (success /\ generation = s.generation)
    /\ ~success /\ generation = s.generation /\ Alive(s) => ~t.ready

LEMMA AudioReadyGentle ==
    ASSUME NEW s \in Session, NEW generation, NEW success \in BOOLEAN
    PROVE  /\ Gentle(s, AudioReady(s, generation, success))
           /\ Reported(s, generation, success, AudioReady(s, generation, success).session)
<1>1. CASE ~Alive(s) \/ generation # s.generation
  <2>1. AudioReady(s, generation, success) = Quiet(s)
    BY <1>1 DEF AudioReady
  <2>2. Reported(s, generation, success, s)
    BY <1>1 DEF Reported
  <2> QED BY <2>1, <2>2, IdleGentle
<1>2. CASE Alive(s) /\ generation = s.generation /\ ~success
  <2>1. AudioReady(s, generation, success) = End(s, "AudioUnavailable")
    BY <1>2 DEF AudioReady
  <2>2. "AudioUnavailable" \in EndReason
    BY DEF EndReason
  <2> DEFINE t == End(s, "AudioUnavailable").session
  <2>3. SameAudio(s, t) /\ ~t.ready
    BY <1>2, <2>2, EndGentle
  <2>4. Reported(s, generation, success, t)
    BY <1>2, <2>3 DEF Reported, SameAudio
  <2> QED BY <2>1, <2>2, <2>4, EndGentle
<1>3. CASE Alive(s) /\ generation = s.generation /\ success
  <2> DEFINE t == [s EXCEPT !.ready = TRUE]
  <2>1. AudioReady(s, generation, success) = Quiet(t)
    BY <1>3 DEF AudioReady
  <2>2. t \in Session /\ t.config = s.config /\ t.transmitting = s.transmitting
    BY DEF Session
  <2>3. t.transmitting => GoesOn(s, t)
    BY <2>2 DEF Session, GoesOn, MediaReady, Alive, InCall
  <2>4. Reported(s, generation, success, t)
    BY <1>3 DEF Session, Reported
  <2> HIDE DEF t
  <2>5. Gentle(s, Quiet(t)) /\ Quiet(t).session = t
    BY <2>2, <2>3, QuietGentle
  <2> QED BY <2>1, <2>4, <2>5
<1> QED BY <1>1, <1>2, <1>3

(* A press of the button that opens the microphone. *)
Opens(s, r) ==
    /\ r.session \in Session
    /\ ~s.inputDown
    /\ r.session.transmitting /\ MaySpeak(r.session)
    /\ r.session.talkLeft = TalkLimit
    /\ r.events \in Seq(Event) /\ Len(r.events) <= EventCapacity
    /\ Asks(r, CaptureOn)

LEMMA PressTalkShape ==
    ASSUME NEW s \in Session
    PROVE  /\ Gentle(s, PressTalk(s)) \/ Opens(s, PressTalk(s))
           /\ SameAudio(s, PressTalk(s).session)
<1> DEFINE held == [s EXCEPT !.inputDown = TRUE]
<1>1. /\ held \in Session /\ held.config = s.config /\ held.inputDown
      /\ held.transmitting = s.transmitting /\ held.talkLeft = s.talkLeft
      /\ held.ended = s.ended /\ held.linked = s.linked /\ held.verified = s.verified
      /\ held.ready = s.ready /\ held.profileLeft = s.profileLeft /\ held.call = s.call
      /\ held.generation = s.generation
  BY DEF Session
<1>2. CASE s.inputDown
  BY <1>2, IdleGentle DEF PressTalk
<1>3. CASE ~s.inputDown /\ (~MediaReady(s) \/ ~s.config.capture)
  <2>1. PressTalk(s) = Quiet(held)
    BY <1>3 DEF PressTalk
  <2> HIDE DEF held
  <2>2. held.transmitting => GoesOn(s, held)
    BY <1>1 DEF GoesOn, MediaReady, Alive, InCall
  <2>3. Gentle(s, Quiet(held)) /\ Quiet(held).session = held
    BY <1>1, <2>2, QuietGentle
  <2> QED BY <1>1, <2>1, <2>3 DEF SameAudio
<1>4. CASE ~s.inputDown /\ ~(~MediaReady(s) \/ ~s.config.capture)
  <2> DEFINE t == [held EXCEPT !.transmitting = TRUE, !.talkLeft = TalkLimit]
             e == <<FlushMedia, CaptureOn>>
  <2>1. PressTalk(s) = Emit(t, e)
    BY <1>4 DEF PressTalk
  <2> HIDE DEF held
  <2>2. /\ t \in Session /\ t.config = s.config /\ t.inputDown
        /\ t.transmitting /\ t.talkLeft = TalkLimit
        /\ t.ended = s.ended /\ t.linked = s.linked /\ t.verified = s.verified
        /\ t.ready = s.ready /\ t.profileLeft = s.profileLeft /\ t.call = s.call
        /\ t.generation = s.generation
    BY <1>1, SessionAssumption DEF Session
  <2> HIDE DEF t
  <2>3. MaySpeak(t)
    BY <1>4, <2>2 DEF MaySpeak, MediaReady, Alive, InCall
  <2>4. e \in Seq(Event) /\ Len(e) <= EventCapacity /\ Has(e, CaptureOn)
    <3>1. e \in Seq(Event) /\ Len(e) = 2 /\ 2 \in DOMAIN e /\ e[2] = CaptureOn
      BY CaptureEvents
    <3> HIDE DEF e
    <3> QED BY <3>1 DEF EventCapacity, Has
  <2> HIDE DEF e
  <2>5. Opens(s, Emit(t, e)) /\ Emit(t, e).session = t
    BY <1>4, <2>2, <2>3, <2>4, AsksIs DEF Opens
  <2> QED BY <2>1, <2>2, <2>5 DEF SameAudio
<1> QED BY <1>2, <1>3, <1>4

LEMMA StopFlush ==
    ASSUME NEW s \in Session, NEW t \in Session, t.config = s.config, ~t.transmitting
    PROVE  /\ Stopping(s, StopOrders(s) \o <<FlushMedia>>)
           /\ Len(StopOrders(s) \o <<FlushMedia>>) \in 0 .. 2
           /\ Gentle(s, Emit(t, StopOrders(s) \o <<FlushMedia>>))
<1> DEFINE f == <<FlushMedia>>
<1>1. Silent(f) /\ Len(f) = 1
  BY FlushSilent
<1>2. Stopping(s, StopOrders(s)) /\ Len(StopOrders(s)) <= 1 /\ Len(StopOrders(s)) \in Nat
  BY StopOrdersStop, SessionFields DEF Stopping
<1> HIDE DEF f
<1>3. /\ Stopping(s, StopOrders(s) \o f)
      /\ Len(StopOrders(s) \o f) = Len(StopOrders(s)) + Len(f)
  BY <1>1, <1>2, StoppingMore
<1> DEFINE e == StopOrders(s) \o f
<1>4. Len(e) = Len(StopOrders(s)) + 1
  BY <1>1, <1>3
<1>5. Stopping(s, e)
  BY <1>3
<1> HIDE DEF e
<1>6. Len(e) \in 0 .. 2
  BY <1>2, <1>4
<1>7. Len(e) <= EventCapacity
  <2>1. \A n \in 0 .. 2 : n <= EventCapacity
    BY DEF EventCapacity
  <2> QED BY <1>6, <2>1
<1>8. Gentle(s, Emit(t, e))
  BY <1>5, <1>7, StoppingGentle
<1> QED BY <1>5, <1>6, <1>8 DEF e, f

LEMMA ReleaseTalkGentle ==
    ASSUME NEW s \in Session
    PROVE  Gentle(s, ReleaseTalk(s)) /\ SameAudio(s, ReleaseTalk(s).session)
<1> DEFINE t == [Silenced(s) EXCEPT !.inputDown = FALSE]
<1>1. ReleaseTalk(s) = Emit(t, StopOrders(s) \o <<FlushMedia>>)
  BY DEF ReleaseTalk
<1>2. Silenced(s) \in Session
  BY SilencedIs
<1>3. /\ t \in Session /\ t.config = Silenced(s).config
      /\ t.transmitting = Silenced(s).transmitting /\ t.call = Silenced(s).call
      /\ t.generation = Silenced(s).generation /\ t.ready = Silenced(s).ready
  BY <1>2 DEF Session
<1> HIDE DEF t
<1>4. ~t.transmitting /\ t.config = s.config /\ SameAudio(s, t)
  BY <1>3, SilencedIs DEF SameAudio
<1> DEFINE e == StopOrders(s) \o <<FlushMedia>>
<1>5. Gentle(s, Emit(t, e))
  BY <1>3, <1>4, StopFlush
<1> HIDE DEF e
<1>6. Emit(t, e).session = t
  BY AsksIs
<1> QED BY <1>1, <1>4, <1>5, <1>6 DEF e

-----------------------------------------------------------------------------
(* tick and the clock *)

LEMMA LimitTalkShape ==
    ASSUME NEW s \in Session
    PROVE  LET r == LimitTalk(s) IN
           /\ r.session \in Session /\ r.session.config = s.config
           /\ r.session.retries = s.retries
           /\ SameAudio(s, r.session)
           /\ \/ /\ r.session = s /\ Silent(r.events) /\ Len(r.events) \in 0 .. 2
                 /\ s.transmitting => s.talkLeft # 0
              \/ /\ ~r.session.transmitting
                 /\ Stopping(s, r.events) /\ Len(r.events) \in 0 .. 2
<1>1. CASE s.transmitting /\ s.talkLeft = 0
  <2> DEFINE e == StopOrders(s) \o <<FlushMedia>>
  <2>1. LimitTalk(s) = Emit(Silenced(s), e)
    BY <1>1 DEF LimitTalk
  <2>2. /\ Silenced(s) \in Session /\ ~Silenced(s).transmitting
        /\ Silenced(s).config = s.config /\ Silenced(s).retries = s.retries
    BY SilencedIs
  <2>3. SameAudio(s, Silenced(s))
    BY SilencedIs DEF SameAudio
  <2>4. Stopping(s, e) /\ Len(e) \in 0 .. 2
    BY <2>2, StopFlush
  <2> HIDE DEF e
  <2>5. Emit(Silenced(s), e).session = Silenced(s) /\ Emit(Silenced(s), e).events = e
    BY AsksIs
  <2> QED BY <2>1, <2>2, <2>3, <2>4, <2>5
<1>2. CASE ~(s.transmitting /\ s.talkLeft = 0)
  <2> DEFINE e == <<>>
  <2>1. LimitTalk(s) = Emit(s, e)
    BY <1>2 DEF LimitTalk, Quiet
  <2>2. Silent(e) /\ Len(e) \in 0 .. 2
    BY NothingSilent
  <2> HIDE DEF e
  <2>3. Emit(s, e).session = s /\ Emit(s, e).events = e
    BY AsksIs
  <2>4. SameAudio(s, s)
    BY IdleGentle
  <2> QED BY <1>2, <2>1, <2>2, <2>3, <2>4
<1> QED BY <1>1, <1>2

LEMMA RetryAnswerSilent ==
    ASSUME NEW c
    PROVE  Silent(RetryAnswer(c)) /\ Len(RetryAnswer(c)) \in 0 .. 2
<1> DEFINE x == SendStatus(Connecting)
           y == SendStatus(Established)
           e == <<x, y>>
<1>1. x \in Action /\ y \in Action
  BY SessionActions, StatusValues
<1>2. RetryAnswer(c) = e \/ RetryAnswer(c) = <<>>
  BY DEF RetryAnswer
<1> HIDE DEF x, y
<1>3. Silent(e) /\ Len(e) = 2
  BY <1>1, ActionTuples
<1> HIDE DEF e
<1>4. CASE RetryAnswer(c) = e
  BY <1>3, <1>4
<1>5. CASE RetryAnswer(c) = <<>>
  BY <1>5, NothingSilent
<1> QED BY <1>2, <1>4, <1>5

LEMMA RetryOfferShape ==
    ASSUME NEW s \in Session
    PROVE  LET r == RetryOffer(s) IN
           /\ r.session \in Session
           /\ Alike(s, r.session)
           /\ Silent(r.events) /\ Len(r.events) \in 0 .. 2
<1>1. CASE RetryDue(s)
  <2> DEFINE t == [s EXCEPT !.retries = @ + 1, !.retryLeft = RetryTime]
             e == RetryAnswer(s.call)
  <2>1. RetryOffer(s) = Emit(t, e)
    BY <1>1 DEF RetryOffer
  <2>2. s.retries + 1 \in 0 .. MaxRetries
    BY <1>1, SessionFields DEF RetryDue, MaxRetries
  <2>3. t \in Session
    BY <2>2, SessionAssumption DEF Session
  <2>4. Alike(s, t)
    BY DEF Session, Alike
  <2>5. Silent(e) /\ Len(e) \in 0 .. 2
    BY RetryAnswerSilent
  <2> HIDE DEF e, t
  <2>6. Emit(t, e).session = t /\ Emit(t, e).events = e
    BY AsksIs
  <2> QED BY <2>1, <2>3, <2>4, <2>5, <2>6
<1>2. CASE ~RetryDue(s)
  <2> DEFINE e == <<>>
  <2>1. RetryOffer(s) = Emit(s, e)
    BY <1>2 DEF RetryOffer, Quiet
  <2>2. Silent(e) /\ Len(e) \in 0 .. 2
    BY NothingSilent
  <2> HIDE DEF e
  <2>3. Emit(s, e).session = s /\ Emit(s, e).events = e
    BY AsksIs
  <2> QED BY <2>1, <2>2, <2>3, AlikeSelf
<1> QED BY <1>1, <1>2

(* A tick leaves on the air only what has some of the talk limit left.     *)
LEMMA TickGentle ==
    ASSUME NEW s \in Session
    PROVE  /\ Gentle(s, Tick(s)) /\ SameAudio(s, Tick(s).session)
           /\ Tick(s).session.transmitting /\ Alive(s) => Tick(s).session.talkLeft > 0
<1>1. CASE ~Alive(s)
  BY <1>1, IdleGentle DEF Tick
<1>2. CASE Alive(s) /\ s.profileLeft = 0
  <2>1. Tick(s) = End(s, "ProfileUnsupported") /\ "ProfileUnsupported" \in EndReason
    BY <1>2 DEF Tick, EndReason
  <2>2. ~End(s, "ProfileUnsupported").session.transmitting
    <3>1. End(s, "ProfileUnsupported").session
            = [Silenced(s) EXCEPT !.call = Hangup(s.call, "ProfileUnsupported" = "Timeout").call,
                                  !.ready = FALSE, !.ended = "ProfileUnsupported"]
      BY <1>2 DEF End, Emit
    <3> QED BY <3>1 DEF Silenced, Session
  <2> QED BY <2>1, <2>2, EndGentle
<1>3. CASE Alive(s) /\ s.profileLeft # 0 /\ ~InCall(s) /\ s.deadline = 0
  <2>1. Tick(s) = End(s, "Timeout") /\ "Timeout" \in EndReason
    BY <1>3 DEF Tick, EndReason
  <2>2. ~End(s, "Timeout").session.transmitting
    <3>1. End(s, "Timeout").session
            = [Silenced(s) EXCEPT !.call = Hangup(s.call, "Timeout" = "Timeout").call,
                                  !.ready = FALSE, !.ended = "Timeout"]
      BY <1>3 DEF End, Emit
    <3> QED BY <3>1 DEF Silenced, Session
  <2> QED BY <2>1, <2>2, EndGentle
<1>4. CASE Alive(s) /\ s.profileLeft # 0 /\ ~(~InCall(s) /\ s.deadline = 0)
  <2> DEFINE l == LimitTalk(s)
             r == RetryOffer(l.session)
             e == l.events \o r.events
  <2>1. Tick(s) = Emit(r.session, e)
    BY <1>4 DEF Tick
  <2>2. /\ l.session \in Session /\ l.session.config = s.config
        /\ SameAudio(s, l.session)
        /\ \/ /\ l.session = s /\ Silent(l.events) /\ Len(l.events) \in 0 .. 2
              /\ s.transmitting => s.talkLeft # 0
           \/ /\ ~l.session.transmitting
              /\ Stopping(s, l.events) /\ Len(l.events) \in 0 .. 2
    BY LimitTalkShape
  <2> HIDE DEF l
  <2>3. /\ r.session \in Session /\ Alike(l.session, r.session)
        /\ Silent(r.events) /\ Len(r.events) \in 0 .. 2
    BY <2>2, RetryOfferShape
  <2> HIDE DEF r
  <2>4. r.session.config = s.config /\ SameAudio(s, r.session)
    BY <2>2, <2>3 DEF Alike, SameAudio
  <2>5. \A i, j \in 0 .. 2 : i + j <= EventCapacity
    BY DEF EventCapacity
  <2>6. CASE /\ l.session = s /\ Silent(l.events) /\ Len(l.events) \in 0 .. 2
             /\ s.transmitting => s.talkLeft # 0
    <3>1. Silent(e) /\ Len(e) = Len(l.events) + Len(r.events)
      BY <2>3, <2>6, SilentJoined
    <3>2. Len(e) <= EventCapacity
      BY <2>3, <2>5, <2>6, <3>1
    <3>3. r.session.transmitting = s.transmitting
      BY <2>3, <2>6 DEF Alike
    <3>4. r.session.transmitting => GoesOn(s, r.session)
      BY <2>3, <2>6, <3>3 DEF Alike, GoesOn, MediaReady, Alive, InCall
    <3>5. r.session.transmitting => r.session.talkLeft > 0
      BY <2>3, <2>6, <3>3, SessionFields DEF Alike
    <3> HIDE DEF e
    <3>6. Gentle(s, Emit(r.session, e)) /\ Emit(r.session, e).session = r.session
      BY <2>3, <2>4, <3>1, <3>2, <3>3, <3>4, SilentGentle, AsksIs
    <3> QED BY <2>1, <2>4, <3>5, <3>6
  <2>7. CASE ~l.session.transmitting /\ Stopping(s, l.events) /\ Len(l.events) \in 0 .. 2
    <3>1. Stopping(s, e) /\ Len(e) = Len(l.events) + Len(r.events)
      BY <2>3, <2>7, StoppingMore
    <3>2. Len(e) <= EventCapacity
      BY <2>3, <2>5, <2>7, <3>1
    <3>3. ~r.session.transmitting
      BY <2>3, <2>7 DEF Alike
    <3> HIDE DEF e
    <3>4. Gentle(s, Emit(r.session, e)) /\ Emit(r.session, e).session = r.session
      BY <2>3, <2>4, <3>1, <3>2, <3>3, StoppingGentle, AsksIs
    <3> QED BY <2>1, <2>4, <3>3, <3>4
  <2> QED BY <2>2, <2>6, <2>7
<1> QED BY <1>1, <1>2, <1>3, <1>4

(* The clock only takes time away. *)
LEMMA ElapsedIs ==
    ASSUME NEW s \in Session
    PROVE  /\ Elapsed(s) \in Session
           /\ Elapsed(s).transmitting = s.transmitting /\ Elapsed(s).config = s.config
           /\ Elapsed(s).call = s.call /\ Elapsed(s).generation = s.generation
           /\ Elapsed(s).ready = s.ready /\ Elapsed(s).inputDown = s.inputDown
           /\ MediaReady(s) => MediaReady(Elapsed(s))
           /\ Alive(s) => Elapsed(s).talkLeft = Less(s.talkLeft)
<1>1. CASE ~Alive(s)
  BY <1>1 DEF Elapsed
<1>2. CASE Alive(s)
  <2> DEFINE t == [s EXCEPT !.deadline = Less(@), !.profileLeft = Less(@), !.retryLeft = Less(@),
                            !.talkLeft = Less(@)]
  <2>1. Elapsed(s) = t
    BY <1>2 DEF Elapsed
  <2>2. \A n \in Nat : Less(n) \in Nat
    BY DEF Less
  <2>3. Less(Never) = Never
    BY DEF Less, Never
  <2>4. /\ Less(s.deadline) \in Nat /\ Less(s.retryLeft) \in Nat /\ Less(s.talkLeft) \in Nat
        /\ Less(s.profileLeft) \in Nat \cup {Never}
    BY <2>2, <2>3, SessionFields
  <2>5. t \in Session
    BY <2>4 DEF Session
  <2>6. /\ t.transmitting = s.transmitting /\ t.config = s.config /\ t.call = s.call
        /\ t.generation = s.generation /\ t.ready = s.ready /\ t.inputDown = s.inputDown
        /\ t.linked = s.linked /\ t.verified = s.verified /\ t.ended = s.ended
        /\ t.talkLeft = Less(s.talkLeft) /\ t.profileLeft = Less(s.profileLeft)
    BY DEF Session
  <2> HIDE DEF t
  <2>7. MediaReady(s) => MediaReady(t)
    BY <2>3, <2>6 DEF MediaReady, Alive, InCall
  <2> QED BY <2>1, <2>5, <2>6, <2>7
<1> QED BY <1>1, <1>2

-----------------------------------------------------------------------------
(* The invariant holds at first *)

LEMMA NewSessionIs ==
    ASSUME NEW role \in {"Incoming", "Outgoing"}, NEW config \in Config
    PROVE  LET s == NewSession(role, config) IN
           /\ s \in Session
           /\ s.call.profile = config.preferred /\ s.call.profile \in Profiles
           /\ ~s.transmitting /\ ~s.ready /\ s.generation = 1
<1> DEFINE call == IF role = "Incoming" THEN IncomingCall ELSE OutgoingCall(config.preferred)
           c == SwitchTo(call, config.preferred).call
           s == NewSession(role, config)
<1>1. config.preferred \in Profiles
  BY DEF Config
<1>2. call \in Call /\ call.profile \in {NoProfile, config.preferred}
  BY <1>1, StatusValues DEF Call, IncomingCall, OutgoingCall
<1> HIDE DEF call
<1>3. c \in Call /\ c.profile = config.preferred
  <2>1. CASE call.profile = config.preferred
    BY <1>2, <2>1 DEF SwitchTo, Result
  <2>2. CASE call.profile # config.preferred
    <3>1. c = Using(call, config.preferred)
      BY <2>2 DEF SwitchTo, Result
    <3> HIDE DEF c
    <3>2. Using(call, config.preferred) \in Call
      BY <1>1, <1>2, UsingTyped
    <3>3. Using(call, config.preferred).profile = config.preferred
      BY <1>2 DEF Using, Call
    <3> QED BY <3>1, <3>2, <3>3
  <2> QED BY <2>1, <2>2
<1>4. s = [call |-> c, config |-> config,
           linked |-> FALSE, verified |-> FALSE, ready |-> FALSE, transmitting |-> FALSE,
           inputDown |-> FALSE, generation |-> 1, ended |-> NotEnded, suggested |-> FALSE,
           retries |-> 0, deadline |-> SetupTime, profileLeft |-> Never, retryLeft |-> 0,
           talkLeft |-> 0]
  BY DEF NewSession, call
<1>5. 1 \in 0 .. Generations - 1 /\ 0 \in 0 .. MaxRetries /\ SetupTime \in Nat
  BY SessionAssumption DEF MaxRetries
<1> HIDE DEF c
<1>6. s \in Session
  BY <1>3, <1>4, <1>5 DEF Session
<1>7. /\ s.call = c /\ ~s.transmitting /\ ~s.ready /\ s.generation = 1
  BY <1>4
<1> HIDE DEF s
<1>8. s.call.profile = config.preferred
  BY <1>3, <1>7
<1> QED BY <1>1, <1>6, <1>7, <1>8 DEF s

LEMMA JobTyped ==
    ASSUME NEW s \in Session, s.call.profile \in Profiles
    PROVE  /\ JobFor(s) \in Job
           /\ JobFor(s).generation = s.generation /\ JobFor(s).profile = s.call.profile
BY SessionFields DEF JobFor, Job

LEMMA InitInvariant ==
    ASSUME Init
    PROVE  IInv
<1>1. PICK role \in Roles, config \in Configs : session = NewSession(role, config)
  BY DEF Init
<1>2. role \in {"Incoming", "Outgoing"} /\ config \in Config
  BY <1>1, DeviceAssumption
<1>3. /\ session \in Session /\ session.call.profile \in Profiles
      /\ ~session.transmitting /\ ~session.ready /\ session.generation = 1
  BY <1>1, <1>2, NewSessionIs
<1> DEFINE j == JobFor(session)
<1>4. /\ mic = FALSE /\ onAir = 0 /\ jobs = <<j>> /\ device = NoProfile /\ polled = FALSE
  BY DEF Init
<1>5. j \in Job /\ j.generation = session.generation
  BY <1>3, JobTyped
<1> HIDE DEF j
<1>6. /\ jobs \in Seq(Job) /\ Len(jobs) = 1 /\ DOMAIN jobs = {1} /\ jobs[1] = j
  BY <1>4, <1>5
<1>7. TypeOK
  <2>1. Len(jobs) <= MaxJobs
    <3>1. MaxJobs \in Nat /\ 1 <= MaxJobs
      BY DeviceAssumption
    <3> QED BY <1>6, <3>1
  <2> QED BY <1>3, <1>4, <1>6, <2>1 DEF TypeOK
<1>8. MicFollows /\ TalkTimed
  BY <1>3, <1>4 DEF MicFollows, TalkTimed
<1>9. JobsInStep
  <2>1. \A i \in DOMAIN jobs : jobs[i].generation = Back(session.generation, Len(jobs) - i)
    <3>1. Back(session.generation, 0) = session.generation
      BY <1>3 DEF Back
    <3>2. ASSUME NEW i \in DOMAIN jobs
          PROVE  jobs[i].generation = Back(session.generation, Len(jobs) - i)
      <4>1. i = 1 /\ Len(jobs) - i = 0
        BY <1>6, <3>2
      <4> QED BY <1>5, <1>6, <3>1, <4>1
    <3> QED BY <3>2
  <2>2. jobs[Len(jobs)] = JobFor(session)
    BY <1>6 DEF j
  <2> QED BY <1>3, <2>1, <2>2 DEF JobsInStep
<1> QED BY <1>7, <1>8, <1>9 DEF IInv

-----------------------------------------------------------------------------
(* Every step keeps it: the microphone ... *)

MicTyped == session \in Session /\ mic \in BOOLEAN /\ onAir \in Nat

LEMMA MicKept ==
    ASSUME IInv, NEW r, Carry(r), Gentle(session, r),
           (r.session.transmitting => r.session.talkLeft > 0) \/ polled' = polled
    PROVE  MicTyped' /\ MicFollows' /\ TalkTimed'
<1>1. /\ session \in Session /\ mic \in BOOLEAN /\ onAir \in Nat
      /\ mic <=> session.transmitting
      /\ session.transmitting => MaySpeak(session)
      /\ ~mic => onAir = 0
      /\ mic => onAir + session.talkLeft <= TalkLimit
      /\ mic /\ polled => session.talkLeft > 0
  BY DEF IInv, TypeOK, MicFollows, TalkTimed
<1> DEFINE t == r.session
<1>2. /\ t \in Session /\ t.config = session.config
      /\ t.transmitting => GoesOn(session, t)
      /\ ~Asks(r, CaptureOn)
      /\ Asks(r, CaptureOff) <=> session.transmitting /\ ~t.transmitting
  BY DEF Gentle
<1>3. session' = t
  BY DEF Carry
<1>4. mic' <=> mic /\ ~Asks(r, CaptureOff)
  BY <1>2 DEF Carry
<1>5. mic' \in BOOLEAN /\ onAir' = IF mic' THEN onAir ELSE 0
  BY DEF Carry
<1>6. mic' <=> t.transmitting
  BY <1>1, <1>2, <1>4 DEF GoesOn
<1> HIDE DEF t
<1>7. MicTyped'
  BY <1>1, <1>2, <1>3, <1>5 DEF MicTyped
<1>8. MicFollows'
  <2>1. t.transmitting => MaySpeak(t)
    BY <1>1, <1>2 DEF MaySpeak, GoesOn
  <2>2. session'.transmitting => MaySpeak(session')
    BY <1>3, <2>1
  <2> QED BY <1>3, <1>6, <2>2 DEF MicFollows, MaySpeak, MediaReady, Alive, InCall
<1>9. TalkTimed'
  <2>1. ~mic' => onAir' = 0
    BY <1>5
  <2>2. ASSUME mic'
        PROVE  /\ onAir' = onAir /\ t.talkLeft = session.talkLeft /\ mic
               /\ session'.talkLeft = session.talkLeft
    BY <1>2, <1>3, <1>4, <1>5, <1>6, <2>2 DEF GoesOn
  <2>3. mic' => onAir' + session'.talkLeft <= TalkLimit
    BY <1>1, <2>2
  <2>4. mic' /\ polled' => session'.talkLeft > 0
    BY <1>1, <1>3, <1>6, <2>2 DEF t
  <2> QED BY <2>1, <2>3, <2>4 DEF TalkTimed
<1> QED BY <1>7, <1>8, <1>9

LEMMA MicOpened ==
    ASSUME IInv, NEW r, Carry(r), Opens(session, r)
    PROVE  MicTyped' /\ MicFollows' /\ TalkTimed'
<1>1. /\ onAir \in Nat
      /\ mic <=> session.transmitting
      /\ session.transmitting => MaySpeak(session)
      /\ ~mic => onAir = 0
  BY DEF IInv, TypeOK, MicFollows, TalkTimed
<1> DEFINE t == r.session
<1>2. /\ t \in Session /\ ~session.inputDown /\ t.transmitting /\ MaySpeak(t)
      /\ t.talkLeft = TalkLimit /\ Asks(r, CaptureOn)
  BY DEF Opens
<1>3. session' = t
  BY DEF Carry
<1>4. mic' = TRUE
  BY <1>2 DEF Carry
<1>5. onAir = 0
  <2>1. ~mic
    BY <1>1, <1>2 DEF MaySpeak
  <2> QED BY <1>1, <2>1
<1>6. onAir' = 0
  BY <1>5 DEF Carry
<1> HIDE DEF t
<1>7. session'.transmitting /\ MaySpeak(session') /\ session'.talkLeft = TalkLimit
  BY <1>2, <1>3
<1>8. MicFollows'
  BY <1>4, <1>7 DEF MicFollows, MaySpeak, MediaReady, Alive, InCall
<1>9. TalkTimed'
  BY <1>4, <1>6, <1>7, SessionAssumption DEF TalkTimed
<1>10. MicTyped'
  BY <1>2, <1>3, <1>4, <1>6 DEF MicTyped
<1> QED BY <1>8, <1>9, <1>10

-----------------------------------------------------------------------------
(* ... and the device *)

LEMMA JobsKept ==
    ASSUME JobsInStep, SameAudio(session, session'), UNCHANGED <<jobs, device>>
    PROVE  JobsInStep'
<1>1. /\ session'.generation = session.generation
      /\ session'.call.profile = session.call.profile
      /\ session'.ready => session.ready
  BY DEF SameAudio
<1>2. JobFor(session') = JobFor(session)
  BY <1>1 DEF JobFor
<1>3. \A i \in DOMAIN jobs : jobs[i].generation = Back(session'.generation, Len(jobs) - i)
  BY <1>1 DEF JobsInStep
<1>4. jobs # <<>> => jobs[Len(jobs)] = JobFor(session')
  BY <1>2 DEF JobsInStep
<1>5. /\ session'.call.profile \in Profiles
      /\ session'.ready => jobs = <<>> /\ device = session'.call.profile
  BY <1>1 DEF JobsInStep
<1> QED BY <1>3, <1>4, <1>5 DEF JobsInStep, JobFor, Back

(* A new job is one generation after the ones before it.                   *)
LEMMA BackOneMore ==
    ASSUME NEW g \in 0 .. Generations - 1, NEW k \in Nat, k + 1 < Generations
    PROVE  Back(After(g), k + 1) = Back(g, k)
BY SessionAssumption DEF Back, After

LEMMA BackNone ==
    ASSUME NEW g \in 0 .. Generations - 1, NEW k \in Nat, k < Generations
    PROVE  /\ Back(g, 0) = g
           /\ Back(g, k) = g => k = 0
BY SessionAssumption DEF Back

LEMMA JobAdded ==
    ASSUME TypeOK, JobsInStep, session' \in Session, NewAudio(session, session'),
           Len(jobs) < MaxJobs, jobs' = Append(jobs, JobFor(session'))
    PROVE  JobsInStep' /\ jobs' \in Seq(Job) /\ Len(jobs') <= MaxJobs
<1> DEFINE n == Len(jobs)
           g == session.generation
           h == session'.generation
           j == JobFor(session')
<1>1. /\ jobs \in Seq(Job) /\ n \in Nat /\ n < MaxJobs /\ MaxJobs \in Nat
      /\ MaxJobs < Generations /\ Generations \in Nat
  BY DeviceAssumption, SessionAssumption DEF TypeOK
<1>2. /\ h = After(g) /\ session'.call.profile \in Profiles /\ ~session'.ready
  BY DEF NewAudio
<1>3. g \in 0 .. Generations - 1 /\ h \in 0 .. Generations - 1
  BY SessionFields DEF TypeOK
<1>4. j \in Job /\ j.generation = h
  BY <1>2, JobTyped
<1> HIDE DEF j
<1>5. jobs' = Append(jobs, j)
  BY DEF j
<1>6. /\ jobs' \in Seq(Job) /\ Len(jobs') = n + 1
      /\ \A i \in 1 .. n : jobs'[i] = jobs[i]
      /\ jobs'[n + 1] = j
  BY <1>1, <1>4, <1>5
<1>7. DOMAIN jobs = 1 .. n /\ DOMAIN jobs' = 1 .. n + 1
  BY <1>1, <1>6
<1> HIDE DEF n, g, h
<1>8. ASSUME NEW i \in 1 .. n + 1
      PROVE  jobs'[i].generation = Back(h, n + 1 - i)
  <2>1. CASE i = n + 1
    <3>1. n + 1 - i = 0
      BY <1>1, <2>1
    <3> QED BY <1>1, <1>3, <1>4, <1>6, <2>1, <3>1, BackNone
  <2>2. CASE i # n + 1
    <3>1. i \in 1 .. n /\ n - i \in Nat /\ n + 1 - i = (n - i) + 1 /\ (n - i) + 1 < Generations
      BY <1>1, <1>8, <2>2
    <3>2. jobs[i].generation = Back(g, n - i)
      BY <1>7, <3>1 DEF JobsInStep, n, g
    <3>3. Back(After(g), (n - i) + 1) = Back(g, n - i)
      BY <1>3, <3>1, BackOneMore
    <3> QED BY <1>2, <1>6, <3>1, <3>2, <3>3
  <2> QED BY <2>1, <2>2
<1>9. \A i \in DOMAIN jobs' : jobs'[i].generation = Back(session'.generation, Len(jobs') - i)
  <2>1. ASSUME NEW i \in DOMAIN jobs'
        PROVE  jobs'[i].generation = Back(h, Len(jobs') - i)
    <3>1. i \in 1 .. n + 1 /\ Len(jobs') - i = n + 1 - i
      BY <1>1, <1>6, <1>7, <2>1
    <3> QED BY <1>8, <3>1
  <2> QED BY <2>1 DEF h
<1>10. jobs'[Len(jobs')] = JobFor(session')
  BY <1>6 DEF j
<1>11. JobsInStep'
  BY <1>2, <1>9, <1>10 DEF JobsInStep, JobFor, Back
<1>12. n + 1 <= MaxJobs
  BY <1>1
<1> QED BY <1>6, <1>11, <1>12

(* The worker reports its oldest job: the session believes the report only *)
(* when it is the last one too.                                            *)
LEMMA JobReported ==
    ASSUME TypeOK, JobsInStep, session' \in Session, jobs # <<>>,
           NEW success \in BOOLEAN,
           Reported(session, Head(jobs).generation, success, session'),
           device' = IF success THEN Head(jobs).profile ELSE device,
           jobs' = Tail(jobs)
    PROVE  /\ JobsInStep' /\ jobs' \in Seq(Job) /\ Len(jobs') <= MaxJobs
           /\ device' \in Profiles \cup {NoProfile}
<1> DEFINE n == Len(jobs)
           g == session.generation
<1>1. /\ jobs \in Seq(Job) /\ n \in Nat /\ n > 0 /\ n <= MaxJobs /\ MaxJobs \in Nat
      /\ MaxJobs < Generations /\ Generations \in Nat
  BY DeviceAssumption, SessionAssumption DEF TypeOK
<1>2. /\ Head(jobs) = jobs[1] /\ jobs[1] \in Job
      /\ DOMAIN jobs = 1 .. n
      /\ jobs' \in Seq(Job) /\ Len(jobs') = n - 1 /\ DOMAIN jobs' = 1 .. n - 1
      /\ \A i \in 1 .. n - 1 : jobs'[i] = jobs[i + 1]
  BY <1>1
<1>3. /\ session'.generation = g /\ session'.call.profile = session.call.profile
      /\ session'.ready => session.ready \/ (success /\ jobs[1].generation = g)
  BY <1>2 DEF Reported
<1>4. ~session.ready /\ session.call.profile \in Profiles /\ jobs[n] = JobFor(session)
  BY DEF JobsInStep
<1>5. JobFor(session') = JobFor(session) /\ JobFor(session).profile = session.call.profile
  BY <1>3 DEF JobFor
<1>6. g \in 0 .. Generations - 1
  BY SessionFields DEF TypeOK
<1>7. \A i \in 1 .. n : jobs[i].generation = Back(g, n - i)
  BY <1>2 DEF JobsInStep
<1>8. device' \in Profiles \cup {NoProfile}
  BY <1>2 DEF TypeOK, Job
<1> HIDE DEF n, g
<1>9. ASSUME NEW i \in 1 .. n - 1
      PROVE  jobs'[i].generation = Back(g, n - 1 - i)
  <2>1. i + 1 \in 1 .. n /\ n - (i + 1) = n - 1 - i
    BY <1>1, <1>9
  <2> QED BY <1>2, <1>7, <2>1
<1>10. \A i \in DOMAIN jobs' : jobs'[i].generation = Back(session'.generation, Len(jobs') - i)
  <2>1. ASSUME NEW i \in DOMAIN jobs'
        PROVE  jobs'[i].generation = Back(g, Len(jobs') - i)
    <3>1. i \in 1 .. n - 1 /\ Len(jobs') - i = n - 1 - i
      BY <1>1, <1>2, <2>1
    <3> QED BY <1>9, <3>1
  <2> QED BY <1>3, <2>1
<1>11. jobs' # <<>> => jobs'[Len(jobs')] = JobFor(session')
  <2>1. ASSUME jobs' # <<>>
        PROVE  jobs'[n - 1] = jobs[n]
    <3>1. n - 1 \in 1 .. n - 1 /\ (n - 1) + 1 = n
      BY <1>1, <1>2, <2>1
    <3> QED BY <1>2, <3>1
  <2> QED BY <1>2, <1>4, <1>5, <2>1
<1>12. ASSUME session'.ready
       PROVE  jobs' = <<>> /\ device' = session'.call.profile
  <2>1. success /\ jobs[1].generation = g
    BY <1>3, <1>4, <1>12
  <2>2. n = 1
    <3>1. 1 \in 1 .. n /\ n - 1 \in Nat /\ n - 1 < Generations
      BY <1>1
    <3>2. Back(g, n - 1) = g
      BY <1>7, <2>1, <3>1
    <3>3. n - 1 = 0
      BY <1>6, <3>1, <3>2, BackNone
    <3> QED BY <1>1, <3>3
  <2>3. jobs' = <<>>
    BY <1>2, <2>2
  <2>4. device' = jobs[1].profile
    BY <1>2, <2>1
  <2>5. jobs[1].profile = session'.call.profile
    BY <1>3, <1>4, <1>5, <2>2
  <2> QED BY <2>3, <2>4, <2>5
<1>13. JobsInStep'
  BY <1>3, <1>4, <1>10, <1>11, <1>12 DEF JobsInStep, JobFor, Back
<1>14. Len(jobs') <= MaxJobs
  BY <1>1, <1>2
<1> QED BY <1>2, <1>8, <1>13, <1>14

-----------------------------------------------------------------------------
(* Every action keeps it *)

(* A step that leaves the worker and its jobs alone. *)
LEMMA GentleStep ==
    ASSUME IInv, NEW r, Carry(r), Gentle(session, r), SameAudio(session, r.session),
           UNCHANGED <<jobs, device>>,
           \/ polled' = polled
           \/ polled' = TRUE /\ (r.session.transmitting => r.session.talkLeft > 0)
    PROVE  IInv'
<1>1. MicTyped' /\ MicFollows' /\ TalkTimed'
  BY MicKept
<1>2. session' = r.session
  BY DEF Carry
<1>3. JobsInStep'
  BY <1>2, JobsKept DEF IInv
<1>4. TypeOK'
  BY <1>1 DEF IInv, TypeOK, MicTyped
<1> QED BY <1>1, <1>3, <1>4 DEF IInv

LEMMA SimplyGentle ==
    ASSUME IInv, NEW r, Simply(r), Gentle(session, r), SameAudio(session, r.session)
    PROVE  IInv'
BY GentleStep DEF Simply

LEMMA HearKeeps ==
    ASSUME IInv, Hear
    PROVE  IInv'
<1>1. PICK sig \in Signal :
          LET step == Receive(session, sig) IN
          /\ NewJob(step.session) => Len(jobs) < MaxJobs
          /\ Carry(step)
          /\ jobs' = IF NewJob(step.session) THEN Append(jobs, JobFor(step.session)) ELSE jobs
          /\ UNCHANGED <<device, polled>>
  BY DEF Hear
<1> DEFINE r == Receive(session, sig)
<1>2. session \in Session /\ session.call.profile \in Profiles
  BY DEF IInv, TypeOK, JobsInStep
<1>3. Gentle(session, r) /\ (SameAudio(session, r.session) \/ NewAudio(session, r.session))
  BY <1>2, ReceiveGentle
<1>4. /\ NewJob(r.session) => Len(jobs) < MaxJobs
      /\ Carry(r)
      /\ jobs' = IF NewJob(r.session) THEN Append(jobs, JobFor(r.session)) ELSE jobs
      /\ UNCHANGED <<device, polled>>
  BY <1>1
<1> HIDE DEF r
<1>5. session' = r.session
  BY <1>4 DEF Carry
<1>6. CASE SameAudio(session, r.session)
  <2>1. ~NewJob(r.session)
    BY <1>6 DEF NewJob, SameAudio
  <2> QED BY <1>3, <1>4, <1>6, <2>1, GentleStep
<1>7. CASE NewAudio(session, r.session)
  <2>1. NewJob(r.session)
    BY <1>2, <1>7, SessionFields, NextGeneration DEF NewJob, NewAudio
  <2>2. MicTyped' /\ MicFollows' /\ TalkTimed'
    BY <1>3, <1>4, MicKept
  <2>3. JobsInStep' /\ jobs' \in Seq(Job) /\ Len(jobs') <= MaxJobs
    BY <1>4, <1>5, <1>7, <2>1, <2>2, JobAdded DEF IInv, MicTyped
  <2>4. TypeOK'
    BY <1>4, <2>2, <2>3 DEF IInv, TypeOK, MicTyped
  <2> QED BY <2>2, <2>3, <2>4 DEF IInv
<1> QED BY <1>3, <1>6, <1>7

LEMMA ConfiguredKeeps ==
    ASSUME IInv, Configured
    PROVE  IInv'
<1>1. PICK success \in BOOLEAN :
          /\ Carry(AudioReady(session, Head(jobs).generation, success))
          /\ device' = IF success THEN Head(jobs).profile ELSE device
  BY DEF Configured
<1> DEFINE r == AudioReady(session, Head(jobs).generation, success)
<1>2. jobs # <<>> /\ jobs' = Tail(jobs) /\ UNCHANGED polled
  BY DEF Configured
<1>3. session \in Session
  BY DEF IInv, TypeOK
<1>4. Gentle(session, r) /\ Reported(session, Head(jobs).generation, success, r.session)
  BY <1>3, AudioReadyGentle
<1>5. Carry(r)
  BY <1>1
<1> HIDE DEF r
<1>6. session' = r.session
  BY <1>5 DEF Carry
<1>7. MicTyped' /\ MicFollows' /\ TalkTimed'
  BY <1>2, <1>4, <1>5, MicKept
<1>8. /\ JobsInStep' /\ jobs' \in Seq(Job) /\ Len(jobs') <= MaxJobs
      /\ device' \in Profiles \cup {NoProfile}
  BY <1>1, <1>2, <1>4, <1>6, <1>7, JobReported DEF IInv, MicTyped
<1>9. TypeOK'
  BY <1>2, <1>7, <1>8 DEF IInv, TypeOK, MicTyped
<1> QED BY <1>7, <1>8, <1>9 DEF IInv

LEMMA PressKeeps ==
    ASSUME IInv, Press
    PROVE  IInv'
<1> DEFINE r == PressTalk(session)
<1>1. session \in Session
  BY DEF IInv, TypeOK
<1>2. (Gentle(session, r) \/ Opens(session, r)) /\ SameAudio(session, r.session)
  BY <1>1, PressTalkShape
<1>3. Carry(r) /\ UNCHANGED <<jobs, device, polled>>
  BY DEF Press, Simply
<1> HIDE DEF r
<1>4. CASE Gentle(session, r)
  BY <1>2, <1>3, <1>4, GentleStep
<1>5. CASE Opens(session, r)
  <2>1. MicTyped' /\ MicFollows' /\ TalkTimed'
    BY <1>3, <1>5, MicOpened
  <2>2. session' = r.session
    BY <1>3 DEF Carry
  <2>3. JobsInStep'
    BY <1>2, <1>3, <2>2, JobsKept DEF IInv
  <2>4. TypeOK'
    BY <1>3, <2>1 DEF IInv, TypeOK, MicTyped
  <2> QED BY <2>1, <2>3, <2>4 DEF IInv
<1> QED BY <1>2, <1>4, <1>5

LEMMA ClockKeeps ==
    ASSUME IInv, ClockTick
    PROVE  IInv'
<1>1. /\ session \in Session /\ mic \in BOOLEAN /\ onAir \in Nat
      /\ mic <=> session.transmitting
      /\ session.transmitting => MaySpeak(session)
      /\ mic => onAir + session.talkLeft <= TalkLimit
      /\ mic /\ polled => session.talkLeft > 0
  BY DEF IInv, TypeOK, MicFollows, TalkTimed
<1>2. /\ polled /\ polled' = FALSE /\ session' = Elapsed(session)
      /\ onAir' = IF mic THEN onAir + 1 ELSE 0
      /\ mic' = mic /\ jobs' = jobs /\ device' = device
  BY DEF ClockTick
<1>3. /\ session' \in Session
      /\ session'.transmitting = session.transmitting /\ session'.config = session.config
      /\ session'.call = session.call /\ session'.generation = session.generation
      /\ session'.ready = session.ready /\ session'.inputDown = session.inputDown
      /\ MediaReady(session) => MediaReady(session')
      /\ Alive(session) => session'.talkLeft = Less(session.talkLeft)
  BY <1>1, <1>2, ElapsedIs
<1>4. MicFollows'
  <2>1. session'.transmitting => MaySpeak(session')
    BY <1>1, <1>3 DEF MaySpeak
  <2> QED BY <1>1, <1>2, <1>3, <2>1 DEF MicFollows, MaySpeak, MediaReady, Alive, InCall
<1>5. TalkTimed'
  <2>1. CASE ~mic
    BY <1>2, <2>1 DEF TalkTimed
  <2>2. CASE mic
    <3>1. Alive(session)
      BY <1>1, <2>2 DEF MaySpeak, MediaReady
    <3>2. session.talkLeft > 0 /\ session.talkLeft \in Nat
      BY <1>1, <1>2, <2>2, SessionFields
    <3>3. session'.talkLeft = session.talkLeft - 1
      BY <1>3, <3>1, <3>2 DEF Less
    <3>4. onAir' = onAir + 1
      BY <1>2, <2>2
    <3>5. onAir' + session'.talkLeft <= TalkLimit
      BY <1>1, <2>2, <3>2, <3>3, <3>4, SessionAssumption
    <3> QED BY <1>2, <2>2, <3>5 DEF TalkTimed
  <2> QED BY <2>1, <2>2
<1>6. JobsInStep'
  <2>1. SameAudio(session, session')
    BY <1>3 DEF SameAudio
  <2> QED BY <1>2, <2>1, JobsKept DEF IInv
<1>7. TypeOK'
  <2>1. onAir' \in Nat /\ mic' \in BOOLEAN /\ polled' \in BOOLEAN
    <3>1. mic' \in BOOLEAN /\ polled' \in BOOLEAN
      BY <1>1, <1>2
    <3>2. onAir + 1 \in Nat
      BY <1>1
    <3> QED BY <1>2, <3>1, <3>2
  <2>2. /\ jobs' \in Seq(Job) /\ Len(jobs') <= MaxJobs
        /\ device' \in Profiles \cup {NoProfile}
    BY <1>2 DEF IInv, TypeOK
  <2> QED BY <1>3, <2>1, <2>2 DEF TypeOK
<1> QED BY <1>4, <1>5, <1>6, <1>7 DEF IInv

LEMMA NextKeeps ==
    ASSUME IInv, [Next]_vars
    PROVE  IInv'
<1>0. session \in Session /\ session.call.profile \in Profiles
  BY DEF IInv, TypeOK, JobsInStep
<1>1. CASE LinkUp
  BY <1>0, <1>1, LinkIsUpGentle, SimplyGentle DEF LinkUp
<1>2. CASE Verify
  BY <1>0, <1>2, PeerVerifiedGentle, SimplyGentle DEF Verify
<1>3. CASE Pickup
  BY <1>0, <1>3, AnswerCallGentle, SimplyGentle DEF Pickup
<1>4. CASE Hear
  BY <1>4, HearKeeps
<1>5. CASE HearMedia
  <2>1. PICK p \in Profiles : Simply(ReceiveProfileMedia(session, p))
    BY <1>5 DEF HearMedia
  <2> QED BY <1>0, <2>1, ReceiveProfileMediaGentle, SimplyGentle
<1>6. CASE Press
  BY <1>6, PressKeeps
<1>7. CASE Release
  BY <1>0, <1>7, ReleaseTalkGentle, SimplyGentle DEF Release
<1>8. CASE Configured
  BY <1>8, ConfiguredKeeps
<1>9. CASE HangUp
  <2>1. PICK reason \in {"Local", "Remote", "RouteLost"} : Simply(End(session, reason))
    BY <1>9 DEF HangUp
  <2>2. reason \in EndReason
    BY <2>1 DEF EndReason
  <2> QED BY <1>0, <2>1, <2>2, EndGentle, SimplyGentle
<1>10. CASE Poll
  <2> DEFINE r == Tick(session)
  <2>1. Carry(r) /\ polled' = TRUE /\ UNCHANGED <<jobs, device>>
    BY <1>10 DEF Poll
  <2>2. /\ Gentle(session, r) /\ SameAudio(session, r.session)
        /\ r.session.transmitting /\ Alive(session) => r.session.talkLeft > 0
    BY <1>0, TickGentle
  <2> HIDE DEF r
  <2>3. r.session.transmitting => Alive(session)
    BY <2>2 DEF Gentle, GoesOn, IInv, MicFollows, MaySpeak, MediaReady
  <2> QED BY <2>1, <2>2, <2>3, GentleStep
<1>11. CASE ClockTick
  BY <1>11, ClockKeeps
<1>12. CASE UNCHANGED vars
  <2>1. /\ session' = session /\ mic' = mic /\ onAir' = onAir
        /\ jobs' = jobs /\ device' = device /\ polled' = polled
    BY <1>12 DEF vars
  <2> QED BY <2>1 DEF IInv, TypeOK, MicFollows, TalkTimed, JobsInStep, MaySpeak, MediaReady,
                      Alive, InCall, JobFor, Back
<1> QED BY <1>1, <1>2, <1>3, <1>4, <1>5, <1>6, <1>7, <1>8, <1>9, <1>10, <1>11, <1>12
        DEF Next

-----------------------------------------------------------------------------
(* Theorems *)

(* The session's authority over the microphone, the time that is left of a *)
(* transmission and the generations of the worker's jobs together survive  *)
(* every report, signal, press and tick, in any order.                     *)
THEOREM SessionInvariant == Spec => []IInv
<1>1. Init => IInv
  BY InitInvariant
<1>2. IInv /\ [Next]_vars => IInv'
  BY NextKeeps
<1> QED BY <1>1, <1>2, PTL DEF Spec

(* The device captures exactly while the session transmits: in a call that *)
(* is established with a verified peer, a configured device, a profile     *)
(* nobody disputes and the button held; and never longer than the talk     *)
(* limit and the tick it ends in (stop_capture, set_transmitting, tick).   *)
THEOREM MicAuthority == Spec => []MicNeedsAuthority
<1>1. IInv => MicNeedsAuthority
  <2> SUFFICES ASSUME IInv PROVE MicNeedsAuthority
    OBVIOUS
  <2>1. mic <=> session.transmitting
    BY DEF IInv, MicFollows
  <2>2. mic => MediaReady(session) /\ session.config.capture /\ session.inputDown
    BY DEF IInv, MicFollows, MaySpeak
  <2>3. onAir <= TalkLimit
    <3>1. /\ onAir \in Nat /\ session.talkLeft \in Nat /\ TalkLimit \in Nat
      BY SessionAssumption, SessionFields DEF IInv, TypeOK
    <3>2. CASE mic
      BY <3>1, <3>2 DEF IInv, TalkTimed
    <3>3. CASE ~mic
      BY <3>1, <3>3 DEF IInv, TalkTimed
    <3> QED BY <3>2, <3>3
  <2> QED BY <2>1, <2>2, <2>3 DEF MicNeedsAuthority
<1> QED BY <1>1, SessionInvariant, PTL

(* A session that believes its device ready is right, however late the     *)
(* worker reports: the generations tell an old report from the last one,   *)
(* as long as the worker is fewer jobs behind than there are generations   *)
(* (audio_generation, audio_ready).                                        *)
THEOREM DeviceBelieved == Spec => []DeviceAgrees
<1>1. IInv => DeviceAgrees
  BY DEF IInv, JobsInStep, DeviceAgrees, ReadyMeansConfigured
<1> QED BY <1>1, SessionInvariant, PTL

(* Nothing but a press of a button that was up starts the device's         *)
(* capture (set_transmitting).                                             *)
THEOREM PressOpens == Spec => FreshPressOnly
<1> DEFINE Fresh == ~mic /\ mic' => ~session.inputDown
<1>1. ASSUME IInv, [Next]_vars
      PROVE  [Fresh]_vars
  <2>0. session \in Session /\ session.call.profile \in Profiles
    BY <1>1 DEF IInv, TypeOK, JobsInStep
  <2>1. ASSUME NEW r, Carry(r), Gentle(session, r)
        PROVE  Fresh
    BY <2>1 DEF Carry, Gentle
  <2>2. CASE LinkUp
    BY <2>0, <2>1, <2>2, LinkIsUpGentle DEF LinkUp, Simply
  <2>3. CASE Verify
    BY <2>0, <2>1, <2>3, PeerVerifiedGentle DEF Verify, Simply
  <2>4. CASE Pickup
    BY <2>0, <2>1, <2>4, AnswerCallGentle DEF Pickup, Simply
  <2>5. CASE Hear
    <3>1. PICK sig \in Signal : Carry(Receive(session, sig))
      BY <2>5 DEF Hear
    <3> QED BY <2>0, <2>1, <3>1, ReceiveGentle
  <2>6. CASE HearMedia
    <3>1. PICK p \in Profiles : Carry(ReceiveProfileMedia(session, p))
      BY <2>6 DEF HearMedia, Simply
    <3> QED BY <2>0, <2>1, <3>1, ReceiveProfileMediaGentle
  <2>7. CASE Press
    <3>1. Gentle(session, PressTalk(session)) \/ Opens(session, PressTalk(session))
      BY <2>0, PressTalkShape
    <3>2. Carry(PressTalk(session))
      BY <2>7 DEF Press, Simply
    <3> QED BY <2>1, <3>1, <3>2 DEF Opens
  <2>8. CASE Release
    BY <2>0, <2>1, <2>8, ReleaseTalkGentle DEF Release, Simply
  <2>9. CASE Configured
    <3>1. PICK success \in BOOLEAN : Carry(AudioReady(session, Head(jobs).generation, success))
      BY <2>9 DEF Configured
    <3> QED BY <2>0, <2>1, <3>1, AudioReadyGentle
  <2>10. CASE HangUp
    <3>1. PICK reason \in {"Local", "Remote", "RouteLost"} : Carry(End(session, reason))
      BY <2>10 DEF HangUp, Simply
    <3>2. reason \in EndReason
      BY <3>1 DEF EndReason
    <3> QED BY <2>0, <2>1, <3>1, <3>2, EndGentle
  <2>11. CASE Poll
    BY <2>0, <2>1, <2>11, TickGentle DEF Poll
  <2>12. CASE ClockTick
    BY <2>12 DEF ClockTick
  <2>13. CASE UNCHANGED vars
    BY <2>13
  <2> QED BY <1>1, <2>2, <2>3, <2>4, <2>5, <2>6, <2>7, <2>8, <2>9, <2>10, <2>11, <2>12, <2>13
          DEF Next
<1> QED BY <1>1, SessionInvariant, PTL DEF Spec, FreshPressOnly

(* No method of a session whose call names a profile, as every session's   *)
(* does, emits more than the eight events there is room for: the assertion *)
(* in Events::push never fails.                                            *)
THEOREM EventsFit ==
    ASSUME NEW s \in Session, s.call.profile \in Profiles,
           NEW sig \in Signal, NEW p \in Profiles, NEW reason \in EndReason,
           NEW generation \in Nat, NEW success \in BOOLEAN
    PROVE  /\ Len(LinkIsUp(s).events) <= EventCapacity
           /\ Len(PeerVerified(s).events) <= EventCapacity
           /\ Len(AnswerCall(s).events) <= EventCapacity
           /\ Len(Receive(s, sig).events) <= EventCapacity
           /\ Len(ReceiveProfileMedia(s, p).events) <= EventCapacity
           /\ Len(AudioReady(s, generation, success).events) <= EventCapacity
           /\ Len(PressTalk(s).events) <= EventCapacity
           /\ Len(ReleaseTalk(s).events) <= EventCapacity
           /\ Len(Tick(s).events) <= EventCapacity
           /\ Len(End(s, reason).events) <= EventCapacity
<1>1. \A r : Gentle(s, r) \/ Opens(s, r) => Len(r.events) <= EventCapacity
  BY DEF Gentle, Opens
<1>2. Gentle(s, LinkIsUp(s)) /\ Gentle(s, PeerVerified(s)) /\ Gentle(s, AnswerCall(s))
  BY LinkIsUpGentle, PeerVerifiedGentle, AnswerCallGentle
<1>3. Gentle(s, Receive(s, sig)) /\ Gentle(s, ReceiveProfileMedia(s, p))
  BY ReceiveGentle, ReceiveProfileMediaGentle
<1>4. Gentle(s, AudioReady(s, generation, success)) /\ Gentle(s, ReleaseTalk(s))
  BY AudioReadyGentle, ReleaseTalkGentle
<1>5. Gentle(s, PressTalk(s)) \/ Opens(s, PressTalk(s))
  BY PressTalkShape
<1>6. Gentle(s, Tick(s)) /\ Gentle(s, End(s, reason))
  BY TickGentle, EndGentle
<1> QED BY <1>1, <1>2, <1>3, <1>4, <1>5, <1>6

-----------------------------------------------------------------------------
(* What events send *)

(* Induction over the natural numbers, on a set: what it holds for is S. *)
LEMMA Induction ==
    ASSUME NEW S, 0 \in S, \A n \in Nat : n \in S => n + 1 \in S
    PROVE  Nat \subseteq S
<1> DEFINE R == {ss \in Nat \X Nat : ss[1] < ss[2]}
           T == Nat \ S
<1>1. SUFFICES ASSUME T # {} PROVE FALSE
  OBVIOUS
<1>2. OpToRel(<, Nat) = R
  BY DEF OpToRel
<1>3. IsWellFoundedOn(R, Nat)
  BY <1>2, NatLessThanWellFounded, Zenon
<1>4. \E x \in T : \A y \in T : <<y, x>> \notin R
  <2>1. T \in SUBSET Nat
    OBVIOUS
  <2> HIDE DEF R, T
  <2> QED BY <1>1, <1>3, <2>1, WFMin
<1>5. PICK m \in T : \A y \in T : <<y, m>> \notin R
  BY <1>4
<1>6. \A n \in T : <<n, m>> \in R <=> n < m
  OBVIOUS
<1> HIDE DEF R
<1>7. \A n \in T : ~(n < m)
  BY <1>5, <1>6
<1>8. m # 0
  OBVIOUS
<1>9. m - 1 \in Nat /\ m - 1 \notin T
  BY <1>7, <1>8
<1>10. m - 1 + 1 \in S
  BY <1>9
<1> QED BY <1>10

LEMMA SentUpToIs ==
    ASSUME NEW events, Len(events) \in Nat
    PROVE  SentUpTo(events) =
             [i \in 0 .. Len(events) |->
                IF i = 0 THEN <<>>
                ELSE IF events[i].type = "SendSignal"
                THEN Append(SentUpTo(events)[i - 1], events[i].signal)
                ELSE SentUpTo(events)[i - 1]]
<1> DEFINE Grown(ch, e) == IF e.type = "SendSignal" THEN Append(ch, e.signal) ELSE ch
           G(k, g) == g = [i \in 0 .. k |-> IF i = 0 THEN <<>> ELSE Grown(g[i - 1], events[i])]
           S == {k \in Nat : \E g : G(k, g)}
<1>1. 0 \in S
  <2>1. G(0, [i \in 0 .. 0 |-> <<>>])
    OBVIOUS
  <2> QED BY <2>1
<1>2. ASSUME NEW k \in Nat, k \in S PROVE k + 1 \in S
  <2> HIDE DEF Grown
  <2>1. PICK g : G(k, g)
    BY <1>2
  <2> DEFINE h == [i \in 0 .. k + 1 |-> IF i <= k THEN g[i] ELSE Grown(g[k], events[k + 1])]
  <2>2. G(k + 1, h)
    <3>1. \A i \in 0 .. k : g[i] = IF i = 0 THEN <<>> ELSE Grown(g[i - 1], events[i])
      BY <2>1
    <3>2. \A i \in 0 .. k : h[i] = g[i]
      OBVIOUS
    <3>3. h[k + 1] = Grown(g[k], events[k + 1])
      OBVIOUS
    <3>4. ASSUME NEW i \in 0 .. k + 1
          PROVE  h[i] = IF i = 0 THEN <<>> ELSE Grown(h[i - 1], events[i])
      <4>1. CASE i = k + 1
        <5>1. h[k] = g[k]
          BY <3>2
        <5>2. i # 0 /\ i - 1 = k
          BY <4>1
        <5> HIDE DEF h
        <5> QED BY <4>1, <3>3, <5>1, <5>2
      <4>2. CASE i \in 0 .. k
        <5>1. i # 0 => i - 1 \in 0 .. k
          BY <4>2
        <5> HIDE DEF h
        <5> QED BY <4>2, <3>1, <3>2, <5>1
      <4> QED BY <4>1, <4>2
    <3>5. h = [i \in 0 .. k + 1 |-> h[i]]
      OBVIOUS
    <3> HIDE DEF h
    <3> QED BY <3>4, <3>5
  <2>3. k + 1 \in Nat
    OBVIOUS
  <2> HIDE DEF h, G
  <2> QED BY <2>2, <2>3
<1>3. Len(events) \in S
  <2> HIDE DEF S
  <2> QED BY <1>1, <1>2, Induction
<1>4. \E g : G(Len(events), g)
  BY <1>3
<1> QED BY <1>4 DEF SentUpTo

(* What the first events send, event by event. *)
LEMMA SentStep ==
    ASSUME NEW events \in Seq(Event)
    PROVE  /\ SentUpTo(events)[0] = <<>>
           /\ \A i \in 1 .. Len(events) :
                 SentUpTo(events)[i] = IF events[i].type = "SendSignal"
                                       THEN Append(SentUpTo(events)[i - 1], events[i].signal)
                                       ELSE SentUpTo(events)[i - 1]
<1> DEFINE f == SentUpTo(events)
           n == Len(events)
<1>1. n \in Nat
  OBVIOUS
<1>2. f = [i \in 0 .. n |->
             IF i = 0 THEN <<>>
             ELSE IF events[i].type = "SendSignal" THEN Append(f[i - 1], events[i].signal)
             ELSE f[i - 1]]
  BY <1>1, SentUpToIs
<1> HIDE DEF f, n
<1>3. f[0] = <<>>
  BY <1>1, <1>2
<1>4. ASSUME NEW i \in 1 .. n
      PROVE  f[i] = IF events[i].type = "SendSignal" THEN Append(f[i - 1], events[i].signal)
                    ELSE f[i - 1]
  <2>1. i \in 0 .. n /\ i # 0
    BY <1>1
  <2> QED BY <1>2, <2>1
<1> QED BY <1>3, <1>4 DEF f, n

(* The profiles that queued signals offer: none, one, or one after another. *)
NoOffer(ch) == \A k \in DOMAIN ch : ch[k].kind # "profile"

OneOffer(ch, x) ==
    \E i \in DOMAIN ch :
        /\ ch[i] = ProfileSignal(x)
        /\ \A k \in DOMAIN ch : ch[k].kind = "profile" => k = i

TwoOffers(ch, x, y) ==
    \E i, j \in DOMAIN ch :
        /\ i < j /\ ch[i] = ProfileSignal(x) /\ ch[j] = ProfileSignal(y)
        /\ \A k \in DOMAIN ch : ch[k].kind = "profile" => k \in {i, j}

(* The same of events: they send no signal at all, no profile, or one.     *)
IsOffer(e) == e.type = "SendSignal" /\ e.signal.kind = "profile"

Wordless(events) == \A k \in DOMAIN events : events[k].type # "SendSignal"

Plain(events) == \A k \in DOMAIN events : ~IsOffer(events[k])

Offering(events, x) ==
    \E i \in DOMAIN events :
        /\ events[i] = SendSignal(ProfileSignal(x))
        /\ \A k \in DOMAIN events : IsOffer(events[k]) => k = i

LEMMA ProfileSignalIs ==
    ASSUME NEW x \in Profiles
    PROVE  /\ ProfileSignal(x) \in Signal
           /\ ProfileSignal(x).kind = "profile" /\ ProfileSignal(x).profile = x
           /\ SendSignal(ProfileSignal(x)).type = "SendSignal"
           /\ SendSignal(ProfileSignal(x)).signal = ProfileSignal(x)
           /\ IsOffer(SendSignal(ProfileSignal(x)))
BY DEF ProfileSignal, Signal, SendSignal, IsOffer

LEMMA SentTyped ==
    ASSUME NEW e \in Event, e.type = "SendSignal"
    PROVE  e.signal \in Signal
BY DEF Event, Action, DeviceEvents

LEMMA NoOfferMore ==
    ASSUME NEW ch \in Seq(Signal), NEW s \in Signal, NoOffer(ch), s.kind # "profile"
    PROVE  NoOffer(Append(ch, s))
<1>1. /\ DOMAIN ch = 1 .. Len(ch) /\ DOMAIN Append(ch, s) = 1 .. Len(ch) + 1
      /\ \A k \in 1 .. Len(ch) : Append(ch, s)[k] = ch[k]
      /\ Append(ch, s)[Len(ch) + 1] = s /\ Len(ch) \in Nat
  OBVIOUS
<1> DEFINE d == Append(ch, s)
           n == Len(ch)
<1> HIDE DEF d, n
<1> QED BY <1>1 DEF NoOffer, d, n

LEMMA OneOfferMore ==
    ASSUME NEW ch \in Seq(Signal), NEW s \in Signal, NEW x, OneOffer(ch, x), s.kind # "profile"
    PROVE  OneOffer(Append(ch, s), x)
<1>1. /\ DOMAIN ch = 1 .. Len(ch) /\ DOMAIN Append(ch, s) = 1 .. Len(ch) + 1
      /\ \A k \in 1 .. Len(ch) : Append(ch, s)[k] = ch[k]
      /\ Append(ch, s)[Len(ch) + 1] = s /\ Len(ch) \in Nat
  OBVIOUS
<1> DEFINE d == Append(ch, s)
           n == Len(ch)
<1>2. PICK i \in 1 .. n : ch[i] = ProfileSignal(x)
                          /\ \A k \in 1 .. n : ch[k].kind = "profile" => k = i
  BY <1>1 DEF OneOffer
<1> HIDE DEF d, n
<1>3. i \in DOMAIN d /\ d[i] = ProfileSignal(x)
  BY <1>1, <1>2 DEF d, n
<1>4. \A k \in DOMAIN d : d[k].kind = "profile" => k = i
  BY <1>1, <1>2 DEF d, n
<1> QED BY <1>3, <1>4 DEF OneOffer, d

LEMMA OfferMade ==
    ASSUME NEW ch \in Seq(Signal), NEW x \in Profiles, NoOffer(ch)
    PROVE  OneOffer(Append(ch, ProfileSignal(x)), x)
<1> DEFINE s == ProfileSignal(x)
           d == Append(ch, s)
           n == Len(ch)
<1>0. s \in Signal
  BY ProfileSignalIs
<1>1. /\ DOMAIN ch = 1 .. n /\ DOMAIN d = 1 .. n + 1
      /\ \A k \in 1 .. n : d[k] = ch[k]
      /\ d[n + 1] = s /\ n \in Nat
  BY <1>0
<1> HIDE DEF d, n
<1>2. n + 1 \in DOMAIN d
  BY <1>1
<1>3. \A k \in DOMAIN d : d[k].kind = "profile" => k = n + 1
  BY <1>1 DEF NoOffer
<1> QED BY <1>1, <1>2, <1>3 DEF OneOffer, d

(* Signals: they are typed, and offer what the events offer. *)
LEMMA SignalsAre ==
    ASSUME NEW events \in Seq(Event)
    PROVE  /\ Signals(events) \in Seq(Signal)
           /\ Wordless(events) => Signals(events) = <<>>
           /\ Plain(events) => NoOffer(Signals(events))
           /\ \A x \in Profiles : Offering(events, x) => OneOffer(Signals(events), x)
<1> DEFINE f == SentUpTo(events)
           n == Len(events)
<1>1. /\ n \in Nat /\ DOMAIN events = 1 .. n
      /\ \A i \in 1 .. n : events[i] \in Event
  OBVIOUS
<1>2. /\ f[0] = <<>>
      /\ \A i \in 1 .. n : f[i] = IF events[i].type = "SendSignal"
                                  THEN Append(f[i - 1], events[i].signal) ELSE f[i - 1]
  BY SentStep
<1> HIDE DEF f, n
<1>3. \A i \in 1 .. n : events[i].type = "SendSignal" => events[i].signal \in Signal
  BY <1>1, SentTyped
<1>4. f[n] \in Seq(Signal) /\ \A i \in 0 .. n : f[i] \in Seq(Signal)
  <2> DEFINE S == {i \in Nat : i <= n => f[i] \in Seq(Signal)}
  <2>1. 0 \in S
    <3>1. <<>> \in Seq(Signal)
      OBVIOUS
    <3>2. f[0] \in Seq(Signal)
      BY <1>2, <3>1
    <3> QED BY <3>2
  <2>2. ASSUME NEW i \in Nat, i \in S PROVE i + 1 \in S
    <3>1. ASSUME i + 1 <= n PROVE f[i + 1] \in Seq(Signal)
      <4>1. i + 1 \in 1 .. n /\ i + 1 - 1 = i
        BY <1>1, <3>1
      <4>2. f[i] \in Seq(Signal)
        BY <1>1, <2>2, <4>1
      <4>3. f[i + 1] = IF events[i + 1].type = "SendSignal"
                       THEN Append(f[i], events[i + 1].signal) ELSE f[i]
        BY <1>2, <4>1
      <4> QED BY <1>3, <4>1, <4>2, <4>3
    <3> QED BY <3>1
  <2> HIDE DEF S
  <2>3. Nat \subseteq S
    BY <2>1, <2>2, Induction
  <2> USE DEF S
  <2> QED BY <1>1, <2>3
<1>5. ASSUME Wordless(events) PROVE f[n] = <<>>
  <2> DEFINE S == {i \in Nat : i <= n => f[i] = <<>>}
  <2>1. 0 \in S
    BY <1>2
  <2>2. ASSUME NEW i \in Nat, i \in S PROVE i + 1 \in S
    <3>1. ASSUME i + 1 <= n PROVE f[i + 1] = <<>>
      <4>1. i + 1 \in 1 .. n /\ i + 1 - 1 = i
        BY <1>1, <3>1
      <4>2. f[i] = <<>>
        BY <1>1, <2>2, <4>1
      <4> QED BY <1>1, <1>2, <1>5, <4>1, <4>2 DEF Wordless
    <3> QED BY <3>1
  <2> HIDE DEF S
  <2>3. n \in S
    BY <1>1, <2>1, <2>2, Induction
  <2> USE DEF S
  <2> QED BY <1>1, <2>3
<1>6. ASSUME Plain(events) PROVE NoOffer(f[n])
  <2> DEFINE S == {i \in Nat : i <= n => NoOffer(f[i])}
  <2>1. 0 \in S
    BY <1>2 DEF NoOffer
  <2>2. ASSUME NEW i \in Nat, i \in S PROVE i + 1 \in S
    <3>1. ASSUME i + 1 <= n PROVE NoOffer(f[i + 1])
      <4>1. i + 1 \in 1 .. n /\ i + 1 - 1 = i /\ i \in 0 .. n
        BY <1>1, <3>1
      <4>2. NoOffer(f[i]) /\ f[i] \in Seq(Signal)
        BY <1>1, <1>4, <2>2, <4>1
      <4>3. f[i + 1] = IF events[i + 1].type = "SendSignal"
                       THEN Append(f[i], events[i + 1].signal) ELSE f[i]
        BY <1>2, <4>1
      <4>4. ~IsOffer(events[i + 1])
        BY <1>1, <1>6, <4>1 DEF Plain
      <4>5. CASE events[i + 1].type = "SendSignal"
        <5>1. events[i + 1].signal \in Signal /\ events[i + 1].signal.kind # "profile"
          BY <1>3, <4>1, <4>4, <4>5 DEF IsOffer
        <5> QED BY <4>2, <4>3, <4>5, <5>1, NoOfferMore
      <4>6. CASE events[i + 1].type # "SendSignal"
        BY <4>2, <4>3, <4>6
      <4> QED BY <4>5, <4>6
    <3> QED BY <3>1
  <2> HIDE DEF S
  <2>3. n \in S
    BY <1>1, <2>1, <2>2, Induction
  <2> USE DEF S
  <2> QED BY <1>1, <2>3
<1>7. ASSUME NEW x \in Profiles, Offering(events, x) PROVE OneOffer(f[n], x)
  <2>0. PICK j \in 1 .. n : /\ events[j] = SendSignal(ProfileSignal(x))
                            /\ \A k \in 1 .. n : IsOffer(events[k]) => k = j
    BY <1>1, <1>7 DEF Offering
  <2> DEFINE S == {i \in Nat : i <= n => IF i < j THEN NoOffer(f[i]) ELSE OneOffer(f[i], x)}
  <2>1. 0 \in S
    BY <1>2 DEF NoOffer
  <2>2. ASSUME NEW i \in Nat, i \in S PROVE i + 1 \in S
    <3>1. ASSUME i + 1 <= n
          PROVE  IF i + 1 < j THEN NoOffer(f[i + 1]) ELSE OneOffer(f[i + 1], x)
      <4>1. i + 1 \in 1 .. n /\ i + 1 - 1 = i /\ i \in 0 .. n
        BY <1>1, <3>1
      <4>2. f[i] \in Seq(Signal) /\ IF i < j THEN NoOffer(f[i]) ELSE OneOffer(f[i], x)
        BY <1>1, <1>4, <2>2, <4>1
      <4>3. f[i + 1] = IF events[i + 1].type = "SendSignal"
                       THEN Append(f[i], events[i + 1].signal) ELSE f[i]
        BY <1>2, <4>1
      <4>4. CASE i + 1 = j
        <5>1. /\ events[i + 1].type = "SendSignal"
              /\ events[i + 1].signal = ProfileSignal(x)
          BY <2>0, <4>4, ProfileSignalIs
        <5>2. NoOffer(f[i])
          BY <4>2, <4>4
        <5>3. OneOffer(f[i + 1], x)
          BY <4>2, <4>3, <5>1, <5>2, OfferMade
        <5> QED BY <4>4, <5>3
      <4>5. CASE i + 1 # j
        <5>1. ~IsOffer(events[i + 1])
          BY <2>0, <4>1, <4>5
        <5>2. (i < j) <=> (i + 1 < j)
          BY <4>5
        <5>3. CASE events[i + 1].type = "SendSignal"
          <6>1. events[i + 1].signal \in Signal /\ events[i + 1].signal.kind # "profile"
            BY <1>3, <4>1, <5>1, <5>3 DEF IsOffer
          <6>2. i < j => NoOffer(f[i + 1])
            BY <4>2, <4>3, <5>3, <6>1, NoOfferMore
          <6>3. ~(i < j) => OneOffer(f[i + 1], x)
            BY <4>2, <4>3, <5>3, <6>1, OneOfferMore
          <6> QED BY <5>2, <6>2, <6>3
        <5>4. CASE events[i + 1].type # "SendSignal"
          BY <4>2, <4>3, <5>2, <5>4
        <5> QED BY <5>3, <5>4
      <4> QED BY <4>4, <4>5
    <3> QED BY <3>1
  <2> HIDE DEF S
  <2>3. n \in S
    BY <1>1, <2>1, <2>2, Induction
  <2> USE DEF S
  <2>4. n <= n /\ ~(n < j)
    BY <1>1
  <2> QED BY <2>3, <2>4
<1> QED BY <1>4, <1>5, <1>6, <1>7 DEF Signals, f, n
(* The signals of two particular steps, in full. *)
LEMMA SignalsOne ==
    ASSUME NEW s \in Signal
    PROVE  Signals(<<SendSignal(s)>>) = <<s>>
<1> DEFINE e == SendSignal(s)
           events == <<e>>
           f == SentUpTo(events)
<1>1. e \in Event /\ e.type = "SendSignal" /\ e.signal = s
  BY SessionActions DEF SendSignal, Event
<1> HIDE DEF e
<1>2. events \in Seq(Event) /\ Len(events) = 1 /\ events[1] = e
  BY <1>1
<1>3. f[0] = <<>> /\ f[1] = Append(f[0], s)
  <2>1. /\ SentUpTo(events)[0] = <<>>
        /\ SentUpTo(events)[1] = IF events[1].type = "SendSignal"
                                 THEN Append(SentUpTo(events)[1 - 1], events[1].signal)
                                 ELSE SentUpTo(events)[1 - 1]
    <3>1. 1 \in 1 .. Len(events)
      BY <1>2
    <3> HIDE DEF events
    <3> QED BY <1>2, <3>1, SentStep
  <2>2. events[1].type = "SendSignal" /\ events[1].signal = s /\ 1 - 1 = 0
    BY <1>1, <1>2
  <2> HIDE DEF events
  <2> QED BY <2>1, <2>2
<1>4. Signals(events) = f[1]
  BY <1>2 DEF Signals
<1> HIDE DEF events, f
<1>5. Signals(events) = <<s>>
  BY <1>3, <1>4
<1> QED BY <1>5 DEF events, e

LEMMA SignalsSecond ==
    ASSUME NEW events \in Seq(Event), Len(events) = 4, NEW s \in Signal, NEW t \in Signal,
           events[1].type # "SendSignal", events[2] = SendSignal(s),
           events[3].type # "SendSignal", events[4] = SendSignal(t)
    PROVE  Signals(events) # <<>> /\ Head(Signals(events)) = s
<1> DEFINE b == SendSignal(s)
           d == SendSignal(t)
           f == SentUpTo(events)
<1>1. /\ b.type = "SendSignal" /\ b.signal = s
      /\ d.type = "SendSignal" /\ d.signal = t
  BY DEF SendSignal
<1> HIDE DEF b, d
<1>2. events[2] = b /\ events[4] = d
  BY DEF b, d
<1>3. f[0] = <<>> /\ f[1] = f[0] /\ f[2] = Append(f[1], s) /\ f[3] = f[2]
      /\ f[4] = Append(f[3], t)
  <2>1. /\ SentUpTo(events)[0] = <<>>
        /\ \A i \in 1 .. 4 :
              SentUpTo(events)[i] = IF events[i].type = "SendSignal"
                                    THEN Append(SentUpTo(events)[i - 1], events[i].signal)
                                    ELSE SentUpTo(events)[i - 1]
    BY SentStep
  <2> HIDE DEF f
  <2>2. /\ f[0] = <<>>
        /\ \A i \in 1 .. 4 : f[i] = IF events[i].type = "SendSignal"
                                    THEN Append(f[i - 1], events[i].signal) ELSE f[i - 1]
    BY <2>1 DEF f
  <2>3. /\ events[1].type # "SendSignal"
        /\ events[2].type = "SendSignal" /\ events[2].signal = s
        /\ events[3].type # "SendSignal"
        /\ events[4].type = "SendSignal" /\ events[4].signal = t
    BY <1>1, <1>2, Zenon
  <2>4. f[1] = f[0] /\ f[3] = f[2]
    <3>1. f[1] = f[1 - 1] /\ f[3] = f[3 - 1]
      BY <2>2, <2>3
    <3> QED BY <3>1
  <2>5. f[2] = Append(f[1], s) /\ f[4] = Append(f[3], t)
    <3>1. /\ 2 \in 1 .. 4 /\ 4 \in 1 .. 4 /\ 2 - 1 = 1 /\ 4 - 1 = 3
      OBVIOUS
    <3>2. f[2] = Append(f[2 - 1], events[2].signal) /\ f[4] = Append(f[4 - 1], events[4].signal)
      BY <2>2, <2>3, <3>1, Zenon
    <3> QED BY <2>3, <3>1, <3>2, Zenon
  <2> QED BY <2>2, <2>4, <2>5
<1>4. Signals(events) = f[4]
  BY DEF Signals
<1> HIDE DEF f
<1>5. f[2] = <<s>>
  BY <1>3
<1>6. f[4] = Append(<<s>>, t)
  BY <1>3, <1>5, Zenon
<1>7. Append(<<s>>, t) # <<>> /\ Head(Append(<<s>>, t)) = s
  OBVIOUS
<1> QED BY <1>4, <1>6, <1>7, Zenon

-----------------------------------------------------------------------------
(* Queues of signals *)

(* One who offers x, and then y if it offers n = 2 times, has been heard h *)
(* times; the rest is on its way.                                          *)
Carries(ch, x, y, n, h) ==
    \/ h = n /\ NoOffer(ch)
    \/ h = n - 1 /\ OneOffer(ch, IF h = 0 THEN x ELSE y)
    \/ h = 0 /\ n = 2 /\ TwoOffers(ch, x, y)

KnownOffers(ch, known) == \A k \in DOMAIN ch : ch[k].kind = "profile" => ch[k].profile \in known

(* Where the signals of two joined queues are. *)
LEMMA JoinedAt ==
    ASSUME NEW a \in Seq(Signal), NEW b \in Seq(Signal), NEW c, c = a \o b
    PROVE  /\ c \in Seq(Signal)
           /\ DOMAIN a = 1 .. Len(a) /\ DOMAIN b = 1 .. Len(b)
           /\ DOMAIN c = 1 .. Len(a) + Len(b)
           /\ \A k \in 1 .. Len(a) : c[k] = a[k]
           /\ \A k \in 1 .. Len(b) : c[Len(a) + k] = b[k]
           /\ \A k \in 1 .. Len(a) + Len(b) :
                 k \in 1 .. Len(a) \/ (k - Len(a) \in 1 .. Len(b) /\ c[k] = b[k - Len(a)])
           /\ Len(a) \in Nat /\ Len(b) \in Nat
OBVIOUS

LEMMA TailAt ==
    ASSUME NEW a \in Seq(Signal), a # <<>>, NEW t, t = Tail(a)
    PROVE  /\ t \in Seq(Signal) /\ Head(a) \in Signal /\ Head(a) = a[1]
           /\ Len(a) \in Nat /\ Len(a) >= 1
           /\ DOMAIN a = 1 .. Len(a) /\ DOMAIN t = 1 .. Len(a) - 1
           /\ \A k \in 1 .. Len(a) - 1 : t[k] = a[k + 1]
OBVIOUS

LEMMA NoneJoined ==
    ASSUME NEW a \in Seq(Signal), NEW b \in Seq(Signal), NoOffer(b)
    PROVE  /\ NoOffer(a) => NoOffer(a \o b)
           /\ \A x : OneOffer(a, x) => OneOffer(a \o b, x)
           /\ \A x, y : TwoOffers(a, x, y) => TwoOffers(a \o b, x, y)
<1> DEFINE c == a \o b
           m == Len(a)
           n == Len(b)
<1>1. /\ DOMAIN a = 1 .. m /\ DOMAIN b = 1 .. n /\ DOMAIN c = 1 .. m + n
      /\ \A k \in 1 .. m : c[k] = a[k]
      /\ \A k \in 1 .. m + n : k \in 1 .. m \/ (k - m \in 1 .. n /\ c[k] = b[k - m])
      /\ m \in Nat /\ n \in Nat
  BY JoinedAt
<1> HIDE DEF c, m, n
<1>2. \A k \in 1 .. m + n : c[k].kind = "profile" => k \in 1 .. m /\ c[k] = a[k]
  BY <1>1 DEF NoOffer
<1>3. \A k \in 1 .. m : k \in 1 .. m + n
  BY <1>1
<1>4. NoOffer(a) => NoOffer(c)
  BY <1>1, <1>2 DEF NoOffer
<1>5. ASSUME NEW x, OneOffer(a, x) PROVE OneOffer(c, x)
  <2>1. PICK i \in 1 .. m : /\ a[i] = ProfileSignal(x)
                            /\ \A k \in 1 .. m : a[k].kind = "profile" => k = i
    BY <1>1, <1>5 DEF OneOffer
  <2>2. i \in DOMAIN c /\ c[i] = ProfileSignal(x)
    BY <1>1, <1>3, <2>1
  <2>3. \A k \in DOMAIN c : c[k].kind = "profile" => k = i
    BY <1>1, <1>2, <2>1
  <2> QED BY <2>2, <2>3 DEF OneOffer
<1>6. ASSUME NEW x, NEW y, TwoOffers(a, x, y) PROVE TwoOffers(c, x, y)
  <2>1. PICK i, j \in 1 .. m :
           /\ i < j /\ a[i] = ProfileSignal(x) /\ a[j] = ProfileSignal(y)
           /\ \A k \in 1 .. m : a[k].kind = "profile" => k \in {i, j}
    BY <1>1, <1>6 DEF TwoOffers
  <2>2. i \in DOMAIN c /\ c[i] = ProfileSignal(x) /\ j \in DOMAIN c /\ c[j] = ProfileSignal(y)
    BY <1>1, <1>3, <2>1
  <2>3. \A k \in DOMAIN c : c[k].kind = "profile" => k \in {i, j}
    BY <1>1, <1>2, <2>1
  <2> QED BY <2>1, <2>2, <2>3 DEF TwoOffers
<1> QED BY <1>4, <1>5, <1>6 DEF c

LEMMA OneJoined ==
    ASSUME NEW a \in Seq(Signal), NEW b \in Seq(Signal), NEW y \in Profiles, OneOffer(b, y)
    PROVE  /\ NoOffer(a) => OneOffer(a \o b, y)
           /\ \A x \in Profiles : OneOffer(a, x) => TwoOffers(a \o b, x, y)
<1> DEFINE c == a \o b
           m == Len(a)
           n == Len(b)
<1>1. /\ DOMAIN a = 1 .. m /\ DOMAIN b = 1 .. n /\ DOMAIN c = 1 .. m + n
      /\ \A k \in 1 .. m : c[k] = a[k]
      /\ \A k \in 1 .. n : c[m + k] = b[k]
      /\ \A k \in 1 .. m + n : k \in 1 .. m \/ (k - m \in 1 .. n /\ c[k] = b[k - m])
      /\ m \in Nat /\ n \in Nat
  BY JoinedAt
<1> HIDE DEF c, m, n
<1>2. PICK j \in 1 .. n : /\ b[j] = ProfileSignal(y)
                          /\ \A k \in 1 .. n : b[k].kind = "profile" => k = j
  BY <1>1 DEF OneOffer
<1>3. m + j \in 1 .. m + n /\ c[m + j] = ProfileSignal(y)
  BY <1>1, <1>2
<1>4. \A k \in 1 .. m + n : c[k].kind = "profile" =>
         k = m + j \/ (k \in 1 .. m /\ c[k] = a[k])
  <2>1. ASSUME NEW k \in 1 .. m + n, c[k].kind = "profile", k \notin 1 .. m
        PROVE  k = m + j
    <3>1. k - m \in 1 .. n /\ c[k] = b[k - m]
      BY <1>1, <2>1
    <3>2. k - m = j
      BY <1>2, <2>1, <3>1
    <3> QED BY <1>1, <3>2
  <2> QED BY <1>1, <2>1
<1>5. ASSUME NoOffer(a) PROVE OneOffer(c, y)
  <2>1. \A k \in DOMAIN c : c[k].kind = "profile" => k = m + j
    BY <1>1, <1>4, <1>5 DEF NoOffer
  <2> QED BY <1>1, <1>3, <2>1 DEF OneOffer
<1>6. ASSUME NEW x \in Profiles, OneOffer(a, x) PROVE TwoOffers(c, x, y)
  <2>1. PICK i \in 1 .. m : /\ a[i] = ProfileSignal(x)
                            /\ \A k \in 1 .. m : a[k].kind = "profile" => k = i
    BY <1>1, <1>6 DEF OneOffer
  <2>2. i < m + j /\ i \in DOMAIN c /\ c[i] = ProfileSignal(x)
    BY <1>1, <1>2, <2>1
  <2>3. \A k \in DOMAIN c : c[k].kind = "profile" => k \in {i, m + j}
    BY <1>1, <1>4, <2>1
  <2> QED BY <1>1, <1>3, <2>2, <2>3 DEF TwoOffers
<1> QED BY <1>5, <1>6 DEF c

(* An offer at the head, and anything else there. *)
LEMMA HeadOffers ==
    ASSUME NEW a \in Seq(Signal), a # <<>>, NEW x \in Profiles, NEW y \in Profiles,
           Head(a).kind = "profile"
    PROVE  /\ ~NoOffer(a)
           /\ OneOffer(a, x) => Head(a) = ProfileSignal(x) /\ NoOffer(Tail(a))
           /\ TwoOffers(a, x, y) => Head(a) = ProfileSignal(x) /\ OneOffer(Tail(a), y)
<1> DEFINE t == Tail(a)
           n == Len(a)
<1>1. /\ Head(a) = a[1] /\ n \in Nat /\ n >= 1
      /\ DOMAIN a = 1 .. n /\ DOMAIN t = 1 .. n - 1
      /\ \A k \in 1 .. n - 1 : t[k] = a[k + 1]
  BY TailAt
<1> HIDE DEF t, n
<1>2. 1 \in 1 .. n /\ a[1].kind = "profile"
  BY <1>1
<1>3. ~NoOffer(a)
  BY <1>1, <1>2 DEF NoOffer
<1>4. ASSUME OneOffer(a, x) PROVE a[1] = ProfileSignal(x) /\ NoOffer(t)
  <2>1. PICK i \in 1 .. n : /\ a[i] = ProfileSignal(x)
                            /\ \A k \in 1 .. n : a[k].kind = "profile" => k = i
    BY <1>1, <1>4 DEF OneOffer
  <2>2. i = 1
    BY <1>2, <2>1
  <2>3. \A k \in 1 .. n - 1 : k + 1 \in 1 .. n /\ k + 1 # 1
    BY <1>1
  <2>4. \A k \in DOMAIN t : t[k].kind # "profile"
    BY <1>1, <2>1, <2>2, <2>3
  <2> QED BY <2>1, <2>2, <2>4 DEF NoOffer
<1>5. ASSUME TwoOffers(a, x, y) PROVE a[1] = ProfileSignal(x) /\ OneOffer(t, y)
  <2>1. PICK i, j \in 1 .. n :
           /\ i < j /\ a[i] = ProfileSignal(x) /\ a[j] = ProfileSignal(y)
           /\ \A k \in 1 .. n : a[k].kind = "profile" => k \in {i, j}
    BY <1>1, <1>5 DEF TwoOffers
  <2>2. i = 1
    BY <1>1, <1>2, <2>1
  <2>3. j - 1 \in 1 .. n - 1 /\ j - 1 + 1 = j
    BY <1>1, <2>1
  <2>4. t[j - 1] = ProfileSignal(y)
    BY <1>1, <2>1, <2>3
  <2>5. \A k \in 1 .. n - 1 : t[k].kind = "profile" => k = j - 1
    <3> SUFFICES ASSUME NEW k \in 1 .. n - 1, t[k].kind = "profile" PROVE k = j - 1
      OBVIOUS
    <3>1. k + 1 \in 1 .. n /\ k + 1 # 1 /\ a[k + 1].kind = "profile"
      BY <1>1
    <3>2. k + 1 = j
      BY <2>1, <2>2, <3>1
    <3> QED BY <3>2
  <2>6. OneOffer(t, y)
    BY <1>1, <2>3, <2>4, <2>5 DEF OneOffer
  <2> QED BY <2>1, <2>2, <2>6
<1> QED BY <1>1, <1>3, <1>4, <1>5 DEF t

LEMMA HeadPlain ==
    ASSUME NEW a \in Seq(Signal), a # <<>>, Head(a).kind # "profile"
    PROVE  /\ NoOffer(a) => NoOffer(Tail(a))
           /\ \A x \in Profiles : OneOffer(a, x) => OneOffer(Tail(a), x)
           /\ \A x, y \in Profiles : TwoOffers(a, x, y) => TwoOffers(Tail(a), x, y)
<1> DEFINE t == Tail(a)
           n == Len(a)
<1>1. /\ Head(a) = a[1] /\ n \in Nat /\ n >= 1
      /\ DOMAIN a = 1 .. n /\ DOMAIN t = 1 .. n - 1
      /\ \A k \in 1 .. n - 1 : t[k] = a[k + 1]
  BY TailAt
<1> HIDE DEF t, n
<1>2. \A k \in 1 .. n - 1 : k + 1 \in 1 .. n
  BY <1>1
<1>3. \A i \in 1 .. n : a[i].kind = "profile" => i - 1 \in 1 .. n - 1 /\ t[i - 1] = a[i]
  <2> SUFFICES ASSUME NEW i \in 1 .. n, a[i].kind = "profile"
               PROVE  i - 1 \in 1 .. n - 1 /\ t[i - 1] = a[i]
    OBVIOUS
  <2>1. i # 1
    BY <1>1
  <2>2. i - 1 \in 1 .. n - 1 /\ i - 1 + 1 = i
    BY <1>1, <2>1
  <2> QED BY <1>1, <2>2
<1>4. ASSUME NoOffer(a) PROVE NoOffer(t)
  BY <1>1, <1>2, <1>4 DEF NoOffer
<1>5. ASSUME NEW x \in Profiles, OneOffer(a, x) PROVE OneOffer(t, x)
  <2>1. PICK i \in 1 .. n : /\ a[i] = ProfileSignal(x)
                            /\ \A k \in 1 .. n : a[k].kind = "profile" => k = i
    BY <1>1, <1>5 DEF OneOffer
  <2>2. i - 1 \in DOMAIN t /\ t[i - 1] = ProfileSignal(x)
    BY <1>1, <1>3, <2>1, ProfileSignalIs
  <2>3. \A k \in DOMAIN t : t[k].kind = "profile" => k = i - 1
    <3> SUFFICES ASSUME NEW k \in 1 .. n - 1, t[k].kind = "profile" PROVE k = i - 1
      BY <1>1
    <3>1. k + 1 \in 1 .. n /\ a[k + 1].kind = "profile"
      BY <1>1
    <3>2. k + 1 = i
      BY <2>1, <3>1
    <3> QED BY <3>2
  <2> QED BY <2>2, <2>3 DEF OneOffer
<1>6. ASSUME NEW x \in Profiles, NEW y \in Profiles, TwoOffers(a, x, y)
      PROVE  TwoOffers(t, x, y)
  <2>1. PICK i, j \in 1 .. n :
           /\ i < j /\ a[i] = ProfileSignal(x) /\ a[j] = ProfileSignal(y)
           /\ \A k \in 1 .. n : a[k].kind = "profile" => k \in {i, j}
    BY <1>1, <1>6 DEF TwoOffers
  <2>2. /\ i - 1 \in DOMAIN t /\ t[i - 1] = ProfileSignal(x)
        /\ j - 1 \in DOMAIN t /\ t[j - 1] = ProfileSignal(y)
    BY <1>1, <1>3, <2>1, ProfileSignalIs
  <2>3. \A k \in DOMAIN t : t[k].kind = "profile" => k \in {i - 1, j - 1}
    <3> SUFFICES ASSUME NEW k \in 1 .. n - 1, t[k].kind = "profile" PROVE k \in {i - 1, j - 1}
      BY <1>1
    <3>1. k + 1 \in 1 .. n /\ a[k + 1].kind = "profile"
      BY <1>1
    <3>2. k + 1 = i \/ k + 1 = j
      BY <2>1, <3>1
    <3> QED BY <3>2
  <2>4. i - 1 < j - 1
    BY <2>1
  <2> QED BY <2>2, <2>3, <2>4 DEF TwoOffers
<1> QED BY <1>4, <1>5, <1>6 DEF t

LEMMA CarriesMore ==
    ASSUME NEW a \in Seq(Signal), NEW b \in Seq(Signal), NEW x \in Profiles, NEW y \in Profiles,
           NEW n, NEW h, Carries(a, x, y, n, h)
    PROVE  /\ NoOffer(b) => Carries(a \o b, x, y, n, h)
           /\ OneOffer(b, y) /\ n = 1 => Carries(a \o b, x, y, 2, h)
<1> DEFINE c == a \o b
           z == IF h = 0 THEN x ELSE y
<1>0. z \in Profiles
  OBVIOUS
<1>1. ASSUME NoOffer(b) PROVE Carries(c, x, y, n, h)
  <2>1. /\ NoOffer(a) => NoOffer(c)
        /\ OneOffer(a, z) => OneOffer(c, z)
        /\ TwoOffers(a, x, y) => TwoOffers(c, x, y)
    BY <1>1, NoneJoined
  <2> HIDE DEF c
  <2> QED BY <2>1 DEF Carries
<1>2. ASSUME OneOffer(b, y), n = 1 PROVE Carries(c, x, y, 2, h)
  <2>1. /\ NoOffer(a) => OneOffer(c, y)
        /\ OneOffer(a, z) => TwoOffers(c, z, y)
    BY <1>0, <1>2, OneJoined
  <2> HIDE DEF c
  <2>2. CASE h = 1 /\ NoOffer(a)
    BY <2>1, <2>2 DEF Carries
  <2>3. CASE h = 0 /\ OneOffer(a, z)
    BY <2>1, <2>3 DEF Carries
  <2> QED BY <1>2, <2>2, <2>3 DEF Carries
<1> QED BY <1>1, <1>2 DEF c

LEMMA CarriesHeard ==
    ASSUME NEW a \in Seq(Signal), a # <<>>, NEW x \in Profiles, NEW y \in Profiles,
           NEW n \in {1, 2}, NEW h \in 0 .. 2, Carries(a, x, y, n, h)
    PROVE  /\ Head(a).kind = "profile" =>
                 /\ h < n /\ Head(a) = ProfileSignal(IF h = 0 THEN x ELSE y)
                 /\ Carries(Tail(a), x, y, n, h + 1)
           /\ Head(a).kind # "profile" => Carries(Tail(a), x, y, n, h)
<1> DEFINE t == Tail(a)
           z == IF h = 0 THEN x ELSE y
<1>0. z \in Profiles
  OBVIOUS
<1>1. ASSUME Head(a).kind = "profile"
      PROVE  h < n /\ Head(a) = ProfileSignal(z) /\ Carries(t, x, y, n, h + 1)
  <2>1. /\ ~NoOffer(a)
        /\ OneOffer(a, z) => Head(a) = ProfileSignal(z) /\ NoOffer(t)
        /\ TwoOffers(a, x, y) => Head(a) = ProfileSignal(x) /\ OneOffer(t, y)
    BY <1>0, <1>1, HeadOffers
  <2> HIDE DEF t
  <2>2. CASE h = n - 1 /\ OneOffer(a, z)
    BY <2>1, <2>2 DEF Carries
  <2>3. CASE h = 0 /\ n = 2 /\ TwoOffers(a, x, y)
    BY <2>1, <2>3 DEF Carries
  <2> QED BY <2>1, <2>2, <2>3 DEF Carries
<1>2. ASSUME Head(a).kind # "profile" PROVE Carries(t, x, y, n, h)
  <2>1. /\ NoOffer(a) => NoOffer(t)
        /\ OneOffer(a, z) => OneOffer(t, z)
        /\ TwoOffers(a, x, y) => TwoOffers(t, x, y)
    BY <1>0, <1>2, HeadPlain
  <2> HIDE DEF t
  <2> QED BY <2>1 DEF Carries
<1> QED BY <1>1, <1>2 DEF t

LEMMA CarriesNothing ==
    ASSUME NEW x, NEW y, NEW n, NEW h, Carries(<<>>, x, y, n, h)
    PROVE  h = n
BY DEF Carries, OneOffer, TwoOffers

LEMMA KnownMore ==
    ASSUME NEW a \in Seq(Signal), NEW b \in Seq(Signal), NEW known,
           KnownOffers(a, known), KnownOffers(b, known)
    PROVE  KnownOffers(a \o b, known)
<1> DEFINE c == a \o b
           m == Len(a)
           n == Len(b)
<1>1. /\ DOMAIN a = 1 .. m /\ DOMAIN b = 1 .. n /\ DOMAIN c = 1 .. m + n
      /\ \A k \in 1 .. m : c[k] = a[k]
      /\ \A k \in 1 .. m + n : k \in 1 .. m \/ (k - m \in 1 .. n /\ c[k] = b[k - m])
  BY JoinedAt
<1> HIDE DEF c, m, n
<1>2. KnownOffers(c, known)
  BY <1>1 DEF KnownOffers
<1> QED BY <1>2 DEF c

LEMMA KnownTail ==
    ASSUME NEW a \in Seq(Signal), a # <<>>, NEW known, KnownOffers(a, known)
    PROVE  /\ Head(a).kind = "profile" => Head(a).profile \in known
           /\ KnownOffers(Tail(a), known)
<1> DEFINE t == Tail(a)
           n == Len(a)
<1>1. /\ Head(a) = a[1] /\ n \in Nat /\ n >= 1
      /\ DOMAIN a = 1 .. n /\ DOMAIN t = 1 .. n - 1
      /\ \A k \in 1 .. n - 1 : t[k] = a[k + 1]
  BY TailAt
<1> HIDE DEF t, n
<1>2. 1 \in 1 .. n /\ \A k \in 1 .. n - 1 : k + 1 \in 1 .. n
  BY <1>1
<1> QED BY <1>1, <1>2 DEF KnownOffers, t

LEMMA KnownSent ==
    ASSUME NEW ch \in Seq(Signal), NEW known
    PROVE  /\ NoOffer(ch) => KnownOffers(ch, known)
           /\ \A x \in Profiles : OneOffer(ch, x) /\ x \in known => KnownOffers(ch, known)
BY ProfileSignalIs DEF NoOffer, OneOffer, KnownOffers

-----------------------------------------------------------------------------
(* What the session's methods do to its negotiation *)

Unrefused(s) == s.profileLeft = Never /\ s.ended # "ProfileUnsupported"

(* A step that leaves the negotiation where it is. *)
Steady(s, t) ==
    /\ t \in Session
    /\ t.config = s.config /\ t.linked = s.linked /\ t.suggested = s.suggested
    /\ t.call.role = s.call.role /\ t.call.profile = s.call.profile
    /\ Unrefused(s) => Unrefused(t)
    /\ Alive(t) => Alive(s)

(* ... and the call as well, unless it ends. *)
Idle(s, t) ==
    /\ Steady(s, t) /\ t.verified = s.verified
    /\ t.call.status = s.call.status \/ (~Alive(t) /\ t.call.status = Available)

(* It says nothing about profiles; nothing at all where it stays mute. *)
Mute(events) ==
    /\ Wordless(events)
    /\ ~Identifies(events)

Hushed(s, r) ==
    /\ Idle(s, r.session)
    /\ r.events \in Seq(Event) /\ Plain(r.events)
    /\ Alive(r.session) /\ ~CanRetryAnswer(s.call) => Mute(r.events)

LEMMA MutePlain ==
    ASSUME NEW events, Wordless(events)
    PROVE  Plain(events)
BY DEF Wordless, Plain, IsOffer

LEMMA NothingMute == Mute(<<>>) /\ Plain(<<>>) /\ <<>> \in Seq(Event)
BY DEF Mute, Wordless, Plain, Identifies

LEMMA PlainJoined ==
    ASSUME NEW a \in Seq(Event), NEW b \in Seq(Event), Plain(a)
    PROVE  /\ a \o b \in Seq(Event)
           /\ Plain(b) => Plain(a \o b)
           /\ Mute(a) /\ Mute(b) => Mute(a \o b)
           /\ \A x \in Profiles : Offering(b, x) => Offering(a \o b, x)
<1> DEFINE c == a \o b
           m == Len(a)
           n == Len(b)
<1>1. /\ DOMAIN a = 1 .. m /\ DOMAIN b = 1 .. n /\ DOMAIN c = 1 .. m + n
      /\ \A k \in 1 .. m : c[k] = a[k]
      /\ \A k \in 1 .. n : c[m + k] = b[k]
      /\ \A k \in 1 .. m + n : k \in 1 .. m \/ (k - m \in 1 .. n /\ c[k] = b[k - m])
      /\ m \in Nat /\ n \in Nat /\ c \in Seq(Event)
  OBVIOUS
<1> HIDE DEF c, m, n
<1>2. Plain(b) => Plain(c)
  BY <1>1 DEF Plain
<1>3. ASSUME Mute(a), Mute(b) PROVE Mute(c)
  <2>1. ASSUME NEW k \in 1 .. m + n
        PROVE  c[k].type \notin {"SendSignal", "IdentifyLocalIdentity"}
    <3>1. CASE k \in 1 .. m
      BY <1>1, <1>3, <3>1 DEF Mute, Wordless, Identifies
    <3>2. CASE k - m \in 1 .. n /\ c[k] = b[k - m]
      BY <1>1, <1>3, <3>2 DEF Mute, Wordless, Identifies
    <3> QED BY <1>1, <3>1, <3>2
  <2> QED BY <1>1, <2>1 DEF Mute, Wordless, Identifies
<1>4. ASSUME NEW x \in Profiles, Offering(b, x) PROVE Offering(c, x)
  <2>1. PICK j \in 1 .. n : /\ b[j] = SendSignal(ProfileSignal(x))
                            /\ \A k \in 1 .. n : IsOffer(b[k]) => k = j
    BY <1>1, <1>4 DEF Offering
  <2>2. m + j \in 1 .. m + n /\ c[m + j] = SendSignal(ProfileSignal(x))
    BY <1>1, <2>1
  <2>3. ASSUME NEW k \in 1 .. m + n, IsOffer(c[k]) PROVE k = m + j
    <3>1. k \notin 1 .. m
      BY <1>1, <2>3 DEF Plain
    <3>2. k - m \in 1 .. n /\ IsOffer(b[k - m])
      BY <1>1, <2>3, <3>1
    <3>3. k - m = j
      BY <2>1, <3>2
    <3> QED BY <1>1, <3>3
  <2> QED BY <1>1, <2>2, <2>3 DEF Offering
<1> QED BY <1>1, <1>2, <1>3, <1>4 DEF c

(* The other way around: what follows an offer is plain. *)
LEMMA OfferingThen ==
    ASSUME NEW a \in Seq(Event), NEW b \in Seq(Event), NEW x \in Profiles,
           Offering(a, x), Plain(b)
    PROVE  Offering(a \o b, x)
<1> DEFINE c == a \o b
           m == Len(a)
           n == Len(b)
<1>1. /\ DOMAIN a = 1 .. m /\ DOMAIN b = 1 .. n /\ DOMAIN c = 1 .. m + n
      /\ \A k \in 1 .. m : c[k] = a[k]
      /\ \A k \in 1 .. m + n : k \in 1 .. m \/ (k - m \in 1 .. n /\ c[k] = b[k - m])
      /\ m \in Nat /\ n \in Nat
  OBVIOUS
<1> HIDE DEF c, m, n
<1>2. PICK i \in 1 .. m : /\ a[i] = SendSignal(ProfileSignal(x))
                          /\ \A k \in 1 .. m : IsOffer(a[k]) => k = i
  BY <1>1 DEF Offering
<1>3. i \in 1 .. m + n /\ c[i] = SendSignal(ProfileSignal(x))
  BY <1>1, <1>2
<1>4. \A k \in 1 .. m + n : IsOffer(c[k]) => k = i
  BY <1>1, <1>2 DEF Plain
<1>5. Offering(c, x)
  BY <1>1, <1>3, <1>4 DEF Offering
<1> QED BY <1>5 DEF c

(* Single events and the orders to the device. *)
LEMMA OneMute ==
    ASSUME NEW e \in Event, e.type \notin {"SendSignal", "IdentifyLocalIdentity"}
    PROVE  Mute(<<e>>) /\ Plain(<<e>>) /\ <<e>> \in Seq(Event)
<1>1. <<e>> \in Seq(Event) /\ \A i \in DOMAIN <<e>> : <<e>>[i] = e
  OBVIOUS
<1> DEFINE s == <<e>>
<1> HIDE DEF s
<1>2. Mute(s)
  BY <1>1 DEF Mute, Wordless, Identifies, s
<1> QED BY <1>1, <1>2, MutePlain DEF Mute, s

LEMMA DeviceMute ==
    /\ \A s \in Session : /\ Mute(StopOrders(s)) /\ Plain(StopOrders(s))
                          /\ StopOrders(s) \in Seq(Event)
    /\ Mute(<<FlushMedia>>) /\ Plain(<<FlushMedia>>) /\ <<FlushMedia>> \in Seq(Event)
<1>1. Mute(<<FlushMedia>>) /\ Plain(<<FlushMedia>>) /\ <<FlushMedia>> \in Seq(Event)
  <2>1. FlushMedia.type \notin {"SendSignal", "IdentifyLocalIdentity"}
    BY CaptureEvents
  <2> QED BY <2>1, CaptureEvents, OneMute
<1>2. Mute(<<CaptureOff>>) /\ Plain(<<CaptureOff>>) /\ <<CaptureOff>> \in Seq(Event)
  <2>1. CaptureOff.type \notin {"SendSignal", "IdentifyLocalIdentity"}
    BY CaptureEvents
  <2> QED BY <2>1, CaptureEvents, OneMute
<1>3. ASSUME NEW s \in Session
      PROVE  Mute(StopOrders(s)) /\ Plain(StopOrders(s)) /\ StopOrders(s) \in Seq(Event)
  <2>1. StopOrders(s) = <<CaptureOff>> \/ StopOrders(s) = <<>>
    BY DEF StopOrders
  <2> QED BY <1>2, <2>1, NothingMute
<1> QED BY <1>1, <1>3

LEMMA StopFlushMute ==
    ASSUME NEW s \in Session
    PROVE  LET e == StopOrders(s) \o <<FlushMedia>> IN
           Mute(e) /\ Plain(e) /\ e \in Seq(Event)
<1> DEFINE f == <<FlushMedia>>
           g == StopOrders(s)
<1>1. Mute(f) /\ Plain(f) /\ f \in Seq(Event) /\ Mute(g) /\ Plain(g) /\ g \in Seq(Event)
  BY DeviceMute
<1> HIDE DEF f, g
<1>2. Mute(g \o f) /\ Plain(g \o f) /\ g \o f \in Seq(Event)
  BY <1>1, PlainJoined
<1> QED BY <1>2 DEF f, g

(* Silencing the microphone is no matter of the negotiation. *)
LEMMA SilencedAside ==
    ASSUME NEW s \in Session
    PROVE  LET t == Silenced(s) IN
           /\ t \in Session /\ t.config = s.config /\ t.linked = s.linked
           /\ t.verified = s.verified /\ t.suggested = s.suggested /\ t.call = s.call
           /\ t.profileLeft = s.profileLeft /\ t.ended = s.ended
BY SilencedIs DEF Silenced, Session

LEMMA QuietHushed ==
    ASSUME NEW s \in Session, NEW t, Idle(s, t)
    PROVE  Hushed(s, Quiet(t)) /\ Quiet(t).session = t /\ Quiet(t).events = <<>>
<1>1. Quiet(t).session = t /\ Quiet(t).events = <<>>
  BY DEF Quiet, Emit
<1> QED BY <1>1, NothingMute DEF Hushed

LEMMA IdleSelf ==
    ASSUME NEW s \in Session
    PROVE  Idle(s, s)
BY DEF Idle, Steady

LEMMA HangupAside ==
    ASSUME NEW c \in Call, NEW timeout \in BOOLEAN
    PROVE  LET h == Hangup(c, timeout) IN
           /\ h.call \in Call /\ h.call.profile = c.profile /\ h.call.role = c.role
           /\ h.call.status = Available
           /\ h.actions \in Seq(Event) /\ Plain(h.actions)
<1> DEFINE h == Hangup(c, timeout)
           no == SendStatus(Rejected)
           down == Do("TeardownLink")
           one == <<down>>
           two == <<no, down>>
<1>1. /\ h.call \in Call /\ h.call.profile = c.profile /\ h.actions \in Seq(Action)
  BY HangupIs
<1>2. h.call = [At(c, Available) EXCEPT !.answered = FALSE]
  BY DEF Hangup, Result
<1>3. At(c, Available) \in Call /\ At(c, Available).status = Available
      /\ At(c, Available).role = c.role
  BY AtTyped, StatusValues DEF SameButStatus
<1>4. h.call.role = c.role /\ h.call.status = Available
  BY <1>2, <1>3 DEF Call
<1>5. h.actions = one \/ h.actions = two
  BY DEF Hangup, Result
<1>6. ~IsOffer(no) /\ ~IsOffer(down)
  BY DEF IsOffer, SendStatus, SendSignal, StatusSignal, Do
<1> HIDE DEF no, down, h
<1>7. Plain(one) /\ Plain(two)
  BY <1>6 DEF Plain
<1>8. h.actions \in Seq(Event)
  BY <1>1 DEF Event
<1> QED BY <1>1, <1>4, <1>5, <1>7, <1>8 DEF h

LEMMA EndIs ==
    ASSUME NEW s \in Session, Alive(s), NEW reason \in EndReason
    PROVE  LET r == End(s, reason) IN
           /\ r.session \in Session /\ r.session.config = s.config
           /\ r.session.linked = s.linked /\ r.session.verified = s.verified
           /\ r.session.suggested = s.suggested
           /\ r.session.profileLeft = s.profileLeft
           /\ r.session.call.role = s.call.role /\ r.session.call.profile = s.call.profile
           /\ r.session.call.status = Available
           /\ r.session.ended = reason /\ ~Alive(r.session)
           /\ r.events \in Seq(Event) /\ Plain(r.events)
<1> DEFINE timeout == reason = "Timeout"
           h == Hangup(s.call, timeout)
           u == Silenced(s)
           t == [u EXCEPT !.call = h.call, !.ready = FALSE, !.ended = reason]
           a == StopOrders(s) \o <<FlushMedia>>
           b == <<HasEnded(reason)>>
           e == a \o h.actions \o b
<1>1. End(s, reason) = Emit(t, e)
  BY DEF End
<1>2. /\ h.call \in Call /\ h.call.profile = s.call.profile /\ h.call.role = s.call.role
      /\ h.call.status = Available
      /\ h.actions \in Seq(Event) /\ Plain(h.actions)
  <2>1. s.call \in Call /\ timeout \in BOOLEAN
    BY SessionFields
  <2> HIDE DEF timeout
  <2> QED BY <2>1, HangupAside
<1>3. /\ u \in Session /\ u.config = s.config /\ u.linked = s.linked
      /\ u.verified = s.verified /\ u.suggested = s.suggested
      /\ u.profileLeft = s.profileLeft
  BY SilencedAside
<1>4. Plain(a) /\ a \in Seq(Event)
  BY StopFlushMute
<1>5. Plain(b) /\ b \in Seq(Event)
  <2>1. /\ HasEnded(reason) \in Event
        /\ HasEnded(reason).type \notin {"SendSignal", "IdentifyLocalIdentity"}
    BY DEF HasEnded, Event
  <2> QED BY <2>1, OneMute
<1> HIDE DEF a, b, h, u
<1>6. Plain(a \o h.actions) /\ a \o h.actions \in Seq(Event)
  BY <1>2, <1>4, PlainJoined
<1> DEFINE d == a \o h.actions
<1>7. Plain(d \o b) /\ d \o b \in Seq(Event)
  <2> HIDE DEF d
  <2> QED BY <1>5, <1>6, PlainJoined DEF d
<1>8. /\ t \in Session /\ t.call = h.call /\ t.ended = reason
      /\ t.config = u.config /\ t.linked = u.linked /\ t.verified = u.verified
      /\ t.suggested = u.suggested /\ t.profileLeft = u.profileLeft
  BY <1>2, <1>3 DEF Session
<1>9. ~Alive(t)
  BY <1>8, SessionAssumption DEF Alive, EndReason
<1> HIDE DEF e, t
<1>10. End(s, reason).session = t /\ End(s, reason).events = e
  BY <1>1 DEF Emit
<1>11. e = d \o b
  BY DEF e
<1> HIDE DEF d
<1>12. Plain(e) /\ e \in Seq(Event)
  BY <1>7, <1>11
<1> QED BY <1>2, <1>3, <1>8, <1>9, <1>10, <1>12

LEMMA EndHushed ==
    ASSUME NEW s \in Session, NEW reason \in EndReason,
           reason # "ProfileUnsupported" \/ ~Unrefused(s)
    PROVE  Hushed(s, End(s, reason))
<1>1. CASE ~Alive(s)
  <2>1. End(s, reason) = Quiet(s)
    BY <1>1 DEF End
  <2> QED BY <2>1, IdleSelf, QuietHushed
<1>2. CASE Alive(s)
  <2> DEFINE r == End(s, reason)
  <2>1. /\ r.session \in Session /\ r.session.config = s.config
        /\ r.session.linked = s.linked /\ r.session.verified = s.verified
        /\ r.session.suggested = s.suggested
        /\ r.session.profileLeft = s.profileLeft
        /\ r.session.call.role = s.call.role /\ r.session.call.profile = s.call.profile
        /\ r.session.call.status = Available
        /\ r.session.ended = reason /\ ~Alive(r.session)
        /\ r.events \in Seq(Event) /\ Plain(r.events)
    BY <1>2, EndIs
  <2> HIDE DEF r
  <2>2. Hushed(s, r)
    BY <2>1 DEF Hushed, Idle, Steady, Unrefused
  <2> QED BY <2>2 DEF r
<1> QED BY <1>1, <1>2

LEMMA ReceiveProfileMediaHushed ==
    ASSUME NEW s \in Session, NEW p
    PROVE  Hushed(s, ReceiveProfileMedia(s, p))
<1> DEFINE t == [s EXCEPT !.profileLeft = Never]
<1>1. ReceiveProfileMedia(s, p) = Quiet(t) \/ ReceiveProfileMedia(s, p) = Quiet(s)
  BY DEF ReceiveProfileMedia
<1>2. Idle(s, t)
  BY DEF Session, Idle, Steady, Unrefused, Alive
<1> HIDE DEF t
<1> QED BY <1>1, <1>2, IdleSelf, QuietHushed

LEMMA AudioReadyHushed ==
    ASSUME NEW s \in Session, NEW generation
    PROVE  Hushed(s, AudioReady(s, generation, TRUE))
<1> DEFINE t == [s EXCEPT !.ready = TRUE]
<1>1. AudioReady(s, generation, TRUE) \in {Quiet(t), Quiet(s)}
  BY DEF AudioReady
<1>2. Idle(s, t)
  BY DEF Session, Idle, Steady, Unrefused, Alive
<1> HIDE DEF t
<1> QED BY <1>1, <1>2, IdleSelf, QuietHushed

LEMMA ElapsedIdle ==
    ASSUME NEW s \in Session
    PROVE  Idle(s, Elapsed(s))
<1>1. CASE ~Alive(s)
  BY <1>1, IdleSelf DEF Elapsed
<1>2. CASE Alive(s)
  <2> DEFINE t == [s EXCEPT !.deadline = Less(@), !.profileLeft = Less(@), !.retryLeft = Less(@),
                            !.talkLeft = Less(@)]
  <2>1. Elapsed(s) = t
    BY <1>2 DEF Elapsed
  <2>2. t \in Session
    BY <2>1, ElapsedIs
  <2>3. /\ t.config = s.config /\ t.call = s.call /\ t.linked = s.linked
        /\ t.verified = s.verified /\ t.suggested = s.suggested /\ t.ended = s.ended
        /\ t.profileLeft = Less(s.profileLeft)
    BY DEF Session
  <2>4. Less(Never) = Never
    BY DEF Less, Never
  <2> HIDE DEF t
  <2> QED BY <2>1, <2>2, <2>3, <2>4 DEF Idle, Steady, Unrefused, Alive
<1> QED BY <1>1, <1>2

LEMMA LimitTalkHushed ==
    ASSUME NEW s \in Session
    PROVE  LET r == LimitTalk(s) IN
           /\ r.session \in Session /\ r.session.config = s.config /\ r.session.linked = s.linked
           /\ r.session.verified = s.verified /\ r.session.suggested = s.suggested
           /\ r.session.call = s.call
           /\ r.session.profileLeft = s.profileLeft /\ r.session.ended = s.ended
           /\ Mute(r.events) /\ Plain(r.events) /\ r.events \in Seq(Event)
<1> DEFINE r == LimitTalk(s)
           e == StopOrders(s) \o <<FlushMedia>>
           t == Silenced(s)
<1>1. r = Emit(t, e) \/ r = Quiet(s)
  BY DEF LimitTalk
<1>2. Mute(e) /\ Plain(e) /\ e \in Seq(Event)
  BY StopFlushMute
<1>3. /\ t \in Session /\ t.config = s.config /\ t.linked = s.linked
      /\ t.verified = s.verified /\ t.suggested = s.suggested /\ t.call = s.call
      /\ t.profileLeft = s.profileLeft /\ t.ended = s.ended
  BY SilencedAside
<1> HIDE DEF e, t, r
<1>4. (r.session = t /\ r.events = e) \/ (r.session = s /\ r.events = <<>>)
  BY <1>1 DEF Quiet, Emit
<1>5. CASE r.session = t /\ r.events = e
  BY <1>2, <1>3, <1>5 DEF r
<1>6. CASE r.session = s /\ r.events = <<>>
  BY <1>6, NothingMute DEF r
<1> QED BY <1>4, <1>5, <1>6

LEMMA RetryOfferHushed ==
    ASSUME NEW s \in Session
    PROVE  LET r == RetryOffer(s) IN
           /\ r.session \in Session /\ r.session.config = s.config /\ r.session.linked = s.linked
           /\ r.session.verified = s.verified /\ r.session.suggested = s.suggested
           /\ r.session.call = s.call
           /\ r.session.profileLeft = s.profileLeft /\ r.session.ended = s.ended
           /\ Plain(r.events) /\ r.events \in Seq(Event)
           /\ ~CanRetryAnswer(s.call) => Mute(r.events)
<1> DEFINE r == RetryOffer(s)
           e == RetryAnswer(s.call)
           t == [s EXCEPT !.retries = @ + 1, !.retryLeft = RetryTime]
<1>1. (CanRetryAnswer(s.call) /\ r = Emit(t, e)) \/ r = Quiet(s)
  BY DEF RetryOffer, RetryDue
<1>2. CASE CanRetryAnswer(s.call) /\ r = Emit(t, e)
  <2>1. Plain(e) /\ e \in Seq(Event)
    <3> DEFINE x == SendStatus(Connecting)
               y == SendStatus(Established)
    <3>1. e = <<x, y>>
      BY <1>2 DEF RetryAnswer
    <3>2. ~IsOffer(x) /\ ~IsOffer(y)
      BY DEF IsOffer, SendStatus, SendSignal, StatusSignal
    <3>3. x \in Event /\ y \in Event
      BY SessionActions, StatusValues DEF Event
    <3> HIDE DEF x, y
    <3> QED BY <3>1, <3>2, <3>3 DEF Plain
  <2>2. r.session \in Session /\ r.session = t
    <3>1. r.session \in Session
      BY RetryOfferShape
    <3> QED BY <1>2, <3>1 DEF Emit
  <2>3. /\ t.config = s.config /\ t.linked = s.linked
        /\ t.verified = s.verified /\ t.suggested = s.suggested /\ t.call = s.call
        /\ t.profileLeft = s.profileLeft /\ t.ended = s.ended
    BY DEF Session
  <2>4. r.events = e
    BY <1>2 DEF Emit
  <2> HIDE DEF e, t
  <2> QED BY <1>2, <2>1, <2>2, <2>3, <2>4
<1>3. CASE r = Quiet(s)
  <2>1. r.session = s /\ r.events = <<>>
    BY <1>3 DEF Quiet, Emit
  <2> QED BY <2>1, NothingMute
<1> QED BY <1>1, <1>2, <1>3

LEMMA TickHushed ==
    ASSUME NEW s \in Session
    PROVE  Hushed(s, Tick(s))
<1>1. CASE ~Alive(s)
  BY <1>1, IdleSelf, QuietHushed DEF Tick
<1>2. CASE Alive(s) /\ s.profileLeft = 0
  <2>1. Tick(s) = End(s, "ProfileUnsupported") /\ "ProfileUnsupported" \in EndReason
    BY <1>2 DEF Tick, EndReason
  <2>2. ~Unrefused(s)
    BY <1>2 DEF Unrefused, Never
  <2> QED BY <2>1, <2>2, EndHushed
<1>3. CASE Alive(s) /\ s.profileLeft # 0 /\ ~InCall(s) /\ s.deadline = 0
  <2>1. Tick(s) = End(s, "Timeout") /\ "Timeout" \in EndReason
    BY <1>3 DEF Tick, EndReason
  <2> QED BY <2>1, EndHushed
<1>4. CASE Alive(s) /\ s.profileLeft # 0 /\ ~(~InCall(s) /\ s.deadline = 0)
  <2> DEFINE l == LimitTalk(s)
             r == RetryOffer(l.session)
             e == l.events \o r.events
  <2>1. Tick(s) = Emit(r.session, e)
    BY <1>4 DEF Tick
  <2>2. /\ l.session \in Session /\ l.session.config = s.config /\ l.session.linked = s.linked
        /\ l.session.verified = s.verified /\ l.session.suggested = s.suggested
        /\ l.session.call = s.call
        /\ l.session.profileLeft = s.profileLeft /\ l.session.ended = s.ended
        /\ Mute(l.events) /\ Plain(l.events) /\ l.events \in Seq(Event)
    BY LimitTalkHushed
  <2> HIDE DEF l
  <2>3. /\ r.session \in Session /\ r.session.config = l.session.config
        /\ r.session.linked = l.session.linked
        /\ r.session.verified = l.session.verified /\ r.session.suggested = l.session.suggested
        /\ r.session.call = l.session.call
        /\ r.session.profileLeft = l.session.profileLeft /\ r.session.ended = l.session.ended
        /\ Plain(r.events) /\ r.events \in Seq(Event)
        /\ ~CanRetryAnswer(l.session.call) => Mute(r.events)
    BY <2>2, RetryOfferHushed
  <2> HIDE DEF r
  <2>4. Plain(e) /\ e \in Seq(Event) /\ (~CanRetryAnswer(s.call) => Mute(e))
    BY <2>2, <2>3, PlainJoined
  <2> HIDE DEF e
  <2>5. Idle(s, r.session)
    BY <2>2, <2>3 DEF Idle, Steady, Unrefused, Alive
  <2>6. Emit(r.session, e).session = r.session /\ Emit(r.session, e).events = e
    BY AsksIs
  <2> QED BY <2>1, <2>4, <2>5, <2>6 DEF Hushed
<1> QED BY <1>1, <1>2, <1>3, <1>4

-----------------------------------------------------------------------------
(* What the shared transitions say to the other side *)

LEMMA NotOffers ==
    /\ \A t : t # "SendSignal" => ~IsOffer(Do(t))
    /\ \A st : ~IsOffer(SendStatus(st)) /\ ~IsOffer(Terminate(st))
    /\ \A sig : ~IsOffer(IgnoreSignal(sig))
    /\ \A p : ~IsOffer(SelectProfile(p)) /\ ~IsOffer(SwitchProfile(p))
<1>1. ASSUME NEW t, t # "SendSignal" PROVE ~IsOffer(Do(t))
  <2>1. Do(t).type = t
    BY DEF Do
  <2> QED BY <1>1, <2>1, Zenon DEF IsOffer
<1>2. ASSUME NEW st PROVE ~IsOffer(SendStatus(st)) /\ ~IsOffer(Terminate(st))
  BY DEF IsOffer, SendStatus, SendSignal, StatusSignal, Terminate
<1>3. ASSUME NEW sig PROVE ~IsOffer(IgnoreSignal(sig))
  BY DEF IsOffer, IgnoreSignal
<1>4. ASSUME NEW p PROVE ~IsOffer(SelectProfile(p)) /\ ~IsOffer(SwitchProfile(p))
  BY DEF IsOffer, SelectProfile, SwitchProfile
<1> QED BY <1>1, <1>2, <1>3, <1>4

LEMMA PlainTuples ==
    ASSUME NEW a, NEW b, NEW c, NEW d, ~IsOffer(a), ~IsOffer(b), ~IsOffer(c), ~IsOffer(d)
    PROVE  /\ Plain(<<>>) /\ Plain(<<a>>) /\ Plain(<<a, b>>) /\ Plain(<<a, b, c>>)
           /\ Plain(<<a, b, c, d>>)
BY DEF Plain

LEMMA OutcomeTyped ==
    ASSUME NEW c \in Call, NEW sig \in Signal
    PROVE  /\ ReceiveSignal(c, sig).call \in Call
           /\ ReceiveSignal(c, sig).call.role = c.role
           /\ ReceiveSignal(c, sig).call.status >= c.status
           /\ ReceiveSignal(c, sig).actions \in Seq(Event)
<1> DEFINE o == ReceiveSignal(c, sig)
<1>1. CASE EndsCall(c, sig)
  <2> DEFINE x == Terminate(sig.status)
  <2>1. o = Result(c, <<x>>)
    BY <1>1 DEF EndsCall, ReceiveSignal, ReceiveStatus
  <2>2. x \in Event
    BY <1>1, SignalCases DEF EndsCall, Terminate, Event, Action
  <2> HIDE DEF x
  <2>3. <<x>> \in Seq(Event)
    BY <2>2
  <2>4. c.status >= c.status
    BY StatusValues DEF Call
  <2> QED BY <2>1, <2>3, <2>4 DEF Result
<1>2. CASE ~EndsCall(c, sig)
  <2>1. Forward(c, o)
    BY <1>2, ReceiveSignalForward
  <2> HIDE DEF o
  <2>2. o.actions \in Seq(CallAction)
    BY <2>1 DEF Forward, Fits
  <2>3. o.actions \in Seq(Event)
    BY <2>2 DEF CallAction, Event
  <2> QED BY <2>1, <2>3 DEF Forward, o
<1> QED BY <1>1, <1>2

(* No status but the first RINGING makes a call name its profile. *)
LEMMA SignalCalm ==
    ASSUME NEW c \in Call, NEW sig \in Signal, sig.kind # "profile",
           sig.kind = "status" /\ sig.status = Ringing => c.status >= Ringing
    PROVE  /\ ReceiveSignal(c, sig).call.profile = c.profile
           /\ Plain(ReceiveSignal(c, sig).actions)
<1> DEFINE Fine(o) == o.call.profile = c.profile /\ Plain(o.actions)
<1>1. \A st \in AutoStatus : At(c, st).profile = c.profile
  BY DEF At, Call
<1>2. Fine(Ignore(c, sig))
  BY NotOffers, PlainTuples DEF Ignore, Result
<1>3. Fine(ReceiveAvailable(c, sig))
  <2>1. Fine(Result(At(c, Available), <<Do("IdentifyLocalIdentity")>>))
    <3> DEFINE a == Do("IdentifyLocalIdentity")
               d == At(c, Available)
    <3>1. ~IsOffer(a) /\ d.profile = c.profile
      BY <1>1, NotOffers, StatusValues
    <3> HIDE DEF a, d
    <3>2. Plain(<<a>>)
      BY <3>1, PlainTuples
    <3> QED BY <3>1, <3>2 DEF Result, a, d
  <2> HIDE DEF Fine
  <2> QED BY <1>2, <2>1 DEF ReceiveAvailable
<1>4. Fine(ReceiveConnecting(c, sig))
  <2> DEFINE a == Do("ResetDialingPipelines")
             b == Do("OpenAudioPipelines")
             e == SendStatus(Established)
  <2>1. ~IsOffer(a) /\ ~IsOffer(b) /\ ~IsOffer(e)
    BY NotOffers
  <2>2. \/ ReceiveConnecting(c, sig) = Result(c, <<e>>)
        \/ ReceiveConnecting(c, sig) = Ignore(c, sig)
        \/ ReceiveConnecting(c, sig) = Result(At(c, Connecting), <<a, b, e>>)
        \/ ReceiveConnecting(c, sig) = Result(At(c, Connecting), <<a, b>>)
    BY DEF ReceiveConnecting
  <2> HIDE DEF a, b, e
  <2>3. Plain(<<e>>) /\ Plain(<<a, b, e>>) /\ Plain(<<a, b>>)
    BY <2>1, PlainTuples
  <2>4. At(c, Connecting).profile = c.profile
    BY <1>1, StatusValues
  <2>5. /\ Fine(Result(c, <<e>>)) /\ Fine(Result(At(c, Connecting), <<a, b, e>>))
        /\ Fine(Result(At(c, Connecting), <<a, b>>))
    BY <2>3, <2>4 DEF Result
  <2> HIDE DEF Fine
  <2> QED BY <1>2, <2>2, <2>5
<1>5. Fine(ReceiveEstablished(c, sig))
  <2>1. Fine(Result(At(c, Established), <<Do("StartAudioPipelines")>>))
    <3> DEFINE a == Do("StartAudioPipelines")
               d == At(c, Established)
    <3>1. ~IsOffer(a) /\ d.profile = c.profile
      BY <1>1, NotOffers, StatusValues
    <3> HIDE DEF a, d
    <3>2. Plain(<<a>>)
      BY <3>1, PlainTuples
    <3> QED BY <3>1, <3>2 DEF Result, a, d
  <2> HIDE DEF Fine
  <2> QED BY <1>2, <2>1 DEF ReceiveEstablished
<1>6. Fine(Result(c, <<Terminate(sig.status)>>))
  BY NotOffers, PlainTuples DEF Result
<1>7. sig.kind = "status" /\ sig.status = Ringing => Fine(ReceiveRinging(c, sig))
  <2>1. sig.kind = "status" /\ sig.status = Ringing => ReceiveRinging(c, sig) = Ignore(c, sig)
    BY DEF ReceiveRinging
  <2> HIDE DEF Fine
  <2> QED BY <1>2, <2>1
<1>8. Fine(ReceiveSignal(c, sig))
  <2> HIDE DEF Fine
  <2>1. CASE sig.kind = "raw"
    BY <1>2, <2>1 DEF ReceiveSignal
  <2>2. CASE sig.kind = "status"
    BY <1>2, <1>3, <1>4, <1>5, <1>6, <1>7, <2>2 DEF ReceiveSignal, ReceiveStatus
  <2> QED BY <2>1, <2>2, SignalCases
<1> QED BY <1>8

(* The first AVAILABLE and the first RINGING a caller hears. *)
LEMMA AvailableHeard ==
    ASSUME NEW c \in Call, c.role = "Outgoing", c.status = Calling
    PROVE  LET o == ReceiveSignal(c, StatusSignal(Available)) IN
           /\ o.call.profile = c.profile /\ o.call.status = Available
           /\ Wordless(o.actions) /\ Identifies(o.actions)
<1> DEFINE sig == StatusSignal(Available)
           o == ReceiveSignal(c, sig)
           a == Do("IdentifyLocalIdentity")
<1>1. sig.kind = "status" /\ sig.status = Available
  BY DEF StatusSignal
<1>2. o = Result(At(c, Available), <<a>>)
  BY <1>1, StatusValues DEF ReceiveSignal, DeafToStatus, ReceiveStatus, ReceiveAvailable
<1>3. At(c, Available).profile = c.profile /\ At(c, Available).status = Available
  BY DEF At, Call
<1>4. a.type = "IdentifyLocalIdentity"
  BY DEF Do
<1> HIDE DEF a
<1>5. Wordless(<<a>>) /\ Identifies(<<a>>)
  <2> DEFINE t == <<a>>
  <2>1. DOMAIN t = {1} /\ t[1] = a
    OBVIOUS
  <2> HIDE DEF t
  <2> QED BY <1>4, <2>1 DEF Wordless, Identifies, t
<1> HIDE DEF sig, o
<1>6. o.call = At(c, Available) /\ o.actions = <<a>>
  BY <1>2 DEF Result
<1> QED BY <1>3, <1>5, <1>6 DEF sig, o

LEMMA RingingHeard ==
    ASSUME NEW c \in Call, c.role = "Outgoing", c.status = Available
    PROVE  LET o == ReceiveSignal(c, StatusSignal(Ringing)) IN
           /\ o.call.profile = EnsuredProfile(c) /\ o.call.status = Ringing
           /\ Offering(o.actions, EnsuredProfile(c))
<1> DEFINE sig == StatusSignal(Ringing)
           o == ReceiveSignal(c, sig)
           p == EnsuredProfile(c)
           d == At(Using(c, p), Ringing)
           x == SelectProfile(p)
           y == Do("PrepareDialingPipelines")
           z == SendSignal(ProfileSignal(p))
           w == Do("StartDialTone")
<1>1. sig.kind = "status" /\ sig.status = Ringing
  BY DEF StatusSignal
<1>2. o = Result(d, <<x, y, z, w>>)
  BY <1>1, StatusValues DEF ReceiveSignal, DeafToStatus, ReceiveStatus, ReceiveRinging
<1>3. p \in Profiles
  BY EnsuredIsProfile
<1>4. d.profile = p /\ d.status = Ringing
  <2>1. Using(c, p) \in Call /\ Using(c, p).profile = p
    BY <1>3, UsingTyped DEF Using, Call
  <2> DEFINE u == Using(c, p)
  <2> HIDE DEF u
  <2>2. At(u, Ringing).profile = u.profile /\ At(u, Ringing).status = Ringing
    BY <2>1 DEF At, Call, u
  <2> QED BY <2>1, <2>2 DEF u
<1>5. ~IsOffer(x) /\ ~IsOffer(y) /\ ~IsOffer(w)
  BY NotOffers
<1> HIDE DEF sig, o, d, x, y, z, w, p
<1>6. Offering(<<x, y, z, w>>, p)
  <2> DEFINE t == <<x, y, z, w>>
  <2>1. DOMAIN t = 1 .. 4 /\ t[1] = x /\ t[2] = y /\ t[3] = z /\ t[4] = w
    OBVIOUS
  <2> HIDE DEF t
  <2>2. 3 \in DOMAIN t /\ t[3] = SendSignal(ProfileSignal(p))
    BY <2>1 DEF z
  <2>3. \A k \in DOMAIN t : IsOffer(t[k]) => k = 3
    BY <1>5, <2>1
  <2> QED BY <2>2, <2>3 DEF Offering, t
<1>7. o.call = d /\ o.actions = <<x, y, z, w>>
  BY <1>2 DEF Result
<1> QED BY <1>4, <1>6, <1>7 DEF sig, o, p

LEMMA ProfileHeard ==
    ASSUME NEW c \in Call, NEW p \in Profiles
    PROVE  LET o == ReceiveSignal(c, ProfileSignal(p)) IN
           /\ o.call.profile = p /\ o.call.status = c.status
           /\ Wordless(o.actions)
<1> DEFINE sig == ProfileSignal(p)
           o == ReceiveSignal(c, sig)
           a == SwitchProfile(p)
           b == SelectProfile(p)
<1>1. sig.kind = "profile" /\ sig.profile = p
  BY DEF ProfileSignal
<1>2. o = ReceiveProfile(c, p)
  BY <1>1 DEF ReceiveSignal
<1>3. \/ c.profile = p /\ o = Result(c, <<>>)
      \/ o = Result(Using(c, p), <<a>>)
      \/ o = Result(Using(c, p), <<b>>)
  BY <1>2 DEF ReceiveProfile
<1>4. Using(c, p).profile = p /\ Using(c, p).status = c.status
  BY DEF Using, Call
<1>5. a.type # "SendSignal" /\ b.type # "SendSignal"
  BY DEF SwitchProfile, SelectProfile
<1> HIDE DEF a, b, sig, o
<1>6. Wordless(<<>>) /\ Wordless(<<a>>) /\ Wordless(<<b>>)
  BY <1>5 DEF Wordless
<1>7. \/ c.profile = p /\ o.call = c /\ o.actions = <<>>
      \/ o.call = Using(c, p) /\ o.actions = <<a>>
      \/ o.call = Using(c, p) /\ o.actions = <<b>>
  BY <1>3 DEF Result
<1>8. o.call.profile = p /\ o.call.status = c.status
  BY <1>4, <1>7
<1>9. Wordless(o.actions)
  BY <1>6, <1>7
<1> QED BY <1>8, <1>9 DEF sig, o

-----------------------------------------------------------------------------
(* receive_signal of a session, and how a call comes up *)

LEMMA ForwardedAside ==
    ASSUME NEW s \in Session, NEW sig \in Signal
    PROVE  LET r == Forwarded(s, sig)
               o == ReceiveSignal(s.call, sig) IN
           /\ r.session \in Session /\ r.session.config = s.config
           /\ r.session.linked = s.linked
           /\ r.session.verified = s.verified /\ r.session.suggested = s.suggested
           /\ r.session.call = o.call
           /\ r.session.profileLeft = s.profileLeft /\ r.session.ended = s.ended
           /\ r.events = o.actions
<1> DEFINE o == ReceiveSignal(s.call, sig)
           t == [s EXCEPT !.call = o.call]
<1>1. Forwarded(s, sig) = Emit(t, o.actions)
  BY DEF Forwarded
<1>2. o.call \in Call
  BY SessionFields, OutcomeTyped
<1> HIDE DEF o
<1>3. /\ t \in Session /\ t.config = s.config /\ t.linked = s.linked
      /\ t.verified = s.verified /\ t.suggested = s.suggested /\ t.call = o.call
      /\ t.profileLeft = s.profileLeft /\ t.ended = s.ended
  BY <1>2 DEF Session
<1> HIDE DEF t
<1>4. Emit(t, o.actions).session = t /\ Emit(t, o.actions).events = o.actions
  BY AsksIs
<1> QED BY <1>1, <1>3, <1>4 DEF o

(* A believed status takes the session's call further, under a deadline.   *)
LEMMA BelievedIs ==
    ASSUME NEW s \in Session, NEW sig \in Signal, sig.kind = "status",
           sig.status \notin {Busy, Rejected, Calling}, Believes(s, sig.status)
    PROVE  LET r == HearStatus(s, sig)
               o == ReceiveSignal(s.call, sig) IN
           /\ r.session \in Session /\ r.session.config = s.config
           /\ r.session.linked = s.linked
           /\ r.session.verified = s.verified /\ r.session.suggested = s.suggested
           /\ r.session.call = o.call
           /\ r.session.profileLeft = s.profileLeft /\ r.session.ended = s.ended
           /\ r.events = o.actions
<1> DEFINE t == [s EXCEPT !.deadline = DeadlineAfter(s, sig.status)]
           r == Forwarded(t, sig)
<1>1. HearStatus(s, sig) = r
  BY DEF HearStatus
<1>2. DeadlineAfter(s, sig.status) \in Nat
  BY SessionAssumption, SessionFields DEF DeadlineAfter
<1>3. /\ t \in Session /\ t.config = s.config /\ t.linked = s.linked
      /\ t.verified = s.verified /\ t.suggested = s.suggested /\ t.call = s.call
      /\ t.profileLeft = s.profileLeft /\ t.ended = s.ended
  BY <1>2 DEF Session
<1> HIDE DEF t
<1>4. /\ r.session \in Session /\ r.session.config = t.config
      /\ r.session.linked = t.linked
      /\ r.session.verified = t.verified /\ r.session.suggested = t.suggested
      /\ r.session.call = ReceiveSignal(t.call, sig).call
      /\ r.session.profileLeft = t.profileLeft /\ r.session.ended = t.ended
      /\ r.events = ReceiveSignal(t.call, sig).actions
  BY <1>3, ForwardedAside
<1> HIDE DEF r
<1> QED BY <1>1, <1>3, <1>4

(* A signal without a profile, once past the first RINGING. *)
Calmly(s, r) ==
    /\ Steady(s, r.session) /\ r.session.verified = s.verified
    /\ Alive(r.session) => r.session.call.status >= s.call.status
    /\ r.events \in Seq(Event) /\ Plain(r.events)

LEMMA HushedCalmly ==
    ASSUME NEW s \in Session, NEW r, Hushed(s, r)
    PROVE  Calmly(s, r)
<1>1. s.call.status >= s.call.status
  <2>1. s.call.status \in 2 .. 6
    BY StatusValues, SessionFields DEF Call
  <2> QED BY <2>1
<1> QED BY <1>1 DEF Hushed, Idle, Calmly

LEMMA ReceiveCalmly ==
    ASSUME NEW s \in Session, NEW sig \in Signal, sig.kind # "profile",
           sig.kind = "status" /\ sig.status = Ringing =>
             s.call.role = "Incoming" \/ s.call.status >= Ringing
    PROVE  Calmly(s, Receive(s, sig))
<1> DEFINE Took(r) ==
      LET o == ReceiveSignal(s.call, sig) IN
      /\ r.session \in Session /\ r.session.config = s.config
      /\ r.session.linked = s.linked
      /\ r.session.verified = s.verified /\ r.session.suggested = s.suggested
      /\ r.session.call = o.call
      /\ r.session.profileLeft = s.profileLeft /\ r.session.ended = s.ended
      /\ r.events = o.actions
<1>1. s.call \in Call
  BY SessionFields
<1>2. Hushed(s, Quiet(s))
  BY IdleSelf, QuietHushed
<1>3. ASSUME NEW r, Took(r), sig.kind = "status" /\ sig.status = Ringing => s.call.status >= Ringing
      PROVE  Calmly(s, r)
  <2> DEFINE o == ReceiveSignal(s.call, sig)
  <2>1. /\ o.call.role = s.call.role /\ o.call.status >= s.call.status
        /\ o.actions \in Seq(Event)
    BY <1>1, OutcomeTyped
  <2>2. o.call.profile = s.call.profile /\ Plain(o.actions)
    BY <1>1, <1>3, SignalCalm
  <2> HIDE DEF o
  <2>3. /\ r.session \in Session /\ r.session.config = s.config
        /\ r.session.linked = s.linked
        /\ r.session.verified = s.verified /\ r.session.suggested = s.suggested
        /\ r.session.call = o.call
        /\ r.session.profileLeft = s.profileLeft /\ r.session.ended = s.ended
        /\ r.events = o.actions
    BY <1>3 DEF o
  <2> QED BY <2>1, <2>2, <2>3 DEF Calmly, Steady, Unrefused, Alive
<1> HIDE DEF Took
<1>4. CASE ~Alive(s) \/ ~s.linked \/ ~s.verified
  BY <1>2, <1>4, HushedCalmly DEF Receive
<1>5. CASE ~(~Alive(s) \/ ~s.linked \/ ~s.verified) /\ sig.kind = "raw"
  <2>1. Receive(s, sig) = Forwarded(s, sig)
    BY <1>5 DEF Receive
  <2>2. Took(Forwarded(s, sig))
    BY ForwardedAside DEF Took
  <2>3. sig.kind # "status"
    BY <1>5
  <2> QED BY <1>3, <2>1, <2>2, <2>3
<1>6. CASE ~(~Alive(s) \/ ~s.linked \/ ~s.verified) /\ sig.kind = "status"
  <2>1. Receive(s, sig) = HearStatus(s, sig)
    BY <1>6 DEF Receive
  <2>2. CASE sig.status \in {Busy, Rejected}
    <3>1. HearStatus(s, sig) = End(s, "Busy") \/ HearStatus(s, sig) = End(s, "Rejected")
      BY <2>2 DEF HearStatus
    <3>2. Hushed(s, End(s, "Busy")) /\ Hushed(s, End(s, "Rejected"))
      BY EndHushed DEF EndReason
    <3> QED BY <2>1, <3>1, <3>2, HushedCalmly
  <2>3. CASE /\ sig.status \notin {Busy, Rejected}
             /\ sig.status = Calling \/ ~Believes(s, sig.status)
    BY <1>2, <2>1, <2>3, HushedCalmly DEF HearStatus
  <2>4. CASE sig.status \notin {Busy, Rejected, Calling} /\ Believes(s, sig.status)
    <3>1. Took(HearStatus(s, sig))
      BY <1>6, <2>4, BelievedIs DEF Took
    <3>2. sig.status = Ringing => s.call.status >= Ringing
      BY <1>6, <2>4, StatusValues DEF Believes, Incoming
    <3> QED BY <1>3, <2>1, <3>1, <3>2
  <2> QED BY <2>2, <2>3, <2>4
<1> QED BY <1>4, <1>5, <1>6, SignalCases

(* A session that calls hears AVAILABLE and RINGING for the first time.    *)
Calls(s) ==
    /\ s \in Session /\ Alive(s) /\ s.linked /\ s.verified
    /\ s.call.role = "Outgoing" /\ s.call.profile \in Profiles

Climbs(s, r, status) ==
    /\ Steady(s, r.session) /\ r.session.verified
    /\ r.session.call.status = status
    /\ r.events \in Seq(Event)

LEMMA ReceiveAvailableFirst ==
    ASSUME NEW s, Calls(s), s.call.status = Calling
    PROVE  LET r == Receive(s, StatusSignal(Available)) IN
           Climbs(s, r, Available) /\ Wordless(r.events) /\ Identifies(r.events)
<1> DEFINE sig == StatusSignal(Available)
           r == HearStatus(s, sig)
           o == ReceiveSignal(s.call, sig)
<1>1. sig.kind = "status" /\ sig.status = Available /\ sig \in Signal
  BY StatusValues DEF StatusSignal, Signal
<1>2. Receive(s, sig) = r
  BY <1>1 DEF Receive, Calls
<1>3. sig.status \notin {Busy, Rejected, Calling} /\ Believes(s, sig.status)
  BY <1>1, StatusValues DEF Calls, Believes, Incoming
<1>4. s \in Session /\ s.call \in Call
  BY SessionFields DEF Calls
<1>5. /\ o.call.profile = s.call.profile /\ o.call.status = Available
      /\ Wordless(o.actions) /\ Identifies(o.actions)
  BY <1>4, AvailableHeard DEF Calls
<1>6. o.call.role = s.call.role /\ o.actions \in Seq(Event)
  BY <1>1, <1>4, OutcomeTyped
<1>7. /\ r.session \in Session /\ r.session.config = s.config
      /\ r.session.linked = s.linked
      /\ r.session.verified = s.verified /\ r.session.suggested = s.suggested
      /\ r.session.call = o.call
      /\ r.session.profileLeft = s.profileLeft /\ r.session.ended = s.ended
      /\ r.events = o.actions
  BY <1>1, <1>3, <1>4, BelievedIs
<1> HIDE DEF r, o, sig
<1>8. Climbs(s, r, Available) /\ Wordless(r.events) /\ Identifies(r.events)
  BY <1>5, <1>6, <1>7 DEF Climbs, Steady, Unrefused, Alive, Calls
<1> QED BY <1>2, <1>8 DEF sig

LEMMA ReceiveRingingFirst ==
    ASSUME NEW s, Calls(s), s.call.status = Available
    PROVE  LET r == Receive(s, StatusSignal(Ringing)) IN
           Climbs(s, r, Ringing) /\ Offering(r.events, s.call.profile)
<1> DEFINE sig == StatusSignal(Ringing)
           r == HearStatus(s, sig)
           o == ReceiveSignal(s.call, sig)
<1>1. sig.kind = "status" /\ sig.status = Ringing /\ sig \in Signal
  BY StatusValues DEF StatusSignal, Signal
<1>2. Receive(s, sig) = r
  BY <1>1 DEF Receive, Calls
<1>3. sig.status \notin {Busy, Rejected, Calling} /\ Believes(s, sig.status)
  BY <1>1, StatusValues DEF Calls, Believes, Incoming
<1>4. s \in Session /\ s.call \in Call
  BY SessionFields DEF Calls
<1>5. /\ o.call.profile = s.call.profile /\ o.call.status = Ringing
      /\ Offering(o.actions, s.call.profile)
  <2>1. EnsuredProfile(s.call) = s.call.profile
    BY ProfileAssumption DEF EnsuredProfile, Calls
  <2>2. /\ o.call.profile = EnsuredProfile(s.call) /\ o.call.status = Ringing
        /\ Offering(o.actions, EnsuredProfile(s.call))
    BY <1>4, RingingHeard DEF Calls
  <2> HIDE DEF o
  <2> QED BY <2>1, <2>2
<1>6. o.call.role = s.call.role /\ o.actions \in Seq(Event)
  BY <1>1, <1>4, OutcomeTyped
<1>7. /\ r.session \in Session /\ r.session.config = s.config
      /\ r.session.linked = s.linked
      /\ r.session.verified = s.verified /\ r.session.suggested = s.suggested
      /\ r.session.call = o.call
      /\ r.session.profileLeft = s.profileLeft /\ r.session.ended = s.ended
      /\ r.events = o.actions
  BY <1>1, <1>3, <1>4, BelievedIs
<1> HIDE DEF r, o, sig
<1>8. Climbs(s, r, Ringing) /\ Offering(r.events, s.call.profile)
  BY <1>5, <1>6, <1>7 DEF Climbs, Steady, Unrefused, Alive, Calls
<1> QED BY <1>2, <1>8 DEF sig

(* A session hears an offer. *)
LEMMA ReceiveAdopts ==
    ASSUME NEW s \in Session, Alive(s), s.linked, s.verified, s.call.profile \in Profiles,
           NEW p \in s.config.allowed, p \in Profiles
    PROVE  LET r == Receive(s, ProfileSignal(p)) IN
           /\ r.session \in Session /\ r.session.config = s.config
           /\ r.session.linked = s.linked
           /\ r.session.verified = s.verified /\ r.session.suggested = s.suggested
           /\ r.session.call.role = s.call.role /\ r.session.call.status = s.call.status
           /\ r.session.call.profile = p
           /\ r.session.profileLeft = Never /\ r.session.ended = s.ended
           /\ r.events \in Seq(Event)
           /\ s.call.profile = p \/ s.call.role = "Outgoing" => Plain(r.events)
           /\ s.call.profile # p /\ s.call.role = "Incoming" => Offering(r.events, p)
<1> DEFINE sig == ProfileSignal(p)
           r == Receive(s, sig)
<1>1. sig.kind = "profile" /\ sig.profile = p /\ sig \in Signal
  BY ProfileSignalIs
<1>2. r = AdoptProfile(s, sig)
  BY <1>1 DEF Receive
<1>3. CASE s.call.profile = p
  <2> DEFINE t == [s EXCEPT !.profileLeft = Never]
  <2>1. r = Quiet(t)
    BY <1>1, <1>2, <1>3 DEF AdoptProfile
  <2>2. /\ t \in Session /\ t.config = s.config /\ t.linked = s.linked
        /\ t.verified = s.verified /\ t.suggested = s.suggested /\ t.call = s.call
        /\ t.profileLeft = Never /\ t.ended = s.ended
    BY DEF Session
  <2> HIDE DEF r, t
  <2>3. r.session = t /\ r.events = <<>>
    BY <2>1 DEF Quiet, Emit
  <2> QED BY <1>3, <2>2, <2>3, NothingMute DEF r
<1>4. CASE s.call.profile # p
  <2> DEFINE u == Reconfigured(s)
             f == Forwarded(u, sig)
             o == ReceiveSignal(u.call, sig)
             a == StopOrders(s) \o <<FlushMedia>>
             x == SendSignal(sig)
             b == IF Incoming(s) THEN <<x>> ELSE <<>>
             e == a \o b \o f.events
  <2>1. r = Emit(f.session, e)
    BY <1>1, <1>2, <1>4 DEF AdoptProfile
  <2>2. /\ u \in Session /\ u.config = s.config /\ u.linked = s.linked
        /\ u.verified = s.verified /\ u.suggested = s.suggested /\ u.call = s.call
        /\ u.profileLeft = Never /\ u.ended = s.ended
    <3> DEFINE v == Silenced(s)
    <3>1. /\ v \in Session /\ v.config = s.config /\ v.linked = s.linked
          /\ v.verified = s.verified /\ v.suggested = s.suggested /\ v.call = s.call
          /\ v.ended = s.ended
      BY SilencedAside
    <3>2. u \in Session
      BY ReconfiguredIs
    <3>3. u = [v EXCEPT !.ready = FALSE, !.generation = (v.generation + 1) % Generations,
                        !.profileLeft = Never]
      <4>1. v.generation = s.generation
        BY SilencedIs
      <4> QED BY <4>1 DEF Reconfigured
    <3> HIDE DEF v, u
    <3> QED BY <3>1, <3>2, <3>3 DEF Session
  <2> HIDE DEF u
  <2>3. /\ f.session \in Session /\ f.session.config = u.config
        /\ f.session.linked = u.linked
        /\ f.session.verified = u.verified /\ f.session.suggested = u.suggested
        /\ f.session.call = o.call
        /\ f.session.profileLeft = u.profileLeft /\ f.session.ended = u.ended
        /\ f.events = o.actions
    BY <1>1, <2>2, ForwardedAside
  <2>4. /\ o.call.profile = p /\ o.call.status = s.call.status /\ Wordless(o.actions)
        /\ o.call.role = s.call.role /\ o.actions \in Seq(Event)
    <3>1. s.call \in Call
      BY SessionFields
    <3> QED BY <1>1, <2>2, <3>1, ProfileHeard, OutcomeTyped
  <2>5. Plain(o.actions)
    BY <2>4, MutePlain
  <2>6. Plain(a) /\ a \in Seq(Event)
    BY StopFlushMute
  <2>7. /\ b \in Seq(Event)
        /\ ~Incoming(s) => Plain(b)
        /\ Incoming(s) => Offering(b, p)
    <3>1. x \in Event /\ IsOffer(x)
      BY <1>1, ProfileSignalIs, SessionActions DEF Event
    <3>2. CASE Incoming(s)
      <4>1. b = <<x>>
        BY <3>2
      <4> HIDE DEF b
      <4>2. DOMAIN b = {1} /\ b[1] = x /\ b \in Seq(Event)
        BY <3>1, <4>1
      <4> QED BY <3>2, <4>2 DEF Offering
    <3>3. CASE ~Incoming(s)
      BY <3>3, NothingMute
    <3> QED BY <3>2, <3>3
  <2> HIDE DEF a, b, f, o, x, sig
  <2>8. /\ a \o b \in Seq(Event)
        /\ ~Incoming(s) => Plain(a \o b)
        /\ Incoming(s) => Offering(a \o b, p)
    BY <2>6, <2>7, PlainJoined
  <2> DEFINE d == a \o b
  <2>9. e = d \o f.events
    OBVIOUS
  <2> HIDE DEF d, e
  <2>10. /\ d \o o.actions \in Seq(Event)
         /\ ~Incoming(s) => Plain(d \o o.actions)
         /\ Incoming(s) => Offering(d \o o.actions, p)
    <3>1. d \in Seq(Event) /\ (~Incoming(s) => Plain(d)) /\ (Incoming(s) => Offering(d, p))
      BY <2>8 DEF d
    <3>2. CASE ~Incoming(s)
      BY <2>4, <2>5, <3>1, <3>2, PlainJoined
    <3>3. CASE Incoming(s)
      <4>1. Offering(d \o o.actions, p)
        BY <2>4, <2>5, <3>1, <3>3, OfferingThen
      <4>2. d \o o.actions \in Seq(Event)
        BY <2>4, <3>1
      <4> QED BY <3>3, <4>1, <4>2
    <3> QED BY <3>2, <3>3
  <2>11. e = d \o o.actions
    BY <2>3, <2>9
  <2>12. r.session = f.session /\ r.events = e
    BY <2>1 DEF Emit
  <2> HIDE DEF r
  <2> QED BY <1>4, <2>2, <2>3, <2>4, <2>10, <2>11, <2>12 DEF Incoming, r, sig
<1> QED BY <1>3, <1>4

LEMMA ReceiveRefuses ==
    ASSUME NEW s \in Session, Alive(s), s.linked, s.verified, s.call.profile \in Profiles,
           NEW p \in Profiles, p \notin s.config.allowed
    PROVE  LET r == Receive(s, ProfileSignal(p)) IN
           /\ r.session \in Session /\ r.session.config = s.config
           /\ r.session.linked = s.linked /\ r.session.verified = s.verified
           /\ r.session.call.role = s.call.role /\ r.session.call.profile = s.call.profile
           /\ r.events \in Seq(Event)
           /\ s.suggested => /\ ~Alive(r.session) /\ r.session.call.status = Available
                             /\ Plain(r.events)
           /\ ~s.suggested => /\ r.session.suggested
                              /\ r.session.call.status = s.call.status
                              /\ Offering(r.events, s.call.profile)
<1> DEFINE sig == ProfileSignal(p)
           r == Receive(s, sig)
<1>1. sig.kind = "profile" /\ sig.profile = p /\ sig \in Signal
  BY ProfileSignalIs
<1>2. r = RefuseProfile(s)
  BY <1>1 DEF Receive
<1>3. CASE s.suggested
  <2>1. r = End(s, "ProfileUnsupported") /\ "ProfileUnsupported" \in EndReason
    BY <1>2, <1>3 DEF RefuseProfile, EndReason
  <2> DEFINE q == End(s, "ProfileUnsupported")
  <2>2. /\ q.session \in Session /\ q.session.config = s.config
        /\ q.session.linked = s.linked /\ q.session.verified = s.verified
        /\ q.session.call.role = s.call.role /\ q.session.call.profile = s.call.profile
        /\ q.session.call.status = Available
        /\ ~Alive(q.session) /\ q.events \in Seq(Event) /\ Plain(q.events)
    BY <2>1, EndIs
  <2> HIDE DEF q, r
  <2>3. r = q
    BY <2>1 DEF q
  <2> QED BY <1>3, <2>2, <2>3 DEF r
<1>4. CASE ~s.suggested
  <2> DEFINE u == Silenced(s)
             t == [u EXCEPT !.suggested = TRUE, !.profileLeft = ProfileTime]
             x == SendSignal(CounterOffer(s))
             f == <<FlushMedia, x>>
             e == StopOrders(s) \o f
  <2>1. r = Emit(t, e)
    BY <1>2, <1>4 DEF RefuseProfile
  <2>2. /\ u \in Session /\ u.config = s.config /\ u.linked = s.linked
        /\ u.verified = s.verified /\ u.call = s.call /\ u.ended = s.ended
    BY SilencedAside
  <2> HIDE DEF u
  <2>3. /\ t \in Session /\ t.config = u.config /\ t.linked = u.linked
        /\ t.verified = u.verified /\ t.call = u.call /\ t.ended = u.ended /\ t.suggested
    BY <2>2, SessionAssumption DEF Session
  <2>4. x = SendSignal(ProfileSignal(s.call.profile))
    BY ProfileAssumption DEF CounterOffer
  <2>5. x \in Event /\ IsOffer(x)
    BY <2>4, ProfileSignalIs, SessionActions DEF Event
  <2>6. f \in Seq(Event) /\ Offering(f, s.call.profile)
    <3>1. FlushMedia \in Event /\ ~IsOffer(FlushMedia)
      BY CaptureEvents DEF IsOffer
    <3> HIDE DEF x
    <3>2. f \in Seq(Event) /\ DOMAIN f = 1 .. 2 /\ f[1] = FlushMedia /\ f[2] = x
      BY <2>5, <3>1
    <3> HIDE DEF f
    <3>3. 2 \in DOMAIN f /\ \A k \in DOMAIN f : IsOffer(f[k]) => k = 2
      BY <3>1, <3>2
    <3> QED BY <2>4, <3>2, <3>3 DEF Offering
  <2>7. Plain(StopOrders(s)) /\ StopOrders(s) \in Seq(Event)
    BY DeviceMute
  <2> HIDE DEF f, t, x
  <2>8. e \in Seq(Event) /\ Offering(e, s.call.profile)
    BY <2>6, <2>7, PlainJoined
  <2> HIDE DEF e, r
  <2>9. r.session = t /\ r.events = e
    BY <2>1 DEF Emit
  <2> QED BY <1>4, <2>2, <2>3, <2>8, <2>9 DEF r
<1> QED BY <1>3, <1>4

(* The user answers, and the owner verifies the caller. *)
LEMMA AnswerCalmly ==
    ASSUME NEW s \in Session, s.call.profile \in Profiles
    PROVE  /\ ~s.verified => AnswerCall(s) = Quiet(s)
           /\ LET r == AnswerCall(s) IN
              /\ Steady(s, r.session) /\ r.session.verified = s.verified
              /\ r.events \in Seq(Event) /\ Plain(r.events)
<1>1. ~s.verified => AnswerCall(s) = Quiet(s)
  BY DEF AnswerCall
<1>2. CASE ~Alive(s) \/ ~s.verified \/ ~CanAnswer(s.call)
  <2>1. AnswerCall(s) = Quiet(s)
    BY <1>2 DEF AnswerCall
  <2>2. Hushed(s, Quiet(s))
    BY IdleSelf, QuietHushed
  <2> QED BY <1>1, <2>1, <2>2 DEF Hushed, Idle
<1>3. CASE ~(~Alive(s) \/ ~s.verified \/ ~CanAnswer(s.call))
  <2> DEFINE a == Answer(s.call)
             t == [s EXCEPT !.call = a.call, !.deadline = AnswerTime, !.retryLeft = RetryTime]
             r == AnswerCall(s)
  <2>1. r = Emit(t, a.actions)
    BY <1>3 DEF AnswerCall
  <2>2. r.session \in Session /\ r.session.call.profile = s.call.profile /\ r.events \in Seq(Event)
    BY AnswerCallGentle DEF Gentle, SameAudio
  <2>3. a.call.role = s.call.role
    <3> DEFINE p == EnsuredProfile(s.call)
    <3>1. p \in Profiles /\ s.call \in Call
      BY SessionFields, EnsuredIsProfile
    <3>2. a.call = Answered(At(Using(s.call, p), Connecting))
      BY <1>3 DEF Answer, Result
    <3> HIDE DEF p
    <3>3. Using(s.call, p) \in Call /\ Using(s.call, p).role = s.call.role
      BY <3>1, UsingTyped DEF SameButStatus
    <3>4. /\ At(Using(s.call, p), Connecting) \in Call
          /\ At(Using(s.call, p), Connecting).role = s.call.role
      BY <3>3, AtTyped, StatusValues DEF SameButStatus
    <3> DEFINE c == At(Using(s.call, p), Connecting)
    <3> HIDE DEF c
    <3>5. Answered(c).role = c.role
      BY <3>4 DEF Answered, Call, c
    <3> QED BY <3>2, <3>4, <3>5 DEF c
  <2>4. Plain(a.actions)
    <3> DEFINE x == SelectProfile(EnsuredProfile(s.call))
               y == SendStatus(Connecting)
               z == Do("OpenAudioPipelines")
               w == SendStatus(Established)
    <3>1. a.actions = <<x, y, z, w>>
      BY <1>3 DEF Answer, Result
    <3>2. ~IsOffer(x) /\ ~IsOffer(y) /\ ~IsOffer(z) /\ ~IsOffer(w)
      BY NotOffers
    <3> HIDE DEF x, y, z, w, a
    <3> QED BY <3>1, <3>2, PlainTuples
  <2> HIDE DEF a
  <2>5. /\ t.config = s.config /\ t.linked = s.linked /\ t.verified = s.verified
        /\ t.suggested = s.suggested /\ t.profileLeft = s.profileLeft /\ t.ended = s.ended
        /\ t.call = a.call
    BY DEF Session
  <2> HIDE DEF t
  <2>6. r.session = t /\ r.events = a.actions
    BY <2>1 DEF Emit
  <2> HIDE DEF r
  <2>7. Steady(s, r.session) /\ r.session.verified = s.verified
        /\ r.events \in Seq(Event) /\ Plain(r.events)
    BY <2>2, <2>3, <2>4, <2>5, <2>6 DEF Steady, Unrefused, Alive
  <2> QED BY <1>1, <2>7 DEF r
<1> QED BY <1>2, <1>3

LEMMA VerifiedRings ==
    ASSUME NEW s \in Session, Alive(s), s.linked, ~s.verified, s.call.role = "Incoming"
    PROVE  LET r == PeerVerified(s) IN
           /\ Steady(s, r.session) /\ r.session.verified
           /\ r.session.ended = s.ended
           /\ r.events \in Seq(Event) /\ Offering(r.events, s.config.preferred)
           /\ Signals(r.events) # <<>> /\ Head(Signals(r.events)) = StatusSignal(Ringing)
<1> DEFINE c == At(s.call, Ringing)
           p == s.config.preferred
           x == Do("ResetDialingPipelines")
           y == SendStatus(Ringing)
           z == Do("RingIncomingCall")
           w == SendSignal(ProfileSignal(p))
           t == [s EXCEPT !.verified = TRUE, !.call = c, !.deadline = RingTime]
           e == Append(<<x, y, z>>, w)
           r == PeerVerified(s)
<1>1. r = Emit(t, e)
  BY DEF PeerVerified, CallerIdentified, Result, Incoming
<1>2. c \in Call /\ c.profile = s.call.profile /\ c.role = s.call.role
  <2>1. s.call \in Call
    BY SessionFields
  <2>2. c \in Call /\ c.role = s.call.role
    BY <2>1, AtTyped, StatusValues DEF SameButStatus
  <2>3. c.profile = s.call.profile
    BY <2>1 DEF At, Call
  <2> QED BY <2>2, <2>3
<1> HIDE DEF c
<1>3. t \in Session
  BY <1>2, SessionAssumption DEF Session
<1>4. /\ t.config = s.config /\ t.linked = s.linked /\ t.verified
      /\ t.suggested = s.suggested /\ t.profileLeft = s.profileLeft /\ t.ended = s.ended
      /\ t.call = c
  BY DEF Session
<1> HIDE DEF t
<1>5. p \in Profiles
  BY SessionFields
<1> HIDE DEF p
<1>6. /\ x \in Event /\ y \in Event /\ z \in Event /\ w \in Event
  BY <1>5, SessionActions, StatusValues DEF Event
<1>7. /\ ~IsOffer(x) /\ ~IsOffer(y) /\ ~IsOffer(z)
      /\ x.type # "SendSignal" /\ z.type # "SendSignal"
  BY NotOffers DEF Do
<1>8. /\ e \in Seq(Event) /\ Len(e) = 4
      /\ e[1] = x /\ e[2] = y /\ e[3] = z /\ e[4] = w
  <2> DEFINE a == <<x, y, z>>
  <2> HIDE DEF x, y, z, w
  <2>1. a \in Seq(Event) /\ Len(a) = 3 /\ a[1] = x /\ a[2] = y /\ a[3] = z
    BY <1>6
  <2> HIDE DEF a
  <2> DEFINE d == Append(a, w)
  <2>2. /\ d \in Seq(Event) /\ Len(d) = Len(a) + 1 /\ d[Len(a) + 1] = w
        /\ \A i \in 1 .. Len(a) : d[i] = a[i]
    <3>1. w \in Event /\ a \in Seq(Event)
      BY <1>6, <2>1
    <3> QED BY <3>1
  <2> HIDE DEF d
  <2>3. Len(d) = 4 /\ d[4] = w /\ d[1] = a[1] /\ d[2] = a[2] /\ d[3] = a[3]
    BY <2>1, <2>2
  <2> QED BY <2>1, <2>2, <2>3 DEF a, d
<1> HIDE DEF e
<1>9. Offering(e, p)
  <2> HIDE DEF x, y, z, w
  <2>1. DOMAIN e = 1 .. 4
    BY <1>8
  <2>2. 4 \in DOMAIN e /\ \A k \in DOMAIN e : IsOffer(e[k]) => k = 4
    BY <1>7, <1>8, <2>1
  <2>3. e[4] = SendSignal(ProfileSignal(p))
    BY <1>8 DEF w
  <2> QED BY <2>2, <2>3 DEF Offering
<1>10. Signals(e) # <<>> /\ Head(Signals(e)) = StatusSignal(Ringing)
  <2>1. StatusSignal(Ringing) \in Signal /\ ProfileSignal(p) \in Signal
    BY <1>5, StatusValues DEF Signal
  <2>2. /\ e[2] = SendSignal(StatusSignal(Ringing)) /\ e[4] = SendSignal(ProfileSignal(p))
        /\ e[1].type # "SendSignal" /\ e[3].type # "SendSignal"
    BY <1>7, <1>8 DEF SendStatus
  <2> HIDE DEF x, z
  <2> QED BY <1>8, <2>1, <2>2, SignalsSecond
<1> HIDE DEF x, y, z, w, r
<1>11. r.session = t /\ r.events = e
  BY <1>1 DEF Emit
<1>12. Steady(s, r.session) /\ r.session.verified /\ r.session.ended = s.ended
  BY <1>2, <1>3, <1>4, <1>11 DEF Steady, Unrefused, Alive
<1>13. /\ r.events \in Seq(Event) /\ Offering(r.events, p)
       /\ Signals(r.events) # <<>> /\ Head(Signals(r.events)) = StatusSignal(Ringing)
  BY <1>8, <1>9, <1>10, <1>11
<1> QED BY <1>12, <1>13 DEF r, p

-----------------------------------------------------------------------------
(* The negotiation.  The callee offers its preference E when it rings, the *)
(* caller its c when it hears the ringing.                                 *)

E == callee.config.preferred

CallerTakes    == IsHost(caller) \/ E \in caller.config.allowed
CalleeTakes(c) == c \in callee.config.allowed

(* How often each side has made an offer, the caller having heard hC and   *)
(* the callee hE, and the second offer: a callee answers one that is not   *)
(* its own preference, with what it adopts or, once, with what it keeps; a *)
(* caller answers only one it cannot take.                                 *)
CalleeOffers(c, hE) == IF hE = 0 \/ c = E THEN 1 ELSE 2
CallerOffers(hC)    == IF hC = 0 \/ CallerTakes THEN 1 ELSE 2
Second(c)           == IF CalleeTakes(c) THEN c ELSE E

Negotiated(c, hC, hE) ==
    /\ Carries(toCaller, E, Second(c), CalleeOffers(c, hE), hC)
    /\ Carries(toCallee, c, c, CallerOffers(hC), hE)
    /\ caller.call.profile = IF hC = 0 \/ (hC = 1 /\ ~CallerTakes) THEN c
                             ELSE IF hC = 1 THEN E ELSE Second(c)
    /\ callee.call.profile = IF hE = 0 THEN E ELSE Second(c)
    /\ hC >= 1 /\ ~CallerTakes => caller.suggested
    /\ hE >= 1 /\ ~CalleeTakes(c) => callee.suggested
    /\ hC = 2 => CallerTakes \/ CalleeTakes(c)
    /\ hE = 2 => CalleeTakes(c)
    /\ ~IsHost(caller) => c = caller.config.preferred

During ==
    /\ caller.call.status >= Ringing /\ callee.verified
    /\ \E c \in Profiles : \E hC, hE \in 0 .. 2 : Negotiated(c, hC, hE)

(* Before the caller hears the ringing it has sent nothing: it has not     *)
(* heard of the callee, has identified itself, or is about to be rung.     *)
Unheard ==
    /\ caller.call.status = Calling /\ ~identified /\ ~callee.verified
    /\ toCaller = <<StatusSignal(Available)>>

Presented ==
    /\ caller.call.status = Available /\ ~callee.verified /\ toCaller = <<>>

AboutToRing ==
    /\ caller.call.status = Available /\ callee.verified
    /\ toCaller # <<>> /\ Head(toCaller) = StatusSignal(Ringing)
    /\ OneOffer(toCaller, E)

Before ==
    /\ toCallee = <<>>
    /\ callee.call.profile = E
    /\ IsHost(caller) \/ caller.call.profile = caller.config.preferred
    /\ Unheard \/ Presented \/ AboutToRing

Bargain == Alive(callee) /\ ~CallerOver => Before \/ During

(* Two sessions never name a profile that neither prefers; if each takes   *)
(* what the other prefers, neither is ever without a confirmed profile.    *)
Known == IF IsHost(caller) THEN Profiles ELSE {caller.config.preferred, E}

OnlyPreferred ==
    /\ ~IsHost(caller) => caller.call.profile \in Known
    /\ callee.call.profile \in Known
    /\ KnownOffers(toCaller, Known) /\ KnownOffers(toCallee, Known)

CompatibleMeet == Compatible => Unrefused(caller) /\ Unrefused(callee)

(* The link is up at both ends, and the roles are what they were. *)
Linked ==
    /\ callee.call.role = "Incoming" /\ callee.linked
    /\ callee.verified \/ callee.call.status = Available
    /\ callee.verified => identified
    /\ caller.call.role = "Outgoing"
    /\ ~IsHost(caller) => caller.linked /\ caller.verified

Sound == PairTypeOK /\ Linked /\ OnlyPreferred /\ CompatibleMeet

PairInv == Sound /\ Bargain

-----------------------------------------------------------------------------
(* What both sides keep whatever they hear *)

LEMMA WhoIsHost ==
    /\ \A s \in Session : ~IsHost(s)
    /\ \A c \in HostCaller : IsHost(c) /\ c.call \in Call /\ c.over \in BOOLEAN
<1>1. ASSUME NEW s \in Session PROVE "over" \notin DOMAIN s
  BY DEF Session
<1>2. ASSUME NEW c \in HostCaller PROVE "over" \in DOMAIN c /\ c.call \in Call /\ c.over \in BOOLEAN
  BY DEF HostCaller
<1> QED BY <1>1, <1>2 DEF IsHost

LEMMA PairFields ==
    ASSUME Sound
    PROVE  /\ callee \in Session /\ callee.call \in Call /\ E \in Profiles
           /\ E \in callee.config.allowed
           /\ caller.call \in Call
           /\ IsHost(caller) => caller \in HostCaller
           /\ ~IsHost(caller) => /\ caller \in Session
                                 /\ caller.config.preferred \in Profiles
                                 /\ caller.config.preferred \in caller.config.allowed
           /\ Known \subseteq Profiles /\ E \in Known
           /\ toCaller \in Seq(Signal) /\ toCallee \in Seq(Signal)
           /\ identified \in BOOLEAN
           /\ callee.call.profile \in Profiles
<1>1. /\ caller \in HostCaller \cup Session /\ callee \in Session
      /\ toCaller \in Seq(Signal) /\ toCallee \in Seq(Signal) /\ identified \in BOOLEAN
      /\ callee.call.profile \in Known
  BY DEF Sound, PairTypeOK, OnlyPreferred
<1>2. IsHost(caller) => caller \in HostCaller
  BY <1>1, WhoIsHost
<1>3. ~IsHost(caller) => caller \in Session
  BY <1>1, WhoIsHost
<1>4. caller.call \in Call
  BY <1>2, <1>3, WhoIsHost, SessionFields
<1>5. callee.call \in Call /\ E \in Profiles /\ E \in callee.config.allowed
  BY <1>1, SessionFields DEF E
<1>6. ~IsHost(caller) => /\ caller.config.preferred \in Profiles
                         /\ caller.config.preferred \in caller.config.allowed
  BY <1>3, SessionFields
<1>7. Known \subseteq Profiles /\ E \in Known
  BY <1>5, <1>6 DEF Known
<1> QED BY <1>1, <1>2, <1>3, <1>4, <1>5, <1>6, <1>7

(* A step of the caller, and of the callee, and what its queues become. *)
SameCaller(c, d) ==
    /\ IsHost(c) => d \in HostCaller
    /\ ~IsHost(c) => d \in Session /\ d.config = c.config /\ d.linked = c.linked
                                   /\ d.verified = c.verified
    /\ d.call.role = c.call.role

SameCallee(s, t) ==
    /\ t \in Session /\ t.config = s.config /\ t.linked = s.linked
    /\ t.call.role = s.call.role

SameOrTail(ch, inbox) == inbox = ch \/ (ch # <<>> /\ inbox = Tail(ch))

LEMMA SameOrTailKnown ==
    ASSUME NEW ch \in Seq(Signal), NEW inbox, SameOrTail(ch, inbox), NEW known,
           KnownOffers(ch, known)
    PROVE  inbox \in Seq(Signal) /\ KnownOffers(inbox, known)
<1>1. CASE inbox = ch
  BY <1>1
<1>2. CASE ch # <<>> /\ inbox = Tail(ch)
  <2>1. Tail(ch) \in Seq(Signal)
    BY <1>2, TailAt
  <2>2. KnownOffers(Tail(ch), known)
    BY <1>2, KnownTail
  <2> QED BY <1>2, <2>1, <2>2
<1> QED BY <1>1, <1>2 DEF SameOrTail

LEMMA JoinedKnown ==
    ASSUME NEW a \in Seq(Signal), NEW b \in Seq(Signal), NEW known,
           KnownOffers(a, known), KnownOffers(b, known), NEW c, c = a \o b
    PROVE  c \in Seq(Signal) /\ KnownOffers(c, known)
<1>1. KnownOffers(a \o b, known)
  BY KnownMore
<1>2. a \o b \in Seq(Signal)
  BY JoinedAt
<1> QED BY <1>1, <1>2

LEMMA CallerKeeps ==
    ASSUME Sound, SameCaller(caller, caller'),
           ~IsHost(caller) => caller'.call.profile \in Known,
           Compatible => Unrefused(caller'),
           NEW sent \in Seq(Signal), KnownOffers(sent, Known),
           toCallee' = toCallee \o sent, SameOrTail(toCaller, toCaller'),
           identified' \in BOOLEAN, identified => identified', callee' = callee
    PROVE  Sound' /\ (IsHost(caller)' <=> IsHost(caller))
<1>1. /\ toCaller \in Seq(Signal) /\ toCallee \in Seq(Signal)
      /\ KnownOffers(toCaller, Known) /\ KnownOffers(toCallee, Known)
  BY PairFields DEF Sound, OnlyPreferred
<1>2. toCaller' \in Seq(Signal) /\ KnownOffers(toCaller', Known)
  <2> DEFINE k == Known
  <2> HIDE DEF k
  <2>1. KnownOffers(toCaller, k)
    BY <1>1 DEF k
  <2>2. toCaller' \in Seq(Signal) /\ KnownOffers(toCaller', k)
    BY <1>1, <2>1, SameOrTailKnown
  <2> QED BY <2>2 DEF k
<1>3. toCallee' \in Seq(Signal) /\ KnownOffers(toCallee', Known)
  <2> DEFINE k == Known
  <2> HIDE DEF k
  <2>1. KnownOffers(toCallee, k) /\ KnownOffers(sent, k)
    BY <1>1 DEF k
  <2>2. toCallee' \in Seq(Signal) /\ KnownOffers(toCallee', k)
    BY <1>1, <2>1, JoinedKnown
  <2> QED BY <2>2 DEF k
<1>4. /\ caller' \in HostCaller \cup Session
      /\ IsHost(caller') <=> IsHost(caller)
      /\ ~IsHost(caller) => caller'.config = caller.config
  BY WhoIsHost DEF SameCaller
<1>5. (Known)' = Known /\ Compatible' = Compatible
  BY <1>4, Zenon DEF Known, Compatible, E
<1>6. PairTypeOK'
  BY <1>2, <1>3, <1>4 DEF Sound, PairTypeOK
<1>7. Linked'
  BY <1>4 DEF Sound, Linked, SameCaller
<1>8. OnlyPreferred'
  BY <1>2, <1>3, <1>4, <1>5 DEF Sound, OnlyPreferred
<1>9. CompatibleMeet'
  BY <1>5, Zenon DEF Sound, CompatibleMeet
<1> QED BY <1>4, <1>6, <1>7, <1>8, <1>9 DEF Sound

LEMMA CalleeKeeps ==
    ASSUME Sound, SameCallee(callee, callee'), callee'.call.profile \in Known,
           callee'.verified \/ callee'.call.status = Available,
           callee'.verified => identified,
           Compatible => Unrefused(callee'),
           NEW sent \in Seq(Signal), KnownOffers(sent, Known),
           toCaller' = toCaller \o sent, SameOrTail(toCallee, toCallee'),
           caller' = caller, identified' = identified
    PROVE  Sound'
<1>1. /\ toCaller \in Seq(Signal) /\ toCallee \in Seq(Signal)
      /\ KnownOffers(toCaller, Known) /\ KnownOffers(toCallee, Known)
  BY PairFields DEF Sound, OnlyPreferred
<1>2. toCallee' \in Seq(Signal) /\ KnownOffers(toCallee', Known)
  <2> DEFINE k == Known
  <2> HIDE DEF k
  <2>1. KnownOffers(toCallee, k)
    BY <1>1 DEF k
  <2>2. toCallee' \in Seq(Signal) /\ KnownOffers(toCallee', k)
    BY <1>1, <2>1, SameOrTailKnown
  <2> QED BY <2>2 DEF k
<1>3. toCaller' \in Seq(Signal) /\ KnownOffers(toCaller', Known)
  <2> DEFINE k == Known
  <2> HIDE DEF k
  <2>1. KnownOffers(toCaller, k) /\ KnownOffers(sent, k)
    BY <1>1 DEF k
  <2>2. toCaller' \in Seq(Signal) /\ KnownOffers(toCaller', k)
    BY <1>1, <2>1, JoinedKnown
  <2> QED BY <2>2 DEF k
<1>4. callee'.config = callee.config
  BY DEF SameCallee
<1>5. (Known)' = Known /\ Compatible' = Compatible
  BY <1>4, Zenon DEF Known, Compatible, E
<1>6. PairTypeOK'
  BY <1>2, <1>3 DEF Sound, PairTypeOK, SameCallee
<1>7. Linked'
  BY DEF Sound, Linked, SameCallee
<1>8. OnlyPreferred'
  BY <1>2, <1>3, <1>5 DEF Sound, OnlyPreferred
<1>9. CompatibleMeet'
  BY <1>5, Zenon DEF Sound, CompatibleMeet
<1> QED BY <1>6, <1>7, <1>8, <1>9 DEF Sound

(* A session hears of no profile but those it knows, and keeps to them. *)
Bound(s, r, known) ==
    /\ r.session \in Session /\ r.session.config = s.config
    /\ r.session.linked = s.linked /\ r.session.verified = s.verified
    /\ r.session.call.role = s.call.role
    /\ r.session.call.profile \in known
    /\ r.events \in Seq(Event)
    /\ Signals(r.events) \in Seq(Signal) /\ KnownOffers(Signals(r.events), known)
    /\ known \subseteq s.config.allowed /\ Unrefused(s) => Unrefused(r.session)

LEMMA CalmlyBound ==
    ASSUME NEW s \in Session, NEW known, s.call.profile \in known, NEW r, Calmly(s, r)
    PROVE  Bound(s, r, known)
<1>1. NoOffer(Signals(r.events)) /\ Signals(r.events) \in Seq(Signal)
  BY SignalsAre DEF Calmly
<1>2. KnownOffers(Signals(r.events), known)
  BY <1>1, KnownSent
<1> QED BY <1>1, <1>2 DEF Calmly, Steady, Bound

LEMMA ReceiveBound ==
    ASSUME NEW s \in Session, NEW known \in SUBSET Profiles, s.call.profile \in known,
           NEW sig \in Signal, sig.kind = "profile" => sig.profile \in known
    PROVE  Bound(s, Receive(s, sig), known)
<1> DEFINE r == Receive(s, sig)
<1>0. s.call \in Call /\ s.call.profile \in Profiles
  BY SessionFields
<1>1. CASE ~Alive(s) \/ ~s.linked \/ ~s.verified
  <2>1. r = Quiet(s)
    BY <1>1 DEF Receive
  <2>2. Calmly(s, Quiet(s))
    BY IdleSelf, QuietHushed, HushedCalmly
  <2> HIDE DEF r
  <2>3. Bound(s, r, known)
    BY <2>1, <2>2, CalmlyBound
  <2> QED BY <2>3 DEF r
<1>2. CASE sig.kind # "profile" /\ ~(/\ sig.kind = "status" /\ sig.status = Ringing
                                    /\ s.call.role # "Incoming" /\ ~(s.call.status >= Ringing))
  BY <1>2, ReceiveCalmly, CalmlyBound
<1>3. CASE /\ Alive(s) /\ s.linked /\ s.verified
           /\ sig.kind = "status" /\ sig.status = Ringing
           /\ s.call.role # "Incoming" /\ ~(s.call.status >= Ringing)
  <2>1. sig = StatusSignal(Ringing)
    BY <1>3 DEF Signal, StatusSignal, ProfileSignal, RawSignal
  <2>2. s.call.status \in {Calling, Available} /\ s.call.role = "Outgoing"
    BY <1>0, <1>3, StatusValues DEF Call
  <2>3. CASE s.call.status = Calling
    <3>1. ~Believes(s, sig.status) /\ sig.status \notin {Busy, Rejected}
      BY <1>3, <2>2, <2>3, StatusValues DEF Believes, Incoming
    <3>2. Receive(s, sig) = Quiet(s)
      BY <1>3, <3>1 DEF Receive, HearStatus
    <3>3. Calmly(s, Quiet(s))
      BY IdleSelf, QuietHushed, HushedCalmly
    <3> HIDE DEF r
    <3> QED BY <3>2, <3>3, CalmlyBound
  <2>4. CASE s.call.status = Available
    <3>1. Calls(s)
      BY <1>0, <1>3, <2>2 DEF Calls
    <3>2. Climbs(s, r, Ringing) /\ Offering(r.events, s.call.profile)
      BY <2>1, <2>4, <3>1, ReceiveRingingFirst
    <3> HIDE DEF r
    <3>3. OneOffer(Signals(r.events), s.call.profile) /\ Signals(r.events) \in Seq(Signal)
      BY <1>0, <3>2, SignalsAre DEF Climbs
    <3>4. KnownOffers(Signals(r.events), known)
      BY <1>0, <3>3, KnownSent
    <3>5. Bound(s, r, known)
      BY <1>3, <3>2, <3>3, <3>4 DEF Bound, Climbs, Steady
    <3> QED BY <3>5 DEF r
  <2> QED BY <2>2, <2>3, <2>4
<1>4. CASE Alive(s) /\ s.linked /\ s.verified /\ sig.kind = "profile"
  <2> DEFINE p == sig.profile
  <2>1. p \in known /\ p \in Profiles /\ sig = ProfileSignal(p)
    BY <1>4 DEF Signal, StatusSignal, ProfileSignal, RawSignal
  <2> HIDE DEF p
  <2>2. CASE p \in s.config.allowed
    <3> DEFINE q == Receive(s, ProfileSignal(p))
    <3>0. r = q
      BY <2>1
    <3>1. /\ q.session \in Session /\ q.session.config = s.config
          /\ q.session.linked = s.linked
          /\ q.session.verified = s.verified /\ q.session.suggested = s.suggested
          /\ q.session.call.role = s.call.role /\ q.session.call.status = s.call.status
          /\ q.session.call.profile = p
          /\ q.session.profileLeft = Never /\ q.session.ended = s.ended
          /\ q.events \in Seq(Event)
          /\ s.call.profile = p \/ s.call.role = "Outgoing" => Plain(q.events)
          /\ s.call.profile # p /\ s.call.role = "Incoming" => Offering(q.events, p)
      BY <1>0, <1>4, <2>1, <2>2, ReceiveAdopts
    <3> HIDE DEF q, r
    <3>2. Plain(q.events) \/ Offering(q.events, p)
      BY <1>0, <3>1 DEF Call
    <3>3. /\ Signals(q.events) \in Seq(Signal)
          /\ NoOffer(Signals(q.events)) \/ OneOffer(Signals(q.events), p)
      BY <2>1, <3>1, <3>2, SignalsAre
    <3>4. KnownOffers(Signals(q.events), known)
      BY <2>1, <3>3, KnownSent
    <3>5. Bound(s, q, known)
      BY <2>1, <3>1, <3>3, <3>4 DEF Bound, Unrefused
    <3> QED BY <3>0, <3>5 DEF r
  <2>3. CASE p \notin s.config.allowed
    <3>1. /\ r.session \in Session /\ r.session.config = s.config
          /\ r.session.linked = s.linked /\ r.session.verified = s.verified
          /\ r.session.call.role = s.call.role /\ r.session.call.profile = s.call.profile
          /\ r.events \in Seq(Event)
          /\ s.suggested => Plain(r.events)
          /\ ~s.suggested => Offering(r.events, s.call.profile)
      BY <1>0, <1>4, <2>1, <2>3, ReceiveRefuses
    <3> HIDE DEF r
    <3>2. Plain(r.events) \/ Offering(r.events, s.call.profile)
      BY <3>1
    <3>3. /\ Signals(r.events) \in Seq(Signal)
          /\ NoOffer(Signals(r.events)) \/ OneOffer(Signals(r.events), s.call.profile)
      BY <1>0, <3>1, <3>2, SignalsAre
    <3>4. KnownOffers(Signals(r.events), known)
      BY <1>0, <3>3, KnownSent
    <3>5. Bound(s, r, known)
      BY <2>1, <2>3, <3>1, <3>3, <3>4 DEF Bound
    <3> QED BY <3>5 DEF r
  <2> QED BY <2>2, <2>3
<1> QED BY <1>1, <1>2, <1>3, <1>4

-----------------------------------------------------------------------------
(* Steps that leave the negotiation where it is *)

LEMMA CompatibleKnown ==
    ASSUME Sound, Compatible
    PROVE  ~IsHost(caller) /\ Known \subseteq caller.config.allowed
           /\ Known \subseteq callee.config.allowed
BY PairFields DEF Compatible, Known, E

LEMMA WordlessSilence ==
    ASSUME NEW events \in Seq(Event), Mute(events)
    PROVE  Signals(events) = <<>> /\ ~Identifies(events)
BY SignalsAre DEF Mute

(* A queue to which nothing is added. *)
LEMMA NothingAdded ==
    ASSUME NEW ch \in Seq(Signal)
    PROVE  ch \o <<>> = ch
OBVIOUS

LEMMA HushedCaller ==
    ASSUME PairInv, ~IsHost(caller), NEW r, Hushed(caller, r), CallerActs(r, toCaller)
    PROVE  PairInv'
<1> DEFINE sent == Signals(r.events)
<1>1. /\ caller' = r.session /\ toCaller' = toCaller /\ toCallee' = toCallee \o sent
      /\ identified' = (identified \/ Identifies(r.events)) /\ callee' = callee
  BY DEF CallerActs
<1>2. Sound /\ caller \in Session /\ toCallee \in Seq(Signal) /\ toCaller \in Seq(Signal)
  BY PairFields DEF PairInv
<1>3. /\ Idle(caller, r.session) /\ r.events \in Seq(Event)
      /\ NoOffer(sent) /\ sent \in Seq(Signal)
  BY SignalsAre DEF Hushed
<1>4. Alive(r.session) => sent = <<>> /\ ~Identifies(r.events)
  <2>1. ~CanRetryAnswer(caller.call)
    BY <1>2 DEF Sound, Linked, CanRetryAnswer
  <2> QED BY <1>3, <2>1, WordlessSilence DEF Hushed
<1>5. KnownOffers(sent, Known)
  <2> DEFINE k == Known
  <2> HIDE DEF k, sent
  <2>1. KnownOffers(sent, k)
    BY <1>3, KnownSent
  <2> QED BY <2>1 DEF k
<1> HIDE DEF sent
<1>6. Sound' /\ (IsHost(caller)' <=> IsHost(caller))
  <2>1. SameCaller(caller, caller') /\ caller'.call.profile = caller.call.profile
    BY <1>1, <1>3 DEF SameCaller, Idle, Steady
  <2>2. caller'.call.profile \in Known
    BY <1>2, <2>1 DEF Sound, OnlyPreferred
  <2>3. Compatible => Unrefused(caller')
    BY <1>1, <1>2, <1>3 DEF Sound, CompatibleMeet, Idle, Steady
  <2>4. identified' \in BOOLEAN /\ (identified => identified')
    BY <1>1, <1>2 DEF Sound, PairTypeOK
  <2>5. SameOrTail(toCaller, toCaller')
    BY <1>1 DEF SameOrTail
  <2> QED BY <1>1, <1>2, <1>3, <1>5, <2>1, <2>2, <2>3, <2>4, <2>5, CallerKeeps
<1>7. ASSUME Alive(callee'), ~CallerOver' PROVE Before' \/ During'
  <2>1. Alive(callee) /\ Alive(r.session) /\ Alive(caller) /\ ~CallerOver
    BY <1>1, <1>3, <1>6, <1>7 DEF CallerOver, Idle, Steady
  <2>2. toCallee' = toCallee /\ identified' = identified
    <3>1. toCallee' = toCallee \o <<>>
      BY <1>1, <1>4, <2>1
    <3>2. toCallee \o <<>> = toCallee
      BY <1>2, NothingAdded
    <3>3. ~Identifies(r.events)
      BY <1>4, <2>1
    <3>4. identified' = identified
      BY <1>1, <1>2, <3>3 DEF Sound, PairTypeOK
    <3> QED BY <3>1, <3>2, <3>4
  <2>3. /\ caller'.call.status = caller.call.status
        /\ caller'.call.profile = caller.call.profile
        /\ caller'.config = caller.config /\ caller'.suggested = caller.suggested
    BY <1>1, <1>3, <2>1 DEF Idle, Steady
  <2>4. Before \/ During
    BY <2>1 DEF PairInv, Bargain
  <2>5. ASSUME Before PROVE Before'
    BY <1>1, <1>6, <2>2, <2>3, <2>5 DEF Before, Unheard, Presented, AboutToRing, E
  <2>6. ASSUME During PROVE During'
    <3>1. PICK c \in Profiles : \E hC, hE \in 0 .. 2 : Negotiated(c, hC, hE)
      BY <2>6 DEF During
    <3>2. PICK hC \in 0 .. 2, hE \in 0 .. 2 : Negotiated(c, hC, hE)
      BY <3>1
    <3>3. Negotiated(c, hC, hE)'
      BY <1>1, <1>6, <2>2, <2>3, <3>2
         DEF Negotiated, CalleeOffers, CallerOffers, CallerTakes, CalleeTakes, Second, E
    <3> QED BY <1>1, <2>3, <2>6, <3>3 DEF During
  <2> QED BY <2>4, <2>5, <2>6
<1> QED BY <1>6, <1>7 DEF PairInv, Bargain

(* A signal that offers nothing, if one, is taken off a queue. *)
PlainTail(ch, inbox) ==
    inbox = ch \/ (ch # <<>> /\ Head(ch).kind # "profile" /\ inbox = Tail(ch))

LEMMA CarriesTail ==
    ASSUME NEW ch \in Seq(Signal), NEW inbox, PlainTail(ch, inbox),
           NEW x \in Profiles, NEW y \in Profiles, NEW n \in {1, 2}, NEW h \in 0 .. 2,
           Carries(ch, x, y, n, h)
    PROVE  Carries(inbox, x, y, n, h)
BY CarriesHeard DEF PlainTail

LEMMA CarriesJoined ==
    ASSUME NEW a \in Seq(Signal), NEW b \in Seq(Signal), NEW c, c = a \o b,
           NEW x \in Profiles, NEW y \in Profiles, NEW n, NEW h, Carries(a, x, y, n, h)
    PROVE  /\ NoOffer(b) => Carries(c, x, y, n, h)
           /\ OneOffer(b, y) /\ n = 1 => Carries(c, x, y, 2, h)
<1>1. /\ NoOffer(b) => Carries(a \o b, x, y, n, h)
      /\ OneOffer(b, y) /\ n = 1 => Carries(a \o b, x, y, 2, h)
  BY CarriesMore
<1> QED BY <1>1

LEMMA OffersTyped ==
    ASSUME Sound, NEW c \in Profiles
    PROVE  /\ E \in Profiles /\ Second(c) \in Profiles
           /\ \A h : CalleeOffers(c, h) \in {1, 2} /\ CallerOffers(h) \in {1, 2}
BY PairFields DEF Second, CalleeOffers, CallerOffers

LEMMA HeadStays ==
    ASSUME NEW a \in Seq(Signal), NEW b \in Seq(Signal), a # <<>>, NEW c, c = a \o b
    PROVE  c # <<>> /\ Head(c) = Head(a)
<1>1. /\ c \in Seq(Signal) /\ DOMAIN a = 1 .. Len(a)
      /\ DOMAIN c = 1 .. Len(a) + Len(b)
      /\ \A k \in 1 .. Len(a) : c[k] = a[k]
      /\ Len(a) \in Nat /\ Len(b) \in Nat
  BY JoinedAt
<1>2. Len(a) >= 1 /\ Head(a) = a[1]
  BY TailAt
<1>3. 1 \in DOMAIN c
  BY <1>1, <1>2
<1>4. c # <<>>
  BY <1>1, <1>3
<1>5. Head(c) = c[1]
  BY <1>1, <1>4, TailAt
<1> QED BY <1>1, <1>2, <1>4, <1>5

LEMMA CalleeCalm ==
    ASSUME PairInv, NEW r, NEW inbox, CalleeActs(r, inbox), PlainTail(toCallee, inbox),
           Steady(callee, r.session), r.session.verified = callee.verified,
           r.events \in Seq(Event), Plain(r.events),
           callee.verified \/ Hushed(callee, r)
    PROVE  PairInv'
<1> DEFINE sent == Signals(r.events)
<1>1. /\ callee' = r.session /\ toCallee' = inbox /\ toCaller' = toCaller \o sent
      /\ caller' = caller /\ identified' = identified
  BY DEF CalleeActs
<1>2. Sound /\ callee \in Session /\ toCallee \in Seq(Signal) /\ toCaller \in Seq(Signal)
  BY PairFields DEF PairInv
<1>3. NoOffer(sent) /\ sent \in Seq(Signal)
  BY SignalsAre
<1>4. ~callee.verified /\ Alive(r.session) => sent = <<>>
  <2>1. ~callee.verified => ~CanRetryAnswer(callee.call)
    BY <1>2, StatusValues DEF Sound, Linked, CanRetryAnswer
  <2> QED BY <2>1, WordlessSilence DEF Hushed
<1>5. KnownOffers(sent, Known)
  <2> DEFINE k == Known
  <2> HIDE DEF k, sent
  <2>1. KnownOffers(sent, k)
    BY <1>3, KnownSent
  <2> QED BY <2>1 DEF k
<1> HIDE DEF sent
<1>6. Sound'
  <2>1. SameCallee(callee, callee') /\ callee'.call.profile = callee.call.profile
    BY <1>1 DEF SameCallee, Steady
  <2>2. callee'.call.profile \in Known
    BY <1>2, <2>1 DEF Sound, OnlyPreferred
  <2>3. Compatible => Unrefused(callee')
    BY <1>1, <1>2 DEF Sound, CompatibleMeet, Steady
  <2>4. callee'.verified \/ callee'.call.status = Available
    BY <1>1, <1>2 DEF Sound, Linked, Hushed, Idle
  <2>5. callee'.verified => identified
    BY <1>1, <1>2 DEF Sound, Linked
  <2>6. SameOrTail(toCallee, toCallee')
    BY <1>1 DEF SameOrTail, PlainTail
  <2> QED BY <1>1, <1>2, <1>3, <1>5, <2>1, <2>2, <2>3, <2>4, <2>5, <2>6, CalleeKeeps
<1>7. ASSUME Alive(callee'), ~CallerOver' PROVE Before' \/ During'
  <2>1. Alive(callee) /\ Alive(r.session) /\ ~CallerOver
    BY <1>1, <1>7 DEF CallerOver, Steady
  <2>2. /\ callee'.verified = callee.verified
        /\ callee'.call.profile = callee.call.profile
        /\ callee'.config = callee.config /\ callee'.suggested = callee.suggested
    BY <1>1 DEF Steady
  <2>3. Before \/ During
    BY <2>1 DEF PairInv, Bargain
  <2>4. ASSUME Before PROVE Before'
    <3>1. toCallee' = <<>>
      BY <1>1, <2>4 DEF Before, PlainTail
    <3>2. ASSUME ~callee.verified PROVE toCaller' = toCaller
      <4>1. toCaller' = toCaller \o <<>>
        BY <1>1, <1>4, <2>1, <3>2
      <4>2. toCaller \o <<>> = toCaller
        BY <1>2, NothingAdded
      <4> QED BY <4>1, <4>2
    <3>3. ASSUME AboutToRing PROVE AboutToRing'
      <4>1. toCaller' # <<>> /\ Head(toCaller') = Head(toCaller)
        BY <1>1, <1>2, <1>3, <3>3, HeadStays DEF AboutToRing
      <4>2. OneOffer(toCaller \o sent, E)
        <5> DEFINE e == E
        <5> HIDE DEF e
        <5>1. OneOffer(toCaller, e)
          BY <3>3 DEF AboutToRing, e
        <5>2. OneOffer(toCaller \o sent, e)
          BY <1>2, <1>3, <5>1, NoneJoined
        <5> QED BY <5>2 DEF e
      <4>3. OneOffer(toCaller', E)
        BY <1>1, <4>2
      <4>4. E' = E
        BY <2>2 DEF E
      <4> QED BY <1>1, <2>2, <3>3, <4>1, <4>3, <4>4 DEF AboutToRing
    <3>4. Unheard => Unheard'
      BY <1>1, <2>2, <3>2 DEF Unheard
    <3>5. Presented => Presented'
      BY <1>1, <2>2, <3>2 DEF Presented
    <3> QED BY <1>1, <2>2, <2>4, <3>1, <3>3, <3>4, <3>5 DEF Before, E
  <2>5. ASSUME During PROVE During'
    <3>1. PICK c \in Profiles : \E hC, hE \in 0 .. 2 : Negotiated(c, hC, hE)
      BY <2>5 DEF During
    <3>2. PICK hC \in 0 .. 2, hE \in 0 .. 2 : Negotiated(c, hC, hE)
      BY <3>1
    <3>3. Carries(toCaller', E, Second(c), CalleeOffers(c, hE), hC)
      <4> DEFINE x == E
                 y == Second(c)
                 n == CalleeOffers(c, hE)
      <4>1. x \in Profiles /\ y \in Profiles /\ Carries(toCaller, x, y, n, hC)
        BY <1>2, <3>2, OffersTyped DEF Negotiated
      <4> HIDE DEF x, y, n
      <4>2. Carries(toCaller', x, y, n, hC)
        BY <1>1, <1>2, <1>3, <4>1, CarriesJoined
      <4> QED BY <4>2 DEF x, y, n
    <3>4. Carries(toCallee', c, c, CallerOffers(hC), hE)
      <4> DEFINE n == CallerOffers(hC)
      <4>1. n \in {1, 2} /\ Carries(toCallee, c, c, n, hE)
        BY <1>2, <3>2, OffersTyped DEF Negotiated
      <4> HIDE DEF n
      <4>2. Carries(toCallee', c, c, n, hE)
        BY <1>1, <1>2, <4>1, CarriesTail
      <4> QED BY <4>2 DEF n
    <3>5. Negotiated(c, hC, hE)'
      BY <1>1, <2>2, <3>2, <3>3, <3>4
         DEF Negotiated, CalleeOffers, CallerOffers, CallerTakes, CalleeTakes, Second, E
    <3> QED BY <1>1, <2>2, <2>5, <3>5 DEF During
  <2> QED BY <2>3, <2>4, <2>5
<1> QED BY <1>6, <1>7 DEF PairInv, Bargain

LEMMA HushedCallee ==
    ASSUME PairInv, NEW r, Hushed(callee, r), NEW inbox, CalleeActs(r, inbox),
           PlainTail(toCallee, inbox)
    PROVE  PairInv'
BY CalleeCalm DEF Hushed, Idle

-----------------------------------------------------------------------------
(* The actions without offers *)

LEMMA CalleeAnswersKeeps ==
    ASSUME PairInv, CalleeAnswers
    PROVE  PairInv'
<1> DEFINE r == AnswerCall(callee)
<1>1. CalleeActs(r, toCallee) /\ PlainTail(toCallee, toCallee)
  BY DEF CalleeAnswers, PlainTail
<1>2. callee \in Session /\ callee.call.profile \in Profiles
  BY PairFields DEF PairInv
<1>3. /\ ~callee.verified => r = Quiet(callee)
      /\ Steady(callee, r.session) /\ r.session.verified = callee.verified
      /\ r.events \in Seq(Event) /\ Plain(r.events)
  BY <1>2, AnswerCalmly
<1>4. Hushed(callee, Quiet(callee))
  BY <1>2, IdleSelf, QuietHushed
<1> HIDE DEF r
<1>5. callee.verified \/ Hushed(callee, r)
  BY <1>3, <1>4
<1> QED BY <1>1, <1>3, <1>5, CalleeCalm

LEMMA CalleeQuietlyKeeps ==
    ASSUME PairInv, CalleeConfigured \/ MediaToCallee \/ CalleeTicks \/ CalleeLosesLink
    PROVE  PairInv'
<1>1. callee \in Session /\ PlainTail(toCallee, toCallee)
  BY PairFields DEF PairInv, PlainTail
<1>2. CASE CalleeConfigured
  <2> DEFINE r == AudioReady(callee, callee.generation, TRUE)
  <2>1. Hushed(callee, r) /\ CalleeActs(r, toCallee)
    BY <1>1, <1>2, AudioReadyHushed DEF CalleeConfigured
  <2> HIDE DEF r
  <2> QED BY <1>1, <2>1, HushedCallee
<1>3. CASE MediaToCallee
  <2> DEFINE r == ReceiveProfileMedia(callee, caller.call.profile)
  <2>1. Hushed(callee, r) /\ CalleeActs(r, toCallee)
    BY <1>1, <1>3, ReceiveProfileMediaHushed DEF MediaToCallee
  <2> HIDE DEF r
  <2> QED BY <1>1, <2>1, HushedCallee
<1>4. CASE CalleeTicks
  <2> DEFINE r == Tick(callee)
  <2>1. Hushed(callee, r) /\ CalleeActs(r, toCallee)
    BY <1>1, <1>4, TickHushed DEF CalleeTicks
  <2> HIDE DEF r
  <2> QED BY <1>1, <2>1, HushedCallee
<1>5. CASE CalleeLosesLink
  <2> DEFINE r == End(callee, "Remote")
  <2>1. "Remote" \in EndReason /\ "Remote" # "ProfileUnsupported"
    BY DEF EndReason
  <2>2. Hushed(callee, r) /\ CalleeActs(r, toCallee)
    BY <1>1, <1>5, <2>1, EndHushed DEF CalleeLosesLink
  <2> HIDE DEF r
  <2> QED BY <1>1, <2>2, HushedCallee
<1> QED BY <1>2, <1>3, <1>4, <1>5

LEMMA CallerQuietlyKeeps ==
    ASSUME PairInv, CallerConfigured \/ MediaToCaller \/ CallerTicks
    PROVE  PairInv'
<1>1. ~IsHost(caller) /\ caller \in Session
  BY PairFields DEF PairInv, CallerConfigured, MediaToCaller, CallerTicks
<1>2. CASE CallerConfigured
  <2> DEFINE r == AudioReady(caller, caller.generation, TRUE)
  <2>1. Hushed(caller, r) /\ CallerActs(r, toCaller)
    BY <1>1, <1>2, AudioReadyHushed DEF CallerConfigured
  <2> HIDE DEF r
  <2> QED BY <1>1, <2>1, HushedCaller
<1>3. CASE MediaToCaller
  <2> DEFINE r == ReceiveProfileMedia(caller, callee.call.profile)
  <2>1. Hushed(caller, r) /\ CallerActs(r, toCaller)
    BY <1>1, <1>3, ReceiveProfileMediaHushed DEF MediaToCaller
  <2> HIDE DEF r
  <2> QED BY <1>1, <2>1, HushedCaller
<1>4. CASE CallerTicks
  <2> DEFINE r == Tick(caller)
  <2>1. Hushed(caller, r) /\ CallerActs(r, toCaller)
    BY <1>1, <1>4, TickHushed DEF CallerTicks
  <2> HIDE DEF r
  <2> QED BY <1>1, <2>1, HushedCaller
<1> QED BY <1>2, <1>3, <1>4

LEMMA CallerLosesLinkKeeps ==
    ASSUME PairInv, CallerLosesLink
    PROVE  PairInv'
<1>1. Sound /\ toCallee \in Seq(Signal)
  BY PairFields DEF PairInv
<1>2. CASE ~IsHost(caller)
  <2> DEFINE r == End(caller, "Remote")
  <2>1. "Remote" \in EndReason /\ "Remote" # "ProfileUnsupported" /\ caller \in Session
    BY <1>1, <1>2, PairFields DEF EndReason
  <2>2. Hushed(caller, r) /\ CallerActs(r, toCaller)
    BY <1>2, <2>1, EndHushed DEF CallerLosesLink
  <2> HIDE DEF r
  <2> QED BY <1>2, <2>2, HushedCaller
<1>3. CASE IsHost(caller)
  <2> DEFINE d == [caller EXCEPT !.over = TRUE]
  <2>1. CallerActs(Quiet(d), toCaller) /\ ~Alive(callee)
    BY <1>3 DEF CallerLosesLink
  <2>2. caller \in HostCaller
    BY <1>1, <1>3, PairFields
  <2>3. d \in HostCaller /\ d.call = caller.call
    BY <2>2 DEF HostCaller
  <2> HIDE DEF d
  <2>4. Signals(<<>>) = <<>> /\ ~Identifies(<<>>)
    BY NothingMute, WordlessSilence
  <2>5. /\ caller' = d /\ toCaller' = toCaller /\ toCallee' = toCallee \o <<>>
        /\ callee' = callee /\ identified' = identified
    BY <1>1, <2>1, <2>4 DEF CallerActs, Quiet, Emit, Sound, PairTypeOK
  <2>6. <<>> \in Seq(Signal) /\ KnownOffers(<<>>, Known)
    BY DEF KnownOffers
  <2>7. SameCaller(caller, caller') /\ SameOrTail(toCaller, toCaller')
    BY <1>3, <2>3, <2>5 DEF SameCaller, SameOrTail
  <2>8. ~Compatible
    BY <1>3 DEF Compatible
  <2>9. identified' \in BOOLEAN
    BY <1>1, <2>5 DEF Sound, PairTypeOK
  <2>10. Sound'
    BY <1>1, <1>3, <2>5, <2>6, <2>7, <2>8, <2>9, CallerKeeps
  <2>11. Bargain'
    BY <2>1, <2>5 DEF Bargain
  <2> QED BY <2>10, <2>11 DEF PairInv
<1> QED BY <1>2, <1>3

LEMMA BothElapseKeeps ==
    ASSUME PairInv, BothElapse
    PROVE  PairInv'
<1> DEFINE d == IF IsHost(caller) THEN caller ELSE Elapsed(caller)
           s == Elapsed(callee)
<1>1. /\ Sound /\ callee \in Session /\ toCaller \in Seq(Signal) /\ toCallee \in Seq(Signal)
      /\ ~IsHost(caller) => caller \in Session
      /\ IsHost(caller) => caller \in HostCaller
  BY PairFields DEF PairInv
<1>2. /\ callee' = s /\ caller' = d
      /\ toCaller' = toCaller /\ toCallee' = toCallee /\ identified' = identified
  BY DEF BothElapse
<1>3. Idle(callee, s)
  BY <1>1, ElapsedIdle
<1>4. IF IsHost(caller) THEN d = caller ELSE Idle(caller, d)
  BY <1>1, ElapsedIdle
<1> HIDE DEF s, d
<1>5. /\ callee' \in Session /\ callee'.config = callee.config
      /\ callee'.linked = callee.linked /\ callee'.verified = callee.verified
      /\ callee'.suggested = callee.suggested
      /\ callee'.call.role = callee.call.role /\ callee'.call.profile = callee.call.profile
      /\ Unrefused(callee) => Unrefused(callee')
      /\ Alive(callee') => Alive(callee)
      /\ callee'.call.status = callee.call.status
           \/ (~Alive(callee') /\ callee'.call.status = Available)
  BY <1>2, <1>3 DEF Idle, Steady
<1>6. /\ IsHost(caller) => caller' = caller
      /\ ~IsHost(caller) => /\ caller' \in Session /\ caller'.config = caller.config
                            /\ caller'.linked = caller.linked
                            /\ caller'.verified = caller.verified
                            /\ caller'.suggested = caller.suggested
                            /\ Unrefused(caller) => Unrefused(caller')
                            /\ Alive(caller') => Alive(caller)
      /\ caller'.call.role = caller.call.role /\ caller'.call.profile = caller.call.profile
      /\ (IF IsHost(caller) THEN ~caller'.over ELSE Alive(caller'))
           => caller'.call.status = caller.call.status
  BY <1>2, <1>4 DEF Idle, Steady
<1>7. IsHost(caller') <=> IsHost(caller)
  BY <1>6, WhoIsHost
<1>8. (Known)' = Known /\ Compatible' = Compatible /\ E' = E
  BY <1>5, <1>6, <1>7 DEF Known, Compatible, E
<1>9. PairTypeOK'
  BY <1>1, <1>2, <1>5, <1>6 DEF Sound, PairTypeOK
<1>10. Linked'
  BY <1>1, <1>2, <1>5, <1>6, <1>7 DEF Sound, Linked
<1>11. OnlyPreferred'
  BY <1>1, <1>2, <1>5, <1>6, <1>7, <1>8 DEF Sound, OnlyPreferred
<1>12. CompatibleMeet'
  BY <1>1, <1>5, <1>6, <1>8 DEF Sound, CompatibleMeet, Compatible
<1>13. ASSUME Alive(callee'), ~CallerOver' PROVE Before' \/ During'
  <2>1. /\ Alive(callee) /\ ~CallerOver
        /\ caller'.call.status = caller.call.status
    BY <1>5, <1>6, <1>7, <1>13 DEF CallerOver
  <2>2. Before \/ During
    BY <2>1 DEF PairInv, Bargain
  <2>3. Before => Before'
    BY <1>2, <1>5, <1>6, <1>7, <1>8, <2>1 DEF Before, Unheard, Presented, AboutToRing
  <2>4. ASSUME During PROVE During'
    <3>1. PICK c \in Profiles : \E hC, hE \in 0 .. 2 : Negotiated(c, hC, hE)
      BY <2>4 DEF During
    <3>2. PICK hC \in 0 .. 2, hE \in 0 .. 2 : Negotiated(c, hC, hE)
      BY <3>1
    <3>3. /\ CallerTakes' = CallerTakes /\ Second(c)' = Second(c)
          /\ CalleeTakes(c)' = CalleeTakes(c)
      BY <1>5, <1>6, <1>7 DEF CallerTakes, CalleeTakes, Second, E
    <3>4. Negotiated(c, hC, hE)'
      BY <1>2, <1>5, <1>6, <1>7, <1>8, <3>2, <3>3
         DEF Negotiated, CalleeOffers, CallerOffers
    <3> QED BY <1>5, <2>1, <2>4, <3>4 DEF During
  <2> QED BY <2>2, <2>3, <2>4
<1> QED BY <1>9, <1>10, <1>11, <1>12, <1>13 DEF PairInv, Sound, Bargain

LEMMA VerifyCallerKeeps ==
    ASSUME PairInv, VerifyCaller
    PROVE  PairInv'
<1> DEFINE r == PeerVerified(callee)
           sent == Signals(r.events)
<1>1. /\ Sound /\ callee \in Session /\ toCaller \in Seq(Signal) /\ toCallee \in Seq(Signal)
      /\ E \in Profiles /\ E \in Known
  BY PairFields DEF PairInv
<1>2. identified /\ ~callee.verified /\ CalleeActs(r, toCallee)
  BY DEF VerifyCaller
<1>3. callee.linked /\ callee.call.role = "Incoming"
  BY <1>1 DEF Sound, Linked
<1>4. CASE ~Alive(callee)
  <2>1. r = Quiet(callee)
    BY <1>4 DEF PeerVerified
  <2>2. Hushed(callee, Quiet(callee))
    BY <1>1, IdleSelf, QuietHushed
  <2>3. PlainTail(toCallee, toCallee)
    BY DEF PlainTail
  <2> HIDE DEF r
  <2>4. Hushed(callee, r)
    BY <2>1, <2>2
  <2> QED BY <1>2, <2>3, <2>4, HushedCallee
<1>5. CASE Alive(callee)
  <2>1. /\ Steady(callee, r.session) /\ r.session.verified
        /\ r.events \in Seq(Event) /\ Offering(r.events, E)
        /\ sent # <<>> /\ Head(sent) = StatusSignal(Ringing)
    BY <1>1, <1>2, <1>3, <1>5, VerifiedRings DEF E
  <2>2. OneOffer(sent, E) /\ sent \in Seq(Signal)
    <3> DEFINE e == E
    <3>1. Offering(r.events, e) /\ e \in Profiles
      BY <1>1, <2>1
    <3> HIDE DEF e
    <3>2. OneOffer(sent, e) /\ sent \in Seq(Signal)
      BY <2>1, <3>1, SignalsAre
    <3> QED BY <3>2 DEF e
  <2>3. KnownOffers(sent, Known)
    <3> DEFINE e == E
               k == Known
    <3>1. OneOffer(sent, e) /\ e \in Profiles /\ e \in k
      BY <1>1, <2>2
    <3> HIDE DEF e, k, sent
    <3>2. KnownOffers(sent, k)
      BY <2>2, <3>1, KnownSent
    <3> QED BY <3>2 DEF k
  <2>4. /\ callee' = r.session /\ toCallee' = toCallee /\ toCaller' = toCaller \o sent
        /\ caller' = caller /\ identified' = identified
    BY <1>2 DEF CalleeActs
  <2> HIDE DEF r, sent
  <2>5. Sound'
    <3>1. SameCallee(callee, callee') /\ callee'.call.profile = callee.call.profile
      BY <2>1, <2>4 DEF SameCallee, Steady
    <3>2. callee'.call.profile \in Known
      BY <1>1, <3>1 DEF Sound, OnlyPreferred
    <3>3. Compatible => Unrefused(callee')
      BY <1>1, <2>1, <2>4 DEF Sound, CompatibleMeet, Steady
    <3>4. callee'.verified /\ SameOrTail(toCallee, toCallee')
      BY <2>1, <2>4 DEF SameOrTail
    <3> QED BY <1>1, <1>2, <2>2, <2>3, <2>4, <3>1, <3>2, <3>3, <3>4, CalleeKeeps
  <2>6. ASSUME ~CallerOver' PROVE Before'
    <3>1. ~CallerOver
      BY <2>4, <2>6 DEF CallerOver
    <3>2. Before /\ Presented
      BY <1>2, <1>5, <3>1 DEF PairInv, Bargain, Before, During, Unheard, AboutToRing
    <3>3. /\ toCaller = <<>> /\ toCallee = <<>> /\ callee.call.profile = E
          /\ IsHost(caller) \/ caller.call.profile = caller.config.preferred
          /\ caller.call.status = Available
      BY <3>2 DEF Before, Presented
    <3>4. toCaller' = sent
      <4>1. <<>> \o sent = sent
        BY <2>2
      <4> QED BY <2>4, <3>3, <4>1
    <3>5. E' = E /\ callee'.call.profile = callee.call.profile /\ callee'.verified
      BY <2>1, <2>4 DEF E, Steady
    <3>6. AboutToRing'
      BY <2>1, <2>2, <2>4, <3>3, <3>4, <3>5 DEF AboutToRing
    <3> QED BY <2>4, <3>3, <3>5, <3>6 DEF Before
  <2> QED BY <2>5, <2>6 DEF PairInv, Bargain
<1> QED BY <1>4, <1>5

-----------------------------------------------------------------------------
(* The callee hears a signal *)

(* The callee keeps what it must, whatever it hears. *)
LEMMA CalleeHearsSoundly ==
    ASSUME Sound, DeliverToCallee
    PROVE  Sound'
<1> DEFINE sig == Head(toCallee)
           r == Receive(callee, sig)
           sent == Signals(r.events)
           k == Known
<1>1. /\ callee \in Session /\ toCaller \in Seq(Signal) /\ toCallee \in Seq(Signal)
      /\ k \in SUBSET Profiles /\ toCallee # <<>> /\ CalleeActs(r, Tail(toCallee))
  BY PairFields DEF DeliverToCallee
<1>2. callee.call.profile \in k /\ KnownOffers(toCallee, k)
  BY DEF Sound, OnlyPreferred
<1> HIDE DEF k
<1>3. sig \in Signal /\ (sig.kind = "profile" => sig.profile \in k)
  BY <1>1, <1>2, TailAt, KnownTail
<1> HIDE DEF sig
<1>4. Bound(callee, r, k)
  BY <1>1, <1>2, <1>3, ReceiveBound
<1>5. callee.verified \/ r = Quiet(callee)
  BY DEF Receive
<1>6. /\ callee' = r.session /\ toCallee' = Tail(toCallee) /\ toCaller' = toCaller \o sent
      /\ caller' = caller /\ identified' = identified
  BY <1>1 DEF CalleeActs
<1> HIDE DEF r
<1>7. sent \in Seq(Signal) /\ KnownOffers(sent, k)
  BY <1>4 DEF Bound
<1> HIDE DEF sent
<1>8. SameCallee(callee, callee') /\ callee'.call.profile \in k
      /\ callee'.verified = callee.verified
  BY <1>4, <1>6 DEF Bound, SameCallee
<1>9. callee'.verified \/ callee'.call.status = Available
  <2>1. CASE callee.verified
    BY <1>8, <2>1
  <2>2. CASE ~callee.verified
    <3>1. callee' = callee
      BY <1>5, <1>6, <2>2 DEF Quiet, Emit
    <3> QED BY <3>1 DEF Sound, Linked
  <2> QED BY <2>1, <2>2
<1>10. callee'.verified => identified
  BY <1>8 DEF Sound, Linked
<1>11. Compatible => Unrefused(callee')
  <2> SUFFICES ASSUME Compatible PROVE Unrefused(callee')
    OBVIOUS
  <2>1. k \subseteq callee.config.allowed
    BY CompatibleKnown DEF k
  <2>2. Unrefused(callee)
    BY DEF Sound, CompatibleMeet
  <2> QED BY <1>4, <1>6, <2>1, <2>2 DEF Bound
<1>12. SameOrTail(toCallee, toCallee')
  BY <1>1, <1>6 DEF SameOrTail
<1> QED BY <1>6, <1>7, <1>8, <1>9, <1>10, <1>11, <1>12, CalleeKeeps DEF k

(* An offer the callee hears is the caller's c; it adopts it and says so,  *)
(* or keeps its own and says that, or gives up.                            *)
LEMMA CalleeHearsOffer ==
    ASSUME Sound, During, Alive(callee), toCallee # <<>>, Head(toCallee).kind = "profile",
           CalleeActs(Receive(callee, Head(toCallee)), Tail(toCallee)), Alive(callee')
    PROVE  During'
<1> DEFINE sig == Head(toCallee)
           r == Receive(callee, sig)
           sent == Signals(r.events)
<1>1. /\ callee \in Session /\ toCaller \in Seq(Signal) /\ toCallee \in Seq(Signal)
      /\ E \in Profiles /\ E \in callee.config.allowed
      /\ callee.call.profile \in Profiles
      /\ callee.linked /\ callee.verified /\ callee.call.role = "Incoming"
  BY PairFields DEF Sound, Linked, During
<1>2. /\ callee' = r.session /\ toCallee' = Tail(toCallee) /\ toCaller' = toCaller \o sent
      /\ caller' = caller /\ identified' = identified
  BY DEF CalleeActs
<1>3. PICK c \in Profiles : \E hC, hE \in 0 .. 2 : Negotiated(c, hC, hE)
  BY DEF During
<1>4. PICK hC \in 0 .. 2, hE \in 0 .. 2 : Negotiated(c, hC, hE)
  BY <1>3
<1>5. /\ hE < CallerOffers(hC) /\ sig = ProfileSignal(c)
      /\ Carries(Tail(toCallee), c, c, CallerOffers(hC), hE + 1)
  <2> DEFINE n == CallerOffers(hC)
  <2>1. n \in {1, 2} /\ Carries(toCallee, c, c, n, hE)
    BY <1>4, OffersTyped DEF Negotiated
  <2> HIDE DEF n
  <2>2. /\ hE < n /\ Head(toCallee) = ProfileSignal(IF hE = 0 THEN c ELSE c)
        /\ Carries(Tail(toCallee), c, c, n, hE + 1)
    BY <1>1, <2>1, CarriesHeard
  <2> QED BY <2>2 DEF n
<1>6. hE + 1 \in 0 .. 2 /\ hE \in 0 .. 1
  <2>1. CallerOffers(hC) \in {1, 2}
    BY <1>1, OffersTyped
  <2> QED BY <1>4, <1>5, <2>1
<1>7. /\ toCallee' = Tail(toCallee)
      /\ Carries(toCallee', c, c, CallerOffers(hC), hE + 1)
  BY <1>2, <1>5
<1> DEFINE q == Receive(callee, ProfileSignal(c))
<1>8. r = q
  BY <1>5
<1> HIDE DEF sig
<1>9. sent \in Seq(Signal) /\ (Plain(q.events) => NoOffer(sent))
      /\ \A x \in Profiles : Offering(q.events, x) => OneOffer(sent, x)
  <2>1. q.events \in Seq(Event)
    <3>1. c \in callee.config.allowed => q.events \in Seq(Event)
      BY <1>1, <1>3, ReceiveAdopts DEF Sound
    <3>2. c \notin callee.config.allowed => q.events \in Seq(Event)
      BY <1>1, <1>3, ReceiveRefuses DEF Sound
    <3> QED BY <3>1, <3>2
  <2>2. sent = Signals(q.events)
    BY <1>8
  <2> HIDE DEF q, sent
  <2>3. Signals(q.events) \in Seq(Signal) /\ (Plain(q.events) => NoOffer(Signals(q.events)))
        /\ \A x \in Profiles : Offering(q.events, x) => OneOffer(Signals(q.events), x)
    BY <2>1, SignalsAre
  <2> QED BY <2>2, <2>3
<1>10. /\ callee' = q.session /\ toCaller' = toCaller \o sent
  BY <1>2, <1>8
<1>11. CASE CalleeTakes(c)
  <2>1. /\ q.session \in Session /\ q.session.config = callee.config
        /\ q.session.verified = callee.verified /\ q.session.suggested = callee.suggested
        /\ q.session.call.profile = c
        /\ callee.call.profile = c => Plain(q.events)
        /\ callee.call.profile # c => Offering(q.events, c)
    BY <1>1, <1>3, <1>11, ReceiveAdopts DEF CalleeTakes
  <2> HIDE DEF r, q, sent
  <2>2. /\ callee.call.profile = c => NoOffer(sent)
        /\ callee.call.profile # c => OneOffer(sent, c)
    BY <1>3, <1>9, <2>1
  <2>3. Second(c) = c
    BY <1>11 DEF Second
  <2>4. Carries(toCaller', E, c, CalleeOffers(c, hE + 1), hC)
    <3> DEFINE e == E
               n == CalleeOffers(c, hE)
    <3>1. Carries(toCaller, e, c, n, hC) /\ e \in Profiles
      BY <1>1, <1>4, <2>3 DEF Negotiated
    <3>2. CASE callee.call.profile = c
      <4>1. CalleeOffers(c, hE + 1) = n
        BY <1>4, <1>6, <2>3, <3>2 DEF Negotiated, CalleeOffers
      <4> HIDE DEF e, n
      <4>2. Carries(toCaller', e, c, n, hC)
        <5>1. NoOffer(sent) /\ sent \in Seq(Signal) /\ toCaller' = toCaller \o sent
          BY <1>9, <1>10, <2>2, <3>2
        <5>2. Carries(toCaller, e, c, n, hC) /\ e \in Profiles /\ c \in Profiles
          BY <1>3, <3>1
        <5> QED BY <1>1, <5>1, <5>2, CarriesJoined
      <4> QED BY <4>1, <4>2 DEF e
    <3>3. CASE callee.call.profile # c
      <4>1. n = 1 /\ CalleeOffers(c, hE + 1) = 2
        BY <1>4, <1>6, <2>3, <3>3 DEF Negotiated, CalleeOffers
      <4> HIDE DEF e, n
      <4>2. Carries(toCaller', e, c, 2, hC)
        BY <1>1, <1>3, <1>9, <1>10, <2>2, <3>1, <3>3, <4>1, CarriesJoined
      <4> QED BY <4>1, <4>2 DEF e
    <3> QED BY <3>2, <3>3
  <2>5. Negotiated(c, hC, hE + 1)'
    BY <1>2, <1>4, <1>6, <1>7, <1>10, <1>11, <2>1, <2>3, <2>4
       DEF Negotiated, CalleeOffers, CallerOffers, CallerTakes, CalleeTakes, Second, E
  <2> QED BY <1>1, <1>2, <1>3, <1>6, <1>10, <2>1, <2>5 DEF During
<1>12. CASE ~CalleeTakes(c)
  <2>1. /\ q.session \in Session /\ q.session.config = callee.config
        /\ q.session.verified = callee.verified
        /\ q.session.call.profile = callee.call.profile
        /\ callee.suggested => ~Alive(q.session)
        /\ ~callee.suggested => /\ q.session.suggested
                                /\ Offering(q.events, callee.call.profile)
    BY <1>1, <1>3, <1>12, ReceiveRefuses DEF CalleeTakes
  <2> HIDE DEF r, q, sent
  <2>2. ~callee.suggested /\ hE = 0
    BY <1>4, <1>6, <1>10, <1>12, <2>1 DEF Negotiated
  <2>3. Second(c) = E /\ callee.call.profile = E /\ c # E
    BY <1>1, <1>4, <1>12, <2>2 DEF Negotiated, Second, CalleeTakes
  <2>4. OneOffer(sent, E)
    <3>1. OneOffer(sent, callee.call.profile)
      BY <1>1, <1>9, <2>1, <2>2
    <3> QED BY <2>3, <3>1
  <2>5. Carries(toCaller', E, E, 2, hC)
    <3> DEFINE e == E
    <3>1. Carries(toCaller, e, e, 1, hC) /\ e \in Profiles /\ OneOffer(sent, e)
      BY <1>1, <1>4, <2>2, <2>3, <2>4 DEF Negotiated, CalleeOffers
    <3> HIDE DEF e
    <3>2. Carries(toCaller', e, e, 2, hC)
      BY <1>1, <1>9, <1>10, <3>1, CarriesJoined
    <3> QED BY <3>2 DEF e
  <2>6. CalleeOffers(c, 1) = 2
    BY <2>3 DEF CalleeOffers
  <2>7. Negotiated(c, hC, 1)'
    BY <1>2, <1>4, <1>7, <1>10, <1>12, <2>1, <2>2, <2>3, <2>5, <2>6
       DEF Negotiated, CalleeOffers, CallerOffers, CallerTakes, CalleeTakes, Second, E
  <2> QED BY <1>1, <1>2, <1>3, <1>10, <2>1, <2>7 DEF During
<1> QED BY <1>11, <1>12

LEMMA DeliverToCalleeKeeps ==
    ASSUME PairInv, DeliverToCallee
    PROVE  PairInv'
<1> DEFINE sig == Head(toCallee)
           r == Receive(callee, sig)
<1>1. /\ Sound /\ callee \in Session /\ toCallee \in Seq(Signal)
      /\ toCallee # <<>> /\ CalleeActs(r, Tail(toCallee))
  BY PairFields DEF PairInv, DeliverToCallee
<1>2. Sound'
  BY <1>1, CalleeHearsSoundly
<1>3. sig \in Signal
  BY <1>1, TailAt
<1>4. ASSUME sig.kind # "profile" PROVE PairInv'
  <2>1. callee.call.role = "Incoming"
    BY <1>1 DEF Sound, Linked
  <2> HIDE DEF sig
  <2>2. Calmly(callee, r)
    BY <1>1, <1>3, <1>4, <2>1, ReceiveCalmly
  <2>3. callee.verified \/ Hushed(callee, r)
    <3>1. callee.verified \/ r = Quiet(callee)
      BY DEF Receive
    <3>2. Hushed(callee, Quiet(callee))
      BY <1>1, IdleSelf, QuietHushed
    <3> HIDE DEF r
    <3> QED BY <3>1, <3>2
  <2>4. PlainTail(toCallee, Tail(toCallee))
    BY <1>1, <1>4 DEF PlainTail, sig
  <2> HIDE DEF r
  <2> QED BY <1>1, <2>2, <2>3, <2>4, CalleeCalm DEF Calmly
<1>5. ASSUME sig.kind = "profile", Alive(callee'), ~CallerOver' PROVE During'
  <2>1. callee' = r.session /\ caller' = caller
    BY <1>1 DEF CalleeActs
  <2>2. Alive(callee)
    <3>1. ~Alive(callee) => r = Quiet(callee)
      BY DEF Receive
    <3> QED BY <1>5, <2>1, <3>1 DEF Quiet, Emit
  <2>3. ~CallerOver
    BY <1>5, <2>1 DEF CallerOver
  <2>4. During
    BY <1>1, <2>2, <2>3 DEF PairInv, Bargain, Before
  <2> QED BY <1>1, <1>5, <2>2, <2>4, CalleeHearsOffer
<1> QED BY <1>2, <1>4, <1>5 DEF PairInv, Bargain

-----------------------------------------------------------------------------
(* The caller hears a signal *)

LEMMA AllKnown ==
    ASSUME NEW ch \in Seq(Signal)
    PROVE  KnownOffers(ch, Profiles)
<1>1. \A k \in DOMAIN ch : ch[k] \in Signal
  OBVIOUS
<1> QED BY <1>1, SignalCases DEF KnownOffers

(* What a host that is still in its call makes of a signal. *)
LEMMA HostHears ==
    ASSUME IsHost(caller), caller \in HostCaller, NEW sig \in Signal
    PROVE  LET r == CallerHears(sig)
               o == ReceiveSignal(caller.call, sig) IN
           /\ r.session \in HostCaller /\ r.session.call.role = caller.call.role
           /\ r.events \in Seq(Event)
           /\ caller.over => r.session.over
           /\ ~caller.over => r.session.call = o.call /\ r.events = o.actions
<1> DEFINE r == CallerHears(sig)
           o == ReceiveSignal(caller.call, sig)
           ended == \E i \in DOMAIN o.actions : o.actions[i].type = "Terminate"
           d == [over |-> ended, call |-> o.call]
<1>1. caller.call \in Call /\ caller.over \in BOOLEAN
  BY WhoIsHost
<1>2. o.call \in Call /\ o.call.role = caller.call.role /\ o.actions \in Seq(Event)
  BY <1>1, OutcomeTyped
<1>3. CASE caller.over
  <2>1. r = Quiet(caller)
    BY <1>3 DEF CallerHears
  <2> HIDE DEF r
  <2>2. r.session = caller /\ r.events = <<>>
    BY <2>1 DEF Quiet, Emit
  <2> QED BY <1>3, <2>2 DEF r
<1>4. CASE ~caller.over
  <2>1. r = Emit(d, o.actions)
    BY <1>4 DEF CallerHears
  <2>2. ended \in BOOLEAN
    OBVIOUS
  <2> HIDE DEF o, ended
  <2>3. d \in HostCaller /\ d.call = o.call
    BY <1>2, <2>2 DEF HostCaller
  <2> HIDE DEF r, d
  <2>4. r.session = d /\ r.events = o.actions
    BY <2>1 DEF Emit
  <2>5. /\ r.session \in HostCaller /\ r.session.call.role = caller.call.role
        /\ r.events \in Seq(Event)
        /\ r.session.call = o.call /\ r.events = o.actions
    BY <1>2, <2>3, <2>4
  <2> QED BY <1>4, <2>5 DEF r, o
<1> QED BY <1>3, <1>4

LEMMA CallerHearsSoundly ==
    ASSUME Sound, DeliverToCaller
    PROVE  Sound' /\ (IsHost(caller)' <=> IsHost(caller))
<1> DEFINE sig == Head(toCaller)
           r == CallerHears(sig)
           sent == Signals(r.events)
           k == Known
<1>1. /\ toCaller \in Seq(Signal) /\ toCallee \in Seq(Signal)
      /\ k \in SUBSET Profiles /\ toCaller # <<>> /\ CallerActs(r, Tail(toCaller))
      /\ IsHost(caller) => caller \in HostCaller
      /\ ~IsHost(caller) => caller \in Session
      /\ identified \in BOOLEAN
  BY PairFields DEF DeliverToCaller
<1>2. KnownOffers(toCaller, k) /\ (~IsHost(caller) => caller.call.profile \in k)
  BY DEF Sound, OnlyPreferred
<1>3. IsHost(caller) => k = Profiles
  BY DEF Known
<1> HIDE DEF k
<1>4. sig \in Signal /\ (sig.kind = "profile" => sig.profile \in k)
  BY <1>1, <1>2, TailAt, KnownTail
<1> HIDE DEF sig
<1>5. /\ caller' = r.session /\ toCaller' = Tail(toCaller) /\ toCallee' = toCallee \o sent
      /\ identified' = (identified \/ Identifies(r.events)) /\ callee' = callee
  BY <1>1 DEF CallerActs
<1>6. /\ SameCaller(caller, caller')
      /\ ~IsHost(caller) => caller'.call.profile \in k
      /\ Compatible => Unrefused(caller')
      /\ sent \in Seq(Signal) /\ KnownOffers(sent, k)
  <2>1. CASE IsHost(caller)
    <3>1. /\ r.session \in HostCaller /\ r.session.call.role = caller.call.role
          /\ r.events \in Seq(Event)
      BY <1>1, <1>4, <2>1, HostHears
    <3> HIDE DEF r
    <3>2. sent \in Seq(Signal)
      BY <3>1, SignalsAre
    <3>3. KnownOffers(sent, k)
      BY <1>3, <2>1, <3>2, AllKnown
    <3> QED BY <1>5, <2>1, <3>1, <3>2, <3>3 DEF SameCaller, Compatible
  <2>2. CASE ~IsHost(caller)
    <3>1. r = Receive(caller, sig)
      BY <2>2 DEF CallerHears
    <3>2. Bound(caller, Receive(caller, sig), k)
      BY <1>1, <1>2, <1>4, <2>2, ReceiveBound
    <3> HIDE DEF r
    <3>3. Bound(caller, r, k)
      BY <3>1, <3>2
    <3>4. Compatible => Unrefused(r.session)
      <4> SUFFICES ASSUME Compatible PROVE Unrefused(r.session)
        OBVIOUS
      <4>1. k \subseteq caller.config.allowed
        BY CompatibleKnown DEF k
      <4>2. Unrefused(caller)
        BY DEF Sound, CompatibleMeet
      <4> QED BY <3>3, <4>1, <4>2 DEF Bound
    <3> QED BY <1>5, <2>2, <3>3, <3>4 DEF Bound, SameCaller
  <2> QED BY <2>1, <2>2
<1> HIDE DEF r, sent
<1>7. SameOrTail(toCaller, toCaller')
  BY <1>1, <1>5 DEF SameOrTail
<1>8. identified' \in BOOLEAN /\ (identified => identified')
  BY <1>1, <1>5
<1> QED BY <1>5, <1>6, <1>7, <1>8, CallerKeeps DEF k

(* How far the negotiation has come does not depend on the caller's state. *)
LEMMA SameTerms ==
    ASSUME SameCaller(caller, caller'), callee' = callee, NEW c
    PROVE  /\ E' = E /\ (CallerTakes' <=> CallerTakes) /\ (CalleeTakes(c)' <=> CalleeTakes(c))
           /\ Second(c)' = Second(c)
           /\ IsHost(caller') <=> IsHost(caller)
           /\ ~IsHost(caller) => caller'.config = caller.config
<1>1. /\ IsHost(caller') <=> IsHost(caller)
      /\ ~IsHost(caller) => caller'.config = caller.config
  BY WhoIsHost DEF SameCaller
<1> QED BY <1>1 DEF E, CallerTakes, CalleeTakes, Second

(* A signal that offers nothing. *)
LEMMA CallerHearsPlain ==
    ASSUME Sound, During, toCaller # <<>>, Head(toCaller).kind # "profile",
           CallerActs(CallerHears(Head(toCaller)), Tail(toCaller)), ~CallerOver, ~CallerOver',
           IsHost(caller') <=> IsHost(caller)
    PROVE  During'
<1> DEFINE sig == Head(toCaller)
           r == CallerHears(sig)
           sent == Signals(r.events)
<1>1. /\ toCaller \in Seq(Signal) /\ toCallee \in Seq(Signal)
      /\ IsHost(caller) => caller \in HostCaller
      /\ ~IsHost(caller) => caller \in Session
      /\ caller.call \in Call /\ caller.call.status >= Ringing
      /\ caller.call.role = "Outgoing"
  BY PairFields DEF Sound, Linked, During
<1>2. /\ caller' = r.session /\ toCaller' = Tail(toCaller) /\ toCallee' = toCallee \o sent
      /\ callee' = callee
  BY DEF CallerActs
<1>3. sig \in Signal /\ sig.kind # "profile"
  BY <1>1, TailAt
<1> HIDE DEF sig
<1>4. /\ SameCaller(caller, r.session)
      /\ r.session.call.profile = caller.call.profile
      /\ r.session.call.status >= Ringing
      /\ ~IsHost(caller) => r.session.suggested = caller.suggested
      /\ r.events \in Seq(Event) /\ Plain(r.events)
  <2>1. CASE IsHost(caller)
    <3> DEFINE o == ReceiveSignal(caller.call, sig)
    <3>1. ~caller.over
      BY <2>1 DEF CallerOver
    <3>2. /\ r.session \in HostCaller /\ r.session.call.role = caller.call.role
          /\ r.events \in Seq(Event) /\ r.session.call = o.call /\ r.events = o.actions
      BY <1>1, <1>3, <2>1, <3>1, HostHears
    <3>3. o.call \in Call /\ o.call.status >= caller.call.status
      BY <1>1, <1>3, OutcomeTyped
    <3>4. o.call.profile = caller.call.profile /\ Plain(o.actions)
      BY <1>1, <1>3, SignalCalm
    <3>5. o.call.status >= Ringing
      BY <1>1, <3>3, StatusValues DEF Call
    <3> HIDE DEF r, o
    <3> QED BY <2>1, <3>2, <3>4, <3>5 DEF SameCaller
  <2>2. CASE ~IsHost(caller)
    <3>1. r = Receive(caller, sig)
      BY <2>2 DEF CallerHears
    <3>2. Calmly(caller, Receive(caller, sig))
      BY <1>1, <1>3, <2>2, ReceiveCalmly
    <3> HIDE DEF r
    <3>3. Calmly(caller, r)
      BY <3>1, <3>2
    <3>4. Alive(r.session)
      BY <1>2, <2>2 DEF CallerOver
    <3>5. r.session.call.status >= caller.call.status /\ r.session.call \in Call
      BY <3>3, <3>4, SessionFields DEF Calmly, Steady
    <3>6. r.session.call.status >= Ringing
      BY <1>1, <3>5, StatusValues DEF Call
    <3> QED BY <2>2, <3>3, <3>6 DEF Calmly, Steady, SameCaller
  <2> QED BY <2>1, <2>2
<1>5. NoOffer(sent) /\ sent \in Seq(Signal)
  BY <1>4, SignalsAre
<1> HIDE DEF r, sent
<1>6. PICK c \in Profiles : \E hC, hE \in 0 .. 2 : Negotiated(c, hC, hE)
  BY DEF During
<1>7. PICK hC \in 0 .. 2, hE \in 0 .. 2 : Negotiated(c, hC, hE)
  BY <1>6
<1>8. PlainTail(toCaller, toCaller')
  BY <1>2, <1>3 DEF PlainTail, sig
<1>9. Carries(toCaller', E, Second(c), CalleeOffers(c, hE), hC)
  <2> DEFINE x == E
             y == Second(c)
             n == CalleeOffers(c, hE)
  <2>1. x \in Profiles /\ y \in Profiles /\ n \in {1, 2} /\ Carries(toCaller, x, y, n, hC)
    BY <1>7, OffersTyped DEF Negotiated
  <2> HIDE DEF x, y, n
  <2>2. Carries(toCaller', x, y, n, hC)
    BY <1>1, <1>8, <2>1, CarriesTail
  <2> QED BY <2>2 DEF x, y, n
<1>10. Carries(toCallee', c, c, CallerOffers(hC), hE)
  <2> DEFINE n == CallerOffers(hC)
  <2>1. Carries(toCallee, c, c, n, hE)
    BY <1>7 DEF Negotiated
  <2> HIDE DEF n
  <2>2. Carries(toCallee', c, c, n, hE)
    BY <1>1, <1>2, <1>5, <2>1, CarriesJoined
  <2> QED BY <2>2 DEF n
<1>11. /\ E' = E /\ (CallerTakes' <=> CallerTakes) /\ (CalleeTakes(c)' <=> CalleeTakes(c))
       /\ Second(c)' = Second(c)
       /\ IsHost(caller') <=> IsHost(caller)
       /\ ~IsHost(caller) => caller'.config = caller.config
  BY <1>2, <1>4, SameTerms
<1>12. Negotiated(c, hC, hE)'
  <2>1. /\ CalleeOffers(c, hE)' = CalleeOffers(c, hE)
        /\ CallerOffers(hC)' = CallerOffers(hC)
    BY <1>11 DEF CalleeOffers, CallerOffers
  <2>2. /\ caller'.call.profile = caller.call.profile
        /\ ~IsHost(caller) => caller'.suggested = caller.suggested
    BY <1>2, <1>4
  <2>3. /\ Carries(toCaller', E', Second(c)', CalleeOffers(c, hE)', hC)
        /\ Carries(toCallee', c, c, CallerOffers(hC)', hE)
    BY <1>9, <1>10, <1>11, <2>1
  <2>4. hC >= 1 /\ ~CallerTakes => ~IsHost(caller) /\ caller.suggested
    BY <1>7 DEF Negotiated, CallerTakes
  <2> QED BY <1>2, <1>7, <1>11, <2>2, <2>3, <2>4 DEF Negotiated
<1> QED BY <1>2, <1>4, <1>12 DEF During

(* A caller that can take the profile it is offered does; a host takes     *)
(* every profile.                                                          *)
LEMMA CallerTakesOffer ==
    ASSUME Sound, ~CallerOver, NEW p \in Profiles,
           IsHost(caller) \/ p \in caller.config.allowed,
           caller.call.profile \in Profiles
    PROVE  LET r == CallerHears(ProfileSignal(p)) IN
           /\ SameCaller(caller, r.session)
           /\ r.session.call.profile = p /\ r.session.call.status = caller.call.status
           /\ ~IsHost(caller) => r.session.suggested = caller.suggested
           /\ r.events \in Seq(Event) /\ Plain(r.events)
<1> DEFINE sig == ProfileSignal(p)
           r == CallerHears(sig)
<1>1. /\ IsHost(caller) => caller \in HostCaller
      /\ ~IsHost(caller) => caller \in Session
      /\ caller.call \in Call /\ caller.call.role = "Outgoing"
      /\ ~IsHost(caller) => caller.linked /\ caller.verified
      /\ sig \in Signal
  BY PairFields, ProfileSignalIs DEF Sound, Linked
<1>2. CASE IsHost(caller)
  <2> DEFINE o == ReceiveSignal(caller.call, sig)
  <2>1. ~caller.over
    BY <1>2 DEF CallerOver
  <2>2. /\ r.session \in HostCaller /\ r.session.call.role = caller.call.role
        /\ r.events \in Seq(Event) /\ r.session.call = o.call /\ r.events = o.actions
    BY <1>1, <1>2, <2>1, HostHears
  <2>3. o.call.profile = p /\ o.call.status = caller.call.status /\ Wordless(o.actions)
    BY <1>1, ProfileHeard
  <2> HIDE DEF r, o
  <2>4. Plain(r.events)
    BY <2>2, <2>3, MutePlain
  <2> QED BY <1>2, <2>2, <2>3, <2>4 DEF SameCaller, r
<1>3. CASE ~IsHost(caller)
  <2> DEFINE q == Receive(caller, sig)
  <2>1. r = q
    BY <1>3 DEF CallerHears
  <2>2. Alive(caller)
    BY <1>3 DEF CallerOver
  <2>3. /\ q.session \in Session /\ q.session.config = caller.config
        /\ q.session.linked = caller.linked
        /\ q.session.verified = caller.verified /\ q.session.suggested = caller.suggested
        /\ q.session.call.role = caller.call.role
        /\ q.session.call.status = caller.call.status
        /\ q.session.call.profile = p
        /\ q.events \in Seq(Event) /\ Plain(q.events)
    BY <1>1, <1>3, <2>2, ReceiveAdopts
  <2> HIDE DEF r, q
  <2> QED BY <1>3, <2>1, <2>3 DEF SameCaller, r
<1> QED BY <1>2, <1>3

LEMMA CallerHearsOffer ==
    ASSUME Sound, During, toCaller # <<>>, Head(toCaller).kind = "profile",
           CallerActs(CallerHears(Head(toCaller)), Tail(toCaller)), ~CallerOver, ~CallerOver',
           IsHost(caller') <=> IsHost(caller)
    PROVE  During'
<1> DEFINE sig == Head(toCaller)
           r == CallerHears(sig)
           sent == Signals(r.events)
<1>1. /\ toCaller \in Seq(Signal) /\ toCallee \in Seq(Signal)
      /\ ~IsHost(caller) => caller \in Session /\ caller.linked /\ caller.verified
                              /\ Alive(caller)
      /\ caller.call.status >= Ringing /\ callee.verified
      /\ E \in Profiles /\ E \in callee.config.allowed
      /\ ~IsHost(caller) => caller.config.preferred \in caller.config.allowed
  BY PairFields DEF Sound, Linked, During, CallerOver
<1>2. /\ caller' = r.session /\ toCaller' = Tail(toCaller) /\ toCallee' = toCallee \o sent
      /\ callee' = callee
  BY DEF CallerActs
<1>3. PICK c \in Profiles : \E hC, hE \in 0 .. 2 : Negotiated(c, hC, hE)
  BY DEF During
<1>4. PICK hC \in 0 .. 2, hE \in 0 .. 2 : Negotiated(c, hC, hE)
  BY <1>3
<1> DEFINE x == IF hC = 0 THEN E ELSE Second(c)
<1>5. /\ hC < CalleeOffers(c, hE) /\ sig = ProfileSignal(x)
      /\ Carries(Tail(toCaller), E, Second(c), CalleeOffers(c, hE), hC + 1)
  <2> DEFINE e == E
             y == Second(c)
             n == CalleeOffers(c, hE)
  <2>1. e \in Profiles /\ y \in Profiles /\ n \in {1, 2} /\ Carries(toCaller, e, y, n, hC)
    BY <1>4, OffersTyped DEF Negotiated
  <2> HIDE DEF e, y, n
  <2>2. /\ hC < n /\ Head(toCaller) = ProfileSignal(IF hC = 0 THEN e ELSE y)
        /\ Carries(Tail(toCaller), e, y, n, hC + 1)
    BY <1>1, <2>1, CarriesHeard
  <2> QED BY <2>2 DEF e, y, n
<1>6. hC \in 0 .. 1 /\ hC + 1 \in 0 .. 2
  <2>1. CalleeOffers(c, hE) \in {1, 2}
    BY OffersTyped
  <2> QED BY <1>4, <1>5, <2>1
<1>7. x \in Profiles /\ Second(c) \in Profiles /\ caller.call.profile \in Profiles
  BY <1>1, <1>3, <1>4, OffersTyped DEF Negotiated
<1>8. hC = 1 => hE >= 1 /\ c # E
  BY <1>4, <1>5 DEF CalleeOffers
<1> DEFINE q == CallerHears(ProfileSignal(x))
<1>9. r = q
  BY <1>5
<1>10. /\ caller' = q.session /\ sent = Signals(q.events)
  BY <1>2, <1>9
<1> HIDE DEF sig, r, sent
<1>11. CASE IsHost(caller) \/ x \in caller.config.allowed
  <2> HIDE DEF x
  <2>1. /\ SameCaller(caller, q.session)
        /\ q.session.call.profile = x /\ q.session.call.status = caller.call.status
        /\ ~IsHost(caller) => q.session.suggested = caller.suggested
        /\ q.events \in Seq(Event) /\ Plain(q.events)
    BY <1>7, <1>11, CallerTakesOffer
  <2> HIDE DEF q
  <2>2. NoOffer(sent) /\ sent \in Seq(Signal)
    BY <1>10, <2>1, SignalsAre
  <2>3. hC = 0 => CallerTakes
    BY <1>11 DEF CallerTakes, x
  <2>4. hC = 1 => CallerTakes \/ CalleeTakes(c)
    BY <1>8, <1>11 DEF CallerTakes, Second, x
  <2>5. CallerOffers(hC + 1) = CallerOffers(hC)
    BY <1>6, <2>3 DEF CallerOffers
  <2>6. Carries(toCallee', c, c, CallerOffers(hC), hE)
    <3> DEFINE n == CallerOffers(hC)
    <3>1. Carries(toCallee, c, c, n, hE)
      BY <1>4 DEF Negotiated
    <3> HIDE DEF n
    <3>2. Carries(toCallee', c, c, n, hE)
      BY <1>1, <1>2, <1>3, <2>2, <3>1, CarriesJoined
    <3> QED BY <3>2 DEF n
  <2>7. /\ E' = E /\ (CallerTakes' <=> CallerTakes) /\ (CalleeTakes(c)' <=> CalleeTakes(c))
        /\ Second(c)' = Second(c)
        /\ IsHost(caller') <=> IsHost(caller)
        /\ ~IsHost(caller) => caller'.config = caller.config
    BY <1>2, <1>10, <2>1, SameTerms
  <2>8. /\ CalleeOffers(c, hE)' = CalleeOffers(c, hE)
        /\ CallerOffers(hC + 1)' = CallerOffers(hC)
    BY <2>5, <2>7 DEF CalleeOffers, CallerOffers
  <2>9. /\ Carries(toCaller', E', Second(c)', CalleeOffers(c, hE)', hC + 1)
        /\ Carries(toCallee', c, c, CallerOffers(hC + 1)', hE)
    BY <1>2, <1>5, <2>6, <2>7, <2>8
  <2>10. /\ caller'.call.profile = x
         /\ ~IsHost(caller) => caller'.suggested = caller.suggested
    BY <1>10, <2>1
  <2>11. caller'.call.profile = IF hC + 1 = 0 \/ (hC + 1 = 1 /\ ~CallerTakes) THEN c
                                ELSE IF hC + 1 = 1 THEN E ELSE Second(c)
    BY <1>6, <2>3, <2>10 DEF x
  <2>12. hC + 1 >= 1 /\ ~CallerTakes => caller'.suggested
    <3>1. ~CallerTakes => hC = 1 /\ ~IsHost(caller)
      BY <1>6, <2>3 DEF CallerTakes
    <3>2. ~CallerTakes => caller.suggested
      BY <1>4, <3>1 DEF Negotiated
    <3> QED BY <2>10, <3>1, <3>2
  <2>13. hC + 1 = 2 => CallerTakes \/ CalleeTakes(c)
    BY <1>6, <2>4
  <2>14. Negotiated(c, hC + 1, hE)'
    BY <1>2, <1>4, <2>7, <2>9, <2>11, <2>12, <2>13 DEF Negotiated
  <2>15. caller'.call.status >= Ringing /\ callee'.verified
    BY <1>1, <1>2, <1>10, <2>1
  <2> QED BY <1>3, <1>6, <2>14, <2>15 DEF During
<1>12. CASE ~IsHost(caller) /\ x \notin caller.config.allowed
  <2>1. q = Receive(caller, ProfileSignal(x))
    BY <1>12 DEF CallerHears
  <2> DEFINE z == Receive(caller, ProfileSignal(x))
  <2> HIDE DEF x
  <2>2. /\ z.session \in Session /\ z.session.config = caller.config
        /\ z.session.linked = caller.linked /\ z.session.verified = caller.verified
        /\ z.session.call.role = caller.call.role
        /\ z.session.call.profile = caller.call.profile
        /\ z.events \in Seq(Event)
        /\ caller.suggested => ~Alive(z.session)
        /\ ~caller.suggested => /\ z.session.suggested
                                /\ z.session.call.status = caller.call.status
                                /\ Offering(z.events, caller.call.profile)
    BY <1>1, <1>7, <1>12, ReceiveRefuses
  <2> HIDE DEF q, z
  <2>3. caller' = z.session /\ sent = Signals(z.events)
    BY <1>10, <2>1 DEF z
  <2>4. ~caller.suggested
    <3>1. Alive(caller')
      BY <1>12 DEF CallerOver
    <3> QED BY <2>2, <2>3, <3>1
  <2>5. hC = 0 /\ ~CallerTakes
    <3>1. CASE hC = 0
      BY <1>12, <3>1 DEF CallerTakes, x
    <3>2. CASE hC = 1
      <4>1. CallerTakes
        BY <1>4, <2>4, <3>2 DEF Negotiated
      <4>2. x = Second(c) /\ c = caller.config.preferred
        BY <1>4, <1>12, <3>2 DEF Negotiated, x
      <4>3. x \in caller.config.allowed
        BY <1>1, <1>12, <4>1, <4>2 DEF Second, CallerTakes
      <4> QED BY <1>12, <4>3
    <3> QED BY <1>6, <3>1, <3>2
  <2>6. caller.call.profile = c
    BY <1>4, <2>5 DEF Negotiated
  <2>7. OneOffer(sent, c) /\ sent \in Seq(Signal)
    BY <1>3, <2>2, <2>3, <2>4, <2>6, SignalsAre
  <2>8. CallerOffers(0) = 1 /\ CallerOffers(1) = 2
    BY <2>5 DEF CallerOffers
  <2>9. Carries(toCallee', c, c, 2, hE)
    <3>1. Carries(toCallee, c, c, 1, hE)
      BY <1>4, <2>5, <2>8 DEF Negotiated
    <3> QED BY <1>1, <1>2, <1>3, <2>7, <3>1, CarriesJoined
  <2>10. SameCaller(caller, caller')
    BY <1>12, <2>2, <2>3 DEF SameCaller
  <2>11. /\ E' = E /\ (CallerTakes' <=> CallerTakes) /\ (CalleeTakes(c)' <=> CalleeTakes(c))
         /\ Second(c)' = Second(c)
         /\ IsHost(caller') <=> IsHost(caller)
         /\ ~IsHost(caller) => caller'.config = caller.config
    BY <1>2, <2>10, SameTerms
  <2>12. /\ CalleeOffers(c, hE)' = CalleeOffers(c, hE)
         /\ CallerOffers(1)' = 2
    BY <2>8, <2>11 DEF CalleeOffers, CallerOffers
  <2>13. /\ Carries(toCaller', E', Second(c)', CalleeOffers(c, hE)', 1)
         /\ Carries(toCallee', c, c, CallerOffers(1)', hE)
    BY <1>2, <1>5, <2>5, <2>9, <2>11, <2>12
  <2>14. caller'.call.profile = c /\ caller'.suggested
    BY <2>2, <2>3, <2>4, <2>6
  <2>15. Negotiated(c, 1, hE)'
    BY <1>2, <1>4, <2>5, <2>11, <2>13, <2>14 DEF Negotiated
  <2>16. caller'.call.status >= Ringing /\ callee'.verified
    BY <1>1, <1>2, <2>2, <2>3, <2>4
  <2> QED BY <1>3, <2>15, <2>16 DEF During
<1> QED BY <1>11, <1>12

(* AVAILABLE is the first thing a caller hears, and RINGING the next. *)
LEMMA CallerHearsAvailable ==
    ASSUME Sound, Before, Unheard, ~CallerOver, IsHost(caller') <=> IsHost(caller),
           CallerActs(CallerHears(Head(toCaller)), Tail(toCaller))
    PROVE  Before'
<1> DEFINE sig == StatusSignal(Available)
           r == CallerHears(sig)
<1>1. /\ IsHost(caller) => caller \in HostCaller
      /\ ~IsHost(caller) => /\ caller \in Session /\ caller.linked /\ caller.verified
                            /\ caller.config.preferred \in Profiles
                            /\ caller.call.profile = caller.config.preferred
                            /\ Alive(caller)
      /\ caller.call \in Call /\ caller.call.role = "Outgoing" /\ caller.call.status = Calling
  BY PairFields DEF Sound, Linked, Before, Unheard, CallerOver
<1>2. Head(toCaller) = sig /\ Tail(toCaller) = <<>>
  <2> HIDE DEF sig
  <2>1. Head(<<sig>>) = sig /\ Tail(<<sig>>) = <<>>
    OBVIOUS
  <2> QED BY <2>1 DEF Unheard, sig
<1>3. sig \in Signal
  BY StatusValues DEF Signal
<1>4. /\ r.session.call.status = Available
      /\ ~IsHost(caller) => r.session.config = caller.config
                            /\ r.session.call.profile = caller.call.profile
      /\ r.events \in Seq(Event) /\ Wordless(r.events)
  <2>1. CASE IsHost(caller)
    <3> DEFINE o == ReceiveSignal(caller.call, sig)
    <3>1. ~caller.over
      BY <2>1 DEF CallerOver
    <3>2. /\ r.events \in Seq(Event) /\ r.session.call = o.call /\ r.events = o.actions
      BY <1>1, <1>3, <2>1, <3>1, HostHears
    <3>3. o.call.status = Available /\ Wordless(o.actions)
      BY <1>1, AvailableHeard
    <3> HIDE DEF r, o
    <3> QED BY <2>1, <3>2, <3>3
  <2>2. CASE ~IsHost(caller)
    <3> DEFINE q == Receive(caller, sig)
    <3>1. r = q
      BY <2>2 DEF CallerHears
    <3>2. Calls(caller)
      BY <1>1, <2>2 DEF Calls
    <3>3. Climbs(caller, q, Available) /\ Wordless(q.events)
      BY <1>1, <3>2, ReceiveAvailableFirst
    <3> HIDE DEF r, q
    <3> QED BY <3>1, <3>3 DEF Climbs, Steady
  <2> QED BY <2>1, <2>2
<1>5. Signals(r.events) = <<>>
  BY <1>4, SignalsAre
<1> HIDE DEF sig
<1>6. /\ caller' = r.session /\ toCaller' = <<>> /\ toCallee' = toCallee \o Signals(r.events)
      /\ callee' = callee
  BY <1>2 DEF CallerActs
<1> HIDE DEF r
<1>7. toCallee' = <<>>
  <2>1. toCallee' = <<>> \o <<>>
    BY <1>5, <1>6 DEF Before
  <2>2. <<>> \o <<>> = <<>>
    OBVIOUS
  <2> QED BY <2>1, <2>2
<1>8. Presented'
  BY <1>4, <1>6 DEF Presented, Unheard
<1> QED BY <1>4, <1>6, <1>7, <1>8 DEF Before, E

LEMMA CallerHearsRinging ==
    ASSUME Sound, Before, AboutToRing, ~CallerOver, IsHost(caller') <=> IsHost(caller),
           CallerActs(CallerHears(Head(toCaller)), Tail(toCaller))
    PROVE  During'
<1> DEFINE sig == StatusSignal(Ringing)
           r == CallerHears(sig)
           d == IF IsHost(caller) THEN EnsuredProfile(caller.call) ELSE caller.call.profile
           sent == Signals(r.events)
<1>1. /\ IsHost(caller) => caller \in HostCaller
      /\ ~IsHost(caller) => /\ caller \in Session /\ caller.linked /\ caller.verified
                            /\ caller.config.preferred \in Profiles
                            /\ caller.call.profile = caller.config.preferred
                            /\ Alive(caller)
      /\ caller.call \in Call /\ caller.call.role = "Outgoing"
      /\ caller.call.status = Available
      /\ toCaller \in Seq(Signal) /\ toCaller # <<>> /\ E \in Profiles
      /\ callee.verified /\ callee.call.profile = E
  BY PairFields DEF Sound, Linked, Before, AboutToRing, CallerOver
<1>2. Head(toCaller) = sig /\ sig \in Signal /\ sig.kind # "profile"
  BY StatusValues DEF AboutToRing, Signal, StatusSignal
<1>3. d \in Profiles
  BY <1>1, EnsuredIsProfile
<1>4. PICK c \in Profiles : c = d
  BY <1>3
<1>5. /\ SameCaller(caller, r.session)
      /\ r.session.call.status = Ringing /\ r.session.call.profile = c
      /\ r.events \in Seq(Event) /\ Offering(r.events, c)
  <2>1. CASE IsHost(caller)
    <3> DEFINE o == ReceiveSignal(caller.call, sig)
    <3>1. ~caller.over
      BY <2>1 DEF CallerOver
    <3>2. /\ r.session \in HostCaller /\ r.session.call.role = caller.call.role
          /\ r.events \in Seq(Event) /\ r.session.call = o.call /\ r.events = o.actions
      BY <1>1, <1>2, <2>1, <3>1, HostHears
    <3>3. /\ o.call.profile = EnsuredProfile(caller.call) /\ o.call.status = Ringing
          /\ Offering(o.actions, EnsuredProfile(caller.call))
      BY <1>1, RingingHeard
    <3>4. c = EnsuredProfile(caller.call)
      BY <1>4, <2>1
    <3> HIDE DEF r, o, d
    <3> QED BY <2>1, <3>2, <3>3, <3>4 DEF SameCaller
  <2>2. CASE ~IsHost(caller)
    <3> DEFINE q == Receive(caller, sig)
    <3>1. r = q /\ c = caller.call.profile
      BY <1>4, <2>2 DEF CallerHears
    <3>2. Calls(caller)
      BY <1>1, <2>2 DEF Calls
    <3>3. Climbs(caller, q, Ringing) /\ Offering(q.events, caller.call.profile)
      BY <1>1, <3>2, ReceiveRingingFirst
    <3> HIDE DEF r, q, d
    <3> QED BY <1>1, <2>2, <3>1, <3>3 DEF Climbs, Steady, SameCaller
  <2> QED BY <2>1, <2>2
<1>6. ~IsHost(caller) => c = caller.config.preferred
  BY <1>1, <1>4
<1>7. caller' = r.session /\ toCaller' = Tail(toCaller) /\ toCallee' = toCallee \o sent
      /\ callee' = callee
  BY <1>2 DEF CallerActs
<1> HIDE DEF d, r
<1>8. OneOffer(sent, c) /\ sent \in Seq(Signal)
  BY <1>5, SignalsAre
<1> HIDE DEF sent, sig
<1>9. OneOffer(toCallee', c)
  <2>1. toCallee' = <<>> \o sent
    BY <1>7 DEF Before
  <2>2. <<>> \o sent = sent
    BY <1>8
  <2> QED BY <1>8, <2>1, <2>2
<1>10. OneOffer(toCaller', E)
  <2> DEFINE e == E
  <2>1. OneOffer(toCaller, e) /\ e \in Profiles
    BY <1>1 DEF AboutToRing
  <2> HIDE DEF e
  <2>2. OneOffer(Tail(toCaller), e)
    BY <1>1, <1>2, <2>1, HeadPlain
  <2> QED BY <1>7, <2>2 DEF e
<1>11. /\ E' = E /\ (CallerTakes' <=> CallerTakes) /\ (CalleeTakes(c)' <=> CalleeTakes(c))
       /\ Second(c)' = Second(c)
       /\ IsHost(caller') <=> IsHost(caller)
       /\ ~IsHost(caller) => caller'.config = caller.config
  BY <1>5, <1>7, SameTerms
<1>12. CalleeOffers(c, 0)' = 1 /\ CallerOffers(0)' = 1
  BY DEF CalleeOffers, CallerOffers
<1>13. /\ Carries(toCaller', E', Second(c)', CalleeOffers(c, 0)', 0)
       /\ Carries(toCallee', c, c, CallerOffers(0)', 0)
  BY <1>9, <1>10, <1>11, <1>12 DEF Carries
<1>14. Negotiated(c, 0, 0)'
  BY <1>1, <1>5, <1>6, <1>7, <1>11, <1>13 DEF Negotiated
<1>15. caller'.call.status >= Ringing /\ callee'.verified
  BY <1>1, <1>5, <1>7, StatusValues
<1>16. 0 \in 0 .. 2
  OBVIOUS
<1> QED BY <1>14, <1>15, <1>16 DEF During

LEMMA DeliverToCallerKeeps ==
    ASSUME PairInv, DeliverToCaller
    PROVE  PairInv'
<1> DEFINE r == CallerHears(Head(toCaller))
<1>1. /\ Sound /\ toCaller # <<>> /\ CallerActs(r, Tail(toCaller))
      /\ IsHost(caller) => caller \in HostCaller
      /\ ~IsHost(caller) => caller \in Session
      /\ toCaller \in Seq(Signal)
  BY PairFields DEF PairInv, DeliverToCaller
<1>2. Sound' /\ (IsHost(caller') <=> IsHost(caller))
  BY <1>1, CallerHearsSoundly
<1>3. ASSUME Alive(callee'), ~CallerOver' PROVE Before' \/ During'
  <2>1. callee' = callee /\ caller' = r.session
    BY <1>1 DEF CallerActs
  <2>2. ~CallerOver
    <3>1. CASE IsHost(caller)
      <4>1. Head(toCaller) \in Signal
        BY <1>1, TailAt
      <4>2. caller.over => r.session.over
        BY <1>1, <3>1, <4>1, HostHears
      <4> QED BY <1>2, <1>3, <2>1, <3>1, <4>2 DEF CallerOver
    <3>2. CASE ~IsHost(caller)
      <4>1. ~Alive(caller) => r = Quiet(caller)
        BY <3>2 DEF CallerHears, Receive
      <4> HIDE DEF r
      <4>2. ~Alive(caller) => r.session = caller
        BY <4>1 DEF Quiet, Emit
      <4> QED BY <1>2, <1>3, <2>1, <3>2, <4>2 DEF CallerOver
    <3> QED BY <3>1, <3>2
  <2>3. Before \/ During
    BY <1>3, <2>1, <2>2 DEF PairInv, Bargain
  <2>4. CASE Before
    <3>1. Unheard \/ AboutToRing
      BY <1>1, <2>4 DEF Before, Presented
    <3>2. Unheard => Before'
      BY <1>1, <1>2, <2>2, <2>4, CallerHearsAvailable
    <3>3. AboutToRing => During'
      BY <1>1, <1>2, <2>2, <2>4, CallerHearsRinging
    <3> QED BY <3>1, <3>2, <3>3
  <2>5. CASE During
    <3>1. CASE Head(toCaller).kind = "profile"
      BY <1>1, <1>2, <1>3, <2>2, <2>5, <3>1, CallerHearsOffer
    <3>2. CASE Head(toCaller).kind # "profile"
      BY <1>1, <1>2, <1>3, <2>2, <2>5, <3>2, CallerHearsPlain
    <3> QED BY <3>1, <3>2
  <2> QED BY <2>3, <2>4, <2>5
<1> QED BY <1>2, <1>3 DEF PairInv, Bargain

-----------------------------------------------------------------------------
(* A call begins, and where the negotiation ends *)

LEMMA NewSessionFresh ==
    ASSUME NEW role \in {"Incoming", "Outgoing"}, NEW config \in Config
    PROVE  LET s == NewSession(role, config) IN
           /\ s \in Session /\ s.config = config /\ Alive(s) /\ Unrefused(s)
           /\ ~s.linked /\ ~s.verified
           /\ s.call.role = role /\ s.call.profile = config.preferred
           /\ s.call.status = IF role = "Incoming" THEN Available ELSE Calling
<1> DEFINE s == NewSession(role, config)
           call == IF role = "Incoming" THEN IncomingCall ELSE OutgoingCall(config.preferred)
           d == SwitchTo(call, config.preferred).call
<1>1. config.preferred \in Profiles
  BY DEF Config
<1>2. call \in Call /\ call.role = role
      /\ call.status = IF role = "Incoming" THEN Available ELSE Calling
  BY <1>1, StatusValues DEF IncomingCall, OutgoingCall, Call
<1> HIDE DEF call
<1>3. d = Using(call, config.preferred)
  BY <1>2 DEF SwitchTo, Result, Using, Call
<1>4. d \in Call /\ d.role = role /\ d.profile = config.preferred /\ d.status = call.status
  BY <1>1, <1>2, <1>3 DEF Using, Call
<1>5. /\ s.call = d /\ s.config = config /\ ~s.linked /\ ~s.verified
      /\ s.ended = NotEnded /\ s.profileLeft = Never
  BY DEF NewSession, call
<1> HIDE DEF d, s
<1>6. s \in Session
  BY NewSessionIs DEF s
<1>7. NotEnded # "ProfileUnsupported"
  BY SessionAssumption
<1> QED BY <1>2, <1>4, <1>5, <1>6, <1>7 DEF s, Alive, Unrefused

LEMMA ConnectedIs ==
    ASSUME NEW config \in Config
    PROVE  LET s == Connected(config) IN
           /\ s \in Session /\ s.config = config /\ Alive(s) /\ Unrefused(s)
           /\ s.linked /\ s.verified /\ s.call.role = "Outgoing"
           /\ s.call.profile = config.preferred /\ s.call.status = Calling
<1> DEFINE n == NewSession("Outgoing", config)
           u == [n EXCEPT !.linked = TRUE]
           v == [u EXCEPT !.verified = TRUE]
<1>1. /\ n \in Session /\ n.config = config /\ Alive(n) /\ Unrefused(n)
      /\ ~n.linked /\ ~n.verified
      /\ n.call.role = "Outgoing" /\ n.call.profile = config.preferred
      /\ n.call.status = Calling
  BY NewSessionFresh
<1> HIDE DEF n
<1>2. LinkIsUp(n).session = u
  BY <1>1 DEF LinkIsUp, Emit
<1>3. /\ u \in Session /\ u.config = config /\ Alive(u) /\ Unrefused(u)
      /\ u.linked /\ ~u.verified
      /\ u.call.role = "Outgoing" /\ u.call.profile = config.preferred
      /\ u.call.status = Calling
  BY <1>1 DEF Session, Alive, Unrefused
<1> HIDE DEF u
<1>4. PeerVerified(u).session = v
  BY <1>3 DEF PeerVerified, Incoming, Quiet, Emit
<1>5. /\ v \in Session /\ v.config = config /\ Alive(v) /\ Unrefused(v)
      /\ v.linked /\ v.verified
      /\ v.call.role = "Outgoing" /\ v.call.profile = config.preferred
      /\ v.call.status = Calling
  BY <1>3 DEF Session, Alive, Unrefused
<1> HIDE DEF v
<1> QED BY <1>2, <1>4, <1>5 DEF Connected, n

LEMMA CalledIs ==
    ASSUME NEW config \in Config
    PROVE  LET r == LinkIsUp(NewSession("Incoming", config))
               s == r.session IN
           /\ s \in Session /\ s.config = config /\ Alive(s) /\ Unrefused(s)
           /\ s.linked /\ ~s.verified /\ s.call.role = "Incoming"
           /\ s.call.profile = config.preferred /\ s.call.status = Available
           /\ Signals(r.events) = <<StatusSignal(Available)>>
<1> DEFINE n == NewSession("Incoming", config)
           u == [n EXCEPT !.linked = TRUE]
           e == <<SendSignal(StatusSignal(Available))>>
           r == LinkIsUp(n)
<1>1. /\ n \in Session /\ n.config = config /\ Alive(n) /\ Unrefused(n)
      /\ ~n.linked /\ ~n.verified
      /\ n.call.role = "Incoming" /\ n.call.profile = config.preferred
      /\ n.call.status = Available
  BY NewSessionFresh
<1> HIDE DEF n
<1>2. r = Emit(u, e)
  BY <1>1 DEF LinkIsUp, Incoming, IncomingLinkEstablished, SendStatus
<1>3. /\ u \in Session /\ u.config = config /\ Alive(u) /\ Unrefused(u)
      /\ u.linked /\ ~u.verified
      /\ u.call.role = "Incoming" /\ u.call.profile = config.preferred
      /\ u.call.status = Available
  BY <1>1 DEF Session, Alive, Unrefused
<1>4. Signals(e) = <<StatusSignal(Available)>>
  <2>1. StatusSignal(Available) \in Signal
    BY StatusValues DEF Signal
  <2> QED BY <2>1, SignalsOne
<1> HIDE DEF u, e, r
<1>5. r.session = u /\ r.events = e
  BY <1>2 DEF Emit
<1> QED BY <1>3, <1>4, <1>5 DEF r, n

LEMMA PairBegins ==
    ASSUME PairInit
    PROVE  PairInv
<1>1. PICK config \in Callees :
         /\ callee = LinkIsUp(NewSession("Incoming", config)).session
         /\ toCaller = Signals(LinkIsUp(NewSession("Incoming", config)).events)
  BY DEF PairInit
<1>2. /\ callee \in Session /\ callee.config = config /\ Alive(callee) /\ Unrefused(callee)
      /\ callee.linked /\ ~callee.verified /\ callee.call.role = "Incoming"
      /\ callee.call.profile = config.preferred /\ callee.call.status = Available
      /\ toCaller = <<StatusSignal(Available)>>
  BY <1>1, PairAssumption, CalledIs
<1>3. /\ toCallee = <<>> /\ identified = FALSE
  BY DEF PairInit
<1>4. /\ IsHost(caller) => caller \in HostCaller
      /\ ~IsHost(caller) => /\ caller \in Session /\ caller.linked /\ caller.verified
                            /\ caller.call.profile = caller.config.preferred
                            /\ Unrefused(caller)
      /\ caller.call.role = "Outgoing" /\ caller.call.status = Calling
  <2>1. CASE \E cfg \in Callers : caller = Connected(cfg)
    <3>1. PICK cfg \in Callers : caller = Connected(cfg)
      BY <2>1
    <3>2. cfg \in Config
      BY PairAssumption
    <3>3. /\ caller \in Session /\ caller.config = cfg /\ Unrefused(caller)
          /\ caller.linked /\ caller.verified /\ caller.call.role = "Outgoing"
          /\ caller.call.profile = cfg.preferred /\ caller.call.status = Calling
      BY <3>1, <3>2, ConnectedIs
    <3> QED BY <3>3, WhoIsHost
  <2>2. CASE \E p \in HostOffers : caller = [over |-> FALSE, call |-> OutgoingCall(p)]
    <3>1. PICK p \in HostOffers : caller = [over |-> FALSE, call |-> OutgoingCall(p)]
      BY <2>2
    <3>2. p \in Profiles \cup {NoProfile}
      BY PairAssumption
    <3>3. /\ OutgoingCall(p) \in Call /\ OutgoingCall(p).role = "Outgoing"
          /\ OutgoingCall(p).status = Calling
      BY <3>2, StatusValues DEF OutgoingCall, Call
    <3>4. caller \in HostCaller /\ caller.call = OutgoingCall(p)
      BY <3>1, <3>3 DEF HostCaller
    <3> QED BY <3>3, <3>4, WhoIsHost
  <2> QED BY <2>1, <2>2 DEF PairInit
<1>5. toCaller \in Seq(Signal) /\ NoOffer(toCaller) /\ toCallee \in Seq(Signal) /\ NoOffer(toCallee)
  <2> DEFINE a == StatusSignal(Available)
  <2>1. a \in Signal /\ a.kind # "profile"
    BY StatusValues DEF Signal, StatusSignal
  <2>2. toCaller = <<a>>
    BY <1>2
  <2> HIDE DEF a
  <2> QED BY <1>3, <2>1, <2>2 DEF NoOffer
<1>6. KnownOffers(toCaller, Known) /\ KnownOffers(toCallee, Known)
  BY <1>5, KnownSent
<1>7. /\ ~IsHost(caller) => caller.call.profile \in Known
      /\ callee.call.profile = E /\ E \in Known
  BY <1>2, <1>4, SessionFields DEF Known, E
<1>8. PairTypeOK
  BY <1>2, <1>3, <1>4, <1>5 DEF PairTypeOK
<1>9. Linked
  BY <1>2, <1>3, <1>4 DEF Linked
<1>10. OnlyPreferred
  BY <1>6, <1>7 DEF OnlyPreferred
<1>11. CompatibleMeet
  BY <1>2, <1>4 DEF CompatibleMeet, Compatible
<1>12. Before
  BY <1>2, <1>3, <1>4, <1>7 DEF Before, Unheard
<1> QED BY <1>8, <1>9, <1>10, <1>11, <1>12 DEF PairInv, Sound, Bargain

LEMMA PairStep ==
    ASSUME PairInv, [PairNext]_pairVars
    PROVE  PairInv'
<1>1. CASE DeliverToCaller
  BY <1>1, DeliverToCallerKeeps
<1>2. CASE DeliverToCallee
  BY <1>2, DeliverToCalleeKeeps
<1>3. CASE VerifyCaller
  BY <1>3, VerifyCallerKeeps
<1>4. CASE CalleeAnswers
  BY <1>4, CalleeAnswersKeeps
<1>5. CASE CallerConfigured \/ MediaToCaller \/ CallerTicks
  BY <1>5, CallerQuietlyKeeps
<1>6. CASE CalleeConfigured \/ MediaToCallee \/ CalleeTicks \/ CalleeLosesLink
  BY <1>6, CalleeQuietlyKeeps
<1>7. CASE CallerLosesLink
  BY <1>7, CallerLosesLinkKeeps
<1>8. CASE BothElapse
  BY <1>8, BothElapseKeeps
<1>9. CASE UNCHANGED pairVars
  BY <1>9 DEF pairVars, PairInv, Sound, PairTypeOK, Linked, OnlyPreferred, CompatibleMeet,
              Bargain, Before, Unheard, Presented, AboutToRing, During, Negotiated,
              CalleeOffers, CallerOffers, CallerTakes, CalleeTakes, Second, Known, E,
              Compatible, CallerOver
<1> QED BY <1>1, <1>2, <1>3, <1>4, <1>5, <1>6, <1>7, <1>8, <1>9 DEF PairNext

(* When nothing is on its way, each side has heard all the other offered;  *)
(* then both call for the same profile.                                    *)
LEMMA SettledMeets ==
    ASSUME PairInv
    PROVE  OffersMeet
<1>1. Sound
  BY DEF PairInv
<1>2. CompatibleNeverRefused
  BY <1>1 DEF CompatibleNeverRefused, Sound, CompatibleMeet, Unrefused
<1>3. ASSUME Settled, Alive(callee), ~CallerOver, caller.call.status = Established
      PROVE  caller.call.profile = callee.call.profile
  <2>1. During
    BY <1>3, StatusValues DEF PairInv, Bargain, Before, Unheard, Presented, AboutToRing
  <2>2. PICK c \in Profiles : \E hC, hE \in 0 .. 2 : Negotiated(c, hC, hE)
    BY <2>1 DEF During
  <2>3. PICK hC \in 0 .. 2, hE \in 0 .. 2 : Negotiated(c, hC, hE)
    BY <2>2
  <2>4. hC = CalleeOffers(c, hE) /\ hE = CallerOffers(hC)
    <3>1. /\ Carries(<<>>, E, Second(c), CalleeOffers(c, hE), hC)
          /\ Carries(<<>>, c, c, CallerOffers(hC), hE)
      BY <1>3, <2>3 DEF Negotiated, Settled
    <3> QED BY <3>1, CarriesNothing
  <2>5. hC >= 1 /\ hE >= 1
    BY <2>4 DEF CalleeOffers, CallerOffers
  <2>6. callee.call.profile = Second(c)
    BY <2>3, <2>5 DEF Negotiated
  <2>7. E \in callee.config.allowed
    BY <1>1, PairFields
  <2>8. CASE hC = 2
    BY <2>3, <2>6, <2>8 DEF Negotiated
  <2>9. CASE hC = 1
    <3>1. c = E
      BY <2>4, <2>5, <2>9 DEF CalleeOffers
    <3>2. Second(c) = E
      BY <3>1 DEF Second
    <3>3. caller.call.profile = E
      BY <2>3, <2>9, <3>1 DEF Negotiated
    <3> QED BY <2>6, <3>2, <3>3
  <2> QED BY <2>5, <2>8, <2>9
<1>4. CrossedOffersConverge
  BY <1>3 DEF CrossedOffersConverge
<1> QED BY <1>2, <1>4 DEF OffersMeet

(* The account of the negotiation holds in every state of a call between a *)
(* caller and an embedded callee, whatever the devices support.            *)
THEOREM PairIsInvariant == PairSpec => []PairInv
<1>1. PairInit => PairInv
  BY PairBegins
<1>2. PairInv /\ [PairNext]_pairVars => PairInv'
  BY PairStep
<1> QED BY <1>1, <1>2, PTL DEF PairSpec

(* Crossed offers converge on one profile, and two devices that support    *)
(* what the other prefers never give the call up over its profile (the     *)
(* session's adoption, echo and single counter-offer), for every set of    *)
(* profiles, every configuration and all times.                            *)
THEOREM ProfilesMeet == PairSpec => []OffersMeet
<1>1. PairInv => OffersMeet
  BY SettledMeets
<1> QED BY <1>1, PairIsInvariant, PTL
=============================================================================
