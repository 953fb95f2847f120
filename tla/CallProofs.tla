---------------------------- MODULE CallProofs ----------------------------
(***************************************************************************)
(* Facts about the transitions of one call, which both hosts and devices   *)
(* apply, and about the operations of a host's runtime core, for every set *)
(* of profiles, links and identities.  The proofs about the line, the      *)
(* handshake, the service and the embedded session rest on them.           *)
(***************************************************************************)
EXTENDS RuntimeCore, TLAPS

-----------------------------------------------------------------------------
(* The transitions of one call *)

(* The numbers behind the statuses. *)
LEMMA StatusValues ==
    /\ Busy = 0 /\ Rejected = 1 /\ Calling = 2 /\ Available = 3
    /\ Ringing = 4 /\ Connecting = 5 /\ Established = 6
    /\ Status = 0 .. 6 /\ AutoStatus = 2 .. 6
BY DEF Busy, Rejected, Calling, Available, Ringing, Connecting, Established,
       Status, AutoStatus

LEMMA SignalCases ==
    ASSUME NEW s \in Signal
    PROVE  \/ s.kind = "status" /\ s.status \in Status
           \/ s.kind = "profile" /\ s.profile \in Profiles
           \/ s.kind = "raw"
BY DEF Signal, StatusSignal, ProfileSignal, RawSignal

LEMMA EnsuredIsProfile ==
    ASSUME NEW c \in Call
    PROVE  EnsuredProfile(c) \in Profiles
BY ProfileAssumption DEF EnsuredProfile, Call

(* Moving a call to another status or another profile leaves the rest.     *)
SameButStatus(c, d) == d.role = c.role /\ d.answered = c.answered

LEMMA AtTyped ==
    ASSUME NEW c \in Call, NEW s \in AutoStatus
    PROVE  At(c, s) \in Call /\ At(c, s).status = s /\ SameButStatus(c, At(c, s))
BY DEF Call, At, SameButStatus

LEMMA UsingTyped ==
    ASSUME NEW c \in Call, NEW p \in Profiles
    PROVE  /\ Using(c, p) \in Call /\ Using(c, p).status = c.status
           /\ SameButStatus(c, Using(c, p))
BY DEF Call, Using, SameButStatus

(* What every answer to a received signal has in common: the call keeps    *)
(* its role and stays answered, its status does not move back, and the     *)
(* actions are at most four, none of them one the core adds by itself.     *)
Effects(actions) == {actions[i].type : i \in DOMAIN actions}

CallEffects == {"SendSignal", "IdentifyLocalIdentity", "SelectProfile", "SwitchProfile",
                "PrepareDialingPipelines", "ResetDialingPipelines", "OpenAudioPipelines",
                "StartAudioPipelines", "StartDialTone", "IgnoreSignal"}

CallAction == {a \in Action : a.type \in CallEffects}

Fits(actions) ==
    /\ actions \in Seq(CallAction)
    /\ Len(actions) <= ActionCapacity

Forward(c, r) ==
    /\ r.call \in Call
    /\ r.call.role = c.role
    /\ c.answered => r.call.answered
    /\ r.call.status >= c.status
    /\ Fits(r.actions)

LEMMA ActionsTyped ==
    /\ \A s \in Signal : SendSignal(s) \in CallAction /\ IgnoreSignal(s) \in CallAction
    /\ \A s \in Status : SendStatus(s) \in CallAction
    /\ \A p \in Profiles :
          /\ SelectProfile(p) \in CallAction /\ SwitchProfile(p) \in CallAction
          /\ SendSignal(ProfileSignal(p)) \in CallAction
    /\ \A t \in {"IdentifyLocalIdentity", "PrepareDialingPipelines",
                  "ResetDialingPipelines", "OpenAudioPipelines", "StartAudioPipelines",
                  "StartDialTone"} : Do(t) \in CallAction
<1>1. \A s \in Status : StatusSignal(s) \in Signal
  BY DEF Signal
<1>2. \A p \in Profiles : ProfileSignal(p) \in Signal
  BY DEF Signal
<1>3. \A s \in Signal : SendSignal(s) \in CallAction /\ IgnoreSignal(s) \in CallAction
  BY DEF SendSignal, IgnoreSignal, Action, CallAction, CallEffects
<1>4. \A s \in Status : SendStatus(s) \in CallAction
  BY <1>1, <1>3 DEF SendStatus
<1> QED BY <1>2, <1>3, <1>4 DEF SelectProfile, SwitchProfile, Do, Action, CallAction, CallEffects

LEMMA TuplesFit ==
    ASSUME NEW a \in CallAction, NEW b \in CallAction, NEW c \in CallAction,
           NEW d \in CallAction
    PROVE  /\ Fits(<<>>) /\ Fits(<<a>>) /\ Fits(<<a, b>>)
           /\ Fits(<<a, b, c>>) /\ Fits(<<a, b, c, d>>)
BY DEF Fits, ActionCapacity

LEMMA ForwardResult ==
    ASSUME NEW c \in Call, NEW d \in Call, SameButStatus(c, d), d.status >= c.status,
           NEW actions, Fits(actions)
    PROVE  Forward(c, Result(d, actions))
BY DEF Forward, Result, SameButStatus

LEMMA IgnoreForward ==
    ASSUME NEW c \in Call, NEW s \in Signal
    PROVE  Forward(c, Ignore(c, s))
<1>1. c.status >= c.status /\ SameButStatus(c, c)
  BY StatusValues DEF Call, SameButStatus
<1> QED BY <1>1, ForwardResult, TuplesFit, ActionsTyped DEF Ignore

LEMMA ReceiveAvailableForward ==
    ASSUME NEW c \in Call, NEW s \in Signal
    PROVE  Forward(c, ReceiveAvailable(c, s))
<1>1. CASE c.status >= Available
  BY <1>1, IgnoreForward DEF ReceiveAvailable
<1>2. CASE ~(c.status >= Available)
  <2>1. Available \in AutoStatus /\ Available >= c.status
    BY <1>2, StatusValues DEF Call
  <2>2. Fits(<<Do("IdentifyLocalIdentity")>>)
    BY ActionsTyped, TuplesFit
  <2> QED BY <1>2, <2>1, <2>2, AtTyped, ForwardResult DEF ReceiveAvailable
<1> QED BY <1>1, <1>2

LEMMA ReceiveRingingForward ==
    ASSUME NEW c \in Call, NEW s \in Signal
    PROVE  Forward(c, ReceiveRinging(c, s))
<1>1. CASE c.status >= Ringing
  BY <1>1, IgnoreForward DEF ReceiveRinging
<1>2. CASE ~(c.status >= Ringing)
  <2> DEFINE p == EnsuredProfile(c)
             d == At(Using(c, p), Ringing)
  <2>1. Ringing \in AutoStatus /\ Ringing >= c.status
    BY <1>2, StatusValues DEF Call
  <2>2. p \in Profiles
    BY EnsuredIsProfile
  <2>3. Using(c, p) \in Call /\ SameButStatus(c, Using(c, p))
    BY <2>2, UsingTyped
  <2>4. d \in Call /\ d.status = Ringing /\ SameButStatus(Using(c, p), d)
    BY <2>1, <2>3, AtTyped
  <2>5. SameButStatus(c, d)
    BY <2>3, <2>4 DEF SameButStatus
  <2>6. Fits(<<SelectProfile(p), Do("PrepareDialingPipelines"),
               SendSignal(ProfileSignal(p)), Do("StartDialTone")>>)
    BY <2>2, ActionsTyped, TuplesFit
  <2> QED BY <1>2, <2>1, <2>4, <2>5, <2>6, ForwardResult DEF ReceiveRinging
<1> QED BY <1>1, <1>2

LEMMA ReceiveConnectingForward ==
    ASSUME NEW c \in Call, NEW s \in Signal
    PROVE  Forward(c, ReceiveConnecting(c, s))
<1>0. Established \in Status
  BY StatusValues
<1>1. CASE c.status >= Connecting /\ c.role = "Outgoing"
  <2>1. c.status >= c.status /\ SameButStatus(c, c)
    BY StatusValues DEF Call, SameButStatus
  <2>2. Fits(<<SendStatus(Established)>>)
    BY <1>0, ActionsTyped, TuplesFit
  <2> QED BY <1>1, <2>1, <2>2, ForwardResult DEF ReceiveConnecting
<1>2. CASE c.status >= Connecting /\ c.role # "Outgoing"
  BY <1>2, IgnoreForward DEF ReceiveConnecting
<1>3. CASE ~(c.status >= Connecting)
  <2>1. Connecting \in AutoStatus /\ Connecting >= c.status
    BY <1>3, StatusValues DEF Call
  <2>2. /\ Fits(<<Do("ResetDialingPipelines"), Do("OpenAudioPipelines"),
                  SendStatus(Established)>>)
        /\ Fits(<<Do("ResetDialingPipelines"), Do("OpenAudioPipelines")>>)
    BY <1>0, ActionsTyped, TuplesFit
  <2> QED BY <1>3, <2>1, <2>2, AtTyped, ForwardResult DEF ReceiveConnecting
<1> QED BY <1>1, <1>2, <1>3

LEMMA ReceiveEstablishedForward ==
    ASSUME NEW c \in Call, NEW s \in Signal
    PROVE  Forward(c, ReceiveEstablished(c, s))
<1>1. CASE c.status = Established
  BY <1>1, IgnoreForward DEF ReceiveEstablished
<1>2. CASE c.status # Established
  <2>1. Established \in AutoStatus /\ Established >= c.status
    BY StatusValues DEF Call
  <2>2. Fits(<<Do("StartAudioPipelines")>>)
    BY ActionsTyped, TuplesFit
  <2> QED BY <1>2, <2>1, <2>2, AtTyped, ForwardResult DEF ReceiveEstablished
<1> QED BY <1>1, <1>2

LEMMA ReceiveProfileForward ==
    ASSUME NEW c \in Call, NEW p \in Profiles
    PROVE  Forward(c, ReceiveProfile(c, p))
<1>1. c.status >= c.status /\ SameButStatus(c, c)
  BY StatusValues DEF Call, SameButStatus
<1>2. /\ Using(c, p) \in Call /\ Using(c, p).status >= c.status
      /\ SameButStatus(c, Using(c, p))
  BY <1>1, UsingTyped
<1>3. Fits(<<>>) /\ Fits(<<SwitchProfile(p)>>) /\ Fits(<<SelectProfile(p)>>)
  BY ActionsTyped, TuplesFit
<1> QED BY <1>1, <1>2, <1>3, ForwardResult DEF ReceiveProfile

(* The one signal that is not answered going forward ends the call.        *)
EndsCall(c, s) ==
    /\ s.kind = "status" /\ s.status \in {Busy, Rejected}
    /\ ~DeafToStatus(c, s)

LEMMA ReceiveSignalEnds ==
    ASSUME NEW c \in Call, NEW s \in Signal, EndsCall(c, s)
    PROVE  ReceiveSignal(c, s).actions = <<Terminate(s.status)>>
BY DEF EndsCall, ReceiveSignal, ReceiveStatus, Result

LEMMA ReceiveSignalForward ==
    ASSUME NEW c \in Call, NEW s \in Signal, ~EndsCall(c, s)
    PROVE  Forward(c, ReceiveSignal(c, s))
<1>1. CASE s.kind = "profile"
  BY <1>1, SignalCases, ReceiveProfileForward DEF ReceiveSignal
<1>2. CASE s.kind # "profile" /\ (s.kind = "raw" \/ DeafToStatus(c, s))
  BY <1>2, IgnoreForward DEF ReceiveSignal
<1>3. CASE s.kind # "profile" /\ ~(s.kind = "raw" \/ DeafToStatus(c, s))
  <2>1. ReceiveSignal(c, s) = ReceiveStatus(c, s)
    BY <1>3 DEF ReceiveSignal
  <2>2. s.status \notin {Busy, Rejected}
    BY <1>3, SignalCases DEF EndsCall
  <2> QED BY <2>1, <2>2, ReceiveAvailableForward, ReceiveRingingForward,
             ReceiveConnectingForward, ReceiveEstablishedForward, IgnoreForward
          DEF ReceiveStatus
<1> QED BY <1>1, <1>2, <1>3

(* So do the two local operations that keep the call: the status goes from  *)
(* Ringing to Connecting, or stays.                                        *)
LEMMA AnswerForward ==
    ASSUME NEW c \in Call, CanAnswer(c)
    PROVE  Forward(c, Answer(c)) /\ Answer(c).call.answered
<1> DEFINE p == EnsuredProfile(c)
           d == At(Using(c, p), Connecting)
           a == <<SelectProfile(p), SendStatus(Connecting), Do("OpenAudioPipelines"),
                  SendStatus(Established)>>
<1>1. p \in Profiles
  BY EnsuredIsProfile
<1>2. Using(c, p) \in Call /\ SameButStatus(c, Using(c, p))
  BY <1>1, UsingTyped
<1>3. d \in Call /\ d.status = Connecting /\ SameButStatus(c, d)
  BY <1>2, AtTyped, StatusValues DEF SameButStatus
<1>4. /\ Answered(d) \in Call /\ Answered(d).answered
      /\ Answered(d).status = d.status /\ Answered(d).role = d.role
  BY <1>3 DEF Answered, Call
<1>5. Fits(a)
  <2>1. Connecting \in Status /\ Established \in Status
    BY StatusValues
  <2>2. /\ SelectProfile(p) \in CallAction /\ SendStatus(Connecting) \in CallAction
        /\ Do("OpenAudioPipelines") \in CallAction /\ SendStatus(Established) \in CallAction
    BY <1>1, <2>1, ActionsTyped
  <2> QED BY <2>2, TuplesFit
<1>6. Answer(c) = Result(Answered(d), a)
  BY DEF Answer
<1> HIDE DEF p, d, a
<1> QED BY <1>3, <1>4, <1>5, <1>6, StatusValues DEF Forward, Result, SameButStatus, CanAnswer

LEMMA SwitchToForward ==
    ASSUME NEW c \in Call, NEW p \in Profiles
    PROVE  Forward(c, SwitchTo(c, p))
<1>1. c.status >= c.status /\ SameButStatus(c, c)
  BY StatusValues DEF Call, SameButStatus
<1>2. /\ Using(c, p) \in Call /\ Using(c, p).status >= c.status
      /\ SameButStatus(c, Using(c, p))
  BY <1>1, UsingTyped
<1>3. Fits(<<>>) /\ Fits(<<SelectProfile(p)>>)
      /\ Fits(<<SendSignal(ProfileSignal(p)), SwitchProfile(p)>>)
  BY TuplesFit, ActionsTyped DEF Signal
<1> QED BY <1>1, <1>2, <1>3, ForwardResult DEF SwitchTo

(* An incoming call that is not answered opens and starts no audio,        *)
(* whatever it receives.                                                   *)
LEMMA UnansweredIsSilent ==
    ASSUME NEW c \in Call, NEW s \in Signal, c.role = "Incoming", ~c.answered
    PROVE  Effects(ReceiveSignal(c, s).actions)
              \subseteq {"IgnoreSignal", "SelectProfile", "SwitchProfile"}
<1>1. CASE s.kind = "profile"
  <2>1. ReceiveSignal(c, s).actions
           \in {<<>>, <<SwitchProfile(s.profile)>>, <<SelectProfile(s.profile)>>}
    BY <1>1 DEF ReceiveSignal, ReceiveProfile, Result
  <2> QED BY <2>1 DEF Effects, SwitchProfile, SelectProfile
<1>2. CASE s.kind # "profile"
  <2>1. ReceiveSignal(c, s).actions = <<IgnoreSignal(s)>>
    BY <1>2, SignalCases DEF ReceiveSignal, DeafToStatus, Ignore, Result
  <2> QED BY <2>1 DEF Effects, IgnoreSignal
<1> QED BY <1>1, <1>2

(* A transition opens the audio only of a call that is not yet connecting, *)
(* and starts it only of one that becomes established.                     *)
Plays(c, r) ==
    /\ "OpenAudioPipelines" \in Effects(r.actions) => c.status < Connecting
    /\ "StartAudioPipelines" \in Effects(r.actions) => r.call.status = Established

LEMMA ReceivePlays ==
    ASSUME NEW c \in Call, NEW s \in Signal
    PROVE  Plays(c, ReceiveSignal(c, s))
<1> DEFINE r == ReceiveSignal(c, s)
<1>1. CASE r.actions \in {<<>>, <<IgnoreSignal(s)>>, <<SwitchProfile(s.profile)>>,
                         <<SelectProfile(s.profile)>>, <<Terminate(s.status)>>}
  <2>1. Effects(r.actions)
           \subseteq {"IgnoreSignal", "SwitchProfile", "SelectProfile", "Terminate"}
    <3> HIDE DEF r
    <3> QED BY <1>1 DEF Effects, IgnoreSignal, SwitchProfile, SelectProfile, Terminate
  <2> QED BY <2>1 DEF Plays
<1>2. CASE r = ReceiveAvailable(c, s) \/ r = ReceiveRinging(c, s)
  BY <1>2 DEF ReceiveAvailable, ReceiveRinging, Ignore, Result, Plays, Effects, IgnoreSignal, Do,
              SelectProfile, SendSignal
<1>3. CASE r = ReceiveConnecting(c, s)
  <2>1. c.status < Connecting \/ c.status >= Connecting
    BY StatusValues DEF Call
  <2> QED BY <1>3, <2>1 DEF ReceiveConnecting, Ignore, Result, Plays, Effects, IgnoreSignal, Do,
                            SendStatus, SendSignal
<1>4. CASE r = ReceiveEstablished(c, s)
  <2>1. CASE c.status = Established
    BY <1>4, <2>1 DEF ReceiveEstablished, Ignore, Result, Plays, Effects, IgnoreSignal
  <2>2. CASE c.status # Established
    <3>1. r.call.status = Established /\ r.actions = <<Do("StartAudioPipelines")>>
      BY <1>4, <2>2, AtTyped, StatusValues DEF ReceiveEstablished, Result
    <3> QED BY <3>1 DEF Plays, Effects, Do
  <2> QED BY <2>1, <2>2
<1> QED BY <1>1, <1>2, <1>3, <1>4, SignalCases
        DEF ReceiveSignal, ReceiveStatus, ReceiveProfile, Ignore, Result

LEMMA AnswerPlays ==
    ASSUME NEW c \in Call, CanAnswer(c)
    PROVE  Plays(c, Answer(c))
<1>1. c.status < Connecting
  BY StatusValues DEF CanAnswer
<1>2. "StartAudioPipelines" \notin Effects(Answer(c).actions)
  BY DEF Answer, Result, Effects, SelectProfile, SendStatus, SendSignal, Do
<1> QED BY <1>1, <1>2 DEF Plays

(* What the answer to a signal says to the peer, and what it makes of the   *)
(* call: the owner of a call is led no further than the signal says, and   *)
(* an incoming call is answered by its user only.                          *)
Sends(actions) ==
    {actions[i].signal : i \in {j \in DOMAIN actions : actions[j].type = "SendSignal"}}

Leads(c, s, r) ==
    /\ r.call.answered = c.answered
    /\ r.call.status = c.status
         \/ /\ s.kind = "status" /\ r.call.status = s.status /\ s.status > c.status
            /\ c.role = "Incoming" => c.answered
    /\ s.kind = "profile" => r.call.profile = s.profile
    /\ s.kind # "profile" /\ c.status >= Ringing => r.call.profile = c.profile

Tells(c, r) ==
    /\ Sends(r.actions) \subseteq Signal
    /\ StatusSignal(Connecting) \notin Sends(r.actions)
    /\ StatusSignal(Established) \in Sends(r.actions) =>
          c.role = "Outgoing" /\ r.call.status >= Connecting
    /\ \A m \in Sends(r.actions) : m.kind = "profile" => c.status < Ringing

LEMMA SendsNothing ==
    ASSUME NEW c, NEW d, NEW a, NEW b,
           a.type # "SendSignal", b.type # "SendSignal"
    PROVE  /\ Tells(c, Result(d, <<>>)) /\ Tells(c, Result(d, <<a>>))
           /\ Tells(c, Result(d, <<a, b>>))
<1>1. Sends(<<>>) = {} /\ Sends(<<a>>) = {} /\ Sends(<<a, b>>) = {}
  BY DEF Sends
<1> QED BY <1>1 DEF Tells, Result

LEMMA SendsEstablished ==
    ASSUME NEW c, NEW d, c.role = "Outgoing", d.status >= Connecting,
           NEW a, NEW b, a.type # "SendSignal", b.type # "SendSignal"
    PROVE  /\ Tells(c, Result(d, <<SendStatus(Established)>>))
           /\ Tells(c, Result(d, <<a, b, SendStatus(Established)>>))
<1> DEFINE e == SendStatus(Established)
<1>1. /\ e.type = "SendSignal" /\ e.signal = StatusSignal(Established)
      /\ StatusSignal(Established) \in Signal
      /\ StatusSignal(Established) # StatusSignal(Connecting)
      /\ StatusSignal(Established).kind = "status"
  BY StatusValues DEF SendStatus, SendSignal, StatusSignal, Signal
<1> HIDE DEF e
<1>2. Sends(<<e>>) = {e.signal} /\ Sends(<<a, b, e>>) = {e.signal}
  <2>1. DOMAIN <<e>> = {1} /\ DOMAIN <<a, b, e>> = {1, 2, 3}
    OBVIOUS
  <2>2. {j \in DOMAIN <<e>> : <<e>>[j].type = "SendSignal"} = {1}
    BY <1>1, <2>1
  <2>3. {j \in DOMAIN <<a, b, e>> : <<a, b, e>>[j].type = "SendSignal"} = {3}
    BY <1>1, <2>1
  <2> QED BY <2>2, <2>3 DEF Sends
<1> QED BY <1>1, <1>2 DEF Tells, Result, e

LEMMA SameLeads ==
    ASSUME NEW c \in Call, NEW s \in Signal, s.kind # "profile", NEW a
    PROVE  Leads(c, s, Result(c, a))
BY DEF Leads, Result, Call

LEMMA AtLeads ==
    ASSUME NEW c \in Call, NEW s \in Signal, s.kind = "status", s.status \in AutoStatus,
           s.status > c.status, c.role = "Incoming" => c.answered, NEW a
    PROVE  Leads(c, s, Result(At(c, s.status), a))
BY AtTyped DEF Leads, Result, At, SameButStatus, Call

LEMMA IgnoreTold ==
    ASSUME NEW c \in Call, NEW s \in Signal
    PROVE  Tells(c, Ignore(c, s)) /\ (s.kind # "profile" => Leads(c, s, Ignore(c, s)))
<1>1. IgnoreSignal(s).type # "SendSignal"
  BY DEF IgnoreSignal
<1> QED BY <1>1, SendsNothing, SameLeads DEF Ignore

LEMMA ReceiveTold ==
    ASSUME NEW c \in Call, NEW s \in Signal, ~EndsCall(c, s)
    PROVE  Leads(c, s, ReceiveSignal(c, s)) /\ Tells(c, ReceiveSignal(c, s))
<1> DEFINE r == ReceiveSignal(c, s)
<1> SUFFICES Leads(c, s, r) /\ Tells(c, r)
  OBVIOUS
<1>1. CASE s.kind = "profile"
  <2> DEFINE p == s.profile
  <2>1. p \in Profiles /\ r = ReceiveProfile(c, p)
    BY <1>1, SignalCases DEF ReceiveSignal
  <2>2. SelectProfile(p).type # "SendSignal" /\ SwitchProfile(p).type # "SendSignal"
    BY DEF SelectProfile, SwitchProfile
  <2>3. /\ Using(c, p).profile = p /\ Using(c, p).status = c.status
        /\ Using(c, p).answered = c.answered
    BY <2>1 DEF Using, Call
  <2>4. Tells(c, r)
    <3> HIDE DEF p, r
    <3> QED BY <2>1, <2>2, SendsNothing DEF ReceiveProfile
  <2>5. Leads(c, s, r)
    <3> HIDE DEF r
    <3> QED BY <1>1, <2>1, <2>3 DEF ReceiveProfile, Leads, Result
  <2> QED BY <2>4, <2>5
<1>2. CASE s.kind = "raw" \/ (s.kind # "profile" /\ DeafToStatus(c, s))
  BY <1>2, IgnoreTold DEF ReceiveSignal
<1>3. CASE s.kind = "status" /\ ~DeafToStatus(c, s)
  <2>1. s.status \in 2 .. 6 /\ c.status \in 2 .. 6 /\ s.status \in AutoStatus
    BY <1>3, SignalCases, StatusValues DEF EndsCall, Call
  <2>2. c.role = "Incoming" => c.answered
    BY <1>3 DEF DeafToStatus
  <2>3. r = ReceiveStatus(c, s)
    BY <1>3 DEF ReceiveSignal
  <2> DEFINE idle == Do("ResetDialingPipelines")
             open == Do("OpenAudioPipelines")
             start == Do("StartAudioPipelines")
             who == Do("IdentifyLocalIdentity")
  <2>4. /\ idle.type # "SendSignal" /\ open.type # "SendSignal"
        /\ start.type # "SendSignal" /\ who.type # "SendSignal"
    BY DEF Do
  <2>5. CASE s.status = Available
    <3>1. r = ReceiveAvailable(c, s)
      BY <2>3, <2>5, StatusValues DEF ReceiveStatus
    <3>2. CASE c.status >= Available
      BY <1>3, <3>1, <3>2, IgnoreTold DEF ReceiveAvailable
    <3>3. CASE ~(c.status >= Available)
      <4>1. r = Result(At(c, s.status), <<who>>) /\ s.status > c.status
        BY <2>1, <2>5, <3>1, <3>3, StatusValues DEF ReceiveAvailable
      <4> HIDE DEF r, who
      <4> QED BY <1>3, <2>1, <2>2, <2>4, <4>1, AtLeads, SendsNothing
    <3> QED BY <3>2, <3>3
  <2>6. CASE s.status = Ringing
    <3>1. r = ReceiveRinging(c, s)
      BY <2>3, <2>6, StatusValues DEF ReceiveStatus
    <3>2. CASE c.status >= Ringing
      BY <1>3, <3>1, <3>2, IgnoreTold DEF ReceiveRinging
    <3>3. CASE ~(c.status >= Ringing)
      <4> DEFINE p == EnsuredProfile(c)
                 d == At(Using(c, p), Ringing)
                 t == SendSignal(ProfileSignal(p))
                 x == SelectProfile(p)
                 y == Do("PrepareDialingPipelines")
                 z == Do("StartDialTone")
      <4>1. r = Result(d, <<x, y, t, z>>)
        BY <3>1, <3>3 DEF ReceiveRinging
      <4>2. p \in Profiles
        BY EnsuredIsProfile
      <4>3. /\ x.type # "SendSignal" /\ y.type # "SendSignal" /\ z.type # "SendSignal"
            /\ t.type = "SendSignal" /\ t.signal = ProfileSignal(p)
        BY DEF SelectProfile, Do, SendSignal
      <4>4. /\ ProfileSignal(p) \in Signal /\ ProfileSignal(p).kind = "profile"
            /\ ProfileSignal(p) # StatusSignal(Connecting)
            /\ ProfileSignal(p) # StatusSignal(Established)
        BY <4>2 DEF ProfileSignal, StatusSignal, Signal
      <4>5. d.status = Ringing /\ d.answered = c.answered
        BY <4>2, UsingTyped, AtTyped, StatusValues DEF SameButStatus
      <4>6. Sends(<<x, y, t, z>>) = {ProfileSignal(p)}
        <5> HIDE DEF x, y, t, z
        <5>1. DOMAIN <<x, y, t, z>> = {1, 2, 3, 4}
          OBVIOUS
        <5>2. {j \in DOMAIN <<x, y, t, z>> : <<x, y, t, z>>[j].type = "SendSignal"} = {3}
          BY <4>3, <5>1
        <5> QED BY <4>3, <5>2 DEF Sends
      <4>7. c.status < Ringing /\ s.status > c.status
        BY <2>1, <2>6, <3>3, StatusValues
      <4> HIDE DEF r, d, p, x, y, t, z
      <4>8. Tells(c, r)
        BY <4>1, <4>4, <4>6, <4>7 DEF Tells, Result
      <4>9. Leads(c, s, r)
        BY <1>3, <2>1, <2>2, <2>6, <3>3, <4>1, <4>5, <4>7 DEF Leads, Result
      <4> QED BY <4>8, <4>9
    <3> QED BY <3>2, <3>3
  <2>7. CASE s.status = Connecting
    <3>1. r = ReceiveConnecting(c, s)
      BY <2>3, <2>7, StatusValues DEF ReceiveStatus
    <3>2. CASE c.status >= Connecting /\ c.role # "Outgoing"
      BY <1>3, <3>1, <3>2, IgnoreTold DEF ReceiveConnecting
    <3>3. CASE c.status >= Connecting /\ c.role = "Outgoing"
      <4>1. r = Result(c, <<SendStatus(Established)>>)
        BY <3>1, <3>3 DEF ReceiveConnecting
      <4> HIDE DEF r, idle
      <4> QED BY <1>3, <2>4, <3>3, <4>1, SameLeads, SendsEstablished
    <3>4. CASE ~(c.status >= Connecting)
      <4> DEFINE d == At(c, s.status)
      <4>1. \/ r = Result(d, <<idle, open, SendStatus(Established)>>) /\ c.role = "Outgoing"
            \/ r = Result(d, <<idle, open>>)
        BY <2>7, <3>1, <3>4 DEF ReceiveConnecting
      <4>2. s.status > c.status
        BY <2>1, <2>7, <3>4, StatusValues
      <4>3. d.status >= Connecting
        BY <2>1, <2>7, AtTyped, StatusValues
      <4> HIDE DEF r, idle, open
      <4>4. Leads(c, s, r)
        BY <1>3, <2>1, <2>2, <4>1, <4>2, AtLeads
      <4> HIDE DEF d
      <4> QED BY <2>4, <4>1, <4>3, <4>4, SendsNothing, SendsEstablished
    <3> QED BY <3>2, <3>3, <3>4
  <2>8. CASE s.status = Established
    <3>1. r = ReceiveEstablished(c, s)
      BY <2>3, <2>8, StatusValues DEF ReceiveStatus
    <3>2. CASE c.status = Established
      BY <1>3, <3>1, <3>2, IgnoreTold DEF ReceiveEstablished
    <3>3. CASE c.status # Established
      <4>1. r = Result(At(c, s.status), <<start>>) /\ s.status > c.status
        BY <2>1, <2>8, <3>1, <3>3, StatusValues DEF ReceiveEstablished
      <4> HIDE DEF r, start
      <4> QED BY <1>3, <2>1, <2>2, <2>4, <4>1, AtLeads, SendsNothing
    <3> QED BY <3>2, <3>3
  <2>9. CASE s.status = Calling
    <3>1. r = Ignore(c, s)
      BY <2>3, <2>9, StatusValues DEF ReceiveStatus
    <3> QED BY <1>3, <3>1, IgnoreTold
  <2> QED BY <2>1, <2>5, <2>6, <2>7, <2>8, <2>9, StatusValues
<1> QED BY <1>1, <1>2, <1>3, SignalCases

(* No transition overflows the four places of Actions (the assertion in    *)
(* Actions::push), from any state of the call and for any signal.          *)
THEOREM ActionsFit ==
    ASSUME NEW c \in Call, NEW s \in Signal, NEW p \in Profiles,
           NEW busy \in BOOLEAN, NEW allowed \in BOOLEAN, NEW timeout \in BOOLEAN
    PROVE  /\ Len(ReceiveSignal(c, s).actions) <= ActionCapacity
           /\ Len(IncomingLinkEstablished(busy)) <= ActionCapacity
           /\ Len(CallerIdentified(c, busy, allowed).actions) <= ActionCapacity
           /\ Len(Answer(c).actions) <= ActionCapacity
           /\ Len(RetryAnswer(c)) <= ActionCapacity
           /\ Len(SwitchTo(c, p).actions) <= ActionCapacity
           /\ Len(Hangup(c, timeout).actions) <= ActionCapacity
<1>1. Len(ReceiveSignal(c, s).actions) <= ActionCapacity
  <2>1. CASE EndsCall(c, s)
    <3>1. Len(<<Terminate(s.status)>>) = 1
      OBVIOUS
    <3>2. ReceiveSignal(c, s).actions = <<Terminate(s.status)>>
      BY <2>1, ReceiveSignalEnds
    <3> HIDE DEF Terminate
    <3> QED BY <3>1, <3>2 DEF ActionCapacity
  <2>2. CASE ~EndsCall(c, s)
    BY <2>2, ReceiveSignalForward DEF Forward, Fits
  <2> QED BY <2>1, <2>2
<1>2. Len(IncomingLinkEstablished(busy)) <= ActionCapacity
  BY DEF IncomingLinkEstablished, ActionCapacity
<1>3. Len(CallerIdentified(c, busy, allowed).actions) <= ActionCapacity
  BY DEF CallerIdentified, Result, ActionCapacity
<1>4. Len(Answer(c).actions) <= ActionCapacity
  BY DEF Answer, Result, ActionCapacity
<1>5. Len(RetryAnswer(c)) <= ActionCapacity
  BY DEF RetryAnswer, ActionCapacity
<1>6. Len(SwitchTo(c, p).actions) <= ActionCapacity
  BY DEF SwitchTo, Result, ActionCapacity
<1>7. Len(Hangup(c, timeout).actions) <= ActionCapacity
  BY DEF Hangup, Result, ActionCapacity
<1> QED BY <1>1, <1>2, <1>3, <1>4, <1>5, <1>6, <1>7

-----------------------------------------------------------------------------
(* The operations of a runtime core.  Each has one of a few shapes,        *)
(* whatever its signal or its arguments: it changes nothing its owner      *)
(* speaks of, it continues the active call, or it ends it; what admits or  *)
(* refuses a link, or begins a call, its owner's proofs expand.            *)

(* What commands order *)

LineAction ==
    Action \cup [type : {"StopAudioPipelines"}]
           \cup [type : {"CallTerminated"}, reason : Status \cup {NoReason}]

Commands == [link : Links, action : LineAction]

LEMMA OrdersFrom ==
    ASSUME NEW c, NEW k, NEW actions, NEW l, NEW type
    PROVE  Orders(Step(c, CommandsFrom(k, actions)), l, type)
              <=> l = k /\ type \in Effects(actions)
BY DEF Orders, Step, CommandsFrom, Command, Effects

LEMMA OrdersNothing ==
    ASSUME NEW c, NEW e, NEW l, NEW type
    PROVE  ~Orders(Step(c, <<>>), l, type) /\ ~Orders(Refuse(c, e), l, type)
BY DEF Orders, Step, Refuse

LEMMA OrdersBoth ==
    ASSUME NEW c, NEW d, NEW e, NEW l, NEW type,
           NEW a \in Seq(Commands), NEW b \in Seq(Commands)
    PROVE  Orders(Step(c, a \o b), l, type)
              <=> Orders(Step(d, a), l, type) \/ Orders(Step(e, b), l, type)
<1>1. ASSUME Orders(Step(c, a \o b), l, type)
      PROVE  Orders(Step(d, a), l, type) \/ Orders(Step(e, b), l, type)
  <2>1. PICK i \in DOMAIN (a \o b) :
            (a \o b)[i].link = l /\ (a \o b)[i].action.type = type
    BY <1>1 DEF Orders, Step
  <2>2. CASE i <= Len(a)
    <3>1. i \in DOMAIN a /\ (a \o b)[i] = a[i]
      BY <2>1, <2>2
    <3> QED BY <2>1, <3>1 DEF Orders, Step
  <2>3. CASE i > Len(a)
    <3>1. i - Len(a) \in DOMAIN b /\ (a \o b)[i] = b[i - Len(a)]
      BY <2>1, <2>3
    <3> QED BY <2>1, <3>1 DEF Orders, Step
  <2> QED BY <2>1, <2>2, <2>3
<1>2. ASSUME Orders(Step(d, a), l, type)
      PROVE  Orders(Step(c, a \o b), l, type)
  <2>1. PICK i \in DOMAIN a : a[i].link = l /\ a[i].action.type = type
    BY <1>2 DEF Orders, Step
  <2>2. i \in DOMAIN (a \o b) /\ (a \o b)[i] = a[i]
    BY <2>1
  <2> QED BY <2>1, <2>2 DEF Orders, Step
<1>3. ASSUME Orders(Step(e, b), l, type)
      PROVE  Orders(Step(c, a \o b), l, type)
  <2>1. PICK i \in DOMAIN b : b[i].link = l /\ b[i].action.type = type
    BY <1>3 DEF Orders, Step
  <2>2. i + Len(a) \in DOMAIN (a \o b) /\ (a \o b)[i + Len(a)] = b[i]
    BY <2>1
  <2> QED BY <2>1, <2>2 DEF Orders, Step
<1> QED BY <1>1, <1>2, <1>3

LEMMA EffectsBoth ==
    ASSUME NEW a \in Seq(LineAction), NEW b \in Seq(LineAction)
    PROVE  /\ a \o b \in Seq(LineAction)
           /\ Effects(a \o b) = Effects(a) \cup Effects(b)
<1>1. ASSUME NEW i \in DOMAIN (a \o b)
      PROVE  (a \o b)[i].type \in Effects(a) \cup Effects(b)
  <2>1. CASE i <= Len(a)
    <3>1. i \in DOMAIN a /\ (a \o b)[i] = a[i]
      BY <1>1, <2>1
    <3> QED BY <3>1 DEF Effects
  <2>2. CASE i > Len(a)
    <3>1. i - Len(a) \in DOMAIN b /\ (a \o b)[i] = b[i - Len(a)]
      BY <1>1, <2>2
    <3> QED BY <3>1 DEF Effects
  <2> QED BY <1>1, <2>1, <2>2
<1>2. ASSUME NEW i \in DOMAIN a
      PROVE  a[i].type \in Effects(a \o b)
  <2>1. i \in DOMAIN (a \o b) /\ (a \o b)[i] = a[i]
    OBVIOUS
  <2> QED BY <2>1 DEF Effects
<1>3. ASSUME NEW i \in DOMAIN b
      PROVE  b[i].type \in Effects(a \o b)
  <2>1. i + Len(a) \in DOMAIN (a \o b) /\ (a \o b)[i + Len(a)] = b[i]
    OBVIOUS
  <2> QED BY <2>1 DEF Effects
<1>4. Effects(a \o b) = Effects(a) \cup Effects(b)
  <2>1. \A x \in Effects(a \o b) : x \in Effects(a) \cup Effects(b)
    BY <1>1 DEF Effects
  <2>2. \A x \in Effects(a) : x \in Effects(a \o b)
    BY <1>2 DEF Effects
  <2>3. \A x \in Effects(b) : x \in Effects(a \o b)
    BY <1>3 DEF Effects
  <2> QED BY <2>1, <2>2, <2>3
<1>5. a \o b \in Seq(LineAction)
  OBVIOUS
<1> QED BY <1>4, <1>5

LEMMA SendsBoth ==
    ASSUME NEW a \in Seq(LineAction), NEW b \in Seq(LineAction)
    PROVE  Sends(a \o b) = Sends(a) \cup Sends(b)
<1> DEFINE Says(c, m) == \E i \in DOMAIN c : c[i].type = "SendSignal" /\ c[i].signal = m
<1>1. \A c : \A m : m \in Sends(c) <=> Says(c, m)
  BY DEF Sends
<1>2. ASSUME NEW m, Says(a \o b, m)
      PROVE  Says(a, m) \/ Says(b, m)
  <2>1. PICK i \in DOMAIN (a \o b) :
            (a \o b)[i].type = "SendSignal" /\ (a \o b)[i].signal = m
    BY <1>2
  <2>2. CASE i <= Len(a)
    <3>1. i \in DOMAIN a /\ (a \o b)[i] = a[i]
      BY <2>1, <2>2
    <3> QED BY <2>1, <3>1
  <2>3. CASE i > Len(a)
    <3>1. i - Len(a) \in DOMAIN b /\ (a \o b)[i] = b[i - Len(a)]
      BY <2>1, <2>3
    <3> QED BY <2>1, <3>1
  <2> QED BY <2>1, <2>2, <2>3
<1>3. ASSUME NEW m, Says(a, m)
      PROVE  Says(a \o b, m)
  <2>1. PICK i \in DOMAIN a : a[i].type = "SendSignal" /\ a[i].signal = m
    BY <1>3
  <2>2. i \in DOMAIN (a \o b) /\ (a \o b)[i] = a[i]
    BY <2>1
  <2> QED BY <2>1, <2>2
<1>4. ASSUME NEW m, Says(b, m)
      PROVE  Says(a \o b, m)
  <2>1. PICK i \in DOMAIN b : b[i].type = "SendSignal" /\ b[i].signal = m
    BY <1>4
  <2>2. i + Len(a) \in DOMAIN (a \o b) /\ (a \o b)[i + Len(a)] = b[i]
    BY <2>1
  <2> QED BY <2>1, <2>2
<1> HIDE DEF Says
<1> QED BY <1>1, <1>2, <1>3, <1>4

LEMMA CommandsTyped ==
    ASSUME NEW l \in Links, NEW actions \in Seq(LineAction)
    PROVE  CommandsFrom(l, actions) \in Seq(Commands)
<1>1. DOMAIN actions = 1 .. Len(actions) /\ Len(actions) \in Nat
  OBVIOUS
<1>2. CommandsFrom(l, actions) \in [1 .. Len(actions) -> Commands]
  BY <1>1 DEF CommandsFrom, Command, Commands
<1> QED BY <1>1, <1>2

-----------------------------------------------------------------------------
(* The shapes of a step r of core c *)

LifeEffects  == {"TeardownLink", "StopAudioPipelines", "CallTerminated", "RingIncomingCall"}
AudioEffects == {"OpenAudioPipelines", "StartAudioPipelines"}

(* r touches neither links nor calls. *)
Idles(c, r) ==
    /\ r.core \in Core
    /\ r.core.active = c.active /\ r.core.pending = c.pending /\ r.core.ingress = c.ingress
    /\ \A k \in Links, t \in LifeEffects \cup AudioEffects : ~Orders(r, k, t)

(* r moves the call on link l forward. *)
Continues(c, r, l) ==
    /\ r.core \in Core /\ r.commands \in Seq(Commands)
    /\ IsActive(c, l) /\ IsActive(r.core, l)
    /\ r.core.pending = c.pending /\ r.core.ingress = c.ingress
    /\ r.core.active.call.role = c.active.call.role
    /\ c.active.call.answered => r.core.active.call.answered
    /\ r.core.active.call.status >= c.active.call.status
    /\ \A k \in Links, t \in LifeEffects : ~Orders(r, k, t)
    /\ \A k \in Links, t \in AudioEffects : Orders(r, k, t) =>
          /\ k = l
          /\ r.core.active.call.role = "Incoming" => r.core.active.call.answered
    /\ Orders(r, l, "OpenAudioPipelines") => c.active.call.status < Connecting
    /\ Orders(r, l, "StartAudioPipelines") => r.core.active.call.status = Established

(* r ends the call on link l, tearing the link down or not. *)
Ends(c, r, l, teardown) ==
    /\ r.core \in Core /\ r.commands \in Seq(Commands)
    /\ IsActive(c, l) /\ r.core.active = NoCall
    /\ r.core.pending = c.pending \ {l} /\ r.core.ingress = c.ingress \ {l}
    /\ \A k \in Links :
          /\ Orders(r, k, "StopAudioPipelines") <=> k = l
          /\ Orders(r, k, "CallTerminated") <=> k = l
          /\ Orders(r, k, "TeardownLink") <=> k = l /\ teardown
          /\ ~Orders(r, k, "RingIncomingCall")
          /\ \A t \in AudioEffects : Orders(r, k, t) => k = l

LEMMA ActiveTyped ==
    ASSUME NEW c \in Core, HasCall(c)
    PROVE  /\ c.active \in ActiveCall /\ c.active.link \in Links
           /\ c.active.call \in Call
BY DEF Core, HasCall, ActiveCall

LEMMA WithCallTyped ==
    ASSUME NEW c \in Core, HasCall(c), NEW call \in Call
    PROVE  LET d == WithCall(c, call) IN
           /\ d \in Core /\ HasCall(d)
           /\ d.active.link = c.active.link /\ d.active.call = call
           /\ d.pending = c.pending /\ d.ingress = c.ingress
<1>1. c.active \in ActiveCall
  BY ActiveTyped
<1>2. [c.active EXCEPT !.call = call] \in ActiveCall
  BY <1>1 DEF ActiveCall
<1>3. WithCall(c, call) = [c EXCEPT !.active = [c.active EXCEPT !.call = call]]
  BY DEF WithCall, Core
<1>4. NoCall \notin ActiveCall
  BY NoCallAssumption DEF ActiveCall
<1> DEFINE a == [c.active EXCEPT !.call = call]
<1>5. a.link = c.active.link /\ a.call = call
  BY <1>1 DEF ActiveCall
<1> HIDE DEF a
<1> QED BY <1>2, <1>3, <1>4, <1>5 DEF Core, HasCall, a

LEMMA ReleasedTyped ==
    ASSUME NEW c \in Core, NEW l \in Links
    PROVE  /\ Released(c, l) \in Core /\ Released(c, l).active = NoCall
           /\ Released(c, l).pending = c.pending \ {l}
           /\ Released(c, l).ingress = c.ingress \ {l}
BY DEF Released, Core

-----------------------------------------------------------------------------
(* The shape of each operation *)

LEMMA RefusalIdles ==
    ASSUME NEW c \in Core, NEW e
    PROVE  Idles(c, Refuse(c, e)) /\ Refuse(c, e).core = c /\ Refuse(c, e).result = e
<1>1. Refuse(c, e).core = c /\ Refuse(c, e).result = e
  BY DEF Refuse
<1> QED BY <1>1, OrdersNothing DEF Idles

(* A result that moves a call forward, applied to the active call. *)
LEMMA ForwardContinues ==
    ASSUME NEW c \in Core, NEW l \in Links, IsActive(c, l), NEW o,
           Forward(c.active.call, o), Plays(c.active.call, o),
           Effects(o.actions) \cap AudioEffects # {} =>
              (o.call.role = "Incoming" => o.call.answered),
           NEW r, r = Step(WithCall(c, o.call), CommandsFrom(l, o.actions))
    PROVE  Continues(c, r, l)
<1>1. HasCall(c) /\ c.active.call \in Call
  BY ActiveTyped DEF IsActive
<1>2. o.actions \in Seq(CallAction) /\ o.call \in Call
  BY DEF Forward, Fits
<1>3. Effects(o.actions) \subseteq CallEffects
  BY <1>2 DEF Effects, CallAction
<1>4. CommandsFrom(l, o.actions) \in Seq(Commands)
  <2>1. o.actions \in Seq(LineAction)
    BY <1>2 DEF CallAction, LineAction
  <2> QED BY <2>1, CommandsTyped
<1> DEFINE d == WithCall(c, o.call)
<1>5. /\ d \in Core /\ HasCall(d)
      /\ d.active.link = c.active.link /\ d.active.call = o.call
      /\ d.pending = c.pending /\ d.ingress = c.ingress
  BY <1>1, <1>2, WithCallTyped
<1> HIDE DEF d
<1>6. r.core = d /\ r.commands = CommandsFrom(l, o.actions)
  BY DEF Step, d
<1>7. \A k \in Links : \A t : Orders(r, k, t) <=> k = l /\ t \in Effects(o.actions)
  BY OrdersFrom
<1>8. \A k \in Links, t \in LifeEffects : ~Orders(r, k, t)
  BY <1>3, <1>7 DEF CallEffects, LifeEffects
<1>9. \A k \in Links, t \in AudioEffects : Orders(r, k, t) =>
         /\ k = l
         /\ o.call.role = "Incoming" => o.call.answered
  BY <1>7
<1>10. /\ Orders(r, l, "OpenAudioPipelines") => c.active.call.status < Connecting
       /\ Orders(r, l, "StartAudioPipelines") => o.call.status = Established
  BY <1>7 DEF Plays
<1> QED BY <1>4, <1>5, <1>6, <1>8, <1>9, <1>10 DEF Continues, Forward, IsActive

(* A signal on the active link moves the call forward or ends it; on any   *)
(* other link it is refused.                                               *)
LEMMA ReceiveOnShape ==
    ASSUME NEW c \in Core, NEW l \in Links, NEW s \in Signal,
           NEW r, r = ReceiveOn(c, l, s)
    PROVE  \/ ~IsActive(c, l) /\ r.result # "ok" /\ r.core = c /\ Idles(c, r)
           \/ r.result = "ok" /\ Continues(c, r, l)
           \/ r.result = "ok" /\ Ends(c, r, l, TRUE) /\ Final(s)
<1> DEFINE o == ReceiveSignal(c.active.call, s)
<1>1. CASE ~IsActive(c, l)
  <2>1. PICK e \in {"NoActiveCall", "WrongActiveLink"} : r = Refuse(c, e)
    BY <1>1 DEF ReceiveOn, IsActive
  <2>2. Idles(c, r) /\ r.core = c /\ r.result = e
    BY <2>1, RefusalIdles
  <2>3. r.result # "ok"
    BY <2>1, <2>2
  <2> QED BY <1>1, <2>2, <2>3
<1>2. CASE IsActive(c, l) /\ EndsCall(c.active.call, s)
  <2>1. c.active.call \in Call
    BY <1>2, ActiveTyped DEF IsActive
  <2>2. o.actions = <<Terminate(s.status)>>
    BY <1>2, <2>1, ReceiveSignalEnds
  <2>3. Terminates(o.actions)
    BY <2>2 DEF Terminates, Terminate
  <2> DEFINE a == <<Do("StopAudioPipelines"), Do("TeardownLink"),
                    CallTerminated(o.actions[1].reason)>>
  <2>4. r = Step(Released(c, l), CommandsFrom(l, a))
    BY <1>2, <2>3 DEF ReceiveOn, IsActive
  <2>5. o.actions[1].reason \in Status
    BY <1>2, <2>2, SignalCases DEF EndsCall, Terminate
  <2>6. a \in Seq(LineAction)
    BY <2>5 DEF Do, CallTerminated, LineAction, Action
  <2>7. Effects(a) = {"StopAudioPipelines", "TeardownLink", "CallTerminated"}
    BY DEF Effects, Do, CallTerminated
  <2> HIDE DEF a
  <2>8. Ends(c, r, l, TRUE)
    BY <1>2, <2>4, <2>6, <2>7, CommandsTyped, OrdersFrom, ReleasedTyped
       DEF Ends, Step, AudioEffects
  <2>9. Final(s)
    BY <1>2 DEF Final, EndsCall, StatusSignal, Signal, ProfileSignal, RawSignal
  <2>10. r.result = "ok"
    BY <2>4 DEF Step
  <2> QED BY <2>8, <2>9, <2>10
<1>3. CASE IsActive(c, l) /\ ~EndsCall(c.active.call, s)
  <2>1. HasCall(c) /\ c.active.call \in Call
    BY <1>3, ActiveTyped DEF IsActive
  <2>2. Forward(c.active.call, o)
    BY <1>3, <2>1, ReceiveSignalForward
  <2>3. ~Terminates(o.actions)
    BY <2>2 DEF Terminates, Forward, Fits, CallAction, CallEffects
  <2>4. r = Step(WithCall(c, o.call), CommandsFrom(l, o.actions))
    BY <1>3, <2>3 DEF ReceiveOn, IsActive
  <2>5. c.active.call.role = "Incoming" /\ ~c.active.call.answered
           => Effects(o.actions) \cap AudioEffects = {}
    BY <2>1, UnansweredIsSilent DEF AudioEffects
  <2>6. Continues(c, r, l)
    <3>1. Plays(c.active.call, o)
      BY <2>1, ReceivePlays
    <3> HIDE DEF o
    <3> QED BY <1>3, <2>2, <2>4, <2>5, <3>1, ForwardContinues DEF Forward
  <2>7. r.result = "ok"
    BY <2>4 DEF Step
  <2> QED BY <2>6, <2>7
<1> QED BY <1>1, <1>2, <1>3

LEMMA OrdersJoined ==
    ASSUME NEW c, NEW l, NEW type, NEW f, NEW g,
           f.commands \in Seq(Commands), g.commands \in Seq(Commands)
    PROVE  Orders(Step(c, f.commands \o g.commands), l, type)
              <=> Orders(f, l, type) \/ Orders(g, l, type)
<1>1. Orders(Step(c, f.commands), l, type) <=> Orders(f, l, type)
  BY DEF Orders, Step
<1>2. Orders(Step(c, g.commands), l, type) <=> Orders(g, l, type)
  BY DEF Orders, Step
<1> QED BY <1>1, <1>2, OrdersBoth

LEMMA ContinuesTwice ==
    ASSUME NEW c \in Core, NEW l \in Links, NEW f, NEW g, NEW r,
           Continues(c, f, l), Continues(f.core, g, l),
           r = Step(g.core, f.commands \o g.commands)
    PROVE  Continues(c, r, l)
<1>1. f.commands \in Seq(Commands) /\ g.commands \in Seq(Commands)
  BY DEF Continues
<1>2. \A k \in Links : \A t : Orders(r, k, t) <=> Orders(f, k, t) \/ Orders(g, k, t)
  BY <1>1, OrdersJoined
<1>3. r.core = g.core /\ r.commands \in Seq(Commands)
  BY <1>1 DEF Step
<1>4. /\ g.core.active.call.status >= c.active.call.status
      /\ Orders(r, l, "OpenAudioPipelines") => c.active.call.status < Connecting
      /\ Orders(r, l, "StartAudioPipelines") => g.core.active.call.status = Established
  <2>1. /\ c.active.call \in Call /\ f.core.active.call \in Call
        /\ g.core.active.call \in Call
    BY ActiveTyped DEF Continues, IsActive
  <2>2. \A call \in Call : call.status \in 2 .. 6
    BY StatusValues DEF Call
  <2>3. /\ f.core.active.call.status >= c.active.call.status
        /\ g.core.active.call.status >= f.core.active.call.status
        /\ Orders(f, l, "OpenAudioPipelines") => c.active.call.status < Connecting
        /\ Orders(g, l, "OpenAudioPipelines") => f.core.active.call.status < Connecting
        /\ Orders(f, l, "StartAudioPipelines") => f.core.active.call.status = Established
        /\ Orders(g, l, "StartAudioPipelines") => g.core.active.call.status = Established
    BY DEF Continues
  <2> QED BY <1>2, <2>1, <2>2, <2>3, StatusValues
<1>5. \A k \in Links, t \in AudioEffects : Orders(r, k, t) =>
        /\ k = l
        /\ g.core.active.call.role = "Incoming" => g.core.active.call.answered
  BY <1>2 DEF Continues
<1>6. \A k \in Links, t \in LifeEffects : ~Orders(r, k, t)
  BY <1>2 DEF Continues
<1> QED BY <1>3, <1>4, <1>5, <1>6 DEF Continues

LEMMA ContinuesThenEnds ==
    ASSUME NEW c \in Core, NEW l \in Links, NEW f, NEW g, NEW r,
           Continues(c, f, l), Ends(f.core, g, l, TRUE),
           r = Step(g.core, f.commands \o g.commands)
    PROVE  Ends(c, r, l, TRUE)
<1>1. f.commands \in Seq(Commands) /\ g.commands \in Seq(Commands)
  BY DEF Continues, Ends
<1>2. \A k \in Links : \A t : Orders(r, k, t) <=> Orders(f, k, t) \/ Orders(g, k, t)
  BY <1>1, OrdersJoined
<1>3. r.core = g.core /\ r.commands \in Seq(Commands)
  BY <1>1 DEF Step
<1>4. \A k \in Links, t \in LifeEffects : Orders(r, k, t) <=> Orders(g, k, t)
  BY <1>2 DEF Continues
<1>5. \A k \in Links, t \in AudioEffects : Orders(r, k, t) => k = l
  BY <1>2 DEF Continues, Ends
<1> QED BY <1>3, <1>4, <1>5 DEF Continues, Ends, LifeEffects

(* A packet of two signals of which the first is not final. *)
LEMMA AndThenShape ==
    ASSUME NEW c \in Core, NEW l \in Links, NEW s \in Signal, NEW t \in Signal, ~Final(s),
           NEW r, r = AndThen(ReceiveOn(c, l, s), l, t)
    PROVE  Idles(c, r) \/ Continues(c, r, l) \/ Ends(c, r, l, TRUE)
<1> DEFINE f == ReceiveOn(c, l, s)
           g == ReceiveOn(f.core, l, t)
<1>1. CASE f.result # "ok"
  BY <1>1, ReceiveOnShape DEF AndThen
<1>2. CASE f.result = "ok"
  <2>1. Continues(c, f, l)
    BY <1>2, ReceiveOnShape
  <2>2. f.core \in Core /\ IsActive(f.core, l)
    BY <2>1 DEF Continues
  <2>3. g.result = "ok" /\ (Continues(f.core, g, l) \/ Ends(f.core, g, l, TRUE))
    BY <2>2, ReceiveOnShape
  <2>4. r = Step(g.core, f.commands \o g.commands)
    BY <1>2, <2>3 DEF AndThen
  <2> HIDE DEF f, g
  <2> QED BY <2>1, <2>3, <2>4, ContinuesTwice, ContinuesThenEnds
<1> QED BY <1>1, <1>2

LEMMA PacketShape ==
    ASSUME NEW c \in Core, NEW l \in Links, NEW p \in Packets, Orderly(p),
           NEW r, r = AcceptPlaintext(c, l, p)
    PROVE  Idles(c, r) \/ Continues(c, r, l) \/ Ends(c, r, l, TRUE)
<1>1. CASE l \notin c.ingress
  BY <1>1, RefusalIdles DEF AcceptPlaintext
<1>2. CASE l \in c.ingress /\ p = <<>>
  <2>1. r = Step(c, <<>>)
    BY <1>2 DEF AcceptPlaintext
  <2>2. r.core = c
    BY <2>1 DEF Step
  <2> QED BY <2>1, <2>2, OrdersNothing DEF Idles
<1>3. CASE l \in c.ingress /\ p \in SingleSignals
  <2>1. p[1] \in Signal /\ p # <<>> /\ Len(p) = 1
    BY <1>3 DEF SingleSignals
  <2> QED BY <1>3, <2>1, ReceiveOnShape DEF AcceptPlaintext
<1>4. CASE l \in c.ingress /\ p \in SignalPairs
  <2>1. p[1] \in Signal /\ p[2] \in Signal /\ p # <<>> /\ Len(p) = 2
    BY <1>4 DEF SignalPairs
  <2>2. ~Final(p[1])
    BY <2>1 DEF Orderly, MaxSignals
  <2>3. r = AndThen(ReceiveOn(c, l, p[1]), l, p[2])
    BY <1>4, <2>1 DEF AcceptPlaintext
  <2> QED BY <2>1, <2>2, <2>3, AndThenShape
<1>5. p = <<>> \/ p \in SingleSignals \/ p \in SignalPairs
  BY DEF Packets
<1> QED BY <1>1, <1>2, <1>3, <1>4, <1>5

-----------------------------------------------------------------------------
(* The shapes of the local operations *)

LEMMA AnswerShape ==
    ASSUME NEW c \in Core, NEW l \in Links, NEW r, r = AnswerActive(c, l)
    PROVE  Idles(c, r) \/ Continues(c, r, l)
<1> DEFINE o == Answer(c.active.call)
<1>1. CASE ~IsActive(c, l) \/ ~CanAnswer(c.active.call)
  BY <1>1, RefusalIdles DEF AnswerActive
<1>2. CASE IsActive(c, l) /\ CanAnswer(c.active.call)
  <2>1. c.active.call \in Call
    BY <1>2, ActiveTyped DEF IsActive
  <2>2. Forward(c.active.call, o) /\ o.call.answered
    BY <1>2, <2>1, AnswerForward
  <2>3. Plays(c.active.call, o)
    BY <1>2, <2>1, AnswerPlays
  <2>4. r = Step(WithCall(c, o.call), CommandsFrom(l, o.actions))
    BY <1>2 DEF AnswerActive
  <2> HIDE DEF o
  <2> QED BY <1>2, <2>2, <2>3, <2>4, ForwardContinues
<1> QED BY <1>1, <1>2

LEMMA SwitchShape ==
    ASSUME NEW c \in Core, NEW p \in Profiles, NEW r, r = SwitchActiveProfile(c, p)
    PROVE  Idles(c, r) \/ \E l \in Links : Continues(c, r, l)
<1> DEFINE o == SwitchTo(c.active.call, p)
           l == c.active.link
<1>1. CASE ~HasCall(c) \/ c.active.call.status # Established
  BY <1>1, RefusalIdles DEF SwitchActiveProfile
<1>2. CASE HasCall(c) /\ c.active.call.status = Established
  <2>1. c.active.call \in Call /\ l \in Links /\ IsActive(c, l)
    BY <1>2, ActiveTyped DEF IsActive
  <2>2. Forward(c.active.call, o)
    BY <1>2, <2>1, SwitchToForward
  <2>3. Effects(o.actions) \cap AudioEffects = {}
    BY DEF SwitchTo, Result, Effects, AudioEffects, SendSignal, SwitchProfile, SelectProfile
  <2>4. r = Step(WithCall(c, o.call), CommandsFrom(l, o.actions))
    BY <1>2 DEF SwitchActiveProfile
  <2> HIDE DEF o, l
  <2> QED BY <2>1, <2>2, <2>3, <2>4, ForwardContinues DEF Plays, AudioEffects
<1> QED BY <1>1, <1>2

LEMMA RetryShape ==
    ASSUME NEW c \in Core, NEW l \in Links, NEW r, r = RetryAnswerActive(c, l)
    PROVE  Idles(c, r)
<1>1. CASE ~IsActive(c, l) \/ ~CanRetryAnswer(c.active.call)
  BY <1>1, RefusalIdles DEF RetryAnswerActive
<1>2. CASE IsActive(c, l) /\ CanRetryAnswer(c.active.call)
  <2> DEFINE a == <<SendStatus(Connecting), SendStatus(Established)>>
  <2>1. r = Step(c, CommandsFrom(l, a))
    BY <1>2 DEF RetryAnswerActive, RetryAnswer
  <2>2. Effects(a) = {"SendSignal"}
    BY DEF Effects, SendStatus, SendSignal
  <2> HIDE DEF a
  <2>3. r.core = c
    BY <2>1 DEF Step
  <2> QED BY <2>1, <2>2, <2>3, OrdersFrom DEF Idles, LifeEffects, AudioEffects
<1> QED BY <1>1, <1>2

LEMMA TerminateShape ==
    ASSUME NEW c \in Core, NEW timeout \in BOOLEAN, NEW reason \in Status \cup {NoReason},
           NEW r, r = TerminateActive(c, timeout, reason)
    PROVE  \/ ~HasCall(c) /\ r = Refuse(c, "NoActiveCall")
           \/ \E l \in Links : Ends(c, r, l, TRUE)
<1>1. CASE ~HasCall(c)
  BY <1>1 DEF TerminateActive
<1>2. CASE HasCall(c)
  <2> DEFINE l == c.active.link
             h == Hangup(c.active.call, timeout).actions
             stop == Do("StopAudioPipelines")
             told == CallTerminated(reason)
             down == Do("TeardownLink")
             rejected == SendStatus(Rejected)
             a == h \o <<stop, told>>
  <2>1. l \in Links /\ IsActive(c, l)
    BY <1>2, ActiveTyped DEF IsActive
  <2>2. r = Step(Released(c, l), CommandsFrom(l, a))
    BY <1>2 DEF TerminateActive
  <2>3. /\ stop \in LineAction /\ told \in LineAction /\ down \in LineAction
        /\ rejected \in LineAction
    <3>1. stop \in LineAction /\ told \in LineAction /\ down \in LineAction
      BY DEF Do, CallTerminated, LineAction, Action
    <3>2. rejected \in CallAction
      BY StatusValues, ActionsTyped
    <3> QED BY <3>1, <3>2 DEF LineAction, CallAction
  <2>4. h = <<rejected, down>> \/ h = <<down>>
    BY DEF Hangup, Result
  <2>5. /\ stop.type = "StopAudioPipelines" /\ told.type = "CallTerminated"
        /\ down.type = "TeardownLink" /\ rejected.type = "SendSignal"
    BY DEF Do, CallTerminated, SendStatus, SendSignal
  <2> DEFINE end == <<stop, told>>
  <2> HIDE DEF l, h, stop, told, down, rejected
  <2>6. /\ h \in Seq(LineAction) /\ "TeardownLink" \in Effects(h)
        /\ Effects(h) \subseteq {"TeardownLink", "SendSignal"}
    <3> DEFINE two == <<rejected, down>>
               one == <<down>>
    <3>1. two \in Seq(LineAction) /\ Effects(two) = {"SendSignal", "TeardownLink"}
      BY <2>3, <2>5 DEF Effects
    <3>2. one \in Seq(LineAction) /\ Effects(one) = {"TeardownLink"}
      BY <2>3, <2>5 DEF Effects
    <3>3. h = two \/ h = one
      BY <2>4
    <3> HIDE DEF two, one
    <3> QED BY <3>1, <3>2, <3>3
  <2>7. end \in Seq(LineAction) /\ Effects(end) = {"StopAudioPipelines", "CallTerminated"}
    BY <2>3, <2>5 DEF Effects
  <2> HIDE DEF end
  <2>8. a = h \o end
    BY DEF end
  <2>9. /\ a \in Seq(LineAction)
        /\ {"TeardownLink", "StopAudioPipelines", "CallTerminated"} \subseteq Effects(a)
        /\ Effects(a) \cap {"RingIncomingCall", "OpenAudioPipelines", "StartAudioPipelines"} = {}
    <3> HIDE DEF a
    <3>1. a \in Seq(LineAction) /\ Effects(a) = Effects(h) \cup Effects(end)
      BY <2>6, <2>7, <2>8, EffectsBoth
    <3> QED BY <2>6, <2>7, <3>1
  <2> HIDE DEF a
  <2>10. Ends(c, r, l, TRUE)
    BY <2>1, <2>2, <2>9, CommandsTyped, OrdersFrom, ReleasedTyped
       DEF Ends, Step, AudioEffects
  <2> QED BY <2>1, <2>10
<1> QED BY <1>1, <1>2

LEMMA TimeoutAnswerShape ==
    ASSUME NEW c \in Core, NEW l \in Links, NEW r, r = TimeoutAnswerActive(c, l)
    PROVE  Idles(c, r) \/ \E k \in Links : Ends(c, r, k, TRUE)
<1>1. CASE ~IsActive(c, l) \/ ~CanRetryAnswer(c.active.call)
  BY <1>1, RefusalIdles DEF TimeoutAnswerActive
<1>2. CASE IsActive(c, l) /\ CanRetryAnswer(c.active.call)
  <2>1. r = TerminateActive(c, FALSE, Connecting) /\ HasCall(c)
    BY <1>2 DEF TimeoutAnswerActive, IsActive
  <2>2. Connecting \in Status
    BY StatusValues
  <2>3. \/ ~HasCall(c) /\ r = Refuse(c, "NoActiveCall")
        \/ \E k \in Links : Ends(c, r, k, TRUE)
    BY <2>1, <2>2, TerminateShape
  <2> QED BY <2>1, <2>3
<1> QED BY <1>1, <1>2

LEMMA CloseActiveShape ==
    ASSUME NEW c \in Core, NEW l \in Links, IsActive(c, l), NEW r, r = LinkClosed(c, l)
    PROVE  Ends(c, r, l, FALSE)
<1> DEFINE a == <<Do("StopAudioPipelines"), CallTerminated(NoReason)>>
<1>1. r = Step(Released(c, l), CommandsFrom(l, a))
  BY DEF LinkClosed
<1>2. a \in Seq(LineAction)
  BY DEF Do, CallTerminated, LineAction, Action
<1>3. Effects(a) = {"StopAudioPipelines", "CallTerminated"}
  BY DEF Effects, Do, CallTerminated
<1> HIDE DEF a
<1> QED BY <1>1, <1>2, <1>3, CommandsTyped, OrdersFrom, ReleasedTyped
        DEF Ends, Step, AudioEffects
=============================================================================
