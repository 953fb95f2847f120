------------------------ MODULE CallHandshakeProofs ------------------------
(***************************************************************************)
(* The safety properties of CallHandshake, for every set of profiles and   *)
(* policies, whatever the network loses, delays or reorders.               *)
(*                                                                         *)
(* Belief in the call is founded: a message that would connect a side is   *)
(* under way only if the other side already is where the message says.     *)
(***************************************************************************)
EXTENDS CallHandshake, CallProofs, TLAPS

-----------------------------------------------------------------------------
(* The inductive invariant *)

RoleOf(side) == IF side = "caller" THEN "Outgoing" ELSE "Incoming"

(* What a side's core holds of its call: while the side calls and its end  *)
(* is up, it parses the link's packets.                                    *)
Held(side) ==
    /\ Calls(side) =>
          /\ core[side].active.link = link
          /\ CallOf(side).role = RoleOf(side)
          /\ end[side] # "none"
          /\ end[side] = "up" => link \in core[side].ingress
    /\ link \in core[side].pending => link \in core[side].ingress

(* A side is joined when the other may believe in it: the callee answered, *)
(* the caller went to Connecting, or its end is already closed.            *)
CalleeJoined == (Calls("callee") /\ CallOf("callee").answered) \/ end["callee"] = "closed"

CallerJoined ==
    (Calls("caller") /\ CallOf("caller").status >= Connecting) \/ end["caller"] = "closed"

Founded ==
    /\ Calls("caller") \/ end["caller"] = "closed"
    /\ Calls("callee") /\ CallOf("callee").status >= Connecting => CallOf("callee").answered
    /\ Calls("caller") /\ CallOf("caller").status >= Connecting => CalleeJoined
    /\ \A s \in {Connecting, Established} : StatusSignal(s) \in flight["caller"] => CalleeJoined
    /\ Talking("callee") => CallerJoined
    /\ StatusSignal(Established) \in flight["callee"] => CallerJoined
    /\ \A side \in Side : audio[side] = "running" => Talking(side)

(* The profile signals on their way to a side. *)
Named(side) == {m \in flight[side] : m.kind = "profile"}

(* In a clean switch the sides agree, or exactly the switching side's      *)
(* profile is on its way to the other.                                     *)
Tidy ==
    switching = "clean" =>
        /\ \A side \in Side : Talking(side) \/ (~Calls(side) /\ end[side] = "closed")
        /\ Talking("caller") /\ Talking("callee") =>
              \/ /\ Named("caller") = {} /\ Named("callee") = {}
                 /\ CallOf("caller").profile = CallOf("callee").profile
              \/ \E side \in Side :
                    /\ Named(side) = {}
                    /\ Named(Other(side)) = {ProfileSignal(CallOf(side).profile)}

IInv ==
    /\ TypeOK
    /\ \A side \in Side : Held(side)
    /\ Founded
    /\ Tidy

-----------------------------------------------------------------------------
(* What a step says and does, when its commands are actions on one link    *)

LEMMA SentFrom ==
    ASSUME NEW d, NEW l, NEW a, NEW r, r = Step(d, CommandsFrom(l, a))
    PROVE  /\ r.core = d
           /\ \A t : Asks(r, t) <=> t \in Effects(a)
           /\ "IdentifyLocalIdentity" \in Effects(a) => Sent(r) = Sends(a) \cup {Identify}
           /\ "IdentifyLocalIdentity" \notin Effects(a) => Sent(r) = Sends(a)
<1>1. r.core = d /\ r.commands = CommandsFrom(l, a)
  BY DEF Step
<1>2. /\ DOMAIN r.commands = DOMAIN a
      /\ \A i \in DOMAIN a : r.commands[i].action = a[i]
  BY <1>1 DEF CommandsFrom, Command
<1>3. \A t : Asks(r, t) <=> t \in Effects(a)
  BY <1>2 DEF Asks, Effects
<1>4. {r.commands[i].action.signal :
          i \in {j \in DOMAIN r.commands : r.commands[j].action.type = "SendSignal"}}
        = Sends(a)
  BY <1>2 DEF Sends
<1> QED BY <1>1, <1>3, <1>4 DEF Sent

LEMMA SentNothing ==
    ASSUME NEW d, NEW r, r.core = d /\ r.commands = <<>>
    PROVE  Sent(r) = {} /\ \A t : ~Asks(r, t)
BY DEF Sent, Asks

(* A side's step is sound: its belief in the call stays founded, and it    *)
(* says nothing that is not.  After is its end of the link afterwards.     *)
Sound(side, r, after) ==
    /\ r.core \in Core /\ Sent(r) \subseteq Message
    /\ after \in {"up", "closed"}
    /\ Heard(side, r) \in {"closed", "open", "running", "unopened"}
    /\ HasCall(r.core) =>
          /\ r.core.active.link = link
          /\ r.core.active.call.role = RoleOf(side)
          /\ after = "up" => link \in r.core.ingress
    /\ link \in r.core.pending => link \in r.core.ingress
    /\ after = "closed" \/ (Calls(side) => HasCall(r.core))
    /\ Calls(side) /\ HasCall(r.core) =>
          /\ r.core.active.call.status >= CallOf(side).status
          /\ CallOf(side).answered => r.core.active.call.answered
    /\ Heard(side, r) = "running" => HasCall(r.core) /\ r.core.active.call.status = Established
    /\ side = "callee" =>
          /\ HasCall(r.core) /\ r.core.active.call.status >= Connecting
                => r.core.active.call.answered
          /\ HasCall(r.core) /\ r.core.active.call.status = Established => CallerJoined
          /\ \A s \in {Connecting, Established} : StatusSignal(s) \in Sent(r)
                => HasCall(r.core) /\ r.core.active.call.answered
    /\ side = "caller" =>
          /\ HasCall(r.core) /\ r.core.active.call.status >= Connecting => CalleeJoined
          /\ StatusSignal(Established) \in Sent(r)
                => HasCall(r.core) /\ r.core.active.call.status >= Connecting

LEMMA CallsTyped ==
    ASSUME TypeOK, NEW side \in Side, Calls(side)
    PROVE  CallOf(side) \in Call /\ CallOf(side).status \in 2 .. 6
<1>1. core[side] \in Core
  BY DEF TypeOK
<1>2. CallOf(side) \in Call
  BY <1>1, ActiveTyped DEF Calls, CallOf
<1> QED BY <1>2, StatusValues DEF Call

LEMMA CoreCallTyped ==
    ASSUME NEW d \in Core, HasCall(d)
    PROVE  d.active.call \in Call /\ d.active.call.status \in 2 .. 6
<1>1. d.active.call \in Call
  BY ActiveTyped
<1> QED BY <1>1, StatusValues DEF Call

(* The parts of the invariant that do not speak of switches. *)
Kept == TypeOK /\ (\A side \in Side : Held(side)) /\ Founded

(* A side takes a sound step, with nothing new in its inbox. *)
Steps(side, r, inbox, after) ==
    /\ Act(side, r, inbox) /\ inbox \subseteq flight[side]
    /\ end' = [end EXCEPT ![side] = after]
    /\ end[side] # "closed"
    /\ end[side] = "none" => side = "callee"
    /\ Sound(side, r, after)
    /\ timed' = timed

LEMMA StepsPrimed ==
    ASSUME TypeOK, NEW side \in Side, NEW r, NEW inbox, NEW after,
           Steps(side, r, inbox, after)
    PROVE  /\ core' \in [Side -> Core] /\ core'[side] = r.core
           /\ core'[Other(side)] = core[Other(side)]
           /\ end' \in [Side -> {"none", "up", "closed"}] /\ end'[side] = after
           /\ end'[Other(side)] = end[Other(side)]
           /\ flight' \in [Side -> SUBSET Message] /\ flight'[side] \subseteq flight[side]
           /\ flight'[Other(side)] = flight[Other(side)] \cup Sent(r)
           /\ audio' \in [Side -> {"closed", "open", "running", "unopened"}]
           /\ audio'[side] = Heard(side, r) /\ audio'[Other(side)] = audio[Other(side)]
           /\ Other(side) \in Side /\ Other(side) # side
<1>1. Other(side) \in Side /\ Other(side) # side
  BY DEF Side, Other
<1>2. core' \in [Side -> Core] /\ core'[side] = r.core /\ core'[Other(side)] = core[Other(side)]
  BY <1>1 DEF TypeOK, Steps, Act, Sound
<1>3. end' \in [Side -> {"none", "up", "closed"}] /\ end'[side] = after
      /\ end'[Other(side)] = end[Other(side)]
  BY <1>1 DEF TypeOK, Steps, Sound
<1>4. flight' \in [Side -> SUBSET Message] /\ flight'[side] \subseteq flight[side]
      /\ flight'[Other(side)] = flight[Other(side)] \cup Sent(r)
  <2>1. inbox \subseteq flight[side] /\ Sent(r) \subseteq Message
    BY DEF Steps, Sound
  <2>2. flight \in [Side -> SUBSET Message]
    BY DEF TypeOK
  <2>3. flight' = [flight EXCEPT ![side] = inbox, ![Other(side)] = @ \cup Sent(r)]
    BY DEF Steps, Act
  <2>4. inbox \in SUBSET Message /\ flight[Other(side)] \cup Sent(r) \in SUBSET Message
    BY <1>1, <2>1, <2>2
  <2> QED BY <1>1, <2>1, <2>2, <2>3, <2>4
<1>5. /\ audio' \in [Side -> {"closed", "open", "running", "unopened"}]
      /\ audio'[side] = Heard(side, r) /\ audio'[Other(side)] = audio[Other(side)]
  BY <1>1 DEF TypeOK, Steps, Act, Sound
<1> QED BY <1>1, <1>2, <1>3, <1>4, <1>5

(* A sound step keeps belief in the call founded. *)
LEMMA SoundKeeps ==
    ASSUME Kept, NEW side \in Side, NEW r, NEW inbox, NEW after,
           Steps(side, r, inbox, after), switching' \in {"none", "clean", "disturbed"}
    PROVE  Kept'
<1> DEFINE other == Other(side)
<1>1. /\ core' \in [Side -> Core] /\ core'[side] = r.core
      /\ core'[other] = core[other]
      /\ end' \in [Side -> {"none", "up", "closed"}] /\ end'[side] = after
      /\ end'[other] = end[other]
      /\ flight' \in [Side -> SUBSET Message] /\ flight'[side] \subseteq flight[side]
      /\ flight'[other] = flight[other] \cup Sent(r)
      /\ audio' \in [Side -> {"closed", "open", "running", "unopened"}]
      /\ audio'[side] = Heard(side, r) /\ audio'[other] = audio[other]
      /\ other \in Side /\ other # side
  BY StepsPrimed DEF Kept
<1>2. TypeOK'
  BY <1>1 DEF Kept, TypeOK, Steps
<1>3. \A x \in Side : x = side \/ x = other
  BY DEF Side, Other
<1>4. /\ Calls(other)' = Calls(other) /\ CallOf(other)' = CallOf(other)
      /\ Talking(other)' = Talking(other)
      /\ Calls(side)' = HasCall(r.core) /\ CallOf(side)' = r.core.active.call
      /\ Talking(side)' = (HasCall(r.core) /\ r.core.active.call.status = Established)
  BY <1>1 DEF Calls, CallOf, Talking, HasCall
<1>5. \A x \in Side : Held(x)'
  <2>1. Held(other)'
    BY <1>1, <1>4 DEF Kept, Held
  <2>2. Held(side)'
    BY <1>1, <1>4 DEF Held, Steps, Sound
  <2> QED BY <1>3, <2>1, <2>2
<1> HIDE DEF other
<1>6. Calls(side) => CallOf(side).status \in 2 .. 6
  BY CallsTyped DEF Kept
<1>7. HasCall(r.core) => r.core.active.call.status \in 2 .. 6
  BY CoreCallTyped DEF Steps, Sound
<1>10. (\A x \in Side : audio[x] = "running" => Talking(x))'
  <2>1. audio'[side] = "running" => Talking(side)'
    BY <1>1, <1>4 DEF Steps, Sound
  <2>2. audio'[other] = "running" => Talking(other)'
    BY <1>1, <1>4 DEF Kept, Founded
  <2> QED BY <1>3, <2>1, <2>2
<1>8. CASE side = "callee"
  <2>1. other = "caller"
    BY <1>8 DEF other, Other
  <2>2. CallerJoined' = CallerJoined
    BY <1>1, <1>4, <2>1 DEF CallerJoined
  <2>3. CalleeJoined => CalleeJoined'
    BY <1>1, <1>4, <1>8 DEF CalleeJoined, Steps, Sound
  <2>4. (Calls("caller") \/ end["caller"] = "closed")'
    BY <1>1, <1>4, <2>1 DEF Kept, Founded
  <2>5. (Calls("callee") /\ CallOf("callee").status >= Connecting
           => CallOf("callee").answered)'
    BY <1>4, <1>8 DEF Steps, Sound
  <2>6. (Calls("caller") /\ CallOf("caller").status >= Connecting => CalleeJoined)'
    BY <1>4, <2>1, <2>3 DEF Kept, Founded
  <2>7. (\A s \in {Connecting, Established} :
            StatusSignal(s) \in flight["caller"] => CalleeJoined)'
    <3> TAKE s \in {Connecting, Established}
    <3>1. CASE StatusSignal(s) \in flight["caller"]
      BY <2>3, <3>1 DEF Kept, Founded
    <3>2. CASE StatusSignal(s) \in Sent(r)
      <4>1. HasCall(r.core) /\ r.core.active.call.answered
        BY <1>8, <3>2 DEF Steps, Sound
      <4> QED BY <1>4, <1>8, <4>1 DEF CalleeJoined
    <3> QED BY <1>1, <2>1, <3>1, <3>2
  <2>8. (Talking("callee") => CallerJoined)'
    BY <1>4, <1>8, <2>2 DEF Steps, Sound
  <2>9. (StatusSignal(Established) \in flight["callee"] => CallerJoined)'
    BY <1>1, <1>8, <2>2 DEF Kept, Founded
  <2>11. Founded'
    BY <2>4, <2>5, <2>6, <2>7, <2>8, <2>9, <1>10 DEF Founded
  <2> QED BY <1>2, <1>5, <2>11 DEF Kept
<1>9. CASE side = "caller"
  <2>1. other = "callee"
    BY <1>9 DEF other, Other
  <2>2. CalleeJoined' = CalleeJoined
    BY <1>1, <1>4, <2>1 DEF CalleeJoined
  <2>3. CallerJoined => CallerJoined'
    BY <1>1, <1>4, <1>6, <1>7, <1>9, StatusValues DEF CallerJoined, Steps, Sound
  <2>4. (Calls("caller") \/ end["caller"] = "closed")'
    BY <1>1, <1>4, <1>9 DEF Kept, Founded, Steps, Sound
  <2>5. (Calls("callee") /\ CallOf("callee").status >= Connecting
           => CallOf("callee").answered)'
    BY <1>4, <2>1 DEF Kept, Founded
  <2>6. (Calls("caller") /\ CallOf("caller").status >= Connecting => CalleeJoined)'
    BY <1>4, <1>9, <2>2 DEF Steps, Sound
  <2>7. (\A s \in {Connecting, Established} :
            StatusSignal(s) \in flight["caller"] => CalleeJoined)'
    BY <1>1, <1>9, <2>2 DEF Kept, Founded
  <2>8. (Talking("callee") => CallerJoined)'
    BY <1>4, <2>1, <2>3 DEF Kept, Founded
  <2>9. (StatusSignal(Established) \in flight["callee"] => CallerJoined)'
    <3>1. CASE StatusSignal(Established) \in flight["callee"]
      BY <2>3, <3>1 DEF Kept, Founded
    <3>2. CASE StatusSignal(Established) \in Sent(r)
      BY <1>4, <1>9, <3>2 DEF CallerJoined, Steps, Sound
    <3> QED BY <1>1, <2>1, <3>1, <3>2
  <2>11. Founded'
    BY <2>4, <2>5, <2>6, <2>7, <2>8, <2>9, <1>10 DEF Founded
  <2> QED BY <1>2, <1>5, <2>11 DEF Kept
<1> QED BY <1>8, <1>9 DEF Side

-----------------------------------------------------------------------------
(* Profiles *)

(* A step that leaves the profiles alone. *)
Plain(side, r, inbox) ==
    /\ \A m \in Sent(r) : m.kind # "profile"
    /\ \A m \in flight[side] : m.kind = "profile" => m \in inbox
    /\ Talking(side) /\ HasCall(r.core)
          => r.core.active.call.profile = CallOf(side).profile

LEMMA TidyTalks ==
    ASSUME Kept, Tidy, switching = "clean", NEW side \in Side, NEW r, NEW inbox, NEW after,
           Steps(side, r, inbox, after)
    PROVE  /\ Talking(side)
           /\ \A x \in Side : (Talking(x) \/ (~Calls(x) /\ end[x] = "closed"))'
           /\ \A x \in Side : Talking(x)' => Talking(x)
<1> DEFINE other == Other(side)
<1>1. /\ core'[side] = r.core /\ core'[other] = core[other]
      /\ end'[side] = after /\ end'[other] = end[other]
      /\ other \in Side /\ other # side
  BY StepsPrimed DEF Kept
<1>2. \A x \in Side : x = side \/ x = other
  BY DEF Side, Other
<1>3. Talking(side)
  BY DEF Tidy, Steps
<1>4. HasCall(r.core) => r.core.active.call.status = Established
  <2>1. HasCall(r.core) => r.core.active.call.status \in 2 .. 6
    BY CoreCallTyped DEF Steps, Sound
  <2> QED BY <1>3, <2>1, StatusValues DEF Talking, Steps, Sound
<1>5. (Talking(side) \/ (~Calls(side) /\ end[side] = "closed"))'
  BY <1>1, <1>3, <1>4 DEF Talking, Calls, CallOf, Steps, Sound
<1>6. Talking(other)' = Talking(other) /\ Calls(other)' = Calls(other)
  BY <1>1 DEF Talking, Calls, CallOf
<1>7. (Talking(other) \/ (~Calls(other) /\ end[other] = "closed"))'
  BY <1>1, <1>6 DEF Tidy
<1> QED BY <1>2, <1>3, <1>5, <1>6, <1>7

LEMMA PlainKeepsTidy ==
    ASSUME Kept, Tidy, NEW side \in Side, NEW r, NEW inbox, NEW after,
           Steps(side, r, inbox, after), Plain(side, r, inbox), switching' = switching
    PROVE  Tidy'
<1> SUFFICES ASSUME switching = "clean"
             PROVE  Tidy'
  BY DEF Tidy
<1> DEFINE other == Other(side)
<1>1. /\ core'[side] = r.core /\ core'[other] = core[other]
      /\ flight'[side] = inbox /\ inbox \subseteq flight[side]
      /\ flight'[other] = flight[other] \cup Sent(r)
      /\ other \in Side /\ other # side
  <2>1. /\ core'[side] = r.core /\ core'[other] = core[other]
        /\ flight'[other] = flight[other] \cup Sent(r)
        /\ other \in Side /\ other # side
    BY StepsPrimed DEF Kept
  <2>2. flight'[side] = inbox
    BY <2>1 DEF Kept, TypeOK, Steps, Act
  <2> QED BY <2>1, <2>2 DEF Steps
<1>2. /\ \A x \in Side : (Talking(x) \/ (~Calls(x) /\ end[x] = "closed"))'
      /\ \A x \in Side : Talking(x)' => Talking(x)
  BY TidyTalks
<1>3. \A x \in Side : x = side \/ x = other
  BY DEF Side, Other
<1>4. \A x \in Side : Named(x)' = Named(x)
  <2>1. Named(side)' = Named(side)
    BY <1>1 DEF Named, Plain
  <2>2. Named(other)' = Named(other)
    BY <1>1 DEF Named, Plain
  <2> QED BY <1>3, <2>1, <2>2
<1>5. \A x \in Side : Talking(x)' => CallOf(x)'.profile = CallOf(x).profile
  <2>1. Talking(side)' => CallOf(side)'.profile = CallOf(side).profile
    BY <1>1, <1>2 DEF Talking, Calls, CallOf, Plain
  <2>2. CallOf(other)' = CallOf(other)
    BY <1>1 DEF CallOf
  <2> QED BY <1>3, <2>1, <2>2
<1>6. ASSUME Talking("caller")', Talking("callee")'
      PROVE  \/ /\ Named("caller") = {} /\ Named("callee") = {}
                /\ CallOf("caller").profile = CallOf("callee").profile
             \/ \E x \in Side :
                   /\ Named(x) = {}
                   /\ Named(Other(x)) = {ProfileSignal(CallOf(x).profile)}
  BY <1>2, <1>6 DEF Tidy, Side
<1>7. \A x \in Side : Other(x) \in Side
  BY DEF Side, Other
<1>8. ASSUME Talking("caller")', Talking("callee")'
      PROVE  (\/ /\ Named("caller") = {} /\ Named("callee") = {}
                 /\ CallOf("caller").profile = CallOf("callee").profile
              \/ \E x \in Side :
                    /\ Named(x) = {}
                    /\ Named(Other(x)) = {ProfileSignal(CallOf(x).profile)})'
  <2>1. \A x \in Side : CallOf(x)'.profile = CallOf(x).profile
    BY <1>5, <1>8 DEF Side
  <2>2. CASE /\ Named("caller") = {} /\ Named("callee") = {}
             /\ CallOf("caller").profile = CallOf("callee").profile
    BY <1>4, <2>1, <2>2 DEF Side
  <2>3. CASE \E x \in Side :
                   /\ Named(x) = {}
                   /\ Named(Other(x)) = {ProfileSignal(CallOf(x).profile)}
    BY <1>4, <1>7, <2>1, <2>3
  <2> QED BY <1>6, <1>8, <2>2, <2>3
<1> QED BY <1>2, <1>8 DEF Tidy

-----------------------------------------------------------------------------
(* Steps that preserve the invariant *)

(* A sound step that leaves the profiles alone. *)
LEMMA PlainStep ==
    ASSUME IInv, NEW side \in Side, NEW r, NEW inbox, NEW after,
           Steps(side, r, inbox, after), Plain(side, r, inbox), switching' = switching
    PROVE  IInv'
<1>1. Kept /\ Tidy
  BY DEF IInv, Kept
<1>2. switching' \in {"none", "clean", "disturbed"}
  BY DEF IInv, TypeOK
<1>3. Kept' /\ Tidy'
  BY <1>1, <1>2, SoundKeeps, PlainKeepsTidy
<1> QED BY <1>3 DEF IInv, Kept

(* A sound step that no switch survives. *)
LEMMA DisturbingStep ==
    ASSUME IInv, NEW side \in Side, NEW r, NEW inbox, NEW after,
           Steps(side, r, inbox, after), switching' = "disturbed"
    PROVE  IInv'
<1>1. Kept
  BY DEF IInv, Kept
<1>2. Kept' /\ Tidy'
  BY <1>1, SoundKeeps DEF Tidy
<1> QED BY <1>2 DEF IInv, Kept

LEMMA MessageKinds ==
    /\ Identify.kind = "identify" /\ Identify \notin Signal
    /\ \A s \in Status : /\ StatusSignal(s) \in Signal /\ StatusSignal(s).kind = "status"
                         /\ StatusSignal(s).status = s /\ StatusSignal(s) # Identify
    /\ \A p \in Profiles : /\ ProfileSignal(p) \in Signal /\ ProfileSignal(p).kind = "profile"
                           /\ ProfileSignal(p).profile = p
    /\ \A m \in Signal : /\ m.kind = "status" => m = StatusSignal(m.status)
                         /\ m.kind = "profile" => m = ProfileSignal(m.profile)
<1>1. Identify.kind = "identify"
  BY DEF Identify
<1>2. \A s : StatusSignal(s).kind = "status" /\ StatusSignal(s).status = s
  BY DEF StatusSignal
<1>3. \A p : ProfileSignal(p).kind = "profile" /\ ProfileSignal(p).profile = p
  BY DEF ProfileSignal
<1>4. RawSignal.kind = "raw"
  BY DEF RawSignal
<1>5. \A m \in Signal : \/ \E s \in Status : m = StatusSignal(s)
                        \/ \E p \in Profiles : m = ProfileSignal(p)
                        \/ m = RawSignal
  BY DEF Signal
<1>6. /\ \A s \in Status : StatusSignal(s) \in Signal
      /\ \A p \in Profiles : ProfileSignal(p) \in Signal
  BY DEF Signal
<1> QED BY <1>1, <1>2, <1>3, <1>4, <1>5, <1>6

(* The step leaves the call as it is. *)
LEMMA UnmovedSound ==
    ASSUME IInv, NEW side \in Side, end[side] = "up", NEW after \in {"up", "closed"}, NEW r,
           r.core \in Core, r.core.active = core[side].active,
           link \in r.core.pending => link \in r.core.ingress,
           after = "up" /\ link \in core[side].ingress => link \in r.core.ingress,
           \A t \in {"StopAudioPipelines", "OpenAudioPipelines", "StartAudioPipelines"} :
              ~Asks(r, t),
           Sent(r) \subseteq Message, \A m \in Sent(r) : m.kind # "profile",
           \A s \in {Connecting, Established} : StatusSignal(s) \in Sent(r) =>
              side = "callee" /\ Calls(side) /\ CallOf(side).answered
    PROVE  /\ Sound(side, r, after)
           /\ \A inbox : (\A m \in flight[side] : m.kind = "profile" => m \in inbox)
                 => Plain(side, r, inbox)
<1>1. Heard(side, r) = audio[side]
  BY DEF Heard
<1>2. audio[side] \in {"closed", "open", "running", "unopened"}
  BY DEF IInv, TypeOK
<1>3. HasCall(r.core) = Calls(side) /\ r.core.active.call = CallOf(side)
  BY DEF HasCall, Calls, CallOf
<1>4. Calls(side) => CallOf(side).status \in 2 .. 6
  BY CallsTyped DEF IInv
<1>5. audio[side] = "running" => Talking(side)
  BY DEF IInv, Founded
<1>6. Held(side) /\ Founded
  BY DEF IInv
<1>7. Sound(side, r, after)
  <2>1. HasCall(r.core) =>
          /\ r.core.active.link = link
          /\ r.core.active.call.role = RoleOf(side)
          /\ after = "up" => link \in r.core.ingress
    BY <1>3, <1>6 DEF Held
  <2>2. Calls(side) => CallOf(side).status >= CallOf(side).status
    BY <1>4
  <2>3. Heard(side, r) = "running" =>
          HasCall(r.core) /\ r.core.active.call.status = Established
    BY <1>1, <1>3, <1>5 DEF Talking
  <2>4. side = "callee" =>
          /\ HasCall(r.core) /\ r.core.active.call.status >= Connecting
                => r.core.active.call.answered
          /\ HasCall(r.core) /\ r.core.active.call.status = Established => CallerJoined
          /\ \A s \in {Connecting, Established} : StatusSignal(s) \in Sent(r)
                => HasCall(r.core) /\ r.core.active.call.answered
    BY <1>3, <1>6 DEF Founded, Talking
  <2>5. side = "caller" =>
          /\ HasCall(r.core) /\ r.core.active.call.status >= Connecting => CalleeJoined
          /\ StatusSignal(Established) \in Sent(r)
                => HasCall(r.core) /\ r.core.active.call.status >= Connecting
    BY <1>3, <1>6 DEF Founded
  <2> QED BY <1>1, <1>2, <1>3, <2>1, <2>2, <2>3, <2>4, <2>5 DEF Sound
<1>8. \A inbox : (\A m \in flight[side] : m.kind = "profile" => m \in inbox)
                 => Plain(side, r, inbox)
  BY <1>3 DEF Plain
<1> QED BY <1>7, <1>8

LEMMA RefusalSound ==
    ASSUME IInv, NEW side \in Side, end[side] = "up", NEW e, NEW r,
           r = Refuse(core[side], e)
    PROVE  /\ Sound(side, r, "up") /\ ~Asks(r, "TeardownLink")
           /\ \A inbox : (\A m \in flight[side] : m.kind = "profile" => m \in inbox)
                 => Plain(side, r, inbox)
<1>1. r.core = core[side] /\ r.commands = <<>>
  BY DEF Refuse
<1>2. Sent(r) = {} /\ \A t : ~Asks(r, t)
  BY <1>1, SentNothing
<1>3. r.core \in Core
  BY <1>1 DEF IInv, TypeOK
<1>4. link \in r.core.pending => link \in r.core.ingress
  BY <1>1 DEF IInv, Held
<1> QED BY <1>1, <1>2, <1>3, <1>4, UnmovedSound

(* The step ends the call, or finds none. *)
Leaves(side, r) ==
    /\ r.core \in Core /\ ~HasCall(r.core)
    /\ link \in r.core.pending => link \in r.core.ingress
    /\ Sent(r) \subseteq {StatusSignal(Rejected)}
    /\ Heard(side, r) \in {"closed", "open", "unopened"}

LEMMA LeavesSound ==
    ASSUME NEW side \in Side, NEW r, Leaves(side, r)
    PROVE  /\ Sound(side, r, "closed")
           /\ \A inbox : (\A m \in flight[side] : m.kind = "profile" => m \in inbox)
                 => Plain(side, r, inbox)
<1>1. /\ StatusSignal(Rejected) \in Message /\ StatusSignal(Rejected).kind = "status"
      /\ \A s \in {Connecting, Established} : StatusSignal(s) \notin Sent(r)
  BY MessageKinds, StatusValues DEF Message, Leaves
<1> QED BY <1>1 DEF Leaves, Sound, Plain

-----------------------------------------------------------------------------
(* The steps of the users and the timers *)

(* A local step, or the delivery of a message, is a sound step of its side. *)
LEMMA LocalStep ==
    ASSUME IInv, NEW side \in Side, NEW r, NEW after,
           Local(side, r), UNCHANGED switching,
           after = IF Asks(r, "TeardownLink") THEN "closed" ELSE "up",
           Sound(side, r, after),
           \A inbox : (\A m \in flight[side] : m.kind = "profile" => m \in inbox)
                 => Plain(side, r, inbox)
    PROVE  IInv'
<1>1. Steps(side, r, flight[side], after)
  BY DEF Local, Steps
<1>2. Plain(side, r, flight[side])
  OBVIOUS
<1> QED BY <1>1, <1>2, PlainStep

LEMMA RefusedStep ==
    ASSUME IInv, NEW side \in Side, NEW e, Local(side, Refuse(core[side], e)),
           UNCHANGED switching
    PROVE  IInv'
<1> DEFINE r == Refuse(core[side], e)
<1>1. end[side] = "up"
  BY DEF Local
<1>2. /\ Sound(side, r, "up") /\ ~Asks(r, "TeardownLink")
      /\ \A inbox : (\A m \in flight[side] : m.kind = "profile" => m \in inbox)
            => Plain(side, r, inbox)
  BY <1>1, RefusalSound
<1> HIDE DEF r
<1>3. Local(side, r)
  BY DEF r
<1> QED BY <1>2, <1>3, LocalStep

LEMMA SendsSome ==
    ASSUME NEW a, NEW S, \A i \in DOMAIN a : a[i].type = "SendSignal" => a[i].signal \in S
    PROVE  Sends(a) \subseteq S
BY DEF Sends

(* A termination says at most REJECTED. *)
LEMMA TerminateLeaves ==
    ASSUME IInv, NEW side \in Side, Calls(side), NEW timeout \in BOOLEAN,
           NEW reason \in Status \cup {NoReason},
           NEW r, r = TerminateActive(core[side], timeout, reason)
    PROVE  Leaves(side, r) /\ Asks(r, "TeardownLink")
<1> DEFINE c == core[side]
           l == c.active.link
           down == Do("TeardownLink")
           stop == Do("StopAudioPipelines")
           told == CallTerminated(reason)
           rejected == SendStatus(Rejected)
           a == Hangup(c.active.call, timeout).actions \o <<stop, told>>
<1>1. c \in Core /\ HasCall(c) /\ l \in Links /\ l = link
  BY ActiveTyped DEF IInv, TypeOK, Held, Calls
<1>2. r = Step(Released(c, l), CommandsFrom(l, a))
  BY <1>1 DEF TerminateActive
<1>3. /\ stop.type = "StopAudioPipelines" /\ told.type = "CallTerminated"
      /\ down.type = "TeardownLink" /\ rejected.type = "SendSignal"
      /\ rejected.signal = StatusSignal(Rejected)
  BY DEF Do, CallTerminated, SendStatus, SendSignal
<1> DEFINE h == Hangup(c.active.call, timeout).actions
           e == <<stop, told>>
<1>4. h \in {<<rejected, down>>, <<down>>}
  BY DEF Hangup, Result
<1>5. Released(c, l) \in Core /\ ~HasCall(Released(c, l)) /\ l \notin Released(c, l).pending
  BY <1>1, ReleasedTyped DEF HasCall
<1>6. /\ stop \in LineAction /\ told \in LineAction /\ down \in LineAction
      /\ rejected \in LineAction
  <2>1. stop \in LineAction /\ told \in LineAction /\ down \in LineAction
    BY DEF Do, CallTerminated, LineAction, Action
  <2>2. rejected \in CallAction
    BY StatusValues, ActionsTyped
  <2> QED BY <2>1, <2>2 DEF LineAction, CallAction
<1>7. a = h \o e
  OBVIOUS
<1> HIDE DEF c, l, down, stop, told, rejected, a, h
<1>8. /\ e \in Seq(LineAction) /\ Sends(e) = {}
      /\ Effects(e) = {"StopAudioPipelines", "CallTerminated"}
  BY <1>3, <1>6 DEF Sends, Effects
<1> HIDE DEF e
<1>9. /\ h \in Seq(LineAction) /\ Sends(h) \subseteq {StatusSignal(Rejected)}
       /\ "TeardownLink" \in Effects(h) /\ "IdentifyLocalIdentity" \notin Effects(h)
  <2> DEFINE two == <<rejected, down>>
             one == <<down>>
  <2>1. /\ two \in Seq(LineAction) /\ Sends(two) = {StatusSignal(Rejected)}
        /\ Effects(two) = {"SendSignal", "TeardownLink"}
    BY <1>3, <1>6 DEF Sends, Effects
  <2>2. one \in Seq(LineAction) /\ Sends(one) = {} /\ Effects(one) = {"TeardownLink"}
    BY <1>3, <1>6 DEF Sends, Effects
  <2>3. h = two \/ h = one
    BY <1>4
  <2> HIDE DEF two, one
  <2> QED BY <2>1, <2>2, <2>3
<1>10. /\ Sends(a) \subseteq {StatusSignal(Rejected)}
       /\ {"TeardownLink", "StopAudioPipelines"} \subseteq Effects(a)
       /\ "IdentifyLocalIdentity" \notin Effects(a)
  <2>1. Effects(a) = Effects(h) \cup Effects(e) /\ Sends(a) = Sends(h) \cup Sends(e)
    BY <1>7, <1>8, <1>9, EffectsBoth, SendsBoth
  <2> QED BY <1>8, <1>9, <2>1
<1>11. /\ r.core = Released(c, l) /\ Asks(r, "TeardownLink") /\ Asks(r, "StopAudioPipelines")
      /\ Sent(r) \subseteq {StatusSignal(Rejected)}
  BY <1>2, <1>10, SentFrom
<1> QED BY <1>1, <1>5, <1>11 DEF Leaves, Heard

LEMMA LeavingStep ==
    ASSUME IInv, NEW side \in Side, NEW r, Local(side, r), UNCHANGED switching,
           Leaves(side, r), Asks(r, "TeardownLink")
    PROVE  IInv'
BY LeavesSound, LocalStep

LEMMA HangUpStep ==
    ASSUME IInv, NEW side \in Side, Calls(side), NEW timeout \in BOOLEAN,
           NEW reason \in Status \cup {NoReason},
           Local(side, TerminateActive(core[side], timeout, reason)), UNCHANGED switching
    PROVE  IInv'
<1> DEFINE r == TerminateActive(core[side], timeout, reason)
<1>1. Leaves(side, r) /\ Asks(r, "TeardownLink")
  BY TerminateLeaves
<1>2. Local(side, r)
  OBVIOUS
<1> HIDE DEF r
<1> QED BY <1>1, <1>2, LeavingStep

LEMMA TimerSteps ==
    ASSUME IInv,
           \/ AnswerExpires \/ RingExpires \/ DialExpires
           \/ \E side \in Side : HangUp(side)
    PROVE  IInv'
<1>1. Connecting \in Status /\ "caller" \in Side /\ "callee" \in Side
  BY StatusValues DEF Side
<1>2. ASSUME NEW side \in Side, HangUp(side)
      PROVE  IInv'
  BY <1>2, HangUpStep DEF HangUp, Plainly, HangupActive
<1>3. CASE RingExpires
  BY <1>1, <1>3, HangUpStep DEF RingExpires, Plainly, HangupActive
<1>4. CASE DialExpires
  BY <1>1, <1>4, HangUpStep DEF DialExpires, Plainly, HangupActive
<1>5. CASE AnswerExpires
  <2> DEFINE c == core["callee"]
             r == TimeoutAnswerActive(c, link)
  <2>1. Local("callee", r) /\ UNCHANGED switching
    BY <1>5 DEF AnswerExpires, Plainly
  <2>2. \/ \E e : r = Refuse(c, e)
        \/ Calls("callee") /\ r = TerminateActive(c, FALSE, Connecting)
    BY DEF TimeoutAnswerActive, IsActive, Calls
  <2> QED BY <1>1, <2>1, <2>2, RefusedStep, HangUpStep
<1> QED BY <1>2, <1>3, <1>4, <1>5

-----------------------------------------------------------------------------
(* Steps that move a call forward *)

LEMMA ForwardSound ==
    ASSUME IInv, NEW side \in Side, end[side] = "up", Calls(side), NEW o,
           Forward(CallOf(side), o), Plays(CallOf(side), o), Sends(o.actions) \subseteq Signal,
           side = "callee" =>
              /\ o.call.status >= Connecting => o.call.answered
              /\ o.call.status = Established => CallerJoined
              /\ \A s \in {Connecting, Established} :
                    StatusSignal(s) \in Sends(o.actions) => o.call.answered,
           side = "caller" =>
              /\ o.call.status >= Connecting => CalleeJoined
              /\ StatusSignal(Established) \in Sends(o.actions)
                    => o.call.status >= Connecting,
           NEW r, r = Step(WithCall(core[side], o.call), CommandsFrom(link, o.actions))
    PROVE  /\ Sound(side, r, "up") /\ ~Asks(r, "TeardownLink")
           /\ HasCall(r.core) /\ r.core.active.call = o.call
           /\ \A m \in Signal : m \in Sent(r) <=> m \in Sends(o.actions)
<1> DEFINE c == core[side]
           d == WithCall(c, o.call)
<1>1. c \in Core /\ HasCall(c)
  BY DEF IInv, TypeOK, Calls
<1>2. o.actions \in Seq(CallAction) /\ o.call \in Call
  BY DEF Forward, Fits
<1>3. /\ d \in Core /\ HasCall(d) /\ d.active.link = c.active.link /\ d.active.call = o.call
      /\ d.pending = c.pending /\ d.ingress = c.ingress
  BY <1>1, <1>2, WithCallTyped
<1> HIDE DEF d
<1>4. Effects(o.actions) \subseteq CallEffects
  BY <1>2 DEF Effects, CallAction
<1>5. /\ r.core = d
      /\ \A t : Asks(r, t) <=> t \in Effects(o.actions)
      /\ Sends(o.actions) \subseteq Sent(r) /\ Sent(r) \subseteq Sends(o.actions) \cup {Identify}
  <2>1. r = Step(d, CommandsFrom(link, o.actions))
    BY DEF d
  <2> QED BY <2>1, SentFrom
<1>6. ~Asks(r, "TeardownLink") /\ ~Asks(r, "StopAudioPipelines")
  BY <1>4, <1>5 DEF CallEffects
<1>7. \A m \in Signal : m \in Sent(r) <=> m \in Sends(o.actions)
  BY <1>5, MessageKinds
<1>8. \A s \in {Connecting, Established} : StatusSignal(s) \in Signal
  BY MessageKinds, StatusValues
<1>9. Heard(side, r) \in {"closed", "open", "running", "unopened"}
  BY DEF Heard, IInv, TypeOK
<1>10. Heard(side, r) = "running" => o.call.status = Established
  <2>1. CASE Asks(r, "StartAudioPipelines")
    BY <1>5, <2>1 DEF Plays
  <2>2. CASE ~Asks(r, "StartAudioPipelines") /\ Heard(side, r) = "running"
    <3>1. audio[side] = "running"
      BY <1>6, <2>2 DEF Heard
    <3>2. CallOf(side).status = Established
      BY <3>1 DEF IInv, Founded, Talking
    <3>3. o.call.status \in 2 .. 6
      BY <1>2, StatusValues DEF Call
    <3> QED BY <3>2, <3>3, StatusValues DEF Forward
  <2> QED BY <2>1, <2>2
<1>11. /\ c.active.link = link /\ c.active.call.role = RoleOf(side) /\ link \in c.ingress
  BY <1>1 DEF IInv, Held, CallOf, Calls
<1>12. /\ o.call.role = CallOf(side).role /\ o.call.status >= CallOf(side).status
       /\ CallOf(side).answered => o.call.answered
  BY DEF Forward
<1>13. Sound(side, r, "up")
  <2>1. /\ r.core.active.link = link /\ r.core.active.call.role = RoleOf(side)
        /\ link \in r.core.ingress
    BY <1>3, <1>5, <1>11, <1>12 DEF CallOf
  <2>2. Sent(r) \subseteq Message
    BY <1>5 DEF Message
  <2>3. \A s \in {Connecting, Established} :
           StatusSignal(s) \in Sent(r) <=> StatusSignal(s) \in Sends(o.actions)
    BY <1>7, <1>8
  <2> QED BY <1>3, <1>5, <1>9, <1>10, <1>12, <2>1, <2>2, <2>3 DEF Sound
<1> QED BY <1>3, <1>5, <1>6, <1>7, <1>13

(* A forward step that sends no profile and keeps the one the call talks in. *)
LEMMA ForwardPlain ==
    ASSUME NEW side \in Side, NEW o, NEW r, Sound(side, r, "up"),
           r.core.active.call = o.call,
           \A m \in Signal : m \in Sent(r) <=> m \in Sends(o.actions),
           \A m \in Sends(o.actions) : m.kind # "profile",
           Talking(side) => o.call.profile = CallOf(side).profile
    PROVE  \A inbox : (\A m \in flight[side] : m.kind = "profile" => m \in inbox)
                 => Plain(side, r, inbox)
<1>1. \A m \in Sent(r) : m.kind # "profile"
  BY MessageKinds DEF Sound, Message
<1> QED BY <1>1 DEF Plain

LEMMA PickupStep ==
    ASSUME IInv, Pickup
    PROVE  IInv'
<1> DEFINE c == core["callee"]
           o == Answer(c.active.call)
           r == AnswerActive(c, link)
<1>1. "callee" \in Side /\ Local("callee", r) /\ UNCHANGED switching
  BY DEF Pickup, Plainly, Side
<1>2. CASE ~(IsActive(c, link) /\ CanAnswer(c.active.call))
  <2>1. \E e : r = Refuse(c, e)
    BY <1>2 DEF AnswerActive
  <2> QED BY <1>1, <2>1, RefusedStep
<1>3. CASE IsActive(c, link) /\ CanAnswer(c.active.call)
  <2>1. Calls("callee") /\ c.active.call = CallOf("callee") /\ CallOf("callee") \in Call
    BY <1>1, <1>3, CallsTyped DEF IInv, IsActive, Calls, CallOf
  <2>2. /\ Forward(CallOf("callee"), o) /\ o.call.answered /\ Plays(CallOf("callee"), o)
    BY <1>3, <2>1, AnswerForward, AnswerPlays
  <2>3. r = Step(WithCall(c, o.call), CommandsFrom(link, o.actions))
    BY <1>3 DEF AnswerActive
  <2>4. o.call.status = Connecting
    BY <1>3, <2>1 DEF Answer, Result, Answered, At, Using, Call
  <2>5. \A m \in Sends(o.actions) : m \in Signal /\ m.kind = "status"
    <3>1. \A i \in DOMAIN o.actions : o.actions[i].type = "SendSignal" =>
             o.actions[i].signal \in {StatusSignal(Connecting), StatusSignal(Established)}
      BY <1>3 DEF Answer, Result, SelectProfile, SendStatus, SendSignal, Do
    <3>2. Sends(o.actions) \subseteq {StatusSignal(Connecting), StatusSignal(Established)}
      BY <3>1, SendsSome
    <3> QED BY <3>2, MessageKinds, StatusValues
  <2>6. ~Talking("callee")
    BY <1>3, <2>1, StatusValues DEF CanAnswer, Talking
  <2> HIDE DEF o, r, c
  <2>7. /\ Sound("callee", r, "up") /\ ~Asks(r, "TeardownLink")
        /\ HasCall(r.core) /\ r.core.active.call = o.call
        /\ \A m \in Signal : m \in Sent(r) <=> m \in Sends(o.actions)
    BY <1>1, <2>1, <2>2, <2>3, <2>4, <2>5, StatusValues, ForwardSound DEF Local, c
  <2>8. \A inbox : (\A m \in flight["callee"] : m.kind = "profile" => m \in inbox)
                 => Plain("callee", r, inbox)
    BY <1>1, <2>5, <2>6, <2>7, ForwardPlain
  <2> QED BY <1>1, <2>7, <2>8, LocalStep
<1> QED BY <1>2, <1>3

LEMMA RetryStep ==
    ASSUME IInv, AnswerRetry
    PROVE  IInv'
<1> DEFINE c == core["callee"]
           a == <<SendStatus(Connecting), SendStatus(Established)>>
           r == RetryAnswerActive(c, link)
<1>1. "callee" \in Side /\ Local("callee", r) /\ UNCHANGED switching
  BY DEF AnswerRetry, Plainly, Side
<1>2. CASE ~(IsActive(c, link) /\ CanRetryAnswer(c.active.call))
  <2>1. \E e : r = Refuse(c, e)
    BY <1>2 DEF RetryAnswerActive
  <2> QED BY <1>1, <2>1, RefusedStep
<1>3. CASE IsActive(c, link) /\ CanRetryAnswer(c.active.call)
  <2>1. Calls("callee") /\ CallOf("callee").answered
    BY <1>3 DEF IsActive, Calls, CallOf, CanRetryAnswer
  <2>2. r = Step(c, CommandsFrom(link, a))
    BY <1>3 DEF RetryAnswerActive, RetryAnswer
  <2>3. /\ Effects(a) = {"SendSignal"}
        /\ Sends(a) = {StatusSignal(Connecting), StatusSignal(Established)}
    BY DEF Effects, Sends, SendStatus, SendSignal
  <2> HIDE DEF a
  <2>4. r.core = c /\ Sent(r) = Sends(a) /\ \A t : Asks(r, t) <=> t = "SendSignal"
    BY <2>2, <2>3, SentFrom
  <2>5. \A m \in Sent(r) : m \in Message /\ m.kind # "profile"
    BY <2>3, <2>4, MessageKinds, StatusValues DEF Message
  <2>6. /\ c \in Core /\ end["callee"] = "up"
        /\ link \in c.pending => link \in c.ingress
    BY <1>1 DEF IInv, TypeOK, Held, Local
  <2> HIDE DEF r, c
  <2>7. /\ Sound("callee", r, "up")
        /\ \A inbox : (\A m \in flight["callee"] : m.kind = "profile" => m \in inbox)
                 => Plain("callee", r, inbox)
    BY <1>1, <2>1, <2>4, <2>5, <2>6, UnmovedSound DEF c
  <2> QED BY <1>1, <2>4, <2>7, LocalStep
<1> QED BY <1>2, <1>3

(* A call stays where it is, or is led by a message that was on its way.   *)
LEMMA LedSound ==
    ASSUME IInv, NEW side \in Side, end[side] = "up", Calls(side), NEW o,
           Forward(CallOf(side), o), Plays(CallOf(side), o), Sends(o.actions) \subseteq Signal,
           o.call.answered = CallOf(side).answered,
           \/ o.call.status = CallOf(side).status
           \/ /\ StatusSignal(o.call.status) \in flight[side]
              /\ side = "callee" => CallOf(side).answered,
           StatusSignal(Connecting) \notin Sends(o.actions),
           StatusSignal(Established) \in Sends(o.actions) =>
              side = "caller" /\ o.call.status >= Connecting,
           NEW r, r = Step(WithCall(core[side], o.call), CommandsFrom(link, o.actions))
    PROVE  /\ Sound(side, r, "up") /\ ~Asks(r, "TeardownLink")
           /\ HasCall(r.core) /\ r.core.active.call = o.call
           /\ \A m \in Signal : m \in Sent(r) <=> m \in Sends(o.actions)
<1>1. o.call \in Call /\ o.call.status \in 2 .. 6
  BY StatusValues DEF Forward, Call
<1>2. Founded
  BY DEF IInv
<1>3. side = "callee" =>
        /\ o.call.status >= Connecting => o.call.answered
        /\ o.call.status = Established => CallerJoined
        /\ \A s \in {Connecting, Established} :
              StatusSignal(s) \in Sends(o.actions) => o.call.answered
  BY <1>2 DEF Founded, Talking
<1>4. side = "caller" =>
        /\ o.call.status >= Connecting => CalleeJoined
        /\ StatusSignal(Established) \in Sends(o.actions) => o.call.status >= Connecting
  <2>1. o.call.status >= Connecting => o.call.status \in {Connecting, Established}
    BY <1>1, StatusValues
  <2> QED BY <1>2, <2>1 DEF Founded
<1> QED BY <1>3, <1>4, ForwardSound

LEMMA SwitchStep ==
    ASSUME IInv, NEW side \in Side, NEW p \in Profiles,
           NEW r, r = SwitchActiveProfile(core[side], p), Local(side, r),
           switching' = SwitchedTo(r)
    PROVE  IInv'
<1> DEFINE c == core[side]
           o == SwitchTo(c.active.call, p)
           other == Other(side)
<1>1. CASE ~Talking(side)
  <2>1. PICK e : r = Refuse(c, e)
    BY <1>1 DEF SwitchActiveProfile, Talking, Calls, CallOf
  <2>2. Sent(r) = {}
    BY <2>1, SentNothing DEF Refuse
  <2>3. UNCHANGED switching
    BY <2>2 DEF SwitchedTo
  <2> QED BY <2>1, <2>3, RefusedStep
<1>2. CASE Talking(side)
  <2>1. /\ Calls(side) /\ c.active.call = CallOf(side) /\ CallOf(side) \in Call
        /\ CallOf(side).status = Established
    BY <1>2, CallsTyped DEF IInv, CallOf, Talking
  <2>2. c.active.link = link /\ end[side] = "up"
    BY <2>1 DEF IInv, Held, Local
  <2>3. r = Step(WithCall(c, o.call), CommandsFrom(link, o.actions))
    BY <2>1, <2>2 DEF SwitchActiveProfile, Calls
  <2>4. Forward(CallOf(side), o)
    BY <2>1, SwitchToForward
  <2>5. /\ o.call.status = CallOf(side).status /\ o.call.answered = CallOf(side).answered
        /\ o.call.profile = p
    BY <2>1 DEF SwitchTo, Result, Using, Call
  <2>6. /\ "OpenAudioPipelines" \notin Effects(o.actions)
        /\ "StartAudioPipelines" \notin Effects(o.actions)
    BY DEF SwitchTo, Result, Effects, SendSignal, SwitchProfile, SelectProfile
  <2>7. /\ CallOf(side).profile = p => Sends(o.actions) = {}
        /\ CallOf(side).profile # p => Sends(o.actions) = {ProfileSignal(p)}
    <3>1. CASE CallOf(side).profile = p
      BY <2>1, <3>1 DEF SwitchTo, Result, Sends
    <3>2. CASE CallOf(side).profile # p
      <4>1. o.actions = <<SendSignal(ProfileSignal(p)), SwitchProfile(p)>>
        BY <2>1, <3>2 DEF SwitchTo, Result
      <4>2. /\ SendSignal(ProfileSignal(p)).type = "SendSignal"
            /\ SendSignal(ProfileSignal(p)).signal = ProfileSignal(p)
            /\ SwitchProfile(p).type = "SwitchProfile"
        BY DEF SendSignal, SwitchProfile
      <4> HIDE DEF o
      <4>3. Sends(o.actions) = {ProfileSignal(p)}
        BY <4>1, <4>2 DEF Sends
      <4> QED BY <3>2, <4>3
    <3> QED BY <3>1, <3>2
  <2> HIDE DEF o, c
  <2>8. /\ Sends(o.actions) \subseteq Signal
        /\ \A s \in Status : StatusSignal(s) \notin Sends(o.actions)
    <3>1. \A s \in Status : StatusSignal(s) # ProfileSignal(p)
      BY MessageKinds
    <3> QED BY <2>7, <3>1, MessageKinds
  <2>9. Plays(CallOf(side), o)
    BY <2>6 DEF Plays
  <2>10. /\ Sound(side, r, "up") /\ ~Asks(r, "TeardownLink")
         /\ HasCall(r.core) /\ r.core.active.call = o.call
         /\ \A m \in Signal : m \in Sent(r) <=> m \in Sends(o.actions)
    BY <2>1, <2>2, <2>3, <2>4, <2>5, <2>8, <2>9, StatusValues, LedSound DEF c
  <2>11. Steps(side, r, flight[side], "up")
    BY <2>2, <2>10 DEF Local, Steps
  <2>12. CASE CallOf(side).profile = p
    <3>1. \A inbox : (\A m \in flight[side] : m.kind = "profile" => m \in inbox)
                 => Plain(side, r, inbox)
      BY <2>5, <2>7, <2>10, <2>12, ForwardPlain
    <3>2. switching' = switching
      BY <3>1 DEF Plain, SwitchedTo
    <3> QED BY <2>11, <3>1, <3>2, PlainStep
  <2>13. CASE CallOf(side).profile # p
    <3>1. switching' = "disturbed"
             \/ /\ switching' = "clean" /\ Talking("caller") /\ Talking("callee")
                /\ ProfilesUnderWay = {}
      <4>1. ProfileSignal(p) \in Sent(r) /\ ProfileSignal(p).kind = "profile"
        BY <2>7, <2>10, <2>13, MessageKinds
      <4> QED BY <4>1 DEF SwitchedTo
    <3>2. CASE switching' = "disturbed"
      BY <2>11, <3>2, DisturbingStep
    <3>3. CASE /\ switching' = "clean" /\ Talking("caller") /\ Talking("callee")
               /\ ProfilesUnderWay = {}
      <4>1. Kept
        BY DEF IInv, Kept
      <4>2. Kept'
        BY <2>11, <3>3, <4>1, SoundKeeps
      <4>3. /\ core'[side] = r.core /\ core'[other] = core[other]
            /\ flight'[side] \subseteq flight[side]
            /\ flight'[other] = flight[other] \cup Sent(r)
            /\ other \in Side /\ other # side
        BY <2>11, <4>1, StepsPrimed DEF Kept
      <4>4. \A x \in Side : Talking(x)'
        <5>1. Talking(side)'
          BY <2>1, <2>5, <2>10, <4>3 DEF Talking, Calls, CallOf
        <5>2. Talking(other)' = Talking(other)
          BY <4>3 DEF Talking, Calls, CallOf
        <5> QED BY <3>3, <5>1, <5>2 DEF Side, Other
      <4>5. Named(side)' = {} /\ Named(other) = {}
        BY <3>3, <4>3 DEF Named, ProfilesUnderWay, Side
      <4>6. Named(other)' = {ProfileSignal(p)}
        <5>1. \A m \in Sent(r) : m.kind = "profile" <=> m = ProfileSignal(p)
          BY <2>7, <2>10, <2>13, MessageKinds DEF Sound, Message
        <5>2. ProfileSignal(p) \in Sent(r)
          BY <2>7, <2>10, <2>13, MessageKinds
        <5> QED BY <4>3, <4>5, <5>1, <5>2 DEF Named
      <4>7. CallOf(side)'.profile = p
        BY <2>5, <2>10, <4>3 DEF CallOf
      <4>8. Tidy'
        BY <4>4, <4>5, <4>6, <4>7 DEF Tidy
      <4> QED BY <4>2, <4>8 DEF IInv, Kept
    <3> QED BY <3>1, <3>2, <3>3
  <2> QED BY <2>12, <2>13
<1> QED BY <1>1, <1>2

-----------------------------------------------------------------------------
(* Deliveries *)

Delivers(side, message, r) ==
    /\ message \in flight[side] /\ end[side] = "up"
    /\ Act(side, r, flight[side] \ {message})
    /\ end' = [end EXCEPT ![side] = IF Asks(r, "TeardownLink") THEN "closed" ELSE @]
    /\ switching' = SwitchedTo(r)
    /\ timed' = timed

LEMMA DeliversSteps ==
    ASSUME IInv, NEW side \in Side, NEW message, NEW r, Delivers(side, message, r),
           NEW after, after = IF Asks(r, "TeardownLink") THEN "closed" ELSE "up",
           Sound(side, r, after)
    PROVE  Steps(side, r, flight[side] \ {message}, after)
BY DEF Delivers, Steps

(* The message is no profile, and its delivery sends none. *)
LEMMA PlainDelivery ==
    ASSUME IInv, NEW side \in Side, NEW message, message.kind # "profile",
           NEW r, Delivers(side, message, r),
           NEW after, after = IF Asks(r, "TeardownLink") THEN "closed" ELSE "up",
           Sound(side, r, after),
           \A inbox : (\A m \in flight[side] : m.kind = "profile" => m \in inbox)
                 => Plain(side, r, inbox)
    PROVE  IInv'
<1>1. Steps(side, r, flight[side] \ {message}, after)
  BY DeliversSteps
<1>2. Plain(side, r, flight[side] \ {message})
  <2>1. \A m \in flight[side] : m.kind = "profile" => m \in flight[side] \ {message}
    OBVIOUS
  <2> QED BY <2>1
<1>3. switching' = switching
  BY <1>2 DEF Plain, Delivers, SwitchedTo
<1> QED BY <1>1, <1>2, <1>3, PlainStep

(* The delivered signal finds no call. *)
LEMMA RefusedDelivery ==
    ASSUME IInv, NEW side \in Side, NEW message, ~Talking(side),
           NEW e, NEW r, r = Refuse(core[side], e), Delivers(side, message, r)
    PROVE  IInv'
<1>1. /\ Sound(side, r, "up") /\ ~Asks(r, "TeardownLink") /\ Sent(r) = {}
  BY RefusalSound, SentNothing DEF Delivers, Refuse
<1>2. Steps(side, r, flight[side] \ {message}, "up")
  BY <1>1, DeliversSteps
<1>3. switching' = switching
  BY <1>1 DEF Delivers, SwitchedTo
<1>4. switching # "clean"
  BY DEF IInv, Tidy, Delivers
<1>5. Kept
  BY DEF IInv, Kept
<1>6. switching' \in {"none", "clean", "disturbed"}
  BY <1>3 DEF IInv, TypeOK
<1>7. Kept' /\ Tidy'
  BY <1>2, <1>3, <1>4, <1>5, <1>6, SoundKeeps DEF Tidy
<1> QED BY <1>7 DEF IInv, Kept

(* A terminating signal ends the call. *)
LEMMA EndedLeaves ==
    ASSUME IInv, NEW side \in Side, Calls(side), NEW s \in Signal,
           EndsCall(CallOf(side), s), NEW r, r = ReceiveOn(core[side], link, s)
    PROVE  Leaves(side, r) /\ Asks(r, "TeardownLink") /\ s.kind # "profile"
<1> DEFINE c == core[side]
           o == ReceiveSignal(c.active.call, s)
           a == <<Do("StopAudioPipelines"), Do("TeardownLink"),
                  CallTerminated(o.actions[1].reason)>>
<1>1. c \in Core /\ HasCall(c) /\ c.active.link = link /\ c.active.call \in Call
  BY CallsTyped DEF IInv, TypeOK, Held, Calls, CallOf
<1>2. o.actions = <<Terminate(s.status)>>
  BY <1>1, ReceiveSignalEnds DEF CallOf
<1>3. Terminates(o.actions)
  BY <1>2 DEF Terminates, Terminate
<1>4. r = Step(Released(c, link), CommandsFrom(link, a))
  BY <1>1, <1>3 DEF ReceiveOn
<1>5. /\ Effects(a) = {"StopAudioPipelines", "TeardownLink", "CallTerminated"}
      /\ Sends(a) = {}
  <2> DEFINE told == CallTerminated(o.actions[1].reason)
  <2>1. told.type = "CallTerminated"
    BY DEF CallTerminated
  <2> HIDE DEF o, told
  <2>2. a = <<Do("StopAudioPipelines"), Do("TeardownLink"), told>>
    BY DEF told
  <2> HIDE DEF a
  <2> QED BY <2>1, <2>2, SMTT(30) DEF Effects, Sends, Do
<1> HIDE DEF a, o
<1>6. /\ r.core = Released(c, link) /\ Asks(r, "TeardownLink")
      /\ Asks(r, "StopAudioPipelines") /\ Sent(r) = {}
  BY <1>4, <1>5, SentFrom
<1>7. /\ Released(c, link) \in Core /\ ~HasCall(Released(c, link))
      /\ link \notin Released(c, link).pending
  BY <1>1, HandshakeAssumption, ReleasedTyped DEF HasCall
<1>8. s.kind # "profile"
  BY DEF EndsCall
<1> QED BY <1>6, <1>7, <1>8 DEF Leaves, Heard

(* Any other signal moves it forward. *)
LEMMA HeardSound ==
    ASSUME IInv, NEW side \in Side, end[side] = "up", Calls(side),
           NEW s \in Signal, s \in flight[side], ~EndsCall(CallOf(side), s),
           NEW r, r = ReceiveOn(core[side], link, s),
           NEW o, o = ReceiveSignal(CallOf(side), s)
    PROVE  /\ Sound(side, r, "up") /\ ~Asks(r, "TeardownLink")
           /\ HasCall(r.core) /\ r.core.active.call = o.call
           /\ \A m \in Signal : m \in Sent(r) <=> m \in Sends(o.actions)
           /\ Leads(CallOf(side), s, o) /\ Tells(CallOf(side), o)
<1> DEFINE c == core[side]
<1>1. HasCall(c) /\ c.active.link = link /\ CallOf(side) \in Call
      /\ CallOf(side).role = RoleOf(side)
  BY CallsTyped DEF IInv, Held, Calls
<1>2. Forward(CallOf(side), o) /\ Plays(CallOf(side), o)
  BY <1>1, ReceiveSignalForward, ReceivePlays
<1>3. Leads(CallOf(side), s, o) /\ Tells(CallOf(side), o)
  BY <1>1, ReceiveTold
<1>4. ~Terminates(o.actions)
  BY <1>2 DEF Terminates, Forward, Fits, CallAction, CallEffects
<1>5. r = Step(WithCall(c, o.call), CommandsFrom(link, o.actions))
  BY <1>1, <1>4 DEF ReceiveOn, CallOf
<1>6. \/ o.call.status = CallOf(side).status
      \/ /\ StatusSignal(o.call.status) \in flight[side]
         /\ side = "callee" => CallOf(side).answered
  <2>1. CASE o.call.status = CallOf(side).status
    BY <2>1
  <2>2. CASE /\ s.kind = "status" /\ o.call.status = s.status
             /\ CallOf(side).role = "Incoming" => CallOf(side).answered
    <3>1. s = StatusSignal(s.status)
      BY <2>2, MessageKinds
    <3>2. side = "callee" => CallOf(side).answered
      BY <1>1, <2>2 DEF RoleOf
    <3> QED BY <2>2, <3>1, <3>2
  <2> QED BY <1>3, <2>1, <2>2 DEF Leads
<1>7. /\ Sends(o.actions) \subseteq Signal /\ StatusSignal(Connecting) \notin Sends(o.actions)
      /\ StatusSignal(Established) \in Sends(o.actions) =>
            side = "caller" /\ o.call.status >= Connecting
  BY <1>1, <1>3 DEF Tells, RoleOf, Side
<1>8. o.call.answered = CallOf(side).answered
  BY <1>3 DEF Leads
<1> QED BY <1>2, <1>3, <1>5, <1>6, <1>7, <1>8, LedSound

(* The profile of a clean switch arrives: the sides agree from then on.    *)
LEMMA ProfileArrives ==
    ASSUME Kept, Tidy, switching = "clean", NEW side \in Side, NEW message \in flight[side],
           message.kind = "profile", NEW r,
           Steps(side, r, flight[side] \ {message}, "up"), HasCall(r.core),
           \A m \in Sent(r) : m.kind # "profile",
           r.core.active.call.profile = message.profile
    PROVE  Tidy'
<1> DEFINE other == Other(side)
<1>1. /\ core'[side] = r.core /\ core'[other] = core[other]
      /\ flight'[side] = flight[side] \ {message}
      /\ flight'[other] = flight[other] \cup Sent(r)
      /\ other \in Side /\ other # side
  <2>1. /\ core'[side] = r.core /\ core'[other] = core[other]
        /\ flight'[other] = flight[other] \cup Sent(r)
        /\ other \in Side /\ other # side
    BY StepsPrimed DEF Kept
  <2>2. flight'[side] = flight[side] \ {message}
    BY <2>1 DEF Kept, TypeOK, Steps, Act
  <2> QED BY <2>1, <2>2
<1>2. /\ Talking(side)
      /\ \A x \in Side : (Talking(x) \/ (~Calls(x) /\ end[x] = "closed"))'
      /\ \A x \in Side : Talking(x)' => Talking(x)
  BY TidyTalks
<1>3. ASSUME Talking("caller")', Talking("callee")'
      PROVE  /\ Named(side)' = {} /\ Named(other)' = {}
             /\ CallOf(side)'.profile = CallOf(other)'.profile
  <2>1. message \in Named(side)
    BY DEF Named
  <2>2. PICK x \in Side :
              /\ Named(x) = {}
              /\ Named(Other(x)) = {ProfileSignal(CallOf(x).profile)}
    BY <1>2, <1>3, <2>1 DEF Tidy, Side
  <2>3. x = other /\ Other(x) = side
    BY <2>1, <2>2 DEF Side, Other
  <2>4. Named(other) = {} /\ Named(side) = {message}
        /\ message = ProfileSignal(CallOf(other).profile)
    BY <2>1, <2>2, <2>3
  <2>5. message.profile = CallOf(other).profile
    BY <2>4 DEF ProfileSignal
  <2>6. Named(side)' = {} /\ Named(other)' = {}
    BY <1>1, <2>4 DEF Named
  <2>7. CallOf(side)'.profile = message.profile /\ CallOf(other)' = CallOf(other)
    BY <1>1 DEF CallOf
  <2> QED BY <2>5, <2>6, <2>7
<1>4. {side, other} = {"caller", "callee"}
  BY DEF Side, Other
<1>5. ASSUME Talking("caller")', Talking("callee")'
      PROVE  (/\ Named("caller") = {} /\ Named("callee") = {}
              /\ CallOf("caller").profile = CallOf("callee").profile)'
  BY <1>3, <1>5 DEF Side, Other
<1> QED BY <1>2, <1>5 DEF Tidy

LEMMA SignalDelivery ==
    ASSUME IInv, NEW side \in Side, NEW s \in Signal, NEW r,
           r = AcceptPlaintext(core[side], link, <<s>>), Delivers(side, s, r)
    PROVE  IInv'
<1> DEFINE c == core[side]
<1>1. \/ link \notin c.ingress /\ r = Refuse(c, "UnknownLink")
      \/ link \in c.ingress /\ r = ReceiveOn(c, link, s)
  BY DEF AcceptPlaintext
<1>2. end[side] = "up" /\ s \in flight[side]
  BY DEF Delivers
<1>3. Calls(side) => c.active.link = link /\ link \in c.ingress
  BY <1>2 DEF IInv, Held
<1>4. CASE ~Calls(side)
  <2>1. PICK e : r = Refuse(c, e)
    BY <1>1, <1>4 DEF ReceiveOn, Calls
  <2>2. ~Talking(side)
    BY <1>4 DEF Talking
  <2> QED BY <2>1, <2>2, RefusedDelivery
<1>5. CASE Calls(side) /\ EndsCall(CallOf(side), s)
  <2>1. Leaves(side, r) /\ Asks(r, "TeardownLink") /\ s.kind # "profile"
    BY <1>1, <1>3, <1>5, EndedLeaves
  <2> QED BY <2>1, LeavesSound, PlainDelivery
<1>6. CASE Calls(side) /\ ~EndsCall(CallOf(side), s)
  <2> DEFINE o == ReceiveSignal(CallOf(side), s)
  <2>1. /\ Sound(side, r, "up") /\ ~Asks(r, "TeardownLink")
        /\ HasCall(r.core) /\ r.core.active.call = o.call
        /\ \A m \in Signal : m \in Sent(r) <=> m \in Sends(o.actions)
        /\ Leads(CallOf(side), s, o) /\ Tells(CallOf(side), o)
    BY <1>1, <1>2, <1>3, <1>6, HeardSound
  <2> HIDE DEF o
  <2>2. Steps(side, r, flight[side] \ {s}, "up")
    BY <2>1, DeliversSteps
  <2>3. CASE \E m \in Sends(o.actions) : m.kind = "profile"
    <3>1. ~Talking(side)
      BY <2>1, <2>3, StatusValues DEF Tells, Talking
    <3>2. \E m \in Sent(r) : m.kind = "profile"
      BY <2>1, <2>3 DEF Tells
    <3>3. switching' = "disturbed"
      BY <3>1, <3>2 DEF Delivers, SwitchedTo, Side
    <3> QED BY <2>2, <3>3, DisturbingStep
  <2>4. CASE /\ \A m \in Sends(o.actions) : m.kind # "profile"
             /\ s.kind # "profile"
    <3>1. Talking(side) => o.call.profile = CallOf(side).profile
      BY <2>1, <2>4, StatusValues DEF Leads, Talking
    <3>2. \A inbox : (\A m \in flight[side] : m.kind = "profile" => m \in inbox)
                 => Plain(side, r, inbox)
      BY <2>1, <2>4, <3>1, ForwardPlain
    <3> QED BY <2>1, <2>4, <3>2, PlainDelivery
  <2>5. CASE /\ \A m \in Sends(o.actions) : m.kind # "profile"
             /\ s.kind = "profile"
    <3>1. \A m \in Sent(r) : m.kind # "profile"
      BY <2>1, <2>5, MessageKinds DEF Sound, Message
    <3>2. switching' = switching
      BY <3>1 DEF Delivers, SwitchedTo
    <3>3. Kept /\ Tidy /\ switching' \in {"none", "clean", "disturbed"}
      BY <3>2 DEF IInv, Kept, TypeOK
    <3>4. Kept'
      BY <2>2, <3>3, SoundKeeps
    <3>5. Tidy'
      <4>1. CASE switching = "clean"
        <5>1. r.core.active.call.profile = s.profile
          BY <2>1, <2>5 DEF Leads
        <5> QED BY <1>2, <2>1, <2>2, <2>5, <3>1, <3>3, <4>1, <5>1, ProfileArrives
      <4>2. CASE switching # "clean"
        BY <3>2, <4>2 DEF Tidy
      <4> QED BY <4>1, <4>2
    <3> QED BY <3>4, <3>5 DEF IInv, Kept
  <2> QED BY <2>3, <2>4, <2>5
<1> QED BY <1>4, <1>5, <1>6

LEMMA IdentifyDelivery ==
    ASSUME IInv, NEW side \in Side, NEW r,
           r = RemoteIdentified(core[side], link, callerId), Delivers(side, Identify, r)
    PROVE  IInv'
<1> DEFINE c == core[side]
           allowed == IsAllowed(c.access, callerId)
<1>1. /\ c \in Core /\ end[side] = "up" /\ Identify.kind # "profile"
      /\ link \in c.pending => link \in c.ingress
      /\ Held(side) /\ Founded
  BY MessageKinds DEF IInv, TypeOK, Delivers, Held
<1>2. link \in Links /\ callerId \in Identities
  BY HandshakeAssumption
<1>3. CASE link \notin c.pending \cup c.ingress
  <2>1. r = Refuse(c, "UnknownLink")
    BY <1>3 DEF RemoteIdentified
  <2>2. /\ Sound(side, r, "up") /\ ~Asks(r, "TeardownLink")
        /\ \A inbox : (\A m \in flight[side] : m.kind = "profile" => m \in inbox)
                 => Plain(side, r, inbox)
    BY <1>1, <2>1, RefusalSound
  <2> QED BY <1>1, <2>2, PlainDelivery
<1>4. CASE link \in c.pending \cup c.ingress /\ (LineBusy(c) \/ ~allowed)
  <2> DEFINE d == [c EXCEPT !.pending = @ \ {link}, !.ingress = @ \ {link}]
             a == <<SendStatus(Busy), Do("TeardownLink")>>
  <2>1. r = Step(d, CommandsFrom(link, a))
    BY <1>4 DEF RemoteIdentified, CallerIdentified, Result
  <2>2. d \in Core /\ d.active = c.active /\ link \notin d.pending
    BY <1>1 DEF Core
  <2>3. Effects(a) = {"SendSignal", "TeardownLink"} /\ Sends(a) = {StatusSignal(Busy)}
    BY DEF Effects, Sends, SendStatus, SendSignal, Do
  <2> HIDE DEF d, a
  <2>4. /\ r.core = d /\ Sent(r) = {StatusSignal(Busy)}
        /\ \A t : Asks(r, t) <=> t \in {"SendSignal", "TeardownLink"}
    BY <2>1, <2>3, SentFrom
  <2>5. /\ StatusSignal(Busy) \in Message /\ StatusSignal(Busy).kind = "status"
        /\ \A s \in {Connecting, Established} : StatusSignal(s) # StatusSignal(Busy)
    BY MessageKinds, StatusValues DEF Message
  <2>6. /\ Sound(side, r, "closed")
        /\ \A inbox : (\A m \in flight[side] : m.kind = "profile" => m \in inbox)
                 => Plain(side, r, inbox)
    BY <1>1, <2>2, <2>4, <2>5, UnmovedSound
  <2> QED BY <1>1, <2>4, <2>6, PlainDelivery
<1>5. CASE link \in c.pending \cup c.ingress /\ ~LineBusy(c) /\ allowed
  <2> DEFINE call == At(IncomingCall, Ringing)
             d == [c EXCEPT !.pending = @ \ {link},
                            !.active  = [link |-> link, identity |-> callerId, call |-> call]]
             a == <<Do("ResetDialingPipelines"), SendStatus(Ringing), Do("RingIncomingCall")>>
  <2>1. r = Step(d, CommandsFrom(link, a))
    BY <1>5 DEF RemoteIdentified, CallerIdentified, Result
  <2>2. ~Calls(side) /\ side = "callee" /\ link \in c.ingress
    BY <1>1, <1>5 DEF LineBusy, Calls, Founded, Side
  <2>3. /\ call \in Call /\ call.role = "Incoming" /\ call.status = Ringing
    <3>1. IncomingCall \in Call /\ IncomingCall.role = "Incoming"
      BY StatusValues DEF IncomingCall, Call
    <3>2. Ringing \in AutoStatus
      BY StatusValues
    <3> QED BY <3>1, <3>2, AtTyped DEF SameButStatus
  <2> HIDE DEF call
  <2>4. [link |-> link, identity |-> callerId, call |-> call] \in ActiveCall
    BY <1>2, <2>3 DEF ActiveCall
  <2>5. /\ d \in Core /\ HasCall(d) /\ d.active.link = link /\ d.active.call = call
        /\ link \notin d.pending /\ link \in d.ingress
    BY <1>1, <2>2, <2>4, NoCallAssumption DEF Core, HasCall, ActiveCall
  <2>6. /\ Effects(a) = {"ResetDialingPipelines", "SendSignal", "RingIncomingCall"}
        /\ Sends(a) = {StatusSignal(Ringing)}
    BY DEF Effects, Sends, SendStatus, SendSignal, Do
  <2> HIDE DEF d, a
  <2>7. /\ r.core = d /\ Sent(r) = {StatusSignal(Ringing)}
        /\ \A t : Asks(r, t)
              <=> t \in {"ResetDialingPipelines", "SendSignal", "RingIncomingCall"}
    BY <2>1, <2>6, SentFrom
  <2>8. /\ StatusSignal(Ringing) \in Message /\ StatusSignal(Ringing).kind = "status"
        /\ \A s \in {Connecting, Established} : StatusSignal(s) # StatusSignal(Ringing)
    BY MessageKinds, StatusValues DEF Message
  <2>9. Heard(side, r) = audio[side] /\ ~Asks(r, "TeardownLink")
    BY <2>7 DEF Heard
  <2>10. audio[side] # "running" /\ audio[side] \in {"closed", "open", "running", "unopened"}
    BY <1>1, <2>2 DEF Founded, Talking, IInv, TypeOK
  <2>11. Sound(side, r, "up")
    BY <2>2, <2>3, <2>5, <2>7, <2>8, <2>9, <2>10, StatusValues DEF Sound, RoleOf
  <2>12. \A inbox : (\A m \in flight[side] : m.kind = "profile" => m \in inbox)
                 => Plain(side, r, inbox)
    BY <2>2, <2>7, <2>8 DEF Plain, Talking
  <2> QED BY <1>1, <2>9, <2>11, <2>12, PlainDelivery
<1> QED BY <1>3, <1>4, <1>5

(* A message is lost, or reaches an end that is not up. *)
LEMMA LostMessage ==
    ASSUME IInv, NEW side \in Side, NEW message \in flight[side],
           flight' = [flight EXCEPT ![side] = @ \ {message}],
           switching' = SwitchedLosing(message), UNCHANGED <<core, end, audio, timed>>
    PROVE  IInv'
<1>1. /\ flight' \in [Side -> SUBSET Message]
      /\ \A x \in Side : flight'[x] \subseteq flight[x]
  BY DEF IInv, TypeOK
<1>2. switching' \in {"none", "clean", "disturbed"}
  BY DEF IInv, TypeOK, SwitchedLosing
<1>3. /\ TypeOK'
      /\ \A x \in Side : /\ Calls(x)' = Calls(x) /\ CallOf(x)' = CallOf(x)
                         /\ Talking(x)' = Talking(x) /\ Held(x)' = Held(x)
      /\ CalleeJoined' = CalleeJoined /\ CallerJoined' = CallerJoined
  BY <1>1, <1>2 DEF IInv, TypeOK, Calls, CallOf, Talking, Held, CalleeJoined, CallerJoined
<1>4. Founded'
  BY <1>1, <1>3 DEF IInv, Founded, Side
<1>5. Tidy'
  <2>1. CASE message.kind = "profile"
    BY <2>1 DEF SwitchedLosing, Tidy
  <2>2. CASE message.kind # "profile"
    <3>1. \A x \in Side : Named(x)' = Named(x)
      BY <2>2 DEF Named, IInv, TypeOK
    <3>2. switching' = switching
      BY <2>2 DEF SwitchedLosing
    <3>3. \A x \in Side : Other(x) \in Side
      BY DEF Side, Other
    <3> QED BY <1>3, <3>1, <3>2, <3>3 DEF IInv, Tidy, Side
  <2> QED BY <2>1, <2>2
<1> QED BY <1>3, <1>4, <1>5 DEF IInv

LEMMA DeliverStep ==
    ASSUME IInv, NEW side \in Side, NEW message \in Message, Deliver(side, message)
    PROVE  IInv'
<1>1. CASE end[side] # "up"
  BY <1>1, LostMessage DEF Deliver
<1>2. CASE end[side] = "up"
  <2> DEFINE r == Received(side, message)
  <2>1. Delivers(side, message, r)
    BY <1>2 DEF Deliver, Delivers
  <2>2. CASE message = Identify
    BY <2>1, <2>2, IdentifyDelivery DEF Received
  <2>3. CASE message # Identify
    <3>1. message \in Signal /\ r = AcceptPlaintext(core[side], link, <<message>>)
      BY <2>3 DEF Received, Message
    <3> HIDE DEF r
    <3> QED BY <2>1, <3>1, SignalDelivery
  <2> QED BY <2>2, <2>3
<1> QED BY <1>1, <1>2

-----------------------------------------------------------------------------
(* The life of the link *)

LEMMA LinkUpStep ==
    ASSUME IInv, LinkUp
    PROVE  IInv'
<1> DEFINE c == core["callee"]
           r == LinkEstablished(c, link)
           after == IF Asks(r, "TeardownLink") THEN "closed" ELSE "up"
           d == IF LineBusy(c) THEN c
                ELSE [c EXCEPT !.pending = @ \cup {link}, !.ingress = @ \cup {link}]
           a == IncomingLinkEstablished(LineBusy(c))
<1>1. /\ "callee" \in Side /\ c \in Core /\ ~Calls("callee") /\ link \in Links
      /\ link \in c.pending => link \in c.ingress
      /\ audio["callee"] # "running"
      /\ audio["callee"] \in {"closed", "open", "running", "unopened"}
  BY HandshakeAssumption DEF IInv, TypeOK, Held, Founded, Talking, LinkUp, Side
<1>2. r = Step(d, CommandsFrom(link, a))
  BY <1>1 DEF LinkEstablished, IsActive, Calls, LinkUpIncoming
<1>3. /\ d \in Core /\ ~HasCall(d)
      /\ link \in d.pending => link \in d.ingress
  BY <1>1 DEF Core, HasCall, Calls
<1>4. /\ Effects(a) \subseteq {"SendSignal", "TeardownLink"}
      /\ Sends(a) \subseteq {StatusSignal(Busy), StatusSignal(Available)}
  <2>1. a \in {<<SendStatus(Busy), Do("TeardownLink")>>, <<SendStatus(Available)>>}
    BY DEF IncomingLinkEstablished
  <2> HIDE DEF a
  <2> QED BY <2>1 DEF Effects, Sends, SendStatus, SendSignal, Do
<1>5. /\ LinkUp => Act("callee", r, flight["callee"])
      /\ LinkUp => end' = [end EXCEPT !["callee"] = after]
      /\ LinkUp => end["callee"] = "none" /\ timed' = timed /\ switching' = switching
  BY DEF LinkUp
<1> HIDE DEF c, r, d, a
<1>6. /\ r.core = d /\ Sent(r) \subseteq {StatusSignal(Busy), StatusSignal(Available)}
      /\ ~Asks(r, "StopAudioPipelines") /\ ~Asks(r, "OpenAudioPipelines")
      /\ ~Asks(r, "StartAudioPipelines")
  BY <1>2, <1>4, SentFrom
<1>7. /\ {StatusSignal(Busy), StatusSignal(Available)} \subseteq Message
      /\ \A s \in {Busy, Available} : StatusSignal(s).kind = "status"
      /\ \A s \in {Connecting, Established} : StatusSignal(s) \notin Sent(r)
  BY <1>6, MessageKinds, StatusValues DEF Message
<1>8. Heard("callee", r) = audio["callee"]
  BY <1>6 DEF Heard
<1>9. Sound("callee", r, after)
  BY <1>1, <1>3, <1>6, <1>7, <1>8 DEF Sound
<1>10. Plain("callee", r, flight["callee"])
  BY <1>1, <1>6, <1>7 DEF Plain, Talking
<1> HIDE DEF after
<1>11. Steps("callee", r, flight["callee"], after)
  BY <1>5, <1>9 DEF Steps
<1> QED BY <1>1, <1>5, <1>10, <1>11, PlainStep

LEMMA CloseStep ==
    ASSUME IInv, NEW side \in Side, Close(side)
    PROVE  IInv'
<1> DEFINE c == core[side]
           r == LinkClosed(c, link)
<1>1. /\ c \in Core /\ link \in Links /\ Held(side) /\ Founded /\ end[side] = "up"
      /\ audio[side] \in {"closed", "open", "running", "unopened"}
  BY HandshakeAssumption DEF IInv, TypeOK, Close
<1>2. Leaves(side, r)
  <2>1. CASE IsActive(c, link)
    <3> DEFINE a == <<Do("StopAudioPipelines"), CallTerminated(NoReason)>>
    <3>1. r = Step(Released(c, link), CommandsFrom(link, a))
      BY <2>1 DEF LinkClosed
    <3>2. Effects(a) = {"StopAudioPipelines", "CallTerminated"} /\ Sends(a) = {}
      BY DEF Effects, Sends, Do, CallTerminated
    <3> HIDE DEF a
    <3>3. /\ r.core = Released(c, link) /\ Asks(r, "StopAudioPipelines") /\ Sent(r) = {}
      BY <3>1, <3>2, SentFrom
    <3>4. /\ Released(c, link) \in Core /\ ~HasCall(Released(c, link))
          /\ link \notin Released(c, link).pending
      BY <1>1, ReleasedTyped DEF HasCall
    <3> QED BY <3>3, <3>4 DEF Leaves, Heard
  <2>2. CASE ~IsActive(c, link)
    <3> DEFINE d == [c EXCEPT !.pending = @ \ {link}, !.ingress = @ \ {link}]
    <3>1. r.core = d /\ r.commands = <<>>
      BY <2>2 DEF LinkClosed, Step
    <3>2. ~Calls(side)
      BY <1>1, <2>2 DEF Held, IsActive, Calls
    <3>3. d \in Core /\ ~HasCall(d) /\ link \notin d.pending
      BY <1>1, <3>2 DEF Core, HasCall, Calls
    <3>4. Sent(r) = {} /\ \A t : ~Asks(r, t)
      BY <3>1, SentNothing
    <3>5. Heard(side, r) = audio[side] /\ audio[side] # "running"
      BY <1>1, <3>2, <3>4 DEF Heard, Founded, Talking
    <3> QED BY <1>1, <3>1, <3>3, <3>4, <3>5 DEF Leaves
  <2> QED BY <2>1, <2>2
<1>3. Sound(side, r, "closed") /\ Plain(side, r, flight[side])
  BY <1>2, LeavesSound
<1>4. Close(side) => /\ Act(side, r, flight[side]) /\ end' = [end EXCEPT ![side] = "closed"]
                     /\ timed' = timed /\ switching' = switching
  BY DEF Close
<1> HIDE DEF r
<1>5. Steps(side, r, flight[side], "closed")
  BY <1>1, <1>3, <1>4 DEF Steps
<1> QED BY <1>3, <1>4, <1>5, PlainStep

-----------------------------------------------------------------------------
(* The specification *)

LEMMA InitInvariant ==
    ASSUME Init
    PROVE  IInv
<1>1. PICK profile \in Intents, policy \in Policies, busy \in BOOLEAN :
         core = [side \in Side |->
                   IF side = "caller"
                   THEN StartOutgoingCall(NewCore(OpenPolicy), link, callerId, profile).core
                   ELSE SetExternalBusy(NewCore(policy), busy).core]
  BY DEF Init
<1> DEFINE fresh == NewCore(OpenPolicy)
           call == OutgoingCall(profile)
           dialling == [fresh EXCEPT !.ingress = @ \cup {link},
                                     !.active  = [link |-> link, identity |-> callerId,
                                                  call |-> call]]
           idle == [NewCore(policy) EXCEPT !.externalBusy = busy]
<1>2. /\ link \in Links /\ callerId \in Identities
      /\ policy \in AccessPolicy /\ profile \in Profiles \cup {NoProfile}
  BY HandshakeAssumption
<1>3. fresh \in Core /\ ~LineBusy(fresh) /\ fresh.pending = {} /\ fresh.ingress = {}
  BY DEF NewCore, OpenPolicy, Core, AccessPolicy, LineBusy, HasCall
<1>4. /\ call \in Call /\ call.role = "Outgoing" /\ call.status = Calling
  BY <1>2, StatusValues DEF OutgoingCall, Call
<1>5. [link |-> link, identity |-> callerId, call |-> call] \in ActiveCall
  BY <1>2, <1>4 DEF ActiveCall
<1>6. StartOutgoingCall(fresh, link, callerId, profile).core = dialling
  BY <1>3 DEF StartOutgoingCall, Step
<1> HIDE DEF fresh, call
<1>7. /\ dialling \in Core /\ HasCall(dialling) /\ dialling.active.link = link
      /\ dialling.active.call = call
      /\ dialling.pending = {} /\ dialling.ingress = {link}
  BY <1>2, <1>3, <1>5, NoCallAssumption DEF Core, HasCall, ActiveCall
<1>8. idle \in Core /\ ~HasCall(idle) /\ idle.pending = {}
  BY <1>2 DEF NewCore, Core, HasCall
<1>9. SetExternalBusy(NewCore(policy), busy).core = idle
  BY DEF SetExternalBusy, Step
<1> HIDE DEF dialling, idle
<1>10. core = [side \in Side |-> IF side = "caller" THEN dialling ELSE idle]
  BY <1>1, <1>6, <1>9 DEF fresh
<1>11. /\ core["caller"] = dialling /\ core["callee"] = idle
       /\ end["caller"] = "up" /\ end["callee"] = "none"
       /\ \A side \in Side : flight[side] = {} /\ audio[side] = "closed"
  BY <1>10 DEF Init, Side
<1>12. TypeOK
  BY <1>7, <1>8, <1>10 DEF Init, TypeOK, Side
<1>13. /\ Calls("caller") /\ ~Calls("callee") /\ CallOf("caller").status = Calling
  BY <1>4, <1>7, <1>8, <1>11 DEF Calls, CallOf
<1>14. \A side \in Side : Held(side)
  BY <1>4, <1>7, <1>8, <1>11, <1>13 DEF Held, Side, CallOf, RoleOf
<1>15. Founded
  <2>1. flight["caller"] = {} /\ flight["callee"] = {}
    BY <1>11 DEF Side
  <2>2. ~(CallOf("caller").status >= Connecting)
    BY <1>13, StatusValues
  <2>3. \A side \in Side : audio[side] # "running"
    BY <1>11
  <2> QED BY <1>13, <2>1, <2>2, <2>3 DEF Founded, Talking
<1>16. Tidy
  BY DEF Init, Tidy
<1> QED BY <1>12, <1>14, <1>15, <1>16 DEF IInv

LEMMA NextInvariant ==
    ASSUME IInv, [Next]_vars
    PROVE  IInv'
<1>1. CASE LinkUp
  BY <1>1, LinkUpStep
<1>2. ASSUME NEW side \in Side, NEW message \in Message, Deliver(side, message)
      PROVE  IInv'
  BY <1>2, DeliverStep
<1>3. ASSUME NEW side \in Side, NEW message \in Message, Lose(side, message)
      PROVE  IInv'
  BY <1>3, LostMessage DEF Lose
<1>4. ASSUME NEW side \in Side, PeerGone(side) \/ LinkFails(side)
      PROVE  IInv'
  BY <1>4, CloseStep DEF PeerGone, LinkFails
<1>5. CASE AnswerRetry
  BY <1>5, RetryStep
<1>6. CASE AnswerExpires \/ RingExpires \/ DialExpires \/ \E side \in Side : HangUp(side)
  BY <1>6, TimerSteps
<1>7. CASE Pickup
  BY <1>7, PickupStep
<1>8. ASSUME NEW side \in Side, Switch(side)
      PROVE  IInv'
  BY <1>8, SwitchStep DEF Switch
<1>9. CASE UNCHANGED vars
  BY <1>9 DEF vars, IInv, TypeOK, Held, Founded, Tidy, CalleeJoined, CallerJoined, Calls,
              CallOf, Talking, Named
<1> QED BY <1>1, <1>2, <1>3, <1>4, <1>5, <1>6, <1>7, <1>8, <1>9
        DEF Next, Network, Timers, Users

(* Every message that would connect a side is founded in what the other    *)
(* side did, in every reachable state, whatever is lost or reordered.      *)
THEOREM HandshakeInvariant == Spec => []IInv
<1>1. Init => IInv
  BY InitInvariant
<1>2. IInv /\ [Next]_vars => IInv'
  BY NextInvariant
<1> QED BY <1>1, <1>2, PTL DEF Spec

(* Whoever talks, talks to somebody: the caller is connected only to a     *)
(* callee who picked up, and the callee's audio runs only when the caller  *)
(* believes in the call (answer, receive_signal, retry_answer).            *)
THEOREM TalkMutual == Spec => []TalkIsMutual
<1>1. IInv => TalkIsMutual
  <2> SUFFICES ASSUME IInv
               PROVE  TalkIsMutual
    OBVIOUS
  <2>1. TypeOK /\ Founded
    BY DEF IInv
  <2>2. ConnectedMeansAnswered
    BY <2>1 DEF Founded, CalleeJoined, ConnectedMeansAnswered
  <2>3. EchoIsProof
    BY <2>1 DEF Founded, CallerJoined, EchoIsProof, Side
  <2> QED BY <2>1, <2>2, <2>3 DEF TalkIsMutual
<1> QED BY <1>1, HandshakeInvariant, PTL

(* A profile switch that nothing disturbed, and that arrived, leaves both  *)
(* sides in one profile (switch_profile, receive_signal).                  *)
THEOREM SwitchesAgree == Spec => []SwitchAgreement
<1>1. IInv => SwitchAgreement
  <2> SUFFICES ASSUME IInv, switching = "clean", ProfilesUnderWay = {},
                      Talking("caller"), Talking("callee")
               PROVE  CallOf("caller").profile = CallOf("callee").profile
    BY DEF SwitchAgreement
  <2>1. \A side \in Side : Named(side) = {} /\ Other(side) \in Side
    BY DEF ProfilesUnderWay, Named, Side, Other
  <2> QED BY <2>1 DEF IInv, Tidy
<1> QED BY <1>1, HandshakeInvariant, PTL
=============================================================================
