------------------------ MODULE TelephoneLineProofs ------------------------
(***************************************************************************)
(* The invariants of TelephoneLine, for every set of links, identities,    *)
(* profiles and policies, and every set of orderly packets.                *)
(*                                                                         *)
(* CallProofs gives the shape of each core operation; the lemmas     *)
(* below show that a step of each shape keeps the inductive invariant and  *)
(* is a step, or a stutter, of OneCall.                                    *)
(***************************************************************************)
EXTENDS TelephoneLine, CallProofs, FiniteSetTheorems, TLAPS

IInv ==
    /\ TypeOK
    /\ LedgerExact
    /\ AudioFollowsCall
    /\ NoOrphanLink
    /\ ActiveCallHears
    /\ Bookkeeping

(* What a step means to the application. *)
Promised ==
    \/ phase' = phase /\ audio' = audio
    \/ \E l \in Links : \/ Promise!Begin(l) \/ Promise!End(l)
                       \/ Promise!OpenAudio(l) \/ Promise!StartAudio(l)

-----------------------------------------------------------------------------
(* A step of each shape keeps the inductive invariant *)

LEMMA IdlesInv ==
    ASSUME IInv, NEW r, Idles(core, r), Take(r, wire)
    PROVE  IInv' /\ Promised
<1>1. wire' = wire
  BY DEF Take, Idles, IInv, TypeOK, LifeEffects
<1>2. phase' = phase
  BY DEF Take, Idles, IInv, TypeOK, LifeEffects, PhaseAfter
<1>3. audio' = audio
  BY DEF Take, Idles, IInv, TypeOK, LifeEffects, AudioEffects, AudioAfter
<1>4. /\ core' \in Core /\ core'.active = core.active
      /\ core'.pending = core.pending /\ core'.ingress = core.ingress
  BY DEF Take, Idles
<1> QED BY <1>1, <1>2, <1>3, <1>4
        DEF IInv, TypeOK, LedgerExact, AudioFollowsCall, NoOrphanLink, ActiveCallHears,
            Bookkeeping, IsActive, HasCall, Promised

LEMMA ContinuesInv ==
    ASSUME IInv, NEW l \in Links, NEW r, Continues(core, r, l), Take(r, wire)
    PROVE  IInv' /\ Promised
<1>1. wire' = wire
  BY DEF Take, Continues, IInv, TypeOK, LifeEffects
<1>2. phase' = phase
  BY DEF Take, Continues, IInv, TypeOK, LifeEffects, PhaseAfter
<1>3. /\ core' \in Core /\ core'.pending = core.pending /\ core'.ingress = core.ingress
      /\ IsActive(core', l) /\ core'.active.call.role = core.active.call.role
      /\ core.active.call.answered => core'.active.call.answered
  BY DEF Take, Continues
<1>4. \A k \in Links : IsActive(core', k) <=> IsActive(core, k)
  BY <1>3 DEF Continues, IsActive
<1>5. audio' \in [Links -> {"closed", "open", "running"}]
  BY DEF Take, AudioAfter, IInv, TypeOK
<1>6. \A k \in Links :
        \/ audio'[k] = audio[k]
        \/ k = l /\ (core'.active.call.role = "Incoming" => core'.active.call.answered)
  BY DEF Take, Continues, AudioAfter, LifeEffects, AudioEffects
<1>7. AudioFollowsCall'
  BY <1>3, <1>4, <1>6 DEF IInv, AudioFollowsCall, IsActive
<1>8. /\ core.active.call.status \in AutoStatus /\ core'.active.call.status \in AutoStatus
      /\ core'.active.call.status >= core.active.call.status
      /\ Orders(r, l, "OpenAudioPipelines") => core.active.call.status < Connecting
      /\ Orders(r, l, "StartAudioPipelines") => core'.active.call.status = Established
  <2>1. core.active.call \in Call /\ core'.active.call \in Call
    BY <1>3, ActiveTyped DEF Continues, IsActive, IInv, TypeOK
  <2> QED BY <2>1 DEF Continues, Take, Call
<1>9. \A k \in Links : audio'[k] = "running" => core'.active.call.status = Established
  <2>1. \A k \in Links : audio[k] = "running" => core'.active.call.status = Established
    BY <1>8, StatusValues DEF IInv, Bookkeeping
  <2>2. audio'[l] = "running" => audio[l] = "running" \/ Orders(r, l, "StartAudioPipelines")
    BY DEF Take, AudioAfter
  <2> QED BY <1>6, <1>8, <2>1, <2>2
<1>10. Promised
  <2>1. audio \in [Links -> {"closed", "open", "running"}]
    BY DEF IInv, TypeOK
  <2>2. phase[l] = "live"
    BY DEF Continues, IInv, LedgerExact
  <2>3. audio' = [audio EXCEPT ![l] = audio'[l]]
    BY <1>5, <1>6, <2>1
  <2>4. CASE audio'[l] = audio[l]
    BY <1>2, <2>1, <2>3, <2>4 DEF Promised
  <2>5. CASE audio'[l] = "running" /\ audio[l] # "running"
    BY <1>2, <2>2, <2>3, <2>5 DEF Promised, Promise!StartAudio, Promise!Live
  <2>6. CASE audio'[l] # "running" /\ audio'[l] # audio[l]
    <3>1. Orders(r, l, "OpenAudioPipelines") /\ audio'[l] = "open"
      BY <2>6 DEF Take, AudioAfter, Continues, LifeEffects
    <3>2. audio[l] # "running"
      BY <1>8, <3>1, StatusValues DEF IInv, Bookkeeping
    <3>3. audio[l] = "closed"
      BY <2>1, <2>6, <3>1, <3>2
    <3> QED BY <1>2, <2>2, <2>3, <3>1, <3>3 DEF Promised, Promise!OpenAudio, Promise!Live
  <2> QED BY <2>4, <2>5, <2>6
<1> QED BY <1>1, <1>2, <1>3, <1>4, <1>5, <1>7, <1>9, <1>10
        DEF IInv, TypeOK, LedgerExact, NoOrphanLink, ActiveCallHears, Bookkeeping, IsActive, HasCall

(* The links as a step finds them may already have lost link l. *)
LEMMA EndsInv ==
    ASSUME IInv, NEW l \in Links, NEW r, NEW teardown \in BOOLEAN,
           Ends(core, r, l, teardown),
           NEW linksNow, Take(r, linksNow),
           \/ teardown /\ linksNow = wire
           \/ ~teardown /\ \E after \in {"gone", "closing"} : linksNow = [wire EXCEPT ![l] = after]
    PROVE  IInv' /\ Promised
<1>1. /\ core' \in Core /\ core'.active = NoCall
      /\ core'.pending = core.pending \ {l} /\ core'.ingress = core.ingress \ {l}
  BY DEF Take, Ends
<1>2. phase[l] = "live" /\ wire[l] \notin {"unused"}
  BY DEF Ends, IInv, LedgerExact, Bookkeeping
<1>3. /\ phase' \in [Links -> {"none", "live", "over", "broken"}]
      /\ phase'[l] = "over"
      /\ \A k \in Links \ {l} : phase'[k] = phase[k]
  BY <1>2 DEF Take, Ends, PhaseAfter, IInv, TypeOK
<1>4. /\ wire' \in [Links -> {"unused", "requested", "outgoing", "incoming", "closing", "gone"}]
      /\ wire'[l] \in {"closing", "gone"}
      /\ \A k \in Links \ {l} : wire'[k] = wire[k]
  <2>1. CASE teardown /\ linksNow = wire
    BY <1>2, <2>1 DEF Take, Ends, TornDown, IInv, TypeOK
  <2>2. CASE ~teardown
    BY <2>2 DEF Take, Ends, IInv, TypeOK
  <2> QED BY <2>1, <2>2
<1>5. /\ audio' \in [Links -> {"closed", "open", "running"}]
      /\ audio'[l] = "closed"
      /\ \A k \in Links \ {l} : audio'[k] = audio[k]
  BY DEF Take, Ends, AudioAfter, AudioEffects, IInv, TypeOK
<1>6. \A k \in Links : ~IsActive(core', k) /\ (IsActive(core, k) <=> k = l)
  BY <1>1 DEF Ends, IsActive, HasCall
<1>7. TypeOK'
  BY <1>1, <1>3, <1>4, <1>5 DEF TypeOK
<1>8. LedgerExact'
  BY <1>3, <1>6 DEF IInv, LedgerExact
<1>9. AudioFollowsCall'
  BY <1>5, <1>6 DEF IInv, AudioFollowsCall
<1>10. NoOrphanLink'
  BY <1>1, <1>4, <1>6 DEF IInv, NoOrphanLink
<1>11. ActiveCallHears'
  BY <1>1 DEF ActiveCallHears, HasCall
<1>12. Bookkeeping'
  <2>1. \A k \in core'.pending : k # l /\ k \in core.pending /\ k \in Links
    BY <1>1 DEF Core
  <2>2. \A k \in core'.ingress : k # l /\ k \in core.ingress /\ k \in Links
    BY <1>1 DEF Core
  <2>3. core'.pending \subseteq core'.ingress
    BY <1>1 DEF IInv, Bookkeeping
  <2>4. \A k \in core'.pending : phase'[k] = "none"
    BY <1>3, <2>1 DEF IInv, Bookkeeping
  <2>5. \A k \in core'.ingress : k \in core'.pending
    BY <1>1, <1>6, <2>2 DEF IInv, Bookkeeping
  <2>6. \A k \in Links : wire'[k] = "unused" => phase'[k] = "none" /\ k \notin core'.ingress
    BY <1>3, <1>4, <2>2 DEF IInv, Bookkeeping
  <2>7. \A k \in Links : wire'[k] # "requested"
    BY <1>4, <1>6 DEF IInv, Bookkeeping
  <2>8. \A k \in Links : audio'[k] # "running"
    <3>1. \A k \in Links \ {l} : audio[k] = "closed"
      BY <1>6 DEF IInv, AudioFollowsCall
    <3> QED BY <1>5, <3>1
  <2> QED BY <2>3, <2>4, <2>5, <2>6, <2>7, <2>8 DEF Bookkeeping
<1>13. Promised
  <2>1. phase' = [phase EXCEPT ![l] = "over"]
    BY <1>3 DEF IInv, TypeOK
  <2>2. audio' = [audio EXCEPT ![l] = "closed"]
    BY <1>5 DEF IInv, TypeOK
  <2> QED BY <1>2, <2>1, <2>2 DEF Promised, Promise!End, Promise!Live
<1> QED BY <1>7, <1>8, <1>9, <1>10, <1>11, <1>12, <1>13 DEF IInv

-----------------------------------------------------------------------------
(* Steps that admit or lose a link, or begin a call *)

WireStates == {"unused", "requested", "outgoing", "incoming", "closing", "gone"}

(* Only what the core and the endpoint hold of link l changes. *)
OnlyLink(l) ==
    /\ core' \in Core /\ wire' \in [Links -> WireStates]
    /\ \A k \in Links \ {l} :
          /\ wire'[k] = wire[k]
          /\ k \in core'.pending <=> k \in core.pending
          /\ k \in core'.ingress <=> k \in core.ingress

Lost(l) ==
    /\ wire'[l] \in {"closing", "gone"}
    /\ IsActive(core, l) => wire'[l] = "closing"
    /\ l \notin core'.pending /\ l \notin core'.ingress

Admitted(l) ==
    /\ wire'[l] = "incoming" /\ phase[l] = "none" /\ ~IsActive(core, l)
    /\ l \in core'.pending /\ l \in core'.ingress

Connected(l) ==
    /\ wire'[l] = "outgoing" /\ IsActive(core, l)
    /\ l \notin core'.pending /\ l \in core'.ingress

LEMMA LinkInv ==
    ASSUME IInv, NEW l \in Links, OnlyLink(l),
           core'.active = core.active, phase' = phase, audio' = audio,
           Lost(l) \/ Admitted(l) \/ Connected(l)
    PROVE  IInv' /\ Promised
<1>1. \A k : IsActive(core', k) <=> IsActive(core, k)
  BY DEF IsActive, HasCall
<1>2. core'.pending \subseteq Links /\ core'.ingress \subseteq Links
  BY DEF OnlyLink, Core
<1>3. TypeOK'
  BY DEF IInv, TypeOK, OnlyLink, WireStates
<1>4. LedgerExact'
  BY <1>1 DEF IInv, LedgerExact
<1>5. AudioFollowsCall'
  BY <1>1 DEF IInv, AudioFollowsCall
<1>6. NoOrphanLink'
  <2>1. \A k \in Links \ {l} : wire'[k] \in {"requested", "outgoing", "incoming"} =>
           k \in core'.pending \/ IsActive(core', k)
    BY <1>1 DEF IInv, NoOrphanLink, OnlyLink
  <2>2. wire'[l] \in {"requested", "outgoing", "incoming"} =>
           l \in core'.pending \/ IsActive(core', l)
    BY <1>1 DEF Lost, Admitted, Connected
  <2> QED BY <2>1, <2>2 DEF NoOrphanLink
<1>7. ActiveCallHears'
  <2>1. SUFFICES ASSUME HasCall(core')
                 PROVE  core'.active.link \in core'.ingress \/ wire'[core'.active.link] = "closing"
    BY DEF ActiveCallHears
  <2>2. HasCall(core) /\ core'.active.link = core.active.link /\ core.active.link \in Links
    BY <2>1, ActiveTyped DEF HasCall, IInv, TypeOK
  <2>3. core.active.link \in core.ingress \/ wire[core.active.link] = "closing"
    BY <2>2 DEF IInv, ActiveCallHears
  <2>4. CASE core.active.link # l
    BY <2>2, <2>3, <2>4 DEF OnlyLink
  <2>5. CASE core.active.link = l
    BY <2>2, <2>5 DEF IsActive, Lost, Admitted, Connected
  <2> QED BY <2>4, <2>5
<1>8. Bookkeeping'
  <2>1. core'.pending \subseteq core'.ingress
    BY <1>2 DEF IInv, Bookkeeping, OnlyLink, Lost, Admitted, Connected
  <2>2. \A k \in core'.pending : phase'[k] = "none"
    BY <1>2 DEF IInv, Bookkeeping, OnlyLink, Lost, Admitted, Connected
  <2>3. \A k \in core'.ingress : k \in core'.pending \/ IsActive(core', k)
    BY <1>1, <1>2 DEF IInv, Bookkeeping, OnlyLink, Lost, Admitted, Connected
  <2>4. ASSUME NEW k \in Links, wire'[k] = "unused"
        PROVE  phase'[k] = "none" /\ k \notin core'.ingress
    <3>1. k # l
      BY <2>4 DEF Lost, Admitted, Connected
    <3> QED BY <2>4, <3>1 DEF IInv, Bookkeeping, OnlyLink
  <2>5. ASSUME NEW k \in Links, wire'[k] = "requested"
        PROVE  IsActive(core', k) /\ core'.active.call.role = "Outgoing"
    <3>1. k # l
      BY <2>5 DEF Lost, Admitted, Connected
    <3> QED BY <1>1, <2>5, <3>1 DEF IInv, Bookkeeping, OnlyLink
  <2>6. \A k \in Links : audio'[k] = "running" => core'.active.call.status = Established
    BY DEF IInv, Bookkeeping
  <2> QED BY <2>1, <2>2, <2>3, <2>4, <2>5, <2>6 DEF Bookkeeping
<1> QED BY <1>3, <1>4, <1>5, <1>6, <1>7, <1>8 DEF IInv, Promised

LEMMA BeginsInv ==
    ASSUME IInv, NEW l \in Links, OnlyLink(l),
           ~HasCall(core), IsActive(core', l), phase[l] = "none",
           phase' = [phase EXCEPT ![l] = "live"], audio' = audio,
           l \notin core'.pending, l \in core'.ingress,
           wire'[l] # "unused",
           wire'[l] = "requested" => core'.active.call.role = "Outgoing"
    PROVE  IInv' /\ Promised
<1>1. \A k : ~IsActive(core, k) /\ (IsActive(core', k) <=> k = l)
  BY DEF IsActive
<1>2. core'.pending \subseteq Links /\ core'.ingress \subseteq Links
  BY DEF OnlyLink, Core
<1>3. /\ phase' \in [Links -> {"none", "live", "over", "broken"}] /\ phase'[l] = "live"
      /\ \A k \in Links \ {l} : phase'[k] = phase[k]
  BY DEF IInv, TypeOK
<1>4. TypeOK'
  BY <1>3 DEF IInv, TypeOK, OnlyLink, WireStates
<1>5. LedgerExact'
  BY <1>1, <1>3 DEF IInv, LedgerExact
<1>6. AudioFollowsCall'
  BY <1>1 DEF IInv, AudioFollowsCall
<1>7. NoOrphanLink'
  BY <1>1 DEF IInv, NoOrphanLink, OnlyLink
<1>8. ActiveCallHears'
  BY DEF ActiveCallHears, IsActive
<1>9. Bookkeeping'
  <2>1. core'.pending \subseteq core'.ingress
    BY <1>2 DEF IInv, Bookkeeping, OnlyLink
  <2>2. \A k \in core'.pending : phase'[k] = "none"
    BY <1>2, <1>3 DEF IInv, Bookkeeping, OnlyLink
  <2>3. \A k \in core'.ingress : k \in core'.pending \/ IsActive(core', k)
    BY <1>1, <1>2 DEF IInv, Bookkeeping, OnlyLink
  <2>4. \A k \in Links : wire'[k] = "unused" => phase'[k] = "none" /\ k \notin core'.ingress
    BY <1>2, <1>3 DEF IInv, Bookkeeping, OnlyLink
  <2>5. \A k \in Links : wire'[k] = "requested" =>
           IsActive(core', k) /\ core'.active.call.role = "Outgoing"
    BY <1>1 DEF IInv, Bookkeeping, OnlyLink
  <2>6. \A k \in Links : audio'[k] = "closed"
    BY <1>1 DEF IInv, AudioFollowsCall
  <2> QED BY <2>1, <2>2, <2>3, <2>4, <2>5, <2>6 DEF Bookkeeping
<1>10. Promised
  <2>1. \A k \in Links : phase[k] # "live"
    BY <1>1 DEF IInv, LedgerExact
  <2> QED BY <2>1 DEF Promised, Promise!Begin, Promise!Live
<1> QED BY <1>4, <1>5, <1>6, <1>7, <1>8, <1>9, <1>10 DEF IInv

-----------------------------------------------------------------------------
(* The actions on links *)

Silent(r) ==
    \A k \in Links, t \in (LifeEffects \ {"TeardownLink"}) \cup AudioEffects : ~Orders(r, k, t)

LEMMA SilentTake ==
    ASSUME IInv, NEW r, NEW linksNow, Silent(r), Take(r, linksNow)
    PROVE  phase' = phase /\ audio' = audio
<1>1. phase' = phase
  BY DEF Take, Silent, IInv, TypeOK, LifeEffects, PhaseAfter
<1>2. audio' = audio
  BY DEF Take, Silent, IInv, TypeOK, LifeEffects, AudioEffects, AudioAfter
<1> QED BY <1>1, <1>2

LEMMA IncomingUpInv ==
    ASSUME IInv, NEW l \in Links, IncomingUp(l)
    PROVE  IInv' /\ Promised
<1> DEFINE r == LinkEstablished(core, l)
           busy == LineBusy(core)
           a == IncomingLinkEstablished(busy)
<1>1. /\ wire[l] = "unused" /\ phase[l] = "none" /\ ~IsActive(core, l)
      /\ l \notin core.pending /\ l \notin core.ingress
  BY DEF IncomingUp, IInv, LedgerExact, Bookkeeping
<1>2. Take(r, [wire EXCEPT ![l] = "incoming"])
  BY DEF IncomingUp
<1>3. r = Step(IF busy THEN core
               ELSE [core EXCEPT !.pending = @ \cup {l}, !.ingress = @ \cup {l}],
               CommandsFrom(l, a))
  BY <1>1 DEF LinkEstablished, LinkUpIncoming
<1>4. /\ busy => Effects(a) = {"SendSignal", "TeardownLink"}
      /\ ~busy => Effects(a) = {"SendSignal"}
  BY DEF IncomingLinkEstablished, Effects, SendStatus, SendSignal, Do
<1>5. core \in Core /\ wire \in [Links -> WireStates]
  BY DEF IInv, TypeOK, WireStates
<1> HIDE DEF r, busy, a
<1>6. \A k \in Links : \A t : Orders(r, k, t) <=> k = l /\ t \in Effects(a)
  BY <1>3, OrdersFrom
<1>7. phase' = phase /\ audio' = audio
  BY <1>2, <1>4, <1>6, SilentTake DEF Silent, LifeEffects, AudioEffects
<1>8. CASE busy
  <2>1. core' = core
    BY <1>2, <1>3, <1>8 DEF Take, Step
  <2>2. wire' = [wire EXCEPT ![l] = "closing"]
    BY <1>2, <1>4, <1>5, <1>6, <1>8 DEF Take, TornDown
  <2> QED BY <1>1, <1>5, <1>7, <2>1, <2>2, LinkInv DEF OnlyLink, Lost, WireStates
<1>9. CASE ~busy
  <2>1. core' = [core EXCEPT !.pending = @ \cup {l}, !.ingress = @ \cup {l}]
    BY <1>2, <1>3, <1>9 DEF Take, Step
  <2>2. /\ core' \in Core /\ core'.active = core.active
        /\ core'.pending = core.pending \cup {l} /\ core'.ingress = core.ingress \cup {l}
    BY <1>5, <2>1 DEF Core
  <2>3. wire' = [wire EXCEPT ![l] = "incoming"]
    <3>1. \A k \in Links : ~Orders(r, k, "TeardownLink")
      BY <1>4, <1>6, <1>9
    <3> QED BY <1>2, <1>5, <3>1 DEF Take
  <2> QED BY <1>1, <1>5, <1>7, <2>2, <2>3, LinkInv DEF OnlyLink, Admitted, WireStates
<1> QED BY <1>8, <1>9

LEMMA OutgoingUpInv ==
    ASSUME IInv, NEW l \in Links, OutgoingUp(l)
    PROVE  IInv' /\ Promised
<1> DEFINE r == LinkEstablished(core, l)
<1>1. /\ wire[l] = "requested" /\ IsActive(core, l)
      /\ core.active.call.role = "Outgoing" /\ l \notin core.pending
  BY DEF OutgoingUp, IInv, LedgerExact, Bookkeeping
<1>2. Take(r, [wire EXCEPT ![l] = "outgoing"])
  BY DEF OutgoingUp
<1>3. r = Step([core EXCEPT !.ingress = @ \cup {l}], <<>>)
  BY <1>1 DEF LinkEstablished, LinkUpOutgoing
<1>4. core \in Core /\ wire \in [Links -> WireStates]
  BY DEF IInv, TypeOK, WireStates
<1> HIDE DEF r
<1>5. \A k, t : ~Orders(r, k, t)
  BY <1>3, OrdersNothing
<1>6. phase' = phase /\ audio' = audio
  BY <1>2, <1>5, SilentTake DEF Silent
<1>7. core' = [core EXCEPT !.ingress = @ \cup {l}]
  BY <1>2, <1>3 DEF Take, Step
<1>8. /\ core' \in Core /\ core'.active = core.active
      /\ core'.pending = core.pending /\ core'.ingress = core.ingress \cup {l}
  BY <1>4, <1>7 DEF Core
<1>9. wire' = [wire EXCEPT ![l] = "outgoing"]
  BY <1>2, <1>4, <1>5 DEF Take
<1> QED BY <1>1, <1>4, <1>6, <1>8, <1>9, LinkInv DEF OnlyLink, Connected, WireStates

LEMMA IdentifiedInv ==
    ASSUME IInv, NEW l \in Links, Identified(l)
    PROVE  IInv' /\ Promised
<1>1. PICK i \in Identities : Take(RemoteIdentified(core, l, i), wire)
  BY DEF Identified
<1> DEFINE r == RemoteIdentified(core, l, i)
           busy == LineBusy(core)
           allowed == IsAllowed(core.access, i)
           o == CallerIdentified(IncomingCall, busy, allowed)
           forgotten == [core EXCEPT !.pending = @ \ {l}, !.ingress = @ \ {l}]
           begun == [core EXCEPT !.pending = @ \ {l},
                                 !.active = [link |-> l, identity |-> i, call |-> o.call]]
<1>2. core \in Core /\ wire \in [Links -> WireStates] /\ wire[l] \in {"incoming", "closing"}
  BY DEF IInv, TypeOK, WireStates, Identified
<1>3. CASE l \notin core.pending \cup core.ingress
  <2>1. Idles(core, r)
    BY <1>2, <1>3, RefusalIdles DEF RemoteIdentified
  <2> QED BY <1>1, <2>1, IdlesInv
<1>4. CASE l \in core.pending \cup core.ingress /\ (busy \/ ~allowed)
  <2> DEFINE a == o.actions
  <2>1. r = Step(forgotten, CommandsFrom(l, a))
    BY <1>4 DEF RemoteIdentified
  <2>2. Effects(a) = {"SendSignal", "TeardownLink"}
    BY <1>4 DEF CallerIdentified, Result, Effects, SendStatus, SendSignal, Do
  <2>3. /\ forgotten \in Core /\ forgotten.active = core.active
        /\ forgotten.pending = core.pending \ {l} /\ forgotten.ingress = core.ingress \ {l}
    BY <1>2 DEF Core
  <2> HIDE DEF r, busy, allowed, forgotten, a
  <2>4. \A k \in Links : \A t : Orders(r, k, t) <=> k = l /\ t \in Effects(a)
    BY <2>1, OrdersFrom
  <2>5. phase' = phase /\ audio' = audio
    BY <1>1, <2>2, <2>4, SilentTake DEF Silent, LifeEffects, AudioEffects, r
  <2>6. core' = forgotten
    BY <1>1, <2>1 DEF Take, Step, r
  <2>7. wire' = [wire EXCEPT ![l] = "closing"]
    <3>1. \A k \in Links : Orders(r, k, "TeardownLink") <=> k = l
      BY <2>2, <2>4
    <3> QED BY <1>1, <1>2, <3>1 DEF Take, TornDown, r
  <2> QED BY <1>2, <2>3, <2>5, <2>6, <2>7, LinkInv DEF OnlyLink, Lost, WireStates
<1>5. CASE l \in core.pending \cup core.ingress /\ ~busy /\ allowed
  <2> DEFINE a == <<Do("ResetDialingPipelines"), SendStatus(Ringing), Do("RingIncomingCall")>>
  <2>1. o = Result(At(IncomingCall, Ringing), a)
    BY <1>5 DEF CallerIdentified
  <2>2. o.actions = a /\ o.call = At(IncomingCall, Ringing)
    BY <2>1 DEF Result
  <2>3. r = Step(begun, CommandsFrom(l, a))
    BY <1>5, <2>2 DEF RemoteIdentified
  <2>4. Effects(a) = {"ResetDialingPipelines", "SendSignal", "RingIncomingCall"}
    BY DEF Effects, SendStatus, SendSignal, Do
  <2>5. o.call \in Call
    <3>1. IncomingCall \in Call
      BY StatusValues DEF IncomingCall, Call
    <3> QED BY <2>2, <3>1, AtTyped, StatusValues
  <2>6. ~HasCall(core)
    BY <1>5 DEF LineBusy
  <2>7. l \in core.pending /\ l \in core.ingress /\ phase[l] = "none"
    BY <1>5, <2>6 DEF IInv, Bookkeeping, IsActive
  <2> DEFINE call == [link |-> l, identity |-> i, call |-> o.call]
  <2>8. call \in ActiveCall /\ call.link = l /\ call # NoCall
    BY <2>5, NoCallAssumption DEF ActiveCall
  <2> HIDE DEF call, o
  <2>9. /\ begun \in Core /\ begun.active = call
        /\ begun.pending = core.pending \ {l} /\ begun.ingress = core.ingress
    BY <1>2, <2>8 DEF Core, call
  <2> HIDE DEF r, busy, allowed, begun, a
  <2>10. \A k \in Links : \A t : Orders(r, k, t) <=> k = l /\ t \in Effects(a)
    BY <2>3, OrdersFrom
  <2>11. audio' = audio
    <3>1. \A k \in Links, t \in AudioEffects \cup {"StopAudioPipelines"} : ~Orders(r, k, t)
      BY <2>4, <2>10 DEF AudioEffects
    <3> QED BY <1>1, <3>1 DEF Take, AudioAfter, AudioEffects, IInv, TypeOK, r
  <2>12. phase' = [phase EXCEPT ![l] = "live"]
    <3>1. \A k \in Links : ~Orders(r, k, "CallTerminated")
      BY <2>4, <2>10
    <3>2. \A k \in Links : Orders(r, k, "RingIncomingCall") <=> k = l
      BY <2>4, <2>10
    <3>3. phase' = [k \in Links |-> PhaseAfter(r, k)]
      BY <1>1 DEF Take, r
    <3>4. phase \in [Links -> {"none", "live", "over", "broken"}]
      BY DEF IInv, TypeOK
    <3>5. \A k \in Links : PhaseAfter(r, k) = IF k = l THEN "live" ELSE phase[k]
      BY <2>7, <3>1, <3>2 DEF PhaseAfter
    <3> QED BY <3>3, <3>4, <3>5
  <2>13. wire' = wire
    <3>1. \A k \in Links : ~Orders(r, k, "TeardownLink")
      BY <2>4, <2>10
    <3> QED BY <1>1, <1>2, <3>1 DEF Take, r
  <2>14. core' = begun
    BY <1>1, <2>3 DEF Take, Step, r
  <2>15. IsActive(core', l) /\ OnlyLink(l)
    BY <1>2, <2>8, <2>9, <2>13, <2>14 DEF OnlyLink, IsActive, HasCall
  <2>16. l \notin core'.pending /\ l \in core'.ingress
    BY <2>7, <2>9, <2>14
  <2>17. wire'[l] # "unused" /\ wire'[l] # "requested"
    BY <1>2, <2>13
  <2> QED BY <2>6, <2>7, <2>11, <2>12, <2>15, <2>16, <2>17, BeginsInv
<1> QED BY <1>3, <1>4, <1>5

LEMMA PacketInInv ==
    ASSUME IInv, OrderlyPackets, NEW l \in Links, PacketIn(l)
    PROVE  IInv' /\ Promised
<1>1. PICK p \in Payloads : Take(AcceptPlaintext(core, l, p), wire)
  BY DEF PacketIn
<1> DEFINE r == AcceptPlaintext(core, l, p)
<1>2. core \in Core
  BY DEF IInv, TypeOK
<1>3. Idles(core, r) \/ Continues(core, r, l) \/ Ends(core, r, l, TRUE)
  <2>1. p \in Packets /\ Orderly(p)
    BY TrafficAssumption DEF OrderlyPackets
  <2> QED BY <1>2, <2>1, PacketShape
<1> HIDE DEF r
<1>4. Take(r, wire)
  BY <1>1 DEF r
<1> QED BY <1>3, <1>4, IdlesInv, ContinuesInv, EndsInv

LEMMA ClosedInv ==
    ASSUME IInv, NEW l \in Links, Closed(l)
    PROVE  IInv' /\ Promised
<1>1. PICK after \in {"gone", "closing"} :
         Take(LinkClosed(core, l), [wire EXCEPT ![l] = after])
  BY DEF Closed
<1> DEFINE r == LinkClosed(core, l)
<1>2. core \in Core /\ wire \in [Links -> WireStates]
  BY DEF IInv, TypeOK, WireStates
<1>3. CASE IsActive(core, l)
  <2>1. Ends(core, r, l, FALSE)
    BY <1>2, <1>3, CloseActiveShape
  <2> QED BY <1>1, <2>1, EndsInv
<1>4. CASE ~IsActive(core, l)
  <2> DEFINE forgotten == [core EXCEPT !.pending = @ \ {l}, !.ingress = @ \ {l}]
  <2>1. r = Step(forgotten, <<>>)
    BY <1>4 DEF LinkClosed
  <2>2. /\ forgotten \in Core /\ forgotten.active = core.active
        /\ forgotten.pending = core.pending \ {l} /\ forgotten.ingress = core.ingress \ {l}
    BY <1>2 DEF Core
  <2> HIDE DEF r, forgotten
  <2>3. \A k, t : ~Orders(r, k, t)
    BY <2>1, OrdersNothing
  <2>4. phase' = phase /\ audio' = audio
    BY <1>1, <2>3, SilentTake DEF Silent, r
  <2>5. core' = forgotten
    BY <1>1, <2>1 DEF Take, Step, r
  <2>6. wire' = [wire EXCEPT ![l] = after]
    BY <1>1, <1>2, <2>3 DEF Take, r
  <2> QED BY <1>2, <1>4, <2>2, <2>4, <2>5, <2>6, LinkInv DEF OnlyLink, Lost, WireStates
<1> QED BY <1>3, <1>4

LEMMA DialInv ==
    ASSUME IInv, NEW l \in Links, Dial(l)
    PROVE  IInv' /\ Promised
<1>1. PICK i \in Identities, p \in Profiles \cup {NoProfile} :
         core' = StartOutgoingCall(core, l, i, p).core
  BY DEF Dial
<1> DEFINE call == [link |-> l, identity |-> i, call |-> OutgoingCall(p)]
           begun == [core EXCEPT !.ingress = @ \cup {l}, !.active = call]
<1>2. /\ core \in Core /\ wire \in [Links -> WireStates]
      /\ phase \in [Links -> {"none", "live", "over", "broken"}]
  BY DEF IInv, TypeOK, WireStates
<1>3. ~HasCall(core) /\ wire[l] = "unused" /\ phase[l] = "none" /\ l \notin core.pending
  BY DEF Dial, LineBusy, IInv, Bookkeeping
<1>4. core' = begun
  BY <1>1 DEF Dial, StartOutgoingCall, Step
<1>5. OutgoingCall(p) \in Call /\ OutgoingCall(p).role = "Outgoing"
  BY StatusValues DEF OutgoingCall, Call
<1>6. /\ call \in ActiveCall /\ call.link = l /\ call # NoCall
      /\ call.call.role = "Outgoing"
  BY <1>5, NoCallAssumption DEF ActiveCall
<1> HIDE DEF call
<1>7. /\ core' \in Core /\ core'.active = call
      /\ core'.pending = core.pending /\ core'.ingress = core.ingress \cup {l}
  BY <1>2, <1>4, <1>6 DEF Core
<1>8. /\ wire' = [wire EXCEPT ![l] = "requested"] /\ audio' = audio
      /\ phase' = [phase EXCEPT ![l] = "live"]
  BY <1>2, <1>3 DEF Dial
<1>9. OnlyLink(l) /\ IsActive(core', l) /\ wire'[l] # "unused"
  BY <1>2, <1>6, <1>7, <1>8 DEF OnlyLink, IsActive, HasCall, WireStates
<1>10. /\ l \notin core'.pending /\ l \in core'.ingress
       /\ core'.active.call.role = "Outgoing"
  BY <1>3, <1>6, <1>7
<1> QED BY <1>3, <1>8, <1>9, <1>10, BeginsInv

LEMMA ShutDownInv ==
    ASSUME IInv, ShutDown
    PROVE  IInv' /\ Promised
<1>1. PICK order \in Enumerations(core.pending) : Take(ShutdownCore(core, order), wire)
  BY DEF ShutDown
<1> DEFINE r == ShutdownCore(core, order)
           h == HangupActive(core, FALSE)
           tail == [i \in DOMAIN order |-> Command(order[i], Do("TeardownLink"))]
           g == Step(core, tail)
           emptied == [core EXCEPT !.active = NoCall, !.pending = {}, !.ingress = {}]
           a == core.active.link
<1>2. /\ core \in Core /\ wire \in [Links -> WireStates]
      /\ phase \in [Links -> {"none", "live", "over", "broken"}]
  BY DEF IInv, TypeOK, WireStates
<1>3. tail \in Seq(Commands)
  <2>1. core.pending \subseteq Links
    BY <1>2 DEF Core
  <2>2. Cardinality(core.pending) \in Nat
    BY <2>1, TrafficAssumption, FS_Subset, FS_CardinalityType
  <2>3. order \in [1 .. Cardinality(core.pending) -> core.pending]
    BY DEF Enumerations
  <2>4. \A l \in Links : Command(l, Do("TeardownLink")) \in Commands
    BY DEF Command, Do, Commands, LineAction, Action
  <2> QED BY <2>1, <2>2, <2>3, <2>4
<1>4. \A k \in Links : \A t : Orders(g, k, t) <=> k \in core.pending /\ t = "TeardownLink"
  <2>1. \A i \in DOMAIN order : order[i] \in core.pending
    BY DEF Enumerations
  <2>2. \A k \in core.pending : \E i \in DOMAIN order : order[i] = k
    BY DEF Enumerations
  <2> QED BY <2>1, <2>2 DEF Orders, Step, Command, Do
<1>5. r = Step(emptied, h.commands \o g.commands)
  BY DEF ShutdownCore, Step
<1>6. h = TerminateActive(core, FALSE, NoReason)
  BY DEF HangupActive
<1> HIDE DEF r, h, tail, emptied
<1>7. /\ emptied \in Core /\ emptied.active = NoCall
      /\ emptied.pending = {} /\ emptied.ingress = {}
  BY <1>2 DEF Core, emptied
<1>8. core' = emptied /\ Take(r, wire)
  BY <1>1, <1>5 DEF Take, Step, r
<1>9. \/ ~HasCall(core) /\ h = Refuse(core, "NoActiveCall")
      \/ \E l \in Links : Ends(core, h, l, TRUE)
  BY <1>2, <1>6, TerminateShape
<1>10. h.commands \in Seq(Commands) /\ g.commands \in Seq(Commands)
  <2>1. g.commands \in Seq(Commands)
    BY <1>3 DEF Step
  <2>2. ASSUME h = Refuse(core, "NoActiveCall") PROVE h.commands \in Seq(Commands)
    BY <2>2 DEF Refuse
  <2> QED BY <1>9, <2>1, <2>2 DEF Ends
<1> HIDE DEF g
<1>11. \A k \in Links : \A t : Orders(r, k, t) <=> Orders(h, k, t) \/ Orders(g, k, t)
  BY <1>5, <1>10, OrdersJoined
<1>12. \A k \in Links :
         /\ Orders(r, k, "TeardownLink") <=> IsActive(core, k) \/ k \in core.pending
         /\ Orders(r, k, "CallTerminated") <=> IsActive(core, k)
         /\ Orders(r, k, "StopAudioPipelines") <=> IsActive(core, k)
         /\ ~Orders(r, k, "RingIncomingCall")
         /\ \A t \in AudioEffects : Orders(r, k, t) => IsActive(core, k)
  <2>1. CASE ~HasCall(core) /\ h = Refuse(core, "NoActiveCall")
    BY <1>4, <1>11, <2>1, OrdersNothing DEF IsActive, AudioEffects
  <2>2. CASE \E l \in Links : Ends(core, h, l, TRUE)
    BY <1>4, <1>11, <2>2 DEF Ends, IsActive, AudioEffects
  <2> QED BY <1>9, <2>1, <2>2
<1>13. /\ phase' \in [Links -> {"none", "live", "over", "broken"}]
       /\ \A k \in Links : phase'[k] \in {"none", "over"}
       /\ \A k \in Links : wire[k] = "unused" => phase'[k] = "none"
  BY <1>2, <1>8, <1>12 DEF Take, PhaseAfter, IInv, LedgerExact, Bookkeeping
<1>14. /\ wire' \in [Links -> WireStates]
       /\ \A k \in Links : wire'[k] \in {"unused", "closing", "gone"}
       /\ \A k \in Links : wire'[k] = "unused" => wire[k] = "unused"
  BY <1>2, <1>8, <1>12 DEF Take, TornDown, WireStates, IInv, NoOrphanLink
<1>15. audio' \in [Links -> {"closed", "open", "running"}] /\ \A k \in Links : audio'[k] = "closed"
  BY <1>8, <1>12 DEF Take, AudioAfter, AudioEffects, IInv, TypeOK, AudioFollowsCall
<1>16. Promised
  <2>1. audio \in [Links -> {"closed", "open", "running"}]
    BY DEF IInv, TypeOK
  <2>2. CASE ~HasCall(core)
    <3>1. phase' = phase
      BY <1>2, <1>8, <1>12, <2>2 DEF Take, PhaseAfter, IsActive
    <3>2. audio' = audio
      BY <1>15, <2>1, <2>2 DEF IInv, AudioFollowsCall, IsActive
    <3> QED BY <3>1, <3>2 DEF Promised
  <2>3. CASE HasCall(core)
    <3>1. a \in Links /\ \A k \in Links : IsActive(core, k) <=> k = a
      BY <1>2, <2>3, ActiveTyped DEF IsActive
    <3>2. phase[a] = "live"
      BY <3>1 DEF IInv, LedgerExact
    <3>3. phase' = [phase EXCEPT ![a] = "over"]
      BY <1>2, <1>8, <1>12, <3>1, <3>2 DEF Take, PhaseAfter
    <3>4. audio' = [audio EXCEPT ![a] = "closed"]
      BY <1>15, <2>1, <3>1 DEF IInv, AudioFollowsCall
    <3> QED BY <3>1, <3>2, <3>3, <3>4 DEF Promised, Promise!End, Promise!Live
  <2> QED BY <2>2, <2>3
<1> QED BY <1>7, <1>8, <1>13, <1>14, <1>15, <1>16
        DEF IInv, TypeOK, LedgerExact, AudioFollowsCall, NoOrphanLink, ActiveCallHears,
            Bookkeeping, IsActive, HasCall, WireStates
-----------------------------------------------------------------------------
(* The theorems *)

LEMMA InitInv == Init => IInv
<1> SUFFICES ASSUME Init PROVE IInv
  OBVIOUS
<1>1. PICK p \in AccessPolicy : core = NewCore(p)
  BY TrafficAssumption DEF Init
<1>2. /\ core \in Core /\ core.active = NoCall
      /\ core.pending = {} /\ core.ingress = {}
  BY <1>1 DEF NewCore, Core
<1> QED BY <1>2 DEF Init, IInv, TypeOK, LedgerExact, AudioFollowsCall, NoOrphanLink,
                    ActiveCallHears, Bookkeeping, IsActive, HasCall

LEMMA StepInv ==
    ASSUME OrderlyPackets, IInv, [Next]_vars
    PROVE  IInv' /\ Promised
<1>1. core \in Core
  BY DEF IInv, TypeOK
<1>2. ASSUME NEW l \in Links, LinkEvent(l)
      PROVE  IInv' /\ Promised
  BY <1>2, IncomingUpInv, OutgoingUpInv, IdentifiedInv, PacketInInv, ClosedInv DEF LinkEvent
<1>3. ASSUME NEW l \in Links, Dial(l)
      PROVE  IInv' /\ Promised
  BY <1>3, DialInv
<1>4. ASSUME NEW l \in Links, Pickup(l)
      PROVE  IInv' /\ Promised
  <2>1. Take(AnswerActive(core, l), wire)
    BY <1>4 DEF Pickup
  <2> QED BY <1>1, <2>1, AnswerShape, IdlesInv, ContinuesInv
<1>5. ASSUME NEW l \in Links, Repeat(l)
      PROVE  IInv' /\ Promised
  <2>1. Take(RetryAnswerActive(core, l), wire)
    BY <1>5 DEF Repeat
  <2> QED BY <1>1, <2>1, RetryShape, IdlesInv
<1>6. ASSUME NEW l \in Links, GiveUp(l)
      PROVE  IInv' /\ Promised
  <2>1. Take(TimeoutAnswerActive(core, l), wire)
    BY <1>6 DEF GiveUp
  <2> QED BY <1>1, <2>1, TimeoutAnswerShape, IdlesInv, EndsInv
<1>7. CASE Switch
  <2>1. PICK p \in Profiles : Take(SwitchActiveProfile(core, p), wire)
    BY <1>7 DEF Switch
  <2> QED BY <1>1, <2>1, SwitchShape, IdlesInv, ContinuesInv
<1>8. CASE HangUp
  <2>1. PICK t \in BOOLEAN : Take(HangupActive(core, t), wire)
    BY <1>8 DEF HangUp
  <2>2. Take(TerminateActive(core, t, NoReason), wire)
    BY <2>1 DEF HangupActive
  <2> QED BY <1>1, <2>2, TerminateShape, RefusalIdles, IdlesInv, EndsInv
<1>9. CASE SetBusy
  <2>1. PICK b \in BOOLEAN : Take(SetExternalBusy(core, b), wire)
    BY <1>9 DEF SetBusy
  <2>2. Idles(core, SetExternalBusy(core, b))
    BY <1>1, OrdersNothing DEF SetExternalBusy, Idles, Step, Core
  <2> QED BY <2>1, <2>2, IdlesInv
<1>10. CASE SetPolicy
  <2>1. PICK p \in AccessPolicy : Take(SetAccessPolicy(core, p), wire)
    BY <1>10, TrafficAssumption DEF SetPolicy
  <2>2. Idles(core, SetAccessPolicy(core, p))
    BY <1>1, OrdersNothing DEF SetAccessPolicy, Idles, Step, Core
  <2> QED BY <2>1, <2>2, IdlesInv
<1>11. CASE ShutDown
  BY <1>11, ShutDownInv
<1>12. CASE UNCHANGED vars
  BY <1>12 DEF vars, IInv, TypeOK, LedgerExact, AudioFollowsCall, NoOrphanLink,
               ActiveCallHears, Bookkeeping, IsActive, HasCall, Promised
<1> QED BY <1>2, <1>3, <1>4, <1>5, <1>6, <1>7, <1>8, <1>9, <1>10, <1>11, <1>12
        DEF Next, Control

(* What a step does to the status: the call is the same, or new, or over,  *)
(* or its status did not move back.                                        *)
Steady ==
    \/ core'.active = core.active
    \/ ~HasCall(core)
    \/ ~HasCall(core')
    \/ core'.active.call.status >= core.active.call.status

LEMMA ShapesSteady ==
    ASSUME NEW r, NEW linksNow, Take(r, linksNow),
           \/ Idles(core, r)
           \/ \E l \in Links : Continues(core, r, l)
           \/ \E l \in Links, teardown \in BOOLEAN : Ends(core, r, l, teardown)
    PROVE  Steady
BY DEF Take, Idles, Continues, Ends, Steady, HasCall

LEMMA LinkEventSteady ==
    ASSUME OrderlyPackets, IInv, NEW l \in Links, LinkEvent(l)
    PROVE  Steady
<1>1. core \in Core
  BY DEF IInv, TypeOK
<1>2. CASE IncomingUp(l) \/ OutgoingUp(l)
  <2>1. LinkEstablished(core, l).core.active = core.active
    BY <1>1 DEF LinkEstablished, LinkUpIncoming, LinkUpOutgoing, Step, Core
  <2>2. core' = LinkEstablished(core, l).core
    BY <1>2 DEF IncomingUp, OutgoingUp, Take
  <2> QED BY <2>1, <2>2 DEF Steady
<1>3. CASE Identified(l)
  <2>1. PICK i \in Identities : Take(RemoteIdentified(core, l, i), wire)
    BY <1>3 DEF Identified
  <2>2. core' = RemoteIdentified(core, l, i).core
    BY <2>1 DEF Take
  <2>3. CASE LineBusy(core) \/ ~IsAllowed(core.access, i)
    BY <1>1, <2>2, <2>3 DEF RemoteIdentified, Step, Refuse, Core, Steady
  <2>4. CASE ~LineBusy(core)
    BY <2>4 DEF LineBusy, Steady
  <2> QED BY <2>3, <2>4
<1>4. CASE PacketIn(l)
  <2>1. PICK p \in Payloads : Take(AcceptPlaintext(core, l, p), wire)
    BY <1>4 DEF PacketIn
  <2>2. p \in Packets /\ Orderly(p)
    BY TrafficAssumption DEF OrderlyPackets
  <2> QED BY <1>1, <2>1, <2>2, PacketShape, ShapesSteady
<1>5. CASE Closed(l)
  <2>1. core' = LinkClosed(core, l).core
    BY <1>5 DEF Closed, Take
  <2>2. CASE IsActive(core, l)
    <3>1. ~HasCall(core')
      BY <1>1, <2>1, <2>2, CloseActiveShape DEF Ends, HasCall
    <3> QED BY <3>1 DEF Steady
  <2>3. CASE ~IsActive(core, l)
    BY <1>1, <2>1, <2>3 DEF LinkClosed, Step, Core, Steady
  <2> QED BY <2>2, <2>3
<1> QED BY <1>2, <1>3, <1>4, <1>5 DEF LinkEvent

LEMMA StepSteady ==
    ASSUME OrderlyPackets, IInv, Next
    PROVE  Steady
<1>1. core \in Core
  BY DEF IInv, TypeOK
<1>2. ASSUME NEW l \in Links, Dial(l)
      PROVE  Steady
  BY <1>2 DEF Dial, LineBusy, Steady
<1>3. ASSUME NEW l \in Links, Pickup(l)
      PROVE  Steady
  BY <1>1, <1>3, AnswerShape, ShapesSteady DEF Pickup
<1>4. ASSUME NEW l \in Links, Repeat(l)
      PROVE  Steady
  BY <1>1, <1>4, RetryShape, ShapesSteady DEF Repeat
<1>5. ASSUME NEW l \in Links, GiveUp(l)
      PROVE  Steady
  BY <1>1, <1>5, TimeoutAnswerShape, ShapesSteady DEF GiveUp
<1>6. CASE Switch
  BY <1>1, <1>6, SwitchShape, ShapesSteady DEF Switch
<1>7. CASE HangUp
  <2>1. PICK t \in BOOLEAN : Take(HangupActive(core, t), wire)
    BY <1>7 DEF HangUp
  <2>2. Take(TerminateActive(core, t, NoReason), wire)
    BY <2>1 DEF HangupActive
  <2> QED BY <1>1, <2>2, TerminateShape, RefusalIdles, ShapesSteady
<1>8. CASE SetBusy \/ SetPolicy
  <2>1. core'.active = core.active
    BY <1>1, <1>8 DEF SetBusy, SetPolicy, Take, SetExternalBusy, SetAccessPolicy, Step, Core
  <2> QED BY <2>1 DEF Steady
<1>9. CASE ShutDown
  <2>1. core'.active = NoCall
    BY <1>1, <1>9 DEF ShutDown, Take, ShutdownCore, Step, Core
  <2> QED BY <2>1 DEF Steady, HasCall
<1> QED BY <1>2, <1>3, <1>4, <1>5, <1>6, <1>7, <1>8, <1>9, LinkEventSteady DEF Next, Control

(* When no packet carries a signal behind one that ends the call, a line   *)
(* keeps its books through every interleaving of link events and controls. *)
THEOREM LineInvariant ==
    ASSUME OrderlyPackets
    PROVE  Spec => []IInv
<1>1. IInv /\ [Next]_vars => IInv'
  BY StepInv
<1> QED BY <1>1, InitInv, PTL DEF Spec

(* The variables stay in their types. *)
THEOREM LineTyped ==
    ASSUME OrderlyPackets
    PROVE  Spec => []TypeOK
<1>1. IInv => TypeOK
  BY DEF IInv
<1> QED BY <1>1, LineInvariant, PTL

(* The application's ledger of calls is exact: it holds a live call exactly *)
(* for the active link, and no call begins or ends twice.                  *)
THEOREM LedgerIsExact ==
    ASSUME OrderlyPackets
    PROVE  Spec => []LedgerExact
<1>1. IInv => LedgerExact
  BY DEF IInv
<1> QED BY <1>1, LineInvariant, PTL

(* Audio never outlives its call, and opens on an incoming call only after *)
(* the local user has answered.                                            *)
THEOREM AudioIsCallers ==
    ASSUME OrderlyPackets
    PROVE  Spec => []AudioFollowsCall
<1>1. IInv => AudioFollowsCall
  BY DEF IInv
<1> QED BY <1>1, LineInvariant, PTL

(* No link that is up is left without an owner. *)
THEOREM NoLinkOrphaned ==
    ASSUME OrderlyPackets
    PROVE  Spec => []NoOrphanLink
<1>1. IInv => NoOrphanLink
  BY DEF IInv
<1> QED BY <1>1, LineInvariant, PTL

(* The active call's packets are parsed until its link is closing. *)
THEOREM CallIsHeard ==
    ASSUME OrderlyPackets
    PROVE  Spec => []ActiveCallHears
<1>1. IInv => ActiveCallHears
  BY DEF IInv
<1> QED BY <1>1, LineInvariant, PTL

(* The status of a call never moves back. *)
THEOREM StatusOnlyAdvances ==
    ASSUME OrderlyPackets
    PROVE  Spec => StatusNeverRegresses
<1> DEFINE Kept == \A l \in Links : IsActive(core, l) /\ IsActive(core, l)' =>
                       core'.active.call.status >= core.active.call.status
<1>1. ASSUME IInv, [Next]_vars
      PROVE  [Kept]_vars
  <2>1. CASE Next
    <3>1. SUFFICES ASSUME HasCall(core), HasCall(core'), core'.active = core.active
                   PROVE  core'.active.call.status >= core.active.call.status
      BY <1>1, <2>1, StepSteady DEF Steady, IsActive
    <3>2. core.active.call.status \in Nat
      BY <1>1, <3>1, ActiveTyped, StatusValues DEF IInv, TypeOK, Call
    <3> QED BY <3>1, <3>2
  <2>2. CASE UNCHANGED vars
    BY <2>2
  <2> QED BY <1>1, <2>1, <2>2
<1> QED BY <1>1, LineInvariant, PTL DEF Spec, StatusNeverRegresses

(* The line implements OneCall: whatever arrives on its links, and whatever *)
(* the application does, a link carries at most one call, one call lives at *)
(* a time, and audio opens, runs and closes inside a live call.            *)
THEOREM LineImplementsOneCall ==
    ASSUME OrderlyPackets
    PROVE  Spec => PromiseKept
<1>1. Init => Promise!Init
  BY DEF Init, Promise!Init
<1>2. IInv /\ [Next]_vars => [Promise!Next]_(Promise!vars)
  <2> SUFFICES ASSUME IInv, [Next]_vars PROVE [Promise!Next]_(Promise!vars)
    OBVIOUS
  <2> QED BY StepInv DEF Promised, Promise!Next, Promise!vars
<1> QED BY <1>1, <1>2, LineInvariant, PTL DEF Spec, PromiseKept, Promise!Spec
=============================================================================
