--------------------------- MODULE HostMediaProofs ---------------------------
(***************************************************************************)
(* Three parts of a host's media, which share no state.                    *)
(*                                                                         *)
(* The push-to-talk gate (TransmitGate) keeps its promises for every       *)
(* lease, burst, clock skew and number of edges.  Its invariant says what  *)
(* a press in force means: it is the newest edge that arrived, no release  *)
(* behind it came, it began when it arrived at the latest, and its lease   *)
(* is no longer than the last renewal allows.  Update is first reduced to  *)
(* the seven things an edge can do to the gate.                            *)
(*                                                                         *)
(* The path of a frame (FramePath) loses no frame from its books, for      *)
(* every size of packets, profiles and buffer.  A packet is accepted frame *)
(* by frame, by induction; a batch of frames and the packets it is cut     *)
(* into are counted by a bijection; and a packet that is sent is new to    *)
(* the network because the serials of a batch are the latest.              *)
(*                                                                         *)
(* The parsers and the writer of Opus packets (OpusPacket) agree on any    *)
(* bytes and any sizes of subframes.  The lengths of a packet are read one *)
(* behind the other, by induction, and leave the payload filled: frames,   *)
(* lengths and padding put together again are the packet.                  *)
(***************************************************************************)
EXTENDS TransmitGate, FramePath, OpusAgreement, SequenceTheorems, FiniteSetTheorems,
        WellFoundedInduction, TLAPS

-----------------------------------------------------------------------------
(*                         The push-to-talk gate                           *)
-----------------------------------------------------------------------------

States == [serial : 0 .. MaxSerial, began : Instants, until : Never .. Horizon + Lease,
           blocked : BOOLEAN]

LEMMA FieldsOf ==
    ASSUME NEW s \in States
    PROVE  /\ s = State(s.serial, s.began, s.until, s.blocked)
           /\ s.serial \in 0 .. MaxSerial /\ s.began \in Instants
           /\ s.until \in Never .. Horizon + Lease /\ s.blocked \in BOOLEAN
BY DEF States, State

(* A renewal is refused without effect, expires the press or extends it.   *)
LEMMA RenewIs ==
    ASSUME NEW s \in States, NEW at \in 0 .. Horizon
    PROVE  /\ (s.blocked \/ s.began = Never) => Renew(s, at) = Outcome(s, FALSE)
           /\ (~s.blocked /\ s.began # Never) =>
                 \/ Renew(s, at) = Outcome(State(s.serial, s.began, Never, TRUE), FALSE)
                 \/ Renew(s, at) = Outcome(State(s.serial, s.began, at + Lease, FALSE), TRUE)
BY FieldsOf DEF Renew, State, States

(* A press that has just begun is never refused by its own limits.         *)
LEMMA PressIs ==
    ASSUME NEW s \in States, NEW edge \in 1 .. MaxSerial, NEW at \in 0 .. Horizon
    PROVE  NewEdge(s, edge, TRUE, at) =
               IF s.blocked THEN Outcome(State(edge, Never, Never, TRUE), FALSE)
               ELSE Outcome(State(edge, at, at + Lease, FALSE), TRUE)
<1>1. CASE s.blocked
  BY <1>1, FieldsOf DEF NewEdge, Silenced
<1>2. CASE ~s.blocked
  <2> DEFINE begun == State(edge, at, Never, FALSE)
  <2>1. NewEdge(s, edge, TRUE, at) = Renew(begun, at)
    BY <1>2 DEF NewEdge
  <2>2. /\ begun.serial = edge /\ begun.blocked = FALSE
        /\ begun.began = at /\ begun.until = Never
    BY DEF State
  <2> HIDE DEF begun
  <2>3. at # Never /\ ~BurstOver(begun, at) /\ ~LeaseOver(begun, at)
    BY <2>2, GateAssumption DEF Never, BurstOver, LeaseOver
  <2>4. Renew(begun, at) = Outcome(State(edge, at, at + Lease, FALSE), TRUE)
    BY <2>2, <2>3 DEF Renew
  <2> QED BY <1>2, <2>1, <2>4
<1> QED BY <1>1, <1>2

(* What an edge does: it is late and ignored, it releases, it is a press   *)
(* refused or begun, or it renews the press in force: in vain, for the     *)
(* last time, or once more.                                                *)
Ignored(s, edge, out) == edge < s.serial /\ out = Outcome(s, FALSE)
Releases(s, edge, pressed, out) ==
    ~pressed /\ edge >= s.serial /\ out = Outcome(State(edge, Never, Never, FALSE), TRUE)
Refused(s, edge, pressed, out) ==
    pressed /\ edge > s.serial /\ s.blocked
    /\ out = Outcome(State(edge, Never, Never, TRUE), FALSE)
Begins(s, edge, pressed, at, out) ==
    pressed /\ edge > s.serial /\ ~s.blocked
    /\ out = Outcome(State(edge, at, at + Lease, FALSE), TRUE)
InVain(s, edge, pressed, out) ==
    pressed /\ edge = s.serial /\ (s.blocked \/ s.began = Never) /\ out = Outcome(s, FALSE)
Expires(s, edge, pressed, out) ==
    pressed /\ edge = s.serial /\ ~s.blocked /\ s.began # Never
    /\ out = Outcome(State(edge, s.began, Never, TRUE), FALSE)
Extends(s, edge, pressed, at, out) ==
    pressed /\ edge = s.serial /\ ~s.blocked /\ s.began # Never
    /\ out = Outcome(State(edge, s.began, at + Lease, FALSE), TRUE)

LEMMA UpdateIs ==
    ASSUME NEW s \in States, NEW edge \in 1 .. MaxSerial, NEW pressed \in BOOLEAN,
           NEW at \in 0 .. Horizon, NEW out, out = Update(s, edge, pressed, at)
    PROVE  \/ Ignored(s, edge, out)
           \/ Releases(s, edge, pressed, out)
           \/ Refused(s, edge, pressed, out)
           \/ Begins(s, edge, pressed, at, out)
           \/ InVain(s, edge, pressed, out)
           \/ Expires(s, edge, pressed, out)
           \/ Extends(s, edge, pressed, at, out)
<1>1. edge # 0 /\ s.serial \in 0 .. MaxSerial /\ MaxSerial \in Nat /\ edge \in Nat
  BY FieldsOf, GateAssumption DEF MaxSerial
<1>2. CASE edge < s.serial
  BY <1>1, <1>2 DEF Update, Ignored
<1>3. CASE edge > s.serial
  <2>1. ~(edge = 0 \/ edge < s.serial) /\ edge >= s.serial
    BY <1>1, <1>3
  <2>2. out = NewEdge(s, edge, pressed, at)
    BY <1>3, <2>1 DEF Update
  <2>3. CASE ~pressed
    BY <2>1, <2>2, <2>3, Zenon DEF NewEdge, Release, Silenced, Releases
  <2>4. CASE pressed
    <3>1. pressed = TRUE
      BY <2>4
    <3> QED BY <1>3, <2>2, <3>1, PressIs DEF Refused, Begins
  <2> QED BY <2>3, <2>4
<1>4. CASE edge = s.serial
  <2>1. ~(edge = 0 \/ edge < s.serial) /\ ~(edge > s.serial) /\ edge >= s.serial
    BY <1>1, <1>4
  <2>2. CASE ~pressed
    BY <1>4, <2>1, <2>2, Zenon DEF Update, Release, Silenced, Releases
  <2>3. CASE pressed
    <3>1. out = Renew(s, at)
      BY <2>1, <2>3, Zenon DEF Update
    <3> QED BY <1>4, <2>3, <3>1, RenewIs DEF InVain, Expires, Extends
  <2> QED BY <2>2, <2>3
<1> QED BY <1>1, <1>2, <1>3, <1>4

-----------------------------------------------------------------------------
(* The press in force, if there is one. *)
PressInForce ==
    gate.began # Never =>
        /\ ~closed /\ gate.serial \in DOMAIN edges /\ edges[gate.serial]
        /\ released < gate.serial
        /\ gate.began <= opened

LeaseKept == gate.until # Never => gate.until <= renewed + Lease

Fenced ==
    /\ closed => gate.serial = MaxSerial /\ gate.began = Never
    /\ ~closed => gate.serial <= Len(edges) /\ released <= gate.serial

Remembered == expired => gate.blocked \/ closed

GateInv == TypeOK /\ PressInForce /\ LeaseKept /\ Fenced /\ Remembered

LEMMA GateTyped ==
    ASSUME TypeOK
    PROVE  /\ gate \in States /\ MaxSerial = MaxEdges + 1 /\ MaxEdges \in Nat
           /\ gate.serial \in 0 .. MaxSerial /\ gate.began \in Never .. Horizon
           /\ gate.until \in Never .. Horizon + Lease /\ gate.blocked \in BOOLEAN
           /\ edges \in Seq(BOOLEAN) /\ Len(edges) \in Nat /\ Len(edges) <= MaxEdges
           /\ DOMAIN edges = 1 .. Len(edges)
           /\ now \in 0 .. Horizon /\ Horizon \in Nat /\ Lease \in Nat /\ Lease > 0
           /\ released \in 0 .. MaxEdges /\ opened \in Never .. Horizon
           /\ renewed \in Never .. Horizon /\ expired \in BOOLEAN /\ closed \in BOOLEAN
BY GateAssumption, LenProperties, FieldsOf DEF TypeOK, States, Instants, MaxSerial

LEMMA TimesTyped ==
    ASSUME TypeOK, NEW at \in Times
    PROVE  at \in 0 .. Horizon /\ at <= now /\ at >= now - Skew
BY GateAssumption DEF TypeOK, Times

(* An instant and the end of a lease that begins then are typed.           *)
LEMMA LeaseTyped ==
    ASSUME NEW h \in Nat, NEW lease \in Nat, NEW at \in 0 .. h
    PROVE  /\ at \in Never .. h /\ at + lease \in Never .. h + lease /\ at # Never
           /\ Never \in Never .. h /\ Never \in Never .. h + lease
<1>1. Never = -1 /\ at \in Nat /\ at <= h
  BY DEF Never
<1>2. at \in Never .. h /\ at # Never
  BY <1>1
<1>3. at + lease \in Never .. h + lease
  BY <1>1
<1>4. Never \in Never .. h /\ Never \in Never .. h + lease
  BY <1>1
<1> QED BY <1>2, <1>3, <1>4

LEMMA InitGate == Init => GateInv
<1> SUFFICES ASSUME Init PROVE GateInv
  OBVIOUS
<1>1. /\ gate.serial = 0 /\ gate.began = Never /\ gate.until = Never
      /\ gate.blocked = FALSE
  BY DEF Init, Silenced, State
<1>2. TypeOK
  <2>1. edges \in Seq(BOOLEAN) /\ Len(edges) = 0
    BY EmptySeq DEF Init
  <2>2. Silenced(0, FALSE) \in [serial : 0 .. MaxSerial, began : Instants,
                                 until : Never .. Horizon + Lease, blocked : BOOLEAN]
    BY GateAssumption DEF Silenced, State, MaxSerial, Instants, Never
  <2>3. Never \in Instants /\ now \in 0 .. Horizon /\ released \in 0 .. MaxEdges
    BY GateAssumption DEF Init, Instants, Never
  <2>4. MaxEdges \in Nat /\ 0 \in Nat /\ edges = <<>>
    BY GateAssumption DEF Init
  <2>5. gate \in [serial : 0 .. MaxSerial, began : Instants,
                 until : Never .. Horizon + Lease, blocked : BOOLEAN]
    BY <2>2 DEF Init
  <2>6. expired \in BOOLEAN /\ closed \in BOOLEAN /\ opened = Never /\ renewed = Never
    BY DEF Init
  <2>7. Len(edges) <= MaxEdges
    BY <2>1, <2>4
  <2> QED BY <2>1, <2>3, <2>5, <2>6, <2>7 DEF TypeOK
<1>3. PressInForce /\ LeaseKept /\ Remembered
  BY <1>1 DEF Init, PressInForce, LeaseKept, Remembered
<1>4. Fenced
  <2>1. ~closed /\ released = 0
    BY DEF Init
  <2>2. 0 <= Len(edges)
    BY <1>2, GateTyped
  <2> QED BY <1>1, <2>1, <2>2 DEF Fenced
<1> QED BY <1>2, <1>3, <1>4 DEF GateInv

LEMMA OutcomeIs ==
    \A s, ok : Outcome(s, ok).gate = s /\ Outcome(s, ok).ok = ok
BY DEF Outcome

(* What follows when an edge is taken for the gate's verdict on it. *)
Arrives(edge, at, pressed, out) ==
    /\ pressed = edges[edge] /\ out = Update(gate, edge, pressed, at)
    /\ gate' = out.gate
    /\ released' = IF ~pressed /\ edge > released THEN edge ELSE released
    /\ expired' = IF out.ok /\ ~pressed THEN FALSE
                  ELSE expired \/ (pressed /\ InForce(edge) /\ ~out.ok)
    /\ opened' = IF pressed /\ out.ok /\ ~InForce(edge) THEN now ELSE opened
    /\ renewed' = IF pressed /\ out.ok THEN now ELSE renewed
    /\ now' = now /\ edges' = edges /\ closed' = closed

(* An edge arrives: one case for each thing it can do. *)
LEMMA ArriveKeeps ==
    ASSUME GateInv, NEW edge \in DOMAIN edges, NEW at \in Times,
           NEW pressed \in BOOLEAN, NEW out, Arrives(edge, at, pressed, out)
    PROVE  GateInv'
<1>0. /\ pressed = edges[edge] /\ out = Update(gate, edge, pressed, at)
      /\ gate' = out.gate
      /\ released' = IF ~pressed /\ edge > released THEN edge ELSE released
      /\ expired' = IF out.ok /\ ~pressed THEN FALSE
                    ELSE expired \/ (pressed /\ InForce(edge) /\ ~out.ok)
      /\ opened' = IF pressed /\ out.ok /\ ~InForce(edge) THEN now ELSE opened
      /\ renewed' = IF pressed /\ out.ok THEN now ELSE renewed
      /\ now' = now /\ edges' = edges /\ closed' = closed
  BY DEF Arrives
<1>01. gate' = out.gate
  BY <1>0
<1>1. TypeOK /\ PressInForce /\ LeaseKept /\ Fenced /\ Remembered
  BY DEF GateInv
<1>2. /\ edge \in 1 .. Len(edges) /\ edge \in 1 .. MaxEdges /\ edge \in 0 .. MaxSerial
      /\ edge \in 1 .. MaxSerial /\ edge < MaxSerial
      /\ at \in 0 .. Horizon /\ at <= now /\ at \in Never .. Horizon
      /\ at + Lease \in Never .. Horizon + Lease /\ Never \in Never .. Horizon
      /\ Never \in Never .. Horizon + Lease /\ at # Never
  <2>1. edge \in 1 .. Len(edges) /\ at \in 0 .. Horizon /\ at <= now
    BY <1>1, GateTyped, TimesTyped
  <2>2. Never = -1 /\ MaxSerial = MaxEdges + 1
    BY <1>1, GateTyped DEF Never
  <2>3. edge \in 1 .. MaxEdges
    BY <1>1, <2>1, GateTyped
  <2>4. /\ at \in Never .. Horizon /\ at + Lease \in Never .. Horizon + Lease
        /\ Never \in Never .. Horizon /\ Never \in Never .. Horizon + Lease /\ at # Never
    <3>1. Horizon \in Nat /\ Lease \in Nat /\ at \in 0 .. Horizon
      BY <1>1, <2>1, GateTyped
    <3> QED BY <3>1, LeaseTyped, Zenon
  <2>5. edge \in 0 .. MaxSerial /\ edge \in 1 .. MaxSerial /\ edge < MaxSerial
    BY <1>1, <2>2, <2>3, GateTyped, SMTT(30)
  <2> QED BY <2>1, <2>3, <2>4, <2>5
<1>3. released' \in 0 .. MaxEdges /\ released' >= released
  BY <1>0, <1>1, <1>2, GateTyped, SMTT(30)
<1>11. at + Lease <= now + Lease /\ now \in Instants
  <2>1. at \in 0 .. Horizon /\ now \in 0 .. Horizon /\ at <= now
    BY <1>1, <1>2, GateTyped
  <2>2. Lease \in Nat /\ Horizon \in Nat
    BY <1>1, GateTyped
  <2>3. at + Lease <= now + Lease
    BY <2>1, <2>2
  <2>4. now \in Instants
    BY <2>1, <2>2 DEF Instants, Never
  <2> QED BY <2>3, <2>4
<1>4. CASE Ignored(gate, edge, out)
  <2>0. out = Outcome(gate, FALSE) /\ edge < gate.serial
    BY <1>4, Zenon DEF Ignored
  <2>1. gate' = gate /\ out.ok = FALSE
    BY <1>0, <2>0 DEF Outcome
  <2>2. ~InForce(edge)
    BY <1>1, <1>2, <2>0, <2>1, GateTyped, SMTT(30) DEF InForce
  <2>3. expired' = expired /\ opened' = opened /\ renewed' = renewed
    BY <1>0, <1>1, <2>0, <2>1, <2>2, GateTyped
  <2>4. released < gate.serial => released' < gate.serial
    BY <1>0, <1>1, <1>2, <2>0, <2>1, GateTyped
  <2>5. released <= gate.serial => released' <= gate.serial
    BY <1>0, <1>1, <1>2, <2>0, <2>1, GateTyped, SMTT(30)
  <2> QED BY <1>0, <1>1, <1>3, <2>0, <2>1, <2>3, <2>4, <2>5
          DEF GateInv, TypeOK, PressInForce, LeaseKept, Fenced, Remembered
<1>5. CASE Releases(gate, edge, pressed, out)
  <2>0. out = Outcome(State(edge, Never, Never, FALSE), TRUE)
        /\ ~pressed /\ edge >= gate.serial
    BY <1>5, Zenon DEF Releases
  <2>1. gate' = State(edge, Never, Never, FALSE) /\ out.ok = TRUE
    BY <1>01, <2>0, OutcomeIs, Zenon
  <2>11. gate' \in [serial : 0 .. MaxSerial, began : Instants,
                      until : Never .. Horizon + Lease, blocked : BOOLEAN]
    BY <1>2, <2>1 DEF State, Instants
  <2>2. /\ gate'.serial = edge /\ gate'.began = Never /\ gate'.until = Never
        /\ gate'.blocked = FALSE
    BY <2>1 DEF State
  <2>3. expired' = FALSE /\ opened' = opened /\ renewed' = renewed
    BY <1>0, <2>0, <2>1
  <2>4. ~closed
    BY <1>1, <1>2, <2>0, <2>1, GateTyped DEF Fenced
  <2>50. released <= gate.serial
    BY <2>4, <1>1 DEF Fenced
  <2>51. released \in Nat /\ gate.serial \in Nat /\ edge \in Nat /\ edge <= Len(edges)
    BY <1>1, <1>2, GateTyped, SMTT(30)
  <2>5. released' <= edge /\ edge <= Len(edges)
    BY <1>0, <1>1, <2>0, <2>50, <2>51
  <2> QED BY <1>0, <1>1, <1>3, <2>2, <2>11, <2>3, <2>4, <2>5
          DEF GateInv, TypeOK, PressInForce, LeaseKept, Fenced, Remembered
<1>6. CASE Refused(gate, edge, pressed, out)
  <2>0. out = Outcome(State(edge, Never, Never, TRUE), FALSE)
        /\ pressed /\ edge > gate.serial
    BY <1>6, Zenon DEF Refused
  <2>1. gate' = State(edge, Never, Never, TRUE) /\ out.ok = FALSE
    BY <1>01, <2>0, OutcomeIs, Zenon
  <2>11. gate' \in [serial : 0 .. MaxSerial, began : Instants,
                      until : Never .. Horizon + Lease, blocked : BOOLEAN]
    BY <1>2, <2>1 DEF State, Instants
  <2>2. /\ gate'.serial = edge /\ gate'.began = Never /\ gate'.until = Never
        /\ gate'.blocked = TRUE
    BY <2>1 DEF State
  <2>3. expired' \in BOOLEAN /\ opened' = opened /\ renewed' = renewed /\ released' = released
    BY <1>0, <1>1, <2>0, <2>1 DEF TypeOK
  <2>4. ~closed
    BY <1>1, <1>2, <2>0, <2>1, GateTyped, SMTT(30) DEF Fenced
  <2>5. released <= edge /\ edge <= Len(edges)
    BY <1>1, <1>2, <2>0, <2>1, <2>4, GateTyped, SMTT(30) DEF Fenced
  <2> QED BY <1>0, <1>1, <2>2, <2>11, <2>3, <2>4, <2>5
          DEF GateInv, TypeOK, PressInForce, LeaseKept, Fenced, Remembered
<1>7. CASE Begins(gate, edge, pressed, at, out)
  <2>0. out = Outcome(State(edge, at, at + Lease, FALSE), TRUE)
        /\ pressed /\ edge > gate.serial /\ ~gate.blocked
    BY <1>7, Zenon DEF Begins
  <2>1. gate' = State(edge, at, at + Lease, FALSE) /\ out.ok = TRUE
    BY <1>01, <2>0, OutcomeIs, Zenon
  <2>11. gate' \in [serial : 0 .. MaxSerial, began : Instants,
                      until : Never .. Horizon + Lease, blocked : BOOLEAN]
    BY <1>2, <2>1 DEF State, Instants
  <2>2. /\ gate'.serial = edge /\ gate'.began = at /\ gate'.until = at + Lease
        /\ gate'.blocked = FALSE
    BY <2>1 DEF State
  <2>3. ~InForce(edge)
    BY <1>1, <1>2, <2>0, <2>1, GateTyped, SMTT(30) DEF InForce
  <2>4. opened' = now /\ renewed' = now /\ released' = released
    BY <1>0, <2>0, <2>1, <2>3
  <2>5. ~closed
    BY <1>1, <1>2, <2>0, <2>1, GateTyped DEF Fenced
  <2>6. expired' = FALSE
    BY <1>0, <1>1, <2>0, <2>1, <2>3, <2>5 DEF Remembered, TypeOK
  <2>7. released < edge /\ edge <= Len(edges) /\ edge \in DOMAIN edges
    BY <1>1, <1>2, <2>0, <2>1, <2>5, GateTyped, SMTT(30) DEF Fenced
  <2>9. TypeOK'
    BY <1>0, <1>1, <2>4, <2>6, <1>11, <2>11 DEF TypeOK
  <2>10. PressInForce'
    BY <1>0, <1>2, <2>0, <2>1, <2>2, <2>4, <2>5, <2>7 DEF PressInForce
  <2>12. Fenced'
    BY <1>0, <1>1, <1>2, <2>2, <2>4, <2>5, <2>7, GateTyped, SMTT(30) DEF Fenced
  <2>13. LeaseKept'
    BY <2>2, <2>4, <1>11 DEF LeaseKept
  <2> QED BY <2>6, <2>9, <2>10, <2>12, <2>13 DEF GateInv, Remembered
<1>8. CASE InVain(gate, edge, pressed, out)
  <2>0. out = Outcome(gate, FALSE) /\ pressed /\ (gate.blocked \/ gate.began = Never)
    BY <1>8, Zenon DEF InVain
  <2>1. gate' = gate /\ out.ok = FALSE
    BY <1>01, <2>0, OutcomeIs, Zenon
  <2>2. opened' = opened /\ renewed' = renewed /\ released' = released
    BY <1>0, <2>0, <2>1
  <2>3. expired' \in BOOLEAN /\ (expired' => expired \/ gate.blocked)
    BY <1>0, <1>1, <2>0, <2>1 DEF InForce, TypeOK
  <2> QED BY <1>0, <1>1, <2>0, <2>1, <2>2, <2>3
          DEF GateInv, TypeOK, PressInForce, LeaseKept, Fenced, Remembered
<1>9. CASE Expires(gate, edge, pressed, out)
  <2>0. out = Outcome(State(edge, gate.began, Never, TRUE), FALSE)
        /\ pressed /\ edge = gate.serial /\ gate.began # Never
    BY <1>9, Zenon DEF Expires
  <2>1. gate' = State(edge, gate.began, Never, TRUE) /\ out.ok = FALSE
    BY <1>01, <2>0, OutcomeIs, Zenon
  <2>11. gate' \in [serial : 0 .. MaxSerial, began : Instants,
                      until : Never .. Horizon + Lease, blocked : BOOLEAN]
    BY <1>1, <1>2, <2>1, GateTyped DEF State, Instants
  <2>12. /\ gate'.serial = edge /\ gate'.began = gate.began /\ gate'.until = Never
        /\ gate'.blocked = TRUE
    BY <2>1 DEF State
  <2>2. /\ gate'.serial = gate.serial /\ gate'.began = gate.began /\ gate'.until = Never
        /\ gate'.blocked = TRUE
    BY <2>0, <2>12
  <2>3. opened' = opened /\ renewed' = renewed /\ released' = released /\ expired' \in BOOLEAN
    BY <1>0, <1>1, <2>0, <2>1 DEF TypeOK
  <2> QED BY <1>0, <1>1, <2>2, <2>11, <2>3
          DEF GateInv, TypeOK, PressInForce, LeaseKept, Fenced, Remembered
<1>10. CASE Extends(gate, edge, pressed, at, out)
  <2>0. out = Outcome(State(edge, gate.began, at + Lease, FALSE), TRUE)
        /\ pressed /\ edge = gate.serial /\ gate.began # Never /\ ~gate.blocked
    BY <1>10, Zenon DEF Extends
  <2>1. gate' = State(edge, gate.began, at + Lease, FALSE) /\ out.ok = TRUE
    BY <1>01, <2>0, OutcomeIs, Zenon
  <2>11. gate' \in [serial : 0 .. MaxSerial, began : Instants,
                      until : Never .. Horizon + Lease, blocked : BOOLEAN]
    BY <1>1, <1>2, <2>1, GateTyped DEF State, Instants
  <2>12. /\ gate'.serial = edge /\ gate'.began = gate.began /\ gate'.until = at + Lease
        /\ gate'.blocked = FALSE
    BY <2>1 DEF State
  <2>2. /\ gate'.serial = gate.serial /\ gate'.began = gate.began /\ gate'.until = at + Lease
        /\ gate'.blocked = FALSE
    BY <2>0, <2>12
  <2>3. opened' = opened /\ renewed' = now /\ released' = released
    BY <1>0, <2>0, <2>1 DEF InForce
  <2>4. ~closed
    BY <1>1, <2>0, <2>1 DEF PressInForce
  <2>5. expired' = FALSE
    BY <1>0, <1>1, <2>0, <2>1, <2>4 DEF Remembered, TypeOK
  <2> QED BY <1>0, <1>1, <2>2, <2>11, <2>3, <2>4, <2>5, <1>11
          DEF GateInv, TypeOK, PressInForce, LeaseKept, Fenced, Remembered
<1> QED BY <1>0, <1>1, <1>2, <1>4, <1>5, <1>6, <1>7, <1>8, <1>9, <1>10, GateTyped, UpdateIs

(* Any step keeps the invariant. *)
LEMMA StepKeeps == GateInv /\ [Next]_vars => GateInv'
<1> SUFFICES ASSUME GateInv, [Next]_vars PROVE GateInv'
  OBVIOUS
<1>1. TypeOK /\ PressInForce /\ LeaseKept /\ Fenced /\ Remembered
  BY DEF GateInv
<1>2. CASE Send
  <2>1. PICK pressed \in BOOLEAN : edges' = Append(edges, pressed)
    BY <1>2 DEF Send
  <2>2. /\ Len(edges) < MaxEdges /\ gate' = gate /\ now' = now /\ closed' = closed
        /\ released' = released /\ expired' = expired /\ opened' = opened /\ renewed' = renewed
    BY <1>2 DEF Send, history
  <2>3. /\ edges' \in Seq(BOOLEAN) /\ Len(edges') = Len(edges) + 1
        /\ DOMAIN edges' = 1 .. Len(edges) + 1
        /\ \A i \in 1 .. Len(edges) : edges'[i] = edges[i]
    BY <1>1, <2>1, GateTyped, AppendProperties, LenProperties
  <2>4. TypeOK'
    BY <1>1, <2>2, <2>3, GateTyped DEF TypeOK
  <2>5. PressInForce'
    BY <1>1, <2>2, <2>3, GateTyped DEF PressInForce
  <2>6. Fenced'
    BY <1>1, <2>2, <2>3, GateTyped DEF Fenced
  <2> QED BY <1>1, <2>2, <2>4, <2>5, <2>6 DEF GateInv, LeaseKept, Remembered
<1>3. CASE Arrive
  <2>1. PICK edge \in DOMAIN edges, at \in Times :
          Arrives(edge, at, edges[edge], Update(gate, edge, edges[edge], at))
    BY <1>3, Zenon DEF Arrive, Arrives
  <2>2. edges[edge] \in BOOLEAN
    BY <1>1, GateTyped, ElementOfSeq
  <2> QED BY <2>1, <2>2, ArriveKeeps, Zenon
<1>4. CASE ArriveLast
  <2>1. PICK pressed \in BOOLEAN, at \in Times :
          closed /\ gate' = Update(gate, MaxSerial, pressed, at).gate
    BY <1>4 DEF ArriveLast
  <2>2. /\ now' = now /\ edges' = edges /\ closed' = closed /\ released' = released
        /\ expired' = expired /\ opened' = opened /\ renewed' = renewed
    BY <1>4 DEF ArriveLast, history
  <2>3. gate.serial = MaxSerial /\ gate.began = Never /\ MaxSerial \in 1 .. MaxSerial
    BY <1>1, <2>1, GateTyped DEF Fenced
  <2>4. gate' = gate \/ gate' = State(MaxSerial, Never, Never, FALSE)
    <3>1. CASE pressed
      <4>1. Update(gate, MaxSerial, pressed, at) = Renew(gate, at)
        <5>1. ~(MaxSerial = 0 \/ MaxSerial < MaxSerial) /\ ~(MaxSerial > MaxSerial)
          BY <2>3
        <5> QED BY <2>3, <3>1, <5>1, Zenon DEF Update
      <4>2. Renew(gate, at) = Outcome(gate, FALSE)
        BY <2>3 DEF Renew
      <4> QED BY <2>1, <4>1, <4>2 DEF Outcome
    <3>2. CASE ~pressed
      <4>1. Update(gate, MaxSerial, pressed, at) = Outcome(State(MaxSerial, Never, Never, FALSE), TRUE)
        <5>1. ~(MaxSerial = 0 \/ MaxSerial < MaxSerial) /\ ~(MaxSerial > MaxSerial)
          BY <2>3
        <5> QED BY <2>3, <3>2, <5>1, Zenon DEF Update, Release, Silenced
      <4> QED BY <2>1, <4>1 DEF Outcome
    <3> QED BY <3>1, <3>2
  <2>5. CASE gate' = gate
    BY <1>1, <2>2, <2>5 DEF GateInv, TypeOK, PressInForce, LeaseKept, Fenced, Remembered
  <2>6. CASE gate' = State(MaxSerial, Never, Never, FALSE)
    <3>1. /\ Never \in Never .. Horizon /\ Never \in Never .. Horizon + Lease
          /\ MaxSerial \in 0 .. MaxSerial
      BY <1>1, <2>3, GateTyped DEF Never
    <3>2. gate' \in [serial : 0 .. MaxSerial, began : Instants,
                     until : Never .. Horizon + Lease, blocked : BOOLEAN]
      BY <2>6, <3>1 DEF State, Instants
    <3>3. gate'.serial = MaxSerial /\ gate'.began = Never /\ gate'.until = Never
      BY <2>6 DEF State
    <3> QED BY <1>1, <2>1, <2>2, <3>2, <3>3
            DEF GateInv, TypeOK, PressInForce, LeaseKept, Fenced, Remembered
  <2> QED BY <2>4, <2>5, <2>6
<1>5. CASE Ask
  <2>1. PICK at \in Times : /\ gate' = AfterAsking(gate, at)
                            /\ expired' = (expired \/ (gate.began # Never /\ ~Allowed(gate, at)))
    BY <1>5 DEF Ask
  <2>2. /\ now' = now /\ edges' = edges /\ closed' = closed /\ released' = released
        /\ opened' = opened /\ renewed' = renewed
    BY <1>5 DEF Ask
  <2>3. CASE ~Allowed(gate, at) /\ gate.began # Never
    <3>1. gate' = State(gate.serial, gate.began, Never, TRUE)
      BY <2>1, <2>3 DEF AfterAsking
    <3>2. /\ Never \in Never .. Horizon + Lease /\ gate.serial \in 0 .. MaxSerial
          /\ gate.began \in Never .. Horizon
      BY <1>1, GateTyped DEF Never
    <3>3. gate' \in [serial : 0 .. MaxSerial, began : Instants,
                     until : Never .. Horizon + Lease, blocked : BOOLEAN]
      BY <3>1, <3>2 DEF State, Instants
    <3>4. /\ gate'.serial = gate.serial /\ gate'.began = gate.began /\ gate'.until = Never
          /\ gate'.blocked = TRUE
      BY <3>1 DEF State
    <3>5. expired' \in BOOLEAN
      BY <1>1, <2>1 DEF TypeOK
    <3> QED BY <1>1, <2>2, <3>3, <3>4, <3>5
            DEF GateInv, TypeOK, PressInForce, LeaseKept, Fenced, Remembered
  <2>4. CASE ~(~Allowed(gate, at) /\ gate.began # Never)
    <3>1. gate' = gate
      BY <2>1, <2>4 DEF AfterAsking
    <3>2. expired' = expired
      BY <1>1, <2>1, <2>4 DEF TypeOK
    <3> QED BY <1>1, <2>2, <3>1, <3>2
            DEF GateInv, TypeOK, PressInForce, LeaseKept, Fenced, Remembered
  <2> QED BY <2>3, <2>4
<1>6. CASE Close
  <2>1. /\ gate' = State(MaxSerial, Never, Never, TRUE) /\ closed' = TRUE
        /\ now' = now /\ edges' = edges /\ released' = released
        /\ expired' = expired /\ opened' = opened /\ renewed' = renewed
    BY <1>6 DEF Close, Silenced, history
  <2>2. /\ Never \in Never .. Horizon /\ Never \in Never .. Horizon + Lease
        /\ MaxSerial \in 0 .. MaxSerial
    BY <1>1, GateTyped, SMTT(30) DEF Never
  <2>3. gate' \in [serial : 0 .. MaxSerial, began : Instants,
                   until : Never .. Horizon + Lease, blocked : BOOLEAN]
    BY <2>1, <2>2 DEF State, Instants
  <2>4. gate'.serial = MaxSerial /\ gate'.began = Never /\ gate'.until = Never
    BY <2>1 DEF State
  <2> QED BY <1>1, <2>1, <2>3, <2>4
          DEF GateInv, TypeOK, PressInForce, LeaseKept, Fenced, Remembered
<1>7. CASE ClockTick
  <2>1. /\ now' = now + 1 /\ now < Horizon /\ gate' = gate /\ edges' = edges
        /\ closed' = closed /\ released' = released
        /\ expired' = expired /\ opened' = opened /\ renewed' = renewed
    BY <1>7 DEF ClockTick, history
  <2>2. now' \in 0 .. Horizon
    BY <1>1, <2>1, GateTyped
  <2> QED BY <1>1, <2>1, <2>2
          DEF GateInv, TypeOK, PressInForce, LeaseKept, Fenced, Remembered
<1>8. CASE UNCHANGED vars
  BY <1>1, <1>8 DEF vars, history, GateInv, TypeOK, PressInForce, LeaseKept, Fenced, Remembered
<1> QED BY <1>2, <1>3, <1>4, <1>5, <1>6, <1>7, <1>8 DEF Next

THEOREM GateInvariant == Spec => []GateInv
<1>1. Init => GateInv
  BY InitGate
<1> QED BY <1>1, StepKeeps, PTL DEF Spec

-----------------------------------------------------------------------------
(* A gate that forwards has a press in force, not blocked and in its lease *)
(* and burst, by some reading of the clock no older than the skew.         *)
LEMMA ForwardsIs ==
    ASSUME TypeOK, Forwards
    PROVE  /\ ~gate.blocked /\ gate.began # Never /\ gate.until # Never
           /\ now - Skew < gate.until /\ now - Skew - gate.began < Burst
<1>1. PICK at \in Times : Allowed(gate, at)
  BY DEF Forwards
<1>2. at \in 0 .. Horizon /\ at >= now - Skew
  BY TimesTyped
<1>3. /\ ~gate.blocked /\ gate.began # Never /\ gate.until # Never
      /\ at < gate.until /\ at - gate.began < Burst
  BY <1>1 DEF Allowed
<1>4. at \in Int /\ now \in Int /\ Skew \in Int /\ Burst \in Int
  BY <1>2, GateTyped, GateAssumption
<1>5. gate.began \in Int /\ gate.until \in Int
  BY GateTyped, GateAssumption DEF Never
<1>6. now - Skew < gate.until /\ now - Skew - gate.began < Burst
  BY <1>2, <1>3, <1>4, <1>5
<1> QED BY <1>3, <1>6

(* However late a press or a renewal arrives, it does not open the gate    *)
(* once a later release came or the gate was closed (update, close).       *)
THEOREM ReleasesFence == Spec => []ReleaseFences
<1>1. GateInv => ReleaseFences
  <2> SUFFICES ASSUME GateInv, Forwards
               PROVE  ~closed /\ gate.serial > released /\ edges[gate.serial]
    BY DEF ReleaseFences
  <2> QED BY ForwardsIs, GateTyped DEF GateInv, PressInForce
<1> QED BY <1>1, GateInvariant, PTL

(* An expiry that was observed keeps the gate shut until a release.        *)
THEOREM ExpiryHolds == Spec => []ExpiryNeedsRelease
<1>1. GateInv => ExpiryNeedsRelease
  <2> SUFFICES ASSUME GateInv, expired, Forwards PROVE FALSE
    BY DEF ExpiryNeedsRelease
  <2> QED BY ForwardsIs DEF GateInv, PressInForce, Remembered
<1> QED BY <1>1, GateInvariant, PTL

(* A press talks for a burst at most, and for a lease after its last       *)
(* renewal, but for the skew of the clock readings (update_at, allows_at). *)
THEOREM TalkBound == Spec => []TalkIsBounded
<1>1. GateInv => TalkIsBounded
  <2> SUFFICES ASSUME GateInv, Forwards
               PROVE  now < opened + Burst + Skew /\ now < renewed + Lease + Skew
    BY DEF TalkIsBounded
  <2>1. TypeOK
    BY DEF GateInv
  <2>2. gate.began <= opened /\ gate.until <= renewed + Lease
    BY <2>1, ForwardsIs DEF GateInv, PressInForce, LeaseKept
  <2>3. now - Skew < gate.until /\ now - Skew - gate.began < Burst
    BY <2>1, ForwardsIs
  <2>4. now \in Int /\ Skew \in Int /\ Burst \in Int /\ Lease \in Int
    BY <2>1, GateTyped, GateAssumption
  <2>5. gate.began \in Int /\ gate.until \in Int /\ opened \in Int /\ renewed \in Int
    BY <2>1, GateTyped, GateAssumption DEF Never
  <2> QED BY <2>2, <2>3, <2>4, <2>5
<1> QED BY <1>1, GateInvariant, PTL

-----------------------------------------------------------------------------
(*                         The path of a frame                             *)
-----------------------------------------------------------------------------
(* A set of natural numbers has a least element. *)
LEMMA LeastNatural ==
    ASSUME NEW T \in SUBSET Nat, T # {}
    PROVE  \E m \in T : \A n \in T : m <= n
<1> DEFINE R == {ss \in Nat \X Nat : ss[1] < ss[2]}
<1>1. OpToRel(<, Nat) = R
  BY DEF OpToRel
<1>2. IsWellFoundedOn(R, Nat)
  BY <1>1, NatLessThanWellFounded, Zenon
<1>3. \E x \in T : \A y \in T : <<y, x>> \notin R
  <2> HIDE DEF R
  <2> QED BY <1>2, WFMin
<1>4. PICK m \in T : \A y \in T : <<y, m>> \notin R
  BY <1>3
<1>5. \A n \in T : <<n, m>> \in R <=> n < m
  OBVIOUS
<1> HIDE DEF R
<1>6. \A n \in T : ~(n < m)
  BY <1>4, <1>5
<1> QED BY <1>6

(* Induction over the natural numbers, on a set: what it holds for is S. *)
LEMMA Induction ==
    ASSUME NEW S, 0 \in S, \A n \in Nat : n \in S => n + 1 \in S
    PROVE  Nat \subseteq S
<1> DEFINE T == Nat \ S
<1>1. SUFFICES ASSUME T # {} PROVE FALSE
  OBVIOUS
<1>2. PICK m \in T : \A n \in T : m <= n
  BY <1>1, LeastNatural
<1>3. m # 0
  OBVIOUS
<1>4. m - 1 \in Nat /\ m - 1 \notin T
  BY <1>2, <1>3
<1>5. m - 1 + 1 \in S
  BY <1>4
<1> QED BY <1>5, <1>2

-----------------------------------------------------------------------------
Buffers == [policy : Policies, queue : Seq(Item), pushed : Nat, popped : Nat,
            dropped : Nat, underruns : 0 .. MaxUnderruns, last : Nat]

(* Every item arrived after the one before it and after the last one that  *)
(* was popped, and under DropOldest the items are the latest arrivals.     *)
Ordered(queue, pushed, last, policy) ==
    \A i \in 1 .. Len(queue) :
        /\ last < queue[i].at /\ queue[i].at <= pushed
        /\ \A k \in 1 .. Len(queue) : k < i => queue[k].at < queue[i].at
        /\ policy = "DropOldest" => queue[i].at = pushed - Len(queue) + i

BufferOK(j) ==
    /\ j \in Buffers
    /\ Len(j.queue) <= Capacity
    /\ j.pushed = j.dropped + Len(j.queue) + j.popped
    /\ j.last <= j.pushed
    /\ Ordered(j.queue, j.pushed, j.last, j.policy)

-----------------------------------------------------------------------------
(* The stream after each frame of a packet, as an equation. *)
LEMMA AcceptedUpToIs ==
    ASSUME NEW packet, Len(packet) \in Nat
    PROVE  AcceptedUpTo(packet) =
             [i \in 0 .. Len(packet) |->
                IF i = 0 THEN Stream ELSE Accepted(AcceptedUpTo(packet)[i - 1], packet[i])]
<1> DEFINE G(k, g) ==
             g = [i \in 0 .. k |-> IF i = 0 THEN Stream ELSE Accepted(g[i - 1], packet[i])]
           S == {k \in Nat : \E g : G(k, g)}
<1>1. 0 \in S
  <2>1. G(0, [i \in 0 .. 0 |-> Stream])
    OBVIOUS
  <2> QED BY <2>1
<1>2. ASSUME NEW k \in Nat, k \in S PROVE k + 1 \in S
  <2>1. PICK g : G(k, g)
    BY <1>2
  <2> DEFINE h == [i \in 0 .. k + 1 |-> IF i <= k THEN g[i] ELSE Accepted(g[k], packet[k + 1])]
  <2>2. G(k + 1, h)
    <3>1. \A i \in 0 .. k : g[i] = IF i = 0 THEN Stream ELSE Accepted(g[i - 1], packet[i])
      BY <2>1
    <3>2. \A i \in 0 .. k : h[i] = g[i]
      OBVIOUS
    <3>3. h[k + 1] = Accepted(g[k], packet[k + 1])
      OBVIOUS
    <3>4. ASSUME NEW i \in 0 .. k + 1
          PROVE  h[i] = IF i = 0 THEN Stream ELSE Accepted(h[i - 1], packet[i])
      <4>1. CASE i = k + 1
        <5>1. h[k] = g[k]
          BY <3>2
        <5>2. i # 0 /\ i - 1 = k
          BY <4>1
        <5> HIDE DEF h
        <5> QED BY <4>1, <3>3, <5>1, <5>2
      <4>2. CASE i \in 0 .. k
        <5>1. i # 0 => i - 1 \in 0 .. k
          BY <4>2
        <5> HIDE DEF h
        <5> QED BY <4>2, <3>1, <3>2, <5>1
      <4> QED BY <4>1, <4>2
    <3>5. h = [i \in 0 .. k + 1 |-> h[i]]
      OBVIOUS
    <3> HIDE DEF h
    <3> QED BY <3>4, <3>5
  <2>3. k + 1 \in Nat
    OBVIOUS
  <2> HIDE DEF h, G
  <2> QED BY <2>2, <2>3
<1>3. Len(packet) \in S
  <2> HIDE DEF S
  <2> QED BY <1>1, <1>2, Induction
<1>4. \E g : G(Len(packet), g)
  BY <1>3
<1> QED BY <1>4 DEF AcceptedUpTo

LEMMA ArrivalsOf ==
    ASSUME NEW queue \in Seq(Item)
    PROVE  \A i \in 1 .. Len(queue) : queue[i] \in Item /\ queue[i].at \in Nat
<1>1. \A item \in Item : item.at \in Nat
  BY DEF Item
<1>2. \A i \in 1 .. Len(queue) : queue[i] \in Item
  OBVIOUS
<1> QED BY <1>1, <1>2

LEMMA OrderedAppend ==
    ASSUME NEW queue \in Seq(Item), NEW item \in Item, NEW pushed \in Nat, NEW last \in Nat,
           NEW policy, Ordered(queue, pushed, last, policy),
           last <= pushed, item.at = pushed + 1
    PROVE  Ordered(Append(queue, item), pushed + 1, last, policy)
<1> DEFINE r == Append(queue, item)
           n == Len(queue)
<1>1. /\ n \in Nat /\ Len(r) = n + 1 /\ r[n + 1] = item
      /\ \A i \in 1 .. n : r[i] = queue[i] /\ queue[i].at \in Nat
  BY ArrivalsOf
<1>2. \A i \in 1 .. n :
         /\ last < queue[i].at /\ queue[i].at <= pushed
         /\ \A k \in 1 .. n : k < i => queue[k].at < queue[i].at
         /\ policy = "DropOldest" => queue[i].at = pushed - n + i
  BY DEF Ordered
<1> HIDE DEF r, n
<1>3. ASSUME NEW i \in 1 .. n + 1
      PROVE  /\ last < r[i].at /\ r[i].at <= pushed + 1
             /\ \A k \in 1 .. n + 1 : k < i => r[k].at < r[i].at
             /\ policy = "DropOldest" => r[i].at = (pushed + 1) - (n + 1) + i
  <2>1. CASE i = n + 1
    <3>1. r[i].at = pushed + 1 /\ n + 1 \in Nat
      BY <1>1, <2>1
    <3>2. ASSUME NEW k \in 1 .. n + 1, k < i PROVE r[k].at < r[i].at
      <4>1. k \in 1 .. n
        BY <1>1, <2>1, <3>2
      <4>2. r[k].at <= pushed /\ r[k].at \in Nat
        BY <1>1, <1>2, <4>1
      <4> QED BY <3>1, <4>2
    <3> QED BY <1>1, <2>1, <3>1, <3>2
  <2>2. CASE i \in 1 .. n
    <3>1. r[i] = queue[i] /\ queue[i].at \in Nat /\ queue[i].at <= pushed
      BY <1>1, <1>2, <2>2
    <3>2. ASSUME NEW k \in 1 .. n + 1, k < i PROVE r[k].at < r[i].at
      <4>1. k \in 1 .. n
        BY <1>1, <2>2, <3>2
      <4> QED BY <1>1, <1>2, <2>2, <3>1, <3>2, <4>1
    <3>3. policy = "DropOldest" => r[i].at = (pushed + 1) - (n + 1) + i
      <4>1. policy = "DropOldest" => queue[i].at = pushed - n + i
        BY <1>2, <2>2
      <4>2. i \in Nat /\ n \in Nat
        BY <1>1, <2>2
      <4>3. pushed - n + i = (pushed + 1) - (n + 1) + i
        BY <4>2
      <4> QED BY <3>1, <4>1, <4>3
    <3>4. last < r[i].at /\ r[i].at <= pushed + 1
      <4>1. last < queue[i].at
        BY <1>2, <2>2
      <4> QED BY <3>1, <4>1
    <3> QED BY <3>2, <3>3, <3>4
  <2> QED BY <1>1, <2>1, <2>2
<1> QED BY <1>1, <1>3 DEF Ordered, r

LEMMA OrderedTail ==
    ASSUME NEW queue \in Seq(Item), queue # <<>>, NEW pushed \in Nat, NEW last \in Nat,
           NEW policy, Ordered(queue, pushed, last, policy),
           NEW from \in Nat, from <= queue[1].at
    PROVE  Ordered(Tail(queue), pushed, from, policy)
<1> DEFINE r == Tail(queue)
           n == Len(queue)
<1>1. /\ n \in Nat /\ n # 0 /\ Len(r) = n - 1
      /\ \A i \in 1 .. n - 1 : r[i] = queue[i + 1]
      /\ \A i \in 1 .. n : queue[i].at \in Nat
  BY ArrivalsOf
<1>2. \A i \in 1 .. n :
         /\ last < queue[i].at /\ queue[i].at <= pushed
         /\ \A k \in 1 .. n : k < i => queue[k].at < queue[i].at
         /\ policy = "DropOldest" => queue[i].at = pushed - n + i
  BY DEF Ordered
<1> HIDE DEF r, n
<1>3. ASSUME NEW i \in 1 .. n - 1
      PROVE  /\ from < r[i].at /\ r[i].at <= pushed
             /\ \A k \in 1 .. n - 1 : k < i => r[k].at < r[i].at
             /\ policy = "DropOldest" => r[i].at = pushed - (n - 1) + i
  <2>1. i + 1 \in 1 .. n /\ 1 \in 1 .. n /\ 1 < i + 1 /\ r[i] = queue[i + 1]
    BY <1>1
  <2>2. /\ queue[1].at < queue[i + 1].at /\ queue[i + 1].at <= pushed
        /\ policy = "DropOldest" => queue[i + 1].at = pushed - n + (i + 1)
    BY <1>2, <2>1
  <2>3. from < queue[i + 1].at
    BY <1>1, <2>1, <2>2
  <2>4. ASSUME NEW k \in 1 .. n - 1, k < i PROVE r[k].at < r[i].at
    <3>1. k + 1 \in 1 .. n /\ k + 1 < i + 1 /\ r[k] = queue[k + 1]
      BY <1>1, <2>4
    <3> QED BY <1>2, <2>1, <3>1
  <2>5. policy = "DropOldest" => r[i].at = pushed - (n - 1) + i
    BY <1>1, <2>1, <2>2
  <2> QED BY <2>1, <2>2, <2>3, <2>4, <2>5
<1> QED BY <1>1, <1>3 DEF Ordered, r

Record(policy, queue, pushed, popped, dropped, underruns, last) ==
    [policy |-> policy, queue |-> queue, pushed |-> pushed, popped |-> popped,
     dropped |-> dropped, underruns |-> underruns, last |-> last]

LEMMA BufferRecord ==
    ASSUME NEW j \in Buffers
    PROVE  /\ j = Record(j.policy, j.queue, j.pushed, j.popped, j.dropped, j.underruns, j.last)
           /\ j.policy \in Policies /\ j.queue \in Seq(Item) /\ j.pushed \in Nat
           /\ j.popped \in Nat /\ j.dropped \in Nat /\ j.underruns \in 0 .. MaxUnderruns
           /\ j.last \in Nat
BY DEF Buffers, Record

LEMMA BuffersHold ==
    ASSUME NEW policy \in Policies, NEW queue \in Seq(Item), NEW pushed \in Nat,
           NEW popped \in Nat, NEW dropped \in Nat, NEW underruns \in 0 .. MaxUnderruns,
           NEW last \in Nat
    PROVE  Record(policy, queue, pushed, popped, dropped, underruns, last) \in Buffers
BY DEF Record, Buffers

LEMMA PushIs ==
    ASSUME NEW policy, NEW queue, NEW pushed, NEW popped, NEW dropped, NEW underruns,
           NEW last, NEW frame
    PROVE  Push(Record(policy, queue, pushed, popped, dropped, underruns, last), frame) =
             LET item == [frame |-> frame, at |-> pushed + 1]
             IN  IF Len(queue) < Capacity
                 THEN Record(policy, Append(queue, item), pushed + 1, popped, dropped,
                             underruns, last)
                 ELSE IF policy = "DropNewest"
                 THEN Record(policy, queue, pushed + 1, popped, dropped + 1, underruns, last)
                 ELSE Record(policy, Append(Tail(queue), item), pushed + 1, popped,
                             dropped + 1, underruns, last)
<1> DEFINE j == Record(policy, queue, pushed, popped, dropped, underruns, last)
           item == [frame |-> frame, at |-> pushed + 1]
           c == Record(policy, queue, pushed + 1, popped, dropped, underruns, last)
<1>1. j.queue = queue /\ j.pushed = pushed /\ j.policy = policy
  BY DEF Record
<1>2. [j EXCEPT !.pushed = @ + 1] = c
  BY SMTT(30) DEF Record
<1>3. [c EXCEPT !.queue = Append(@, item)] =
        Record(policy, Append(queue, item), pushed + 1, popped, dropped, underruns, last)
  BY SMTT(30) DEF Record
<1>4. [c EXCEPT !.dropped = @ + 1] =
        Record(policy, queue, pushed + 1, popped, dropped + 1, underruns, last)
  BY SMTT(30) DEF Record
<1>5. [c EXCEPT !.dropped = @ + 1, !.queue = Append(Tail(@), item)] =
        Record(policy, Append(Tail(queue), item), pushed + 1, popped, dropped + 1,
               underruns, last)
  <2> DEFINE d == Record(policy, queue, pushed + 1, popped, dropped + 1, underruns, last)
  <2>1. [c EXCEPT !.dropped = @ + 1, !.queue = Append(Tail(@), item)] =
          [d EXCEPT !.queue = Append(Tail(@), item)]
    BY <1>4
  <2>2. d.queue = queue
    BY DEF Record
  <2>3. \A new : [d EXCEPT !.queue = new] =
          Record(policy, new, pushed + 1, popped, dropped + 1, underruns, last)
    BY DEF Record
  <2> HIDE DEF d
  <2> QED BY <2>1, <2>2, <2>3
<1>6. Push(j, frame) =
        IF Len(queue) < Capacity THEN [c EXCEPT !.queue = Append(@, item)]
        ELSE IF policy = "DropNewest" THEN [c EXCEPT !.dropped = @ + 1]
        ELSE [c EXCEPT !.dropped = @ + 1, !.queue = Append(Tail(@), item)]
  <2> HIDE DEF c, j
  <2> QED BY <1>1, <1>2 DEF Push
<1> QED BY <1>3, <1>4, <1>5, <1>6

LEMMA BufferFields ==
    ASSUME NEW j, BufferOK(j)
    PROVE  /\ j.queue \in Seq(Item) /\ Len(j.queue) \in Nat /\ Len(j.queue) <= Capacity
           /\ j.pushed \in Nat /\ j.popped \in Nat /\ j.dropped \in Nat /\ j.last \in Nat
           /\ j.pushed = j.dropped + Len(j.queue) + j.popped
           /\ j.last <= j.pushed
           /\ Ordered(j.queue, j.pushed, j.last, j.policy)
BY DEF BufferOK, Buffers

(* A frame pushed is held, or counted as dropped in its own place or in    *)
(* that of the oldest; the rest stays in the order of arrival.             *)
LEMMA PushKeeps ==
    ASSUME NEW j, BufferOK(j), NEW frame \in Frame
    PROVE  /\ BufferOK(Push(j, frame))
           /\ Push(j, frame).pushed = j.pushed + 1
           /\ Push(j, frame).popped = j.popped
<1> DEFINE item == [frame |-> frame, at |-> j.pushed + 1]
           b == Push(j, frame)
           n == Len(j.queue)
<1>1. /\ b = Push(Record(j.policy, j.queue, j.pushed, j.popped, j.dropped, j.underruns,
                         j.last), frame)
      /\ j.policy \in Policies /\ j.underruns \in 0 .. MaxUnderruns
  BY BufferRecord DEF BufferOK
<1>2. /\ j.queue \in Seq(Item) /\ n = Len(j.queue)
      /\ Ordered(j.queue, j.pushed, j.last, j.policy)
  BY BufferFields
<1>3. /\ j.pushed \in Nat /\ j.popped \in Nat /\ j.dropped \in Nat /\ j.last \in Nat
      /\ n \in Nat /\ n <= Capacity
      /\ j.pushed = j.dropped + n + j.popped /\ j.last <= j.pushed
  BY BufferFields
<1>4. item \in Item /\ item.at = j.pushed + 1
  BY <1>3 DEF Item
<1>5. Capacity \in Nat /\ Capacity # 0
  BY PathAssumption
<1> DEFINE queued == Append(j.queue, item)
           shifted == Append(Tail(j.queue), item)
<1>6. /\ n < Capacity =>
            b = Record(j.policy, queued, j.pushed + 1, j.popped, j.dropped, j.underruns, j.last)
      /\ (~(n < Capacity) /\ j.policy = "DropNewest") =>
            b = Record(j.policy, j.queue, j.pushed + 1, j.popped, j.dropped + 1, j.underruns,
                       j.last)
      /\ (~(n < Capacity) /\ j.policy # "DropNewest") =>
            b = Record(j.policy, shifted, j.pushed + 1, j.popped, j.dropped + 1, j.underruns,
                       j.last)
  BY <1>1, PushIs
<1>7. /\ queued \in Seq(Item) /\ Len(queued) = n + 1
      /\ Ordered(queued, j.pushed + 1, j.last, j.policy)
  <2>1. queued \in Seq(Item) /\ Len(queued) = n + 1
    BY <1>2, <1>4
  <2> HIDE DEF item
  <2> QED BY <1>2, <1>3, <1>4, <2>1, OrderedAppend
<1>8. j.policy = "DropNewest" => Ordered(j.queue, j.pushed + 1, j.last, j.policy)
  <2>1. \A i \in 1 .. Len(j.queue) : j.queue[i].at \in Nat
    BY <1>2, ArrivalsOf
  <2> QED BY <1>2, <1>3, <2>1 DEF Ordered
<1>9. ~(n < Capacity) => /\ shifted \in Seq(Item) /\ Len(shifted) = n
                         /\ Ordered(shifted, j.pushed + 1, j.last, j.policy)
  <2>1. SUFFICES ASSUME ~(n < Capacity)
                 PROVE  /\ shifted \in Seq(Item) /\ Len(shifted) = n
                        /\ Ordered(shifted, j.pushed + 1, j.last, j.policy)
    OBVIOUS
  <2>2. j.queue # <<>>
    BY <1>2, <1>3, <1>5, <2>1
  <2>3. Tail(j.queue) \in Seq(Item) /\ Len(Tail(j.queue)) = n - 1
    BY <1>2, <2>2
  <2>4. shifted \in Seq(Item) /\ Len(shifted) = n
    <3> HIDE DEF item, n
    <3> QED BY <1>3, <1>4, <2>3
  <2>5. j.last <= j.queue[1].at
    <3>1. j.queue[1].at \in Nat /\ 1 \in 1 .. Len(j.queue)
      BY <1>2, <2>2, ArrivalsOf
    <3> QED BY <1>2, <1>3, <3>1 DEF Ordered
  <2>6. Ordered(Tail(j.queue), j.pushed, j.last, j.policy)
    BY <1>2, <1>3, <2>2, <2>5, OrderedTail
  <2> HIDE DEF item
  <2> QED BY <1>3, <1>4, <2>3, <2>4, <2>6, OrderedAppend
<1> HIDE DEF item, b, n, queued, shifted
<1>10. ASSUME NEW q \in Seq(Item), NEW d \in Nat, Len(q) <= Capacity,
              j.pushed + 1 = d + Len(q) + j.popped,
              Ordered(q, j.pushed + 1, j.last, j.policy),
              b = Record(j.policy, q, j.pushed + 1, j.popped, d, j.underruns, j.last)
       PROVE  BufferOK(b) /\ b.pushed = j.pushed + 1 /\ b.popped = j.popped
  <2>1. /\ b.queue = q /\ b.pushed = j.pushed + 1 /\ b.popped = j.popped /\ b.dropped = d
        /\ b.last = j.last /\ b.policy = j.policy
    BY <1>10 DEF Record
  <2>2. b \in Buffers
    <3>1. j.pushed + 1 \in Nat
      BY <1>3
    <3>2. Record(j.policy, q, j.pushed + 1, j.popped, d, j.underruns, j.last) \in Buffers
      BY <1>1, <1>3, <1>10, <3>1, BuffersHold
    <3> QED BY <1>10, <3>2
  <2>3. b.last <= b.pushed
    BY <1>3, <2>1
  <2> QED BY <1>10, <2>1, <2>2, <2>3 DEF BufferOK
<1>11. CASE n < Capacity
  <2>1. /\ Len(queued) <= Capacity /\ j.pushed + 1 = j.dropped + Len(queued) + j.popped
    <3>1. Len(queued) = n + 1
      BY <1>7
    <3>2. n + 1 <= Capacity /\ j.pushed + 1 = j.dropped + (n + 1) + j.popped
      BY <1>3, <1>5, <1>11, SMTT(30)
    <3> QED BY <3>1, <3>2
  <2> QED BY <1>3, <1>6, <1>7, <1>10, <1>11, <2>1 DEF b
<1>12. CASE ~(n < Capacity) /\ j.policy = "DropNewest"
  <2>1. j.dropped + 1 \in Nat /\ j.pushed + 1 = j.dropped + 1 + n + j.popped
    BY <1>3
  <2> QED BY <1>2, <1>3, <1>6, <1>8, <1>10, <1>12, <2>1 DEF b
<1>13. CASE ~(n < Capacity) /\ j.policy # "DropNewest"
  <2>1. j.dropped + 1 \in Nat /\ j.pushed + 1 = j.dropped + 1 + n + j.popped
    BY <1>3
  <2> QED BY <1>3, <1>6, <1>9, <1>10, <1>13, <2>1 DEF b
<1> QED BY <1>11, <1>12, <1>13

-----------------------------------------------------------------------------
(* A stream whose follower agrees with it, and whose buffer is in order.   *)
StreamOK(s) == s.view = s.codec /\ s.codec \in Kinds \cup {None} /\ BufferOK(s.jitter)

LEMMA AcceptedKeeps ==
    ASSUME NEW s, StreamOK(s), NEW frame \in Frame
    PROVE  /\ StreamOK(Accepted(s, frame))
           /\ Accepted(s, frame).jitter.pushed = s.jitter.pushed + 1
           /\ Accepted(s, frame).jitter.popped = s.jitter.popped
<1> DEFINE kind == KindOf[frame.profile]
           b == Push(s.jitter, frame)
           a == Accepted(s, frame)
<1>1. kind \in Kinds
  BY PathAssumption DEF Frame, Kinds
<1>2. BufferOK(b) /\ b.pushed = s.jitter.pushed + 1 /\ b.popped = s.jitter.popped
  BY PushKeeps DEF StreamOK
<1>3. \A known : Follow(known, [type |-> "CodecChanged", from |-> known, to |-> kind]) = kind
  BY DEF Follow
<1>4. Follow(kind, [type |-> "Frame", kind |-> kind]) = kind
  BY DEF Follow
<1>5. s.view = s.codec
  BY DEF StreamOK
<1> HIDE DEF b
<1>6. a.codec = kind /\ a.view = kind /\ a.jitter = b
  BY <1>3, <1>4, <1>5, Zenon DEF Accepted, b
<1> HIDE DEF a, kind
<1>7. StreamOK(a)
  BY <1>1, <1>2, <1>6 DEF StreamOK
<1> QED BY <1>2, <1>6, <1>7 DEF a

(* A packet, frame by frame. *)
LEMMA PacketAccepted ==
    ASSUME NEW packet \in Seq(Frame), StreamOK(Stream)
    PROVE  /\ StreamOK(AcceptPacket(packet))
           /\ AcceptPacket(packet).jitter.pushed = jitter.pushed + Len(packet)
           /\ AcceptPacket(packet).jitter.popped = jitter.popped
<1> DEFINE n == Len(packet)
           after == AcceptedUpTo(packet)
           Sofar(i) == /\ StreamOK(after[i])
                       /\ after[i].jitter.pushed = jitter.pushed + i
                       /\ after[i].jitter.popped = jitter.popped
           S == {i \in Nat : i <= n => Sofar(i)}
<1>1. n \in Nat /\ \A i \in 1 .. n : packet[i] \in Frame
  OBVIOUS
<1>2. after = [i \in 0 .. n |->
                 IF i = 0 THEN Stream ELSE Accepted(after[i - 1], packet[i])]
  <2> HIDE DEF after
  <2> QED BY <1>1, AcceptedUpToIs DEF after
<1>3. /\ after[0] = Stream
      /\ \A i \in 0 .. n : i + 1 <= n => after[i + 1] = Accepted(after[i], packet[i + 1])
  <2> HIDE DEF after
  <2>1. 0 \in 0 .. n
    BY <1>1
  <2>2. after[0] = Stream
    BY <1>2, <2>1
  <2>3. ASSUME NEW i \in 0 .. n, i + 1 <= n
        PROVE  after[i + 1] = Accepted(after[i], packet[i + 1])
    <3>1. i + 1 \in 0 .. n /\ i + 1 # 0 /\ i + 1 - 1 = i
      BY <1>1, <2>3
    <3> HIDE DEF n
    <3> QED BY <1>2, <3>1
  <2> QED BY <2>2, <2>3
<1> HIDE DEF after
<1>4. jitter.pushed \in Nat /\ Stream.jitter = jitter
  <2>1. Stream.jitter = jitter
    BY DEF Stream
  <2>2. BufferOK(jitter)
    BY <2>1 DEF StreamOK
  <2> QED BY <2>1, <2>2, BufferFields
<1>5. 0 \in S
  <2>1. Sofar(0)
    BY <1>3, <1>4
  <2> QED BY <2>1
<1>6. ASSUME NEW i \in Nat, i \in S PROVE i + 1 \in S
  <2>1. ASSUME i + 1 <= n PROVE Sofar(i + 1)
    <3>1. i \in 0 .. n /\ i + 1 \in 1 .. n /\ i <= n
      BY <1>1, <2>1
    <3>2. Sofar(i)
      BY <1>6, <3>1
    <3>3. after[i + 1] = Accepted(after[i], packet[i + 1]) /\ packet[i + 1] \in Frame
      BY <1>1, <1>3, <2>1, <3>1
    <3>4. /\ StreamOK(after[i + 1])
          /\ after[i + 1].jitter.pushed = after[i].jitter.pushed + 1
          /\ after[i + 1].jitter.popped = after[i].jitter.popped
      BY <3>2, <3>3, AcceptedKeeps
    <3>5. jitter.pushed + i + 1 = jitter.pushed + (i + 1)
      BY <1>4
    <3> HIDE DEF n
    <3> QED BY <3>2, <3>4, <3>5
  <2> HIDE DEF Sofar
  <2> QED BY <2>1
<1>7. n \in S
  <2> HIDE DEF S
  <2> QED BY <1>1, <1>5, <1>6, Induction
<1>8. Sofar(n)
  <2> HIDE DEF Sofar
  <2> QED BY <1>1, <1>7
<1> QED BY <1>8 DEF AcceptPacket, after

-----------------------------------------------------------------------------
(* Counting the frames of a set of packets *)

LEMMA PlacesOf ==
    ASSUME NEW packet \in Seq(Frame)
    PROVE  /\ Places({packet}) = {packet} \X (1 .. Len(packet))
           /\ IsFiniteSet(Places({packet}))
           /\ Cardinality(Places({packet})) = Len(packet)
<1> DEFINE n == Len(packet)
<1>1. n \in Nat /\ DOMAIN packet = 1 .. n
  OBVIOUS
<1>2. Places({packet}) = {packet} \X (1 .. n)
  BY <1>1 DEF Places
<1>3. IsFiniteSet(1 .. n) /\ Cardinality(1 .. n) = n
  BY <1>1, FS_Interval
<1>4. IsFiniteSet({packet}) /\ Cardinality({packet}) = 1
  BY FS_Singleton
<1>5. /\ IsFiniteSet({packet} \X (1 .. n))
      /\ Cardinality({packet} \X (1 .. n)) = 1 * n
  <2> DEFINE I == 1 .. n
             P == {packet}
  <2> HIDE DEF I, P
  <2>1. /\ IsFiniteSet(P \X I)
        /\ Cardinality(P \X I) = Cardinality(P) * Cardinality(I)
    BY <1>3, <1>4, FS_Product DEF I, P
  <2>2. Cardinality(P) = 1 /\ Cardinality(I) = n
    BY <1>3, <1>4 DEF I, P
  <2> QED BY <2>1, <2>2 DEF I, P
<1> HIDE DEF n
<1>6. 1 * n = n
  BY <1>1
<1> QED BY <1>2, <1>5, <1>6 DEF n

LEMMA PlacesFinite ==
    ASSUME NEW packets, packets \subseteq Seq(Frame), IsFiniteSet(packets)
    PROVE  IsFiniteSet(Places(packets)) /\ Cardinality(Places(packets)) \in Nat
<1> DEFINE cover == {{packet} \X DOMAIN packet : packet \in packets}
<1>1. IsFiniteSet(cover)
  <2> DEFINE f == [packet \in packets |-> {packet} \X DOMAIN packet]
  <2>1. f \in Surjection(packets, cover)
    BY DEF Surjection
  <2> HIDE DEF f
  <2> QED BY <2>1, FS_Surjection
<1>2. \A T \in cover : IsFiniteSet(T)
  <2> SUFFICES ASSUME NEW packet \in packets PROVE IsFiniteSet({packet} \X DOMAIN packet)
    OBVIOUS
  <2>1. DOMAIN packet = 1 .. Len(packet)
    OBVIOUS
  <2> QED BY <2>1, PlacesOf
<1>3. IsFiniteSet(UNION cover)
  <2> HIDE DEF cover
  <2> QED BY <1>1, <1>2, FS_UNION
<1> QED BY <1>3, FS_CardinalityType DEF Places

(* A packet that leaves takes its frames. *)
LEMMA PlacesWithout ==
    ASSUME NEW packets, packets \subseteq Seq(Frame), IsFiniteSet(packets),
           NEW packet \in packets
    PROVE  Cardinality(Places(packets)) =
               Cardinality(Places(packets \ {packet})) + Len(packet)
<1>1. packet \in Seq(Frame)
  OBVIOUS
<1>2. IsFiniteSet(packets \ {packet})
  BY FS_RemoveElement
<1>3. /\ Places(packets) = Places(packets \ {packet}) \cup Places({packet})
      /\ Places(packets \ {packet}) \cap Places({packet}) = {}
  BY DEF Places
<1>4. IsFiniteSet(Places(packets \ {packet}))
  BY <1>2, PlacesFinite
<1> DEFINE A == Places(packets \ {packet})
           B == Places({packet})
<1>5. IsFiniteSet(B) /\ Cardinality(B) = Len(packet)
  BY <1>1, PlacesOf
<1> HIDE DEF A, B
<1>6. Cardinality(A \cup B) = Cardinality(A) + Cardinality(B) - Cardinality(A \cap B)
  BY <1>4, <1>5, FS_Union DEF A
<1>7. Cardinality(A \cap B) = 0
  BY <1>3, FS_EmptySet DEF A, B
<1>8. Cardinality(A) \in Nat /\ Cardinality(B) \in Nat
  BY <1>4, <1>5, FS_CardinalityType DEF A
<1>9. Cardinality(A \cup B) = Cardinality(A) + Cardinality(B)
  BY <1>6, <1>7, <1>8
<1> QED BY <1>3, <1>5, <1>9 DEF A, B

(* Packets that join bring theirs. *)
LEMMA PlacesTogether ==
    ASSUME NEW packets, packets \subseteq Seq(Frame), IsFiniteSet(packets),
           NEW others, others \subseteq Seq(Frame), IsFiniteSet(others),
           packets \cap others = {}
    PROVE  Cardinality(Places(packets \cup others)) =
               Cardinality(Places(packets)) + Cardinality(Places(others))
<1>1. /\ Places(packets \cup others) = Places(packets) \cup Places(others)
      /\ Places(packets) \cap Places(others) = {}
  BY DEF Places
<1> DEFINE A == Places(packets)
           B == Places(others)
<1>2. /\ IsFiniteSet(A) /\ Cardinality(A) \in Nat
      /\ IsFiniteSet(B) /\ Cardinality(B) \in Nat
  BY PlacesFinite
<1> HIDE DEF A, B
<1>3. Cardinality(A \cup B) = Cardinality(A) + Cardinality(B) - Cardinality(A \cap B)
  BY <1>2, FS_Union
<1>4. Cardinality(A \cap B) = 0
  BY <1>1, FS_EmptySet DEF A, B
<1>5. Cardinality(A \cup B) = Cardinality(A) + Cardinality(B)
  BY <1>2, <1>3, <1>4
<1> QED BY <1>1, <1>5 DEF A, B

-----------------------------------------------------------------------------
(* Cutting a batch into packets *)

Chunks(n) == (n + Batch - 1) \div Batch

(* A frame of a batch has one place in one packet.                         *)
LEMMA InsidePacket ==
    ASSUME NEW i \in Nat, NEW k \in Nat, NEW m \in 1 .. Batch, NEW l \in 1 .. Batch,
           (i - 1) * Batch + m = (k - 1) * Batch + l, i # 0, k # 0
    PROVE  i = k /\ m = l
<1>1. Batch \in Nat /\ Batch # 0
  BY PathAssumption
<1>2. ASSUME NEW a \in Nat, NEW b \in Nat, a < b PROVE b * Batch >= a * Batch + Batch
  <2>1. PICK d \in Nat : b = a + 1 + d
    <3>1. b - a - 1 \in Nat /\ b = a + 1 + (b - a - 1)
      BY <1>2
    <3> QED BY <3>1
  <2>2. (a + 1 + d) * Batch = a * Batch + Batch + d * Batch
    BY <1>1, SMTT(30)
  <2>3. d * Batch \in Nat /\ a * Batch \in Nat
    BY <1>1
  <2> QED BY <1>1, <2>1, <2>2, <2>3
<1>3. i - 1 \in Nat /\ k - 1 \in Nat
  OBVIOUS
<1>4. (i - 1) * Batch \in Nat /\ (k - 1) * Batch \in Nat
  BY <1>1, <1>3
<1>5. ~(i - 1 < k - 1)
  BY <1>1, <1>2, <1>3, <1>4
<1>6. ~(k - 1 < i - 1)
  BY <1>1, <1>2, <1>3, <1>4
<1>7. i = k
  BY <1>3, <1>5, <1>6
<1> QED BY <1>1, <1>4, <1>7

(* Packet i begins where i - 1 full packets end, and is not empty.         *)
LEMMA PacketIs ==
    ASSUME NEW frames \in Seq(Frame), NEW i \in 1 .. Chunks(Len(frames))
    PROVE  LET start == (i - 1) * Batch IN
           /\ start \in Nat /\ start < Len(frames)
           /\ Packet(frames, i) \in Seq(Frame)
           /\ Packet(frames, i) # <<>>
           /\ Len(Packet(frames, i)) <= Batch
           /\ Len(Packet(frames, i)) =
                 (IF i * Batch < Len(frames) THEN i * Batch ELSE Len(frames)) - start
           /\ \A m \in 1 .. Len(Packet(frames, i)) :
                 /\ start + m \in 1 .. Len(frames)
                 /\ Packet(frames, i)[m] = frames[start + m]
<1> DEFINE n == Len(frames)
           start == (i - 1) * Batch
           end == IF i * Batch < n THEN i * Batch ELSE n
           packet == Packet(frames, i)
<1>1. Batch \in Nat /\ Batch # 0 /\ n \in Nat
  BY PathAssumption
<1>2. Chunks(n) \in Nat /\ Chunks(n) * Batch < n + Batch
  BY <1>1, SMTT(30) DEF Chunks
<1>3. i \in Nat /\ i - 1 \in Nat /\ i <= Chunks(n)
  BY <1>2
<1>4. i * Batch <= Chunks(n) * Batch
  BY <1>1, <1>2, <1>3, SMTT(30)
<1>5. i * Batch = start + Batch /\ start \in Nat /\ i * Batch \in Nat
  BY <1>1, <1>3, SMTT(30)
<1>6. start < n
  <2>1. Chunks(n) * Batch \in Nat
    BY <1>1, <1>2
  <2> HIDE DEF n, start
  <2> QED BY <1>1, <1>2, <1>4, <1>5, <2>1
<1>7. /\ end \in Nat /\ start + 1 <= end /\ end <= n /\ end <= start + Batch
      /\ start + 1 \in Nat
  <2> HIDE DEF n, start
  <2> QED BY <1>1, <1>5, <1>6
<1>8. packet = SubSeq(frames, start + 1, end)
  BY DEF Packet
<1> HIDE DEF start, end, packet
<1>9. /\ packet \in Seq(Frame)
      /\ Len(packet) = end - start
      /\ \A m \in 1 .. end - start : packet[m] = frames[start + m]
  <2>1. /\ packet \in Seq(Frame)
        /\ Len(packet) = end - (start + 1) + 1
        /\ \A m \in 1 .. end - (start + 1) + 1 : packet[m] = frames[start + 1 + m - 1]
    <3>1. start + 1 \in 1 .. n + 1 /\ end \in start .. n
      BY <1>1, <1>5, <1>7
    <3> QED BY <1>5, <1>7, <1>8, <3>1, SubSeqProperties
  <2>2. end - (start + 1) + 1 = end - start
    BY <1>5, <1>7
  <2>3. \A m \in Nat : start + 1 + m - 1 = start + m
    BY <1>5
  <2>4. \A m \in 1 .. end - start : m \in Nat
    OBVIOUS
  <2> QED BY <2>1, <2>2, <2>3, <2>4
<1>10. packet # <<>>
  BY <1>5, <1>7, <1>9
<1>11. Len(packet) <= Batch
  BY <1>1, <1>5, <1>7, <1>9
<1>12. \A m \in 1 .. end - start : start + m \in 1 .. n
  BY <1>1, <1>5, <1>7
<1> QED BY <1>5, <1>6, <1>9, <1>10, <1>11, <1>12 DEF start, end, packet

(* Every frame of a batch is in some packet.                               *)
LEMMA InSomePacket ==
    ASSUME NEW frames \in Seq(Frame), NEW x \in 1 .. Len(frames)
    PROVE  \E i \in 1 .. Chunks(Len(frames)) :
               \E m \in 1 .. Len(Packet(frames, i)) : x = (i - 1) * Batch + m
<1> DEFINE n == Len(frames)
           T == {i \in Nat : x <= i * Batch}
<1>1. Batch \in Nat /\ Batch # 0 /\ n \in Nat /\ x \in Nat /\ x <= n /\ x # 0
  BY PathAssumption
<1>2. Chunks(n) \in Nat /\ n <= Chunks(n) * Batch /\ Chunks(n) * Batch \in Nat
  BY <1>1, SMTT(30) DEF Chunks
<1>3. Chunks(n) \in T
  <2> HIDE DEF n
  <2> QED BY <1>1, <1>2
<1>4. PICK i \in T : \A k \in T : i <= k
  <2> HIDE DEF T
  <2>1. T \subseteq Nat
    BY DEF T
  <2> QED BY <1>3, <2>1, LeastNatural
<1>5. i \in Nat /\ x <= i * Batch /\ i <= Chunks(n)
  BY <1>3, <1>4
<1>6. i # 0
  BY <1>1, <1>5
<1>7. i - 1 \in Nat /\ i \in 1 .. Chunks(n)
  BY <1>2, <1>5, <1>6
<1>8. ~(x <= (i - 1) * Batch) /\ (i - 1) * Batch \in Nat
  <2>1. i - 1 \notin T
    BY <1>4, <1>5, <1>7
  <2> QED BY <1>1, <1>7, <2>1
<1> DEFINE m == x - (i - 1) * Batch
<1>9. Len(Packet(frames, i)) = (IF i * Batch < n THEN i * Batch ELSE n) - (i - 1) * Batch
  BY <1>7, PacketIs
<1>10. i * Batch \in Nat
  BY <1>1, <1>5
<1> HIDE DEF n, T
<1>11. m \in 1 .. Len(Packet(frames, i)) /\ x = (i - 1) * Batch + m
  BY <1>1, <1>5, <1>8, <1>9, <1>10
<1> HIDE DEF m
<1> QED BY <1>7, <1>11 DEF n

(* The packets of a batch hold the frames of the batch, each once.         *)
LEMMA PacketizeIs ==
    ASSUME NEW frames \in Seq(Frame), NEW base \in Nat,
           \A i \in 1 .. Len(frames) : frames[i].serial = base + i
    PROVE  /\ Packetize(frames) \subseteq Seq(Frame)
           /\ IsFiniteSet(Packetize(frames))
           /\ \A packet \in Packetize(frames) :
                 /\ packet # <<>>
                 /\ \A m \in 1 .. Len(packet) :
                       /\ packet[m].serial > base
                       /\ packet[m].serial <= base + Len(frames)
           /\ Cardinality(Places(Packetize(frames))) = Len(frames)
<1> DEFINE n == Len(frames)
           packets == Packetize(frames)
           At(i, m) == (i - 1) * Batch + m
<1>1. n \in Nat /\ Batch \in Nat /\ Batch # 0 /\ Chunks(n) \in Nat
  <2>1. n \in Nat /\ Batch \in Nat /\ Batch # 0
    BY PathAssumption
  <2> HIDE DEF n
  <2> QED BY <2>1, SMTT(30) DEF Chunks
<1>2. packets = {Packet(frames, i) : i \in 1 .. Chunks(n)}
  BY DEF Packetize, Chunks
<1>3. ASSUME NEW i \in 1 .. Chunks(n)
      PROVE  /\ Packet(frames, i) \in Seq(Frame) /\ Packet(frames, i) # <<>>
             /\ Len(Packet(frames, i)) <= Batch
             /\ \A m \in 1 .. Len(Packet(frames, i)) :
                   /\ m \in 1 .. Batch
                   /\ At(i, m) \in 1 .. n
                   /\ Packet(frames, i)[m].serial = base + At(i, m)
  <2>1. /\ Packet(frames, i) \in Seq(Frame) /\ Packet(frames, i) # <<>>
        /\ Len(Packet(frames, i)) <= Batch
        /\ \A m \in 1 .. Len(Packet(frames, i)) :
               At(i, m) \in 1 .. n /\ Packet(frames, i)[m] = frames[At(i, m)]
    BY PacketIs
  <2>2. Len(Packet(frames, i)) \in Nat
    BY <2>1
  <2>3. \A m \in 1 .. Len(Packet(frames, i)) : m \in 1 .. Batch
    BY <1>1, <2>1, <2>2
  <2> HIDE DEF n, At
  <2> QED BY <2>1, <2>3 DEF n
<1>4. packets \subseteq Seq(Frame)
  BY <1>2, <1>3
<1>5. IsFiniteSet(packets)
  <2> DEFINE f == [i \in 1 .. Chunks(n) |-> Packet(frames, i)]
  <2>1. f \in Surjection(1 .. Chunks(n), packets)
    BY <1>2 DEF Surjection
  <2>2. IsFiniteSet(1 .. Chunks(n))
    BY <1>1, FS_Interval
  <2> HIDE DEF f, packets, n
  <2> QED BY <2>1, <2>2, FS_Surjection
<1>6. ASSUME NEW packet \in packets
      PROVE  /\ packet # <<>>
             /\ \A m \in 1 .. Len(packet) :
                   packet[m].serial > base /\ packet[m].serial <= base + n
  <2>1. PICK i \in 1 .. Chunks(n) : packet = Packet(frames, i)
    BY <1>2
  <2>2. ASSUME NEW m \in 1 .. Len(packet)
        PROVE  packet[m].serial > base /\ packet[m].serial <= base + n
    <3>1. At(i, m) \in 1 .. n /\ packet[m].serial = base + At(i, m)
      BY <1>3, <2>1, <2>2
    <3> HIDE DEF n, At
    <3> QED BY <1>1, <3>1
  <2> QED BY <1>3, <2>1, <2>2
<1> DEFINE places == Places(packets)
           f == [s \in places |-> s[1][s[2]].serial - base]
<1>7. ASSUME NEW s \in places
      PROVE  \E i \in 1 .. Chunks(n) : \E m \in 1 .. Batch :
                /\ s = <<Packet(frames, i), m>>
                /\ At(i, m) \in 1 .. n /\ f[s] = At(i, m)
  <2>1. PICK packet \in packets : s \in {packet} \X DOMAIN packet
    BY DEF Places
  <2>2. PICK i \in 1 .. Chunks(n) : packet = Packet(frames, i)
    BY <1>2
  <2>3. packet \in Seq(Frame) /\ DOMAIN packet = 1 .. Len(packet)
    BY <1>3, <2>2
  <2>4. PICK m \in 1 .. Len(packet) : s = <<packet, m>>
    BY <2>1, <2>3
  <2>5. m \in 1 .. Batch /\ At(i, m) \in 1 .. n /\ packet[m].serial = base + At(i, m)
    BY <1>3, <2>2, <2>4
  <2>6. s[1] = packet /\ s[2] = m
    BY <2>4
  <2>7. f[s] = packet[m].serial - base
    BY <2>6
  <2>8. At(i, m) \in Nat
    BY <2>5
  <2> HIDE DEF f, At, n, packets, places
  <2>9. f[s] = At(i, m)
    BY <2>5, <2>7, <2>8
  <2> QED BY <2>2, <2>4, <2>5, <2>9
<1>8. ASSUME NEW x \in 1 .. n PROVE \E s \in places : f[s] = x
  <2>1. PICK i \in 1 .. Chunks(n) : \E m \in 1 .. Len(Packet(frames, i)) : x = At(i, m)
    BY InSomePacket
  <2>2. PICK m \in 1 .. Len(Packet(frames, i)) : x = At(i, m)
    BY <2>1
  <2> DEFINE packet == Packet(frames, i)
             s == <<packet, m>>
  <2>3. packet \in packets /\ packet \in Seq(Frame) /\ DOMAIN packet = 1 .. Len(packet)
    BY <1>2, <1>3
  <2>4. packet[m].serial = base + At(i, m)
    BY <1>3
  <2>5. s \in places
    <3> HIDE DEF packet, packets
    <3>1. s \in {packet} \X DOMAIN packet
      BY <2>2, <2>3 DEF packet
    <3> QED BY <2>3, <3>1 DEF Places
  <2>6. f[s] = packet[m].serial - base
    BY <2>5
  <2>7. x \in Nat
    BY <1>1
  <2> HIDE DEF f, At, n, packets, places, packet, s
  <2>8. f[s] = x
    BY <2>2, <2>4, <2>6, <2>7
  <2> QED BY <2>5, <2>8
<1>9. f \in Bijection(places, 1 .. n)
  <2>1. \A s \in places : f[s] \in 1 .. n
    BY <1>7
  <2>2. ASSUME NEW s \in places, NEW t \in places, f[s] = f[t] PROVE s = t
    <3>1. PICK i \in 1 .. Chunks(n), m \in 1 .. Batch :
            s = <<Packet(frames, i), m>> /\ f[s] = At(i, m)
      BY <1>7
    <3>2. PICK k \in 1 .. Chunks(n), l \in 1 .. Batch :
            t = <<Packet(frames, k), l>> /\ f[t] = At(k, l)
      BY <1>7
    <3>3. i \in Nat /\ i # 0 /\ k \in Nat /\ k # 0
      BY <1>1
    <3>4. At(i, m) = At(k, l)
      BY <2>2, <3>1, <3>2
    <3> HIDE DEF f
    <3>5. i = k /\ m = l
      BY <3>3, <3>4, InsidePacket
    <3> QED BY <3>1, <3>2, <3>5
  <2>3. f = [s \in places |-> f[s]]
    OBVIOUS
  <2> HIDE DEF f, places, n, At
  <2>4. f \in [places -> 1 .. n]
    BY <2>1, <2>3
  <2> QED BY <1>8, <2>2, <2>4 DEF Bijection, Injection, Surjection, IsInjective
<1>10. IsFiniteSet(places)
  BY <1>4, <1>5, PlacesFinite
<1>11. Cardinality(places) = n
  <2>1. ExistsBijection(places, 1 .. n)
    <3> HIDE DEF f, places, n
    <3> QED BY <1>9 DEF ExistsBijection
  <2>2. Cardinality(1 .. n) = n
    <3> HIDE DEF n
    <3> QED BY <1>1, FS_Interval
  <2> HIDE DEF places, n
  <2> QED BY <1>10, <2>1, <2>2, FS_Bijection
<1> QED BY <1>4, <1>5, <1>6, <1>11

-----------------------------------------------------------------------------
(* The inductive invariant *)

CodecOK(c) ==
    /\ c \in CodecState
    /\ ~c.failed => c.fed = Parts[c.profile] * c.whole

(* The frames of a batch are the latest; those under way came before.      *)
Serials ==
    /\ Len(batch) <= captured
    /\ \A i \in 1 .. Len(batch) : batch[i].serial = captured - Len(batch) + i
    /\ \A packet \in flight :
          /\ packet # <<>>
          /\ \A i \in 1 .. Len(packet) : packet[i].serial <= captured - Len(batch)

Sending ==
    /\ captured \in 0 .. MaxFrames /\ batch \in Seq(Frame) /\ active \in BOOLEAN
    /\ flight \subseteq Seq(Frame) /\ IsFiniteSet(flight)
    /\ Serials

PathInvariant ==
    /\ CodecOK(encoder) /\ CodecOK(decoder)
    /\ Sending
    /\ StreamOK(Stream)
    /\ fate \in [Fates -> Nat]
    /\ EachFrameOnce

(* The invariant is as strong as what the run checks.                      *)
LEMMA PathPromises == PathInvariant => FrameLedger /\ CodecsInStep
<1> SUFFICES ASSUME PathInvariant PROVE FrameLedger /\ CodecsInStep
  OBVIOUS
<1>1. /\ view = codec /\ codec \in Kinds \cup {None} /\ BufferOK(jitter)
  BY DEF PathInvariant, StreamOK, Stream
<1>2. PathTypeOK
  <2>1. jitter \in [policy : Policies, queue : Seq(Item), pushed : Nat, popped : Nat,
                   dropped : Nat, underruns : 0 .. MaxUnderruns, last : Nat]
    BY <1>1 DEF BufferOK, Buffers
  <2>2. Len(jitter.queue) <= Capacity
    BY <1>1 DEF BufferOK
  <2>3. encoder \in CodecState /\ decoder \in CodecState
    BY DEF PathInvariant, CodecOK
  <2>4. /\ captured \in 0 .. MaxFrames /\ batch \in Seq(Frame) /\ active \in BOOLEAN
        /\ flight \subseteq Seq(Frame) /\ fate \in [Fates -> Nat]
    BY DEF PathInvariant, Sending
  <2>5. {codec, view} \subseteq Kinds \cup {None}
    BY <1>1
  <2> QED BY <2>1, <2>2, <2>3, <2>4, <2>5, Zenon DEF PathTypeOK
<1>3. ArrivalOrder
  <2>1. /\ jitter.queue \in Seq(Item) /\ jitter.last \in Nat
        /\ Ordered(jitter.queue, jitter.pushed, jitter.last, jitter.policy)
    BY <1>1, BufferFields
  <2>2. DOMAIN jitter.queue = 1 .. Len(jitter.queue) /\ Len(jitter.queue) \in Nat
    BY <2>1
  <2>3. \A i \in 1 .. Len(jitter.queue) : jitter.queue[i].at \in Nat
    BY <2>1, ArrivalsOf
  <2>4. ASSUME NEW i \in 1 .. Len(jitter.queue)
        PROVE  /\ jitter.queue[i].at > IF i = 1 THEN jitter.last ELSE jitter.queue[i - 1].at
               /\ jitter.policy = "DropOldest" =>
                     jitter.queue[i].at = jitter.pushed - Len(jitter.queue) + i
    <3>1. i # 1 => i - 1 \in 1 .. Len(jitter.queue) /\ i - 1 < i
      BY <2>2
    <3>2. i # 1 => jitter.queue[i - 1].at < jitter.queue[i].at
      BY <2>1, <3>1 DEF Ordered
    <3>3. /\ jitter.last < jitter.queue[i].at
          /\ jitter.policy = "DropOldest" =>
                jitter.queue[i].at = jitter.pushed - Len(jitter.queue) + i
      BY <2>1 DEF Ordered
    <3> QED BY <2>1, <2>3, <3>1, <3>2, <3>3
  <2> QED BY <2>2, <2>4 DEF ArrivalOrder
<1>4. CodecsInStep
  BY <1>1 DEF CodecsInStep, WholePackets, CodecAnnounced, PathInvariant, CodecOK
<1> QED BY <1>2, <1>3, <1>4 DEF FrameLedger, PathInvariant

LEMMA NewCodec ==
    ASSUME NEW p \in Profiles
    PROVE  CodecOK(Codec(p))
<1>1. Codec(p) \in CodecState
  BY DEF Codec, CodecState
<1>2. \A n \in Nat : n * 0 = 0
  OBVIOUS
<1>3. Parts[p] \in Nat
  BY PathAssumption
<1> QED BY <1>1, <1>2, <1>3 DEF CodecOK, Codec

LEMMA MadeIs ==
    ASSUME NEW p, NEW fed, NEW whole, NEW failed
    PROVE  Made([profile |-> p, fed |-> fed, whole |-> whole, failed |-> failed]) =
             [profile |-> p, fed |-> fed + Parts[p], whole |-> whole + 1, failed |-> failed]
<1> DEFINE e == [profile |-> p, fed |-> fed, whole |-> whole, failed |-> failed]
           g(new) == [profile |-> p, fed |-> new, whole |-> whole, failed |-> failed]
<1>1. e.fed = fed /\ e.profile = p
  OBVIOUS
<1>2. \A new : [e EXCEPT !.fed = new] = g(new)
  OBVIOUS
<1>3. \A new : [g(new) EXCEPT !.whole = @ + 1] =
                 [profile |-> p, fed |-> new, whole |-> whole + 1, failed |-> failed]
  OBVIOUS
<1>4. Made(e) = [[e EXCEPT !.fed = fed + Parts[p]] EXCEPT !.whole = @ + 1]
  <2> HIDE DEF e
  <2> QED BY <1>1 DEF Made
<1> HIDE DEF g
<1> QED BY <1>2, <1>3, <1>4

LEMMA CodecUsed ==
    ASSUME NEW c, CodecOK(c), ~c.failed
    PROVE  /\ CodecOK(Made(c)) /\ Made(c).profile = c.profile
           /\ \A k \in 1 .. Parts[c.profile] : CodecOK(FailedAt(c, k))
<1>1. /\ c \in CodecState /\ c.profile \in Profiles /\ c.fed \in Nat /\ c.whole \in Nat
      /\ c.failed = FALSE
  BY DEF CodecOK, CodecState
<1>2. Parts[c.profile] \in Nat
  BY <1>1, PathAssumption
<1>3. c = [profile |-> c.profile, fed |-> c.fed, whole |-> c.whole, failed |-> FALSE]
  BY <1>1 DEF CodecState
<1>4. CodecOK(Made(c)) /\ Made(c).profile = c.profile
  <2> DEFINE d == [profile |-> c.profile, fed |-> c.fed + Parts[c.profile],
                   whole |-> c.whole + 1, failed |-> FALSE]
  <2>1. Made(c) = d
    <3> HIDE DEF d
    <3> QED BY <1>1, <1>3, MadeIs DEF d
  <2>2. d \in CodecState
    BY <1>1, <1>2 DEF CodecState
  <2>3. \A a \in Nat, w \in Nat : a * w + a = a * (w + 1)
    OBVIOUS
  <2>4. c.fed = Parts[c.profile] * c.whole
    BY <1>1 DEF CodecOK
  <2>5. d.fed = Parts[d.profile] * d.whole
    BY <1>1, <1>2, <2>3, <2>4
  <2> HIDE DEF d
  <2>6. CodecOK(d)
    BY <2>2, <2>5 DEF CodecOK
  <2> QED BY <2>1, <2>6 DEF d
<1>5. ASSUME NEW k \in 1 .. Parts[c.profile] PROVE CodecOK(FailedAt(c, k))
  <2>1. CASE KindOf[c.profile] = "Codec2"
    <3> DEFINE d == [profile |-> c.profile, fed |-> c.fed + k, whole |-> c.whole,
                     failed |-> TRUE]
    <3>1. FailedAt(c, k) = d
      BY <1>3, <2>1 DEF FailedAt
    <3>2. k \in Nat
      BY <1>2
    <3>3. d \in CodecState /\ d.failed
      BY <1>1, <3>2 DEF CodecState
    <3> QED BY <3>1, <3>3 DEF CodecOK
  <2>2. CASE KindOf[c.profile] # "Codec2"
    BY <2>2 DEF FailedAt
  <2> QED BY <2>1, <2>2
<1> QED BY <1>4, <1>5

-----------------------------------------------------------------------------
(* The steps *)

LEMMA PathStarts == PathInit => PathInvariant
<1> SUFFICES ASSUME PathInit PROVE PathInvariant
  OBVIOUS
<1>1. CodecOK(encoder) /\ CodecOK(decoder)
  BY NewCodec DEF PathInit
<1>2. Sending
  <2>1. IsFiniteSet(flight)
    BY FS_EmptySet DEF PathInit
  <2> QED BY <2>1, PathAssumption DEF PathInit, Sending, Serials
<1>3. BufferOK(jitter) /\ jitter.pushed = 0 /\ jitter.dropped = 0 /\ jitter.popped = 0
      /\ jitter.queue = <<>>
  <2>1. PICK policy \in Policies : jitter = NewJitter(policy)
    BY DEF PathInit
  <2>2. jitter \in Buffers
    BY <2>1, PathAssumption DEF NewJitter, Buffers
  <2>3. /\ jitter.queue = <<>> /\ jitter.pushed = 0 /\ jitter.dropped = 0 /\ jitter.popped = 0
        /\ jitter.last = 0
    BY <2>1 DEF NewJitter
  <2> QED BY <2>2, <2>3, PathAssumption DEF BufferOK, Ordered
<1>4. StreamOK(Stream)
  BY <1>3 DEF PathInit, StreamOK, Stream
<1>5. fate \in [Fates -> Nat] /\ \A f \in Fates : fate[f] = 0
  BY DEF PathInit
<1>6. EachFrameOnce
  <2>1. UnderWay = 0
    BY FS_EmptySet DEF PathInit, UnderWay, Places
  <2>2. captured = 0 /\ Len(batch) = 0
    BY DEF PathInit
  <2> QED BY <1>3, <1>5, <2>1, <2>2 DEF EachFrameOnce, Fates
<1> QED BY <1>1, <1>2, <1>4, <1>5, <1>6 DEF PathInvariant

(* What the parts of the invariant are made of, for the steps below.       *)
LEMMA Counting ==
    ASSUME PathInvariant
    PROVE  /\ captured \in Nat /\ Len(batch) \in Nat /\ Len(batch) <= captured
           /\ UnderWay \in Nat
           /\ \A f \in Fates : fate[f] \in Nat
           /\ jitter.pushed \in Nat /\ jitter.dropped \in Nat /\ jitter.popped \in Nat
           /\ Len(jitter.queue) \in Nat
<1>1. BufferOK(jitter)
  BY DEF PathInvariant, StreamOK, Stream
<1>2. UnderWay \in Nat
  BY PlacesFinite DEF PathInvariant, Sending, UnderWay
<1>3. captured \in Nat /\ Len(batch) \in Nat /\ Len(batch) <= captured
  BY PathAssumption DEF PathInvariant, Sending, Serials
<1> QED BY <1>1, <1>2, <1>3, BufferFields DEF PathInvariant

LEMMA Ended ==
    ASSUME fate \in [Fates -> Nat], NEW f \in Fates, NEW n \in Nat, Ends(f, n)
    PROVE  /\ fate' \in [Fates -> Nat] /\ fate'[f] = fate[f] + n
           /\ \A g \in Fates : g # f => fate'[g] = fate[g]
BY DEF Ends

(* Steps of the encoder alone, of the decoder alone, and of the link.      *)
LEMMA CodecSteps ==
    ASSUME PathInvariant,
           \/ UNCHANGED <<captured, batch, active, flight, receiver, fate>> /\ CodecOK(encoder')
           \/ UNCHANGED <<sender, flight, codec, view, jitter, fate>> /\ CodecOK(decoder')
           \/ LinkChanges
    PROVE  PathInvariant'
<1>1. /\ UNCHANGED <<captured, batch, flight, codec, view, jitter, fate>>
      /\ CodecOK(encoder') /\ CodecOK(decoder') /\ active' \in BOOLEAN
  BY DEF PathInvariant, Sending, sender, receiver, LinkChanges
<1>2. Sending'
  BY <1>1 DEF PathInvariant, Sending, Serials
<1>3. StreamOK(Stream)'
  <2>1. Stream' = Stream
    BY <1>1 DEF Stream
  <2> QED BY <2>1 DEF PathInvariant, StreamOK, BufferOK
<1>4. EachFrameOnce'
  BY <1>1 DEF PathInvariant, EachFrameOnce, UnderWay, Places
<1> QED BY <1>1, <1>2, <1>3, <1>4 DEF PathInvariant

LEMMA EncodeKeeps ==
    ASSUME PathInvariant, Encode
    PROVE  PathInvariant'
<1>1. CodecOK(encoder) /\ ~encoder.failed /\ encoder.profile \in Profiles
  BY DEF PathInvariant, Encode, CodecOK, CodecState
<1>2. CASE UNCHANGED <<captured, batch>>
  <2>1. PICK k \in 1 .. Parts[encoder.profile] : encoder' = FailedAt(encoder, k)
    <3>1. captured + 1 # captured
      BY Counting
    <3> QED BY <1>2, <3>1 DEF Encode
  <2>2. CodecOK(encoder')
    BY <1>1, <2>1, CodecUsed
  <2> QED BY <1>2, <2>2, CodecSteps DEF Encode
<1>3. CASE ~UNCHANGED <<captured, batch>>
  <2> DEFINE frame == [serial |-> captured + 1, profile |-> encoder.profile]
  <2>1. /\ encoder' = Made(encoder) /\ captured' = captured + 1 /\ captured < MaxFrames
        /\ batch' = Append(batch, frame)
        /\ UNCHANGED <<active, flight, receiver, fate>>
    BY <1>3 DEF Encode
  <2>2. captured \in Nat /\ MaxFrames \in Nat /\ Len(batch) \in Nat /\ batch \in Seq(Frame)
    BY Counting, PathAssumption DEF PathInvariant, Sending
  <2>3. frame \in Frame /\ frame.serial = captured + 1
    BY <1>1, <2>1, <2>2 DEF Frame
  <2> HIDE DEF frame
  <2>4. /\ batch' \in Seq(Frame) /\ Len(batch') = Len(batch) + 1
        /\ batch'[Len(batch) + 1] = frame
        /\ \A i \in 1 .. Len(batch) : batch'[i] = batch[i]
    BY <2>1, <2>2, <2>3
  <2>5. Serials'
    <3>1. /\ Len(batch) <= captured
          /\ \A i \in 1 .. Len(batch) : batch[i].serial = captured - Len(batch) + i
          /\ \A packet \in flight :
                /\ packet # <<>>
                /\ \A i \in 1 .. Len(packet) : packet[i].serial <= captured - Len(batch)
      BY DEF PathInvariant, Sending, Serials
    <3>2. captured' - Len(batch') = captured - Len(batch) /\ Len(batch') <= captured'
      BY <2>1, <2>2, <2>4, <3>1
    <3>3. ASSUME NEW i \in 1 .. Len(batch')
          PROVE  batch'[i].serial = captured' - Len(batch') + i
      <4>1. CASE i = Len(batch) + 1
        BY <2>2, <2>3, <2>4, <3>2, <4>1
      <4>2. CASE i \in 1 .. Len(batch)
        BY <2>4, <3>1, <3>2, <4>2
      <4> QED BY <2>2, <2>4, <4>1, <4>2
    <3> QED BY <2>1, <3>1, <3>2, <3>3 DEF Serials
  <2>6. Sending'
    BY <2>1, <2>2, <2>4, <2>5 DEF PathInvariant, Sending
  <2>7. EachFrameOnce'
    <3>1. UnderWay' = UnderWay /\ fate' = fate /\ jitter' = jitter
      BY <2>1 DEF UnderWay, Places, receiver
    <3>2. UnderWay \in Nat /\ fate["rejected"] \in Nat /\ fate["lost"] \in Nat
          /\ jitter.pushed \in Nat
      BY Counting DEF Fates
    <3>3. captured' = captured + 1 /\ Len(batch') = Len(batch) + 1
      BY <2>1, <2>4
    <3>4. captured = Len(batch) + fate["rejected"] + fate["lost"] + UnderWay + jitter.pushed
      BY DEF PathInvariant, EachFrameOnce
    <3>5. captured' = Len(batch') + fate["rejected"] + fate["lost"] + UnderWay + jitter.pushed
      <4>1. captured + 1 =
              (Len(batch) + 1) + fate["rejected"] + fate["lost"] + UnderWay + jitter.pushed
        <5>1. captured \in Nat /\ Len(batch) \in Nat
          BY <2>2
        <5> DEFINE other == fate["rejected"] + fate["lost"] + UnderWay + jitter.pushed
        <5>2. other \in Nat
          BY <3>2
        <5>3. captured = Len(batch) + other
          BY <3>2, <3>4, <5>1
        <5>4. (Len(batch) + 1) + fate["rejected"] + fate["lost"] + UnderWay + jitter.pushed =
                (Len(batch) + 1) + other
          BY <3>2, <5>1
        <5> HIDE DEF other
        <5>5. captured + 1 = (Len(batch) + 1) + other
          BY <5>1, <5>2, <5>3
        <5> QED BY <5>4, <5>5
      <4> QED BY <3>3, <4>1
    <3> QED BY <3>1, <3>5 DEF PathInvariant, EachFrameOnce
  <2>8. StreamOK(Stream)'
    <3>1. Stream' = Stream
      BY <2>1 DEF Stream, receiver
    <3> QED BY <3>1 DEF PathInvariant, StreamOK, BufferOK
  <2>9. CodecOK(encoder') /\ CodecOK(decoder') /\ fate' = fate
    <3>1. decoder' = decoder
      BY <2>1 DEF receiver
    <3> QED BY <1>1, <2>1, <3>1, CodecUsed DEF PathInvariant
  <2> QED BY <2>6, <2>7, <2>8, <2>9 DEF PathInvariant
<1> QED BY <1>2, <1>3

(* A batch that is sent is cut into packets that are new to the network;   *)
(* one that is not takes all of its frames with it.                        *)
LEMMA SendBatchKeeps ==
    ASSUME PathInvariant, SendBatch
    PROVE  PathInvariant'
<1> DEFINE packets == Packetize(batch)
           base == captured - Len(batch)
<1>1. /\ captured \in Nat /\ Len(batch) \in Nat /\ Len(batch) <= captured
      /\ batch \in Seq(Frame)
      /\ UnderWay \in Nat /\ fate["rejected"] \in Nat /\ fate["lost"] \in Nat
      /\ jitter.pushed \in Nat
  BY Counting DEF Fates, PathInvariant, Sending
<1>2. /\ batch' = <<>> /\ Len(batch') = 0
      /\ UNCHANGED <<encoder, captured, active, codec, view, jitter, decoder>>
  BY DEF SendBatch, receiver
<1>3. captured = Len(batch) + fate["rejected"] + fate["lost"] + UnderWay + jitter.pushed
  BY DEF PathInvariant, EachFrameOnce
<1>4. /\ \A i \in 1 .. Len(batch) : batch[i].serial = base + i
      /\ \A packet \in flight :
            /\ packet # <<>>
            /\ \A i \in 1 .. Len(packet) : packet[i].serial <= base
      /\ flight \subseteq Seq(Frame) /\ IsFiniteSet(flight)
  BY DEF PathInvariant, Sending, Serials
<1>5. base \in Nat
  BY <1>1
<1>6. /\ packets \subseteq Seq(Frame) /\ IsFiniteSet(packets)
      /\ \A packet \in packets :
            /\ packet # <<>>
            /\ \A m \in 1 .. Len(packet) :
                  packet[m].serial > base /\ packet[m].serial <= base + Len(batch)
      /\ Cardinality(Places(packets)) = Len(batch)
  <2> HIDE DEF base
  <2> QED BY <1>1, <1>4, <1>5, PacketizeIs
<1>7. base + Len(batch) = captured /\ base <= captured
  BY <1>1
<1>8. \A packet \in Seq(Frame) : \A m \in 1 .. Len(packet) : packet[m].serial \in Nat
  <2>1. \A frame \in Frame : frame.serial \in Nat
    BY DEF Frame
  <2>2. \A packet \in Seq(Frame) : \A m \in 1 .. Len(packet) : packet[m] \in Frame
    OBVIOUS
  <2> QED BY <2>1, <2>2
<1>9. captured' - Len(batch') = captured /\ Len(batch') <= captured'
  BY <1>1, <1>2
<1> HIDE DEF packets, base
<1>10. CASE flight' = flight \cup packets /\ UNCHANGED fate
  <2>1. packets \cap flight = {}
    <3> SUFFICES ASSUME NEW packet \in packets, packet \in flight PROVE FALSE
      OBVIOUS
    <3>1. packet \in Seq(Frame) /\ packet # <<>>
      BY <1>6
    <3>2. 1 \in 1 .. Len(packet)
      BY <3>1
    <3>3. /\ packet[1].serial > base /\ packet[1].serial <= base
          /\ packet[1].serial \in Nat
      BY <1>4, <1>6, <1>8, <3>1, <3>2
    <3> QED BY <1>5, <3>3
  <2>2. UnderWay' = UnderWay + Len(batch)
    <3>1. flight \cap packets = {}
      BY <2>1
    <3>2. Cardinality(Places(flight \cup packets)) =
            Cardinality(Places(flight)) + Cardinality(Places(packets))
      BY <1>4, <1>6, <3>1, PlacesTogether
    <3> QED BY <1>6, <1>10, <3>2 DEF UnderWay, Places
  <2>3. ASSUME NEW packet \in flight'
        PROVE  /\ packet # <<>>
               /\ \A i \in 1 .. Len(packet) : packet[i].serial <= captured
    <3>1. CASE packet \in packets
      BY <1>6, <1>7, <3>1
    <3>2. CASE packet \in flight
      <4>1. ASSUME NEW i \in 1 .. Len(packet) PROVE packet[i].serial <= captured
        <5>1. packet[i].serial <= base /\ packet[i].serial \in Nat
          BY <1>4, <1>8, <3>2
        <5> QED BY <1>1, <1>5, <1>7, <5>1
      <4> QED BY <1>4, <3>2, <4>1
    <3> QED BY <1>10, <3>1, <3>2
  <2>4. Serials'
    BY <1>2, <1>9, <2>3 DEF Serials
  <2>5. IsFiniteSet(flight') /\ flight' \subseteq Seq(Frame)
    BY <1>4, <1>6, <1>10, FS_Union
  <2>6. Sending'
    BY <1>2, <2>4, <2>5 DEF PathInvariant, Sending
  <2>7. EachFrameOnce'
    <3>1. captured = 0 + fate["rejected"] + fate["lost"] + (UnderWay + Len(batch))
                       + jitter.pushed
      BY <1>1, <1>3
    <3> QED BY <1>2, <1>10, <2>2, <3>1 DEF PathInvariant, EachFrameOnce
  <2>8. StreamOK(Stream)'
    <3>1. Stream' = Stream
      BY <1>2 DEF Stream
    <3> QED BY <3>1 DEF PathInvariant, StreamOK, BufferOK
  <2> QED BY <1>2, <1>10, <2>6, <2>7, <2>8 DEF PathInvariant
<1>11. CASE flight' = flight /\ Ends("rejected", Len(batch))
  <2>1. /\ fate' \in [Fates -> Nat] /\ fate'["rejected"] = fate["rejected"] + Len(batch)
        /\ fate'["lost"] = fate["lost"] /\ fate'["played"] = fate["played"]
        /\ fate'["refused"] = fate["refused"]
    <3>1. fate \in [Fates -> Nat] /\ "rejected" \in Fates
      BY DEF PathInvariant, Fates
    <3> QED BY <1>1, <1>11, <3>1, Ended DEF Fates
  <2>2. Serials'
    <3> SUFFICES ASSUME NEW packet \in flight, NEW i \in 1 .. Len(packet)
                 PROVE  packet[i].serial <= captured
      BY <1>2, <1>4, <1>9, <1>11 DEF Serials
    <3>1. packet[i].serial <= base /\ packet[i].serial \in Nat
      BY <1>4, <1>8
    <3> QED BY <1>1, <1>5, <1>7, <3>1
  <2>3. Sending'
    BY <1>2, <1>11, <2>2 DEF PathInvariant, Sending
  <2>4. EachFrameOnce'
    <3>1. captured = 0 + (fate["rejected"] + Len(batch)) + fate["lost"] + UnderWay
                       + jitter.pushed
      BY <1>1, <1>3
    <3>2. UnderWay' = UnderWay
      BY <1>11 DEF UnderWay, Places
    <3> QED BY <1>2, <2>1, <3>1, <3>2 DEF PathInvariant, EachFrameOnce
  <2>5. StreamOK(Stream)'
    <3>1. Stream' = Stream
      BY <1>2 DEF Stream
    <3> QED BY <3>1 DEF PathInvariant, StreamOK, BufferOK
  <2> QED BY <1>2, <2>1, <2>3, <2>4, <2>5 DEF PathInvariant
<1> QED BY <1>10, <1>11 DEF SendBatch, packets

(* What is left under way when a packet leaves it.                         *)
LEMMA PacketLeaves ==
    ASSUME PathInvariant, NEW packet \in flight, flight' = flight \ {packet},
           UNCHANGED <<captured, batch, active>>
    PROVE  /\ Sending' /\ packet \in Seq(Frame) /\ Len(packet) \in Nat
           /\ UnderWay' \in Nat /\ UnderWay = UnderWay' + Len(packet)
<1>1. flight \subseteq Seq(Frame) /\ IsFiniteSet(flight)
  BY DEF PathInvariant, Sending
<1>2. IsFiniteSet(flight') /\ flight' \subseteq Seq(Frame)
  BY <1>1, FS_RemoveElement
<1>3. Sending'
  BY <1>2 DEF PathInvariant, Sending, Serials
<1>4. Cardinality(Places(flight)) = Cardinality(Places(flight \ {packet})) + Len(packet)
  BY <1>1, PlacesWithout
<1>5. UnderWay = UnderWay' + Len(packet)
  BY <1>4 DEF UnderWay, Places
<1>6. UnderWay' \in Nat
  <2>1. Cardinality(Places(flight')) \in Nat
    BY <1>2, PlacesFinite
  <2> QED BY <2>1 DEF UnderWay, Places
<1> QED BY <1>1, <1>3, <1>5, <1>6

LEMMA LoseKeeps ==
    ASSUME PathInvariant, NEW packet \in flight, Lose(packet)
    PROVE  PathInvariant'
<1>1. /\ flight' = flight \ {packet} /\ Ends("lost", Len(packet))
      /\ UNCHANGED <<encoder, captured, batch, active, codec, view, jitter, decoder>>
  BY DEF Lose, sender, receiver
<1>2. /\ Sending' /\ Len(packet) \in Nat /\ UnderWay' \in Nat
      /\ UnderWay = UnderWay' + Len(packet)
  BY <1>1, PacketLeaves
<1>3. /\ fate' \in [Fates -> Nat] /\ fate'["lost"] = fate["lost"] + Len(packet)
      /\ fate'["rejected"] = fate["rejected"] /\ fate'["played"] = fate["played"]
      /\ fate'["refused"] = fate["refused"]
  <2>1. fate \in [Fates -> Nat] /\ "lost" \in Fates
    BY DEF PathInvariant, Fates
  <2> QED BY <1>1, <1>2, <2>1, Ended DEF Fates
<1>4. EachFrameOnce'
  <2>1. /\ fate["rejected"] \in Nat /\ fate["lost"] \in Nat /\ jitter.pushed \in Nat
        /\ Len(batch) \in Nat
    BY Counting DEF Fates
  <2>2. captured = Len(batch) + fate["rejected"] + fate["lost"] + UnderWay + jitter.pushed
    BY DEF PathInvariant, EachFrameOnce
  <2>3. captured = Len(batch) + fate["rejected"] + (fate["lost"] + Len(packet)) + UnderWay'
                     + jitter.pushed
    BY <1>2, <2>1, <2>2
  <2> QED BY <1>1, <1>3, <2>3 DEF PathInvariant, EachFrameOnce
<1>5. StreamOK(Stream)'
  <2>1. Stream' = Stream
    BY <1>1 DEF Stream
  <2> QED BY <2>1 DEF PathInvariant, StreamOK, BufferOK
<1> QED BY <1>1, <1>2, <1>3, <1>4, <1>5 DEF PathInvariant

LEMMA DeliverKeeps ==
    ASSUME PathInvariant, NEW packet \in flight, Deliver(packet)
    PROVE  PathInvariant'
<1> DEFINE s == AcceptPacket(packet)
<1>1. /\ flight' = flight \ {packet}
      /\ codec' = s.codec /\ view' = s.view /\ jitter' = s.jitter
      /\ UNCHANGED <<encoder, captured, batch, active, decoder, fate>>
  BY DEF Deliver, sender
<1>2. /\ Sending' /\ packet \in Seq(Frame) /\ Len(packet) \in Nat /\ UnderWay' \in Nat
      /\ UnderWay = UnderWay' + Len(packet)
  BY <1>1, PacketLeaves
<1>3. /\ StreamOK(s) /\ s.jitter.pushed = jitter.pushed + Len(packet)
      /\ s.jitter.popped = jitter.popped
  BY <1>2, PacketAccepted DEF PathInvariant
<1> HIDE DEF s
<1>4. /\ view' = codec' /\ codec' \in Kinds \cup {None} /\ BufferOK(jitter')
      /\ jitter'.pushed = jitter.pushed + Len(packet) /\ jitter'.popped = jitter.popped
  BY <1>1, <1>3 DEF StreamOK
<1>5. StreamOK(Stream)'
  BY <1>4 DEF StreamOK, Stream, BufferOK
<1>6. EachFrameOnce'
  <2>1. /\ fate["rejected"] \in Nat /\ fate["lost"] \in Nat /\ jitter.pushed \in Nat
        /\ Len(batch) \in Nat
    BY Counting DEF Fates
  <2>2. captured = Len(batch) + fate["rejected"] + fate["lost"] + UnderWay + jitter.pushed
    BY DEF PathInvariant, EachFrameOnce
  <2>3. captured = Len(batch) + fate["rejected"] + fate["lost"] + UnderWay'
                     + (jitter.pushed + Len(packet))
    BY <1>2, <2>1, <2>2
  <2>4. jitter'.pushed = jitter'.dropped + Len(jitter'.queue) + jitter'.popped
    BY <1>4, BufferFields
  <2>5. jitter'.popped = fate["played"] + fate["refused"]
    BY <1>4 DEF PathInvariant, EachFrameOnce
  <2> QED BY <1>1, <1>4, <2>3, <2>4, <2>5 DEF EachFrameOnce
<1> QED BY <1>1, <1>2, <1>5, <1>6 DEF PathInvariant

(* The buffer at a pop: the item that leaves becomes the last.             *)
Popped(j) ==
    [j EXCEPT !.queue = Tail(@), !.popped = @ + 1, !.last = Head(j.queue).at]

LEMMA PoppedIs ==
    ASSUME NEW policy, NEW queue, NEW pushed, NEW popped, NEW dropped, NEW underruns, NEW last
    PROVE  Popped(Record(policy, queue, pushed, popped, dropped, underruns, last)) =
             Record(policy, Tail(queue), pushed, popped + 1, dropped, underruns, Head(queue).at)
<1> DEFINE j == Record(policy, queue, pushed, popped, dropped, underruns, last)
           g(q) == Record(policy, q, pushed, popped, dropped, underruns, last)
           h(q) == Record(policy, q, pushed, popped + 1, dropped, underruns, last)
<1>1. j.queue = queue
  BY DEF Record
<1>2. \A q : [j EXCEPT !.queue = q] = g(q)
  BY DEF Record
<1>3. \A q : [g(q) EXCEPT !.popped = @ + 1] = h(q)
  BY DEF Record
<1>4. \A q, l : [h(q) EXCEPT !.last = l] =
                  Record(policy, q, pushed, popped + 1, dropped, underruns, l)
  BY DEF Record
<1>5. Popped(j) = [[[j EXCEPT !.queue = Tail(queue)] EXCEPT !.popped = @ + 1]
                     EXCEPT !.last = Head(queue).at]
  <2> HIDE DEF j
  <2> QED BY <1>1 DEF Popped
<1> HIDE DEF g, h
<1> QED BY <1>2, <1>3, <1>4, <1>5

LEMMA PopKeeps ==
    ASSUME NEW j, BufferOK(j), j.queue # <<>>
    PROVE  BufferOK(Popped(j)) /\ Popped(j).pushed = j.pushed
           /\ Popped(j).popped = j.popped + 1
<1>1. /\ j.queue \in Seq(Item) /\ Len(j.queue) \in Nat /\ Len(j.queue) <= Capacity
      /\ Ordered(j.queue, j.pushed, j.last, j.policy)
  BY BufferFields
<1>2. /\ j.pushed \in Nat /\ j.popped \in Nat /\ j.dropped \in Nat /\ j.last \in Nat
      /\ j.pushed = j.dropped + Len(j.queue) + j.popped
      /\ j.policy \in Policies /\ j.underruns \in 0 .. MaxUnderruns
  BY BufferFields, BufferRecord DEF BufferOK
<1> DEFINE first == j.queue[1].at
           rest == Tail(j.queue)
<1>3. /\ Head(j.queue).at = first /\ first \in Nat /\ first <= j.pushed
      /\ 1 \in 1 .. Len(j.queue)
  <2>1. 1 \in 1 .. Len(j.queue) /\ Head(j.queue) = j.queue[1]
    BY <1>1
  <2>2. first \in Nat
    BY <1>1, <2>1, ArrivalsOf
  <2> QED BY <1>1, <2>1, <2>2 DEF Ordered
<1> DEFINE b == Popped(j)
<1>4. b = Record(j.policy, rest, j.pushed, j.popped + 1, j.dropped, j.underruns, first)
  <2>1. j = Record(j.policy, j.queue, j.pushed, j.popped, j.dropped, j.underruns, j.last)
    BY BufferRecord DEF BufferOK
  <2>2. Popped(Record(j.policy, j.queue, j.pushed, j.popped, j.dropped, j.underruns, j.last)) =
          Record(j.policy, Tail(j.queue), j.pushed, j.popped + 1, j.dropped, j.underruns,
                 Head(j.queue).at)
    BY PoppedIs
  <2> QED BY <1>3, <2>1, <2>2
<1>5. /\ rest \in Seq(Item) /\ Len(rest) = Len(j.queue) - 1
  BY <1>1
<1>6. Ordered(rest, j.pushed, first, j.policy)
  BY <1>1, <1>2, <1>3, OrderedTail
<1> HIDE DEF rest, first, b
<1>7. /\ b.queue = rest /\ b.pushed = j.pushed /\ b.popped = j.popped + 1
      /\ b.dropped = j.dropped /\ b.last = first /\ b.policy = j.policy
  BY <1>4 DEF Record
<1>8. b \in Buffers
  <2>1. j.popped + 1 \in Nat
    BY <1>2
  <2>2. Record(j.policy, rest, j.pushed, j.popped + 1, j.dropped, j.underruns, first) \in Buffers
    BY <1>2, <1>3, <1>5, <2>1, BuffersHold
  <2> QED BY <1>4, <2>2
<1>9. Len(rest) <= Capacity /\ j.pushed = j.dropped + Len(rest) + (j.popped + 1)
  <2>1. Len(j.queue) \in Nat /\ Len(j.queue) <= Capacity /\ Capacity \in Nat
    BY <1>1, PathAssumption
  <2>2. j.pushed = j.dropped + Len(j.queue) + j.popped /\ Len(rest) = Len(j.queue) - 1
    BY <1>2, <1>5
  <2>3. j.pushed \in Nat /\ j.dropped \in Nat /\ j.popped \in Nat
    BY <1>2
  <2>4. Len(rest) <= Capacity
    BY <2>1, <2>2
  <2>5. j.pushed = j.dropped + Len(rest) + (j.popped + 1)
    <3> DEFINE n == Len(j.queue)
    <3>1. n \in Nat /\ j.pushed = j.dropped + n + j.popped
      BY <2>1, <2>2
    <3> HIDE DEF n
    <3>2. j.pushed = j.dropped + (n - 1) + (j.popped + 1)
      BY <2>3, <3>1, SMTT(30)
    <3> QED BY <2>2, <3>2 DEF n
  <2> QED BY <2>4, <2>5
<1> QED BY <1>3, <1>6, <1>7, <1>8, <1>9 DEF BufferOK, b

LEMMA UnderrunKeeps ==
    ASSUME PathInvariant, Underrun
    PROVE  PathInvariant'
<1>1. /\ jitter' = [jitter EXCEPT !.underruns = @ + 1] /\ jitter.underruns < MaxUnderruns
      /\ UNCHANGED <<encoder, captured, batch, active, flight, codec, view, decoder, fate>>
  BY DEF Underrun, sender
<1>2. BufferOK(jitter) /\ jitter \in Buffers
  BY DEF PathInvariant, StreamOK, Stream, BufferOK
<1>3. /\ jitter' \in Buffers /\ jitter'.queue = jitter.queue /\ jitter'.last = jitter.last
      /\ jitter'.pushed = jitter.pushed /\ jitter'.popped = jitter.popped
      /\ jitter'.dropped = jitter.dropped /\ jitter'.policy = jitter.policy
  <2>1. jitter.underruns + 1 \in 0 .. MaxUnderruns
    BY <1>1, <1>2, PathAssumption DEF Buffers
  <2> QED BY <1>1, <1>2, <2>1 DEF Buffers
<1>4. BufferOK(jitter')
  BY <1>2, <1>3 DEF BufferOK
<1>5. StreamOK(Stream)'
  BY <1>1, <1>4 DEF PathInvariant, StreamOK, Stream, BufferOK
<1>6. Sending'
  BY <1>1 DEF PathInvariant, Sending, Serials
<1>7. EachFrameOnce'
  <2>1. UnderWay' = UnderWay
    BY <1>1 DEF UnderWay, Places
  <2> QED BY <1>1, <1>3, <2>1 DEF PathInvariant, EachFrameOnce
<1> QED BY <1>1, <1>5, <1>6, <1>7 DEF PathInvariant

LEMMA PlayKeeps ==
    ASSUME PathInvariant, Play
    PROVE  PathInvariant'
<1> DEFINE ready == Ready(decoder, Head(jitter.queue).frame)
<1>1. /\ jitter.queue # <<>> /\ jitter' = Popped(jitter)
      /\ UNCHANGED <<encoder, captured, batch, active, flight, codec, view>>
      /\ \/ ready /\ decoder' = Made(decoder) /\ Ends("played", 1)
         \/ /\ ready
            /\ \E k \in 1 .. Parts[decoder.profile] : decoder' = FailedAt(decoder, k)
            /\ Ends("refused", 1)
         \/ ~ready /\ Ends("refused", 1) /\ UNCHANGED decoder
  BY DEF Play, sender, Popped
<1>2. ready => ~decoder.failed
  BY DEF Ready
<1> HIDE DEF ready
<1>3. CodecOK(decoder')
  <2>1. CodecOK(decoder)
    BY DEF PathInvariant
  <2> QED BY <1>1, <1>2, <2>1, CodecUsed
<1>4. BufferOK(jitter)
  BY DEF PathInvariant, StreamOK, Stream
<1>5. /\ BufferOK(jitter') /\ jitter'.pushed = jitter.pushed
      /\ jitter'.popped = jitter.popped + 1
  BY <1>1, <1>4, PopKeeps
<1>6. /\ fate' \in [Fates -> Nat]
      /\ fate'["rejected"] = fate["rejected"] /\ fate'["lost"] = fate["lost"]
      /\ fate'["played"] + fate'["refused"] = fate["played"] + fate["refused"] + 1
  <2>1. fate \in [Fates -> Nat] /\ fate["played"] \in Nat /\ fate["refused"] \in Nat
    BY Counting DEF PathInvariant, Fates
  <2>2. CASE Ends("played", 1)
    BY <2>1, <2>2, Ended DEF Fates
  <2>3. CASE Ends("refused", 1)
    BY <2>1, <2>3, Ended DEF Fates
  <2> QED BY <1>1, <2>2, <2>3
<1>7. EachFrameOnce'
  <2>1. UnderWay' = UnderWay
    BY <1>1 DEF UnderWay, Places
  <2>2. jitter'.pushed = jitter'.dropped + Len(jitter'.queue) + jitter'.popped
    BY <1>5, BufferFields
  <2>3. captured = Len(batch) + fate["rejected"] + fate["lost"] + UnderWay + jitter.pushed
    BY DEF PathInvariant, EachFrameOnce
  <2>4. jitter'.popped = fate'["played"] + fate'["refused"]
    BY <1>5, <1>6 DEF PathInvariant, EachFrameOnce
  <2> QED BY <1>1, <1>5, <1>6, <2>1, <2>2, <2>3, <2>4 DEF EachFrameOnce
<1>8. StreamOK(Stream)'
  BY <1>1, <1>5 DEF PathInvariant, StreamOK, Stream, BufferOK
<1>9. Sending'
  BY <1>1 DEF PathInvariant, Sending, Serials
<1> QED BY <1>1, <1>3, <1>6, <1>7, <1>8, <1>9 DEF PathInvariant

LEMMA PathKeeps == PathInvariant /\ [PathNext]_pathVars => PathInvariant'
<1> SUFFICES ASSUME PathInvariant, [PathNext]_pathVars PROVE PathInvariant'
  OBVIOUS
<1>1. CASE Encode
  BY <1>1, EncodeKeeps
<1>2. CASE NewEncoder
  BY <1>2, NewCodec, CodecSteps DEF NewEncoder
<1>3. CASE SendBatch
  BY <1>3, SendBatchKeeps
<1>4. CASE LinkChanges
  BY <1>4, CodecSteps
<1>5. CASE \E packet \in flight : Lose(packet) \/ Deliver(packet)
  BY <1>5, LoseKeeps, DeliverKeeps
<1>6. CASE Underrun
  BY <1>6, UnderrunKeeps
<1>7. CASE Play
  BY <1>7, PlayKeeps
<1>8. CASE NewDecoder
  BY <1>8, NewCodec, CodecSteps DEF NewDecoder
<1>9. CASE UNCHANGED pathVars
  <2>1. UNCHANGED <<captured, batch, active, flight, receiver, fate>> /\ CodecOK(encoder')
    BY <1>9 DEF pathVars, sender, PathInvariant
  <2> QED BY <2>1, CodecSteps
<1> QED BY <1>1, <1>2, <1>3, <1>4, <1>5, <1>6, <1>7, <1>8, <1>9 DEF PathNext

(* The inductive invariant of the path of a frame, whatever the sizes of   *)
(* profiles, packets and buffer.                                           *)
THEOREM PathIsInvariant == PathSpec => []PathInvariant
BY PathStarts, PathKeeps, PTL DEF PathSpec

(* Every frame that was encoded is accounted for once at any time, and     *)
(* frames leave the jitter buffer in the order in which they arrived       *)
(* (packetizer, egress, JitterBuffer::push and pop).                       *)
THEOREM FramesAccounted == PathSpec => []FrameLedger
<1>1. PathInvariant => FrameLedger
  BY PathPromises
<1> QED BY <1>1, PathIsInvariant, PTL

(* No Codec2 codec is used again after it stopped inside a packet, and     *)
(* whoever follows the events of a frame stream knows the codec of each    *)
(* frame (Codec2PacketCodec, FrameStreamState::accept_packet).             *)
THEOREM CodecsKeepStep == PathSpec => []CodecsInStep
<1>1. PathInvariant => CodecsInStep
  BY PathPromises
<1> QED BY <1>1, PathIsInvariant, PTL

-----------------------------------------------------------------------------
(*                             Packets of Opus                             *)
-----------------------------------------------------------------------------

(* Where lengths end, as an equation. *)
LEMMA EndsOfIs ==
    ASSUME NEW from, NEW lengths, Len(lengths) \in Nat
    PROVE  EndsOf(from, lengths) =
             [i \in 0 .. Len(lengths) |->
                IF i = 0 THEN from ELSE EndsOf(from, lengths)[i - 1] + lengths[i]]
<1> DEFINE G(k, g) == g = [i \in 0 .. k |-> IF i = 0 THEN from ELSE g[i - 1] + lengths[i]]
           S == {k \in Nat : \E g : G(k, g)}
<1>1. 0 \in S
  <2>1. G(0, [i \in 0 .. 0 |-> from])
    OBVIOUS
  <2> QED BY <2>1
<1>2. ASSUME NEW k \in Nat, k \in S PROVE k + 1 \in S
  <2>1. PICK g : G(k, g)
    BY <1>2
  <2> DEFINE h == [i \in 0 .. k + 1 |-> IF i <= k THEN g[i] ELSE g[k] + lengths[k + 1]]
  <2>2. G(k + 1, h)
    <3>1. \A i \in 0 .. k : g[i] = IF i = 0 THEN from ELSE g[i - 1] + lengths[i]
      BY <2>1
    <3>2. \A i \in 0 .. k : h[i] = g[i]
      OBVIOUS
    <3>3. h[k + 1] = g[k] + lengths[k + 1]
      OBVIOUS
    <3>4. h = [i \in 0 .. k + 1 |-> h[i]]
      OBVIOUS
    <3> HIDE DEF h
    <3>5. ASSUME NEW i \in 0 .. k + 1
          PROVE  h[i] = IF i = 0 THEN from ELSE h[i - 1] + lengths[i]
      <4>1. CASE i = k + 1
        BY <4>1, <3>2, <3>3
      <4>2. CASE i \in 0 .. k
        <5>1. i # 0 => i - 1 \in 0 .. k
          BY <4>2
        <5> QED BY <4>2, <3>1, <3>2, <5>1
      <4> QED BY <4>1, <4>2
    <3> QED BY <3>4, <3>5
  <2>3. k + 1 \in Nat
    OBVIOUS
  <2> HIDE DEF h, G
  <2> QED BY <2>2, <2>3
<1>3. Len(lengths) \in S
  <2> HIDE DEF S
  <2> QED BY <1>1, <1>2, Induction
<1>4. \E g : G(Len(lengths), g)
  BY <1>3
<1> QED BY <1>4 DEF EndsOf

(* Each end lies its length behind the one before, and none behind the     *)
(* last.                                                                   *)
LEMMA EndsInOrder ==
    ASSUME NEW from \in Nat, NEW lengths \in Seq(Nat)
    PROVE  LET end == EndsOf(from, lengths)
               n   == Len(lengths)
           IN  /\ end[0] = from
               /\ \A i \in 0 .. n : end[i] \in Nat /\ from <= end[i] /\ end[i] <= end[n]
               /\ \A i \in 1 .. n : end[i] = end[i - 1] + lengths[i]
<1> DEFINE end == EndsOf(from, lengths)
           n   == Len(lengths)
<1>1. n \in Nat /\ \A i \in 1 .. n : lengths[i] \in Nat
  OBVIOUS
<1>2. end[0] = from /\ \A i \in 1 .. n : end[i] = end[i - 1] + lengths[i]
  <2>1. end = [i \in 0 .. n |-> IF i = 0 THEN from ELSE end[i - 1] + lengths[i]]
    BY <1>1, EndsOfIs
  <2> HIDE DEF end, n
  <2> QED BY <2>1, <1>1
<1> HIDE DEF end, n
<1>3. \A i \in 0 .. n : end[i] \in Nat /\ from <= end[i]
  <2> DEFINE S == {k \in Nat : k <= n => end[k] \in Nat /\ from <= end[k]}
  <2>1. 0 \in S
    BY <1>2
  <2>2. ASSUME NEW k \in Nat, k \in S PROVE k + 1 \in S
    <3>1. k + 1 <= n => /\ k + 1 \in 1 .. n /\ end[k + 1] = end[k] + lengths[k + 1]
                        /\ lengths[k + 1] \in Nat
      BY <1>1, <1>2
    <3> QED BY <1>1, <2>2, <3>1
  <2>3. Nat \subseteq S
    <3> HIDE DEF S
    <3> QED BY <2>1, <2>2, Induction
  <2> QED BY <1>1, <2>3
<1>4. \A i \in 0 .. n : end[i] <= end[n]
  <2> DEFINE S == {k \in Nat : k <= n => end[n - k] <= end[n]}
  <2>1. 0 \in S
    BY <1>1, <1>3
  <2>2. ASSUME NEW k \in Nat, k \in S PROVE k + 1 \in S
    <3>1. SUFFICES ASSUME k + 1 <= n PROVE end[n - (k + 1)] <= end[n]
      OBVIOUS
    <3> DEFINE i == n - k
    <3>2. i \in 1 .. n /\ i - 1 \in 0 .. n /\ n - (k + 1) = i - 1
      BY <1>1, <3>1
    <3>3. end[i] <= end[n]
      BY <1>1, <2>2, <3>1
    <3> HIDE DEF i
    <3>4. end[i] = end[i - 1] + lengths[i] /\ lengths[i] \in Nat
      BY <1>1, <1>2, <3>2
    <3>5. end[i - 1] \in Nat /\ end[n] \in Nat
      BY <1>1, <1>3, <3>2
    <3>6. end[i - 1] <= end[n]
      BY <3>3, <3>4, <3>5
    <3> QED BY <3>2, <3>6
  <2>3. Nat \subseteq S
    <3> HIDE DEF S
    <3> QED BY <2>1, <2>2, Induction
  <2>4. ASSUME NEW i \in 0 .. n PROVE end[i] <= end[n]
    <3>1. n - i \in Nat /\ n - i <= n /\ n - (n - i) = i
      BY <1>1
    <3> QED BY <2>3, <3>1
  <2> QED BY <2>4
<1> QED BY <1>2, <1>3, <1>4 DEF end, n

(* Ends move with where they are counted from. *)
LEMMA EndsMove ==
    ASSUME NEW from \in Nat, NEW lengths \in Seq(Nat)
    PROVE  \A i \in 0 .. Len(lengths) : EndsOf(from, lengths)[i] = from + EndsOf(0, lengths)[i]
<1> DEFINE end  == EndsOf(from, lengths)
           zero == EndsOf(0, lengths)
           n    == Len(lengths)
           S    == {k \in Nat : k <= n => end[k] = from + zero[k]}
<1>1. n \in Nat /\ \A i \in 1 .. n : lengths[i] \in Nat
  OBVIOUS
<1>2. /\ end[0] = from /\ \A i \in 1 .. n : end[i] = end[i - 1] + lengths[i]
      /\ zero[0] = 0 /\ \A i \in 1 .. n : zero[i] = zero[i - 1] + lengths[i]
      /\ \A i \in 0 .. n : zero[i] \in Nat
  BY EndsInOrder
<1> HIDE DEF end, zero, n
<1>3. 0 \in S
  BY <1>2
<1>4. ASSUME NEW k \in Nat, k \in S PROVE k + 1 \in S
  <2>1. SUFFICES ASSUME k + 1 <= n PROVE end[k + 1] = from + zero[k + 1]
    OBVIOUS
  <2>2. /\ end[k + 1] = end[k] + lengths[k + 1] /\ zero[k + 1] = zero[k] + lengths[k + 1]
        /\ lengths[k + 1] \in Nat /\ zero[k] \in Nat
    BY <1>1, <1>2, <2>1
  <2>3. end[k] = from + zero[k]
    BY <1>1, <1>4, <2>1
  <2> QED BY <2>2, <2>3
<1>5. Nat \subseteq S
  <2> HIDE DEF S
  <2> QED BY <1>3, <1>4, Induction
<1> QED BY <1>1, <1>5 DEF end, zero, n

(* One more length ends that much later. *)
LEMMA EndsAppend ==
    ASSUME NEW from \in Nat, NEW lengths \in Seq(Nat), NEW more \in Nat
    PROVE  EndsOf(from, Append(lengths, more))[Len(lengths) + 1]
             = EndsOf(from, lengths)[Len(lengths)] + more
<1> DEFINE all == Append(lengths, more)
           end == EndsOf(from, lengths)
           ext == EndsOf(from, all)
           n   == Len(lengths)
           S   == {k \in Nat : k <= n => end[k] = ext[k]}
<1>1. /\ n \in Nat /\ Len(all) = n + 1 /\ all[n + 1] = more /\ all \in Seq(Nat)
      /\ \A i \in 1 .. n : all[i] = lengths[i]
  OBVIOUS
<1> HIDE DEF all
<1>2. end[0] = from /\ \A i \in 1 .. n : end[i] = end[i - 1] + lengths[i]
  BY EndsInOrder
<1>x. ext[0] = from /\ \A i \in 1 .. n + 1 : ext[i] = ext[i - 1] + all[i]
  <2>1. ext[0] = from /\ \A i \in 1 .. Len(all) : ext[i] = ext[i - 1] + all[i]
    <3> HIDE DEF n
    <3> QED BY <1>1, EndsInOrder
  <2> QED BY <1>1, <2>1
<1> HIDE DEF end, ext, n
<1>3. 0 \in S
  BY <1>2, <1>x
<1>4. ASSUME NEW k \in Nat, k \in S PROVE k + 1 \in S
  <2>1. SUFFICES ASSUME k + 1 <= n PROVE end[k + 1] = ext[k + 1]
    OBVIOUS
  <2>2. end[k + 1] = end[k] + lengths[k + 1] /\ ext[k + 1] = ext[k] + all[k + 1]
    BY <1>1, <1>2, <1>x, <2>1
  <2>3. end[k] = ext[k] /\ all[k + 1] = lengths[k + 1]
    BY <1>1, <1>4, <2>1
  <2> QED BY <2>2, <2>3
<1>5. Nat \subseteq S
  <2> HIDE DEF S
  <2> QED BY <1>3, <1>4, Induction
<1>6. end[n] = ext[n] /\ ext[n + 1] = ext[n] + all[n + 1]
  BY <1>1, <1>2, <1>x, <1>5
<1> QED BY <1>1, <1>6 DEF end, ext, n, all

-----------------------------------------------------------------------------
(* A flattened sequence, as an equation. *)
LEMMA FlattenIs ==
    ASSUME NEW seqs, Len(seqs) \in Nat \ {0}
    PROVE  \E f : /\ f = [i \in 1 .. Len(seqs) |->
                            IF i = 1 THEN seqs[i] ELSE f[i - 1] \o seqs[i]]
                  /\ FlattenSeq(seqs) = f[Len(seqs)]
<1> DEFINE G(k, g) == g = [i \in 1 .. k |-> IF i = 1 THEN seqs[i] ELSE g[i - 1] \o seqs[i]]
           S == {k \in Nat : \E g : G(k, g)}
<1>1. 0 \in S
  <2>1. G(0, [i \in 1 .. 0 |-> seqs])
    OBVIOUS
  <2> QED BY <2>1
<1>2. ASSUME NEW k \in Nat, k \in S PROVE k + 1 \in S
  <2>1. PICK g : G(k, g)
    BY <1>2
  <2> DEFINE h == [i \in 1 .. k + 1 |->
                     IF i <= k THEN g[i] ELSE IF i = 1 THEN seqs[i] ELSE g[k] \o seqs[k + 1]]
  <2>2. G(k + 1, h)
    <3>1. \A i \in 1 .. k : g[i] = IF i = 1 THEN seqs[i] ELSE g[i - 1] \o seqs[i]
      BY <2>1
    <3>2. \A i \in 1 .. k : h[i] = g[i]
      OBVIOUS
    <3>3. h[k + 1] = IF k + 1 = 1 THEN seqs[k + 1] ELSE g[k] \o seqs[k + 1]
      OBVIOUS
    <3>4. h = [i \in 1 .. k + 1 |-> h[i]]
      OBVIOUS
    <3> HIDE DEF h
    <3>5. ASSUME NEW i \in 1 .. k + 1
          PROVE  h[i] = IF i = 1 THEN seqs[i] ELSE h[i - 1] \o seqs[i]
      <4>1. CASE i = k + 1
        <5>1. i # 1 => k \in 1 .. k /\ i - 1 = k
          BY <4>1
        <5> QED BY <4>1, <3>2, <3>3, <5>1
      <4>2. CASE i \in 1 .. k
        <5>1. i # 1 => i - 1 \in 1 .. k
          BY <4>2
        <5> QED BY <4>2, <3>1, <3>2, <5>1
      <4> QED BY <4>1, <4>2
    <3> QED BY <3>4, <3>5
  <2>3. k + 1 \in Nat
    OBVIOUS
  <2> HIDE DEF h, G
  <2> QED BY <2>2, <2>3
<1>3. Len(seqs) \in S
  <2> HIDE DEF S
  <2> QED BY <1>1, <1>2, Induction
<1>4. \E g : G(Len(seqs), g)
  BY <1>3
<1> DEFINE flatten == CHOOSE g : G(Len(seqs), g)
<1>5. G(Len(seqs), flatten)
  BY <1>4
<1>6. FlattenSeq(seqs) = flatten[Len(seqs)]
  BY DEF FlattenSeq
<1> HIDE DEF flatten
<1> QED BY <1>5, <1>6

(* Adjacent parts of a sequence, flattened, are the part they make up. *)
LEMMA FlattenParts ==
    ASSUME NEW T, NEW s \in Seq(T), NEW n \in Nat, NEW end \in [0 .. n -> Nat],
           \A i \in 1 .. n : end[i - 1] <= end[i] /\ end[i] <= Len(s),
           end[0] <= Len(s),
           NEW seqs, Len(seqs) = n, seqs = <<>> \/ n > 0,
           \A i \in 1 .. n : seqs[i] = SubSeq(s, end[i - 1] + 1, end[i])
    PROVE  FlattenSeq(seqs) = SubSeq(s, end[0] + 1, end[n]) /\ end[0] <= end[n] /\ end[n] <= Len(s)
<1>1. CASE n = 0
  <2>1. FlattenSeq(seqs) = <<>>
    BY <1>1 DEF FlattenSeq
  <2>2. SubSeq(s, end[0] + 1, end[0]) = <<>>
    BY SubSeqEmpty
  <2> QED BY <1>1, <2>1, <2>2
<1>2. CASE n > 0
  <2>1. PICK f : /\ f = [i \in 1 .. n |-> IF i = 1 THEN seqs[i] ELSE f[i - 1] \o seqs[i]]
                 /\ FlattenSeq(seqs) = f[n]
    <3>1. Len(seqs) \in Nat \ {0}
      BY <1>2
    <3> QED BY <3>1, FlattenIs
  <2>2. \A i \in 1 .. n : f[i] = IF i = 1 THEN seqs[i] ELSE f[i - 1] \o seqs[i]
    BY <2>1
  <2> DEFINE S == {k \in Nat : k + 1 <= n => /\ f[k + 1] = SubSeq(s, end[0] + 1, end[k + 1])
                                             /\ end[0] <= end[k + 1]}
  <2>3. 0 \in S
    BY <1>2, <2>2, SMTT(30)
  <2>4. ASSUME NEW k \in Nat, k \in S PROVE k + 1 \in S
    <3> DEFINE i == k + 1 + 1
    <3>1. SUFFICES ASSUME i <= n
                   PROVE  f[i] = SubSeq(s, end[0] + 1, end[i]) /\ end[0] <= end[i]
      OBVIOUS
    <3>2. i \in 1 .. n /\ i # 1 /\ i - 1 = k + 1 /\ i - 1 \in 0 .. n /\ k + 1 <= n
      BY <3>1
    <3> HIDE DEF i
    <3>3. f[i - 1] = SubSeq(s, end[0] + 1, end[i - 1]) /\ end[0] <= end[i - 1]
      BY <2>4, <3>2
    <3>4. f[i] = f[i - 1] \o SubSeq(s, end[i - 1] + 1, end[i])
      BY <2>2, <3>2
    <3>5. end[i - 1] <= end[i] /\ end[i] <= Len(s) /\ end[0] <= Len(s)
      BY <3>2
    <3>6. end[i] \in Nat /\ end[i - 1] \in Nat /\ end[0] \in Nat /\ Len(s) \in Nat
      BY <3>2
    <3>7. /\ end[0] + 1 \in 1 .. Len(s) + 1
          /\ end[i - 1] \in (end[0] + 1) - 1 .. Len(s)
          /\ end[i] \in end[i - 1] .. Len(s)
      <4> DEFINE a == end[0]
                 b == end[i - 1]
                 c == end[i]
                 l == Len(s)
      <4>1. a \in Nat /\ b \in Nat /\ c \in Nat /\ l \in Nat /\ a <= b /\ b <= c /\ c <= l
        BY <3>3, <3>5, <3>6
      <4> HIDE DEF a, b, c, l
      <4>2. a + 1 \in 1 .. l + 1 /\ b \in (a + 1) - 1 .. l /\ c \in b .. l
        BY <4>1
      <4> QED BY <4>2 DEF a, b, c, l
    <3>8. SubSeq(s, end[0] + 1, end[i - 1]) \o SubSeq(s, end[i - 1] + 1, end[i])
            = SubSeq(s, end[0] + 1, end[i])
      BY <3>7, ConcatAdjacentSubSeq
    <3>9. end[0] <= end[i]
      BY <3>3, <3>5, <3>6
    <3> QED BY <3>3, <3>4, <3>8, <3>9
  <2>5. Nat \subseteq S
    <3> HIDE DEF S
    <3> QED BY <2>3, <2>4, Induction
  <2>6. n - 1 \in Nat /\ n - 1 + 1 = n
    BY <1>2
  <2>7. f[n] = SubSeq(s, end[0] + 1, end[n]) /\ end[0] <= end[n]
    <3>1. n - 1 \in S
      BY <2>5, <2>6
    <3>2. n - 1 + 1 <= n
      BY <2>6
    <3> QED BY <3>1, <3>2, <2>6
  <2>8. n \in 1 .. n
    BY <1>2
  <2> QED BY <2>1, <2>7, <2>8
<1> QED BY <1>1, <1>2

-----------------------------------------------------------------------------
Bytes == 0 .. 255

(* The part of a packet between two places. *)
LEMMA PartIs ==
    ASSUME NEW packet \in Seq(Bytes), NEW a \in Nat, NEW b \in Nat, a <= b, b <= Len(packet)
    PROVE  /\ SubSeq(packet, a + 1, b) \in Seq(Bytes)
           /\ Len(SubSeq(packet, a + 1, b)) = b - a
           /\ \A i \in 1 .. b - a : SubSeq(packet, a + 1, b)[i] = packet[a + i]
<1>1. \A i \in a + 1 .. b : packet[i] \in Bytes
  OBVIOUS
<1>2. /\ SubSeq(packet, a + 1, b) \in Seq(Bytes)
      /\ Len(SubSeq(packet, a + 1, b)) = IF a + 1 <= b THEN b - (a + 1) + 1 ELSE 0
      /\ \A i \in 1 .. b - (a + 1) + 1 : SubSeq(packet, a + 1, b)[i] = packet[(a + 1) + i - 1]
  BY <1>1, SubSeqProperties
<1>3. \A i \in 1 .. b - a : (a + 1) + i - 1 = a + i /\ b - (a + 1) + 1 = b - a
  OBVIOUS
<1> QED BY <1>2, <1>3

(* Every slice of a cut that ends within the packet is within it.          *)
LEMMA CutIs ==
    ASSUME NEW packet \in Seq(Bytes), NEW from \in Nat, NEW lengths \in Seq(Nat),
           lengths # <<>>, EndsOf(from, lengths)[Len(lengths)] <= Len(packet)
    PROVE  LET cut == Cut(packet, from, lengths)
               end == EndsOf(from, lengths)
               n   == Len(lengths)
           IN  /\ cut.error = "None"
               /\ Len(cut.value) = n /\ DOMAIN cut.value = 1 .. n
               /\ \A i \in 1 .. n : /\ cut.value[i] = SubSeq(packet, end[i - 1] + 1, end[i])
                                     /\ cut.value[i] \in Seq(Bytes)
                                     /\ Len(cut.value[i]) = lengths[i]
               /\ FlattenSeq(cut.value) = SubSeq(packet, from + 1, end[n])
<1> DEFINE end  == EndsOf(from, lengths)
           n    == Len(lengths)
           seqs == [i \in 1 .. n |-> SubSeq(packet, end[i - 1] + 1, end[i])]
<1>1. n \in Nat /\ n > 0 /\ \A i \in 1 .. n : lengths[i] \in Nat
  OBVIOUS
<1>2. /\ end[0] = from
      /\ \A i \in 0 .. n : end[i] \in Nat /\ from <= end[i] /\ end[i] <= end[n]
      /\ \A i \in 1 .. n : end[i] = end[i - 1] + lengths[i]
  BY EndsInOrder
<1>3. end = [i \in 0 .. n |-> end[i]]
  BY <1>1, EndsOfIs
<1>4. end[n] <= Len(packet)
  OBVIOUS
<1>5. Cut(packet, from, lengths) = Found(end[n], seqs)
  BY <1>1, <1>2 DEF Cut
<1> HIDE DEF end, n
<1>6. Len(packet) \in Nat
  OBVIOUS
<1>7. /\ end \in [0 .. n -> Nat] /\ end[0] <= Len(packet)
      /\ \A i \in 1 .. n : end[i - 1] <= end[i] /\ end[i] <= Len(packet)
  <2>1. end \in [0 .. n -> Nat]
    BY <1>2, <1>3
  <2>2. end[0] <= Len(packet)
    BY <1>1, <1>2, <1>4, <1>6
  <2>3. ASSUME NEW i \in 1 .. n PROVE end[i - 1] <= end[i] /\ end[i] <= Len(packet)
    <3>1. i \in 0 .. n /\ i - 1 \in 0 .. n /\ n \in 0 .. n
      BY <1>1
    <3>2. /\ end[i - 1] \in Nat /\ end[i] \in Nat /\ end[n] \in Nat /\ lengths[i] \in Nat
          /\ end[i] = end[i - 1] + lengths[i] /\ end[i] <= end[n]
      BY <1>1, <1>2, <3>1
    <3>3. end[i - 1] <= end[i]
      BY <3>2
    <3>4. end[i] <= Len(packet)
      BY <3>2, <1>4, <1>6
    <3> QED BY <3>3, <3>4
  <2> QED BY <2>1, <2>2, <2>3
<1>8. ASSUME NEW i \in 1 .. n
      PROVE  /\ SubSeq(packet, end[i - 1] + 1, end[i]) \in Seq(Bytes)
             /\ Len(SubSeq(packet, end[i - 1] + 1, end[i])) = lengths[i]
  <2>1. end[i - 1] \in Nat /\ end[i] \in Nat /\ lengths[i] \in Nat
    BY <1>1, <1>2
  <2>2. \A k \in end[i - 1] + 1 .. end[i] : packet[k] \in Bytes
    <3>1. \A k \in 1 .. Len(packet) : packet[k] \in Bytes
      OBVIOUS
    <3>2. end[i] <= Len(packet)
      BY <1>7
    <3> QED BY <2>1, <3>1, <3>2, <1>6
  <2>3. /\ SubSeq(packet, end[i - 1] + 1, end[i]) \in Seq(Bytes)
        /\ Len(SubSeq(packet, end[i - 1] + 1, end[i])) =
             IF end[i - 1] + 1 <= end[i] THEN end[i] - (end[i - 1] + 1) + 1 ELSE 0
    BY <2>1, <2>2, SubSeqProperties
  <2>4. end[i] = end[i - 1] + lengths[i]
    BY <1>2
  <2> QED BY <2>1, <2>3, <2>4, SMTT(30)
<1>9. Len(seqs) = n /\ DOMAIN seqs = 1 .. n
  <2>1. seqs \in Seq(Seq(Bytes))
    BY <1>1, <1>8
  <2> QED BY <1>1, <2>1
<1>10. FlattenSeq(seqs) = SubSeq(packet, end[0] + 1, end[n])
  <2>1. \A i \in 1 .. n : seqs[i] = SubSeq(packet, end[i - 1] + 1, end[i])
    OBVIOUS
  <2> HIDE DEF seqs
  <2> QED BY <1>1, <1>7, <1>9, <2>1, FlattenParts
<1>11. \A i \in 1 .. n : seqs[i] = SubSeq(packet, end[i - 1] + 1, end[i])
  OBVIOUS
<1>12. Found(end[n], seqs).error = "None" /\ Found(end[n], seqs).value = seqs
  BY DEF Found
<1> HIDE DEF seqs
<1> QED BY <1>2, <1>5, <1>8, <1>9, <1>10, <1>11, <1>12 DEF end, n

-----------------------------------------------------------------------------
Malformed(result) == result.error = "MalformedPacket"

LengthIn(input, read) ==
    /\ read.error = "None"
    /\ read.at \in 1 .. 2 /\ read.at <= Len(input)
    /\ read.value \in 0 .. 1275
    /\ PushLength(read.value).value = SubSeq(input, 1, read.at)

(* The first byte of an input, and its first two. *)
LEMMA FirstOfInput ==
    ASSUME NEW input \in Seq(Bytes), Len(input) >= 1
    PROVE  /\ SubSeq(input, 1, 1) = <<input[1]>>
           /\ Len(input) >= 2 => SubSeq(input, 1, 2) = <<input[1], input[2]>>
<1>1. Len(input) \in Nat /\ \A i \in 1 .. Len(input) : input[i] \in Bytes
  OBVIOUS
<1>2. SubSeq(input, 1, 1) = <<input[1]>>
  <2>1. \A i \in 1 .. 1 : input[i] \in Bytes
    BY <1>1
  <2>2. /\ SubSeq(input, 1, 1) \in Seq(Bytes) /\ Len(SubSeq(input, 1, 1)) = 1
        /\ SubSeq(input, 1, 1)[1] = input[1]
    BY <2>1, SubSeqProperties
  <2> DEFINE r == SubSeq(input, 1, 1)
             t == <<input[1]>>
  <2>3. t \in Seq(Bytes) /\ Len(t) = 1 /\ t[1] = input[1]
    BY <1>1
  <2>4. r \in Seq(Bytes) /\ Len(r) = Len(t) /\ \A i \in 1 .. Len(r) : r[i] = t[i]
    BY <2>2, <2>3
  <2> HIDE DEF r, t
  <2>5. r = t
    BY <2>3, <2>4, SeqEqual
  <2> QED BY <2>5 DEF r, t
<1>3. ASSUME Len(input) >= 2 PROVE SubSeq(input, 1, 2) = <<input[1], input[2]>>
  <2>1. \A i \in 1 .. 2 : input[i] \in Bytes
    BY <1>1, <1>3
  <2>2. /\ SubSeq(input, 1, 2) \in Seq(Bytes) /\ Len(SubSeq(input, 1, 2)) = 2
        /\ SubSeq(input, 1, 2)[1] = input[1] /\ SubSeq(input, 1, 2)[2] = input[2]
    BY <2>1, SubSeqProperties
  <2> DEFINE r == SubSeq(input, 1, 2)
             t == <<input[1], input[2]>>
  <2>3. t \in Seq(Bytes) /\ Len(t) = 2 /\ t[1] = input[1] /\ t[2] = input[2]
    BY <2>1
  <2>4. r \in Seq(Bytes) /\ Len(r) = Len(t) /\ \A i \in 1 .. Len(r) : r[i] = t[i]
    BY <2>2, <2>3
  <2> HIDE DEF r, t
  <2>5. r = t
    BY <2>3, <2>4, SeqEqual
  <2> QED BY <2>5 DEF r, t
<1> QED BY <1>2, <1>3

(* A length that is read takes one or two bytes, those it is written as.   *)
LEMMA ReadLengthIs ==
    ASSUME NEW input \in Seq(Bytes)
    PROVE  Malformed(ReadLength(input)) \/ LengthIn(input, ReadLength(input))
<1>1. CASE input = <<>>
  BY <1>1 DEF ReadLength, Fail, Malformed
<1>2. CASE input # <<>> /\ Head(input) < 252
  <2>1. ReadLength(input) = Found(1, Head(input))
    BY <1>2 DEF ReadLength
  <2>2. Len(input) \in Nat /\ 1 <= Len(input) /\ Head(input) = input[1] /\ input[1] \in Bytes
    BY <1>2
  <2>3. PushLength(input[1]) = Found(0, <<input[1]>>)
    <3> DEFINE x == input[1]
    <3>1. x \in 0 .. 255 /\ x < 252
      BY <1>2, <2>2 DEF Bytes
    <3> HIDE DEF x
    <3>2. x < 252 /\ x \notin 252 .. 1275
      BY <3>1
    <3>3. PushLength(x) = Found(0, <<x>>)
      BY <3>2 DEF PushLength
    <3> QED BY <3>3 DEF x
  <2>4. SubSeq(input, 1, 1) = <<input[1]>>
    BY <2>2, FirstOfInput
  <2>5. input[1] \in 0 .. 1275
    BY <2>2 DEF Bytes
  <2>6. LengthIn(input, Found(1, input[1]))
    BY <2>2, <2>3, <2>4, <2>5 DEF Found, LengthIn
  <2> QED BY <2>1, <2>2, <2>6
<1>3. CASE input # <<>> /\ ~(Head(input) < 252) /\ Len(input) < 2
  BY <1>3 DEF ReadLength, Fail, Malformed
<1>4. CASE input # <<>> /\ ~(Head(input) < 252) /\ ~(Len(input) < 2)
  <2> DEFINE a == input[1]
             b == input[2]
  <2>1. ReadLength(input) = Found(2, a + 4 * b)
    BY <1>4 DEF ReadLength
  <2>2. Len(input) \in Nat /\ 2 <= Len(input) /\ Head(input) = a /\ a \in Bytes /\ b \in Bytes
    BY <1>4
  <2>3. SubSeq(input, 1, 2) = <<a, b>>
    BY <2>2, FirstOfInput
  <2> HIDE DEF a, b
  <2>4. a \in 252 .. 255 /\ b \in 0 .. 255
    BY <1>4, <2>2 DEF Bytes
  <2> DEFINE l == a + 4 * b
  <2>5. l \in 252 .. 1275 /\ ~(l < 252)
    BY <2>4
  <2>6. 252 + (l % 4) = a /\ (l - a) \div 4 = b
    BY <2>4
  <2>7. PushLength(l) = Found(0, <<a, b>>)
    <3> HIDE DEF l
    <3> QED BY <2>5, <2>6 DEF PushLength
  <2>8. l \in 0 .. 1275
    BY <2>5
  <2>9. /\ ReadLength(input).error = "None" /\ ReadLength(input).at = 2
        /\ ReadLength(input).value = l /\ PushLength(l).value = <<a, b>>
    BY <2>1, <2>7 DEF Found
  <2> DEFINE read == ReadLength(input)
  <2> HIDE DEF l, read
  <2>10. /\ read.error = "None" /\ read.at = 2 /\ read.value = l
    BY <2>9 DEF read
  <2>11. PushLength(read.value).value = SubSeq(input, 1, read.at)
    BY <2>3, <2>9, <2>10
  <2>12. LengthIn(input, read)
    BY <2>2, <2>8, <2>10, <2>11 DEF LengthIn
  <2> QED BY <2>12 DEF read
<1> QED BY <1>1, <1>2, <1>3, <1>4

LengthBehind(packet, end, at, lengths, next) ==
    /\ next.error = "None"
    /\ next.at \in at .. end
    /\ \E length \in 0 .. 1275 :
          /\ next.value = Append(lengths, length)
          /\ PushLength(length).value = SubSeq(packet, at + 1, next.at)

(* Reading one more length between from and end.                           *)
LEMMA NextLengthIs ==
    ASSUME NEW packet \in Seq(Bytes), NEW end \in 0 .. Len(packet), NEW at \in 0 .. end,
           NEW lengths
    PROVE  LET next == NextLength(packet, end, at, lengths) IN
           Malformed(next) \/ LengthBehind(packet, end, at, lengths, next)
<1> DEFINE input == SubSeq(packet, at + 1, end)
           read  == ReadLength(input)
           next  == NextLength(packet, end, at, lengths)
<1>1. Len(packet) \in Nat /\ end \in Nat /\ at \in Nat /\ at <= end /\ end <= Len(packet)
  OBVIOUS
<1>2. /\ input \in Seq(Bytes) /\ Len(input) = end - at
  <2>1. \A k \in at + 1 .. end : packet[k] \in Bytes
    BY <1>1
  <2>2. /\ input \in Seq(Bytes)
        /\ Len(input) = IF at + 1 <= end THEN end - (at + 1) + 1 ELSE 0
    BY <1>1, <2>1, SubSeqProperties
  <2> QED BY <1>1, <2>2
<1>3. Slice(packet, at, end) = Found(end, input)
  BY <1>1 DEF Slice
<1>4. next = IF read.error = "None" THEN Found(at + read.at, Append(lengths, read.value)) ELSE read
  BY <1>3 DEF NextLength, Then, Good, Found
<1>5. Malformed(read) \/ LengthIn(input, read)
  <2> HIDE DEF input
  <2> QED BY <1>2, ReadLengthIs DEF read
<1>6. CASE Malformed(read)
  BY <1>4, <1>6 DEF Malformed
<1>7. CASE LengthIn(input, read)
  <2> HIDE DEF read, next
  <2>1. /\ read.error = "None" /\ read.at \in 1 .. 2 /\ read.at <= Len(input)
        /\ read.value \in 0 .. 1275
        /\ PushLength(read.value).value = SubSeq(input, 1, read.at)
    BY <1>7 DEF LengthIn
  <2>2. next.error = "None" /\ next.at = at + read.at /\ next.value = Append(lengths, read.value)
    BY <1>4, <2>1 DEF Found
  <2>3. /\ next.at \in at .. end
        /\ SubSeq(input, 1, read.at) = SubSeq(packet, at + 1, next.at)
    <3> DEFINE m == read.at
               i == at + 1
    <3>1. m \in 1 .. 2 /\ m <= end - at
      BY <1>2, <2>1
    <3> HIDE DEF m
    <3>2. /\ i \in 1 .. Len(packet) /\ end \in 1 .. Len(packet)
          /\ 1 \in 1 .. end - i + 1 /\ m \in 1 .. end - i + 1
          /\ i + 1 - 1 = at + 1 /\ i + m - 1 = at + m /\ at + m \in at .. end
      BY <1>1, <3>1
    <3> HIDE DEF i
    <3>3. SubSeq(SubSeq(packet, i, end), 1, m) = SubSeq(packet, i + 1 - 1, i + m - 1)
      BY <3>2, SubSeqOfSubSeq
    <3>4. SubSeq(SubSeq(packet, i, end), 1, m) = SubSeq(packet, at + 1, at + m)
      BY <3>2, <3>3
    <3> QED BY <2>2, <3>2, <3>4 DEF m, i
  <2> HIDE DEF input
  <2>4. PushLength(read.value).value = SubSeq(packet, at + 1, next.at)
    BY <2>1, <2>3
  <2>5. LengthBehind(packet, end, at, lengths, next)
    BY <2>1, <2>2, <2>3, <2>4, ZenonT(40) DEF LengthBehind
  <2> QED BY <2>5 DEF next
<1> HIDE DEF read, input
<1> QED BY <1>5, <1>6, <1>7

(* Reading lengths, as an equation. *)
LEMMA LengthsUpToIs ==
    ASSUME NEW packet, NEW from, NEW end, NEW n \in Nat
    PROVE  LengthsUpTo(packet, from, end, n) =
             [i \in 0 .. n |->
                IF i = 0 THEN Found(from, <<>>)
                ELSE LET read == LengthsUpTo(packet, from, end, n)[i - 1] IN
                     IF Good(read) THEN NextLength(packet, end, read.at, read.value) ELSE read]
<1> DEFINE Step(read) ==
             IF Good(read) THEN NextLength(packet, end, read.at, read.value) ELSE read
           G(k, g) ==
             g = [i \in 0 .. k |-> IF i = 0 THEN Found(from, <<>>) ELSE Step(g[i - 1])]
           S == {k \in Nat : \E g : G(k, g)}
<1>1. 0 \in S
  <2>1. G(0, [i \in 0 .. 0 |-> Found(from, <<>>)])
    OBVIOUS
  <2> QED BY <2>1
<1>2. ASSUME NEW k \in Nat, k \in S PROVE k + 1 \in S
  <2>1. PICK g : G(k, g)
    BY <1>2
  <2> DEFINE h == [i \in 0 .. k + 1 |-> IF i <= k THEN g[i] ELSE Step(g[k])]
  <2>2. G(k + 1, h)
    <3>1. \A i \in 0 .. k : g[i] = IF i = 0 THEN Found(from, <<>>) ELSE Step(g[i - 1])
      BY <2>1
    <3> HIDE DEF Step
    <3>2. \A i \in 0 .. k : h[i] = g[i]
      OBVIOUS
    <3>3. h[k + 1] = Step(g[k])
      OBVIOUS
    <3>4. h = [i \in 0 .. k + 1 |-> h[i]]
      OBVIOUS
    <3> HIDE DEF h
    <3>5. ASSUME NEW i \in 0 .. k + 1
          PROVE  h[i] = IF i = 0 THEN Found(from, <<>>) ELSE Step(h[i - 1])
      <4>1. CASE i = k + 1
        <5>1. h[k] = g[k] /\ i # 0 /\ i - 1 = k
          BY <4>1, <3>2
        <5> QED BY <4>1, <3>3, <5>1
      <4>2. CASE i \in 0 .. k
        <5>1. i # 0 => i - 1 \in 0 .. k
          BY <4>2
        <5> QED BY <4>2, <3>1, <3>2, <5>1
      <4> QED BY <4>1, <4>2
    <3> QED BY <3>4, <3>5
  <2>3. k + 1 \in Nat
    OBVIOUS
  <2> HIDE DEF h, G
  <2> QED BY <2>2, <2>3
<1>3. n \in S
  <2> HIDE DEF S
  <2> QED BY <1>1, <1>2, Induction
<1>4. \E g : G(n, g)
  BY <1>3
<1> QED BY <1>4 DEF LengthsUpTo, Then

(* Between these places of the packet stand the lengths, as written. *)
Written(packet, k, lengths, pos) ==
    \A i \in 1 .. k : /\ pos[i - 1] <= pos[i]
                      /\ PushLength(lengths[i]).value = SubSeq(packet, pos[i - 1] + 1, pos[i])

(* Lengths were read up to here, and stand at some places before.         *)
LengthsBehind(packet, from, end, k, read) ==
    /\ read.error = "None" /\ read.at \in from .. end
    /\ read.value \in Seq(0 .. 1275) /\ Len(read.value) = k
    /\ \E pos \in [0 .. k -> from .. end] :
         pos[0] = from /\ pos[k] = read.at /\ Written(packet, k, read.value, pos)

(* Lengths that stand at some places lie one behind the other. *)
LEMMA LengthsLie ==
    ASSUME NEW packet, NEW from, NEW end, NEW k, NEW read,
           read.error = "None", read.at \in from .. end,
           read.value \in Seq(0 .. 1275), Len(read.value) = k,
           NEW pos \in [0 .. k -> from .. end],
           pos[0] = from, pos[k] = read.at, Written(packet, k, read.value, pos)
    PROVE  LengthsBehind(packet, from, end, k, read)
BY DEF LengthsBehind

(* Lengths read so far and the one behind them lie one behind the other.   *)
LEMMA LengthsStep ==
    ASSUME NEW packet \in Seq(Bytes), NEW end \in 0 .. Len(packet), NEW from \in 0 .. end,
           NEW k \in Nat, NEW read, LengthsBehind(packet, from, end, k, read),
           NEW next, LengthBehind(packet, end, read.at, read.value, next)
    PROVE  LengthsBehind(packet, from, end, k + 1, next)
<1>1. /\ read.at \in from .. end /\ read.value \in Seq(0 .. 1275) /\ Len(read.value) = k
  BY DEF LengthsBehind
<1>2. PICK pos \in [0 .. k -> from .. end] :
         pos[0] = from /\ pos[k] = read.at /\ Written(packet, k, read.value, pos)
  BY DEF LengthsBehind
<1>3. next.error = "None" /\ next.at \in read.at .. end
  BY DEF LengthBehind
<1>4. PICK length \in 0 .. 1275 :
         /\ next.value = Append(read.value, length)
         /\ PushLength(length).value = SubSeq(packet, read.at + 1, next.at)
  BY DEF LengthBehind
<1> DEFINE lengths == read.value
           all == Append(lengths, length)
           to  == [i \in 0 .. k + 1 |-> IF i <= k THEN pos[i] ELSE next.at]
<1>5. /\ all \in Seq(0 .. 1275) /\ Len(all) = k + 1 /\ all[k + 1] = length
      /\ \A i \in 1 .. k : all[i] = lengths[i]
  <2>1. lengths \in Seq(0 .. 1275) /\ Len(lengths) = k
    BY <1>1
  <2> HIDE DEF lengths
  <2> QED BY <2>1
<1>6. next.at \in from .. end
  BY <1>1, <1>3
<1>7. to \in [0 .. k + 1 -> from .. end]
  BY <1>2, <1>6
<1>8. to[k + 1] = next.at /\ \A i \in 0 .. k : to[i] = pos[i]
  OBVIOUS
<1> HIDE DEF to, all
<1>9. ASSUME NEW i \in 1 .. k + 1
      PROVE  /\ to[i - 1] <= to[i]
             /\ PushLength(all[i]).value = SubSeq(packet, to[i - 1] + 1, to[i])
  <2>1. CASE i = k + 1
    <3>1. to[i - 1] = read.at /\ to[i] = next.at /\ all[i] = length
      BY <1>2, <1>5, <1>8, <2>1
    <3>2. read.at <= next.at
      BY <1>1, <1>3
    <3> QED BY <1>4, <3>1, <3>2, SMTT(30)
  <2>2. CASE i \in 1 .. k
    <3>1. i - 1 \in 0 .. k /\ i \in 0 .. k
      BY <2>2
    <3>2. to[i - 1] = pos[i - 1] /\ to[i] = pos[i] /\ all[i] = lengths[i]
      BY <1>5, <1>8, <2>2, <3>1
    <3> QED BY <1>2, <2>2, <3>2 DEF Written
  <2> QED BY <2>1, <2>2
<1>10. to[0] = from
  BY <1>2, <1>8
<1>11. next.value = all
  BY <1>4 DEF all
<1>12. Written(packet, k + 1, next.value, to)
  BY <1>9, <1>11 DEF Written
<1>13. next.error = "None" /\ next.at \in from .. end
  BY <1>3, <1>6
<1>15. next.value \in Seq(0 .. 1275) /\ Len(next.value) = k + 1
  BY <1>5, <1>11
<1>14. to[k + 1] = next.at
  BY <1>8
<1> QED BY <1>7, <1>10, <1>12, <1>13, <1>14, <1>15, LengthsLie, ZenonT(40)

(* Lengths are read without leaving the payload, and the bytes read are    *)
(* those they are written as.                                              *)
LEMMA LengthsAre ==
    ASSUME NEW packet \in Seq(Bytes), NEW end \in 0 .. Len(packet), NEW from \in 0 .. end,
           NEW n \in Nat
    PROVE  LET read == Lengths(packet, from, end, n) IN
           Malformed(read) \/ LengthsBehind(packet, from, end, n, read)
<1> DEFINE after == LengthsUpTo(packet, from, end, n)
           Right(k) == Malformed(after[k]) \/ LengthsBehind(packet, from, end, k, after[k])
           S == {k \in Nat : k <= n => Right(k)}
<1>1. /\ after[0] = Found(from, <<>>)
      /\ \A k \in Nat : k + 1 <= n =>
            after[k + 1] = IF Good(after[k])
                           THEN NextLength(packet, end, after[k].at, after[k].value) ELSE after[k]
  <2>1. after = [i \in 0 .. n |->
                   IF i = 0 THEN Found(from, <<>>)
                   ELSE IF Good(after[i - 1])
                        THEN NextLength(packet, end, after[i - 1].at, after[i - 1].value)
                        ELSE after[i - 1]]
    BY LengthsUpToIs
  <2> HIDE DEF after
  <2>2. after[0] = Found(from, <<>>)
    BY <2>1
  <2>3. ASSUME NEW k \in Nat, k + 1 <= n
        PROVE  after[k + 1] = IF Good(after[k])
                              THEN NextLength(packet, end, after[k].at, after[k].value)
                              ELSE after[k]
    <3>1. k + 1 \in 0 .. n /\ k + 1 # 0 /\ k + 1 - 1 = k
      BY <2>3
    <3> QED BY <2>1, <3>1
  <2> QED BY <2>2, <2>3
<1> HIDE DEF after
<1>2. 0 \in S
  <2>1. /\ after[0].error = "None" /\ after[0].at = from /\ after[0].value = <<>>
    BY <1>1 DEF Found
  <2>2. from \in from .. end /\ <<>> \in Seq(0 .. 1275) /\ Len(<<>>) = 0
    OBVIOUS
  <2> DEFINE pos == [i \in 0 .. 0 |-> from]
  <2>3. /\ pos \in [0 .. 0 -> from .. end] /\ pos[0] = from
        /\ Written(packet, 0, after[0].value, pos)
    BY <2>2 DEF Written
  <2> HIDE DEF pos
  <2>4. LengthsBehind(packet, from, end, 0, after[0])
    BY <2>1, <2>2, <2>3 DEF LengthsBehind
  <2> QED BY <2>4
<1>3. ASSUME NEW k \in Nat, k \in S PROVE k + 1 \in S
  <2>1. SUFFICES ASSUME k + 1 <= n PROVE Right(k + 1)
    OBVIOUS
  <2>2. Right(k)
    BY <1>3, <2>1
  <2>3. CASE Malformed(after[k])
    <3>1. after[k + 1] = after[k]
      BY <1>1, <2>1, <2>3 DEF Malformed, Good
    <3> QED BY <2>3, <3>1
  <2>4. CASE LengthsBehind(packet, from, end, k, after[k])
    <3> DEFINE next == NextLength(packet, end, after[k].at, after[k].value)
    <3>1. after[k].error = "None" /\ after[k].at \in 0 .. end
      BY <2>4 DEF LengthsBehind
    <3>2. after[k + 1] = next
      BY <1>1, <2>1, <3>1 DEF Good
    <3>3. Malformed(next) \/ LengthBehind(packet, end, after[k].at, after[k].value, next)
      BY <3>1, NextLengthIs
    <3> HIDE DEF next
    <3>4. LengthBehind(packet, end, after[k].at, after[k].value, next)
            => LengthsBehind(packet, from, end, k + 1, next)
      BY <2>4, LengthsStep
    <3> QED BY <3>2, <3>3, <3>4
  <2> QED BY <2>2, <2>3, <2>4
<1>4. Nat \subseteq S
  <2> HIDE DEF S
  <2> QED BY <1>2, <1>3, Induction
<1>5. Right(n)
  BY <1>4
<1> QED BY <1>5 DEF after, Lengths

-----------------------------------------------------------------------------
(* The frames of a code 3 packet and what stands before them fill its      *)
(* payload.                                                                *)
FramesFill(packet, from, end, count, result) ==
    /\ result.error = "None"
    /\ Len(result.value) = count /\ DOMAIN result.value = 1 .. count
    /\ \E at \in from .. end :
         /\ FlattenSeq(Headers(packet, result.value)) = SubSeq(packet, from + 1, at)
         /\ FlattenSeq(result.value) = SubSeq(packet, at + 1, end)

(* Lengths are natural numbers. *)
LEMMA LengthsAreNat ==
    ASSUME NEW lengths \in Seq(0 .. 1275)
    PROVE  lengths \in Seq(Nat)
<1> DEFINE T == 0 .. 1275
<1>1. lengths \in Seq(T) /\ T \subseteq Nat
  OBVIOUS
<1> HIDE DEF T
<1>2. Len(lengths) \in Nat /\ lengths \in [1 .. Len(lengths) -> T]
  BY <1>1, LenProperties
<1>3. lengths \in [1 .. Len(lengths) -> Nat]
  BY <1>1, <1>2, ZenonT(40)
<1> QED BY <1>2, <1>3, SeqDef

(* The frames of varying rate that are found fill the packet's payload.    *)
LEMMA VbrFramesFill ==
    ASSUME NEW packet \in Seq(Bytes), NEW end \in 0 .. Len(packet), NEW from \in 0 .. end,
           NEW count \in Nat \ {0}, Vbr(packet)
    PROVE  LET frames == VbrFrames(packet, from, end, count) IN
           Malformed(frames) \/ FramesFill(packet, from, end, count, frames)
<1> DEFINE k       == count - 1
           read    == Lengths(packet, from, end, k)
           at      == read.at
           lengths == read.value
           rest    == end - at - EndsOf(0, lengths)[Len(lengths)]
           all     == Append(lengths, rest)
           frames  == VbrFrames(packet, from, end, count)
<1> SUFFICES Malformed(frames) \/ FramesFill(packet, from, end, count, frames)
  OBVIOUS
<1>1. k \in Nat /\ k + 1 = count /\ Len(packet) \in Nat /\ end \in Nat /\ end <= Len(packet)
  OBVIOUS
<1>2. Malformed(read) \/ LengthsBehind(packet, from, end, k, read)
  <2> HIDE DEF k
  <2> QED BY <1>1, LengthsAre DEF read
<1>3. frames = IF Good(read)
               THEN IF EndsOf(0, lengths)[Len(lengths)] > end - at THEN Fail("MalformedPacket")
                    ELSE Cut(packet, at, all)
               ELSE read
  BY DEF VbrFrames, Then
<1> HIDE DEF k, read, frames
<1>4. CASE Malformed(read)
  BY <1>3, <1>4 DEF Malformed, Good
<1>5. CASE LengthsBehind(packet, from, end, k, read)
  <2>1. /\ Good(read) /\ at \in from .. end
        /\ lengths \in Seq(0 .. 1275) /\ Len(lengths) = k
    BY <1>5 DEF LengthsBehind, Good
  <2>2. PICK pos \in [0 .. k -> from .. end] :
          pos[0] = from /\ pos[k] = at /\ Written(packet, k, lengths, pos)
    BY <1>5 DEF LengthsBehind
  <2> HIDE DEF at, lengths
  <2>3. at \in Nat /\ lengths \in Seq(Nat)
    <3>1. lengths \in Seq(Nat)
      BY <2>1, LengthsAreNat
    <3> QED BY <1>1, <2>1, <3>1
  <2>4. EndsOf(0, lengths)[k] \in Nat /\ EndsOf(at, lengths)[k] = at + EndsOf(0, lengths)[k]
    <3>1. k \in 0 .. Len(lengths)
      BY <1>1, <2>1
    <3> QED BY <2>3, <3>1, EndsInOrder, EndsMove
  <2>5. CASE EndsOf(0, lengths)[Len(lengths)] > end - at
    BY <1>3, <2>1, <2>5 DEF Malformed, Fail
  <2>6. CASE ~(EndsOf(0, lengths)[Len(lengths)] > end - at)
    <3>1. frames = Cut(packet, at, all)
      BY <1>3, <2>1, <2>6
    <3>2. rest \in Nat /\ at + EndsOf(0, lengths)[k] + rest = end
      BY <1>1, <2>1, <2>3, <2>4, <2>6
    <3> HIDE DEF rest
    <3>3. EndsOf(at, all)[k + 1] = end
      <4>1. EndsOf(at, Append(lengths, rest))[Len(lengths) + 1]
              = EndsOf(at, lengths)[Len(lengths)] + rest
        BY <2>3, <3>2, EndsAppend
      <4> QED BY <2>1, <2>4, <3>2, <4>1
    <3>4. /\ all \in Seq(Nat) /\ Len(all) = k + 1 /\ all # <<>>
          /\ \A i \in 1 .. k : all[i] = lengths[i]
      <4>1. lengths \in Seq(Nat) /\ rest \in Nat
        BY <2>3, <3>2
      <4>2. /\ Append(lengths, rest) \in Seq(Nat) /\ Len(Append(lengths, rest)) = Len(lengths) + 1
            /\ \A i \in 1 .. Len(lengths) : Append(lengths, rest)[i] = lengths[i]
        BY <4>1
      <4>3. Len(lengths) = k
        BY <2>1
      <4> QED BY <1>1, <4>2, <4>3
    <3> HIDE DEF all
    <3> DEFINE cut == Cut(packet, at, all)
    <3>5. /\ cut.error = "None"
          /\ Len(cut.value) = k + 1 /\ DOMAIN cut.value = 1 .. k + 1
          /\ \A i \in 1 .. k + 1 : Len(cut.value[i]) = all[i]
          /\ FlattenSeq(cut.value) = SubSeq(packet, at + 1, end)
      <4>1. Len(all) = k + 1 /\ EndsOf(at, all)[Len(all)] = end /\ end <= Len(packet)
        BY <1>1, <3>3, <3>4
      <4>2. EndsOf(at, all)[Len(all)] <= Len(packet)
        BY <4>1
      <4>3. /\ cut.error = "None"
            /\ Len(cut.value) = Len(all) /\ DOMAIN cut.value = 1 .. Len(all)
            /\ \A i \in 1 .. Len(all) : Len(cut.value[i]) = all[i]
            /\ FlattenSeq(cut.value) = SubSeq(packet, at + 1, EndsOf(at, all)[Len(all)])
        BY <2>3, <3>4, <4>2, CutIs
      <4> HIDE DEF cut
      <4> QED BY <4>1, <4>3
    <3> HIDE DEF cut
    <3> DEFINE to   == [i \in 0 .. k + 1 |-> IF i <= k THEN pos[i] ELSE at]
               head == Headers(packet, cut.value)
    <3>6. FlattenSeq(head) = SubSeq(packet, from + 1, at)
      <4>1. /\ to \in [0 .. k + 1 -> Nat] /\ to[0] = from /\ to[k + 1] = at
            /\ \A i \in 0 .. k : to[i] = pos[i]
            /\ to[k] = at
        BY <1>1, <2>2, <2>3
      <4>2. /\ head = [i \in 1 .. k + 1 |-> IF i < k + 1 THEN PushLength(all[i]).value ELSE <<>>]
        BY <3>5 DEF Headers
      <4> HIDE DEF to
      <4>3. ASSUME NEW i \in 1 .. k + 1
            PROVE  /\ head[i] = SubSeq(packet, to[i - 1] + 1, to[i])
                   /\ to[i - 1] <= to[i] /\ to[i] <= Len(packet)
        <5>1. CASE i = k + 1
          <6>1. head[i] = <<>> /\ to[i - 1] = at /\ to[i] = at
            BY <1>1, <4>1, <4>2, <5>1
          <6>2. SubSeq(packet, at + 1, at) = <<>>
            BY <2>3, SubSeqEmpty
          <6> QED BY <1>1, <2>1, <2>3, <6>1, <6>2
        <5>2. CASE i \in 1 .. k
          <6>1. i - 1 \in 0 .. k /\ i \in 0 .. k /\ i < k + 1
            BY <1>1, <5>2
          <6>2. to[i - 1] = pos[i - 1] /\ to[i] = pos[i] /\ all[i] = lengths[i]
            BY <3>4, <4>1, <5>2, <6>1
          <6>3. head[i] = PushLength(lengths[i]).value
            BY <4>2, <6>1, <6>2
          <6>4. pos[i] \in from .. end
            BY <2>2, <6>1
          <6> QED BY <1>1, <2>2, <5>2, <6>2, <6>3, <6>4 DEF Written
        <5> QED BY <1>1, <5>1, <5>2
      <4>4. Len(head) = k + 1
        <5>1. \A i \in 1 .. k + 1 : head[i] \in Seq(Bytes)
          <6>1. ASSUME NEW i \in 1 .. k + 1 PROVE head[i] \in Seq(Bytes)
            <7>1. i - 1 \in 0 .. k + 1 /\ i \in 0 .. k + 1
              BY <1>1
            <7>2. /\ to[i - 1] \in Nat /\ to[i] \in Nat
                  /\ to[i - 1] <= to[i] /\ to[i] <= Len(packet)
              BY <4>1, <4>3, <7>1
            <7> QED BY <4>3, <7>2, PartIs, ZenonT(40)
          <6> QED BY <6>1
        <5>2. head = [i \in 1 .. k + 1 |-> head[i]]
          BY <4>2
        <5> HIDE DEF head
        <5>3. head \in Seq(Seq(Bytes))
          <6> DEFINE n == k + 1
          <6>1. n \in Nat /\ head \in [1 .. n -> Seq(Bytes)]
            BY <1>1, <5>1, <5>2
          <6> HIDE DEF n
          <6> QED BY <6>1
        <5> QED BY <1>1, <5>2, <5>3
      <4> HIDE DEF head
      <4>5. from <= Len(packet)
        BY <1>1
      <4> DEFINE n == k + 1
      <4>6. n \in Nat /\ n > 0 /\ Len(head) = n /\ to \in [0 .. n -> Nat] /\ to[0] <= Len(packet)
        BY <1>1, <4>1, <4>4, <4>5
      <4>7. \A i \in 1 .. n : /\ head[i] = SubSeq(packet, to[i - 1] + 1, to[i])
                               /\ to[i - 1] <= to[i] /\ to[i] <= Len(packet)
        BY <4>3
      <4>8. to[n] = at /\ to[0] = from
        BY <4>1
      <4> HIDE DEF n
      <4>9. FlattenSeq(head) = SubSeq(packet, to[0] + 1, to[n])
        <5>1. \A i \in 1 .. n : to[i - 1] <= to[i] /\ to[i] <= Len(packet)
          BY <4>7
        <5>2. \A i \in 1 .. n : head[i] = SubSeq(packet, to[i - 1] + 1, to[i])
          BY <4>7
        <5> QED BY <4>6, <5>1, <5>2, FlattenParts, ZenonT(40)
      <4> QED BY <4>8, <4>9
    <3>7. FramesFill(packet, from, end, count, cut)
      BY <1>1, <2>1, <3>5, <3>6 DEF FramesFill
    <3> QED BY <3>1, <3>7 DEF cut
  <2> QED BY <2>5, <2>6
<1> QED BY <1>2, <1>4, <1>5 DEF frames

(* Frames of one size end at its multiples. *)
LEMMA EqualEnds ==
    ASSUME NEW from \in Nat, NEW size \in Nat, NEW count \in Nat
    PROVE  EndsOf(from, [i \in 1 .. count |-> size])[count] = from + count * size
<1> DEFINE sizes == [i \in 1 .. count |-> size]
           end   == EndsOf(from, sizes)
           S     == {k \in Nat : k <= count => end[k] = from + k * size}
<1>1. sizes \in Seq(Nat) /\ Len(sizes) = count /\ \A i \in 1 .. count : sizes[i] = size
  OBVIOUS
<1> HIDE DEF sizes
<1>2. /\ end[0] = from
      /\ \A i \in 1 .. count : end[i] = end[i - 1] + sizes[i]
  BY <1>1, EndsInOrder
<1> HIDE DEF end
<1>3. 0 \in S
  BY <1>2
<1>4. ASSUME NEW k \in Nat, k \in S PROVE k + 1 \in S
  <2>1. SUFFICES ASSUME k + 1 <= count PROVE end[k + 1] = from + (k + 1) * size
    OBVIOUS
  <2>2. end[k] = from + k * size
    BY <1>4, <2>1
  <2>3. end[k + 1] = end[k] + size
    <3>1. k + 1 \in 1 .. count /\ k + 1 - 1 = k
      BY <2>1
    <3> QED BY <1>1, <1>2, <3>1
  <2>4. (k + 1) * size = k * size + size /\ k * size \in Nat
    OBVIOUS
  <2> QED BY <2>2, <2>3, <2>4
<1>5. Nat \subseteq S
  <2> HIDE DEF S
  <2> QED BY <1>3, <1>4, Induction
<1>6. end[count] = from + count * size
  BY <1>5
<1> QED BY <1>6 DEF end, sizes

(* What is divided without a remainder is so many times the quotient.      *)
LEMMA Divides ==
    ASSUME NEW n \in Nat, NEW d \in Nat \ {0}, n % d = 0
    PROVE  /\ n \div d \in Nat /\ d * (n \div d) = n
           /\ n \div d = 0 <=> n = 0
<1> DEFINE q == n \div d
           r == n % d
<1>1. q \in Int /\ r \in Int /\ n \in Nat /\ d \in Nat /\ d > 0 /\ r = 0
  OBVIOUS
<1>2. q = n \div d /\ r = n % d
  OBVIOUS
<1> HIDE DEF q, r
<1>3. d * q + r = n
  BY <1>1, <1>2
<1>4. d * q = n
  BY <1>1, <1>3
<1>5. q \in Nat
  BY <1>1, <1>4
<1>6. q = 0 <=> n = 0
  BY <1>1, <1>4, <1>5
<1> QED BY <1>4, <1>5, <1>6 DEF q

(* A flattened sequence of nothing is nothing. *)
LEMMA FlattenNothing ==
    ASSUME NEW count \in Nat \ {0}
    PROVE  FlattenSeq([i \in 1 .. count |-> <<>>]) = <<>>
<1> DEFINE none == <<>>
           seqs == [i \in 1 .. count |-> none]
           end  == [i \in 0 .. count |-> 0]
<1>1. none \in Seq(Bytes) /\ Len(none) = 0
  OBVIOUS
<1>2. SubSeq(none, 0 + 1, 0) = none
  BY SubSeqEmpty
<1> SUFFICES FlattenSeq(seqs) = none
  OBVIOUS
<1> HIDE DEF none
<1>3. seqs \in Seq({none}) /\ \A i \in 1 .. count : seqs[i] = none
  OBVIOUS
<1>4. Len(seqs) = count
  BY <1>3
<1>5. count > 0 /\ count \in Nat
  OBVIOUS
<1>6. /\ end \in [0 .. count -> Nat] /\ end[0] = 0 /\ end[count] = 0
      /\ \A i \in 1 .. count : end[i - 1] = 0 /\ end[i] = 0
  OBVIOUS
<1> HIDE DEF seqs, end
<1>7. \A i \in 1 .. count : end[i - 1] <= end[i] /\ end[i] <= Len(none)
  BY <1>1, <1>6
<1>8. \A i \in 1 .. count : seqs[i] = SubSeq(none, end[i - 1] + 1, end[i])
  BY <1>2, <1>3, <1>6
<1>9. end[0] <= Len(none)
  BY <1>1, <1>6
<1>10. FlattenSeq(seqs) = SubSeq(none, end[0] + 1, end[count])
  <2>1. /\ none \in Seq(Bytes) /\ end \in [0 .. count -> Nat] /\ Len(seqs) = count
    BY <1>1, <1>4, <1>6
  <2> QED BY <2>1, <1>5, <1>7, <1>8, <1>9, FlattenParts, Zenon
<1> QED BY <1>2, <1>6, <1>10

OfSize(frames, count, size) ==
    \A i \in 1 .. count : frames[i] \in Seq(Bytes) /\ Len(frames[i]) = size

(* So do the frames of constant rate, all of one size. *)
LEMMA CbrFramesFill ==
    ASSUME NEW packet \in Seq(Bytes), NEW end \in 0 .. Len(packet), NEW from \in 0 .. end,
           NEW count \in Nat \ {0}, ~Vbr(packet), (end - from) % count = 0,
           NEW frames, frames = Cut(packet, from, [i \in 1 .. count |-> (end - from) \div count])
    PROVE  /\ FramesFill(packet, from, end, count, frames)
           /\ OfSize(frames.value, count, (end - from) \div count)
<1> DEFINE size  == (end - from) \div count
           sizes == [i \in 1 .. count |-> size]
<1>0. frames = Cut(packet, from, sizes)
  OBVIOUS
<1>1. /\ end \in Nat /\ from \in Nat /\ Len(packet) \in Nat /\ from <= end
      /\ end <= Len(packet) /\ end - from \in Nat /\ count \in Nat /\ count > 0
  OBVIOUS
<1>2. size \in Nat /\ count * size = end - from
  BY <1>1, Divides
<1> SUFFICES /\ FramesFill(packet, from, end, count, frames)
             /\ OfSize(frames.value, count, size)
  OBVIOUS
<1> HIDE DEF size
<1>3. /\ sizes \in Seq(Nat) /\ Len(sizes) = count /\ sizes # <<>>
      /\ \A i \in 1 .. count : sizes[i] = size
  BY <1>1, <1>2
<1>4. EndsOf(from, sizes)[count] = end
  <2>1. EndsOf(from, sizes)[count] = from + count * size
    BY <1>1, <1>2, EqualEnds
  <2> HIDE DEF sizes
  <2> QED BY <1>1, <1>2, <2>1
<1> HIDE DEF sizes
<1>5. /\ frames.error = "None" /\ Len(frames.value) = count
      /\ DOMAIN frames.value = 1 .. count
      /\ \A i \in 1 .. count : frames.value[i] \in Seq(Bytes) /\ Len(frames.value[i]) = size
      /\ FlattenSeq(frames.value) = SubSeq(packet, from + 1, end)
  <2>1. EndsOf(from, sizes)[Len(sizes)] <= Len(packet)
    BY <1>1, <1>3, <1>4
  <2> DEFINE cut == Cut(packet, from, sizes)
  <2>2. /\ cut.error = "None" /\ Len(cut.value) = Len(sizes)
        /\ DOMAIN cut.value = 1 .. Len(sizes)
        /\ \A i \in 1 .. Len(sizes) :
              cut.value[i] \in Seq(Bytes) /\ Len(cut.value[i]) = sizes[i]
        /\ FlattenSeq(cut.value) = SubSeq(packet, from + 1, EndsOf(from, sizes)[Len(sizes)])
    BY <1>1, <1>3, <2>1, CutIs, SMTT(30)
  <2>3. frames = cut
    BY <1>0
  <2> HIDE DEF cut
  <2> QED BY <1>3, <1>4, <2>2, <2>3
<1>6. FlattenSeq(Headers(packet, frames.value)) = SubSeq(packet, from + 1, from)
  <2>1. Headers(packet, frames.value) = [i \in 1 .. count |-> <<>>]
    BY <1>5 DEF Headers
  <2>2. SubSeq(packet, from + 1, from) = <<>>
    BY <1>1, SubSeqEmpty
  <2> QED BY <1>1, <2>1, <2>2, FlattenNothing
<1>7. from \in from .. end
  BY <1>1
<1>8. FramesFill(packet, from, end, count, frames)
  BY <1>5, <1>6, <1>7 DEF FramesFill
<1> QED BY <1>5, <1>8 DEF OfSize

-----------------------------------------------------------------------------
(* The payload of a code 3 packet lies behind its counts and padding.      *)
LEMMA PayloadRangeIs ==
    ASSUME NEW packet \in Seq(Bytes), Len(packet) >= 2
    PROVE  LET range == PayloadRange(packet) IN
           \/ Malformed(range)
           \/ range.error = "None" /\ range.value \in 2 .. Len(packet) /\ range.at \in 2 .. range.value
<1>1. Len(packet) \in Nat /\ 2 <= Len(packet) /\ \A i \in 1 .. Len(packet) : packet[i] \in 0 .. 255
  <2>1. \A i \in 1 .. Len(packet) : packet[i] \in Bytes
    OBVIOUS
  <2> QED BY <2>1 DEF Bytes
<1>2. CASE (packet[2] \div 64) % 2 = 0
  <2>1. PayloadRange(packet) = Found(2, Len(packet))
    BY <1>2 DEF PayloadRange
  <2>2. Len(packet) \in 2 .. Len(packet) /\ 2 \in 2 .. Len(packet)
    BY <1>1
  <2> QED BY <2>1, <2>2 DEF Found
<1>3. CASE ~((packet[2] \div 64) % 2 = 0)
  <2> DEFINE ends == {i \in 2 + 1 .. Len(packet) : packet[i] # 255}
             last == CHOOSE i \in ends : \A k \in ends : i <= k
             pad  == 254 * (last - 2 - 1) + packet[last]
  <2>1. CASE ends = {}
    <3>1. Padding(packet, 2) = Fail("MalformedPacket")
      BY <2>1 DEF Padding
    <3> QED BY <1>3, <3>1 DEF PayloadRange, Then, Good, Fail, Malformed
  <2>2. CASE ends # {}
    <3>1. Padding(packet, 2) = Found(last, pad)
      BY <2>2 DEF Padding
    <3>2. last \in ends
      <4>1. ends \in SUBSET Nat
        OBVIOUS
      <4>2. \E i \in ends : \A k \in ends : i <= k
        <5> HIDE DEF ends
        <5> QED BY <2>2, <4>1, LeastNatural
      <4> HIDE DEF ends
      <4> QED BY <4>2
    <3>3. last \in 3 .. Len(packet) /\ packet[last] \in 0 .. 255
      <4> HIDE DEF last
      <4> QED BY <1>1, <3>2
    <3> HIDE DEF last, ends
    <3>4. pad \in Nat
      <4> DEFINE x == packet[last]
      <4>1. x \in 0 .. 255 /\ last \in Nat /\ last >= 3
        BY <1>1, <3>3
      <4> HIDE DEF x
      <4>2. 254 * (last - 2 - 1) + x \in Nat
        BY <4>1
      <4> QED BY <4>2 DEF x
    <3> HIDE DEF pad
    <3>5. PayloadRange(packet) = IF last > Len(packet) - pad THEN Fail("MalformedPacket")
                                 ELSE Found(last, Len(packet) - pad)
      BY <1>3, <3>1 DEF PayloadRange, Then, Good, Found
    <3>6. CASE last > Len(packet) - pad
      BY <3>5, <3>6 DEF Malformed, Fail
    <3>7. CASE ~(last > Len(packet) - pad)
      <4>1. Len(packet) - pad \in 2 .. Len(packet) /\ last \in 2 .. Len(packet) - pad
        BY <1>1, <3>3, <3>4, <3>7
      <4> QED BY <3>5, <3>7, <4>1 DEF Found
    <3> QED BY <3>6, <3>7
  <2> QED BY <2>1, <2>2
<1> QED BY <1>2, <1>3
-----------------------------------------------------------------------------
(* The parts of a packet between its ends, put together, are the packet.   *)
LEMMA Together ==
    ASSUME NEW packet \in Seq(Bytes), NEW from \in Nat, NEW at \in Nat, NEW end \in Nat,
           from <= at, at <= end, end <= Len(packet)
    PROVE  SubSeq(packet, 1, from) \o SubSeq(packet, from + 1, at)
             \o SubSeq(packet, at + 1, end) \o SubSeq(packet, end + 1, Len(packet)) = packet
<1> DEFINE l == Len(packet)
<1>1. l \in Nat
  OBVIOUS
<1>2. /\ 1 \in 1 .. l + 1 /\ from \in 1 - 1 .. l /\ at \in from .. l
      /\ at \in 1 - 1 .. l /\ end \in at .. l
      /\ end \in 1 - 1 .. l /\ l \in end .. l
  BY <1>1
<1>3. SubSeq(packet, 1, from) \o SubSeq(packet, from + 1, at) = SubSeq(packet, 1, at)
  BY <1>2, ConcatAdjacentSubSeq
<1>4. SubSeq(packet, 1, at) \o SubSeq(packet, at + 1, end) = SubSeq(packet, 1, end)
  BY <1>2, ConcatAdjacentSubSeq
<1>5. SubSeq(packet, 1, end) \o SubSeq(packet, end + 1, l) = SubSeq(packet, 1, l)
  BY <1>2, ConcatAdjacentSubSeq
<1>6. SubSeq(packet, 1, l) = packet
  BY SubSeqFull
<1> QED BY <1>3, <1>4, <1>5, <1>6

(* Where the payload of a code 3 packet lies within it. *)
Bounded(packet, range) ==
    /\ range.error = "None"
    /\ range.value \in 2 .. Len(packet)
    /\ range.at \in 2 .. range.value

(* What is known of the bounds of a payload. *)
LEMMA BoundsAre ==
    ASSUME NEW packet \in Seq(Bytes), NEW range, Bounded(packet, range)
    PROVE  /\ range.value \in 0 .. Len(packet) /\ range.at \in 0 .. range.value
           /\ range.value - range.at \in Nat
<1> DEFINE end  == range.value
           from == range.at
           l    == Len(packet)
<1>1. l \in Nat /\ end \in 2 .. l /\ from \in 2 .. end
  BY DEF Bounded
<1> HIDE DEF end, from, l
<1>2. end \in 0 .. l /\ from \in 0 .. end /\ end - from \in Nat
  BY <1>1
<1> QED BY <1>2 DEF end, from, l

(* What fills the payload makes up the packet with what is around it. *)
LEMMA FillMakesPacket ==
    ASSUME NEW packet \in Seq(Bytes), Bounded(packet, PayloadRange(packet)),
           NEW result, NEW count,
           FramesFill(packet, PayloadRange(packet).at, PayloadRange(packet).value, count, result)
    PROVE  Reassembled(packet, result.value) = packet
<1> DEFINE from == PayloadRange(packet).at
           end  == PayloadRange(packet).value
<1>1. from \in Nat /\ end \in Nat /\ from <= end /\ end <= Len(packet)
  BY DEF Bounded
<1>2. Reassembled(packet, result.value)
        = SubSeq(packet, 1, from) \o FlattenSeq(Headers(packet, result.value))
            \o FlattenSeq(result.value) \o SubSeq(packet, end + 1, Len(packet))
  BY DEF Reassembled
<1>3. PICK at \in from .. end :
         /\ FlattenSeq(Headers(packet, result.value)) = SubSeq(packet, from + 1, at)
         /\ FlattenSeq(result.value) = SubSeq(packet, at + 1, end)
  BY DEF FramesFill
<1> HIDE DEF from, end
<1>4. at \in Nat /\ from <= at /\ at <= end
  BY <1>1, <1>3
<1>5. SubSeq(packet, 1, from) \o SubSeq(packet, from + 1, at)
        \o SubSeq(packet, at + 1, end) \o SubSeq(packet, end + 1, Len(packet)) = packet
  BY <1>1, <1>4, Together, ZenonT(40)
<1> QED BY <1>2, <1>3, <1>5, Zenon

(* The header of a code 3 packet counts its frames. *)
LEMMA FrameCountIs ==
    ASSUME NEW packet \in Seq(Bytes), Len(packet) >= 2
    PROVE  FrameCount(packet) \in 0 .. 63
<1> DEFINE b == packet[2]
<1>1. b \in 0 .. 255
  <2>1. b \in Bytes
    OBVIOUS
  <2> QED BY <2>1 DEF Bytes
<1> HIDE DEF b
<1>2. b % 64 \in 0 .. 63
  BY <1>1
<1> QED BY <1>2 DEF FrameCount, b

(* The general parser of code 3 packets refuses a packet or fills its      *)
(* payload with the frames.                                                *)
LEMMA GeneralFills ==
    ASSUME NEW packet \in Seq(Bytes), Len(packet) >= 2
    PROVE  \/ Malformed(Code3Frames(packet))
           \/ /\ Bounded(packet, PayloadRange(packet))
              /\ FramesFill(packet, PayloadRange(packet).at, PayloadRange(packet).value,
                            FrameCount(packet), Code3Frames(packet))
<1> DEFINE count == FrameCount(packet)
           range == PayloadRange(packet)
           from  == range.at
           end   == range.value
           parsed == Code3Frames(packet)
<1>1. count \in 0 .. 63
  BY FrameCountIs
<1>2. Len(packet) \in Nat /\ ~(Len(packet) < 2)
  OBVIOUS
<1>3. CASE count \notin 1 .. 48
  BY <1>2, <1>3 DEF Code3Frames, Malformed, Fail
<1>4. CASE count \in 1 .. 48 /\ Malformed(range)
  <2>1. parsed = range
    BY <1>2, <1>4 DEF Code3Frames, Malformed, Then, Good
  <2> QED BY <1>4, <2>1
<1>5. CASE count \in 1 .. 48 /\ Bounded(packet, range)
  <2>1. parsed = IF Vbr(packet) THEN VbrFrames(packet, from, end, count)
                 ELSE IF (end - from) % count # 0 THEN Fail("MalformedPacket")
                 ELSE Cut(packet, from, [i \in 1 .. count |-> (end - from) \div count])
    BY <1>2, <1>5 DEF Code3Frames, Bounded, Then, Good
  <2>2. end \in 0 .. Len(packet) /\ from \in 0 .. end
    BY <1>5, BoundsAre
  <2>6. count \in Nat \ {0}
    <3>1. count \in 1 .. 48
      BY <1>5, Zenon
    <3> HIDE DEF count
    <3> QED BY <3>1
  <2> HIDE DEF parsed, count, range
  <2>3. CASE Vbr(packet)
    <3>1. parsed = VbrFrames(packet, from, end, count)
      BY <2>1, <2>3
    <3>2. Malformed(parsed) \/ FramesFill(packet, from, end, count, parsed)
      BY <2>2, <2>3, <2>6, <3>1, VbrFramesFill
    <3> QED BY <1>5, <3>2 DEF parsed, count, range
  <2>4. CASE ~Vbr(packet) /\ (end - from) % count # 0
    <3>1. parsed = Fail("MalformedPacket")
      BY <2>1, <2>4
    <3> QED BY <3>1 DEF Malformed, Fail, parsed
  <2>5. CASE ~Vbr(packet) /\ (end - from) % count = 0
    <3>1. parsed = Cut(packet, from, [i \in 1 .. count |-> (end - from) \div count])
      BY <2>1, <2>5
    <3>2. FramesFill(packet, from, end, count, parsed)
      BY <2>2, <2>5, <2>6, <3>1, CbrFramesFill
    <3> QED BY <1>5, <3>2 DEF parsed, count, range
  <2> QED BY <2>3, <2>4, <2>5
<1>6. Malformed(range) \/ Bounded(packet, range)
  BY PayloadRangeIs DEF Bounded
<1> QED BY <1>3, <1>4, <1>5, <1>6

(* The call decoder's parser refuses a packet or finds its frames.  *)
LEMMA CallFinds ==
    ASSUME NEW packet \in Seq(Bytes), Len(packet) >= 2
    PROVE  LET call == SubframePayloads(packet, FrameCount(packet)) IN
           Malformed(call) \/ call.error = "None"
<1> DEFINE count == FrameCount(packet)
           range == PayloadRange(packet)
           from  == range.at
           end   == range.value
           call  == SubframePayloads(packet, count)
<1>1. count \in 0 .. 63
  BY FrameCountIs
<1>2. Len(packet) \in Nat /\ ~(Len(packet) < 2)
  OBVIOUS
<1>3. CASE count = 0
  BY <1>2, <1>3 DEF SubframePayloads, Malformed, Fail
<1>4. CASE count # 0 /\ Malformed(range)
  <2>1. call = range
    BY <1>2, <1>4 DEF SubframePayloads, Malformed, Then, Good
  <2> QED BY <1>4, <2>1
<1>5. CASE count # 0 /\ Bounded(packet, range)
  <2>1. call = IF Vbr(packet) THEN VbrFrames(packet, from, end, count)
               ELSE CbrChunks(packet, from, end, count)
    BY <1>2, <1>5 DEF SubframePayloads, Bounded, Then, Good
  <2>2. end \in 0 .. Len(packet) /\ from \in 0 .. end
    BY <1>5, BoundsAre
  <2>6. count \in Nat \ {0}
    <3>1. count \in 0 .. 63 /\ count # 0
      BY <1>1, <1>5, Zenon
    <3> HIDE DEF count
    <3> QED BY <3>1
  <2> HIDE DEF call, count, range
  <2>3. CASE Vbr(packet)
    <3>1. call = VbrFrames(packet, from, end, count)
      BY <2>1, <2>3
    <3>2. Malformed(call) \/ FramesFill(packet, from, end, count, call)
      BY <2>2, <2>3, <2>6, <3>1, VbrFramesFill
    <3> QED BY <3>2 DEF FramesFill, call, count
  <2>4. CASE ~Vbr(packet)
    <3>1. call = CbrChunks(packet, from, end, count)
      BY <2>1, <2>4
    <3>2. CASE (end - from) % count # 0 \/ end = from
      <4>1. call = Fail("MalformedPacket")
        BY <3>1, <3>2 DEF CbrChunks
      <4> QED BY <4>1 DEF Malformed, Fail, call, count
    <3>3. CASE (end - from) % count = 0 /\ end # from
      <4>1. call = Cut(packet, from, [i \in 1 .. count |-> (end - from) \div count])
        BY <3>1, <3>3 DEF CbrChunks
      <4>2. FramesFill(packet, from, end, count, call)
        BY <2>2, <2>4, <2>6, <3>3, <4>1, CbrFramesFill
      <4> QED BY <4>2 DEF FramesFill, call, count
    <3> QED BY <3>2, <3>3
  <2> QED BY <2>3, <2>4
<1>6. Malformed(range) \/ Bounded(packet, range)
  BY PayloadRangeIs DEF Bounded
<1> QED BY <1>3, <1>4, <1>5, <1>6

(* Both parsers find the same frames, but for frames of nothing. *)
LEMMA ParsersMeet ==
    ASSUME NEW packet \in Seq(Bytes), Len(packet) >= 2, FrameCount(packet) <= 48
    PROVE  LET general == Code3Frames(packet)
               call    == SubframePayloads(packet, FrameCount(packet))
               empty   == ~Vbr(packet) /\ \A i \in DOMAIN general.value : general.value[i] = <<>>
           IN  /\ Good(call) <=> Good(general) /\ ~empty
               /\ Good(call) => call.value = general.value
<1> DEFINE count == FrameCount(packet)
           range == PayloadRange(packet)
           from  == range.at
           end   == range.value
           general == Code3Frames(packet)
           call  == SubframePayloads(packet, count)
           empty == ~Vbr(packet) /\ \A i \in DOMAIN general.value : general.value[i] = <<>>
<1> SUFFICES /\ Good(call) <=> Good(general) /\ ~empty
             /\ Good(call) => call.value = general.value
  OBVIOUS
<1>1. count \in 0 .. 48
  <2>1. count \in 0 .. 63 /\ count <= 48
    BY FrameCountIs
  <2> HIDE DEF count
  <2> QED BY <2>1
<1>2. Len(packet) \in Nat /\ ~(Len(packet) < 2)
  OBVIOUS
<1>3. CASE count = 0
  <2>1. call = Fail("MalformedPacket") /\ general = Fail("MalformedPacket")
    BY <1>2, <1>3 DEF SubframePayloads, Code3Frames
  <2> HIDE DEF call, general
  <2> QED BY <2>1 DEF Good, Fail
<1>4. CASE count \in 1 .. 48 /\ Malformed(range)
  <2>0. count # 0 /\ ~Good(range)
    <3>1. count \in 1 .. 48 /\ range.error = "MalformedPacket"
      BY <1>4, Zenon DEF Malformed
    <3> HIDE DEF count, range
    <3> QED BY <3>1 DEF Good
  <2>1. call = range
    BY <1>2, <2>0 DEF SubframePayloads, Then
  <2>2. general = range
    BY <1>2, <1>4, <2>0 DEF Code3Frames, Then
  <2> HIDE DEF call, general
  <2> QED BY <2>0, <2>1, <2>2
<1>5. CASE count \in 1 .. 48 /\ Bounded(packet, range)
  <2>0. count # 0 /\ Good(range)
    <3>1. count \in 1 .. 48 /\ range.error = "None"
      BY <1>5, Zenon DEF Bounded
    <3> HIDE DEF count, range
    <3> QED BY <3>1 DEF Good
  <2>1. /\ call = IF Vbr(packet) THEN VbrFrames(packet, from, end, count)
                  ELSE CbrChunks(packet, from, end, count)
        /\ general = IF Vbr(packet) THEN VbrFrames(packet, from, end, count)
                     ELSE IF (end - from) % count # 0 THEN Fail("MalformedPacket")
                     ELSE Cut(packet, from, [i \in 1 .. count |-> (end - from) \div count])
    <3>1. call = IF Vbr(packet) THEN VbrFrames(packet, from, end, count)
                 ELSE CbrChunks(packet, from, end, count)
      BY <1>2, <2>0 DEF SubframePayloads, Then
    <3>2. general = IF Vbr(packet) THEN VbrFrames(packet, from, end, count)
                    ELSE IF (end - from) % count # 0 THEN Fail("MalformedPacket")
                    ELSE Cut(packet, from, [i \in 1 .. count |-> (end - from) \div count])
      BY <1>2, <1>5, <2>0 DEF Code3Frames, Then
    <3> HIDE DEF call, general
    <3> QED BY <3>1, <3>2
  <2>2. end \in 0 .. Len(packet) /\ from \in 0 .. end /\ end - from \in Nat
    BY <1>5, BoundsAre
  <2>6. count \in Nat \ {0}
    <3>1. count \in 1 .. 48
      BY <1>5, Zenon
    <3> HIDE DEF count
    <3> QED BY <3>1
  <2> HIDE DEF call, general, count, range
  <2>3. CASE Vbr(packet)
    <3>1. call = general
      BY <2>1, <2>3
    <3> QED BY <2>3, <3>1
  <2>4. CASE ~Vbr(packet) /\ (end - from) % count # 0
    <3>1. call = Fail("MalformedPacket") /\ general = Fail("MalformedPacket")
      BY <2>1, <2>4 DEF CbrChunks
    <3> QED BY <3>1 DEF Good, Fail
  <2>5. CASE ~Vbr(packet) /\ (end - from) % count = 0
    <3> DEFINE size == (end - from) \div count
    <3>1. general = Cut(packet, from, [i \in 1 .. count |-> size])
      BY <2>1, <2>5
    <3>2. /\ FramesFill(packet, from, end, count, general)
          /\ OfSize(general.value, count, size)
      <4>1. end \in 0 .. Len(packet) /\ from \in 0 .. end
        BY <2>2
      <4>2. ~Vbr(packet) /\ (end - from) % count = 0
        BY <2>5
      <4>3. FramesFill(packet, from, end, count, general)
        BY <2>6, <3>1, <4>1, <4>2, CbrFramesFill
      <4>4. OfSize(general.value, count, (end - from) \div count)
        BY <2>6, <3>1, <4>1, <4>2, CbrFramesFill
      <4> QED BY <4>3, <4>4
    <3>3. Good(general) /\ DOMAIN general.value = 1 .. count
      BY <3>2 DEF FramesFill, Good
    <3>4. size \in Nat /\ (size = 0 <=> end - from = 0)
      BY <2>2, <2>5, <2>6, Divides
    <3> HIDE DEF size
    <3>5. CASE end = from
      <4>1. call = Fail("MalformedPacket")
        BY <2>1, <2>5, <3>5 DEF CbrChunks
      <4>2. size = 0
        BY <2>2, <3>4, <3>5
      <4>3. \A i \in 1 .. count : general.value[i] = <<>>
        BY <3>2, <4>2, EmptySeq DEF OfSize
      <4>4. empty
        BY <2>5, <3>3, <4>3
      <4> QED BY <4>1, <4>4 DEF Good, Fail
    <3>6. CASE end # from
      <4>1. call = general
        BY <2>1, <2>5, <3>1, <3>6 DEF CbrChunks, size
      <4>2. size # 0
        BY <2>2, <3>4, <3>6
      <4>3. 1 \in 1 .. count
        BY <2>6
      <4>4. general.value[1] # <<>>
        BY <3>2, <4>2, <4>3 DEF OfSize
      <4>5. ~empty
        BY <3>3, <4>3, <4>4
      <4> QED BY <3>3, <4>1, <4>5
    <3> QED BY <3>5, <3>6
  <2> QED BY <2>3, <2>4, <2>5
<1>6. Malformed(range) \/ Bounded(packet, range)
  BY PayloadRangeIs DEF Bounded
<1> QED BY <1>1, <1>3, <1>4, <1>5, <1>6

-----------------------------------------------------------------------------
(* Two frames of a packet end behind both. *)
LEMMA PairEnds ==
    ASSUME NEW packet \in Seq(Bytes), NEW from \in Nat, NEW a \in Nat, NEW b \in Nat,
           from + a + b <= Len(packet)
    PROVE  Cut(packet, from, <<a, b>>).error = "None"
<1> DEFINE pair == <<a, b>>
<1>1. pair \in Seq(Nat) /\ Len(pair) = 2 /\ pair[1] = a /\ pair[2] = b /\ pair # <<>>
  OBVIOUS
<1> HIDE DEF pair
<1>2. EndsOf(from, pair)[2] = from + a + b
  <2> DEFINE end == EndsOf(from, pair)
  <2>0. end[0] = from /\ \A i \in 1 .. Len(pair) : end[i] = end[i - 1] + pair[i]
    BY <1>1, EndsInOrder
  <2>1. end[0] = from /\ \A i \in 1 .. 2 : end[i] = end[i - 1] + pair[i]
    BY <1>1, <2>0
  <2> HIDE DEF end
  <2>2. end[1] = from + a /\ end[2] = end[1] + b
    BY <1>1, <2>1
  <2>3. end[2] = from + a + b
    BY <2>2
  <2> QED BY <2>3 DEF end
<1>3. EndsOf(from, pair)[Len(pair)] <= Len(packet)
  BY <1>1, <1>2
<1>4. Cut(packet, from, pair).error = "None"
  BY <1>1, <1>3, CutIs
<1> QED BY <1>4 DEF pair

(* The general parser refuses a packet or finds its frames. *)
LEMMA PacketFramesIs ==
    ASSUME NEW packet \in Seq(Bytes), packet # <<>>
    PROVE  Malformed(PacketFrames(packet)) \/ PacketFrames(packet).error = "None"
<1> DEFINE size  == Len(packet) - 1
           body  == Tail(packet)
           code  == packet[1] % 4
           found == PacketFrames(packet)
<1>1. Len(packet) \in Nat /\ Len(packet) >= 1 /\ size \in Nat
  OBVIOUS
<1>2. body \in Seq(Bytes) /\ Len(body) = size
  OBVIOUS
<1>3. found = CASE code = 0 -> Found(0, <<body>>)
                [] code = 1 -> IF size % 2 # 0 THEN Fail("MalformedPacket")
                               ELSE Cut(packet, 1, <<size \div 2, size \div 2>>)
                [] code = 2 -> Then(ReadLength(body), LAMBDA used, first :
                      IF first > size - used THEN Fail("MalformedPacket")
                      ELSE Cut(packet, 1 + used, <<first, size - used - first>>))
                [] OTHER -> Code3Frames(packet)
  BY DEF PacketFrames
<1> HIDE DEF size, body, code, found
<1>4. CASE code = 0
  <2>1. found = Found(0, <<body>>)
    BY <1>3, <1>4
  <2> QED BY <2>1 DEF Found, found
<1>5. CASE code = 1 /\ size % 2 # 0
  <2>1. found = Fail("MalformedPacket")
    BY <1>3, <1>5
  <2> QED BY <2>1 DEF Malformed, Fail, found
<1>6. CASE code = 1 /\ size % 2 = 0
  <2>1. found = Cut(packet, 1, <<size \div 2, size \div 2>>)
    BY <1>3, <1>6
  <2> DEFINE half == size \div 2
  <2>2. half \in Nat /\ half + half = size
    BY <1>1, <1>6
  <2> HIDE DEF half
  <2>3. 1 + half + half <= Len(packet)
    BY <1>1, <2>2 DEF size
  <2>4. Cut(packet, 1, <<half, half>>).error = "None"
    BY <2>2, <2>3, PairEnds
  <2> QED BY <2>1, <2>4 DEF half, found
<1>7. CASE code = 2
  <2> DEFINE read  == ReadLength(body)
             used  == read.at
             first == read.value
  <2>1. found = IF Good(read)
                THEN IF first > size - used THEN Fail("MalformedPacket")
                     ELSE Cut(packet, 1 + used, <<first, size - used - first>>)
                ELSE read
    BY <1>3, <1>7 DEF Then
  <2>2. Malformed(read) \/ LengthIn(body, read)
    BY <1>2, ReadLengthIs
  <2> HIDE DEF read
  <2>3. CASE Malformed(read)
    <3>1. found = read
      BY <2>1, <2>3 DEF Malformed, Good
    <3> QED BY <2>3, <3>1 DEF found
  <2>4. CASE LengthIn(body, read)
    <3>0. Good(read) /\ used \in 1 .. 2 /\ used <= Len(body) /\ first \in 0 .. 1275
      BY <2>4 DEF LengthIn, Good
    <3> HIDE DEF used, first
    <3>1. Good(read) /\ used \in Nat /\ used <= size /\ first \in Nat
      BY <1>2, <3>0
    <3>2. CASE first > size - used
      <4>1. found = Fail("MalformedPacket")
        BY <2>1, <3>1, <3>2
      <4> QED BY <4>1 DEF Malformed, Fail, found
    <3>3. CASE ~(first > size - used)
      <4> DEFINE rest == size - used - first
                 at   == 1 + used
      <4>1. found = Cut(packet, at, <<first, rest>>)
        BY <2>1, <3>1, <3>3
      <4>2. rest \in Nat /\ at \in Nat /\ at + first + rest = Len(packet)
        BY <1>1, <3>1, <3>3 DEF size
      <4> HIDE DEF rest, at
      <4>3. Cut(packet, at, <<first, rest>>).error = "None"
        BY <1>1, <3>1, <4>2, PairEnds
      <4> QED BY <4>1, <4>3 DEF found
    <3> QED BY <3>2, <3>3
  <2> QED BY <2>2, <2>3, <2>4
<1>8. CASE code \notin {0, 1, 2}
  <2>1. found = Code3Frames(packet)
    BY <1>3, <1>8
  <2>2. CASE Len(packet) < 2
    <3>1. Code3Frames(packet) = Fail("MalformedPacket")
      BY <2>2 DEF Code3Frames
    <3> QED BY <2>1, <3>1 DEF Malformed, Fail, found
  <2>3. CASE Len(packet) >= 2
    BY <2>1, <2>3, GeneralFills DEF FramesFill, found
  <2> QED BY <1>1, <2>2, <2>3
<1> QED BY <1>4, <1>5, <1>6, <1>7, <1>8

(* Looking at a packet adds limits and no way to fail but by them. *)
LEMMA InspectIs ==
    ASSUME NEW packet \in Seq(Bytes), packet # <<>>
    PROVE  Inspect(packet).error # "Panic"
<1> DEFINE read     == PacketFrames(packet)
           duration == SamplesPerFrame(packet[1]) * Len(read.value)
           found    == Inspect(packet)
<1>1. found = IF Len(packet) > 61440 THEN Fail("EncodedPacketTooLarge")
              ELSE IF Good(read)
              THEN CASE \E i \in DOMAIN read.value : Len(read.value[i]) > 1275 ->
                          Fail("EncodedFrameTooLarge")
                     [] duration > 5760 -> Fail("MalformedPacket")
                     [] OTHER -> Found(duration, read.value)
              ELSE read
  BY DEF Inspect, Then
<1>2. Malformed(read) \/ read.error = "None"
  BY PacketFramesIs
<1> HIDE DEF read, duration, found
<1>3. CASE found = read
  BY <1>2, <1>3 DEF Malformed, found
<1>4. CASE \/ found = Fail("EncodedPacketTooLarge") \/ found = Fail("EncodedFrameTooLarge")
           \/ found = Fail("MalformedPacket") \/ found = Found(duration, read.value)
  BY <1>4 DEF Fail, Found, found
<1>5. \/ found = read
      \/ found = Fail("EncodedPacketTooLarge") \/ found = Fail("EncodedFrameTooLarge")
      \/ found = Fail("MalformedPacket") \/ found = Found(duration, read.value)
  BY <1>1
<1> QED BY <1>3, <1>4, <1>5

(* The two parsers agree on every packet of bytes. *)
LEMMA EveryPacket ==
    ASSUME NEW packet \in Seq(Bytes), packet # <<>>
    PROVE  ParsersAgree(packet)
<1> DEFINE general == PacketFrames(packet)
           call    == SubframePayloads(packet, FrameCount(packet))
<1>1. general.error # "Panic" /\ Inspect(packet).error # "Panic"
  BY PacketFramesIs, InspectIs DEF Malformed
<1>2. ASSUME packet[1] % 4 = 3, Len(packet) > 1
      PROVE  /\ general = Code3Frames(packet)
             /\ call.error # "Panic"
             /\ Good(general) => Reassembled(packet, general.value) = packet
  <2>1. general = Code3Frames(packet)
    <3> DEFINE code == packet[1] % 4
    <3>1. code # 0 /\ code # 1 /\ code # 2
      BY <1>2
    <3> HIDE DEF code
    <3> QED BY <3>1 DEF PacketFrames, code
  <2>2. Len(packet) >= 2
    BY <1>2
  <2>3. call.error # "Panic"
    BY <2>2, CallFinds DEF Malformed
  <2> HIDE DEF general, call
  <2>4. ASSUME Good(general) PROVE Reassembled(packet, general.value) = packet
    <3>1. ~Malformed(general)
      BY <2>4 DEF Good, Malformed
    <3> QED BY <2>1, <2>2, <3>1, GeneralFills, FillMakesPacket
  <2> QED BY <2>1, <2>3, <2>4
<1>3. ASSUME packet[1] % 4 = 3, Len(packet) > 1, FrameCount(packet) <= 48
      PROVE  /\ Good(call) <=> Good(general)
                  /\ ~(~Vbr(packet) /\ \A i \in DOMAIN general.value : general.value[i] = <<>>)
             /\ Good(call) => call.value = general.value
  <2>1. general = Code3Frames(packet)
    BY <1>2, <1>3
  <2>2. Len(packet) >= 2
    BY <1>3
  <2> QED BY <1>3, <2>1, <2>2, ParsersMeet
<1> HIDE DEF general, call
<1> QED BY <1>1, <1>2, <1>3 DEF ParsersAgree, general, call

-----------------------------------------------------------------------------
(* A profile whose frame is one subframe, or three that take 60 ms. *)
OneSubframe(profile, frames) ==
    /\ EncoderLayout(profile) = Found(0, [count |-> 1, frames |-> frames])
    /\ DecoderLayout(profile) = Found(0, [count |-> 1, frames |-> frames])

ThreeSubframes(profile, frames) ==
    /\ EncoderLayout(profile) = Found(0, [count |-> 3, frames |-> frames])
    /\ DecoderLayout(profile) = Found(0, [count |-> 3, frames |-> frames])

(* A frame the codec takes as a whole is one subframe. *)
LEMMA DirectLayout ==
    ASSUME NEW rate \in Nat, NEW frames \in Nat \ {0}, rate % frames = 0
    PROVE  PacketLayout(rate, frames) = Found(0, [count |-> 1, frames |-> frames])
BY DEF PacketLayout, Direct

(* Another is cut into subframes of 20 ms. *)
LEMMA SplitLayout ==
    ASSUME NEW rate \in Nat, NEW frames \in Nat \ {0}, rate % frames # 0,
           NEW subframe \in Nat \ {0}, subframe = rate \div 50,
           frames % subframe = 0, rate % subframe = 0,
           NEW count \in Nat, count = frames \div subframe
    PROVE  PacketLayout(rate, frames) = Found(0, [count |-> count, frames |-> subframe])
BY DEF PacketLayout, Direct

(* The encoder's subframes have the samples of the source rate. *)
LEMMA EncoderLayoutIs ==
    ASSUME NEW profile, NEW scaled, ScaleSampleFrames(profile) = Found(0, scaled),
           NEW count, NEW frames,
           PacketLayout(profile.encode, scaled) = Found(0, [count |-> count, frames |-> frames]),
           SampleFrames(profile) % count = 0
    PROVE  EncoderLayout(profile)
             = Found(0, [count |-> count, frames |-> SampleFrames(profile) \div count])
<1> DEFINE layout == [count |-> count, frames |-> frames]
           more   == [layout EXCEPT !.frames = SampleFrames(profile) \div layout.count]
<1>1. layout.count = count
  OBVIOUS
<1>2. more = [count |-> count, frames |-> SampleFrames(profile) \div count]
  OBVIOUS
<1>3. EncoderLayout(profile) = Found(0, more)
  BY DEF EncoderLayout, Then, Found, Good
<1> QED BY <1>2, <1>3

(* Encoder and decoder of each Opus profile cut its frame alike. *)
LEMMA ProfileLayouts ==
    /\ ThreeSubframes(OpusProfile["QualityMedium"], 480)
    /\ ThreeSubframes(OpusProfile["QualityHigh"], 960)
    /\ ThreeSubframes(OpusProfile["QualityMax"], 960)
    /\ OneSubframe(OpusProfile["LatencyLow"], 480)
    /\ OneSubframe(OpusProfile["LatencyUltraLow"], 240)
<1>1. ThreeSubframes(OpusProfile["QualityMedium"], 480)
  <2> DEFINE p == OpusProfile["QualityMedium"]
  <2>1. p.rate = 24000 /\ p.encode = 16000 /\ p.ms = 60
    BY DEF OpusProfile
  <2> HIDE DEF p
  <2>2. SampleFrames(p) = 1440
    BY <2>1 DEF SampleFrames
  <2>3. ScaleSampleFrames(p) = Found(0, 960)
    BY <2>1, <2>2 DEF ScaleSampleFrames
  <2>4. PacketLayout(16000, 960) = Found(0, [count |-> 3, frames |-> 320])
    <3>1. /\ 16000 % 960 # 0 /\ 320 = 16000 \div 50 /\ 960 % 320 = 0 /\ 16000 % 320 = 0
          /\ 3 = 960 \div 320
      OBVIOUS
    <3> QED BY <3>1, SplitLayout
  <2>5. PacketLayout(24000, 1440) = Found(0, [count |-> 3, frames |-> 480])
    <3>1. /\ 24000 % 1440 # 0 /\ 480 = 24000 \div 50 /\ 1440 % 480 = 0 /\ 24000 % 480 = 0
          /\ 3 = 1440 \div 480
      OBVIOUS
    <3> QED BY <3>1, SplitLayout
  <2>6. EncoderLayout(p) = Found(0, [count |-> 3, frames |-> 1440 \div 3])
    BY <2>1, <2>2, <2>3, <2>4, EncoderLayoutIs
  <2>7. DecoderLayout(p) = Found(0, [count |-> 3, frames |-> 480])
    BY <2>1, <2>2, <2>5 DEF DecoderLayout
  <2>8. 1440 \div 3 = 480
    OBVIOUS
  <2> QED BY <2>6, <2>7, <2>8 DEF ThreeSubframes, p
<1>2. ASSUME NEW p, p.rate = 48000, p.encode = 48000, p.ms = 60
      PROVE  ThreeSubframes(p, 960)
  <2>2. SampleFrames(p) = 2880
    BY <1>2 DEF SampleFrames
  <2>3. ScaleSampleFrames(p) = Found(0, 2880)
    BY <1>2, <2>2 DEF ScaleSampleFrames
  <2>4. PacketLayout(48000, 2880) = Found(0, [count |-> 3, frames |-> 960])
    <3>1. /\ 48000 % 2880 # 0 /\ 960 = 48000 \div 50 /\ 2880 % 960 = 0 /\ 48000 % 960 = 0
          /\ 3 = 2880 \div 960
      OBVIOUS
    <3> QED BY <3>1, SplitLayout
  <2>6. EncoderLayout(p) = Found(0, [count |-> 3, frames |-> 2880 \div 3])
    BY <1>2, <2>2, <2>3, <2>4, EncoderLayoutIs
  <2>7. DecoderLayout(p) = Found(0, [count |-> 3, frames |-> 960])
    BY <1>2, <2>2, <2>4 DEF DecoderLayout
  <2>8. 2880 \div 3 = 960
    OBVIOUS
  <2> QED BY <2>6, <2>7, <2>8 DEF ThreeSubframes
<1>3. ThreeSubframes(OpusProfile["QualityHigh"], 960)
  <2> DEFINE p == OpusProfile["QualityHigh"]
  <2>1. p.rate = 48000 /\ p.encode = 48000 /\ p.ms = 60
    BY DEF OpusProfile
  <2> HIDE DEF p
  <2> QED BY <1>2, <2>1 DEF p
<1>4. ThreeSubframes(OpusProfile["QualityMax"], 960)
  <2> DEFINE p == OpusProfile["QualityMax"]
  <2>1. p.rate = 48000 /\ p.encode = 48000 /\ p.ms = 60
    BY DEF OpusProfile
  <2> HIDE DEF p
  <2> QED BY <1>2, <2>1 DEF p
<1>5. OneSubframe(OpusProfile["LatencyLow"], 480)
  <2> DEFINE p == OpusProfile["LatencyLow"]
  <2>1. p.rate = 24000 /\ p.encode = 16000 /\ p.ms = 20
    BY DEF OpusProfile
  <2> HIDE DEF p
  <2>2. SampleFrames(p) = 480
    BY <2>1 DEF SampleFrames
  <2>3. ScaleSampleFrames(p) = Found(0, 320)
    BY <2>1, <2>2 DEF ScaleSampleFrames
  <2>4. PacketLayout(16000, 320) = Found(0, [count |-> 1, frames |-> 320])
    BY DirectLayout
  <2>5. PacketLayout(24000, 480) = Found(0, [count |-> 1, frames |-> 480])
    BY DirectLayout
  <2>6. EncoderLayout(p) = Found(0, [count |-> 1, frames |-> 480 \div 1])
    BY <2>1, <2>2, <2>3, <2>4, EncoderLayoutIs
  <2>7. DecoderLayout(p) = Found(0, [count |-> 1, frames |-> 480])
    BY <2>1, <2>2, <2>5 DEF DecoderLayout
  <2>8. 480 \div 1 = 480
    OBVIOUS
  <2> QED BY <2>6, <2>7, <2>8 DEF OneSubframe, p
<1>6. OneSubframe(OpusProfile["LatencyUltraLow"], 240)
  <2> DEFINE p == OpusProfile["LatencyUltraLow"]
  <2>1. p.rate = 24000 /\ p.encode = 16000 /\ p.ms = 10
    BY DEF OpusProfile
  <2> HIDE DEF p
  <2>2. SampleFrames(p) = 240
    BY <2>1 DEF SampleFrames
  <2>3. ScaleSampleFrames(p) = Found(0, 160)
    BY <2>1, <2>2 DEF ScaleSampleFrames
  <2>4. PacketLayout(16000, 160) = Found(0, [count |-> 1, frames |-> 160])
    BY DirectLayout
  <2>5. PacketLayout(24000, 240) = Found(0, [count |-> 1, frames |-> 240])
    BY DirectLayout
  <2>6. EncoderLayout(p) = Found(0, [count |-> 1, frames |-> 240 \div 1])
    BY <2>1, <2>2, <2>3, <2>4, EncoderLayoutIs
  <2>7. DecoderLayout(p) = Found(0, [count |-> 1, frames |-> 240])
    BY <2>1, <2>2, <2>5 DEF DecoderLayout
  <2>8. 240 \div 1 = 240
    OBVIOUS
  <2> QED BY <2>6, <2>7, <2>8 DEF OneSubframe, p
<1> QED BY <1>1, <1>3, <1>4, <1>5, <1>6

(* The profiles whose frame is three subframes, and their ceilings. *)
LEMMA ProfileIs ==
    ASSUME NEW name \in DOMAIN OpusProfile
    PROVE  LET profile == OpusProfile[name] IN
           /\ EncoderLayout(profile).value = DecoderLayout(profile).value
           /\ \/ SubframeCount(name) = 1
              \/ /\ SubframeCount(name) = 3 /\ profile.ms = 60
                 /\ MaxPayloadBytes(profile) \in {60, 120, 240}
<1>1. name \in {"QualityMedium", "QualityHigh", "QualityMax", "LatencyLow", "LatencyUltraLow"}
  BY DEF OpusProfile
<1> DEFINE profile == OpusProfile[name]
<1>2. ASSUME NEW frames, OneSubframe(profile, frames)
      PROVE  /\ EncoderLayout(profile).value = DecoderLayout(profile).value
             /\ SubframeCount(name) = 1
  BY <1>2 DEF OneSubframe, Found, SubframeCount
<1>3. ASSUME NEW frames, ThreeSubframes(profile, frames)
      PROVE  /\ EncoderLayout(profile).value = DecoderLayout(profile).value
             /\ SubframeCount(name) = 3
  BY <1>3 DEF ThreeSubframes, Found, SubframeCount
<1>4. ASSUME profile.ms = 60, profile.bitrate \in {8000, 16000, 32000}
      PROVE  MaxPayloadBytes(profile) \in {60, 120, 240}
  BY <1>4 DEF MaxPayloadBytes
<1>5. CASE name = "QualityMedium"
  <2>1. profile.ms = 60 /\ profile.bitrate \in {8000, 16000, 32000}
    BY <1>5 DEF OpusProfile
  <2> QED BY <1>3, <1>4, <1>5, <2>1, ProfileLayouts
<1>6. CASE name = "QualityHigh"
  <2>1. profile.ms = 60 /\ profile.bitrate \in {8000, 16000, 32000}
    BY <1>6 DEF OpusProfile
  <2> QED BY <1>3, <1>4, <1>6, <2>1, ProfileLayouts
<1>7. CASE name = "QualityMax"
  <2>1. profile.ms = 60 /\ profile.bitrate \in {8000, 16000, 32000}
    BY <1>7 DEF OpusProfile
  <2> QED BY <1>3, <1>4, <1>7, <2>1, ProfileLayouts
<1>8. CASE name = "LatencyLow"
  BY <1>2, <1>8, ProfileLayouts
<1>9. CASE name = "LatencyUltraLow"
  BY <1>2, <1>9, ProfileLayouts
<1> QED BY <1>1, <1>5, <1>6, <1>7, <1>8, <1>9

-----------------------------------------------------------------------------
(* A short length is read as the byte it is. *)
LEMMA ShortLengthIs ==
    ASSUME NEW packet \in Seq(Bytes), NEW at \in Nat, at < Len(packet), packet[at + 1] < 252,
           NEW lengths
    PROVE  NextLength(packet, Len(packet), at, lengths)
             = Found(at + 1, Append(lengths, packet[at + 1]))
<1> DEFINE end   == Len(packet)
           input == SubSeq(packet, at + 1, end)
           byte  == packet[at + 1]
<1>1. end \in Nat /\ at < end
  OBVIOUS
<1>2. Slice(packet, at, end) = Found(end, input)
  BY <1>1 DEF Slice
<1>3. input # <<>> /\ Head(input) = byte
  <2>1. input \in Seq(Bytes) /\ Len(input) = end - at /\ \A i \in 1 .. end - at : input[i] = packet[at + i]
    BY <1>1, PartIs
  <2>2. 1 \in 1 .. end - at
    BY <1>1
  <2> HIDE DEF input, end
  <2>3. input[1] = byte /\ Len(input) # 0
    BY <1>1, <2>1, <2>2
  <2>4. input # <<>>
    BY <2>3
  <2> QED BY <2>1, <2>3, <2>4
<1> HIDE DEF input
<1>4. ReadLength(input) = Found(1, byte)
  BY <1>3 DEF ReadLength
<1>5. NextLength(packet, end, at, lengths) = Found(at + 1, Append(lengths, byte))
  <2> DEFINE read == ReadLength(input)
             next == NextLength(packet, end, at, lengths)
  <2>1. next = IF read.error = "None" THEN Found(at + read.at, Append(lengths, read.value)) ELSE read
    BY <1>2 DEF NextLength, Then, Good, Found
  <2>2. read.error = "None" /\ read.at = 1 /\ read.value = byte
    BY <1>4 DEF Found
  <2> HIDE DEF read, next, byte
  <2>3. next = Found(at + 1, Append(lengths, byte))
    BY <2>1, <2>2
  <2> QED BY <2>3 DEF next
<1> QED BY <1>5

(* Lengths that are read one behind the other. *)
LEMMA Appends ==
    ASSUME NEW a \in Nat, NEW b \in Nat, NEW c \in Nat
    PROVE  /\ Append(<<>>, a) = <<a>> /\ Append(<<a>>, b) = <<a, b>>
           /\ Append(<<a, b>>, c) = <<a, b, c>>
<1>1. Append(<<>>, a) = <<a>>
  <2> DEFINE s == Append(<<>>, a)
             t == <<a>>
  <2>1. s \in Seq(Nat) /\ Len(s) = 1 /\ s[1] = a
    OBVIOUS
  <2>2. t \in Seq(Nat) /\ Len(t) = 1 /\ t[1] = a
    OBVIOUS
  <2> HIDE DEF s, t
  <2>3. \A i \in 1 .. Len(s) : s[i] = t[i]
    BY <2>1, <2>2
  <2>4. s = t
    BY <2>1, <2>2, <2>3, SeqEqual
  <2> QED BY <2>4 DEF s, t
<1>2. Append(<<a>>, b) = <<a, b>>
  <2> DEFINE s == Append(<<a>>, b)
             t == <<a, b>>
  <2>1. s \in Seq(Nat) /\ Len(s) = 2 /\ s[1] = a /\ s[2] = b
    OBVIOUS
  <2>2. t \in Seq(Nat) /\ Len(t) = 2 /\ t[1] = a /\ t[2] = b
    OBVIOUS
  <2> HIDE DEF s, t
  <2>3. \A i \in 1 .. Len(s) : s[i] = t[i]
    BY <2>1, <2>2
  <2>4. s = t
    BY <2>1, <2>2, <2>3, SeqEqual
  <2> QED BY <2>4 DEF s, t
<1>3. Append(<<a, b>>, c) = <<a, b, c>>
  <2> DEFINE s == Append(<<a, b>>, c)
             t == <<a, b, c>>
  <2>1. s \in Seq(Nat) /\ Len(s) = 3 /\ s[1] = a /\ s[2] = b /\ s[3] = c
    OBVIOUS
  <2>2. t \in Seq(Nat) /\ Len(t) = 3 /\ t[1] = a /\ t[2] = b /\ t[3] = c
    OBVIOUS
  <2> HIDE DEF s, t
  <2>3. \A i \in 1 .. Len(s) : s[i] = t[i]
    BY <2>1, <2>2
  <2>4. s = t
    BY <2>1, <2>2, <2>3, SeqEqual
  <2> QED BY <2>4 DEF s, t
<1> QED BY <1>1, <1>2, <1>3

(* Where three lengths end. *)
LEMMA ThreeEnds ==
    ASSUME NEW from \in Nat, NEW three \in Seq(Nat), Len(three) = 3
    PROVE  LET end == EndsOf(from, three) IN
           /\ end[0] = from /\ end[1] = from + three[1] /\ end[2] = from + three[1] + three[2]
           /\ end[3] = from + three[1] + three[2] + three[3]
<1> DEFINE end == EndsOf(from, three)
           a   == three[1]
           b   == three[2]
           c   == three[3]
<1>1. a \in Nat /\ b \in Nat /\ c \in Nat
  <2>1. 1 \in 1 .. Len(three) /\ 2 \in 1 .. Len(three) /\ 3 \in 1 .. Len(three)
    OBVIOUS
  <2>2. \A i \in 1 .. Len(three) : three[i] \in Nat
    BY ElementOfSeq, Zenon
  <2> QED BY <2>1, <2>2
<1>2. end[0] = from /\ \A i \in 1 .. Len(three) : end[i] = end[i - 1] + three[i]
  BY EndsInOrder
<1> HIDE DEF end
<1>3. end[1] = end[0] + a /\ end[2] = end[1] + b /\ end[3] = end[2] + c
  BY <1>2
<1> HIDE DEF a, b, c
<1>4. end[0] = from /\ end[1] = from + a /\ end[2] = from + a + b /\ end[3] = from + a + b + c
  BY <1>1, <1>2, <1>3
<1> QED BY <1>4 DEF end, a, b, c

(* Two lengths end at their sum. *)
LEMMA TwoEnds ==
    ASSUME NEW a \in Nat, NEW b \in Nat
    PROVE  EndsOf(0, <<a, b>>)[2] = a + b
<1> DEFINE two == <<a, b>>
           end == EndsOf(0, two)
<1>1. two \in Seq(Nat) /\ Len(two) = 2 /\ two[1] = a /\ two[2] = b
  OBVIOUS
<1> HIDE DEF two
<1>2. end[0] = 0 /\ \A i \in 1 .. Len(two) : end[i] = end[i - 1] + two[i]
  BY <1>1, EndsInOrder
<1> HIDE DEF end
<1>3. end[1] = end[0] + a /\ end[2] = end[1] + b
  BY <1>1, <1>2
<1>4. end[2] = a + b
  BY <1>2, <1>3
<1> QED BY <1>4 DEF end, two

(* The lengths of one byte. *)
Short == 0 .. 251

(* A packet of three frames of varying rate and of short lengths. *)
Three(packet, a, b, c) ==
    /\ Len(packet) = 4 + a + b + c
    /\ packet[1] = 75 /\ packet[2] = 131 /\ packet[3] = a /\ packet[4] = b

(* The two lengths written before three frames are read back. *)
LEMMA ThreeLengths ==
    ASSUME NEW packet \in Seq(Bytes), NEW a \in Short, NEW b \in Short, NEW c \in Nat,
           Three(packet, a, b, c)
    PROVE  Lengths(packet, 2, Len(packet), 2) = Found(4, <<a, b>>)
<1> DEFINE end   == Len(packet)
           after == LengthsUpTo(packet, 2, end, 2)
           step(read) == IF Good(read) THEN NextLength(packet, end, read.at, read.value) ELSE read
<1>1. end \in Nat /\ end >= 4 /\ packet[2 + 1] = a /\ packet[3 + 1] = b /\ a < 252 /\ b < 252
  BY DEF Three, Short
<1>2. after = [i \in 0 .. 2 |-> IF i = 0 THEN Found(2, <<>>) ELSE step(after[i - 1])]
  BY LengthsUpToIs
<1> HIDE DEF after, end, step
<1>3. after[0] = Found(2, <<>>) /\ after[1] = step(after[0]) /\ after[2] = step(after[1])
  BY <1>2
<1>4. NextLength(packet, end, 2, <<>>) = Found(2 + 1, Append(<<>>, a))
  <2>1. 2 \in Nat /\ 2 < Len(packet) /\ packet[2 + 1] < 252 /\ packet[2 + 1] = a
    BY <1>1 DEF end
  <2> QED BY <2>1, ShortLengthIs DEF end
<1>5. NextLength(packet, end, 3, <<a>>) = Found(3 + 1, Append(<<a>>, b))
  <2>1. 3 \in Nat /\ 3 < Len(packet) /\ packet[3 + 1] < 252 /\ packet[3 + 1] = b
    BY <1>1 DEF end
  <2> QED BY <2>1, ShortLengthIs DEF end
<1>6. Append(<<>>, a) = <<a>> /\ Append(<<a>>, b) = <<a, b>>
  <2>1. a \in Nat /\ b \in Nat /\ 0 \in Nat
    BY DEF Short
  <2> QED BY <2>1, Appends
<1>7. after[1] = Found(3, <<a>>)
  <2>1. step(Found(2, <<>>)) = NextLength(packet, end, 2, <<>>)
    BY DEF step, Good, Found
  <2> QED BY <1>3, <1>4, <1>6, <2>1
<1>8. after[2] = Found(4, <<a, b>>)
  <2>1. step(Found(3, <<a>>)) = NextLength(packet, end, 3, <<a>>)
    BY DEF step, Good, Found
  <2>4. 3 + 1 = 4
    OBVIOUS
  <2>2. Found(3 + 1, Append(<<a>>, b)) = Found(4, <<a, b>>)
    BY <1>6, <2>4, Zenon
  <2>3. after[2] = step(Found(3, <<a>>))
    BY <1>3, <1>7
  <2> QED BY <1>5, <2>1, <2>2, <2>3, Zenon
<1> QED BY <1>8 DEF after, end, Lengths

(* Three frames are found where their lengths say. *)
LEMMA ThreeFrames ==
    ASSUME NEW packet \in Seq(Bytes), NEW a \in Short, NEW b \in Short, NEW c \in Nat,
           Three(packet, a, b, c)
    PROVE  LET frames == VbrFrames(packet, 2, Len(packet), 3) IN
           /\ frames.error = "None" /\ Len(frames.value) = 3 /\ DOMAIN frames.value = 1 .. 3
           /\ frames.value = [i \in 1 .. 3 |-> frames.value[i]]
           /\ frames.value[1] = SubSeq(packet, 4 + 1, 4 + a)
           /\ frames.value[2] = SubSeq(packet, 4 + a + 1, 4 + a + b)
           /\ frames.value[3] = SubSeq(packet, 4 + a + b + 1, 4 + a + b + c)
<1> DEFINE end    == Len(packet)
           frames == VbrFrames(packet, 2, end, 3)
           cut    == Cut(packet, 4, <<a, b, c>>)
<1>1. end \in Nat /\ end = 4 + a + b + c /\ a \in Nat /\ b \in Nat /\ c \in Nat
  BY DEF Three, Short
<1>2. Lengths(packet, 2, end, 2) = Found(4, <<a, b>>)
  BY ThreeLengths
<1> HIDE DEF end
<1>3. frames = IF a + b > end - 4 THEN Fail("MalformedPacket")
               ELSE Cut(packet, 4, Append(<<a, b>>, end - 4 - (a + b)))
  <2>1. EndsOf(0, <<a, b>>)[Len(<<a, b>>)] = a + b
    BY <1>1, TwoEnds
  <2>2. 3 - 1 = 2
    OBVIOUS
  <2> DEFINE read == Lengths(packet, 2, end, 3 - 1)
  <2>3. frames = IF Good(read)
                 THEN IF EndsOf(0, read.value)[Len(read.value)] > end - read.at
                      THEN Fail("MalformedPacket")
                      ELSE Cut(packet, read.at, Append(read.value,
                                 end - read.at - EndsOf(0, read.value)[Len(read.value)]))
                 ELSE read
    BY DEF VbrFrames, Then
  <2>4. Good(read) /\ read.at = 4 /\ read.value = <<a, b>>
    BY <1>2, <2>2 DEF Good, Found
  <2> HIDE DEF frames, read
  <2> QED BY <2>1, <2>3, <2>4
<1>4. frames = cut
  <2>1. ~(a + b > end - 4) /\ end - 4 - (a + b) = c
    BY <1>1
  <2>2. Append(<<a, b>>, c) = <<a, b, c>>
    BY <1>1, Appends
  <2> HIDE DEF frames, cut
  <2> QED BY <1>3, <2>1, <2>2 DEF cut
<1> DEFINE three == <<a, b, c>>
           ends  == EndsOf(4, three)
<1>6. /\ three \in Seq(Nat) /\ Len(three) = 3 /\ three # <<>>
      /\ three[1] = a /\ three[2] = b /\ three[3] = c
  BY <1>1
<1>7. cut = Cut(packet, 4, three)
  OBVIOUS
<1> HIDE DEF three, cut
<1>5. ends[0] = 4 /\ ends[1] = 4 + a /\ ends[2] = 4 + a + b /\ ends[3] = 4 + a + b + c
  <2>1. 4 \in Nat
    OBVIOUS
  <2>2. /\ ends[0] = 4 /\ ends[1] = 4 + three[1] /\ ends[2] = 4 + three[1] + three[2]
        /\ ends[3] = 4 + three[1] + three[2] + three[3]
    BY <1>6, <2>1, ThreeEnds
  <2> HIDE DEF ends
  <2> QED BY <1>6, <2>2
<1>8. ends[Len(three)] <= Len(packet)
  <2> HIDE DEF ends
  <2> QED BY <1>1, <1>5, <1>6 DEF end
<1>9. /\ cut.error = "None" /\ Len(cut.value) = Len(three) /\ DOMAIN cut.value = 1 .. Len(three)
      /\ \A i \in 1 .. Len(three) : cut.value[i] = SubSeq(packet, ends[i - 1] + 1, ends[i])
  <2> DEFINE found == Cut(packet, 4, three)
  <2>1. /\ found.error = "None" /\ Len(found.value) = Len(three)
        /\ DOMAIN found.value = 1 .. Len(three)
        /\ \A i \in 1 .. Len(three) : found.value[i] = SubSeq(packet, ends[i - 1] + 1, ends[i])
    <3>1. 4 \in Nat
      OBVIOUS
    <3> QED BY <1>6, <1>8, <3>1, CutIs, ZenonT(40)
  <2> HIDE DEF found
  <2> QED BY <1>7, <2>1 DEF found
<1>10. cut.value = [i \in 1 .. 3 |-> cut.value[i]]
  <2>1. cut.value = [i \in 1 .. Len(three) |->
                       SubSeq(packet, EndsOf(4, three)[i - 1] + 1, EndsOf(4, three)[i])]
    <3>1. ~(ends[Len(three)] > Len(packet))
      <4> HIDE DEF ends
      <4> QED BY <1>1, <1>5, <1>6 DEF end
    <3> QED BY <1>7, <3>1 DEF Cut, Found
  <2> QED BY <1>6, <2>1
<1> HIDE DEF ends
<1>11. /\ cut.value[1] = SubSeq(packet, ends[0] + 1, ends[1])
       /\ cut.value[2] = SubSeq(packet, ends[1] + 1, ends[2])
       /\ cut.value[3] = SubSeq(packet, ends[2] + 1, ends[3])
  <2>1. 1 \in 1 .. 3 /\ 2 \in 1 .. 3 /\ 3 \in 1 .. 3 /\ 1 - 1 = 0 /\ 2 - 1 = 1 /\ 3 - 1 = 2
    OBVIOUS
  <2> QED BY <1>6, <1>9, <2>1
<1> HIDE DEF frames
<1> QED BY <1>4, <1>5, <1>6, <1>9, <1>10, <1>11 DEF frames, end

(* Both parsers find the three frames. *)
LEMMA ThreeParsed ==
    ASSUME NEW packet \in Seq(Bytes), NEW a \in Short, NEW b \in Short, NEW c \in Nat,
           Three(packet, a, b, c)
    PROVE  /\ SubframePayloads(packet, 3) = VbrFrames(packet, 2, Len(packet), 3)
           /\ PacketFrames(packet) = VbrFrames(packet, 2, Len(packet), 3)
<1>1. /\ Len(packet) \in Nat /\ ~(Len(packet) < 2) /\ packet[1] = 75 /\ packet[2] = 131
  BY DEF Three, Short
<1>2. /\ 131 % 64 = 3 /\ (131 \div 64) % 2 = 0 /\ 75 % 4 = 3 /\ 131 >= 128
  OBVIOUS
<1>3. FrameCount(packet) = 3 /\ Vbr(packet) /\ PayloadRange(packet) = Found(2, Len(packet))
  BY <1>1, <1>2 DEF FrameCount, Vbr, PayloadRange
<1>4. SubframePayloads(packet, 3) = VbrFrames(packet, 2, Len(packet), 3)
  BY <1>1, <1>3 DEF SubframePayloads, Then, Good, Found
<1>5. Code3Frames(packet) = VbrFrames(packet, 2, Len(packet), 3)
  BY <1>1, <1>3 DEF Code3Frames, Then, Good, Found
<1>6. PacketFrames(packet) = Code3Frames(packet)
  <2>1. packet[1] % 4 # 0 /\ packet[1] % 4 # 1 /\ packet[1] % 4 # 2
    BY <1>1, <1>2
  <2> QED BY <2>1 DEF PacketFrames
<1> QED BY <1>4, <1>5, <1>6

-----------------------------------------------------------------------------
(* Three sequences, flattened, and two. *)
LEMMA FlattenThree ==
    ASSUME NEW seqs, Len(seqs) = 3
    PROVE  FlattenSeq(seqs) = seqs[1] \o seqs[2] \o seqs[3]
<1>1. PICK f : /\ f = [i \in 1 .. 3 |-> IF i = 1 THEN seqs[i] ELSE f[i - 1] \o seqs[i]]
               /\ FlattenSeq(seqs) = f[3]
  <2>1. Len(seqs) \in Nat \ {0}
    OBVIOUS
  <2>2. \E f : /\ f = [i \in 1 .. Len(seqs) |-> IF i = 1 THEN seqs[i] ELSE f[i - 1] \o seqs[i]]
               /\ FlattenSeq(seqs) = f[Len(seqs)]
    BY <2>1, FlattenIs
  <2> QED BY <2>2
<1>2. f[1] = seqs[1] /\ f[2] = f[1] \o seqs[2] /\ f[3] = f[2] \o seqs[3]
  <2>1. \A i \in 1 .. 3 : f[i] = IF i = 1 THEN seqs[i] ELSE f[i - 1] \o seqs[i]
    BY <1>1
  <2>2. 1 \in 1 .. 3 /\ 2 \in 1 .. 3 /\ 3 \in 1 .. 3 /\ 2 - 1 = 1 /\ 3 - 1 = 2 /\ 2 # 1 /\ 3 # 1
    OBVIOUS
  <2>3. f[1] = seqs[1]
    BY <2>1, <2>2, Zenon
  <2>4. f[2] = f[2 - 1] \o seqs[2]
    BY <2>1, <2>2, Zenon
  <2>5. f[3] = f[3 - 1] \o seqs[3]
    BY <2>1, <2>2, Zenon
  <2> QED BY <2>2, <2>3, <2>4, <2>5, Zenon
<1> QED BY <1>1, <1>2, Zenon

(* Two sequences, joined. *)
LEMMA FlattenTwo ==
    ASSUME NEW seqs, Len(seqs) = 2
    PROVE  FlattenSeq(seqs) = seqs[1] \o seqs[2]
<1>1. PICK f : /\ f = [i \in 1 .. 2 |-> IF i = 1 THEN seqs[i] ELSE f[i - 1] \o seqs[i]]
               /\ FlattenSeq(seqs) = f[2]
  <2>1. Len(seqs) \in Nat \ {0}
    OBVIOUS
  <2>2. \E f : /\ f = [i \in 1 .. Len(seqs) |-> IF i = 1 THEN seqs[i] ELSE f[i - 1] \o seqs[i]]
               /\ FlattenSeq(seqs) = f[Len(seqs)]
    BY <2>1, FlattenIs
  <2> QED BY <2>2
<1>2. f[1] = seqs[1] /\ f[2] = f[1] \o seqs[2]
  <2>1. \A i \in 1 .. 2 : f[i] = IF i = 1 THEN seqs[i] ELSE f[i - 1] \o seqs[i]
    BY <1>1
  <2>2. 1 \in 1 .. 2 /\ 2 \in 1 .. 2 /\ 2 - 1 = 1 /\ 2 # 1
    OBVIOUS
  <2>3. f[1] = seqs[1]
    BY <2>1, <2>2, Zenon
  <2>4. f[2] = f[2 - 1] \o seqs[2]
    BY <2>1, <2>2, Zenon
  <2> QED BY <2>2, <2>3, <2>4, Zenon
<1> QED BY <1>1, <1>2, Zenon

(* A part of a sequence is known by its elements. *)
LEMMA SlicedBack ==
    ASSUME NEW s \in Seq(Bytes), NEW v \in Seq(Bytes), NEW at \in Nat,
           at + Len(v) <= Len(s), \A i \in 1 .. Len(v) : s[at + i] = v[i]
    PROVE  SubSeq(s, at + 1, at + Len(v)) = v
<1> DEFINE to   == at + Len(v)
           part == SubSeq(s, at + 1, to)
<1>1. at \in Nat /\ to \in Nat /\ at <= to /\ to <= Len(s) /\ to - at = Len(v) /\ Len(v) \in Nat
  OBVIOUS
<1> HIDE DEF to
<1>2. /\ part \in Seq(Bytes) /\ Len(part) = to - at
      /\ \A i \in 1 .. to - at : part[i] = s[at + i]
  BY <1>1, PartIs
<1> HIDE DEF part
<1>3. /\ part \in Seq(Bytes) /\ v \in Seq(Bytes) /\ Len(part) = Len(v)
      /\ \A i \in 1 .. Len(part) : part[i] = v[i]
  BY <1>1, <1>2
<1>4. part = v
  BY <1>3, SeqEqual
<1> QED BY <1>4 DEF part, to

(* The packet of three frames, put together. *)
Joined(x, y, z) == <<75, 131>> \o (<<Len(x)>> \o <<Len(y)>>) \o (x \o y \o z)

(* A packet of three frames, and where they lie in it. *)
Holds(p, x, y, z) ==
    LET a == Len(x)
        b == Len(y)
        c == Len(z)
    IN  /\ Three(p, a, b, c)
        /\ SubSeq(p, 4 + 1, 4 + a) = x
        /\ SubSeq(p, 4 + a + 1, 4 + a + b) = y
        /\ SubSeq(p, 4 + a + b + 1, 4 + a + b + c) = z

(* What is put together holds the three frames where they are looked for.  *)
LEMMA JoinedIs ==
    ASSUME NEW x \in Seq(Bytes), NEW y \in Seq(Bytes), NEW z \in Seq(Bytes),
           Len(x) <= 251, Len(y) <= 251
    PROVE  Joined(x, y, z) \in Seq(Bytes) /\ Holds(Joined(x, y, z), x, y, z)
<1> DEFINE a == Len(x)
           b == Len(y)
           c == Len(z)
           two  == <<75, 131>>
           ab   == <<a>> \o <<b>>
           head == two \o ab
           xy   == x \o y
           body == xy \o z
           p    == head \o body
<1>1. a \in 0 .. 251 /\ b \in 0 .. 251 /\ a \in Nat /\ b \in Nat /\ c \in Nat
  <2>1. a \in Nat /\ b \in Nat /\ c \in Nat /\ a <= 251 /\ b <= 251
    OBVIOUS
  <2> HIDE DEF a, b, c
  <2> QED BY <2>1
<1> HIDE DEF a, b, c
<1>2. a \in Bytes /\ b \in Bytes /\ 75 \in Bytes /\ 131 \in Bytes
  BY <1>1 DEF Bytes
<1>3. two \in Seq(Bytes) /\ Len(two) = 2 /\ two[1] = 75 /\ two[2] = 131
  BY <1>2
<1>4. ab \in Seq(Bytes) /\ Len(ab) = 2 /\ ab[1] = a /\ ab[2] = b
  <2> DEFINE u == <<a>>
             v == <<b>>
  <2>1. u \in Seq(Bytes) /\ v \in Seq(Bytes) /\ Len(u) = 1 /\ Len(v) = 1 /\ u[1] = a /\ v[1] = b
    BY <1>2
  <2> HIDE DEF u, v
  <2>2. /\ u \o v \in Seq(Bytes) /\ Len(u \o v) = Len(u) + Len(v)
        /\ \A i \in 1 .. Len(u) + Len(v) : (u \o v)[i] = IF i <= Len(u) THEN u[i] ELSE v[i - Len(u)]
    BY <2>1, ConcatProperties
  <2>3. u \o v \in Seq(Bytes) /\ Len(u \o v) = 2 /\ (u \o v)[1] = a /\ (u \o v)[2] = b
    BY <2>1, <2>2
  <2> QED BY <2>3 DEF u, v
<1> HIDE DEF two, ab
<1>5. head \in Seq(Bytes) /\ Len(head) = 4 /\ head[1] = 75 /\ head[2] = 131 /\ head[3] = a /\ head[4] = b
  <2>1. /\ head \in Seq(Bytes) /\ Len(head) = Len(two) + Len(ab)
        /\ \A i \in 1 .. Len(two) + Len(ab) :
              head[i] = IF i <= Len(two) THEN two[i] ELSE ab[i - Len(two)]
    <3>1. two \in Seq(Bytes) /\ ab \in Seq(Bytes)
      BY <1>3, <1>4
    <3> QED BY <3>1, ConcatProperties
  <2> HIDE DEF head
  <2> QED BY <1>3, <1>4, <2>1
<1>6. /\ xy \in Seq(Bytes) /\ Len(xy) = a + b
      /\ \A i \in 1 .. a + b : xy[i] = IF i <= a THEN x[i] ELSE y[i - a]
  BY ConcatProperties DEF a, b
<1> HIDE DEF head, xy
<1>7. /\ body \in Seq(Bytes) /\ Len(body) = a + b + c
      /\ \A i \in 1 .. a + b + c : body[i] = IF i <= a + b THEN xy[i] ELSE z[i - (a + b)]
  <2>1. /\ body \in Seq(Bytes) /\ Len(body) = Len(xy) + Len(z)
        /\ \A i \in 1 .. Len(xy) + Len(z) : body[i] = IF i <= Len(xy) THEN xy[i] ELSE z[i - Len(xy)]
    BY <1>6, ConcatProperties, ZenonT(40)
  <2> HIDE DEF body
  <2> QED BY <1>6, <2>1 DEF c
<1> HIDE DEF body
<1>8. /\ p \in Seq(Bytes) /\ Len(p) = 4 + (a + b + c)
      /\ \A i \in 1 .. 4 + (a + b + c) : p[i] = IF i <= 4 THEN head[i] ELSE body[i - 4]
  <2>1. /\ p \in Seq(Bytes) /\ Len(p) = Len(head) + Len(body)
        /\ \A i \in 1 .. Len(head) + Len(body) :
              p[i] = IF i <= Len(head) THEN head[i] ELSE body[i - Len(head)]
    <3>1. head \in Seq(Bytes) /\ body \in Seq(Bytes)
      BY <1>5, <1>7
    <3> QED BY <3>1, ConcatProperties
  <2> HIDE DEF p
  <2> QED BY <1>5, <1>7, <2>1
<1> HIDE DEF p
<1>9. Three(p, a, b, c)
  <2>1. Len(p) = 4 + a + b + c
    BY <1>1, <1>8
  <2>2. 1 \in 1 .. 4 + (a + b + c) /\ 2 \in 1 .. 4 + (a + b + c) /\ 3 \in 1 .. 4 + (a + b + c)
        /\ 4 \in 1 .. 4 + (a + b + c)
    BY <1>1
  <2>3. p[1] = 75 /\ p[2] = 131 /\ p[3] = a /\ p[4] = b
    BY <1>5, <1>8, <2>2
  <2> QED BY <2>1, <2>3 DEF Three
<1>10. SubSeq(p, 4 + 1, 4 + a) = x
  <2>1. \A i \in 1 .. a : p[4 + i] = x[i]
    <3>1. ASSUME NEW i \in 1 .. a PROVE p[4 + i] = x[i]
      <4>1. /\ 4 + i \in 1 .. 4 + (a + b + c) /\ ~(4 + i <= 4) /\ 4 + i - 4 = i
            /\ i \in 1 .. a + b + c /\ i <= a + b /\ i \in 1 .. a + b /\ i <= a
        BY <1>1
      <4>2. p[4 + i] = body[i]
        BY <1>8, <4>1
      <4>3. body[i] = xy[i]
        BY <1>7, <4>1
      <4>4. xy[i] = x[i]
        BY <1>6, <4>1
      <4> QED BY <4>2, <4>3, <4>4
    <3> QED BY <3>1
  <2>2. 4 \in Nat /\ 4 + a <= Len(p)
    BY <1>1, <1>8
  <2> QED BY <1>8, <2>1, <2>2, SlicedBack DEF a
<1>11. SubSeq(p, 4 + a + 1, 4 + a + b) = y
  <2> DEFINE at == 4 + a
  <2>1. \A i \in 1 .. b : p[at + i] = y[i]
    <3>1. ASSUME NEW i \in 1 .. b PROVE p[at + i] = y[i]
      <4> DEFINE k == at + i
                 m == a + i
      <4>1. /\ k \in 1 .. 4 + (a + b + c) /\ ~(k <= 4) /\ k - 4 = m
            /\ m \in 1 .. a + b + c /\ m <= a + b /\ m \in 1 .. a + b /\ ~(m <= a)
            /\ m - a = i
        BY <1>1
      <4> HIDE DEF k, m
      <4>2. p[k] = body[m]
        BY <1>8, <4>1
      <4>3. body[m] = xy[m]
        BY <1>7, <4>1
      <4>4. xy[m] = y[i]
        BY <1>6, <4>1
      <4>5. p[k] = y[i]
        BY <4>2, <4>3, <4>4
      <4> QED BY <4>5 DEF k
    <3> QED BY <3>1
  <2>2. at \in Nat /\ at + b <= Len(p)
    BY <1>1, <1>8
  <2> HIDE DEF at
  <2>3. SubSeq(p, at + 1, at + b) = y
    BY <1>8, <2>1, <2>2, SlicedBack DEF b
  <2> QED BY <2>3 DEF at
<1>12. SubSeq(p, 4 + a + b + 1, 4 + a + b + c) = z
  <2> DEFINE at == 4 + a + b
  <2>1. \A i \in 1 .. c : p[at + i] = z[i]
    <3>1. ASSUME NEW i \in 1 .. c PROVE p[at + i] = z[i]
      <4> DEFINE k == at + i
                 m == a + b + i
      <4>1. /\ k \in 1 .. 4 + (a + b + c) /\ ~(k <= 4) /\ k - 4 = m
            /\ m \in 1 .. a + b + c /\ ~(m <= a + b) /\ m - (a + b) = i
        BY <1>1
      <4> HIDE DEF k, m
      <4>2. p[k] = body[m]
        BY <1>8, <4>1
      <4>3. body[m] = z[i]
        BY <1>7, <4>1
      <4>4. p[k] = z[i]
        BY <4>2, <4>3
      <4> QED BY <4>4 DEF k
    <3> QED BY <3>1
  <2>2. at \in Nat /\ at + c <= Len(p)
    BY <1>1, <1>8
  <2> HIDE DEF at
  <2>3. SubSeq(p, at + 1, at + c) = z
    BY <1>8, <2>1, <2>2, SlicedBack DEF c
  <2> QED BY <2>3 DEF at
<1>13. Joined(x, y, z) = p
  BY DEF Joined, p, head, two, ab, body, xy, a, b
<1>14. Holds(p, x, y, z)
  BY <1>9, <1>10, <1>11, <1>12 DEF Holds, a, b, c
<1> QED BY <1>8, <1>13, <1>14

-----------------------------------------------------------------------------
LEMMA SubpacketIs ==
    ASSUME NEW x \in Seq(Bytes)
    PROVE  LET s == << 72 >> \o x IN
           s # <<>> /\ s[1] = 72 /\ Len(s) = 1 + Len(x) /\ Tail(s) = x
<1> DEFINE toc == << 72 >>
           s   == toc \o x
<1>1. toc \in Seq(Bytes) /\ Len(toc) = 1 /\ toc[1] = 72 /\ Len(x) \in Nat
  BY DEF Bytes
<1> HIDE DEF toc
<1>2. /\ s \in Seq(Bytes) /\ Len(s) = Len(toc) + Len(x)
      /\ \A i \in 1 .. Len(toc) + Len(x) : s[i] = IF i <= Len(toc) THEN toc[i] ELSE x[i - Len(toc)]
  BY <1>1, ConcatProperties, SMTT(30)
<1> HIDE DEF s
<1>3. /\ s \in Seq(Bytes) /\ Len(s) = 1 + Len(x) /\ s[1] = 72
      /\ \A i \in 1 .. Len(x) : s[i + 1] = x[i]
  BY <1>1, <1>2
<1>4. s # <<>>
  BY <1>1, <1>3
<1> DEFINE t == Tail(s)
<1>5. t \in Seq(Bytes) /\ Len(t) = Len(x) /\ \A i \in 1 .. Len(x) : t[i] = s[i + 1]
  BY <1>1, <1>3, <1>4
<1> HIDE DEF t
<1>6. \A i \in 1 .. Len(t) : t[i] = x[i]
  BY <1>3, <1>5
<1>7. t = x
  BY <1>5, <1>6, SeqEqual
<1> QED BY <1>3, <1>4, <1>7 DEF s, t, toc

(* A length of one byte is written as it is. *)
LEMMA ShortLengthPushed ==
    ASSUME NEW n \in Nat, n <= 251
    PROVE  PushLength(n) = Found(0, <<n>>)
<1>1. n < 252
  OBVIOUS
<1> QED BY <1>1 DEF PushLength

(* Three subframes of short lengths make one packet. *)
LEMMA EncodeThree ==
    ASSUME NEW x \in Seq(Bytes), NEW y \in Seq(Bytes), NEW z \in Seq(Bytes),
           Len(x) <= 251, Len(y) <= 251, Len(z) <= 251,
           NEW subpackets, Len(subpackets) = 3,
           subpackets[1] = << 72 >> \o x, subpackets[2] = << 72 >> \o y, subpackets[3] = << 72 >> \o z
    PROVE  EncodePacket(subpackets) = Found(0, Joined(x, y, z))
<1> DEFINE count  == Len(subpackets)
           toc    == subpackets[1][1] - (subpackets[1][1] % 4) + 3
           length == [i \in 1 .. count - 1 |-> PushLength(Len(subpackets[i]) - 1)]
           heads  == [i \in 1 .. count - 1 |-> length[i].value]
           bodies == [i \in 1 .. count |-> Tail(subpackets[i])]
           result == EncodePacket(subpackets)
<1>1. result =
        CASE \E i \in 1 .. count : subpackets[i] = <<>> \/ subpackets[i][1] % 4 # 0 ->
                Fail("UnsupportedSubpacketLayout")
          [] \E i \in 1 .. count - 1 : ~Good(length[i]) ->
                Fail("UnsupportedSubframePayloadLength")
          [] OTHER -> Found(0, <<toc, 128 + count>> \o FlattenSeq(heads) \o FlattenSeq(bodies))
  BY DEF EncodePacket
<1>2. /\ \A i \in 1 .. 3 : subpackets[i] # <<>> /\ subpackets[i][1] = 72
      /\ Tail(subpackets[1]) = x /\ Tail(subpackets[2]) = y /\ Tail(subpackets[3]) = z
      /\ Len(subpackets[1]) = 1 + Len(x) /\ Len(subpackets[2]) = 1 + Len(y)
  <2>1. /\ subpackets[1] # <<>> /\ subpackets[1][1] = 72 /\ Tail(subpackets[1]) = x
        /\ Len(subpackets[1]) = 1 + Len(x)
    BY SubpacketIs, SMTT(30)
  <2>2. /\ subpackets[2] # <<>> /\ subpackets[2][1] = 72 /\ Tail(subpackets[2]) = y
        /\ Len(subpackets[2]) = 1 + Len(y)
    BY SubpacketIs, SMTT(30)
  <2>3. subpackets[3] # <<>> /\ subpackets[3][1] = 72 /\ Tail(subpackets[3]) = z
    BY SubpacketIs
  <2>4. 1 .. 3 = {1, 2, 3}
    OBVIOUS
  <2> QED BY <2>1, <2>2, <2>3, <2>4, Zenon
<1>3. ~ \E i \in 1 .. count : subpackets[i] = <<>> \/ subpackets[i][1] % 4 # 0
  <2>1. 72 % 4 = 0
    OBVIOUS
  <2> QED BY <1>2, <2>1
<1>5. /\ length[1] = Found(0, <<Len(x)>>) /\ length[2] = Found(0, <<Len(y)>>)
  <2>1. 1 \in 1 .. count - 1 /\ 2 \in 1 .. count - 1
    OBVIOUS
  <2>2. /\ length[1] = PushLength(Len(subpackets[1]) - 1)
        /\ length[2] = PushLength(Len(subpackets[2]) - 1)
    BY <2>1
  <2>3. Len(x) \in Nat /\ Len(y) \in Nat
    OBVIOUS
  <2> HIDE DEF length
  <2>4. PushLength(Len(x)) = Found(0, <<Len(x)>>) /\ PushLength(Len(y)) = Found(0, <<Len(y)>>)
    BY <2>3, ShortLengthPushed
  <2>5. Len(subpackets[1]) - 1 = Len(x) /\ Len(subpackets[2]) - 1 = Len(y)
    BY <1>2, <2>3
  <2>6. length[1] = PushLength(Len(x))
    BY <2>2, <2>5
  <2>7. length[2] = PushLength(Len(y))
    BY <2>2, <2>5
  <2> QED BY <2>4, <2>6, <2>7, Zenon
<1>6. 1 .. count - 1 = {1, 2} /\ 1 .. count = {1, 2, 3}
  OBVIOUS
<1>7. ~ \E i \in 1 .. count - 1 : ~Good(length[i])
  <2> HIDE DEF length, count
  <2>1. length[1].error = "None"
    BY <1>5 DEF Found
  <2>2. length[2].error = "None"
    BY <1>5 DEF Found
  <2> QED BY <1>6, <2>1, <2>2 DEF Good
<1>8. FlattenSeq(heads) = <<Len(x)>> \o <<Len(y)>>
  <2> DEFINE u == <<Len(x)>>
             v == <<Len(y)>>
  <2>1. heads[1] = u /\ heads[2] = v
    <3>1. heads[1] = length[1].value /\ heads[2] = length[2].value
      <4> HIDE DEF length, count
      <4> QED BY <1>6
    <3> HIDE DEF heads, length
    <3> QED BY <1>5, <3>1 DEF Found
  <2>2. heads = [i \in 1 .. 2 |-> heads[i]]
    <3> HIDE DEF length
    <3>1. count - 1 = 2
      OBVIOUS
    <3> QED BY <3>1
  <2>3. u \in Seq(Nat) /\ v \in Seq(Nat)
    OBVIOUS
  <2> HIDE DEF heads, u, v
  <2>4. heads \in Seq(Seq(Nat))
    <3>1. \A i \in 1 .. 2 : heads[i] \in Seq(Nat)
      BY <2>1, <2>3
    <3> DEFINE T == Seq(Nat)
    <3> DEFINE n == 2
    <3>2. n \in Nat /\ heads \in [1 .. n -> T]
      BY <2>2, <3>1
    <3> HIDE DEF T, n
    <3>3. heads \in Seq(T)
      BY <3>2
    <3> QED BY <3>3 DEF T
  <2>5. Len(heads) = 2
    BY <2>2, <2>4
  <2>6. FlattenSeq(heads) = u \o v
    BY <2>1, <2>5, FlattenTwo
  <2> QED BY <2>6 DEF u, v
<1>9. FlattenSeq(bodies) = x \o y \o z
  <2>1. bodies[1] = x /\ bodies[2] = y /\ bodies[3] = z
    <3> HIDE DEF count
    <3> QED BY <1>2, <1>6
  <2>2. bodies = [i \in 1 .. 3 |-> bodies[i]]
    OBVIOUS
  <2> HIDE DEF bodies
  <2>4. bodies \in Seq(Seq(Bytes))
    <3>1. \A i \in 1 .. 3 : bodies[i] \in Seq(Bytes)
      BY <2>1
    <3> DEFINE T == Seq(Bytes)
    <3> DEFINE n == 3
    <3>2. n \in Nat /\ bodies \in [1 .. n -> T]
      BY <2>2, <3>1
    <3> HIDE DEF T, n
    <3>3. bodies \in Seq(T)
      BY <3>2
    <3> QED BY <3>3 DEF T
  <2>5. Len(bodies) = 3
    BY <2>2, <2>4
  <2> QED BY <2>1, <2>5, FlattenThree
<1>10. toc = 75 /\ 128 + count = 131
  <2>1. subpackets[1][1] = 72
    BY <1>2
  <2>2. 72 - (72 % 4) + 3 = 75 /\ 128 + 3 = 131
    OBVIOUS
  <2> QED BY <2>1, <2>2
<1> HIDE DEF count, toc, length, heads, bodies, result
<1>11. result = Found(0, <<toc, 128 + count>> \o FlattenSeq(heads) \o FlattenSeq(bodies))
  BY <1>1, <1>3, <1>7
<1>12. result = Found(0, Joined(x, y, z))
  BY <1>8, <1>9, <1>10, <1>11, Zenon DEF Joined
<1> QED BY <1>12 DEF result

(* A frame of 60 ms in three subframes lasts as long as the profile's.     *)
LEMMA ThreeInspected ==
    ASSUME NEW packet \in Seq(Bytes), NEW a \in Short, NEW b \in Short, NEW c \in Short,
           Three(packet, a, b, c)
    PROVE  Inspect(packet).at = 2880
<1> DEFINE frames == VbrFrames(packet, 2, Len(packet), 3)
           l      == Len(packet)
<1>1. /\ frames.error = "None" /\ Len(frames.value) = 3 /\ DOMAIN frames.value = 1 .. 3
      /\ frames.value[1] = SubSeq(packet, 4 + 1, 4 + a)
      /\ frames.value[2] = SubSeq(packet, 4 + a + 1, 4 + a + b)
      /\ frames.value[3] = SubSeq(packet, 4 + a + b + 1, 4 + a + b + c)
  <2>1. c \in Nat
    BY DEF Short
  <2> QED BY <2>1, ThreeFrames
<1>2. PacketFrames(packet) = frames
  <2>1. c \in Nat
    BY DEF Short
  <2> QED BY <2>1, ThreeParsed
<1>3. l = 4 + a + b + c /\ packet[1] = 75 /\ l \in Nat
  BY DEF Three
<1>11. a \in 0 .. 251 /\ b \in 0 .. 251 /\ c \in 0 .. 251
  BY DEF Short
<1> HIDE DEF frames, l
<1>4. \A i \in 1 .. 3 : ~(Len(frames.value[i]) > 1275)
  <2> DEFINE f == 4 + a
             g == 4 + a + b
             h == 4 + a + b + c
  <2>1. /\ 4 \in Nat /\ f \in Nat /\ g \in Nat /\ h \in Nat /\ 4 <= f /\ f <= g /\ g <= h /\ h = l
        /\ f <= l /\ g <= l /\ h <= l
    BY <1>3, <1>11
  <2>2. f - 4 <= 251 /\ g - f <= 251 /\ h - g <= 251
    BY <1>11
  <2> HIDE DEF f, g, h
  <2>3. Len(SubSeq(packet, 4 + 1, f)) = f - 4
    BY <2>1, PartIs DEF l
  <2>4. Len(SubSeq(packet, f + 1, g)) = g - f
    BY <2>1, PartIs DEF l
  <2>5. Len(SubSeq(packet, g + 1, h)) = h - g
    BY <2>1, PartIs DEF l
  <2>6. /\ frames.value[1] = SubSeq(packet, 4 + 1, f) /\ frames.value[2] = SubSeq(packet, f + 1, g)
        /\ frames.value[3] = SubSeq(packet, g + 1, h)
    BY <1>1 DEF f, g, h
  <2>7. /\ Len(frames.value[1]) = f - 4 /\ Len(frames.value[2]) = g - f
        /\ Len(frames.value[3]) = h - g
    BY <2>3, <2>4, <2>5, <2>6
  <2>8. ASSUME NEW n \in Nat, NEW m \in Nat, n - m <= 251 PROVE ~(n - m > 1275)
    BY <2>8
  <2>9. /\ ~(Len(frames.value[1]) > 1275) /\ ~(Len(frames.value[2]) > 1275)
        /\ ~(Len(frames.value[3]) > 1275)
    BY <2>1, <2>2, <2>7, <2>8
  <2>10. 1 .. 3 = {1, 2, 3}
    OBVIOUS
  <2> QED BY <2>9, <2>10
<1>5. SamplesPerFrame(75) = 960
  <2>1. (75 \div 8) % 4 = 1 /\ (48000 * 2 ^ 1) \div 100 = 960
    OBVIOUS
  <2>2. ~(75 >= 128) /\ 75 \notin 96 .. 127 /\ 1 # 3
    OBVIOUS
  <2> QED BY <2>1, <2>2 DEF SamplesPerFrame
<1>6. packet # <<>> /\ ~(l > 61440)
  <2>1. ~(l > 61440) /\ l # 0
    BY <1>3, <1>11
  <2> QED BY <2>1 DEF l
<1> DEFINE duration == SamplesPerFrame(packet[1]) * Len(frames.value)
<1>7. duration = 2880
  BY <1>1, <1>3, <1>5
<1> HIDE DEF duration
<1>8. Inspect(packet) =
        CASE \E i \in DOMAIN frames.value : Len(frames.value[i]) > 1275 -> Fail("EncodedFrameTooLarge")
          [] duration > 5760 -> Fail("MalformedPacket")
          [] OTHER -> Found(duration, frames.value)
  <2> DEFINE read  == PacketFrames(packet)
             long  == SamplesPerFrame(packet[1]) * Len(read.value)
             found == Inspect(packet)
  <2>1. found = IF l > 61440 THEN Fail("EncodedPacketTooLarge")
                ELSE IF Good(read)
                THEN CASE \E i \in DOMAIN read.value : Len(read.value[i]) > 1275 ->
                            Fail("EncodedFrameTooLarge")
                       [] long > 5760 -> Fail("MalformedPacket")
                       [] OTHER -> Found(long, read.value)
                ELSE read
    BY <1>6 DEF Inspect, Then, l
  <2>2. read = frames /\ long = duration
    BY <1>2 DEF duration
  <2>3. Good(frames)
    BY <1>1 DEF Good
  <2> HIDE DEF read, long, found
  <2>4. found =
          CASE \E i \in DOMAIN frames.value : Len(frames.value[i]) > 1275 ->
                 Fail("EncodedFrameTooLarge")
            [] duration > 5760 -> Fail("MalformedPacket")
            [] OTHER -> Found(duration, frames.value)
    BY <1>6, <2>1, <2>2, <2>3
  <2> QED BY <2>4 DEF found
<1>9. ~ \E i \in DOMAIN frames.value : Len(frames.value[i]) > 1275
  BY <1>1, <1>4
<1>10. Inspect(packet) = Found(duration, frames.value)
  BY <1>7, <1>8, <1>9
<1> QED BY <1>7, <1>10 DEF Found

(* What is left of a ceiling for three subframes is what they share.       *)
LEMMA BudgetIs ==
    ASSUME NEW profile, MaxPayloadBytes(profile) \in {60, 120, 240},
           NEW a \in Nat, NEW b \in Nat, NEW c \in Nat,
           a <= Budget(profile, 3, 1), b <= Budget(profile, 3, 2), c <= Budget(profile, 3, 3)
    PROVE  a <= 79 /\ b <= 79 /\ c <= 79 /\ 4 + a + b + c <= MaxPayloadBytes(profile)
<1> DEFINE most == MaxPayloadBytes(profile)
           budget == most - (2 + 3 - 1)
<1>1. \A i \in {1, 2, 3} : Budget(profile, 3, i) = budget \div 3 + IF i <= budget % 3 THEN 1 ELSE 0
  BY DEF Budget
<1> HIDE DEF most
<1>2. ASSUME NEW m \in {60, 120, 240}, most = m
      PROVE  a <= 79 /\ b <= 79 /\ c <= 79 /\ 4 + a + b + c <= most
  <2>1. /\ Budget(profile, 3, 1) = (m - 4) \div 3 + 1 /\ Budget(profile, 3, 2) = (m - 4) \div 3 + 1
        /\ Budget(profile, 3, 3) = (m - 4) \div 3
    <3>1. budget = m - 4 /\ (m - 4) % 3 = 2
      BY <1>2
    <3> HIDE DEF budget
    <3> QED BY <1>1, <3>1
  <2>2. (m - 4) \div 3 <= 78 /\ 3 * ((m - 4) \div 3) + 6 = m
    BY <1>2
  <2> QED BY <1>2, <2>1, <2>2
<1> QED BY <1>2 DEF most

(* A packet of three frames is parsed into them. *)
Are(frames, x, y, z) ==
    /\ frames = [i \in 1 .. 3 |-> frames[i]]
    /\ frames[1] = x /\ frames[2] = y /\ frames[3] = z

(* A packet that holds three frames is parsed into them, and lasts 60 ms.  *)
LEMMA ThreeRead ==
    ASSUME NEW p \in Seq(Bytes), NEW x \in Seq(Bytes), NEW y \in Seq(Bytes), NEW z \in Seq(Bytes),
           Len(x) <= 251, Len(y) <= 251, Len(z) <= 251, Holds(p, x, y, z)
    PROVE  /\ Inspect(p).at = 2880
           /\ Are(SubframePayloads(p, 3).value, x, y, z)
<1> DEFINE a == Len(x)
           b == Len(y)
           c == Len(z)
           frames == VbrFrames(p, 2, Len(p), 3)
<1>1. /\ Three(p, a, b, c)
      /\ SubSeq(p, 4 + 1, 4 + a) = x
      /\ SubSeq(p, 4 + a + 1, 4 + a + b) = y
      /\ SubSeq(p, 4 + a + b + 1, 4 + a + b + c) = z
  BY DEF Holds
<1>2. a \in Nat /\ b \in Nat /\ c \in Nat /\ a <= 251 /\ b <= 251 /\ c <= 251
  OBVIOUS
<1> HIDE DEF a, b, c
<1>3. a \in Short /\ b \in Short /\ c \in Short /\ c \in Nat
  BY <1>2 DEF Short
<1>4. Three(p, a, b, c)
  BY <1>1
<1>5. Inspect(p).at = 2880
  BY <1>3, <1>4, ThreeInspected
<1>6. SubframePayloads(p, 3) = frames
  BY <1>3, <1>4, ThreeParsed
<1>7. /\ frames.value = [i \in 1 .. 3 |-> frames.value[i]]
      /\ frames.value[1] = SubSeq(p, 4 + 1, 4 + a)
      /\ frames.value[2] = SubSeq(p, 4 + a + 1, 4 + a + b)
      /\ frames.value[3] = SubSeq(p, 4 + a + b + 1, 4 + a + b + c)
  BY <1>3, <1>4, ThreeFrames
<1> HIDE DEF frames
<1>8. Are(frames.value, x, y, z)
  <2> DEFINE v == frames.value
  <2>1. v = [i \in 1 .. 3 |-> v[i]]
    BY <1>7
  <2>2. v[1] = x /\ v[2] = y /\ v[3] = z
    BY <1>1, <1>7, Zenon
  <2> HIDE DEF v
  <2>3. Are(v, x, y, z)
    BY <2>1, <2>2 DEF Are
  <2> QED BY <2>3 DEF v
<1> QED BY <1>5, <1>6, <1>8

(* Three subframes within their budget make a packet that fits and is      *)
(* parsed into them.                                                       *)
LEMMA ThreeFit ==
    ASSUME NEW name \in DOMAIN OpusProfile, NEW lengths \in Seq(Nat), Len(lengths) = 3,
           \A i \in DOMAIN lengths : lengths[i] <= Budget(OpusProfile[name], Len(lengths), i),
           OpusProfile[name].ms = 60, MaxPayloadBytes(OpusProfile[name]) \in {60, 120, 240},
           EncoderLayout(OpusProfile[name]).value = DecoderLayout(OpusProfile[name]).value
    PROVE  PacketFits(name, lengths)
<1> DEFINE profile == OpusProfile[name]
           filled  == [i \in 1 .. 3 |-> Filled(lengths[i], i)]
           subpackets == [i \in DOMAIN lengths |-> << 72 >> \o Filled(lengths[i], i)]
           packet  == EncodePacket(subpackets)
           x == filled[1]
           y == filled[2]
           z == filled[3]
           a == lengths[1]
           b == lengths[2]
           c == lengths[3]
           p == Joined(x, y, z)
<1>1. DOMAIN lengths = 1 .. 3 /\ 1 .. 3 = {1, 2, 3}
  OBVIOUS
<1>2. a \in Nat /\ b \in Nat /\ c \in Nat
  <2>1. 1 \in 1 .. Len(lengths) /\ 2 \in 1 .. Len(lengths) /\ 3 \in 1 .. Len(lengths)
    OBVIOUS
  <2>2. \A i \in 1 .. Len(lengths) : lengths[i] \in Nat
    BY ElementOfSeq, Zenon
  <2> QED BY <2>1, <2>2
<1>3. a <= 79 /\ b <= 79 /\ c <= 79 /\ 4 + a + b + c <= MaxPayloadBytes(profile)
  <2>1. a <= Budget(profile, 3, 1) /\ b <= Budget(profile, 3, 2) /\ c <= Budget(profile, 3, 3)
    BY <1>1
  <2> HIDE DEF a, b, c, profile
  <2>2. MaxPayloadBytes(profile) \in {60, 120, 240}
    BY DEF profile
  <2> QED BY <1>2, <2>1, <2>2, BudgetIs
<1>4. \A i \in 1 .. 3 : filled[i] = Filled(lengths[i], i)
  OBVIOUS
<1>5. ASSUME NEW i \in {1, 2, 3}, NEW n \in Nat
      PROVE  Filled(n, i) \in Seq(Bytes) /\ Len(Filled(n, i)) = n
  <2>1. i \in Bytes
    BY DEF Bytes
  <2> QED BY <2>1 DEF Filled
<1> HIDE DEF filled, a, b, c
<1>6. /\ x \in Seq(Bytes) /\ y \in Seq(Bytes) /\ z \in Seq(Bytes)
      /\ Len(x) = a /\ Len(y) = b /\ Len(z) = c
  <2>1. x = Filled(a, 1) /\ y = Filled(b, 2) /\ z = Filled(c, 3)
    BY <1>4 DEF a, b, c
  <2> HIDE DEF x, y, z
  <2> QED BY <1>2, <1>5, <2>1
<1>7. /\ subpackets[1] = << 72 >> \o x /\ subpackets[2] = << 72 >> \o y /\ subpackets[3] = << 72 >> \o z
  BY <1>1, <1>4, SMTT(30)
<1>8. subpackets = [i \in 1 .. 3 |-> subpackets[i]]
  BY <1>1
<1> HIDE DEF subpackets, x, y, z
<1>9. \A i \in 1 .. 3 : Tail(subpackets[i]) = filled[i] /\ subpackets[i] \in Seq(Bytes)
  <2>1. Tail(<< 72 >> \o x) = x /\ Tail(<< 72 >> \o y) = y /\ Tail(<< 72 >> \o z) = z
    BY <1>6, SubpacketIs
  <2>2. /\ << 72 >> \o x \in Seq(Bytes) /\ << 72 >> \o y \in Seq(Bytes) /\ << 72 >> \o z \in Seq(Bytes)
    <3> DEFINE toc == << 72 >>
    <3>1. toc \in Seq(Bytes)
      BY DEF Bytes
    <3> HIDE DEF toc
    <3>2. toc \o x \in Seq(Bytes) /\ toc \o y \in Seq(Bytes) /\ toc \o z \in Seq(Bytes)
      BY <1>6, <3>1, ConcatProperties
    <3> QED BY <3>2 DEF toc
  <2>3. /\ Tail(subpackets[1]) = filled[1] /\ Tail(subpackets[2]) = filled[2]
        /\ Tail(subpackets[3]) = filled[3]
    BY <1>7, <2>1, Zenon DEF x, y, z
  <2>4. /\ subpackets[1] \in Seq(Bytes) /\ subpackets[2] \in Seq(Bytes)
        /\ subpackets[3] \in Seq(Bytes)
    BY <1>7, <2>2, Zenon
  <2> QED BY <1>1, <2>3, <2>4, Zenon
<1>10. Len(subpackets) = 3
  <2> DEFINE n == 3
             T == Seq(Bytes)
  <2>1. n \in Nat /\ subpackets \in [1 .. n -> T]
    BY <1>8, <1>9
  <2> HIDE DEF n, T
  <2>2. subpackets \in Seq(T)
    BY <2>1
  <2>3. Len(subpackets) = n
    BY <2>1, <2>2
  <2> QED BY <2>3 DEF n
<1>11. packet = Found(0, p)
  <2>1. Len(x) <= 251 /\ Len(y) <= 251 /\ Len(z) <= 251
    BY <1>2, <1>3, <1>6
  <2> QED BY <1>6, <1>7, <1>10, <2>1, EncodeThree
<1>12. Good(packet) /\ packet.value = p
  <2> HIDE DEF packet, p
  <2> QED BY <1>11 DEF Good, Found
<1> HIDE DEF packet, p
<1>13. Len(x) <= 251 /\ Len(y) <= 251 /\ Len(z) <= 251
  BY <1>2, <1>3, <1>6
<1>14. p \in Seq(Bytes) /\ Holds(p, x, y, z)
  <2>1. x \in Seq(Bytes) /\ y \in Seq(Bytes) /\ z \in Seq(Bytes)
    BY <1>6
  <2> QED BY <1>13, <2>1, JoinedIs DEF p
<1>15. Len(p) <= MaxPayloadBytes(profile)
  <2>1. Len(p) = 4 + a + b + c
    BY <1>6, <1>14 DEF Holds, Three
  <2> QED BY <1>3, <2>1
<1>19. Inspect(p).at = 2880 /\ Are(SubframePayloads(p, 3).value, x, y, z)
  <2>1. x \in Seq(Bytes) /\ y \in Seq(Bytes) /\ z \in Seq(Bytes)
    BY <1>6
  <2>2. p \in Seq(Bytes)
    BY <1>14
  <2>3. Holds(p, x, y, z)
    BY <1>14
  <2> QED BY <1>13, <2>1, <2>2, <2>3, ThreeRead
<1>16. SubframePayloads(p, 3).value = [i \in DOMAIN lengths |-> Tail(subpackets[i])]
  <2> DEFINE frames == SubframePayloads(p, 3).value
  <2>1. /\ frames = [i \in 1 .. 3 |-> frames[i]]
        /\ frames[1] = x /\ frames[2] = y /\ frames[3] = z
    BY <1>19 DEF Are
  <2> HIDE DEF frames
  <2>2. \A i \in 1 .. 3 : frames[i] = Tail(subpackets[i])
    <3>1. /\ Tail(subpackets[1]) = x /\ Tail(subpackets[2]) = y /\ Tail(subpackets[3]) = z
      BY <1>1, <1>9, Zenon DEF x, y, z
    <3> QED BY <1>1, <2>1, <3>1, ZenonT(40)
  <2>3. frames = [i \in 1 .. 3 |-> Tail(subpackets[i])]
    BY <2>1, <2>2
  <2> QED BY <1>1, <2>3, Zenon DEF frames
<1>17. Inspect(p).at = 48 * profile.ms
  <2>1. 48 * 60 = 2880
    OBVIOUS
  <2> QED BY <1>19, <2>1
<1>18. PacketFits(name, lengths)
         <=> /\ EncoderLayout(profile).value = DecoderLayout(profile).value
             /\ Len(lengths) = SubframeCount(name) /\ Len(lengths) > 1 =>
                  /\ Good(packet)
                  /\ Len(packet.value) <= MaxPayloadBytes(profile)
                  /\ SubframePayloads(packet.value, Len(lengths)).value
                       = [i \in DOMAIN lengths |-> Tail(subpackets[i])]
                  /\ Inspect(packet.value).at = 48 * profile.ms
  BY DEF PacketFits, packet, subpackets
<1> HIDE DEF profile
<1>20. EncoderLayout(profile).value = DecoderLayout(profile).value
  BY DEF profile
<1> QED BY <1>12, <1>15, <1>16, <1>17, <1>18, <1>20, Zenon

(* Whatever the subframes of a profile take of their budget fits.          *)
LEMMA EverySize ==
    ASSUME NEW name \in DOMAIN OpusProfile, NEW lengths \in Seq(Nat),
           \A i \in DOMAIN lengths : lengths[i] <= Budget(OpusProfile[name], Len(lengths), i)
    PROVE  PacketFits(name, lengths)
<1> DEFINE profile == OpusProfile[name]
<1>1. /\ EncoderLayout(profile).value = DecoderLayout(profile).value
      /\ \/ SubframeCount(name) = 1
         \/ /\ SubframeCount(name) = 3 /\ profile.ms = 60
            /\ MaxPayloadBytes(profile) \in {60, 120, 240}
  BY ProfileIs
<1>2. CASE ~(Len(lengths) = SubframeCount(name) /\ Len(lengths) > 1)
  BY <1>1, <1>2 DEF PacketFits
<1>3. CASE Len(lengths) = SubframeCount(name) /\ Len(lengths) > 1
  <2>1. Len(lengths) = 3
    BY <1>1, <1>3
  <2>2. profile.ms = 60 /\ MaxPayloadBytes(profile) \in {60, 120, 240}
    BY <1>1, <1>3
  <2> QED BY <1>1, <2>1, <2>2, ThreeFit, ZenonT(40)
<1> QED BY <1>2, <1>3

-----------------------------------------------------------------------------
(* The packets the parsers may be given, any bytes, and the sizes the      *)
(* subframes of a profile's frame may have, any within their budget.       *)
OpusSample ==
    /\ sample.type = "opus" => sample.bytes \in Seq(Bytes)
    /\ sample.type = "subframes" =>
         /\ sample.profile \in DOMAIN OpusProfile
         /\ sample.lengths \in Seq(Nat)
         /\ \A i \in DOMAIN sample.lengths :
               sample.lengths[i]
                 <= Budget(OpusProfile[sample.profile], Len(sample.lengths), i)

(* Of any packet, and for any sizes of subframes: the two parsers of Opus  *)
(* packets never slice out of range, find the same frames, and lose no     *)
(* byte of the packet; what the writer makes of a frame fits its profile.  *)
THEOREM OpusFramesAgree == OpusSample => OpusAgrees
<1> SUFFICES ASSUME OpusSample PROVE OpusAgrees
  OBVIOUS
<1>1. ASSUME sample.type = "opus", sample.bytes # <<>> PROVE ParsersAgree(sample.bytes)
  <2>1. sample.bytes \in Seq(Bytes)
    BY <1>1 DEF OpusSample
  <2> QED BY <1>1, <2>1, EveryPacket
<1>2. ASSUME sample.type = "subframes" PROVE PacketFits(sample.profile, sample.lengths)
  <2>1. /\ sample.profile \in DOMAIN OpusProfile /\ sample.lengths \in Seq(Nat)
        /\ \A i \in DOMAIN sample.lengths :
              sample.lengths[i] <= Budget(OpusProfile[sample.profile], Len(sample.lengths), i)
    BY <1>2 DEF OpusSample
  <2> QED BY <2>1, EverySize
<1> QED BY <1>1, <1>2 DEF OpusAgrees
=============================================================================
