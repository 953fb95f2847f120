---------------------------- MODULE TransmitGate ----------------------------
(***************************************************************************)
(* AudioTransmitGate (lxst-telephony, capture_gate.rs): the push-to-talk   *)
(* lease between a user interface and the audio thread.  The interface     *)
(* numbers its edges, presses and releases, and renews a press under the   *)
(* press's serial; what it sends may arrive late, repeatedly and in any    *)
(* order.  The audio thread asks before each frame.  Both threads read the *)
(* clock before they take the lock, so an operation may carry a time older *)
(* than the one before it.                                                 *)
(***************************************************************************)
EXTENDS Integers, Sequences

CONSTANTS
    Lease,      \* 750 ms: how long a press lasts without renewal
    Burst,      \* 10 s: how long a press lasts at most
    Skew,       \* how old a time may be when its operation gets the lock
    MaxEdges,   \* bound of the edges the interface sends
    Horizon     \* bound of the clock

ASSUME GateAssumption ==
    /\ Lease \in Nat \ {0} /\ Burst \in Nat \ {0} /\ Skew \in Nat
    /\ MaxEdges \in Nat /\ Horizon \in Nat

Never == -1                     \* Option::None for an instant
MaxSerial == MaxEdges + 1       \* u64::MAX

VARIABLES
    gate,       \* the State behind the mutex
    now,        \* the clock
    edges,      \* the edges the interface has numbered: TRUE is a press
    released,   \* the highest serial of a release that has arrived
    expired,    \* a press in force was refused, and no release accepted since
    opened,     \* when the press in force arrived
    renewed,    \* when a press or a renewal was last accepted
    closed      \* the owner closed the gate

history == <<released, expired, opened, renewed>>
vars == <<gate, now, edges, history, closed>>

Instants == Never .. Horizon

TypeOK ==
    /\ gate \in [serial : 0 .. MaxSerial, began : Instants,
                 until : Never .. Horizon + Lease, blocked : BOOLEAN]
    /\ now \in 0 .. Horizon
    /\ edges \in Seq(BOOLEAN) /\ Len(edges) <= MaxEdges
    /\ released \in 0 .. MaxEdges
    /\ opened \in Instants /\ renewed \in Instants
    /\ expired \in BOOLEAN /\ closed \in BOOLEAN

State(serial, began, until, blocked) ==
    [serial |-> serial, began |-> began, until |-> until, blocked |-> blocked]

Silenced(serial, blocked) == State(serial, Never, Never, blocked)

Init ==
    /\ gate = Silenced(0, FALSE)
    /\ now = 0 /\ edges = <<>> /\ released = 0
    /\ expired = FALSE /\ opened = Never /\ renewed = Never /\ closed = FALSE

-----------------------------------------------------------------------------
(* update_at: the state after, and whether the edge was accepted. *)

Outcome(state, ok) == [gate |-> state, ok |-> ok]

BurstOver(state, at) == at - state.began >= Burst
LeaseOver(state, at) == state.until # Never /\ at >= state.until

(* Deliberate fault: each renewal starts a new burst.                      *)
RenewForEver(state, at) ==
    IF state.blocked \/ state.began = Never THEN Outcome(state, FALSE)
    ELSE IF BurstOver(state, at) \/ LeaseOver(state, at)
    THEN Outcome(State(state.serial, state.began, Never, TRUE), FALSE)
    ELSE Outcome(State(state.serial, at, at + Lease, FALSE), TRUE)

Renew(state, at) ==
    IF state.blocked \/ state.began = Never THEN Outcome(state, FALSE)
    ELSE IF BurstOver(state, at) \/ LeaseOver(state, at)
    THEN Outcome(State(state.serial, state.began, Never, TRUE), FALSE)
    ELSE Outcome(State(state.serial, state.began, at + Lease, FALSE), TRUE)

Release(serial) == Outcome(Silenced(serial, FALSE), TRUE)

NewEdge(state, serial, pressed, at) ==
    IF ~pressed THEN Release(serial)
    ELSE IF state.blocked THEN Outcome(Silenced(serial, TRUE), FALSE)
    ELSE Renew(State(serial, at, Never, FALSE), at)

(* Deliberate fault: an edge older than the last one counts as new.        *)
UpdateUnordered(state, serial, pressed, at) ==
    IF serial = 0 THEN Outcome(state, FALSE)
    ELSE IF serial # state.serial THEN NewEdge(state, serial, pressed, at)
    ELSE IF pressed THEN Renew(state, at)
    ELSE Release(serial)

Update(state, serial, pressed, at) ==
    IF serial = 0 \/ serial < state.serial THEN Outcome(state, FALSE)
    ELSE IF serial > state.serial THEN NewEdge(state, serial, pressed, at)
    ELSE IF pressed THEN Renew(state, at)
    ELSE Release(serial)

(* allows_at, when it gets the lock. *)
Allowed(state, at) ==
    /\ ~state.blocked
    /\ state.until # Never /\ at < state.until
    /\ state.began # Never /\ at - state.began < Burst

(* Deliberate fault: a refusal does not block the press.                   *)
AfterAskingFreely(state, at) == state

AfterAsking(state, at) ==
    IF ~Allowed(state, at) /\ state.began # Never
    THEN State(state.serial, state.began, Never, TRUE)
    ELSE state

-----------------------------------------------------------------------------
(* Times an operation may carry.  One before the press's own time counts   *)
(* as that time: Instant differences saturate at zero.                     *)
Times == {at \in now - Skew .. now : at >= 0}

Send ==
    /\ Len(edges) < MaxEdges
    /\ \E pressed \in BOOLEAN : edges' = Append(edges, pressed)
    /\ UNCHANGED <<gate, now, history, closed>>

InForce(edge) == gate.serial = edge /\ gate.began # Never

(* An edge, or a renewal of a press, arrives. *)
Arrive ==
    \E edge \in DOMAIN edges, at \in Times :
        LET pressed == edges[edge]
            outcome == Update(gate, edge, pressed, at)
        IN  /\ gate' = outcome.gate
            /\ released' = IF ~pressed /\ edge > released THEN edge ELSE released
            /\ expired' = IF outcome.ok /\ ~pressed THEN FALSE
                          ELSE expired \/ (pressed /\ InForce(edge) /\ ~outcome.ok)
            /\ opened' = IF pressed /\ outcome.ok /\ ~InForce(edge) THEN now ELSE opened
            /\ renewed' = IF pressed /\ outcome.ok THEN now ELSE renewed
            /\ UNCHANGED <<now, edges, closed>>

(* An owner that closed the gate may also have reached the last serial. *)
ArriveLast ==
    \E pressed \in BOOLEAN, at \in Times :
        /\ closed
        /\ gate' = Update(gate, MaxSerial, pressed, at).gate
        /\ UNCHANGED <<now, edges, history, closed>>

(* A caller that does not get the lock is refused and changes nothing. *)
Ask ==
    \E at \in Times :
        /\ gate' = AfterAsking(gate, at)
        /\ expired' = (expired \/ (gate.began # Never /\ ~Allowed(gate, at)))
        /\ UNCHANGED <<now, edges, released, opened, renewed, closed>>

Close ==
    /\ gate' = Silenced(MaxSerial, TRUE)
    /\ closed' = TRUE
    /\ UNCHANGED <<now, edges, history>>

ClockTick ==
    /\ now < Horizon
    /\ now' = now + 1
    /\ UNCHANGED <<gate, edges, history, closed>>

Next == Send \/ Arrive \/ ArriveLast \/ Ask \/ Close \/ ClockTick

Spec == Init /\ [][Next]_vars

-----------------------------------------------------------------------------
(* Properties: when may the audio thread be allowed to forward a frame? *)

Forwards == \E at \in Times : Allowed(gate, at)

(* A release fences what was sent before it: however late a press or a     *)
(* renewal arrives, it does not open the gate once a later release came,   *)
(* and closing is a release of every serial, the last one included.        *)
ReleaseFences ==
    Forwards => ~closed /\ gate.serial > released /\ edges[gate.serial]

(* Once an expiry was observed, nothing but a release reopens the gate.    *)
ExpiryNeedsRelease == expired => ~Forwards

(* Renewals stretch a press up to the burst limit and no further, and a    *)
(* press that is not renewed ends with its lease; the clock skew of the    *)
(* two threads adds no more than the skew itself.                          *)
TalkIsBounded ==
    Forwards => now < opened + Burst + Skew /\ now < renewed + Lease + Skew
=============================================================================
