----------------------------- MODULE MediaQueue -----------------------------
(***************************************************************************)
(* MediaQueue (lxst-embedded, queue.rs): encoded frames between the radio  *)
(* and a codec, in a ring (CAPACITY, three slots).  A frame carries the     *)
(* deadline after which it is worthless and the audio generation it        *)
(* belongs to; pushing into a full ring retires the oldest slot, popping   *)
(* retires every expired or stale slot in front of the first good one.     *)
(*                                                                         *)
(* Bytes are abstracted to a serial number given at the push and to their  *)
(* number, the size of the frame; an output buffer is its room.            *)
(***************************************************************************)
EXTENDS Naturals, Sequences

CONSTANTS
    Capacity,       \* how many slots the ring has
    Sizes,          \* how many bytes a frame can have
    Generations,    \* audio generations
    Horizon,        \* bound of the clock, in ticks
    MaxFrames       \* bound of the frames ever pushed

ASSUME QueueAssumption ==
    /\ Capacity \in Nat \ {0}
    /\ Sizes \subseteq Nat \ {0}
    /\ Horizon \in Nat /\ MaxFrames \in Nat

(* What an output buffer can hold: one may be empty, or fit some frames. *)
Rooms == Sizes \cup {0}

Frames == [serial : 1 .. MaxFrames, size : Sizes, expires : 0 .. Horizon,
           generation : Generations]

EmptySlot == [serial |-> 0, size |-> 0, expires |-> 0, generation |-> 0]

VARIABLES
    slots,      \* the ring
    head,       \* index of the oldest frame
    length,     \* how many slots are in use
    dropped,    \* the public counter of dropped frames
    now,        \* the caller's clock
    pushed,     \* how many frames the ring has accepted
    flushed,    \* how many frames clear() threw away
    taken,      \* how many frames were handed out
    got         \* what the last pop asked for and handed out

vars == <<slots, head, length, dropped, now, pushed, flushed, taken, got>>

Unread == [asked |-> 0, room |-> 0, frames |-> {}]

Answer(generation, room, frames) ==
    [asked |-> generation, room |-> room, frames |-> frames]

TypeOK ==
    /\ slots \in [0 .. Capacity - 1 -> Frames \cup {EmptySlot}]
    /\ head \in 0 .. Capacity - 1
    /\ length \in 0 .. Capacity
    /\ dropped \in Nat /\ flushed \in Nat /\ taken \in Nat
    /\ now \in 0 .. Horizon
    /\ pushed \in 0 .. MaxFrames
    /\ got \in [asked : Generations \cup {0}, room : Rooms, frames : SUBSET Frames]

Init ==
    /\ slots = [i \in 0 .. Capacity - 1 |-> EmptySlot]
    /\ head = 0 /\ length = 0 /\ dropped = 0
    /\ now = 0 /\ pushed = 0 /\ flushed = 0 /\ taken = 0 /\ got = Unread

-----------------------------------------------------------------------------
(* The i-th oldest slot, counted from 0. *)
Slot(i) == (head + i) % Capacity

Blank(indices) == [i \in DOMAIN slots |-> IF i \in indices THEN EmptySlot ELSE slots[i]]

(* The first n slots are retired. *)
Retired(n) == {Slot(i) : i \in 0 .. n - 1}

(* Deliberate fault: a push does not look whether the ring is full.        *)
PushUnchecked(size, expires, generation) ==
    LET frame == [serial |-> pushed + 1, size |-> size, expires |-> expires,
                  generation |-> generation]
    IN  /\ pushed < MaxFrames
        /\ expires > now
        /\ slots'   = [slots EXCEPT ![Slot(length)] = frame]
        /\ length'  = length + 1
        /\ pushed'  = pushed + 1
        /\ got'     = Unread
        /\ UNCHANGED <<head, dropped, now, flushed, taken>>

Push(size, expires, generation) ==
    LET full  == length = Capacity
        n     == IF full THEN 1 ELSE 0
        frame == [serial |-> pushed + 1, size |-> size, expires |-> expires,
                  generation |-> generation]
    IN  /\ pushed < MaxFrames
        /\ expires > now
        /\ slots'   = [Blank(Retired(n)) EXCEPT ![Slot(length)] = frame]
        /\ head'    = Slot(n)
        /\ length'  = length - n + 1
        /\ dropped' = dropped + n
        /\ pushed'  = pushed + 1
        /\ got'     = Unread
        /\ UNCHANGED <<now, flushed, taken>>

Good(slot, generation) == slot.expires > now /\ slot.generation = generation

(* Deliberate fault: frames of an earlier generation are handed out.       *)
UnfitByAgeOnly(generation) ==
    LET good == {i \in 0 .. length - 1 : slots[Slot(i)].expires > now}
    IN  IF good = {} THEN length
        ELSE CHOOSE i \in good : \A j \in good : i <= j

(* How many slots a reader of this generation has to retire unread. *)
Unfit(generation) ==
    LET good == {i \in 0 .. length - 1 : Good(slots[Slot(i)], generation)}
    IN  IF good = {} THEN length
        ELSE CHOOSE i \in good : \A j \in good : i <= j

(* A frame too large for the output stays where it is. *)
Pop(generation, room) ==
    LET n     == Unfit(generation)
        found == n < length /\ slots[Slot(n)].size <= room
        gone  == IF found THEN n + 1 ELSE n
    IN  /\ slots'   = Blank(Retired(gone))
        /\ head'    = Slot(gone)
        /\ length'  = length - gone
        /\ dropped' = dropped + n
        /\ taken'   = IF found THEN taken + 1 ELSE taken
        /\ got'     = Answer(generation, room, IF found THEN {slots[Slot(n)]} ELSE {})
        /\ UNCHANGED <<now, pushed, flushed>>

Clear ==
    /\ slots' = Blank(DOMAIN slots)
    /\ head' = 0 /\ length' = 0
    /\ flushed' = flushed + length
    /\ got' = Unread
    /\ UNCHANGED <<dropped, now, pushed, taken>>

ClockTick ==
    /\ now < Horizon
    /\ now' = now + 1
    /\ UNCHANGED <<slots, head, length, dropped, pushed, flushed, taken, got>>

Next ==
    \/ \E size \in Sizes, expires \in 0 .. Horizon, g \in Generations : Push(size, expires, g)
    \/ \E g \in Generations, room \in Rooms : Pop(g, room)
    \/ Clear
    \/ ClockTick

Spec == Init /\ [][Next]_vars

-----------------------------------------------------------------------------
(* Properties *)

(* Every accepted frame is accounted for: it is held, was handed out once, *)
(* was counted as dropped, or was flushed by clear.                        *)
Accounting == pushed = length + taken + dropped + flushed

(* A slot outside the occupied arc keeps nothing of the frame it held      *)
(* (retire, clear), and one inside it holds a frame.                       *)
ExactlyOccupied ==
    \A i \in 0 .. Capacity - 1 : slots[Slot(i)] = EmptySlot <=> i >= length

(* The ring is sound: typed, exactly full of what was accepted and not     *)
(* accounted for otherwise.                                                *)
NothingUncounted == TypeOK /\ Accounting /\ ExactlyOccupied

Held == [i \in 1 .. length |-> slots[Slot(i - 1)]]

(* The ring is a bounded queue of perishable frames: wherever its arc      *)
(* wraps, it holds, forgets and hands out what a queue would, in order,    *)
(* none twice, none stale, none forgotten that was good, and none kept     *)
(* back from a reader with room for it.                                    *)
Fifo == INSTANCE FrameFifo WITH queue <- Held
ImplementsFifo == Fifo!Spec
=============================================================================
