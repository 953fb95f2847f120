----------------------------- MODULE FrameFifo -----------------------------
(***************************************************************************)
(* What the embedded media queue promises: a bounded queue of perishable   *)
(* frames in arrival order.  Under pressure it forgets the oldest frame; a *)
(* reader is handed the oldest frame that is still worth playing, and only *)
(* what precedes it, worth nothing, is forgotten.  Every forgotten frame   *)
(* is counted, except those a flush throws away.  MediaQueue implements    *)
(* this specification.                                                     *)
(***************************************************************************)
EXTENDS Naturals, Sequences

CONSTANTS
    Capacity,
    Frames,         \* records with a size, an expiry and a generation, among others
    Generations,
    Rooms           \* how much a reader can be handed

VARIABLES
    queue,      \* the frames held, oldest first
    dropped,    \* how many were forgotten
    got,        \* what the last read asked for and was handed
    now

vars == <<queue, dropped, got, now>>

Unread == [asked |-> 0, room |-> 0, frames |-> {}]

Handed(generation, room, frames) ==
    [asked |-> generation, room |-> room, frames |-> frames]

Init == queue = <<>> /\ dropped = 0 /\ got = Unread /\ now = 0

Put(frame) ==
    /\ frame.expires > now
    /\ got' = Unread
    /\ IF Len(queue) < Capacity
       THEN queue' = Append(queue, frame) /\ UNCHANGED dropped
       ELSE queue' = Append(Tail(queue), frame) /\ dropped' = dropped + 1
    /\ UNCHANGED now

Worth(frame, generation) == frame.expires > now /\ frame.generation = generation

(* The first n frames are worth nothing and forgotten.  The next one, if   *)
(* there is one, is handed out, or stays if the reader has no room for it. *)
Take(generation, room, n) ==
    /\ \A i \in 1 .. n : ~Worth(queue[i], generation)
    /\ n < Len(queue) => Worth(queue[n + 1], generation)
    /\ dropped' = dropped + n
    /\ \/ /\ n < Len(queue) /\ queue[n + 1].size <= room
          /\ got' = Handed(generation, room, {queue[n + 1]})
          /\ queue' = SubSeq(queue, n + 2, Len(queue))
       \/ /\ n < Len(queue) => queue[n + 1].size > room
          /\ got' = Handed(generation, room, {})
          /\ queue' = SubSeq(queue, n + 1, Len(queue))
    /\ UNCHANGED now

Flush == queue' = <<>> /\ got' = Unread /\ UNCHANGED <<dropped, now>>

TimePasses == now' = now + 1 /\ UNCHANGED <<queue, dropped, got>>

Next ==
    \/ \E frame \in Frames : Put(frame)
    \/ \E g \in Generations, room \in Rooms, n \in 0 .. Len(queue) : Take(g, room, n)
    \/ Flush
    \/ TimePasses

Spec == Init /\ [][Next]_vars
=============================================================================
