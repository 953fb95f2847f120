-------------------------- MODULE MediaQueueProofs --------------------------
(***************************************************************************)
(* The ring of the embedded media queue is sound for any capacity, any     *)
(* sizes, generations and deadlines, and any number of frames.  The        *)
(* invariant, NothingUncounted, is inductive as it stands: that a slot     *)
(* outside the occupied arc is empty, and one inside it is not, is what    *)
(* keeps the typing of the frames handed out, and the counters follow the  *)
(* length of the arc.                                                      *)
(***************************************************************************)
EXTENDS MediaQueue, SequenceTheorems, WellFoundedInduction, TLAPS

Indices == 0 .. Capacity - 1

(* Walking the ring: positions that are not walked past its end, and those *)
(* that are.                                                               *)
LEMMA RingWalk ==
    \A k \in 0 .. 2 * Capacity - 1 : k % Capacity = IF k < Capacity THEN k ELSE k - Capacity
<1>1. ASSUME NEW k \in 0 .. Capacity - 1
      PROVE  k % Capacity = k
  BY QueueAssumption
<1>2. ASSUME NEW k \in Capacity .. 2 * Capacity - 1
      PROVE  k % Capacity = k - Capacity
  <2>1. k - Capacity \in 0 .. Capacity - 1
    BY QueueAssumption
  <2>2. (k - Capacity) % Capacity = k - Capacity
    BY <1>1, <2>1
  <2> QED BY <2>2, QueueAssumption
<1> QED BY <1>1, <1>2, QueueAssumption

(* Numbers have a least one among them. *)
LEMMA LeastNatural ==
    ASSUME NEW S \in SUBSET Nat, S # {}
    PROVE  \E x \in S : \A y \in S : x <= y
<1> DEFINE R == {ss \in Nat \X Nat : ss[1] < ss[2]}
<1>1. IsWellFoundedOn(R, Nat)
  BY NatLessThanWellFounded DEF OpToRel
<1>2. PICK x \in S : \A y \in S : ~ (<< y, x >> \in R)
  BY <1>1, WFMin
<1>3. \A y \in S : ~ (y < x)
  BY <1>2
<1> QED BY <1>3

(* Each slot of the ring is the i-th oldest for one i.                     *)
LEMMA SlotTyped ==
    ASSUME head \in Indices, NEW i \in 0 .. Capacity
    PROVE  /\ Slot(i) = IF head + i < Capacity THEN head + i ELSE head + i - Capacity
           /\ Slot(i) \in Indices
BY RingWalk, QueueAssumption DEF Slot, Indices

(* An order among the slots a reader cares for has a first one: the number *)
(* of slots it retires is a number of slots in use, and it stops only at   *)
(* a good one.                                                             *)
LEMMA UnfitTyped ==
    ASSUME TypeOK, NEW g \in Generations
    PROVE  /\ Unfit(g) \in 0 .. length
           /\ Unfit(g) < length => Good(slots[Slot(Unfit(g))], g)
           /\ \A i \in 0 .. Unfit(g) - 1 : ~Good(slots[Slot(i)], g)
<1> DEFINE good == {i \in 0 .. length - 1 : Good(slots[Slot(i)], g)}
           First(i) == i \in good /\ \A j \in good : i <= j
<1>1. CASE good = {}
  BY <1>1, QueueAssumption DEF Unfit, TypeOK
<1>2. CASE good # {}
  <2>1. good \in SUBSET Nat
    BY DEF TypeOK
  <2>2. \E i : First(i)
    <3> HIDE DEF good
    <3> QED BY <1>2, <2>1, LeastNatural
  <2>3. Unfit(g) = CHOOSE i : First(i)
    BY <1>2 DEF Unfit
  <2>4. First(Unfit(g))
    <3> HIDE DEF First
    <3> QED BY <2>2, <2>3
  <2>5. Unfit(g) \in 0 .. length - 1 /\ length \in 0 .. Capacity
    BY <2>4, QueueAssumption DEF TypeOK
  <2>6. ASSUME NEW i \in 0 .. Unfit(g) - 1
        PROVE  i \notin good
    <3> HIDE DEF good
    <3> QED BY <2>4, <2>5
  <2> QED BY <2>4, <2>5, <2>6
<1> QED BY <1>1, <1>2

-----------------------------------------------------------------------------
(* The slots that are retired are the first n of the arc.                  *)
LEMMA BlankTyped ==
    ASSUME TypeOK, NEW n \in 0 .. length
    PROVE  /\ Blank(Retired(n)) \in [Indices -> Frames \cup {EmptySlot}]
           /\ \A i \in Indices :
                 Blank(Retired(n))[Slot(i)] = IF i < n THEN EmptySlot ELSE slots[Slot(i)]
<1>1. DOMAIN slots = Indices
  BY DEF TypeOK, Indices
<1>2. \A i \in Indices :
         /\ Slot(i) = IF head + i < Capacity THEN head + i ELSE head + i - Capacity
         /\ Slot(i) \in Indices
  BY SlotTyped, QueueAssumption DEF TypeOK, Indices
<1>3. ASSUME NEW i \in Indices, NEW j \in Indices, Slot(i) = Slot(j)
      PROVE  i = j
  <2>1. head \in 0 .. Capacity - 1 /\ i \in 0 .. Capacity - 1 /\ j \in 0 .. Capacity - 1
    BY DEF TypeOK, Indices
  <2> QED BY <1>2, <1>3, <2>1, QueueAssumption
<1>4. n \in 0 .. Capacity /\ length \in 0 .. Capacity
  BY QueueAssumption DEF TypeOK
<1>5. ASSUME NEW i \in Indices
      PROVE  Slot(i) \in Retired(n) <=> i < n
  <2>1. \A j \in 0 .. n - 1 : j \in Indices
    BY <1>4, QueueAssumption DEF Indices
  <2> QED BY <2>1, <1>3, <1>4, QueueAssumption DEF Retired, Indices
<1>6. Blank(Retired(n)) \in [Indices -> Frames \cup {EmptySlot}]
  BY <1>1 DEF Blank, TypeOK, Indices
<1> QED BY <1>1, <1>2, <1>5, <1>6 DEF Blank

(* After n slots were retired, the new i-th oldest slot is the old one n   *)
(* further.                                                                *)
LEMMA SlotShift ==
    ASSUME TypeOK, NEW n \in 0 .. Capacity, NEW i \in Indices
    PROVE  (Slot(n) + i) % Capacity =
               IF n + i < Capacity THEN Slot(n + i) ELSE Slot(n + i - Capacity)
<1>1. head \in 0 .. Capacity - 1 /\ i \in 0 .. Capacity - 1 /\ head \in Indices
  BY QueueAssumption DEF TypeOK, Indices
<1>2. /\ Slot(n) \in 0 .. Capacity - 1
      /\ Slot(n) = IF head + n < Capacity THEN head + n ELSE head + n - Capacity
  BY <1>1, SlotTyped, QueueAssumption DEF Indices
<1>3. (Slot(n) + i) % Capacity =
          IF Slot(n) + i < Capacity THEN Slot(n) + i ELSE Slot(n) + i - Capacity
  BY <1>1, <1>2, RingWalk, QueueAssumption
<1>4. \A k \in 0 .. Capacity :
          Slot(k) = IF head + k < Capacity THEN head + k ELSE head + k - Capacity
  BY <1>1, SlotTyped
<1>5. CASE n + i < Capacity
  <2>1. n + i \in 0 .. Capacity
    BY <1>1, <1>5, QueueAssumption
  <2>2. Slot(n + i) = IF head + (n + i) < Capacity THEN head + (n + i)
                      ELSE head + (n + i) - Capacity
    BY <1>4, <2>1
  <2>3. (Slot(n) + i) % Capacity = Slot(n + i)
    BY <1>1, <1>2, <1>3, <1>5, <2>2, QueueAssumption
  <2> QED BY <1>5, <2>3
<1>6. CASE ~(n + i < Capacity)
  <2>1. n + i - Capacity \in 0 .. Capacity
    BY <1>1, <1>6, QueueAssumption
  <2>2. Slot(n + i - Capacity) =
            IF head + (n + i - Capacity) < Capacity THEN head + (n + i - Capacity)
            ELSE head + (n + i - Capacity) - Capacity
    BY <1>4, <2>1
  <2>3. (Slot(n) + i) % Capacity = Slot(n + i - Capacity)
    BY <1>1, <1>2, <1>3, <1>6, <2>2, QueueAssumption
  <2> QED BY <1>6, <2>3
<1> QED BY <1>5, <1>6

-----------------------------------------------------------------------------
LEMMA InitSound == Init => NothingUncounted
<1> SUFFICES ASSUME Init PROVE NothingUncounted
  OBVIOUS
<1>1. TypeOK
  BY QueueAssumption DEF Init, TypeOK, Unread, Rooms
<1>2. Accounting
  BY DEF Init, Accounting
<1>3. ExactlyOccupied
  BY <1>1, SlotTyped, QueueAssumption DEF Init, ExactlyOccupied, Indices
<1> QED BY <1>1, <1>2, <1>3 DEF NothingUncounted

(* A frame that is pushed takes the slot behind the arc, which is free     *)
(* once a full ring has given up its oldest one.                           *)
LEMMA PushSound ==
    ASSUME NothingUncounted, NEW size \in Sizes, NEW expires \in 0 .. Horizon,
           NEW g \in Generations, Push(size, expires, g)
    PROVE  NothingUncounted'
<1> DEFINE n     == IF length = Capacity THEN 1 ELSE 0
           frame == [serial |-> pushed + 1, size |-> size, expires |-> expires,
                     generation |-> g]
<1>1. TypeOK /\ Accounting /\ ExactlyOccupied
  BY DEF NothingUncounted
<1>2. /\ head \in 0 .. Capacity - 1 /\ length \in 0 .. Capacity /\ pushed \in 0 .. MaxFrames
      /\ n \in 0 .. 1 /\ n <= length /\ MaxFrames \in Nat /\ pushed < MaxFrames
      /\ dropped \in Nat /\ flushed \in Nat /\ taken \in Nat
  BY <1>1, QueueAssumption DEF TypeOK, Push
<1>3. frame \in Frames /\ frame # EmptySlot
  <2>1. pushed + 1 \in 1 .. MaxFrames /\ pushed + 1 # 0
    BY <1>2
  <2> QED BY <2>1 DEF Frames, EmptySlot
<1>4. /\ slots' = [Blank(Retired(n)) EXCEPT ![Slot(length)] = frame]
      /\ head' = Slot(n) /\ length' = length - n + 1 /\ dropped' = dropped + n
      /\ pushed' = pushed + 1 /\ got' = Unread
      /\ now' = now /\ flushed' = flushed /\ taken' = taken
  BY DEF Push
<1> HIDE DEF frame
<1>5. /\ Blank(Retired(n)) \in [Indices -> Frames \cup {EmptySlot}]
      /\ \A i \in Indices :
            Blank(Retired(n))[Slot(i)] = IF i < n THEN EmptySlot ELSE slots[Slot(i)]
  BY <1>1, <1>2, BlankTyped
<1>6. \A i \in 0 .. Capacity :
         /\ Slot(i) \in Indices
         /\ Slot(i) = IF head + i < Capacity THEN head + i ELSE head + i - Capacity
  BY <1>1, SlotTyped, QueueAssumption DEF TypeOK, Indices
<1>7. TypeOK'
  <2>1. slots' \in [Indices -> Frames \cup {EmptySlot}]
    BY <1>3, <1>4, <1>5
  <2>2. head' \in 0 .. Capacity - 1
    BY <1>2, <1>4, <1>6, QueueAssumption DEF Indices
  <2>3. length' \in 0 .. Capacity /\ dropped' \in Nat /\ pushed' \in 0 .. MaxFrames
    BY <1>2, <1>4, QueueAssumption
  <2>4. got' \in [asked : Generations \cup {0}, room : Rooms, frames : SUBSET Frames]
    BY <1>4 DEF Unread, Rooms
  <2> QED BY <1>1, <1>4, <2>1, <2>2, <2>3, <2>4 DEF TypeOK, Indices
<1>8. Accounting'
  BY <1>1, <1>2, <1>4 DEF Accounting
<1>9. ExactlyOccupied'
  <2> SUFFICES ASSUME NEW i \in Indices
               PROVE  slots'[(Slot(n) + i) % Capacity] = EmptySlot <=> i >= length'
    BY <1>4 DEF ExactlyOccupied, Slot, Indices
  <2> DEFINE k == IF n + i < Capacity THEN n + i ELSE n + i - Capacity
  <2>1. k \in Indices /\ (Slot(n) + i) % Capacity = Slot(k)
    BY <1>1, <1>2, SlotShift, QueueAssumption DEF Indices
  <2>2. slots'[Slot(k)] = IF Slot(k) = Slot(length) THEN frame
                          ELSE IF k < n THEN EmptySlot ELSE slots[Slot(k)]
    BY <2>1, <1>4, <1>5, <1>6, <1>2
  <2>3. Slot(k) = Slot(length) <=> i = length - n
    BY <1>2, <1>6, <2>1, QueueAssumption DEF Indices
  <2>4. slots[Slot(k)] = EmptySlot <=> k >= length
    BY <1>1, <2>1 DEF ExactlyOccupied, Indices
  <2>5. CASE i = length - n
    BY <2>5, <2>1, <2>2, <2>3, <1>2, <1>3, <1>4
  <2>6. CASE i # length - n
    BY <2>6, <2>1, <2>2, <2>3, <2>4, <1>2, <1>4, QueueAssumption DEF Indices
  <2> QED BY <2>5, <2>6
<1> QED BY <1>7, <1>8, <1>9 DEF NothingUncounted

(* A reader retires what it does not want and, if it has room, takes the   *)
(* next: the arc shrinks at its head by as much as is counted.             *)
LEMMA PopSound ==
    ASSUME NothingUncounted, NEW g \in Generations, NEW room \in Rooms, Pop(g, room)
    PROVE  NothingUncounted'
<1> DEFINE n     == Unfit(g)
           found == n < length /\ slots[Slot(n)].size <= room
           gone  == IF found THEN n + 1 ELSE n
<1>1. TypeOK /\ Accounting /\ ExactlyOccupied
  BY DEF NothingUncounted
<1>2. /\ head \in 0 .. Capacity - 1 /\ length \in 0 .. Capacity
      /\ dropped \in Nat /\ flushed \in Nat /\ taken \in Nat
  BY <1>1, QueueAssumption DEF TypeOK
<1>3. n \in 0 .. length /\ (n < length => Slot(n) \in Indices)
  BY <1>1, <1>2, UnfitTyped, SlotTyped, QueueAssumption DEF TypeOK, Indices
<1>4. /\ slots' = Blank(Retired(gone)) /\ head' = Slot(gone) /\ length' = length - gone
      /\ dropped' = dropped + n /\ taken' = (IF found THEN taken + 1 ELSE taken)
      /\ got' = Answer(g, room, IF found THEN {slots[Slot(n)]} ELSE {})
      /\ now' = now /\ pushed' = pushed /\ flushed' = flushed
  BY DEF Pop
<1>5. found => slots[Slot(n)] \in Frames
  <2>1. SUFFICES ASSUME n < length PROVE slots[Slot(n)] \in Frames
    OBVIOUS
  <2>2. slots[Slot(n)] # EmptySlot
    BY <1>1, <1>2, <1>3, <2>1, QueueAssumption DEF ExactlyOccupied
  <2> QED BY <1>1, <1>3, <2>1, <2>2 DEF TypeOK, Indices
<1> HIDE DEF n
<1>6. gone \in 0 .. length /\ gone \in 0 .. Capacity
  BY <1>2, <1>3, QueueAssumption
<1>7. /\ Blank(Retired(gone)) \in [Indices -> Frames \cup {EmptySlot}]
      /\ \A i \in Indices :
            Blank(Retired(gone))[Slot(i)] = IF i < gone THEN EmptySlot ELSE slots[Slot(i)]
  <2> HIDE DEF gone
  <2> QED BY <1>1, <1>6, BlankTyped
<1>8. TypeOK'
  <2>1. slots' \in [Indices -> Frames \cup {EmptySlot}]
    BY <1>4, <1>7
  <2>2. head' \in 0 .. Capacity - 1
    <3> HIDE DEF gone
    <3> QED BY <1>1, <1>4, <1>6, SlotTyped, QueueAssumption DEF TypeOK, Indices
  <2>3. length' \in 0 .. Capacity /\ dropped' \in Nat /\ taken' \in Nat
    BY <1>2, <1>3, <1>4, <1>6, QueueAssumption
  <2>4. got' \in [asked : Generations \cup {0}, room : Rooms, frames : SUBSET Frames]
    BY <1>4, <1>5 DEF Answer
  <2> QED BY <1>1, <1>4, <2>1, <2>2, <2>3, <2>4 DEF TypeOK, Indices
<1>9. Accounting'
  BY <1>1, <1>2, <1>3, <1>4 DEF Accounting, TypeOK
<1>10. ExactlyOccupied'
  <2> HIDE DEF gone
  <2> SUFFICES ASSUME NEW i \in Indices
               PROVE  slots'[(Slot(gone) + i) % Capacity] = EmptySlot <=> i >= length'
    BY <1>4 DEF ExactlyOccupied, Slot, Indices
  <2> DEFINE k == IF gone + i < Capacity THEN gone + i ELSE gone + i - Capacity
  <2>1. k \in Indices /\ (Slot(gone) + i) % Capacity = Slot(k)
    BY <1>1, <1>6, SlotShift, QueueAssumption DEF Indices
  <2>2. slots'[Slot(k)] = IF k < gone THEN EmptySlot ELSE slots[Slot(k)]
    BY <2>1, <1>4, <1>7
  <2>3. slots[Slot(k)] = EmptySlot <=> k >= length
    BY <1>1, <2>1 DEF ExactlyOccupied, Indices
  <2> QED BY <2>1, <2>2, <2>3, <1>2, <1>4, <1>6, QueueAssumption DEF Indices
<1> QED BY <1>8, <1>9, <1>10 DEF NothingUncounted

(* The invariant, in every step. *)
LEMMA StepSound == NothingUncounted /\ [Next]_vars => NothingUncounted'
<1> SUFFICES ASSUME NothingUncounted, [Next]_vars
             PROVE  NothingUncounted'
  OBVIOUS
<1>1. ASSUME NEW size \in Sizes, NEW expires \in 0 .. Horizon, NEW g \in Generations,
             Push(size, expires, g)
      PROVE  NothingUncounted'
  BY <1>1, PushSound
<1>2. ASSUME NEW g \in Generations, NEW room \in Rooms, Pop(g, room)
      PROVE  NothingUncounted'
  BY <1>2, PopSound
<1>3. ASSUME Clear PROVE NothingUncounted'
  <2>1. TypeOK /\ Accounting
    BY DEF NothingUncounted
  <2>2. Blank(DOMAIN slots) = [i \in Indices |-> EmptySlot]
    BY <2>1 DEF TypeOK, Blank, Indices
  <2>3. TypeOK'
    BY <1>3, <2>1, <2>2, QueueAssumption DEF TypeOK, Clear, Unread, Rooms, Indices
  <2>4. Accounting'
    BY <1>3, <2>1, QueueAssumption DEF Accounting, Clear, TypeOK
  <2>5. ExactlyOccupied'
    <3> SUFFICES ASSUME NEW i \in Indices
                 PROVE  slots'[(0 + i) % Capacity] = EmptySlot /\ i >= 0
      BY <1>3, QueueAssumption DEF ExactlyOccupied, Slot, Clear, Indices
    <3> QED BY <1>3, <2>2, RingWalk, QueueAssumption DEF Clear, Indices
  <2> QED BY <2>3, <2>4, <2>5 DEF NothingUncounted
<1>4. ASSUME ClockTick PROVE NothingUncounted'
  BY <1>4, QueueAssumption
     DEF NothingUncounted, TypeOK, Accounting, ExactlyOccupied, Slot, ClockTick
<1>5. CASE UNCHANGED vars
  BY <1>5 DEF NothingUncounted, TypeOK, Accounting, ExactlyOccupied, Slot, vars
<1> QED BY <1>1, <1>2, <1>3, <1>4, <1>5 DEF Next

(* Every frame the ring accepted is held, was handed out once, was counted *)
(* as dropped or was flushed, and slots that are not in use keep nothing   *)
(* (push, pop, clear and retire of queue.rs).                              *)
THEOREM QueueSound == Spec => []NothingUncounted
<1>1. Init => NothingUncounted
  BY InitSound
<1>2. NothingUncounted /\ [Next]_vars => NothingUncounted'
  BY StepSound
<1> QED BY <1>1, <1>2, PTL DEF Spec

-----------------------------------------------------------------------------
(* The ring as a queue: FrameFifo sees the arc as a sequence. *)

HeldSound ==
    /\ Held \in Seq(Frames) /\ Len(Held) = length
    /\ \A i \in 1 .. length : Held[i] = slots[Slot(i - 1)]

LEMMA HeldTyped == NothingUncounted => HeldSound
<1> SUFFICES ASSUME NothingUncounted PROVE HeldSound
  OBVIOUS
<1>1. length \in 0 .. Capacity
  BY QueueAssumption DEF NothingUncounted, TypeOK
<1>2. \A i \in 1 .. length : slots[Slot(i - 1)] \in Frames
  <2> SUFFICES ASSUME NEW i \in 1 .. length
               PROVE  slots[Slot(i - 1)] \in Frames
    OBVIOUS
  <2>1. i - 1 \in 0 .. Capacity - 1 /\ ~(i - 1 >= length)
    BY <1>1, QueueAssumption
  <2>2. Slot(i - 1) \in Indices
    BY <2>1, SlotTyped, QueueAssumption DEF NothingUncounted, TypeOK, Indices
  <2>3. slots[Slot(i - 1)] # EmptySlot
    BY <2>1, QueueAssumption DEF NothingUncounted, ExactlyOccupied
  <2> QED BY <2>2, <2>3 DEF NothingUncounted, TypeOK, Indices
<1>3. Held \in [1 .. length -> Frames]
  BY <1>2 DEF Held
<1>4. Held \in Seq(Frames)
  BY <1>1, <1>3, SeqDef
<1>5. Len(Held) = length
  BY <1>1, <1>3, <1>4, LenProperties
<1> QED BY <1>4, <1>5 DEF HeldSound, Held

(* What is held after the first n slots were retired and the others kept.  *)
LEMMA HeldShift ==
    ASSUME NothingUncounted, NothingUncounted', NEW n \in 0 .. length,
           head' = Slot(n), length' = length - n,
           \A i \in Indices : i >= n => slots'[Slot(i)] = slots[Slot(i)]
    PROVE  Held' = SubSeq(Held, n + 1, length)
<1>1. TypeOK /\ length \in 0 .. Capacity /\ n \in 0 .. Capacity /\ length' \in 0 .. Capacity
  BY QueueAssumption DEF NothingUncounted, TypeOK
<1>2. /\ Held' \in Seq(Frames) /\ Len(Held') = length'
      /\ \A i \in 1 .. length' : Held'[i] = slots'[(head' + (i - 1)) % Capacity]
  <2>1. HeldSound'
    BY HeldTyped, PTL
  <2> QED BY <2>1 DEF HeldSound, Slot
<1>3. /\ SubSeq(Held, n + 1, length) \in Seq(Frames)
      /\ Len(SubSeq(Held, n + 1, length)) = length - n
      /\ \A i \in 1 .. length - n : SubSeq(Held, n + 1, length)[i] = Held[n + i]
  <2>1. \A i \in n + 1 .. length : Held[i] \in Frames
    BY <1>1, HeldTyped, ElementOfSeq DEF HeldSound
  <2> QED BY <1>1, <2>1, SubSeqProperties
<1>4. ASSUME NEW i \in 1 .. length - n
      PROVE  Held'[i] = Held[n + i]
  <2>1. i - 1 \in Indices /\ n + i - 1 \in Indices /\ n + i \in 1 .. length
    BY <1>1, QueueAssumption DEF Indices
  <2>2. (Slot(n) + (i - 1)) % Capacity = Slot(n + i - 1)
    BY <1>1, <2>1, SlotShift, QueueAssumption DEF Indices
  <2>3. Held'[i] = slots'[Slot(n + i - 1)]
    BY <1>2, <2>2
  <2>4. slots'[Slot(n + i - 1)] = slots[Slot(n + i - 1)]
    BY <1>1, <2>1
  <2> QED BY <2>1, <2>3, <2>4, HeldTyped DEF HeldSound
<1> QED BY <1>1, <1>2, <1>3, <1>4, SeqEqual

(* A push is what the bounded queue does with a frame. *)
LEMMA PushPuts ==
    ASSUME NothingUncounted, NothingUncounted', NEW size \in Sizes,
           NEW expires \in 0 .. Horizon, NEW g \in Generations, Push(size, expires, g)
    PROVE  \E frame \in Frames : Fifo!Put(frame)
<1> DEFINE n     == IF length = Capacity THEN 1 ELSE 0
           frame == [serial |-> pushed + 1, size |-> size, expires |-> expires,
                     generation |-> g]
<1>1. /\ TypeOK /\ length \in 0 .. Capacity /\ head \in 0 .. Capacity - 1
      /\ pushed \in 0 .. MaxFrames
      /\ pushed < MaxFrames /\ MaxFrames \in Nat
  BY QueueAssumption DEF NothingUncounted, TypeOK, Push
<1>2. frame \in Frames /\ frame.expires = expires
  <2>1. pushed + 1 \in 1 .. MaxFrames
    BY <1>1
  <2> QED BY <2>1 DEF Frames
<1>3. /\ slots' = [Blank(Retired(n)) EXCEPT ![Slot(length)] = frame]
      /\ head' = Slot(n) /\ length' = length - n + 1 /\ dropped' = dropped + n
      /\ expires > now /\ got' = Unread /\ now' = now
  BY DEF Push
<1> HIDE DEF frame
<1>4. /\ n \in 0 .. 1 /\ n <= length
      /\ Blank(Retired(n)) \in [Indices -> Frames \cup {EmptySlot}]
      /\ \A i \in Indices :
            Blank(Retired(n))[Slot(i)] = IF i < n THEN EmptySlot ELSE slots[Slot(i)]
  BY <1>1, BlankTyped, QueueAssumption
<1>5. \A i \in 0 .. Capacity :
         /\ Slot(i) \in Indices
         /\ Slot(i) = IF head + i < Capacity THEN head + i ELSE head + i - Capacity
  BY <1>1, SlotTyped, QueueAssumption DEF Indices
<1> DEFINE rest == SubSeq(Held, n + 1, length)
<1>6. /\ Held \in Seq(Frames) /\ Len(Held) = length
      /\ \A i \in 1 .. length : Held[i] = slots[Slot(i - 1)]
  BY HeldTyped DEF HeldSound
<1>7. /\ rest \in Seq(Frames) /\ Len(rest) = length - n
      /\ \A i \in 1 .. length - n : rest[i] = Held[n + i]
  <2>1. \A i \in n + 1 .. length : Held[i] \in Frames
    BY <1>1, <1>4, <1>6, ElementOfSeq
  <2> QED BY <1>1, <1>4, <2>1, SubSeqProperties
<1>8. /\ Held' \in Seq(Frames) /\ Len(Held') = length'
      /\ \A i \in 1 .. length' : Held'[i] = slots'[(head' + (i - 1)) % Capacity]
  <2>1. HeldSound'
    BY HeldTyped, PTL
  <2> QED BY <2>1 DEF HeldSound, Slot
<1> HIDE DEF rest
<1>9. ASSUME NEW i \in 1 .. length - n + 1
      PROVE  Held'[i] = IF i = length - n + 1 THEN frame ELSE rest[i]
  <2>1. i - 1 \in Indices /\ n + i - 1 \in 0 .. Capacity /\ n + i - 1 <= length
    BY <1>1, <1>4, QueueAssumption DEF Indices
  <2> DEFINE k == IF n + (i - 1) < Capacity THEN n + (i - 1) ELSE n + (i - 1) - Capacity
  <2>2. k \in Indices /\ (Slot(n) + (i - 1)) % Capacity = Slot(k)
    <3> HIDE DEF n
    <3>1. n \in 0 .. Capacity /\ k \in Indices
      BY <1>1, <1>4, <2>1, QueueAssumption, SMTT(30) DEF Indices
    <3>2. (Slot(n) + (i - 1)) % Capacity =
              IF n + (i - 1) < Capacity THEN Slot(n + (i - 1)) ELSE Slot(n + (i - 1) - Capacity)
      BY <1>1, <2>1, <3>1, SlotShift
    <3> QED BY <3>1, <3>2
  <2>3. Held'[i] = slots'[Slot(k)]
    BY <1>3, <1>8, <2>2
  <2>4. slots'[Slot(k)] = IF Slot(k) = Slot(length) THEN frame
                          ELSE IF k < n THEN EmptySlot ELSE slots[Slot(k)]
    BY <1>1, <1>3, <1>4, <1>5, <2>2
  <2>5. Slot(k) = Slot(length) <=> i = length - n + 1
    <3>1. length = Capacity <=> n = 1
      BY <1>1, QueueAssumption
    <3>2. Slot(length) = IF head + length < Capacity THEN head + length
                         ELSE head + length - Capacity
      BY <1>1, <1>5
    <3>3. /\ k \in 0 .. Capacity - 1
          /\ Slot(k) = IF head + k < Capacity THEN head + k ELSE head + k - Capacity
      BY <1>5, <2>2, QueueAssumption DEF Indices
    <3>4. k = IF n + (i - 1) < Capacity THEN n + (i - 1) ELSE n + (i - 1) - Capacity
      OBVIOUS
    <3> HIDE DEF n, k
    <3> QED BY <1>1, <1>4, <3>1, <3>2, <3>3, <3>4, QueueAssumption
  <2>6. CASE i = length - n + 1
    BY <2>3, <2>4, <2>5, <2>6
  <2>7. CASE i # length - n + 1
    <3>0. /\ i \in 1 .. length - n /\ n + i \in 1 .. length
          /\ n + (i - 1) < Capacity /\ n + (i - 1) = n + i - 1 /\ n + i - 1 >= n
      <4> HIDE DEF n
      <4> QED BY <1>1, <1>4, <2>7, QueueAssumption
    <3>1. k = n + i - 1 /\ k >= n /\ n + i \in 1 .. length /\ i \in 1 .. length - n
      <4> HIDE DEF n
      <4> QED BY <3>0
    <3>2. rest[i] = slots[Slot(n + i - 1)]
      BY <1>6, <1>7, <3>1
    <3> QED BY <2>3, <2>4, <2>5, <2>7, <3>1, <3>2
  <2> QED BY <2>6, <2>7
<1>10. Held' = Append(rest, frame)
  <2>1. /\ Append(rest, frame) \in Seq(Frames)
        /\ Len(Append(rest, frame)) = length - n + 1
        /\ \A i \in 1 .. length - n : Append(rest, frame)[i] = rest[i]
        /\ Append(rest, frame)[length - n + 1] = frame
    BY <1>1, <1>2, <1>4, <1>7, AppendProperties
  <2>2. \A i \in 1 .. length - n + 1 : Held'[i] = Append(rest, frame)[i]
    BY <1>1, <1>4, <1>9, <2>1
  <2> QED BY <1>3, <1>8, <2>1, <2>2, SeqEqual
<1>11. CASE length = Capacity
  <2>0. n = 1 /\ length = Capacity
    BY <1>11, QueueAssumption
  <2>1. n = 1 /\ Held # <<>>
    <3>1. \A s : s = <<>> => Len(s) = 0
      BY EmptySeq
    <3>2. Len(Held) # 0
      BY <1>6, <2>0, QueueAssumption
    <3> QED BY <2>0, <3>1, <3>2
  <2>2. rest = Tail(Held)
    BY <1>6, <2>1, TailIsSubSeq DEF rest
  <2> QED BY <1>2, <1>3, <1>6, <1>10, <1>11, <2>1, <2>2, QueueAssumption
           DEF Fifo!Put, Fifo!Unread, Unread
<1>12. CASE length # Capacity
  <2>1. n = 0 /\ length < Capacity
    BY <1>1, <1>12, QueueAssumption
  <2>2. rest = Held
    BY <1>6, <2>1, SubSeqFull DEF rest
  <2>3. dropped' = dropped
    BY <1>1, <1>3, <2>1 DEF TypeOK
  <2> QED BY <1>2, <1>3, <1>6, <1>10, <2>1, <2>2, <2>3 DEF Fifo!Put, Fifo!Unread, Unread
<1> QED BY <1>11, <1>12

(* A pop is a read of the queue that forgets what it retires. *)
LEMMA PopTakes ==
    ASSUME NothingUncounted, NothingUncounted', NEW g \in Generations, NEW room \in Rooms,
           Pop(g, room)
    PROVE  \E n \in 0 .. Len(Held) : Fifo!Take(g, room, n)
<1> DEFINE n     == Unfit(g)
           found == n < length /\ slots[Slot(n)].size <= room
           gone  == IF found THEN n + 1 ELSE n
<1>1. TypeOK /\ length \in 0 .. Capacity
  BY QueueAssumption DEF NothingUncounted, TypeOK
<1>2. /\ n \in 0 .. length
      /\ n < length => Good(slots[Slot(n)], g)
      /\ \A i \in 0 .. n - 1 : ~Good(slots[Slot(i)], g)
  BY <1>1, UnfitTyped
<1>3. /\ slots' = Blank(Retired(gone)) /\ head' = Slot(gone) /\ length' = length - gone
      /\ dropped' = dropped + n /\ now' = now
      /\ got' = Answer(g, room, IF found THEN {slots[Slot(n)]} ELSE {})
  BY DEF Pop
<1> HIDE DEF n
<1>4. gone \in 0 .. length
  BY <1>1, <1>2
<1>5. /\ Held \in Seq(Frames) /\ Len(Held) = length
      /\ \A i \in 1 .. length : Held[i] = slots[Slot(i - 1)]
  BY HeldTyped DEF HeldSound
<1>6. Held' = SubSeq(Held, gone + 1, length)
  <2> HIDE DEF gone
  <2>1. \A i \in Indices : i >= gone => slots'[Slot(i)] = slots[Slot(i)]
    BY <1>1, <1>3, <1>4, BlankTyped, QueueAssumption DEF Indices
  <2> QED BY <1>3, <1>4, <2>1, HeldShift
<1>7. \A i \in 1 .. n : ~Fifo!Worth(Held[i], g)
  <2> SUFFICES ASSUME NEW i \in 1 .. n PROVE ~Fifo!Worth(Held[i], g)
    OBVIOUS
  <2>1. i - 1 \in 0 .. n - 1 /\ i \in 1 .. length
    BY <1>1, <1>2
  <2> QED BY <1>2, <1>5, <2>1 DEF Fifo!Worth, Good
<1>8. n < length => Held[n + 1] = slots[Slot(n)] /\ Fifo!Worth(Held[n + 1], g)
  <2> SUFFICES ASSUME n < length
               PROVE  Held[n + 1] = slots[Slot(n)] /\ Fifo!Worth(Held[n + 1], g)
    OBVIOUS
  <2>1. n + 1 \in 1 .. length /\ n + 1 - 1 = n
    BY <1>1, <1>2
  <2> QED BY <1>2, <1>5, <2>1 DEF Fifo!Worth, Good
<1>9. CASE found
  <2>1. gone = n + 1 /\ gone + 1 = n + 2 /\ n < Len(Held)
    BY <1>2, <1>5, <1>9
  <2>2. got' = [asked |-> g, room |-> room, frames |-> {Held[n + 1]}]
    BY <1>3, <1>8, <1>9 DEF Answer
  <2>3. Held' = SubSeq(Held, n + 2, Len(Held))
    BY <1>5, <1>6, <2>1
  <2>4. Fifo!Take(g, room, n)
    BY <1>2, <1>3, <1>5, <1>7, <1>8, <1>9, <2>1, <2>2, <2>3 DEF Fifo!Take, Fifo!Handed
  <2> QED BY <1>2, <1>5, <2>4
<1>10. CASE ~found
  <2>0. n < Len(Held) => Held[n + 1].size > room
    <3> SUFFICES ASSUME n < length PROVE Held[n + 1].size > room
      BY <1>5
    <3>1. n + 1 \in 1 .. length
      BY <1>1, <1>2
    <3>2. Held[n + 1] \in Frames
      BY <1>5, <3>1, ElementOfSeq
    <3>3. Held[n + 1].size \in Sizes
      BY <3>2 DEF Frames
    <3>4. ~(Held[n + 1].size <= room)
      BY <1>8, <1>10
    <3>5. room \in Nat /\ \A size \in Sizes : ~(size <= room) => size > room
      BY QueueAssumption DEF Rooms
    <3> QED BY <3>3, <3>4, <3>5
  <2>1. gone = n
    BY <1>10
  <2>2. got' = [asked |-> g, room |-> room, frames |-> {}]
    BY <1>3, <1>10 DEF Answer
  <2>3. Held' = SubSeq(Held, n + 1, Len(Held))
    BY <1>5, <1>6, <2>1
  <2>4. Fifo!Take(g, room, n)
    BY <1>2, <1>3, <1>5, <1>7, <1>8, <2>0, <2>2, <2>3 DEF Fifo!Take, Fifo!Handed
  <2> QED BY <1>2, <1>5, <2>4
<1> QED BY <1>9, <1>10

(* The ring implements the bounded queue of perishable frames: it hands    *)
(* out the oldest frame worth playing, forgets only what precedes it, and  *)
(* under pressure the oldest (MediaQueue::push, pop_into and clear).       *)
THEOREM RingImplementsFifo == Spec => ImplementsFifo
<1>1. Init => Fifo!Init
  <2> SUFFICES ASSUME Init PROVE Fifo!Init
    OBVIOUS
  <2>1. Held = <<>>
    BY DEF Init, Held
  <2> QED BY <2>1 DEF Init, Fifo!Init, Fifo!Unread, Unread
<1>2. NothingUncounted /\ NothingUncounted' /\ [Next]_vars => [Fifo!Next]_Fifo!vars
  <2> SUFFICES ASSUME NothingUncounted, NothingUncounted', [Next]_vars
               PROVE  [Fifo!Next]_Fifo!vars
    OBVIOUS
  <2>1. ASSUME NEW size \in Sizes, NEW expires \in 0 .. Horizon, NEW g \in Generations,
               Push(size, expires, g)
        PROVE  Fifo!Next
    BY <2>1, PushPuts DEF Fifo!Next
  <2>2. ASSUME NEW g \in Generations, NEW room \in Rooms, Pop(g, room)
        PROVE  Fifo!Next
    BY <2>2, PopTakes DEF Fifo!Next
  <2>3. ASSUME Clear PROVE Fifo!Next
    <3>1. Held' = <<>>
      BY <2>3 DEF Clear, Held, Slot
    <3> QED BY <2>3, <3>1 DEF Clear, Unread, Fifo!Next, Fifo!Flush, Fifo!Unread
  <2>4. ASSUME ClockTick PROVE Fifo!Next
    BY <2>4 DEF ClockTick, Held, Slot, Fifo!Next, Fifo!TimePasses
  <2>5. CASE UNCHANGED vars
    BY <2>5 DEF vars, Fifo!vars, Held, Slot
  <2> QED BY <2>1, <2>2, <2>3, <2>4, <2>5 DEF Next
<1> QED BY <1>1, <1>2, QueueSound, PTL DEF Spec, ImplementsFifo, Fifo!Spec
=============================================================================
