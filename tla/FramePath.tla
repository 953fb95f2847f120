----------------------------- MODULE FramePath -----------------------------
(***************************************************************************)
(* The path of a voice frame from capture to playback: the encoder of one  *)
(* profile (lxst-telephony, media.rs, and the Codec2 packet codec of       *)
(* lxst-core), the packetizer and the egress of a link (lxst-rns), a       *)
(* network that loses and reorders packets, and at the other end the       *)
(* ingress, its jitter buffer and the decoder of one profile.              *)
(*                                                                         *)
(* Audio is abstracted to the number of a frame; what the checks tell      *)
(* apart is its profile, hence its codec, its size, and how many frames    *)
(* of the native codec it is made of.                                      *)
(***************************************************************************)
EXTENDS Naturals, Sequences, FiniteSets, SequencesExt

CONSTANTS
    Profiles,
    KindOf,         \* KindOf[p]: "Opus" or "Codec2"
    Parts,          \* Parts[p]: native Codec2 frames in one packet of p
    SizeOf,         \* SizeOf[p]: bytes of one encoded frame, in some unit
    Mdu,            \* bytes of one LXST packet that fit the link
    Batch,          \* frames_per_packet of the packetizer
    Capacity,       \* of the jitter buffer
    Policies,       \* its drop policies
    MaxFrames,      \* bound: frames ever captured
    MaxFlight,      \* bound: packets under way
    MaxUnderruns,   \* bound: pops of an empty jitter buffer
    None            \* Option::None

ASSUME PathAssumption ==
    /\ KindOf \in [Profiles -> {"Opus", "Codec2"}]
    /\ Parts \in [Profiles -> Nat \ {0}] /\ SizeOf \in [Profiles -> Nat]
    /\ Policies \subseteq {"DropOldest", "DropNewest"}
    /\ {Batch, Capacity} \subseteq Nat \ {0}
    /\ {Mdu, MaxFrames, MaxFlight, MaxUnderruns} \subseteq Nat

VARIABLES
    encoder,    \* the sender's codec
    captured,   \* how many frames it has encoded
    batch,      \* encoded frames not yet handed to the egress
    active,     \* the sender's link is active
    flight,     \* packets under way
    codec,      \* current_codec of the frame stream at the receiver
    view,       \* what a follower of its events takes for the codec
    jitter,     \* the jitter buffer
    decoder,    \* the receiver's codec
    fate        \* how many frames ended in which way

sender   == <<encoder, captured, batch, active>>
receiver == <<codec, view, jitter, decoder>>
pathVars == <<sender, flight, receiver, fate>>

Frame == [serial : 1 .. MaxFrames, profile : Profiles]

(* A codec has been fed native frames and made whole packets of them. *)
Codec(p) == [profile |-> p, fed |-> 0, whole |-> 0, failed |-> FALSE]

Fates == {"rejected", "lost", "played", "refused"}

NewJitter(policy) ==
    [policy |-> policy, queue |-> <<>>, pushed |-> 0, popped |-> 0, dropped |-> 0,
     underruns |-> 0, last |-> 0]

PathInit ==
    /\ \E p \in Profiles : encoder = Codec(p)
    /\ captured = 0 /\ batch = <<>> /\ active = TRUE
    /\ flight = {}
    /\ codec = None /\ view = None
    /\ \E policy \in Policies : jitter = NewJitter(policy)
    /\ \E p \in Profiles : decoder = Codec(p)
    /\ fate = [f \in Fates |-> 0]

Ends(f, n) == fate' = [fate EXCEPT ![f] = @ + n]

-----------------------------------------------------------------------------
(* The codecs.  An Opus codec fails without consequences; a Codec2 codec   *)
(* that fails inside a packet has eaten part of it and is not used again.  *)

Made(c) == [c EXCEPT !.fed = @ + Parts[c.profile], !.whole = @ + 1]

(* Deliberate fault: a codec that failed goes on with the next packet.     *)
FailedAtAgain(c, k) ==
    IF KindOf[c.profile] = "Codec2" THEN [c EXCEPT !.fed = @ + k] ELSE c

FailedAt(c, k) ==
    IF KindOf[c.profile] = "Codec2" THEN [c EXCEPT !.fed = @ + k, !.failed = TRUE] ELSE c

Encode ==
    /\ captured < MaxFrames
    /\ ~encoder.failed
    /\ \/ /\ encoder' = Made(encoder)
          /\ captured' = captured + 1
          /\ batch' = Append(batch, [serial |-> captured + 1, profile |-> encoder.profile])
       \/ /\ \E k \in 1 .. Parts[encoder.profile] : encoder' = FailedAt(encoder, k)
          /\ UNCHANGED <<captured, batch>>
    /\ UNCHANGED <<active, flight, receiver, fate>>

(* The profile changed, or the codec failed: either way a new codec. *)
NewEncoder ==
    /\ \E p \in Profiles : encoder' = Codec(p)
    /\ UNCHANGED <<captured, batch, active, flight, receiver, fate>>

NewDecoder ==
    /\ \E p \in Profiles : decoder' = Codec(p)
    /\ UNCHANGED <<sender, flight, codec, view, jitter, fate>>

-----------------------------------------------------------------------------
(* packetize, pack_frames: a packet that cannot be packed or encrypted     *)
(* takes the whole batch with it                                           *)

Packet(frames, i) ==
    SubSeq(frames, (i - 1) * Batch + 1, IF i * Batch < Len(frames) THEN i * Batch ELSE Len(frames))

Packetize(frames) == {Packet(frames, i) : i \in 1 .. (Len(frames) + Batch - 1) \div Batch}

PacketSize(packet) == FoldLeft(LAMBDA n, frame : n + SizeOf[frame.profile], 0, packet)

CanPack(packets) == active /\ \A packet \in packets : PacketSize(packet) <= Mdu

SendBatch ==
    /\ batch # <<>>
    /\ batch' = <<>>
    /\ LET packets == Packetize(batch)
       IN  \/ /\ CanPack(packets)
              /\ Cardinality(flight \cup packets) <= MaxFlight
              /\ flight' = flight \cup packets
              /\ UNCHANGED fate
           \/ /\ Ends("rejected", Len(batch))
              /\ UNCHANGED flight
    /\ UNCHANGED <<encoder, captured, active, receiver>>

LinkChanges ==
    /\ active' = ~active
    /\ UNCHANGED <<encoder, captured, batch, flight, receiver, fate>>

Lose(packet) ==
    /\ flight' = flight \ {packet}
    /\ Ends("lost", Len(packet))
    /\ UNCHANGED <<sender, receiver>>

-----------------------------------------------------------------------------
(* The receiver *)

(* A follower of the events, who is lost once they contradict what it has  *)
(* been told.                                                              *)
Follow(known, event) ==
    IF event.type = "CodecChanged" /\ event.from = known THEN event.to
    ELSE IF event.type = "Frame" /\ event.kind = known THEN known
    ELSE "lost"

(* Deliberate fault: DropOldest counts the drop and keeps the frame.       *)
PushKeeping(j, frame) ==
    LET item    == [frame |-> frame, at |-> j.pushed + 1]
        counted == [j EXCEPT !.pushed = @ + 1]
    IN  IF Len(j.queue) < Capacity THEN [counted EXCEPT !.queue = Append(@, item)]
        ELSE [counted EXCEPT !.dropped = @ + 1]

(* JitterBuffer.push; each item also records the number of its arrival. *)
Push(j, frame) ==
    LET item    == [frame |-> frame, at |-> j.pushed + 1]
        counted == [j EXCEPT !.pushed = @ + 1]
    IN  IF Len(j.queue) < Capacity THEN [counted EXCEPT !.queue = Append(@, item)]
        ELSE IF j.policy = "DropNewest" THEN [counted EXCEPT !.dropped = @ + 1]
        ELSE [counted EXCEPT !.dropped = @ + 1, !.queue = Append(Tail(@), item)]

(* FrameStreamState.accept_packet for one frame: a change of codec is      *)
(* announced before the first frame of the new one.  The jitter buffer     *)
(* takes the frame.                                                        *)
Accepted(stream, frame) ==
    LET kind    == KindOf[frame.profile]
        heard   == [type |-> "Frame", kind |-> kind]
        changed == [type |-> "CodecChanged", from |-> stream.codec, to |-> kind]
        told    == IF stream.codec = kind THEN stream.view ELSE Follow(stream.view, changed)
    IN  [codec |-> kind, view |-> Follow(told, heard), jitter |-> Push(stream.jitter, frame)]

Stream == [codec |-> codec, view |-> view, jitter |-> jitter]

(* The stream after each frame of the packet, one after the other. *)
AcceptedUpTo(packet) ==
    LET after[i \in 0 .. Len(packet)] ==
            IF i = 0 THEN Stream ELSE Accepted(after[i - 1], packet[i])
    IN  after

AcceptPacket(packet) == AcceptedUpTo(packet)[Len(packet)]

(* LxstMediaIngress.accept_plaintext *)
Deliver(packet) ==
    /\ flight' = flight \ {packet}
    /\ LET stream == AcceptPacket(packet)
       IN  codec' = stream.codec /\ view' = stream.view /\ jitter' = stream.jitter
    /\ UNCHANGED <<sender, decoder, fate>>

Underrun ==
    /\ jitter.queue = <<>>
    /\ jitter.underruns < MaxUnderruns
    /\ jitter' = [jitter EXCEPT !.underruns = @ + 1]
    /\ UNCHANGED <<sender, flight, codec, view, decoder, fate>>

(* The checks before the native codec is touched: it has not failed, and   *)
(* the codec, the payload's length and the mode's header are its own.      *)
Ready(c, frame) ==
    /\ ~c.failed
    /\ \/ frame.profile = c.profile
       \/ KindOf[frame.profile] = "Opus" /\ KindOf[c.profile] = "Opus"

(* pop_frame, decode_frame: a frame that is refused has left the buffer. *)
Play ==
    /\ jitter.queue # <<>>
    /\ LET item  == Head(jitter.queue)
           ready == Ready(decoder, item.frame)
       IN  /\ jitter' = [jitter EXCEPT !.queue = Tail(@), !.popped = @ + 1, !.last = item.at]
           /\ \/ ready /\ decoder' = Made(decoder) /\ Ends("played", 1)
              \/ /\ ready
                 /\ \E k \in 1 .. Parts[decoder.profile] : decoder' = FailedAt(decoder, k)
                 /\ Ends("refused", 1)
              \/ ~ready /\ Ends("refused", 1) /\ UNCHANGED decoder
    /\ UNCHANGED <<sender, flight, codec, view>>

-----------------------------------------------------------------------------
PathNext ==
    \/ Encode \/ NewEncoder \/ SendBatch \/ LinkChanges
    \/ \E packet \in flight : Lose(packet) \/ Deliver(packet)
    \/ Underrun \/ Play \/ NewDecoder

PathSpec == PathInit /\ [][PathNext]_pathVars

-----------------------------------------------------------------------------
(* Properties *)

Kinds == {"Opus", "Codec2"}
CodecState == [profile : Profiles, fed : Nat, whole : Nat, failed : BOOLEAN]
Item == [frame : Frame, at : Nat \ {0}]

PathTypeOK ==
    /\ encoder \in CodecState /\ decoder \in CodecState
    /\ captured \in 0 .. MaxFrames
    /\ batch \in Seq(Frame)
    /\ active \in BOOLEAN
    /\ flight \subseteq Seq(Frame)
    /\ {codec, view} \subseteq Kinds \cup {None}
    /\ jitter \in [policy : Policies, queue : Seq(Item), pushed : Nat, popped : Nat,
                   dropped : Nat, underruns : 0 .. MaxUnderruns, last : Nat]
    /\ Len(jitter.queue) <= Capacity
    /\ fate \in [Fates -> Nat]

(* The frames under way, as places in their packets. *)
Places(packets) == UNION {{packet} \X DOMAIN packet : packet \in packets}

UnderWay == Cardinality(Places(flight))

(* Each frame that was encoded is somewhere, once: not yet packed,         *)
(* rejected with its batch, under way, lost, held, dropped and counted by  *)
(* the jitter buffer, played, or refused by the decoder.                   *)
EachFrameOnce ==
    /\ captured = Len(batch) + fate["rejected"] + fate["lost"] + UnderWay + jitter.pushed
    /\ jitter.pushed = jitter.dropped + Len(jitter.queue) + jitter.popped
    /\ jitter.popped = fate["played"] + fate["refused"]

(* Frames are played in the order they arrived.  Under DropOldest the      *)
(* buffer always holds the latest arrivals, without a gap.                 *)
ArrivalOrder ==
    LET at(i) == jitter.queue[i].at IN
    \A i \in DOMAIN jitter.queue :
        /\ at(i) > IF i = 1 THEN jitter.last ELSE at(i - 1)
        /\ jitter.policy = "DropOldest" => at(i) = jitter.pushed - Len(jitter.queue) + i

FrameLedger == PathTypeOK /\ EachFrameOnce /\ ArrivalOrder

(* A native codec is never used again after it stopped inside a packet:    *)
(* it has seen whole packets only, unless it is out of use.                *)
WholePackets ==
    \A c \in {encoder, decoder} : ~c.failed => c.fed = Parts[c.profile] * c.whole

(* Whoever follows the events of the stream knows the codec of each frame, *)
(* in packets that mix codecs too, and agrees with current_codec.          *)
CodecAnnounced == view = codec

CodecsInStep == WholePackets /\ CodecAnnounced
=============================================================================
