------------------------- MODULE LinkEndpointProofs -------------------------
(***************************************************************************)
(* For any number of links, any mailbox and any failures of the transport, *)
(* no link is forgotten, no call is left deaf, and the events of each link *)
(* tell one life.  The invariant has three parts that change separately:   *)
(* what is on its way to the transport, the life of the outgoing links,    *)
(* and the life of the incoming ones.                                      *)
(***************************************************************************)
EXTENDS LinkEndpoint, SequenceTheorems, TLAPS

Messages == Seq(Message)
Freeing  == {"unbind", "deregister", "final"}

LEMMA MessageFacts ==
    /\ \A t, u, k, l : M(t, k) = M(u, l) <=> t = u /\ k = l
    /\ \A m \in Message : m = M(m.type, m.link) /\ m.link \in Links
    /\ \A l \in Links, t \in {"path", "register", "request", "bind", "control", "media"}
                             \cup Freeing : M(t, l) \in Message
    /\ \A t, l : M(t, l).type = t /\ M(t, l).link = l
BY DEF M, Message, Freeing

LEMMA FreesFacts ==
    /\ Frees("register") = {"deregister", "final"}
    /\ Frees("bind") = {"unbind", "final"}
    /\ \A type \in Takes : Frees(type) \subseteq Freeing
    /\ \A type \in Takes : type \notin Freeing
    /\ \A f \in Freeing : \E type \in Takes : f \in Frees(type)
BY DEF Frees, Takes, Freeing

-----------------------------------------------------------------------------
(* Sequences of messages                                                   *)

(* The release of a link follows what it releases, in a mailbox q and a    *)
(* list c of messages still to send.                                       *)
FollowsIn(q, c, type, l) ==
    \/ \E f \in Frees(type) : Sent(c, f, l)
    \/ \E j \in DOMAIN q :
          /\ q[j].link = l /\ q[j].type \in Frees(type)
          /\ \A i \in DOMAIN q : q[i] = M(type, l) => i < j

LEMMA SentConcat ==
    ASSUME NEW q \in Messages, NEW s \in Messages, NEW t, NEW l
    PROVE  Sent(q \o s, t, l) <=> Sent(q, t, l) \/ Sent(s, t, l)
<1>1. /\ q \o s \in Messages /\ Len(q \o s) = Len(q) + Len(s)
      /\ \A i \in 1 .. Len(q) + Len(s) : (q \o s)[i] = IF i <= Len(q) THEN q[i] ELSE s[i - Len(q)]
  BY ConcatProperties DEF Messages
<1>2. /\ DOMAIN q = 1 .. Len(q) /\ DOMAIN s = 1 .. Len(s)
      /\ DOMAIN (q \o s) = 1 .. Len(q) + Len(s)
      /\ Len(q) \in Nat /\ Len(s) \in Nat
  BY <1>1, LenProperties DEF Messages
<1>3. ASSUME Sent(q \o s, t, l) PROVE Sent(q, t, l) \/ Sent(s, t, l)
  <2>1. PICK i \in 1 .. Len(q) + Len(s) : (q \o s)[i] = M(t, l)
    BY <1>2, <1>3 DEF Sent
  <2>2. CASE i <= Len(q)
    BY <1>1, <1>2, <2>1, <2>2 DEF Sent
  <2>3. CASE i > Len(q)
    <3>1. i - Len(q) \in 1 .. Len(s) /\ s[i - Len(q)] = M(t, l)
      BY <1>1, <1>2, <2>1, <2>3
    <3> QED BY <1>2, <3>1 DEF Sent
  <2> QED BY <1>2, <2>2, <2>3
<1>4. ASSUME Sent(q, t, l) PROVE Sent(q \o s, t, l)
  <2>1. PICK i \in 1 .. Len(q) : q[i] = M(t, l)
    BY <1>2, <1>4 DEF Sent
  <2>2. i \in 1 .. Len(q) + Len(s) /\ (q \o s)[i] = M(t, l)
    BY <1>1, <1>2, <2>1
  <2> QED BY <1>2, <2>2 DEF Sent
<1>5. ASSUME Sent(s, t, l) PROVE Sent(q \o s, t, l)
  <2>1. PICK i \in 1 .. Len(s) : s[i] = M(t, l)
    BY <1>2, <1>5 DEF Sent
  <2>2. i + Len(q) \in 1 .. Len(q) + Len(s) /\ (i + Len(q)) - Len(q) = i /\ ~(i + Len(q) <= Len(q))
    BY <1>2, <2>1
  <2>3. (q \o s)[i + Len(q)] = M(t, l)
    BY <1>1, <2>1, <2>2
  <2> QED BY <1>2, <2>2, <2>3 DEF Sent
<1> QED BY <1>3, <1>4, <1>5

(* Messages behind a release that do not take the link again leave it so.  *)
LEMMA FollowsConcat ==
    ASSUME NEW q \in Messages, NEW s \in Messages, NEW c, NEW l, NEW type \in Takes,
           FollowsIn(q, c, type, l), ~Sent(s, type, l)
    PROVE  FollowsIn(q \o s, c, type, l)
<1>1. /\ q \o s \in Messages /\ Len(q \o s) = Len(q) + Len(s)
      /\ \A i \in 1 .. Len(q) + Len(s) : (q \o s)[i] = IF i <= Len(q) THEN q[i] ELSE s[i - Len(q)]
  BY ConcatProperties DEF Messages
<1>2. /\ DOMAIN q = 1 .. Len(q) /\ DOMAIN s = 1 .. Len(s)
      /\ DOMAIN (q \o s) = 1 .. Len(q) + Len(s)
      /\ Len(q) \in Nat /\ Len(s) \in Nat
  BY <1>1, LenProperties DEF Messages
<1>3. CASE \E f \in Frees(type) : Sent(c, f, l)
  BY <1>3 DEF FollowsIn
<1>4. ASSUME NEW j \in DOMAIN q, q[j].link = l, q[j].type \in Frees(type),
             \A i \in DOMAIN q : q[i] = M(type, l) => i < j
      PROVE  FollowsIn(q \o s, c, type, l)
  <2>1. j \in DOMAIN (q \o s) /\ (q \o s)[j] = q[j]
    BY <1>1, <1>2, <1>4
  <2>2. ASSUME NEW i \in DOMAIN (q \o s), (q \o s)[i] = M(type, l)
        PROVE  i < j
    <3>1. CASE i <= Len(q)
      BY <1>1, <1>2, <1>4, <2>2, <3>1
    <3>2. CASE i > Len(q)
      <4>1. i - Len(q) \in 1 .. Len(s) /\ s[i - Len(q)] = M(type, l)
        BY <1>1, <1>2, <2>2, <3>2
      <4> QED BY <1>2, <1>4, <4>1 DEF Sent
    <3> QED BY <1>2, <2>2, <3>1, <3>2
  <2> QED BY <1>4, <2>1, <2>2 DEF FollowsIn
<1> QED BY <1>3, <1>4 DEF FollowsIn

(* A release that is sent last follows everything.                         *)
LEMMA FollowsEnd ==
    ASSUME NEW q \in Messages, NEW s \in Messages, NEW c, NEW l, NEW type \in Takes,
           NEW f \in Frees(type), Sent(s, f, l), ~Sent(s, type, l)
    PROVE  FollowsIn(q \o s, c, type, l)
<1>1. /\ q \o s \in Messages /\ Len(q \o s) = Len(q) + Len(s)
      /\ \A i \in 1 .. Len(q) + Len(s) : (q \o s)[i] = IF i <= Len(q) THEN q[i] ELSE s[i - Len(q)]
  BY ConcatProperties DEF Messages
<1>2. /\ DOMAIN q = 1 .. Len(q) /\ DOMAIN s = 1 .. Len(s)
      /\ DOMAIN (q \o s) = 1 .. Len(q) + Len(s)
      /\ Len(q) \in Nat /\ Len(s) \in Nat
  BY <1>1, LenProperties DEF Messages
<1>3. PICK n \in 1 .. Len(s) : s[n] = M(f, l)
  BY <1>2 DEF Sent
<1>4. /\ n + Len(q) \in DOMAIN (q \o s) /\ (n + Len(q)) - Len(q) = n
      /\ ~(n + Len(q) <= Len(q))
  BY <1>2, <1>3
<1>5. (q \o s)[n + Len(q)] = M(f, l)
  BY <1>1, <1>2, <1>3, <1>4
<1>6. ASSUME NEW i \in DOMAIN (q \o s), (q \o s)[i] = M(type, l)
      PROVE  i < n + Len(q)
  <2>1. CASE i <= Len(q)
    BY <1>2, <1>3, <1>6, <2>1
  <2>2. CASE i > Len(q)
    <3>1. i - Len(q) \in 1 .. Len(s) /\ s[i - Len(q)] = M(type, l)
      BY <1>1, <1>2, <1>6, <2>2
    <3> QED BY <1>2, <3>1 DEF Sent
  <2> QED BY <1>2, <1>6, <2>1, <2>2
<1>7. (q \o s)[n + Len(q)].link = l /\ (q \o s)[n + Len(q)].type \in Frees(type)
  BY <1>5, MessageFacts
<1> QED BY <1>4, <1>6, <1>7 DEF FollowsIn

(* What is sent of a list, and what is left of it, is all of it.           *)
LEMMA FitsAndWaits ==
    ASSUME alive, NEW q \in Messages, NEW ms \in Messages
    PROVE  \E a, b \in Messages :
               /\ Fitting(q, ms) = q \o a /\ Waiting(q, ms) = b
               /\ \A t, l : Sent(ms, t, l) <=> Sent(a, t, l) \/ Sent(b, t, l)
<1> DEFINE n == Atmost(Room(q), ms)
           a == SubSeq(ms, 1, n)
           b == SubSeq(ms, n + 1, Len(ms))
<1>1. Len(q) \in Nat /\ Len(ms) \in Nat /\ Cap \in Nat
      /\ DOMAIN ms = 1 .. Len(ms) /\ \A i \in 1 .. Len(ms) : ms[i] \in Message
  BY LenProperties, EndpointAssumption DEF Messages
<1>2. n \in 0 .. Len(ms)
  BY <1>1 DEF Atmost, Room
<1>3. Fitting(q, ms) = q \o a /\ Waiting(q, ms) = b
  BY DEF Fitting, Waiting
<1> HIDE DEF n
<1>4. /\ a \in Messages /\ Len(a) = n
      /\ \A i \in 1 .. n : a[i] = ms[i]
  <2>1. \A i \in 1 .. n : ms[i] \in Message
    BY <1>1, <1>2
  <2>2. /\ a \in Seq(Message) /\ Len(a) = IF 1 <= n THEN n - 1 + 1 ELSE 0
        /\ \A i \in 1 .. n - 1 + 1 : a[i] = ms[1 + i - 1]
    BY <1>2, <2>1, SubSeqProperties
  <2> QED BY <1>2, <2>2 DEF Messages
<1>5. /\ b \in Messages /\ Len(b) = Len(ms) - n
      /\ \A i \in 1 .. Len(ms) - n : b[i] = ms[n + i]
  <2>1. \A i \in n + 1 .. Len(ms) : ms[i] \in Message
    BY <1>1, <1>2
  <2>2. /\ b \in Seq(Message)
        /\ Len(b) = IF n + 1 <= Len(ms) THEN Len(ms) - (n + 1) + 1 ELSE 0
        /\ \A i \in 1 .. Len(ms) - (n + 1) + 1 : b[i] = ms[(n + 1) + i - 1]
    BY <1>1, <1>2, <2>1, SubSeqProperties
  <2> HIDE DEF b
  <2>3. /\ Len(ms) - (n + 1) + 1 = Len(ms) - n
        /\ \A i \in 1 .. Len(ms) - n : (n + 1) + i - 1 = n + i
        /\ n + 1 <= Len(ms) \/ 0 = Len(ms) - n
    <3>1. ASSUME NEW N \in Nat, NEW k \in 0 .. N
          PROVE  /\ N - (k + 1) + 1 = N - k
                 /\ \A i \in 1 .. N - k : (k + 1) + i - 1 = k + i
                 /\ k + 1 <= N \/ 0 = N - k
      OBVIOUS
    <3>2. Len(ms) \in Nat
      BY <1>1
    <3> QED BY <1>2, <3>1, <3>2
  <2>4. Len(b) = Len(ms) - n
    BY <2>2, <2>3
  <2>5. \A i \in 1 .. Len(ms) - n : b[i] = ms[n + i]
    BY <2>2, <2>3
  <2> QED BY <2>2, <2>4, <2>5 DEF Messages
<1> HIDE DEF a, b
<1>6. DOMAIN a = 1 .. n /\ DOMAIN b = 1 .. Len(ms) - n
  BY <1>4, <1>5, LenProperties DEF Messages
<1>7. ASSUME NEW t, NEW l
      PROVE  Sent(ms, t, l) <=> Sent(a, t, l) \/ Sent(b, t, l)
  <2>1. ASSUME Sent(ms, t, l) PROVE Sent(a, t, l) \/ Sent(b, t, l)
    <3>1. PICK i \in 1 .. Len(ms) : ms[i] = M(t, l)
      BY <1>1, <2>1 DEF Sent
    <3>2. CASE i <= n
      <4>1. i \in 1 .. n
        BY <1>2, <3>2
      <4> QED BY <1>4, <1>6, <3>1, <4>1 DEF Sent
    <3>3. CASE i > n
      <4>1. i - n \in 1 .. Len(ms) - n /\ n + (i - n) = i
        BY <1>1, <1>2, <3>3
      <4>2. b[i - n] = M(t, l)
        BY <1>5, <3>1, <4>1
      <4> QED BY <1>6, <4>1, <4>2 DEF Sent
    <3> QED BY <1>1, <1>2, <3>2, <3>3
  <2>2. ASSUME Sent(a, t, l) PROVE Sent(ms, t, l)
    <3>1. PICK i \in 1 .. n : a[i] = M(t, l)
      BY <1>6, <2>2 DEF Sent
    <3>2. i \in DOMAIN ms /\ ms[i] = M(t, l)
      BY <1>1, <1>2, <1>4, <3>1
    <3> QED BY <3>2 DEF Sent
  <2>3. ASSUME Sent(b, t, l) PROVE Sent(ms, t, l)
    <3>1. PICK i \in 1 .. Len(ms) - n : b[i] = M(t, l)
      BY <1>6, <2>3 DEF Sent
    <3>2. n + i \in DOMAIN ms /\ ms[n + i] = M(t, l)
      BY <1>1, <1>2, <1>5, <3>1
    <3> QED BY <3>2 DEF Sent
  <2> QED BY <2>1, <2>2, <2>3
<1> QED BY <1>3, <1>4, <1>5, <1>7

-----------------------------------------------------------------------------
(* The mailbox and the messages still to send, as pairs q and c.           *)

(* Only releases are kept, and a transport that is gone has nothing left.  *)
Well(q, c) ==
    /\ q \in Messages /\ c \in Messages
    /\ \A t \in Takes, l \in Links : ~Sent(c, t, l)
    /\ ~alive => q = <<>>

(* From the present pair to q and c, nothing is taken for the link, and    *)
(* nothing that was released is no longer.                                 *)
MovesFor(q, c, l) ==
    /\ \A type \in Takes : Sent(q, type, l) => Sent(queue, type, l)
    /\ \A f \in Freeing : Sent(q, f, l) \/ Sent(c, f, l) => Sent(queue, f, l) \/ Sent(cleanup, f, l)
    /\ \A type \in Takes : alive /\ FollowsIn(queue, cleanup, type, l) => FollowsIn(q, c, type, l)

(* All that the link was given is released. *)
Freed(q, c, l) == \A type \in Takes : alive => FollowsIn(q, c, type, l)

Clean(q, c, l) == \A f \in Freeing : ~Sent(q, f, l) /\ ~Sent(c, f, l)

Mailboxes ==
    /\ stage \in [Outgoing -> {"new", "attempt", "active", "failed", "done"}]
    /\ Well(queue, cleanup)
    /\ alive \in BOOLEAN
    /\ ~alive => registered = {} /\ bound = {}

LinkSound(l) ==
    /\ Owned(l) \/ stage[l] = "new" => Clean(queue, cleanup, l)
    /\ ~Owned(l) => \A type \in Takes :
                       Held(type, l) \/ Sent(queue, type, l) => FollowsIn(queue, cleanup, type, l)

TransportInv == Mailboxes /\ \A l \in Outgoing : LinkSound(l)

LEMMA EmptyFacts ==
    /\ <<>> \in Messages
    /\ \A t, l : ~Sent(<<>>, t, l)
BY DEF Messages, Sent

LEMMA ReleaseFacts ==
    ASSUME NEW l \in Links
    PROVE  /\ Release(l) \in Messages
           /\ \A t, k : Sent(Release(l), t, k) <=> k = l /\ t \in {"unbind", "deregister"}
<1>1. Release(l) \in Messages
  BY MessageFacts DEF Release, Messages, Freeing
<1>2. DOMAIN Release(l) = {1, 2} /\ Release(l)[1] = M("unbind", l)
      /\ Release(l)[2] = M("deregister", l)
  BY DEF Release
<1> QED BY <1>1, <1>2, MessageFacts DEF Sent

LEMMA SingleFacts ==
    ASSUME NEW m \in Message
    PROVE  /\ <<m>> \in Messages
           /\ \A t, k : Sent(<<m>>, t, k) <=> m.type = t /\ m.link = k
<1>1. m = M(m.type, m.link)
  BY MessageFacts
<1>2. DOMAIN <<m>> = {1} /\ <<m>>[1] = m
  OBVIOUS
<1>3. <<m>> \in Messages
  BY DEF Messages
<1>4. ASSUME NEW t, NEW k
      PROVE  Sent(<<m>>, t, k) <=> m = M(t, k)
  BY <1>2 DEF Sent
<1> QED BY <1>1, <1>3, <1>4, MessageFacts

LEMMA AppendIs ==
    ASSUME NEW q \in Messages, NEW m \in Message
    PROVE  Append(q, m) = q \o <<m>>
BY AppendIsConcat DEF Messages

(* Standing still, and flushing. *)
LEMMA StandsStill ==
    ASSUME NEW l
    PROVE  MovesFor(queue, cleanup, l)
BY DEF MovesFor

(* Sending what fits of ms, which holds releases of one link only, and     *)
(* keeping the rest.                                                       *)
LEMMA FitMoves ==
    ASSUME NEW q, NEW c, Well(q, c), NEW ms \in Messages,
           \A t \in Takes, l \in Links : ~Sent(ms, t, l)
    PROVE  /\ Well(Fitting(q, ms), c \o Waiting(q, ms))
           /\ \A l \in Links : (\A f \in Freeing : ~Sent(ms, f, l)) /\ MovesFor(q, c, l)
                 => MovesFor(Fitting(q, ms), c \o Waiting(q, ms), l)
           /\ \A l \in Links : (\A type \in Takes : \E f \in Frees(type) : Sent(ms, f, l))
                 => Freed(Fitting(q, ms), c \o Waiting(q, ms), l)
<1>1. CASE ~alive
  <2>1. Fitting(q, ms) = q /\ Waiting(q, ms) = <<>> /\ c \o <<>> = c
    BY <1>1, ConcatEmptySeq DEF Fitting, Waiting, Well, Messages
  <2> QED BY <1>1, <2>1 DEF Freed
<1>2. CASE alive
  <2>1. PICK a \in Messages, b \in Messages :
               /\ Fitting(q, ms) = q \o a /\ Waiting(q, ms) = b
               /\ \A t, l : Sent(ms, t, l) <=> Sent(a, t, l) \/ Sent(b, t, l)
    BY <1>2, FitsAndWaits DEF Well
  <2>2. q \in Messages /\ c \in Messages
    BY DEF Well
  <2>3. q \o a \in Messages /\ c \o b \in Messages
    BY <2>1, <2>2, ConcatProperties DEF Messages
  <2>4. \A t, l : Sent(q \o a, t, l) <=> Sent(q, t, l) \/ Sent(a, t, l)
    BY <2>1, <2>2, SentConcat
  <2>5. \A t, l : Sent(c \o b, t, l) <=> Sent(c, t, l) \/ Sent(b, t, l)
    BY <2>1, <2>2, SentConcat
  <2>6. Well(q \o a, c \o b)
    BY <1>2, <2>1, <2>3, <2>5 DEF Well
  <2>7. ASSUME NEW l \in Links, NEW type \in Takes, FollowsIn(q, c, type, l)
        PROVE  FollowsIn(q \o a, c \o b, type, l)
    <3>1. FollowsIn(q \o a, c, type, l)
      BY <2>1, <2>2, <2>7, FollowsConcat
    <3> QED BY <2>5, <3>1 DEF FollowsIn
  <2>8. ASSUME NEW l \in Links, \A f \in Freeing : ~Sent(ms, f, l), MovesFor(q, c, l)
        PROVE  MovesFor(q \o a, c \o b, l)
    BY <2>1, <2>4, <2>5, <2>7, <2>8 DEF MovesFor
  <2>9. ASSUME NEW l \in Links, NEW type \in Takes, NEW f \in Frees(type), Sent(ms, f, l)
        PROVE  FollowsIn(q \o a, c \o b, type, l)
    <3>1. CASE Sent(a, f, l)
      <4>1. FollowsIn(q \o a, c \o b, type, l)
        BY <2>1, <2>2, <2>9, <3>1, FollowsEnd
      <4> QED BY <4>1
    <3>2. CASE Sent(b, f, l)
      BY <2>5, <2>9, <3>2 DEF FollowsIn
    <3> QED BY <2>1, <2>9, <3>1, <3>2
  <2> QED BY <2>1, <2>6, <2>8, <2>9 DEF Freed
<1> QED BY <1>1, <1>2

(* Flushing moves releases from the list into the mailbox.                 *)
LEMMA FlushMoves ==
    ASSUME Well(queue, cleanup)
    PROVE  /\ Well(Flushed, Unflushed)
           /\ \A l \in Links : MovesFor(Flushed, Unflushed, l)
<1>1. CASE ~alive
  <2>1. Flushed = queue /\ Unflushed = <<>>
    BY <1>1 DEF Flushed, Unflushed, Fitting, Waiting
  <2> QED BY <1>1, <2>1, EmptyFacts DEF Well, MovesFor
<1>2. CASE alive
  <2>1. PICK a \in Messages, b \in Messages :
               /\ Flushed = queue \o a /\ Unflushed = b
               /\ \A t, l : Sent(cleanup, t, l) <=> Sent(a, t, l) \/ Sent(b, t, l)
    BY <1>2, FitsAndWaits DEF Well, Flushed, Unflushed
  <2>2. queue \in Messages
    BY DEF Well
  <2>3. \A t, l : Sent(queue \o a, t, l) <=> Sent(queue, t, l) \/ Sent(a, t, l)
    BY <2>1, <2>2, SentConcat
  <2>4. Well(queue \o a, b)
    BY <1>2, <2>1, <2>2, ConcatProperties DEF Well, Messages
  <2>5. ASSUME NEW l \in Links, NEW type \in Takes, FollowsIn(queue, cleanup, type, l)
        PROVE  FollowsIn(queue \o a, b, type, l)
    <3>1. ~Sent(a, type, l)
      BY <2>1 DEF Well
    <3>2. CASE \E f \in Frees(type) : Sent(cleanup, f, l)
      <4>1. PICK f \in Frees(type) : Sent(cleanup, f, l)
        BY <3>2
      <4>2. CASE Sent(a, f, l)
        BY <2>1, <2>2, <3>1, <4>1, <4>2, FollowsEnd
      <4>3. CASE Sent(b, f, l)
        BY <4>1, <4>3 DEF FollowsIn
      <4> QED BY <2>1, <4>1, <4>2, <4>3
    <3>3. CASE ~\E f \in Frees(type) : Sent(cleanup, f, l)
      <4>1. FollowsIn(queue, b, type, l)
        BY <2>5, <3>3 DEF FollowsIn
      <4> QED BY <2>1, <2>2, <3>1, <4>1, FollowsConcat
    <3> QED BY <3>2, <3>3
  <2>6. ASSUME NEW l \in Links
        PROVE  MovesFor(queue \o a, b, l)
    BY <2>1, <2>3, <2>5, FreesFacts DEF MovesFor, Well
  <2> QED BY <2>1, <2>4, <2>6
<1> QED BY <1>1, <1>2

(* Sending the messages s at once. *)
LEMMA SendMoves ==
    ASSUME alive, NEW q, NEW c, Well(q, c), NEW s \in Messages
    PROVE  /\ Well(q \o s, c)
           /\ \A l \in Links :
                 /\ (\A t \in Takes \cup Freeing : ~Sent(s, t, l)) /\ MovesFor(q, c, l)
                       => MovesFor(q \o s, c, l)
                 /\ (\A f \in Freeing : ~Sent(s, f, l)) /\ Clean(q, c, l) => Clean(q \o s, c, l)
                 /\ Sent(s, "final", l) /\ (\A t \in Takes : ~Sent(s, t, l)) => Freed(q \o s, c, l)
<1>1. q \in Messages /\ c \in Messages
  BY DEF Well
<1>2. \A t, l : Sent(q \o s, t, l) <=> Sent(q, t, l) \/ Sent(s, t, l)
  BY <1>1, SentConcat
<1>3. Well(q \o s, c)
  BY <1>1, ConcatProperties DEF Well, Messages
<1>4. ASSUME NEW l \in Links, \A t \in Takes \cup Freeing : ~Sent(s, t, l), MovesFor(q, c, l)
      PROVE  MovesFor(q \o s, c, l)
  <2>1. \A type \in Takes : FollowsIn(q, c, type, l) => FollowsIn(q \o s, c, type, l)
    BY <1>1, <1>4, FollowsConcat
  <2> QED BY <1>2, <1>4, <2>1 DEF MovesFor
<1>5. ASSUME NEW l \in Links, \A f \in Freeing : ~Sent(s, f, l), Clean(q, c, l)
      PROVE  Clean(q \o s, c, l)
  BY <1>2, <1>5 DEF Clean
<1>6. ASSUME NEW l \in Links, Sent(s, "final", l), \A t \in Takes : ~Sent(s, t, l)
      PROVE  Freed(q \o s, c, l)
  <2>1. ASSUME NEW type \in Takes
        PROVE  FollowsIn(q \o s, c, type, l)
    <3>1. "final" \in Frees(type)
      BY FreesFacts DEF Takes
    <3> QED BY <1>1, <1>6, <3>1, FollowsEnd
  <2> QED BY <2>1 DEF Freed
<1> QED BY <1>3, <1>4, <1>5, <1>6

LEMMA MovesKeepClean ==
    ASSUME NEW q, NEW c, NEW l, MovesFor(q, c, l), Clean(queue, cleanup, l)
    PROVE  Clean(q, c, l)
BY DEF MovesFor, Clean

-----------------------------------------------------------------------------
(* Steps of the endpoint, seen from the transport                          *)

Steady == UNCHANGED <<alive, registered, bound>>

(* Nothing of substance is sent, and no link changes hands. *)
Moving ==
    /\ Steady /\ stage' = stage
    /\ Well(queue', cleanup')
    /\ \A l \in Outgoing : MovesFor(queue', cleanup', l)

(* One link changes hands: it is given up and released, it is given up     *)
(* having taken nothing, or it is taken.                                   *)
Changing(l, s) ==
    /\ Steady /\ stage' = [stage EXCEPT ![l] = s]
    /\ s \in {"attempt", "active", "failed", "done"}
    /\ Well(queue', cleanup')
    /\ \A k \in Outgoing \ {l} : MovesFor(queue', cleanup', k)
    /\ \/ s \in {"failed", "done"} /\ Freed(queue', cleanup', l)
       \/ s = "failed" /\ stage[l] = "new" /\ MovesFor(queue', cleanup', l)
       \/ s \in {"attempt", "active"} /\ Clean(queue', cleanup', l)

LEMMA Following ==
    /\ \A type, l : ReleaseFollows(type, l) <=> FollowsIn(queue, cleanup, type, l)
    /\ Links = Outgoing \cup Incoming /\ Outgoing \subseteq Links
BY DEF ReleaseFollows, FollowsIn, Links

(* A transport that is gone holds nothing.                                 *)
LEMMA GoneHoldsNothing ==
    ASSUME Mailboxes, ~alive, NEW type \in Takes, NEW l
    PROVE  ~Held(type, l) /\ ~Sent(queue, type, l)
BY EmptyFacts DEF Mailboxes, Well, Held

LEMMA MovingSound ==
    ASSUME TransportInv, Moving
    PROVE  TransportInv'
<1>1. Mailboxes'
  BY DEF TransportInv, Mailboxes, Moving, Steady, Well
<1>2. ASSUME NEW l \in Outgoing
      PROVE  LinkSound(l)'
  <2>1. LinkSound(l) /\ MovesFor(queue', cleanup', l)
    BY DEF TransportInv, Moving
  <2>2. (Owned(l)' <=> Owned(l)) /\ \A type \in Takes : Held(type, l)' <=> Held(type, l)
    BY DEF Moving, Steady, Owned, Held
  <2>3. Owned(l) \/ stage[l] = "new" => Clean(queue', cleanup', l)
    BY <2>1, MovesKeepClean DEF LinkSound
  <2>4. ASSUME ~Owned(l), NEW type \in Takes, Held(type, l) \/ Sent(queue', type, l)
        PROVE  FollowsIn(queue', cleanup', type, l)
    <3>1. Held(type, l) \/ Sent(queue, type, l)
      BY <2>1, <2>4 DEF MovesFor
    <3>2. alive /\ FollowsIn(queue, cleanup, type, l)
      BY <2>1, <2>4, <3>1, GoneHoldsNothing DEF LinkSound, TransportInv
    <3> QED BY <2>1, <3>2 DEF MovesFor
  <2> QED BY <2>2, <2>3, <2>4 DEF LinkSound, Moving
<1> QED BY <1>1, <1>2 DEF TransportInv

LEMMA ChangingSound ==
    ASSUME TransportInv, NEW l \in Outgoing, NEW s, Changing(l, s)
    PROVE  TransportInv'
<1>1. stage' \in [Outgoing -> {"new", "attempt", "active", "failed", "done"}]
  BY DEF Changing, TransportInv, Mailboxes
<1>2. Mailboxes'
  BY <1>1 DEF TransportInv, Mailboxes, Changing, Steady, Well
<1>3. stage'[l] = s /\ \A k \in Outgoing \ {l} : stage'[k] = stage[k]
  BY DEF Changing, TransportInv, Mailboxes
<1>4. \A type \in Takes, k \in Outgoing : Held(type, k)' <=> Held(type, k)
  BY DEF Changing, Steady, Held
<1>5. ASSUME NEW k \in Outgoing \ {l}
      PROVE  LinkSound(k)'
  <2>1. LinkSound(k) /\ MovesFor(queue', cleanup', k)
    BY DEF TransportInv, Changing
  <2>2. Owned(k)' <=> Owned(k)
    BY <1>3 DEF Owned
  <2>3. Owned(k) \/ stage[k] = "new" => Clean(queue', cleanup', k)
    BY <2>1, MovesKeepClean DEF LinkSound
  <2>4. ASSUME ~Owned(k), NEW type \in Takes, Held(type, k) \/ Sent(queue', type, k)
        PROVE  FollowsIn(queue', cleanup', type, k)
    <3>1. Held(type, k) \/ Sent(queue, type, k)
      BY <2>1, <2>4 DEF MovesFor
    <3>2. alive /\ FollowsIn(queue, cleanup, type, k)
      BY <2>1, <2>4, <3>1, GoneHoldsNothing DEF LinkSound, TransportInv
    <3> QED BY <2>1, <3>2 DEF MovesFor
  <2> QED BY <1>3, <1>4, <2>2, <2>3, <2>4 DEF LinkSound
<1>6. LinkSound(l)'
  <2>1. CASE s \in {"failed", "done"} /\ Freed(queue', cleanup', l)
    <3>1. ~Owned(l)' /\ stage'[l] # "new"
      BY <1>3, <2>1 DEF Owned
    <3>2. ASSUME NEW type \in Takes, Held(type, l)' \/ Sent(queue', type, l)
          PROVE  FollowsIn(queue', cleanup', type, l)
      <4>1. CASE alive
        BY <2>1, <4>1 DEF Freed
      <4>2. CASE ~alive
        <5>1. Mailboxes' /\ ~alive'
          BY <1>2, <4>2 DEF Changing, Steady
        <5>2. queue' = <<>> /\ ~Held(type, l)'
          BY <1>4, <4>2, GoneHoldsNothing DEF TransportInv, Changing, Well
        <5> QED BY <3>2, <5>2, EmptyFacts
      <4> QED BY <4>1, <4>2
    <3> QED BY <3>1, <3>2 DEF LinkSound
  <2>2. CASE s = "failed" /\ stage[l] = "new" /\ MovesFor(queue', cleanup', l)
    <3>1. ~Owned(l)' /\ stage'[l] # "new" /\ ~Owned(l)
      BY <1>3, <2>2 DEF Owned
    <3>2. ASSUME NEW type \in Takes, Held(type, l) \/ Sent(queue', type, l)
          PROVE  FollowsIn(queue', cleanup', type, l)
      <4>1. Held(type, l) \/ Sent(queue, type, l)
        BY <2>2, <3>2 DEF MovesFor
      <4>2. alive /\ FollowsIn(queue, cleanup, type, l)
        BY <3>1, <4>1, GoneHoldsNothing DEF LinkSound, TransportInv
      <4> QED BY <2>2, <4>2 DEF MovesFor
    <3> QED BY <1>4, <3>1, <3>2 DEF LinkSound
  <2>3. CASE s \in {"attempt", "active"} /\ Clean(queue', cleanup', l)
    BY <1>3, <2>3 DEF LinkSound, Owned
  <2> QED BY <2>1, <2>2, <2>3 DEF Changing
<1> QED BY <1>2, <1>5, <1>6 DEF TransportInv

-----------------------------------------------------------------------------
LEMMA ReleaseChanges ==
    ASSUME TransportInv, NEW l \in Outgoing, NEW q, NEW c, Well(q, c),
           \A k \in Links : MovesFor(q, c, k), Steady,
           stage' = [stage EXCEPT ![l] = "done"],
           queue' = Fitting(q, Release(l)), cleanup' = c \o Waiting(q, Release(l))
    PROVE  Changing(l, "done")
<1>2. /\ Release(l) \in Messages
      /\ \A t, k : Sent(Release(l), t, k) <=> k = l /\ t \in {"unbind", "deregister"}
  BY ReleaseFacts, Following
<1>3. \A t \in Takes, k \in Links : ~Sent(Release(l), t, k)
  BY <1>2 DEF Takes
<1>4. \A type \in Takes : \E f \in Frees(type) : Sent(Release(l), f, l)
  BY <1>2, FreesFacts DEF Takes
<1> QED BY <1>2, <1>3, <1>4, FitMoves, Following DEF Changing

LEMMA RetireChanges ==
    ASSUME TransportInv, NEW l \in Outgoing, NEW q, NEW c, Well(q, c),
           \A k \in Links : MovesFor(q, c, k), Retire(l, q, c), Steady
    PROVE  Changing(l, "done")
BY ReleaseChanges DEF Retire, Forget

LEMMA FinalChanges ==
    ASSUME TransportInv, NEW l \in Outgoing, NEW q, NEW c, Well(q, c),
           \A k \in Links : MovesFor(q, c, k), SendFinal(l, q, c), Steady
    PROVE  Changing(l, "done")
<1>1. CASE ~CanSend(q, 1)
  BY <1>1, RetireChanges DEF SendFinal
<1>2. CASE CanSend(q, 1)
  <2>1. alive /\ stage' = [stage EXCEPT ![l] = "done"]
        /\ queue' = Append(q, M("final", l)) /\ cleanup' = c
    BY <1>2 DEF SendFinal, CanSend, Forget
  <2>2. M("final", l) \in Message /\ M("final", l).type = "final" /\ M("final", l).link = l
    BY MessageFacts, Following DEF Freeing
  <2>3. queue' = q \o <<M("final", l)>>
    BY <2>1, <2>2, AppendIs DEF Well
  <2>4. /\ <<M("final", l)>> \in Messages
        /\ \A t, k : Sent(<<M("final", l)>>, t, k) <=> t = "final" /\ k = l
    BY <2>2, SingleFacts
  <2>5. /\ Sent(<<M("final", l)>>, "final", l)
        /\ \A t \in Takes : ~Sent(<<M("final", l)>>, t, l)
        /\ \A k \in Links \ {l} : \A u : ~Sent(<<M("final", l)>>, u, k)
    BY <2>4 DEF Takes
  <2> DEFINE last == <<M("final", l)>>
  <2>6. /\ last \in Messages /\ Sent(last, "final", l)
        /\ \A t \in Takes : ~Sent(last, t, l)
        /\ \A k \in Links \ {l} : \A u : ~Sent(last, u, k)
    BY <2>4, <2>5
  <2>7. queue' = q \o last /\ cleanup' = c
    BY <2>1, <2>3
  <2> HIDE DEF last
  <2>8. Well(queue', cleanup') /\ Freed(queue', cleanup', l)
    BY <2>1, <2>6, <2>7, SendMoves, Following
  <2>9. ASSUME NEW k \in Links \ {l}
        PROVE  MovesFor(queue', cleanup', k)
    <3>1. k \in Links /\ MovesFor(q, c, k) /\ \A t \in Takes \cup Freeing : ~Sent(last, t, k)
      BY <2>6
    <3>2. MovesFor(q \o last, c, k)
      BY <2>1, <2>6, <3>1, SendMoves
    <3> QED BY <2>7, <3>2
  <2> QED BY <2>1, <2>8, <2>9, Following DEF Changing
<1> QED BY <1>1, <1>2

(* A packet takes and frees nothing.                                       *)
LEMMA PacketMoves ==
    ASSUME alive, NEW q, NEW c, Well(q, c), NEW l \in Links,
           NEW t \in {"path", "request", "control", "media"}
    PROVE  /\ Well(Append(q, M(t, l)), c)
           /\ \A k \in Links : MovesFor(q, c, k) => MovesFor(Append(q, M(t, l)), c, k)
           /\ \A k \in Links : Clean(q, c, k) => Clean(Append(q, M(t, l)), c, k)
<1>1. M(t, l) \in Message /\ M(t, l).type = t /\ M(t, l).link = l
  BY MessageFacts
<1>2. Append(q, M(t, l)) = q \o <<M(t, l)>>
  BY <1>1, AppendIs DEF Well
<1>3. <<M(t, l)>> \in Messages /\ \A u, k : Sent(<<M(t, l)>>, u, k) <=> t = u /\ l = k
  BY <1>1, SingleFacts
<1>4. \A u \in Takes \cup Freeing : \A k : ~Sent(<<M(t, l)>>, u, k)
  BY <1>3 DEF Takes, Freeing
<1> QED BY <1>2, <1>3, <1>4, SendMoves

-----------------------------------------------------------------------------
(* Every step keeps the transport's part of the invariant.                 *)

LEMMA FlushedWell ==
    ASSUME TransportInv
    PROVE  /\ Well(queue, cleanup) /\ \A k \in Links : MovesFor(queue, cleanup, k)
           /\ Well(Flushed, Unflushed) /\ \A k \in Links : MovesFor(Flushed, Unflushed, k)
BY FlushMoves, StandsStill DEF TransportInv, Mailboxes

LEMMA RetireSound ==
    ASSUME TransportInv, NEW l \in Outgoing, Steady,
           Retire(l, Flushed, Unflushed) \/ Retire(l, queue, cleanup)
    PROVE  TransportInv'
BY FlushedWell, RetireChanges, ChangingSound

LEMMA FinalSound ==
    ASSUME TransportInv, NEW l \in Outgoing, Steady,
           SendFinal(l, Flushed, Unflushed) \/ SendFinal(l, queue, cleanup)
    PROVE  TransportInv'
BY FlushedWell, FinalChanges, ChangingSound

LEMMA FlushSound ==
    ASSUME TransportInv, Steady, stage' = stage, queue' = Flushed, cleanup' = Unflushed
    PROVE  TransportInv'
<1>1. Moving
  BY FlushedWell, Following DEF Moving
<1> QED BY <1>1, MovingSound

LEMMA StillSound ==
    ASSUME TransportInv, Steady, stage' = stage, queue' = queue, cleanup' = cleanup
    PROVE  TransportInv'
<1>1. Moving
  BY FlushedWell, Following DEF Moving
<1> QED BY <1>1, MovingSound

LEMMA PacketSound ==
    ASSUME TransportInv, Steady, stage' = stage, alive, NEW l \in Links,
           NEW t \in {"control", "media"},
           \/ queue' = Append(queue, M(t, l)) /\ cleanup' = cleanup
           \/ queue' = Append(Flushed, M(t, l)) /\ cleanup' = Unflushed
    PROVE  TransportInv'
<1>1. Moving
  <2>1. CASE queue' = Append(queue, M(t, l)) /\ cleanup' = cleanup
    BY <2>1, FlushedWell, PacketMoves, Following DEF Moving, Well, Steady
  <2>2. CASE queue' = Append(Flushed, M(t, l)) /\ cleanup' = Unflushed
    BY <2>2, FlushedWell, PacketMoves, Following DEF Moving, Well, Steady
  <2> QED BY <2>1, <2>2
<1> QED BY <1>1, MovingSound

LEMMA DialSound ==
    ASSUME TransportInv, NEW l \in Outgoing, Dial(l)
    PROVE  TransportInv'
<1> DEFINE asked == Append(queue, M("path", l))
           named == Append(asked, M("register", l))
           last  == <<M("register", l)>>
<1>1. alive /\ stage[l] = "new" /\ Steady
  BY DEF Dial, CanSend, Steady, transportVars
<1>2. /\ Well(asked, cleanup) /\ \A k \in Links : MovesFor(asked, cleanup, k)
      /\ Clean(asked, cleanup, l)
  BY <1>1, FlushedWell, PacketMoves, Following DEF TransportInv, LinkSound
<1>3. /\ named = asked \o last /\ last \in Messages
      /\ \A t, k : Sent(last, t, k) <=> t = "register" /\ k = l
  BY <1>2, AppendIs, MessageFacts, SingleFacts, Following DEF Well
<1> HIDE DEF asked, named, last
<1>4. /\ Well(named, cleanup) /\ Clean(named, cleanup, l)
      /\ \A k \in Links \ {l} : MovesFor(named, cleanup, k)
  <2>1. \A f \in Freeing : ~Sent(last, f, l)
    BY <1>3 DEF Freeing
  <2>2. \A k \in Links \ {l}, t \in Takes \cup Freeing : ~Sent(last, t, k)
    BY <1>3
  <2>3. Well(named, cleanup) /\ Clean(named, cleanup, l)
    BY <1>1, <1>2, <1>3, <2>1, SendMoves, Following
  <2>4. ASSUME NEW k \in Links \ {l}
        PROVE  MovesFor(named, cleanup, k)
    BY <1>1, <1>2, <1>3, <2>2, SendMoves
  <2> QED BY <2>3, <2>4
<1>5. CASE queue' = asked /\ cleanup' = cleanup /\ stage' = [stage EXCEPT ![l] = "failed"]
  <2>1. Changing(l, "failed")
    BY <1>1, <1>2, <1>5, Following DEF Changing, Well, Steady
  <2> QED BY <2>1, ChangingSound
<1>6. CASE /\ queue' = Fitting(named, Release(l)) /\ cleanup' = cleanup \o Waiting(named, Release(l))
           /\ stage' = [stage EXCEPT ![l] = "failed"]
  <2>1. /\ Release(l) \in Messages
        /\ \A t, k : Sent(Release(l), t, k) <=> k = l /\ t \in {"unbind", "deregister"}
    BY ReleaseFacts, Following
  <2>2. /\ \A t \in Takes, k \in Links : ~Sent(Release(l), t, k)
        /\ \A type \in Takes : \E f \in Frees(type) : Sent(Release(l), f, l)
        /\ \A k \in Links \ {l}, f \in Freeing : ~Sent(Release(l), f, k)
    BY <2>1, FreesFacts DEF Takes
  <2>3. /\ Well(queue', cleanup') /\ Freed(queue', cleanup', l)
        /\ \A k \in Links \ {l} : MovesFor(queue', cleanup', k)
    BY <1>4, <1>6, <2>1, <2>2, FitMoves, Following
  <2>4. Changing(l, "failed")
    BY <1>1, <1>6, <2>3, Following DEF Changing, Well, Steady
  <2> QED BY <2>4, ChangingSound
<1>7. CASE /\ queue' = Append(named, M("request", l)) /\ cleanup' = cleanup
           /\ stage' = [stage EXCEPT ![l] = "attempt"]
  <2>1. /\ Well(queue', cleanup') /\ Clean(queue', cleanup', l)
        /\ \A k \in Links \ {l} : MovesFor(queue', cleanup', k)
    BY <1>1, <1>4, <1>7, PacketMoves, Following
  <2>2. Changing(l, "attempt")
    BY <1>1, <1>7, <2>1, Following DEF Changing, Well, Steady
  <2> QED BY <2>2, ChangingSound
<1> QED BY <1>5, <1>6, <1>7 DEF Dial, asked, named

LEMMA PromoteSound ==
    ASSUME TransportInv, NEW l \in Outgoing, Promote(l)
    PROVE  TransportInv'
<1>1. Steady /\ stage[l] = "attempt"
  BY DEF Promote, Reads, Steady, transportVars
<1>2. CASE Retire(l, Flushed, Unflushed)
  BY <1>1, <1>2, RetireSound
<1>3. CASE /\ CanSend(Flushed, 2) /\ queue' = Flushed \o <<M("bind", l), M("control", l)>>
           /\ cleanup' = Unflushed /\ stage' = [stage EXCEPT ![l] = "active"]
  <2> DEFINE both == <<M("bind", l), M("control", l)>>
  <2>1. both \in Messages
    BY MessageFacts, Following DEF Messages
  <2>2. \A t, k : Sent(both, t, k) <=> k = l /\ t \in {"bind", "control"}
    <3>1. DOMAIN both = {1, 2} /\ both[1] = M("bind", l) /\ both[2] = M("control", l)
      OBVIOUS
    <3> HIDE DEF both
    <3> QED BY <3>1, MessageFacts DEF Sent
  <2> HIDE DEF both
  <2>3. alive /\ queue' = Flushed \o both
    BY <1>3 DEF both, CanSend
  <2>4. /\ \A f \in Freeing : ~Sent(both, f, l)
        /\ \A k \in Links \ {l} : \A t : ~Sent(both, t, k)
    BY <2>2 DEF Freeing
  <2>5. Clean(Flushed, Unflushed, l)
    BY <1>1, FlushedWell, MovesKeepClean, Following DEF TransportInv, LinkSound, Owned
  <2>6. Well(queue', cleanup') /\ Clean(queue', cleanup', l)
    BY <1>3, <2>1, <2>3, <2>4, <2>5, FlushedWell, SendMoves, Following
  <2>7. ASSUME NEW k \in Links \ {l}
        PROVE  MovesFor(queue', cleanup', k)
    <3>1. MovesFor(Flushed, Unflushed, k) /\ Well(Flushed, Unflushed)
          /\ \A t \in Takes \cup Freeing : ~Sent(both, t, k)
      BY <2>4, FlushedWell
    <3>2. MovesFor(Flushed \o both, Unflushed, k)
      BY <2>1, <2>3, <3>1, SendMoves
    <3> QED BY <1>3, <2>3, <3>2
  <2>8. Changing(l, "active")
    BY <1>1, <1>3, <2>6, <2>7, Following DEF Changing, Well, Steady
  <2> QED BY <2>8, ChangingSound
<1> QED BY <1>2, <1>3 DEF Promote

LEMMA AnswerSound ==
    ASSUME TransportInv, NEW l \in Incoming, Answer(l)
    PROVE  TransportInv'
<1> DEFINE both == <<M("control", l), M("control", l)>>
<1>1. /\ alive /\ Steady /\ stage' = stage /\ cleanup' = cleanup /\ queue' = queue \o both
  BY DEF Answer, CanSend, Steady, transportVars, endpointVars
<1>2. both \in Messages
  BY MessageFacts, Following DEF Messages
<1>3. \A t, k : Sent(both, t, k) => t = "control"
  <2>1. DOMAIN both = {1, 2} /\ both[1] = M("control", l) /\ both[2] = M("control", l)
    OBVIOUS
  <2> HIDE DEF both
  <2> QED BY <2>1, MessageFacts DEF Sent
<1> HIDE DEF both
<1>4. \A t \in Takes \cup Freeing : \A k : ~Sent(both, t, k)
  BY <1>3 DEF Takes, Freeing
<1>5. Moving
  BY <1>1, <1>2, <1>4, FlushedWell, SendMoves, Following DEF Moving, Well, Steady
<1> QED BY <1>5, MovingSound

(* The transport serves the oldest message.  If that one is the release    *)
(* that follows, nothing it releases is behind it.                         *)
LEMMA ServeSound ==
    ASSUME TransportInv, Serve
    PROVE  TransportInv'
<1> DEFINE m == Head(queue)
<1>1. /\ queue # <<>> /\ queue' = Tail(queue)
      /\ stage' = stage /\ cleanup' = cleanup /\ alive' = alive
      /\ registered' = IF m.type = "register" THEN registered \cup {m.link}
                       ELSE IF m.type \in {"deregister", "final"} THEN registered \ {m.link}
                       ELSE registered
      /\ \/ m.type = "bind" /\ (bound' = bound \cup {m.link} \/ bound' = bound)
         \/ m.type # "bind" /\ bound' = IF m.type \in {"unbind", "final"} THEN bound \ {m.link}
                                        ELSE bound
  BY DEF Serve
<1>2. /\ queue \in Messages /\ cleanup \in Messages
      /\ \A t \in Takes, l \in Links : ~Sent(cleanup, t, l)
      /\ alive /\ alive \in BOOLEAN
  BY <1>1 DEF TransportInv, Mailboxes, Well
<1>3. /\ m \in Message /\ Tail(queue) \in Messages /\ Len(Tail(queue)) = Len(queue) - 1
      /\ \A i \in 1 .. Len(Tail(queue)) : Tail(queue)[i] = queue[i + 1]
  BY <1>1, <1>2, HeadTailProperties DEF Messages
<1>4. /\ DOMAIN queue = 1 .. Len(queue) /\ DOMAIN Tail(queue) = 1 .. Len(Tail(queue))
      /\ Len(queue) \in Nat /\ Len(queue) >= 1 /\ m = queue[1]
  BY <1>1, <1>2, <1>3, LenProperties, EmptySeq DEF Messages
<1> HIDE DEF m
<1>5. Mailboxes'
  BY <1>1, <1>2, <1>3 DEF TransportInv, Mailboxes, Well
<1>6. ASSUME NEW t, NEW l, Sent(Tail(queue), t, l)
      PROVE  Sent(queue, t, l)
  <2>1. PICK i \in 1 .. Len(Tail(queue)) : Tail(queue)[i] = M(t, l)
    BY <1>4, <1>6 DEF Sent
  <2>2. i + 1 \in DOMAIN queue /\ queue[i + 1] = M(t, l)
    BY <1>3, <1>4, <2>1
  <2> QED BY <2>2 DEF Sent
<1>7. ASSUME NEW l \in Outgoing
      PROVE  LinkSound(l)'
  <2>1. LinkSound(l)
    BY DEF TransportInv
  <2>2. Owned(l)' <=> Owned(l)
    BY <1>1 DEF Owned
  <2>3. Owned(l) \/ stage[l] = "new" => Clean(queue', cleanup', l)
    BY <1>1, <1>6, <2>1 DEF LinkSound, Clean
  <2>4. ASSUME ~Owned(l), NEW type \in Takes, Held(type, l)' \/ Sent(queue', type, l)
        PROVE  FollowsIn(queue', cleanup', type, l)
    <3>1. Held(type, l) \/ Sent(queue, type, l)
      <4>1. CASE Sent(queue', type, l)
        BY <1>1, <1>6, <4>1
      <4>2. CASE Held(type, l)' /\ ~Held(type, l)
        <5>1. m.type = type /\ m.link = l
          <6>1. CASE type = "register"
            BY <1>1, <4>2, <6>1 DEF Held
          <6>2. CASE type = "bind"
            BY <1>1, <4>2, <6>2 DEF Held
          <6> QED BY <6>1, <6>2 DEF Takes
        <5>2. m = M(type, l)
          BY <1>3, <5>1, MessageFacts
        <5>3. 1 \in DOMAIN queue /\ queue[1] = M(type, l)
          BY <1>4, <5>2
        <5> QED BY <5>3 DEF Sent
      <4> QED BY <2>4, <4>1, <4>2
    <3>2. FollowsIn(queue, cleanup, type, l)
      BY <2>1, <2>4, <3>1 DEF LinkSound
    <3>3. CASE \E f \in Frees(type) : Sent(cleanup, f, l)
      BY <1>1, <3>3 DEF FollowsIn
    <3>4. ASSUME NEW j \in DOMAIN queue, queue[j].link = l, queue[j].type \in Frees(type),
                 \A i \in DOMAIN queue : queue[i] = M(type, l) => i < j
          PROVE  FollowsIn(queue', cleanup', type, l)
      <4>1. CASE j = 1
        <5>1. m.link = l /\ m.type \in Frees(type) /\ m.type # "register" /\ m.type # "bind"
          BY <1>4, <3>4, <4>1, FreesFacts DEF Takes
        <5>2. ~Held(type, l)'
          <6>1. CASE type = "register"
            BY <1>1, <5>1, <6>1, FreesFacts DEF Held
          <6>2. CASE type = "bind"
            BY <1>1, <5>1, <6>2, FreesFacts DEF Held
          <6> QED BY <6>1, <6>2 DEF Takes
        <5>3. ~Sent(queue, type, l)
          BY <1>4, <3>4, <4>1 DEF Sent
        <5> QED BY <1>1, <1>6, <2>4, <5>2, <5>3
      <4>2. CASE j # 1
        <5>1. j - 1 \in DOMAIN Tail(queue) /\ Tail(queue)[j - 1] = queue[j]
          BY <1>3, <1>4, <3>4, <4>2
        <5>2. ASSUME NEW i \in DOMAIN Tail(queue), Tail(queue)[i] = M(type, l)
              PROVE  i < j - 1
          <6>1. i + 1 \in DOMAIN queue /\ queue[i + 1] = M(type, l)
            BY <1>3, <1>4, <5>2
          <6>2. i + 1 < j
            BY <3>4, <6>1
          <6> QED BY <1>3, <1>4, <5>2, <6>2
        <5> QED BY <1>1, <3>4, <5>1, <5>2 DEF FollowsIn
      <4> QED BY <4>1, <4>2
    <3> QED BY <3>2, <3>3, <3>4 DEF FollowsIn
  <2>5. ~Owned(l)' => \A type \in Takes :
            Held(type, l)' \/ Sent(queue', type, l) => FollowsIn(queue', cleanup', type, l)
    BY <2>2, <2>4
  <2> QED BY <1>1, <2>2, <2>3, <2>5 DEF LinkSound
<1> QED BY <1>5, <1>7 DEF TransportInv

LEMMA StopSound ==
    ASSUME TransportInv, Stop
    PROVE  TransportInv'
<1>1. /\ alive' = FALSE /\ queue' = <<>> /\ registered' = {} /\ bound' = {}
      /\ stage' = stage /\ cleanup' = cleanup
  BY DEF Stop, endpointVars
<1>2. Mailboxes'
  BY <1>1, EmptyFacts DEF TransportInv, Mailboxes, Well
<1>3. ASSUME NEW l \in Outgoing
      PROVE  LinkSound(l)'
  <2>1. \A type \in Takes : ~Held(type, l)' /\ ~Sent(queue', type, l)
    BY <1>1, EmptyFacts DEF Held
  <2>2. Owned(l)' <=> Owned(l)
    BY <1>1 DEF Owned
  <2> QED BY <1>1, <2>1, <2>2, EmptyFacts DEF TransportInv, LinkSound, Clean
<1> QED BY <1>2, <1>3 DEF TransportInv

LEMMA BindingEndsSound ==
    ASSUME TransportInv, NEW k \in Outgoing, BindingEnds(k)
    PROVE  TransportInv'
<1>1. /\ bound' = bound \ {k} /\ bound # {} /\ alive' = alive /\ queue' = queue
      /\ registered' = registered /\ stage' = stage /\ cleanup' = cleanup
  BY DEF BindingEnds, endpointVars
<1>2. Mailboxes'
  BY <1>1 DEF TransportInv, Mailboxes, Well
<1>3. ASSUME NEW l \in Outgoing
      PROVE  LinkSound(l)'
  <2>1. \A type \in Takes : Held(type, l)' => Held(type, l)
    BY <1>1 DEF Held
  <2>2. Owned(l)' <=> Owned(l)
    BY <1>1 DEF Owned
  <2> QED BY <1>1, <2>1, <2>2 DEF TransportInv, LinkSound
<1> QED BY <1>2, <1>3 DEF TransportInv

LEMMA TransportStep ==
    ASSUME TransportInv, busy \in Outgoing \cup {None}, [Next]_vars
    PROVE  TransportInv'
<1> USE DEF Steady, endpointVars, transportVars, managerVars
<1>1. CASE RecvManaged
  BY <1>1, StillSound DEF RecvManaged
<1>2. CASE RecvPending
  BY <1>2, FlushSound DEF RecvPending
<1>3. CASE RecvFailure
  <2>1. PICK first \in results :
            \/ /\ first.link \in Outgoing
               /\ stage' = [stage EXCEPT ![first.link] = "done"]
               /\ queue' = Fitting(Flushed, Release(first.link))
               /\ cleanup' = Unflushed \o Waiting(Flushed, Release(first.link))
            \/ stage' = stage /\ queue' = Flushed /\ cleanup' = Unflushed
    BY <1>3 DEF RecvFailure
  <2>2. Steady
    BY <1>3 DEF RecvFailure
  <2>3. CASE stage' = stage /\ queue' = Flushed /\ cleanup' = Unflushed
    BY <2>2, <2>3, FlushSound
  <2>4. CASE /\ first.link \in Outgoing
             /\ stage' = [stage EXCEPT ![first.link] = "done"]
             /\ queue' = Fitting(Flushed, Release(first.link))
             /\ cleanup' = Unflushed \o Waiting(Flushed, Release(first.link))
    <3>1. Changing(first.link, "done")
      BY <2>2, <2>4, FlushedWell, ReleaseChanges
    <3> QED BY <2>4, <3>1, ChangingSound
  <2> QED BY <2>1, <2>3, <2>4
<1>4. ASSUME NEW l \in Outgoing, RecvTerminal(l)
      PROVE  TransportInv'
  BY <1>4, RetireSound DEF RecvTerminal, CloseAndTell
<1>5. ASSUME NEW l \in Outgoing, AttemptLost(l)
      PROVE  TransportInv'
  BY <1>5, RetireSound DEF AttemptLost, CloseAndTell
<1>6. ASSUME NEW l \in Outgoing, Promote(l)
      PROVE  TransportInv'
  BY <1>6, PromoteSound
<1>7. ASSUME NEW l \in Outgoing, RemoteClose(l)
      PROVE  TransportInv'
  BY <1>7, RetireSound DEF RemoteClose, CloseAndTell, Reads
<1>8. ASSUME NEW l \in Outgoing, PacketIn(l) \/ Ignored(l)
      PROVE  TransportInv'
  BY <1>8, FlushSound DEF PacketIn, Ignored, Reads
<1>9. CASE TickIdle
  BY <1>9, FlushSound DEF TickIdle
<1>10. ASSUME NEW l \in Outgoing, TickClosed(l)
       PROVE  TransportInv'
  BY <1>10, RetireSound DEF TickClosed, Ticks
<1>11. ASSUME NEW l \in Outgoing, TickKeepalive(l)
       PROVE  TransportInv'
  <2>1. Steady
    BY <1>11 DEF TickKeepalive, Ticks
  <2>2. CASE Retire(l, Flushed, Unflushed)
    BY <2>1, <2>2, RetireSound
  <2>3. CASE /\ alive /\ queue' = Append(Flushed, M("control", l)) /\ cleanup' = Unflushed
             /\ stage' = stage
    BY <2>1, <2>3, PacketSound, Following
  <2> QED BY <1>11, <2>2, <2>3 DEF TickKeepalive, CanSend
<1>12. ASSUME NEW l \in Outgoing, TickTeardown(l)
       PROVE  TransportInv'
  BY <1>12, FinalSound DEF TickTeardown, Ticks
<1>13. CASE EndCall
  <2>1. Steady
    BY <1>13 DEF EndCall
  <2>2. CASE stage' = stage /\ queue' = queue /\ cleanup' = cleanup
    BY <2>1, <2>2, StillSound
  <2>3. CASE busy \in Outgoing /\ (Retire(busy, queue, cleanup) \/ SendFinal(busy, queue, cleanup))
    BY <2>1, <2>3, RetireSound, FinalSound
  <2>4. \/ ~Owned(busy) /\ stage' = stage /\ queue' = queue /\ cleanup' = cleanup
        \/ stage[busy] \in {"attempt", "active"}
           /\ (Retire(busy, queue, cleanup) \/ SendFinal(busy, queue, cleanup))
    BY <1>13 DEF EndCall
  <2>5. busy \in Outgoing
    BY <1>13 DEF EndCall
  <2> QED BY <2>2, <2>3, <2>4, <2>5
<1>14. ASSUME NEW l \in Outgoing, Dial(l)
       PROVE  TransportInv'
  BY <1>14, DialSound
<1>15. ASSUME NEW l \in Outgoing, Send(l, "control") \/ Send(l, "media")
       PROVE  TransportInv'
  BY <1>15, PacketSound, Following DEF Send, CanSend
<1>16. ASSUME NEW l \in Incoming, Answer(l)
       PROVE  TransportInv'
  BY <1>16, AnswerSound
<1>17. CASE Serve
  BY <1>17, ServeSound
<1>18. CASE Stop
  BY <1>18, StopSound
<1>19. ASSUME NEW l \in Outgoing, BindingEnds(l)
       PROVE  TransportInv'
  BY <1>19, BindingEndsSound
<1>20. ASSUME NEW l \in Outgoing, NEW e \in Event, Arrive(l, e)
       PROVE  TransportInv'
  BY <1>20, StillSound DEF Arrive
<1>21. ASSUME NEW l \in Incoming, Manage(l)
       PROVE  TransportInv'
  BY <1>21, StillSound DEF Manage, Report
<1>22. CASE UNCHANGED vars
  BY <1>22, StillSound DEF vars
<1>23. CASE Recv
  BY <1>1, <1>2, <1>3, <1>4, <1>5, <1>6, <1>7, <1>8, <1>23 DEF Recv
<1>24. CASE Tick
  BY <1>9, <1>10, <1>11, <1>12, <1>24 DEF Tick
<1>25. CASE Command
  BY <1>13, <1>14, <1>15, <1>16, <1>25 DEF Command
<1>26. CASE Environment
  BY <1>17, <1>18, <1>19, <1>20, <1>21, <1>26 DEF Environment
<1> QED BY <1>22, <1>23, <1>24, <1>25, <1>26 DEF Next

-----------------------------------------------------------------------------
(* The lives of the links                                                  *)

Told == {"silent", "up", "closed"}

(* A link owned is as its stage says; its close is told once, after it was *)
(* given up; only links in use have sends to fail.                         *)
OutgoingLife ==
    /\ stage \in [Outgoing -> {"new", "attempt", "active", "failed", "done"}]
    /\ told \in [Links -> Told]
    /\ busy \in Outgoing \cup {None}
    /\ pend \in Seq(Outgoing)
    /\ results \subseteq Failure
    /\ \A l \in Outgoing :
          /\ stage[l] \in {"new", "failed", "attempt"} => told[l] = "silent"
          /\ stage[l] = "active" => told[l] = "up"
    /\ \A i \in DOMAIN pend : stage[pend[i]] = "done" /\ told[pend[i]] # "closed"
    /\ \A i, j \in DOMAIN pend : pend[i] = pend[j] => i = j
    /\ \A r \in results : r.link \in Outgoing => stage[r.link] = "active"
    /\ NoDeafCall

Reported(c, l) == \E i \in DOMAIN inbox[c] : inbox[c][i] = l

(* A link the manager reported is up, or will be before anything else is   *)
(* heard of it, and once its close was told nothing else is to come.       *)
IncomingLife ==
    /\ told \in [Links -> Told]
    /\ inbox \in [Channels -> Seq(Incoming)]
    /\ \A c \in Channels : Len(inbox[c]) <= 1
    /\ carried \in [Incoming -> {"new", "up", "answered", "closing", "gone"}]
    /\ \A l \in Incoming :
          /\ Reported("established", l) => told[l] = "silent" /\ carried[l] # "new"
          /\ carried[l] = "new" => told[l] # "up"
          /\ carried[l] \in {"new", "up", "answered"} => told[l] # "closed"
          /\ carried[l] \in {"up", "answered"} => told[l] = "up" \/ Reported("established", l)
          /\ Reported("identified", l) \/ Reported("packet", l)
                => told[l] = "up" \/ Reported("established", l)
          /\ Reported("closed", l) => carried[l] = "gone"

LifeInv == OutgoingLife /\ IncomingLife

LifeStep ==
    \/ told' = told
    \/ \E l \in Links : Life!Becomes(l, {"silent"}, "up")
                        \/ Life!Becomes(l, {"silent", "up"}, "closed")

LEMMA LinksApart ==
    /\ Links = Outgoing \cup Incoming /\ Outgoing \cap Incoming = {} /\ None \notin Links
BY EndpointAssumption DEF Links

LEMMA HearFacts ==
    ASSUME NEW l
    PROVE  /\ Hear(l, "silent", "established") = "up"
           /\ \A t \in {"silent", "up"} : Hear(l, t, "closed") = "closed"
           /\ l \in Incoming => Hear(l, "closed", "closed") = "closed"
           /\ \A e \in {"identified", "packet"} : Hear(l, "up", e) = "up"
BY DEF Hear

LEMMA TellClosed ==
    ASSUME told \in [Links -> Told], NEW l \in Links, Tell(l, "closed"),
           l \in Incoming \/ told[l] # "closed"
    PROVE  /\ told' = [told EXCEPT ![l] = "closed"]
           /\ busy' = IF busy = l THEN None ELSE busy
           /\ LifeStep
<1>1. told[l] \in Told
  OBVIOUS
<1>2. Hear(l, told[l], "closed") = "closed"
  BY <1>1, HearFacts DEF Told
<1>3. told' = [told EXCEPT ![l] = "closed"]
  BY <1>2 DEF Tell
<1>4. CASE told[l] = "closed"
  BY <1>3, <1>4 DEF LifeStep, Tell
<1>5. CASE told[l] # "closed"
  BY <1>1, <1>3, <1>5 DEF LifeStep, Life!Becomes, Told, Tell
<1> QED BY <1>3, <1>4, <1>5 DEF Tell

(* Steps that leave the life of incoming links alone. *)
LEMMA IncomingApart ==
    ASSUME IncomingLife, told' \in [Links -> Told], \A l \in Incoming : told'[l] = told[l],
           inbox' = inbox, carried' = carried
    PROVE  IncomingLife'
<1>1. \A c, l : Reported(c, l)' <=> Reported(c, l)
  BY DEF Reported
<1> QED BY <1>1 DEF IncomingLife

LEMMA OutgoingApart ==
    ASSUME OutgoingLife, told' \in [Links -> Told], \A l \in Outgoing : told'[l] = told[l],
           stage' = stage, busy' = busy, pend' = pend, results' \subseteq results
    PROVE  OutgoingLife'
<1>1. NoDeafCall'
  BY DEF OutgoingLife, NoDeafCall, Owned
<1>2. \A i \in DOMAIN pend : pend[i] \in Outgoing
  BY ElementOfSeq DEF OutgoingLife
<1> QED BY <1>1, <1>2 DEF OutgoingLife

(* The close of a link is told as the link is given up. *)
LEMMA CloseNow ==
    ASSUME LifeInv, NEW l \in Outgoing, Tell(l, "closed"), Owned(l),
           stage' = [stage EXCEPT ![l] = "done"], results' \subseteq {r \in results : r.link # l},
           pend' = pend, inbox' = inbox, carried' = carried
    PROVE  LifeInv' /\ LifeStep
<1>1. told[l] # "closed"
  BY DEF LifeInv, OutgoingLife, Owned
<1>2. /\ told' = [told EXCEPT ![l] = "closed"]
      /\ busy' = IF busy = l THEN None ELSE busy
      /\ LifeStep
  BY <1>1, TellClosed, LinksApart DEF LifeInv, OutgoingLife
<1>3. told' \in [Links -> Told] /\ \A k \in Incoming : told'[k] = told[k]
  BY <1>2, LinksApart DEF LifeInv, OutgoingLife, Told
<1>4. IncomingLife'
  BY <1>3, IncomingApart DEF LifeInv
<1>5. \A i \in DOMAIN pend : pend[i] \in Outgoing /\ pend[i] # l
  <2>1. \A i \in DOMAIN pend : pend[i] \in Outgoing
    BY ElementOfSeq DEF LifeInv, OutgoingLife
  <2> QED BY <2>1 DEF LifeInv, OutgoingLife, Owned
<1>6. OutgoingLife'
  <2>1. NoDeafCall'
    BY <1>2, LinksApart DEF LifeInv, OutgoingLife, NoDeafCall, Owned
  <2>2. stage' \in [Outgoing -> {"new", "attempt", "active", "failed", "done"}]
        /\ \A k \in Outgoing : stage'[k] = IF k = l THEN "done" ELSE stage[k]
    BY DEF LifeInv, OutgoingLife
  <2>3. \A k \in Outgoing : told'[k] = IF k = l THEN "closed" ELSE told[k]
    BY <1>2, LinksApart DEF LifeInv, OutgoingLife
  <2> QED BY <1>2, <1>3, <1>5, <2>1, <2>2, <2>3, LinksApart DEF LifeInv, OutgoingLife
<1> QED BY <1>2, <1>4, <1>6 DEF LifeInv

(* A link is given up, and its close will be told if its call goes on.     *)
LEMMA GiveUp ==
    ASSUME LifeInv, NEW l \in Outgoing, Owned(l), told' = told,
           stage' = [stage EXCEPT ![l] = "done"], results' \subseteq {r \in results : r.link # l},
           inbox' = inbox, carried' = carried,
           \/ pend' = Append(pend, l) /\ busy' = busy
           \/ pend' = pend /\ busy = l /\ busy' = None
    PROVE  LifeInv' /\ LifeStep
<1>1. IncomingLife'
  BY IncomingApart DEF LifeInv, OutgoingLife
<1>2. stage' \in [Outgoing -> {"new", "attempt", "active", "failed", "done"}]
      /\ \A k \in Outgoing : stage'[k] = IF k = l THEN "done" ELSE stage[k]
  BY DEF LifeInv, OutgoingLife
<1>3. \A i \in DOMAIN pend : pend[i] \in Outgoing /\ pend[i] # l
  <2>1. \A i \in DOMAIN pend : pend[i] \in Outgoing
    BY ElementOfSeq DEF LifeInv, OutgoingLife
  <2> QED BY <2>1 DEF LifeInv, OutgoingLife, Owned
<1>4. told[l] # "closed"
  BY DEF LifeInv, OutgoingLife, Owned
<1>5. CASE pend' = pend /\ busy = l /\ busy' = None
  <2>1. NoDeafCall'
    BY <1>5 DEF NoDeafCall
  <2> QED BY <1>1, <1>2, <1>3, <1>5, <2>1 DEF LifeInv, OutgoingLife, LifeStep
<1>6. CASE pend' = Append(pend, l) /\ busy' = busy
  <2>1. /\ pend' \in Seq(Outgoing) /\ Len(pend') = Len(pend) + 1
        /\ pend'[Len(pend) + 1] = l /\ \A i \in 1 .. Len(pend) : pend'[i] = pend[i]
    BY <1>6, AppendProperties DEF LifeInv, OutgoingLife
  <2>2. DOMAIN pend = 1 .. Len(pend) /\ DOMAIN pend' = 1 .. Len(pend) + 1 /\ Len(pend) \in Nat
    BY <2>1, LenProperties DEF LifeInv, OutgoingLife
  <2>3. NoDeafCall'
    <3>1. CASE busy = l
      BY <1>6, <2>1, <2>2, <3>1 DEF NoDeafCall
    <3>2. CASE busy # l
      <4>1. (Owned(busy) /\ busy \in Outgoing => Owned(busy)')
            /\ (\A i \in DOMAIN pend : i \in DOMAIN pend' /\ pend'[i] = pend[i])
            /\ (busy \in Outgoing => stage'[busy] = stage[busy])
        BY <1>2, <2>1, <2>2, <3>2 DEF Owned
      <4> QED BY <1>6, <4>1 DEF LifeInv, OutgoingLife, NoDeafCall
    <3> QED BY <3>1, <3>2
  <2>4. \A i \in DOMAIN pend' : stage'[pend'[i]] = "done" /\ told'[pend'[i]] # "closed"
    <3> SUFFICES ASSUME NEW i \in DOMAIN pend'
                 PROVE  stage'[pend'[i]] = "done" /\ told'[pend'[i]] # "closed"
      OBVIOUS
    <3>1. CASE i = Len(pend) + 1
      BY <1>2, <1>4, <2>1, <3>1
    <3>2. CASE i \in DOMAIN pend
      BY <1>2, <1>3, <2>1, <2>2, <3>2 DEF LifeInv, OutgoingLife
    <3> QED BY <2>2, <3>1, <3>2
  <2>5. \A i, j \in DOMAIN pend' : pend'[i] = pend'[j] => i = j
    <3> SUFFICES ASSUME NEW i \in DOMAIN pend', NEW j \in DOMAIN pend', pend'[i] = pend'[j]
                 PROVE  i = j
      OBVIOUS
    <3>1. CASE i \in DOMAIN pend /\ j \in DOMAIN pend
      BY <2>1, <2>2, <3>1 DEF LifeInv, OutgoingLife
    <3>2. CASE i = Len(pend) + 1
      BY <1>3, <2>1, <2>2, <3>2
    <3>3. CASE j = Len(pend) + 1
      BY <1>3, <2>1, <2>2, <3>3
    <3> QED BY <2>2, <3>1, <3>2, <3>3
  <2> QED BY <1>1, <1>2, <1>6, <2>1, <2>3, <2>4, <2>5 DEF LifeInv, OutgoingLife, LifeStep
<1> QED BY <1>5, <1>6

(* Nothing changes that the lives of the links depend on. *)
LEMMA LifeStill ==
    ASSUME LifeInv, told' = told, stage' = stage, busy' = busy, pend' = pend,
           results' \subseteq results, inbox' = inbox, carried' = carried
    PROVE  LifeInv' /\ LifeStep
<1>1. told' \in [Links -> Told]
  BY DEF LifeInv, OutgoingLife
<1> QED BY <1>1, IncomingApart, OutgoingApart DEF LifeInv, LifeStep

LEMMA PendingLife ==
    ASSUME LifeInv, RecvPending
    PROVE  LifeInv' /\ LifeStep
<1> DEFINE l == Head(pend)
<1>1. /\ pend # <<>> /\ Tell(l, "closed") /\ pend' = Tail(pend) /\ stage' = stage
      /\ results' = results /\ inbox' = inbox /\ carried' = carried
  BY DEF RecvPending, managerVars
<1>2. /\ l \in Outgoing /\ pend' \in Seq(Outgoing) /\ Len(pend') = Len(pend) - 1
      /\ \A i \in 1 .. Len(pend') : pend'[i] = pend[i + 1]
  BY <1>1, HeadTailProperties DEF LifeInv, OutgoingLife
<1>3. /\ DOMAIN pend = 1 .. Len(pend) /\ DOMAIN pend' = 1 .. Len(pend')
      /\ Len(pend) \in Nat /\ Len(pend) >= 1 /\ l = pend[1]
  BY <1>1, <1>2, LenProperties, EmptySeq DEF LifeInv, OutgoingLife
<1> HIDE DEF l
<1>4. \A i \in DOMAIN pend' : i + 1 \in DOMAIN pend /\ pend'[i] = pend[i + 1] /\ pend'[i] # l
  BY <1>2, <1>3 DEF LifeInv, OutgoingLife
<1>5. stage[l] = "done" /\ told[l] # "closed"
  BY <1>3 DEF LifeInv, OutgoingLife
<1>6. /\ told' = [told EXCEPT ![l] = "closed"]
      /\ busy' = IF busy = l THEN None ELSE busy
      /\ LifeStep
  BY <1>1, <1>2, <1>5, TellClosed, LinksApart DEF LifeInv, OutgoingLife
<1>7. /\ told' \in [Links -> Told] /\ \A k \in Incoming : told'[k] = told[k]
      /\ \A k \in Outgoing : told'[k] = IF k = l THEN "closed" ELSE told[k]
  BY <1>2, <1>6, LinksApart DEF LifeInv, OutgoingLife, Told
<1>8. IncomingLife'
  BY <1>1, <1>7, IncomingApart DEF LifeInv
<1>9. NoDeafCall'
  <2>1. ASSUME busy' # None
        PROVE  Owned(busy) \/ stage[busy] = "failed" \/ \E i \in DOMAIN pend' : pend'[i] = busy
    <3>1. busy # l /\ busy # None
      BY <1>6, <2>1
    <3>2. ASSUME NEW i \in DOMAIN pend, pend[i] = busy
          PROVE  \E j \in DOMAIN pend' : pend'[j] = busy
      <4>1. i # 1
        BY <1>3, <3>1, <3>2
      <4>2. i - 1 \in DOMAIN pend' /\ pend'[i - 1] = pend[i]
        BY <1>2, <1>3, <3>2, <4>1
      <4> QED BY <3>2, <4>2
    <3> QED BY <3>1, <3>2 DEF LifeInv, OutgoingLife, NoDeafCall
  <2>2. busy' # None => busy' = busy
    BY <1>6
  <2> QED BY <1>1, <2>1, <2>2 DEF NoDeafCall, Owned
<1>10. \A i \in DOMAIN pend' : stage'[pend'[i]] = "done" /\ told'[pend'[i]] # "closed"
  <2> SUFFICES ASSUME NEW i \in DOMAIN pend'
               PROVE  stage'[pend'[i]] = "done" /\ told'[pend'[i]] # "closed"
    OBVIOUS
  <2>1. pend'[i] \in Outgoing
    BY <1>2, ElementOfSeq
  <2> QED BY <1>1, <1>4, <1>7, <2>1 DEF LifeInv, OutgoingLife
<1>11. \A i, j \in DOMAIN pend' : pend'[i] = pend'[j] => i = j
  <2> SUFFICES ASSUME NEW i \in DOMAIN pend', NEW j \in DOMAIN pend', pend'[i] = pend'[j]
               PROVE  i = j
    OBVIOUS
  <2>1. i + 1 = j + 1
    BY <1>4 DEF LifeInv, OutgoingLife
  <2> QED BY <1>2, <1>3, <2>1
<1>12. OutgoingLife'
  BY <1>1, <1>2, <1>5, <1>6, <1>7, <1>9, <1>10, <1>11 DEF LifeInv, OutgoingLife
<1> QED BY <1>6, <1>8, <1>12 DEF LifeInv

LEMMA DialLife ==
    ASSUME LifeInv, NEW l \in Outgoing, Dial(l)
    PROVE  LifeInv' /\ LifeStep
<1>1. /\ stage[l] = "new" /\ busy' = l /\ told' = told /\ pend' = pend
      /\ results' = results /\ inbox' = inbox /\ carried' = carried
      /\ \/ stage' = [stage EXCEPT ![l] = "failed"]
         \/ stage' = [stage EXCEPT ![l] = "attempt"]
  BY DEF Dial, managerVars
<1>2. stage' \in [Outgoing -> {"new", "attempt", "active", "failed", "done"}]
      /\ stage'[l] \in {"failed", "attempt"} /\ \A k \in Outgoing \ {l} : stage'[k] = stage[k]
  BY <1>1 DEF LifeInv, OutgoingLife
<1>3. \A i \in DOMAIN pend : pend[i] \in Outgoing /\ pend[i] # l
  <2>1. \A i \in DOMAIN pend : pend[i] \in Outgoing
    BY ElementOfSeq DEF LifeInv, OutgoingLife
  <2> QED BY <1>1, <2>1 DEF LifeInv, OutgoingLife
<1>4. NoDeafCall'
  BY <1>1, <1>2 DEF NoDeafCall, Owned
<1>5. IncomingLife'
  BY <1>1, IncomingApart DEF LifeInv, OutgoingLife
<1>6. OutgoingLife'
  BY <1>1, <1>2, <1>3, <1>4 DEF LifeInv, OutgoingLife
<1> QED BY <1>1, <1>5, <1>6 DEF LifeInv, LifeStep

LEMMA PromoteLife ==
    ASSUME LifeInv, NEW l \in Outgoing, Promote(l)
    PROVE  LifeInv' /\ LifeStep
<1>1. stage[l] = "attempt" /\ inbox' = inbox /\ carried' = carried /\ Owned(l)
  BY DEF Promote, Reads, managerVars, Owned
<1>2. CASE Retire(l, Flushed, Unflushed) /\ pend' = Append(pend, l) /\ told' = told /\ busy' = busy
  BY <1>1, <1>2, GiveUp DEF Retire, Forget
<1>3. CASE /\ stage' = [stage EXCEPT ![l] = "active"] /\ Tell(l, "established")
           /\ results' = results /\ pend' = pend
  <2>1. told[l] = "silent" /\ l \in Links
    BY <1>1, LinksApart DEF LifeInv, OutgoingLife
  <2>2. told' = [told EXCEPT ![l] = "up"] /\ busy' = busy
    BY <1>3, <2>1, HearFacts DEF Tell
  <2>3. LifeStep
    BY <2>1, <2>2 DEF LifeStep, Life!Becomes
  <2>4. /\ told' \in [Links -> Told] /\ \A k \in Incoming : told'[k] = told[k]
        /\ \A k \in Outgoing : told'[k] = IF k = l THEN "up" ELSE told[k]
    BY <2>1, <2>2, LinksApart DEF LifeInv, OutgoingLife, Told
  <2>5. IncomingLife'
    BY <1>1, <2>4, IncomingApart DEF LifeInv
  <2>6. stage' \in [Outgoing -> {"new", "attempt", "active", "failed", "done"}]
        /\ \A k \in Outgoing : stage'[k] = IF k = l THEN "active" ELSE stage[k]
    BY <1>3 DEF LifeInv, OutgoingLife
  <2>7. \A i \in DOMAIN pend : pend[i] \in Outgoing /\ pend[i] # l
    <3>1. \A i \in DOMAIN pend : pend[i] \in Outgoing
      BY ElementOfSeq DEF LifeInv, OutgoingLife
    <3> QED BY <1>1, <3>1 DEF LifeInv, OutgoingLife
  <2>8. NoDeafCall'
    BY <1>3, <2>2, <2>6 DEF LifeInv, OutgoingLife, NoDeafCall, Owned
  <2>9. OutgoingLife'
    BY <1>1, <1>3, <2>1, <2>2, <2>4, <2>6, <2>7, <2>8 DEF LifeInv, OutgoingLife
  <2> QED BY <2>3, <2>5, <2>9 DEF LifeInv
<1> QED BY <1>2, <1>3 DEF Promote

LEMMA PacketLife ==
    ASSUME LifeInv, NEW l \in Outgoing, PacketIn(l)
    PROVE  LifeInv' /\ LifeStep
<1>1. /\ stage[l] = "active" /\ Tell(l, "packet") /\ stage' = stage /\ results' = results
      /\ pend' = pend /\ inbox' = inbox /\ carried' = carried
  BY DEF PacketIn, Reads, managerVars
<1>2. told[l] = "up" /\ l \in Links
  BY <1>1, LinksApart DEF LifeInv, OutgoingLife
<1>3. told' = told /\ busy' = busy
  BY <1>1, <1>2, HearFacts DEF Tell, LifeInv, OutgoingLife
<1> QED BY <1>1, <1>3, LifeStill

(* A failure that is polled belongs to a link in use, or to an incoming    *)
(* link of which nothing is left to hear but its close.                    *)
LEMMA FailureLife ==
    ASSUME LifeInv, RecvFailure
    PROVE  LifeInv' /\ LifeStep
<1>1. PICK first \in results :
          /\ Tell(first.link, "closed")
          /\ \/ /\ first.link \in Outgoing
                /\ stage' = [stage EXCEPT ![first.link] = "done"]
                /\ results' \subseteq {r \in results : r.link # first.link}
                /\ carried' = carried
             \/ /\ first.link \in Incoming /\ stage' = stage /\ results' \subseteq results
                /\ carried' = [carried EXCEPT ![first.link] = IF @ = "gone" THEN @ ELSE "closing"]
  BY DEF RecvFailure
<1>2. /\ \A c \in Channels : inbox[c] = <<>>
      /\ pend' = pend /\ inbox' = inbox
  BY DEF RecvFailure, ManagerQuiet
<1> DEFINE l == first.link
<1>3. CASE l \in Outgoing
  <2>1. Owned(l)
    BY <1>3 DEF LifeInv, OutgoingLife, Owned
  <2> QED BY <1>1, <1>2, <1>3, <2>1, CloseNow, LinksApart
<1>4. CASE l \in Incoming
  <2>1. /\ told' = [told EXCEPT ![l] = "closed"]
        /\ busy' = IF busy = l THEN None ELSE busy
        /\ LifeStep
    BY <1>1, <1>4, TellClosed, LinksApart DEF LifeInv, OutgoingLife
  <2>2. busy' = busy
    BY <1>4, <2>1, LinksApart DEF LifeInv, OutgoingLife
  <2>3. /\ told' \in [Links -> Told] /\ \A k \in Outgoing : told'[k] = told[k]
        /\ \A k \in Incoming : told'[k] = IF k = l THEN "closed" ELSE told[k]
    BY <1>4, <2>1, LinksApart DEF LifeInv, OutgoingLife, Told
  <2>4. OutgoingLife'
    BY <1>1, <1>2, <1>4, <2>2, <2>3, LinksApart, OutgoingApart DEF LifeInv
  <2>5. \A c \in Channels : \A k : ~Reported(c, k)' /\ ~Reported(c, k)
    <3>1. DOMAIN <<>> = {}
      OBVIOUS
    <3> QED BY <1>2, <3>1 DEF Reported
  <2>6. /\ carried' \in [Incoming -> {"new", "up", "answered", "closing", "gone"}]
        /\ \A k \in Incoming \ {l} : carried'[k] = carried[k]
        /\ carried'[l] \in {"closing", "gone"}
    BY <1>1, <1>4, LinksApart DEF LifeInv, IncomingLife
  <2>7. IncomingLife'
    BY <1>2, <2>3, <2>5, <2>6 DEF LifeInv, IncomingLife, Channels
  <2> QED BY <2>1, <2>4, <2>7 DEF LifeInv
<1>5. l \in Links
  BY DEF LifeInv, OutgoingLife, Failure
<1> QED BY <1>3, <1>4, <1>5, LinksApart

(* An event of an incoming link is heard in the order of its life: the     *)
(* channels are read in the order in which a link uses them.               *)
LEMMA ManagedLife ==
    ASSUME LifeInv, RecvManaged
    PROVE  LifeInv' /\ LifeStep
<1>1. PICK i \in DOMAIN Order :
          /\ inbox[Order[i]] # <<>>
          /\ \A j \in 1 .. i - 1 : inbox[Order[j]] = <<>>
          /\ Tell(Head(inbox[Order[i]]), Order[i])
          /\ inbox' = [inbox EXCEPT ![Order[i]] = Tail(@)]
  BY DEF RecvManaged
<1>2. /\ stage' = stage /\ pend' = pend /\ results' = results /\ carried' = carried
  BY DEF RecvManaged, endpointVars
<1> DEFINE c == Order[i]
           l == Head(inbox[c])
<1>3. /\ DOMAIN Order = 1 .. 4
      /\ Order[1] = "established" /\ Order[2] = "identified"
      /\ Order[3] = "packet" /\ Order[4] = "closed"
  BY DEF Order
<1>4. c \in Channels /\ inbox[c] \in Seq(Incoming) /\ Len(inbox[c]) <= 1
  BY <1>3 DEF Channels, LifeInv, IncomingLife
<1>5. /\ l \in Incoming /\ Len(Tail(inbox[c])) = Len(inbox[c]) - 1
      /\ Tail(inbox[c]) \in Seq(Incoming)
  BY <1>1, <1>4, HeadTailProperties
<1>6. /\ DOMAIN inbox[c] = {1} /\ inbox[c][1] = l /\ Len(Tail(inbox[c])) = 0
  <2>1. Len(inbox[c]) \in Nat /\ Len(inbox[c]) # 0 /\ DOMAIN inbox[c] = 1 .. Len(inbox[c])
    BY <1>1, <1>4, LenProperties, EmptySeq
  <2>2. Len(inbox[c]) = 1
    <3>1. \A n \in Nat : n # 0 /\ n <= 1 => n = 1
      OBVIOUS
    <3>2. Len(inbox[c]) <= 1
      BY <1>4
    <3> HIDE DEF c
    <3> QED BY <2>1, <3>1, <3>2
  <2>3. DOMAIN inbox[c] = {1} /\ Len(Tail(inbox[c])) = 0
    BY <1>5, <2>1, <2>2
  <2>4. inbox[c][1] = l
    OBVIOUS
  <2> QED BY <2>3, <2>4
<1>7. inbox'[c] = <<>> /\ \A d \in Channels \ {c} : inbox'[d] = inbox[d]
  BY <1>1, <1>4, <1>5, <1>6, EmptySeq DEF LifeInv, IncomingLife
<1>8. inbox' \in [Channels -> Seq(Incoming)] /\ \A d \in Channels : Len(inbox'[d]) <= 1
  <2>1. Len(inbox'[c]) <= 1 /\ \A d \in Channels \ {c} : Len(inbox'[d]) <= 1
    BY <1>5, <1>6, <1>7 DEF LifeInv, IncomingLife
  <2> QED BY <1>1, <1>4, <1>5, <2>1 DEF LifeInv, IncomingLife
<1>9. /\ Reported(c, l) /\ \A k : Reported(c, k) => k = l
      /\ \A k : ~Reported(c, k)'
      /\ \A d \in Channels \ {c} : \A k : Reported(d, k)' <=> Reported(d, k)
  <2>1. DOMAIN <<>> = {}
    OBVIOUS
  <2> QED BY <1>6, <1>7, <2>1 DEF Reported
<1> HIDE DEF c, l
<1>10. Tell(l, c)
  BY <1>1 DEF c, l
<1>11. ASSUME told' \in [Links -> Told], \A k \in Outgoing : told'[k] = told[k], busy' = busy
       PROVE  OutgoingLife'
  BY <1>2, <1>11, OutgoingApart DEF LifeInv
<1>12. CASE c = "established"
  <2>1. told[l] = "silent" /\ carried[l] # "new"
    BY <1>5, <1>9, <1>12 DEF LifeInv, IncomingLife
  <2>2. told' = [told EXCEPT ![l] = "up"] /\ busy' = busy
    BY <1>10, <1>12, <2>1, HearFacts DEF Tell
  <2>3. LifeStep
    BY <1>5, <2>1, <2>2, LinksApart DEF LifeStep, Life!Becomes
  <2>4. /\ told' \in [Links -> Told] /\ \A k \in Outgoing : told'[k] = told[k]
        /\ \A k \in Incoming : told'[k] = IF k = l THEN "up" ELSE told[k]
    BY <1>5, <2>2, LinksApart DEF LifeInv, OutgoingLife, Told
  <2>5. IncomingLife'
    BY <1>2, <1>5, <1>8, <1>9, <1>12, <2>1, <2>4 DEF LifeInv, IncomingLife, Channels
  <2> QED BY <1>11, <2>2, <2>3, <2>4, <2>5 DEF LifeInv
<1>13. CASE c \in {"identified", "packet"}
  <2>1. inbox["established"] = <<>>
    BY <1>1, <1>3, <1>13 DEF c
  <2>2. \A k : ~Reported("established", k)
    <3>1. DOMAIN <<>> = {}
      OBVIOUS
    <3> QED BY <2>1, <3>1 DEF Reported
  <2>3. told[l] = "up"
    BY <1>5, <1>9, <1>13, <2>2 DEF LifeInv, IncomingLife
  <2>4. told' = told /\ busy' = busy
    BY <1>10, <1>13, <2>3, HearFacts DEF Tell, LifeInv, IncomingLife
  <2>5. IncomingLife'
    BY <1>2, <1>8, <1>9, <1>13, <2>4 DEF LifeInv, IncomingLife, Channels
  <2> QED BY <1>11, <2>4, <2>5 DEF LifeInv, LifeStep, OutgoingLife
<1>14. CASE c = "closed"
  <2>1. \A d \in {"established", "identified", "packet"} : inbox[d] = <<>>
    BY <1>1, <1>3, <1>14 DEF c
  <2>2. \A d \in {"established", "identified", "packet"} : \A k : ~Reported(d, k)
    <3>1. DOMAIN <<>> = {}
      OBVIOUS
    <3> QED BY <2>1, <3>1 DEF Reported
  <2>3. carried[l] = "gone"
    BY <1>5, <1>9, <1>14 DEF LifeInv, IncomingLife
  <2>4. /\ told' = [told EXCEPT ![l] = "closed"]
        /\ busy' = IF busy = l THEN None ELSE busy
        /\ LifeStep
    BY <1>5, <1>10, <1>14, TellClosed, LinksApart DEF LifeInv, OutgoingLife
  <2>5. busy' = busy
    BY <1>5, <2>4, LinksApart DEF LifeInv, OutgoingLife
  <2>6. /\ told' \in [Links -> Told] /\ \A k \in Outgoing : told'[k] = told[k]
        /\ \A k \in Incoming : told'[k] = IF k = l THEN "closed" ELSE told[k]
    BY <1>5, <2>4, LinksApart DEF LifeInv, OutgoingLife, Told
  <2>7. IncomingLife'
    BY <1>2, <1>8, <1>9, <1>14, <2>2, <2>3, <2>6 DEF LifeInv, IncomingLife, Channels
  <2> QED BY <1>11, <2>4, <2>5, <2>6, <2>7 DEF LifeInv
<1> QED BY <1>4, <1>12, <1>13, <1>14 DEF Channels

LEMMA ReportLife ==
    ASSUME LifeInv, NEW l \in Incoming, Manage(l)
    PROVE  LifeInv' /\ LifeStep
<1>1. /\ told' = told /\ stage' = stage /\ busy' = busy /\ pend' = pend /\ results' = results
  BY DEF Manage, Report, endpointVars
<1>2. OutgoingLife'
  BY <1>1, OutgoingApart DEF LifeInv, OutgoingLife
<1>3. ASSUME NEW c \in Channels, inbox[c] = <<>>, inbox' = [inbox EXCEPT ![c] = Append(@, l)]
      PROVE  /\ inbox' \in [Channels -> Seq(Incoming)] /\ \A d \in Channels : Len(inbox'[d]) <= 1
             /\ \A k : Reported(c, k)' <=> k = l
             /\ \A k : ~Reported(c, k)
             /\ \A d \in Channels \ {c} : \A k : Reported(d, k)' <=> Reported(d, k)
  <2>1. /\ inbox'[c] = <<l>> /\ \A d \in Channels \ {c} : inbox'[d] = inbox[d]
    BY <1>3 DEF LifeInv, IncomingLife
  <2>2. <<l>> \in Seq(Incoming) /\ Len(<<l>>) = 1 /\ DOMAIN <<l>> = {1} /\ <<l>>[1] = l
        /\ DOMAIN <<>> = {}
    OBVIOUS
  <2>3. inbox' \in [Channels -> Seq(Incoming)]
    BY <1>3, <2>1, <2>2 DEF LifeInv, IncomingLife
  <2>4. ASSUME NEW d \in Channels
        PROVE  Len(inbox'[d]) <= 1
    <3>1. CASE d = c
      <4>1. inbox'[d] = <<l>>
        BY <2>1, <3>1
      <4>2. Len(<<l>>) <= 1
        OBVIOUS
      <4> QED BY <4>1, <4>2
    <3>2. CASE d # c
      <4>1. inbox'[d] = inbox[d]
        BY <2>1, <3>2
      <4>2. Len(inbox[d]) <= 1
        BY DEF LifeInv, IncomingLife
      <4> QED BY <4>1, <4>2
    <3> QED BY <3>1, <3>2
  <2> QED BY <1>3, <2>1, <2>2, <2>3, <2>4 DEF Reported
<1>4. CASE Report(l, {"new"}, "up", "established")
  <2>1. /\ inbox["established"] = <<>> /\ carried[l] = "new"
        /\ inbox' = [inbox EXCEPT !["established"] = Append(@, l)]
        /\ carried' = [carried EXCEPT ![l] = "up"]
    BY <1>4 DEF Report
  <2>2. /\ carried' \in [Incoming -> {"new", "up", "answered", "closing", "gone"}]
        /\ \A k \in Incoming : carried'[k] = IF k = l THEN "up" ELSE carried[k]
    BY <2>1 DEF LifeInv, IncomingLife
  <2>3. told[l] = "silent"
    BY <2>1, LinksApart DEF LifeInv, IncomingLife, Told
  <2>4. IncomingLife'
    BY <1>1, <1>3, <2>1, <2>2, <2>3 DEF LifeInv, IncomingLife, Channels
  <2> QED BY <1>1, <1>2, <2>4 DEF LifeInv, LifeStep
<1>5. ASSUME NEW c \in {"identified", "packet"}, Report(l, {"up", "answered"}, "same", c)
      PROVE  LifeInv' /\ LifeStep
  <2>1. /\ inbox[c] = <<>> /\ carried[l] \in {"up", "answered"}
        /\ inbox' = [inbox EXCEPT ![c] = Append(@, l)]
        /\ carried' = carried
    BY <1>5 DEF Report, LifeInv, IncomingLife
  <2>2. IncomingLife'
    BY <1>1, <1>3, <1>5, <2>1 DEF LifeInv, IncomingLife, Channels
  <2> QED BY <1>1, <1>2, <2>2 DEF LifeInv, LifeStep
<1>6. CASE Report(l, {"up", "answered", "closing"}, "gone", "closed")
  <2>1. /\ inbox["closed"] = <<>> /\ carried[l] \in {"up", "answered", "closing"}
        /\ inbox' = [inbox EXCEPT !["closed"] = Append(@, l)]
        /\ carried' = [carried EXCEPT ![l] = "gone"]
    BY <1>6 DEF Report
  <2>2. /\ carried' \in [Incoming -> {"new", "up", "answered", "closing", "gone"}]
        /\ \A k \in Incoming : carried'[k] = IF k = l THEN "gone" ELSE carried[k]
    BY <2>1 DEF LifeInv, IncomingLife
  <2>3. IncomingLife'
    BY <1>1, <1>3, <2>1, <2>2 DEF LifeInv, IncomingLife, Channels
  <2> QED BY <1>1, <1>2, <2>3 DEF LifeInv, LifeStep
<1> QED BY <1>4, <1>5, <1>6 DEF Manage

LEMMA AnswerLife ==
    ASSUME LifeInv, NEW l \in Incoming, Answer(l)
    PROVE  LifeInv' /\ LifeStep
<1>1. /\ told' = told /\ stage' = stage /\ busy' = busy /\ pend' = pend /\ results' = results
      /\ inbox' = inbox /\ carried[l] = "up" /\ carried' = [carried EXCEPT ![l] = "answered"]
  BY DEF Answer, endpointVars
<1>2. OutgoingLife'
  BY <1>1, OutgoingApart DEF LifeInv, OutgoingLife
<1>3. /\ carried' \in [Incoming -> {"new", "up", "answered", "closing", "gone"}]
      /\ \A k \in Incoming : carried'[k] = IF k = l THEN "answered" ELSE carried[k]
  BY <1>1 DEF LifeInv, IncomingLife
<1>4. \A c, k : Reported(c, k)' <=> Reported(c, k)
  BY <1>1 DEF Reported
<1>5. IncomingLife'
  BY <1>1, <1>3, <1>4 DEF LifeInv, IncomingLife
<1> QED BY <1>1, <1>2, <1>5 DEF LifeInv, LifeStep

(* Only sends of links in use may fail. *)
LEMMA FailingLife ==
    ASSUME LifeInv, Serve \/ Stop
    PROVE  LifeInv' /\ LifeStep
<1>1. /\ told' = told /\ stage' = stage /\ busy' = busy /\ pend' = pend
      /\ inbox' = inbox /\ carried' = carried
  BY DEF Serve, Stop, endpointVars, managerVars
<1>2. \A r \in results' : r \in results \/ \E m : Tracked(m) /\ r = FailureOf(m)
  <2>1. CASE Serve
    BY <2>1 DEF Serve
  <2>2. CASE Stop
    BY <2>2 DEF Stop
  <2> QED BY <2>1, <2>2
<1>3. ASSUME NEW m, Tracked(m)
      PROVE  /\ FailureOf(m) \in Failure
             /\ FailureOf(m).link \in Outgoing => stage[FailureOf(m).link] = "active"
  BY <1>3, LinksApart DEF Tracked, FailureOf, Failure
<1>4. \A r \in results' : r \in Failure /\ (r.link \in Outgoing => stage[r.link] = "active")
  BY <1>2, <1>3 DEF LifeInv, OutgoingLife
<1>5. NoDeafCall'
  BY <1>1 DEF LifeInv, OutgoingLife, NoDeafCall, Owned
<1>6. OutgoingLife'
  BY <1>1, <1>4, <1>5 DEF LifeInv, OutgoingLife
<1>7. IncomingLife'
  BY <1>1, IncomingApart DEF LifeInv, OutgoingLife
<1> QED BY <1>1, <1>6, <1>7 DEF LifeInv, LifeStep

LEMMA LifeGoesOn ==
    ASSUME LifeInv, [Next]_vars
    PROVE  LifeInv' /\ LifeStep
<1> USE DEF endpointVars, transportVars, managerVars
<1>1. CASE RecvManaged
  BY <1>1, ManagedLife
<1>2. CASE RecvPending
  BY <1>2, PendingLife
<1>3. CASE RecvFailure
  BY <1>3, FailureLife
<1>4. ASSUME NEW l \in Outgoing, RecvTerminal(l)
      PROVE  LifeInv' /\ LifeStep
  BY <1>4, CloseNow DEF RecvTerminal, Terminal, CloseAndTell, Retire, Forget, Owned
<1>5. ASSUME NEW l \in Outgoing, AttemptLost(l)
      PROVE  LifeInv' /\ LifeStep
  BY <1>5, CloseNow DEF AttemptLost, CloseAndTell, Retire, Forget, Owned
<1>6. ASSUME NEW l \in Outgoing, Promote(l)
      PROVE  LifeInv' /\ LifeStep
  BY <1>6, PromoteLife
<1>7. ASSUME NEW l \in Outgoing, RemoteClose(l)
      PROVE  LifeInv' /\ LifeStep
  BY <1>7, CloseNow DEF RemoteClose, Reads, CloseAndTell, Retire, Forget, Owned
<1>8. ASSUME NEW l \in Outgoing, PacketIn(l)
      PROVE  LifeInv' /\ LifeStep
  BY <1>8, PacketLife
<1>9. ASSUME NEW l \in Outgoing, Ignored(l)
      PROVE  LifeInv' /\ LifeStep
  BY <1>9, LifeStill DEF Ignored, Reads
<1>10. CASE Recv
  BY <1>1, <1>2, <1>3, <1>4, <1>5, <1>6, <1>7, <1>8, <1>9, <1>10 DEF Recv
<1>11. CASE TickIdle
  BY <1>11, LifeStill DEF TickIdle
<1>12. ASSUME NEW l \in Outgoing, TickClosed(l)
       PROVE  LifeInv' /\ LifeStep
  BY <1>12, GiveUp DEF TickClosed, Ticks, CloseLater, Retire, Forget, Owned
<1>13. ASSUME NEW l \in Outgoing, TickKeepalive(l)
       PROVE  LifeInv' /\ LifeStep
  BY <1>13, GiveUp, LifeStill DEF TickKeepalive, Ticks, CloseLater, Retire, Forget, Owned
<1>14. ASSUME NEW l \in Outgoing, TickTeardown(l)
       PROVE  LifeInv' /\ LifeStep
  BY <1>14, GiveUp DEF TickTeardown, Ticks, SendFinal, CloseLater, Retire, Forget, Owned
<1>15. CASE Tick
  BY <1>11, <1>12, <1>13, <1>14, <1>15 DEF Tick
<1>16. CASE EndCall
  <2>1. /\ busy # None /\ busy' = None /\ told' = told /\ pend' = pend
        /\ inbox' = inbox /\ carried' = carried
    BY <1>16 DEF EndCall
  <2>2. busy \in Outgoing
    BY <2>1 DEF LifeInv, OutgoingLife
  <2>3. CASE Owned(busy) /\ stage' = [stage EXCEPT ![busy] = "done"]
             /\ results' = {r \in results : r.link # busy}
    BY <2>1, <2>2, <2>3, GiveUp
  <2>4. CASE stage' = stage /\ results' = results
    <3>1. NoDeafCall'
      BY <2>1 DEF NoDeafCall
    <3>2. OutgoingLife'
      BY <2>1, <2>4, <3>1 DEF LifeInv, OutgoingLife
    <3>3. IncomingLife'
      BY <2>1, IncomingApart DEF LifeInv, OutgoingLife
    <3> QED BY <2>1, <3>2, <3>3 DEF LifeInv, LifeStep
  <2> QED BY <1>16, <2>3, <2>4 DEF EndCall, SendFinal, Retire, Forget, Owned
<1>17. ASSUME NEW l \in Outgoing, Send(l, "control") \/ Send(l, "media")
       PROVE  LifeInv' /\ LifeStep
  BY <1>17, LifeStill DEF Send
<1>18. CASE Command
  BY <1>16, <1>17, <1>18, DialLife, AnswerLife DEF Command
<1>19. ASSUME NEW l \in Outgoing, BindingEnds(l) \/ \E e \in Event : Arrive(l, e)
       PROVE  LifeInv' /\ LifeStep
  BY <1>19, LifeStill DEF BindingEnds, Arrive
<1>20. CASE Environment
  BY <1>19, <1>20, FailingLife, ReportLife DEF Environment
<1>21. CASE UNCHANGED vars
  BY <1>21, LifeStill DEF vars
<1> QED BY <1>10, <1>15, <1>18, <1>20, <1>21 DEF Next

-----------------------------------------------------------------------------
EndpointInv == TransportInv /\ LifeInv

LEMMA InitSound == Init => EndpointInv
<1> SUFFICES ASSUME Init PROVE EndpointInv
  OBVIOUS
<1>1. Mailboxes
  BY EmptyFacts DEF Init, Mailboxes, Well
<1>2. \A l \in Outgoing : LinkSound(l)
  BY EmptyFacts DEF Init, LinkSound, Clean, Held, Owned
<1>3. OutgoingLife
  BY LinksApart, EmptySeq DEF Init, OutgoingLife, NoDeafCall, Told
<1>4. IncomingLife
  <2>1. \A c \in Channels : inbox[c] = <<>>
    BY DEF Init
  <2>2. DOMAIN <<>> = {} /\ Len(<<>>) = 0 /\ <<>> \in Seq(Incoming)
    OBVIOUS
  <2>3. \A c \in Channels : \A l : ~Reported(c, l)
    BY <2>1, <2>2 DEF Reported
  <2> QED BY <2>1, <2>2, <2>3, LinksApart DEF Init, IncomingLife, Told, Channels
<1> QED BY <1>1, <1>2, <1>3, <1>4 DEF EndpointInv, TransportInv, LifeInv

LEMMA StepSound ==
    ASSUME EndpointInv, [Next]_vars
    PROVE  EndpointInv' /\ LifeStep
BY TransportStep, LifeGoesOn DEF EndpointInv, LifeInv, OutgoingLife

(* The invariant from which the theorems about the link endpoint follow:   *)
(* what is on its way to the transport (try_advance_outgoing_cleanup), and *)
(* what was told of each link (accept_link_event).                         *)
THEOREM EndpointInvariant == Spec => []EndpointInv
<1>1. Init => EndpointInv
  BY InitSound
<1>2. EndpointInv /\ [Next]_vars => EndpointInv'
  BY StepSound
<1> QED BY <1>1, <1>2, PTL DEF Spec

(* However full its mailbox was, the transport forgets what the endpoint   *)
(* forgot (finish_outgoing_link_locally).                                  *)
THEOREM NothingIsForgotten == Spec => []NothingForgotten
<1>1. EndpointInv => NothingForgotten
  BY Following, FreesFacts DEF EndpointInv, TransportInv, LinkSound, Clean, NothingForgotten
<1> QED BY <1>1, EndpointInvariant, PTL

(* A call is on a link in use, or is told that its link has closed         *)
(* (pending_outgoing_events).                                              *)
THEOREM NoCallIsDeaf == Spec => []NoDeafCall
<1>1. EndpointInv => NoDeafCall
  BY DEF EndpointInv, LifeInv, OutgoingLife
<1> QED BY <1>1, EndpointInvariant, PTL

(* The events of each link tell one life, whatever channels they came by   *)
(* (try_recv_link_event).                                                  *)
THEOREM EndpointImplementsLinkLife == Spec => ImplementsLinkLife
<1>1. Init => Life!Init
  BY DEF Init, Life!Init
<1>2. EndpointInv /\ [Next]_vars => [Life!Next]_told
  <2> SUFFICES ASSUME EndpointInv, [Next]_vars PROVE [Life!Next]_told
    OBVIOUS
  <2> QED BY StepSound DEF LifeStep, Life!Next
<1> QED BY <1>1, <1>2, EndpointInvariant, PTL DEF Spec, ImplementsLinkLife, Life!Spec
=============================================================================
