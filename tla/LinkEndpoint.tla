---------------------------- MODULE LinkEndpoint ----------------------------
(***************************************************************************)
(* TelephonyRnsEndpoint (lxst-telephony, lib.rs): the links of calls, seen *)
(* between the telephone line and the Reticulum transport.                 *)
(*                                                                         *)
(* An outgoing link is registered, requested, bound and finally released   *)
(* again by messages to the transport, through a mailbox that may be full  *)
(* or closed whenever the endpoint wants to send.  What cannot be sent of  *)
(* a release is kept and sent later.  Events come back on many channels:   *)
(* the result of the request, the mailbox of the link, the end of its      *)
(* endpoint, the results of sends and, for incoming links, the four        *)
(* channels of the link manager.                                           *)
(*                                                                         *)
(* The endpoint runs on one task, so each of its methods is one action;    *)
(* the transport and the network take their steps in between.  Both, and   *)
(* the link manager, are modelled from how the endpoint uses them.         *)
(***************************************************************************)
EXTENDS Naturals, Sequences, FiniteSets

CONSTANTS
    Outgoing,       \* links of calls made here: a link id is never used twice
    Incoming,       \* links of calls from others, owned by the link manager
    Cap,            \* the transport mailbox holds so many messages
    MaxMail,        \* bound: unread events of one link
    MaxSends,       \* bound: results of sends not yet polled
    None            \* Option::None

Links == Outgoing \cup Incoming

ASSUME EndpointAssumption ==
    /\ Outgoing \cap Incoming = {}
    /\ IsFiniteSet(Links)
    /\ Cap \in Nat \ {0}
    /\ MaxMail \in Nat /\ MaxSends \in Nat
    /\ None \notin Links

VARIABLES
    stage,          \* of a link: outgoing_attempts, outgoing_links, or neither
    dispatch,       \* dispatch_result of the attempts
    cleanup,        \* pending_outgoing_cleanup: the messages still to send
    pend,           \* pending_outgoing_events: links whose close is to be told
    results,        \* failures polling finds in pending_control/media_results
    busy,           \* the outgoing link the call of the core is on
    told,           \* what the core was told of each link
    queue,          \* the mailbox of the transport
    alive,          \* the transport is running
    registered,     \* link destinations the transport knows
    bound,          \* links it has bound to an interface
    ended,          \* links whose binding it refused or ended
    mail,           \* events on their way to each link
    inbox,          \* the four channels of the link manager
    carried         \* life of an incoming link at the link manager

endpointVars  == <<stage, dispatch, cleanup, pend>>
transportVars == <<alive, registered, bound, ended>>
managerVars   == <<inbox, carried>>
vars == <<endpointVars, results, busy, told, queue, transportVars, mail, managerVars>>

Message  == [type : {"path", "register", "request", "bind", "control", "media",
                     "unbind", "deregister", "final"}, link : Links]
Event    == {"proof", "packet", "teardown", "close"}
Channels == {"established", "identified", "packet", "closed"}
Failure  == [kind : {"control", "media"}, link : Links]

M(type, l) == [type |-> type, link |-> l]

Init ==
    /\ stage = [l \in Outgoing |-> "new"]
    /\ dispatch = [l \in Outgoing |-> "waiting"]
    /\ cleanup = <<>>
    /\ pend = <<>>
    /\ results = {}
    /\ busy = None
    /\ told = [l \in Links |-> "silent"]
    /\ queue = <<>>
    /\ alive = TRUE
    /\ registered = {}
    /\ bound = {}
    /\ ended = {}
    /\ mail = [l \in Outgoing |-> <<>>]
    /\ inbox = [c \in Channels |-> <<>>]
    /\ carried = [l \in Incoming |-> "new"]

-----------------------------------------------------------------------------
(* Sending to the transport: queue and cleanup as values q and c *)

Owned(l) == stage[l] \in {"attempt", "active"}

(* try_send, try_reserve_owned *)
CanSend(q, n) == alive /\ Len(q) + n <= Cap

Room(q) == IF Len(q) < Cap THEN Cap - Len(q) ELSE 0

Atmost(n, s) == IF n < Len(s) THEN n ELSE Len(s)

(* The messages ms go out in order until one meets a full mailbox; nobody  *)
(* reads the mailbox of a transport that is gone.                          *)
Fitting(q, ms) == IF alive THEN q \o SubSeq(ms, 1, Atmost(Room(q), ms)) ELSE q
Waiting(q, ms) == IF alive THEN SubSeq(ms, Atmost(Room(q), ms) + 1, Len(ms)) ELSE <<>>

(* Deliberate fault: flushing drops what meets a full mailbox.             *)
UnflushedOnce == <<>>

(* flush_outgoing_cleanup, the first thing that polling and ticking do *)
Flushed   == Fitting(queue, cleanup)
Unflushed == Waiting(queue, cleanup)

Release(l) == <<M("unbind", l), M("deregister", l)>>

(* finish_outgoing_link_locally, without and with the release *)
Forget(l) ==
    /\ stage' = [stage EXCEPT ![l] = "done"]
    /\ results' = {r \in results : r.link # l}

(* Deliberate fault: a release whose second message finds no room is over. *)
RetireHalf(l, q, c) ==
    /\ Forget(l)
    /\ queue' = Fitting(q, Release(l))
    /\ cleanup' = IF Room(q) = 1 THEN c ELSE c \o Waiting(q, Release(l))

Retire(l, q, c) ==
    /\ Forget(l)
    /\ queue' = Fitting(q, Release(l))
    /\ cleanup' = c \o Waiting(q, Release(l))

-----------------------------------------------------------------------------
(* Telling the core: accept_link_event.  A second close of an incoming     *)
(* link is no news to the core, and so allowed.                            *)

Hear(l, state, event) ==
    IF event = "established" /\ state = "silent" THEN "up"
    ELSE IF event = "closed" /\ state \in {"silent", "up"} THEN "closed"
    ELSE IF event = "closed" /\ state = "closed" /\ l \in Incoming THEN "closed"
    ELSE IF event \in {"identified", "packet"} /\ state = "up" THEN "up"
    ELSE "broken"

Tell(l, event) ==
    /\ told' = [told EXCEPT ![l] = Hear(l, @, event)]
    /\ busy' = IF event = "closed" /\ busy = l THEN None ELSE busy

-----------------------------------------------------------------------------
(* begin_outgoing_link_with_remote_pubkey: three messages, each of which   *)
(* may find the mailbox full.  The core is started after the first, and    *)
(* hears nothing of a failure of the others.                               *)
Dial(l) ==
    /\ stage[l] = "new"
    /\ busy = None
    /\ CanSend(queue, 1)
    /\ busy' = l
    /\ LET asked == Append(queue, M("path", l))
           named == Append(asked, M("register", l))
       IN  \/ /\ ~CanSend(asked, 1)
              /\ queue' = asked
              /\ stage' = [stage EXCEPT ![l] = "failed"]
              /\ UNCHANGED cleanup
           \/ /\ CanSend(asked, 1) /\ ~CanSend(named, 1)
              /\ queue' = Fitting(named, Release(l))
              /\ cleanup' = cleanup \o Waiting(named, Release(l))
              /\ stage' = [stage EXCEPT ![l] = "failed"]
           \/ /\ CanSend(asked, 2)
              /\ queue' = Append(named, M("request", l))
              /\ stage' = [stage EXCEPT ![l] = "attempt"]
              /\ UNCHANGED cleanup
    /\ UNCHANGED <<dispatch, pend, results, told, transportVars, mail, managerVars>>

-----------------------------------------------------------------------------
(* try_recv_link_event: the channels of the manager first, in this order,  *)
(* then try_recv_outgoing_event                                            *)

(* Deliberate fault: closes are read before what came before them.         *)
OrderClosedFirst == <<"closed", "established", "identified", "packet">>

Order == <<"established", "identified", "packet", "closed">>

ManagerQuiet == \A c \in Channels : inbox[c] = <<>>

RecvManaged ==
    /\ \E i \in DOMAIN Order :
          /\ inbox[Order[i]] # <<>>
          /\ \A j \in 1 .. i - 1 : inbox[Order[j]] = <<>>
          /\ Tell(Head(inbox[Order[i]]), Order[i])
          /\ inbox' = [inbox EXCEPT ![Order[i]] = Tail(@)]
    /\ UNCHANGED <<endpointVars, results, queue, transportVars, mail, carried>>

RecvPending ==
    /\ ManagerQuiet
    /\ pend # <<>>
    /\ Tell(Head(pend), "closed")
    /\ pend' = Tail(pend)
    /\ queue' = Flushed
    /\ cleanup' = Unflushed
    /\ UNCHANGED <<stage, dispatch, results, transportVars, mail, managerVars>>

(* poll_outgoing_endpoint_state: the binding was refused or ended, or the  *)
(* transport that held the other ends of its channels is gone              *)
Terminal(l) == stage[l] = "active" /\ (l \in ended \/ ~alive)

CloseAndTell(l) ==
    /\ Retire(l, Flushed, Unflushed)
    /\ Tell(l, "closed")

RecvTerminal(l) ==
    /\ ManagerQuiet /\ pend = <<>>
    /\ Terminal(l)
    /\ CloseAndTell(l)
    /\ UNCHANGED <<dispatch, pend, transportVars, mail, managerVars>>

NoTerminal == \A l \in Outgoing : ~Terminal(l)

(* A failed send closes its link (close_link_owner).  Polling takes every  *)
(* result of a kind off its list and closes the link of one failure only.  *)
(* Controls are polled before media.                                       *)
RecvFailure ==
    /\ ManagerQuiet /\ pend = <<>> /\ NoTerminal
    /\ \E first \in results :
        LET l    == first.link
            kept == {r \in results : r.kind # first.kind /\ r.kind # "control"}
        IN  /\ first.kind = "media" => \A r \in results : r.kind = "media"
            /\ Tell(l, "closed")
            /\ \/ /\ l \in Outgoing
                  /\ stage' = [stage EXCEPT ![l] = "done"]
                  /\ results' = {r \in kept : r.link # l}
                  /\ queue' = Fitting(Flushed, Release(l))
                  /\ cleanup' = Unflushed \o Waiting(Flushed, Release(l))
                  /\ UNCHANGED carried
               \/ /\ l \in Incoming
                  /\ carried' = [carried EXCEPT ![l] = IF @ = "gone" THEN @ ELSE "closing"]
                  /\ results' = kept
                  /\ queue' = Flushed
                  /\ cleanup' = Unflushed
                  /\ UNCHANGED stage
    /\ UNCHANGED <<dispatch, pend, transportVars, mail, inbox>>

PollQuiet == ManagerQuiet /\ pend = <<>> /\ NoTerminal /\ results = {}

(* The request could not be dispatched, or the destination of the link is  *)
(* gone and with it the sender of its mailbox.                             *)
AttemptLost(l) ==
    /\ PollQuiet
    /\ stage[l] = "attempt"
    /\ \/ dispatch[l] = "failed"
       \/ dispatch[l] = "waiting" /\ ~alive
       \/ dispatch[l] = "ok" /\ mail[l] = <<>> /\ ~alive
    /\ CloseAndTell(l)
    /\ UNCHANGED <<dispatch, pend, transportVars, mail, managerVars>>

Reads(l, as, event) ==
    /\ PollQuiet
    /\ stage[l] = as
    /\ dispatch[l] = "ok"
    /\ mail[l] # <<>> /\ Head(mail[l]) = event
    /\ mail' = [mail EXCEPT ![l] = Tail(@)]
    /\ UNCHANGED <<dispatch, transportVars, managerVars>>

(* An authentic proof promotes the attempt, if there is room to bind the   *)
(* link and to answer with the round trip time, and retires it if not: the *)
(* poll ends in an error and the close is told later.                      *)
Promote(l) ==
    /\ Reads(l, "attempt", "proof")
    /\ \/ /\ CanSend(Flushed, 2)
          /\ queue' = Flushed \o <<M("bind", l), M("control", l)>>
          /\ cleanup' = Unflushed
          /\ stage' = [stage EXCEPT ![l] = "active"]
          /\ Tell(l, "established")
          /\ UNCHANGED <<results, pend>>
       \/ /\ ~CanSend(Flushed, 2)
          /\ Retire(l, Flushed, Unflushed)
          /\ pend' = Append(pend, l)
          /\ UNCHANGED <<told, busy>>

(* Closes of a link: the transport's are believed at once, those of the    *)
(* peer only on an active link, which can authenticate them.               *)
RemoteClose(l) ==
    /\ \/ Reads(l, "attempt", "close")
       \/ Reads(l, "active", "close")
       \/ Reads(l, "active", "teardown")
    /\ CloseAndTell(l)
    /\ UNCHANGED pend

PacketIn(l) ==
    /\ Reads(l, "active", "packet")
    /\ Tell(l, "packet")
    /\ queue' = Flushed
    /\ cleanup' = Unflushed
    /\ UNCHANGED <<stage, results, pend>>

(* Anything else is not terminal, in particular not before the proof. *)
Ignored(l) ==
    /\ \/ \E e \in {"packet", "teardown"} : Reads(l, "attempt", e)
       \/ Reads(l, "active", "proof")
    /\ queue' = Flushed
    /\ cleanup' = Unflushed
    /\ UNCHANGED <<stage, results, pend, told, busy>>

-----------------------------------------------------------------------------
(* tick_reticulum: the link's own clock, for one link at a time *)

(* Deliberate fault: a link that ends in a tick ends without a word.       *)
CloseUntold(l) == UNCHANGED pend

CloseLater(l) == pend' = Append(pend, l)

Ticks(l, as) ==
    /\ stage[l] = as
    /\ UNCHANGED <<dispatch, busy, told, transportVars, mail, managerVars>>

(* The attempt timed out, or the active link is stale beyond hope. *)
TickClosed(l) ==
    /\ \/ Ticks(l, "attempt")
       \/ Ticks(l, "active")
    /\ Retire(l, Flushed, Unflushed)
    /\ CloseLater(l)

TickKeepalive(l) ==
    /\ Ticks(l, "active")
    /\ \/ /\ CanSend(Flushed, 1)
          /\ queue' = Append(Flushed, M("control", l))
          /\ cleanup' = Unflushed
          /\ UNCHANGED <<stage, results, pend>>
       \/ /\ ~CanSend(Flushed, 1)
          /\ Retire(l, Flushed, Unflushed)
          /\ CloseLater(l)

(* The last packet carries the release with it; without room for it the    *)
(* release is sent instead, or kept.                                       *)
SendFinal(l, q, c) ==
    \/ /\ CanSend(q, 1)
       /\ Forget(l)
       /\ queue' = Append(q, M("final", l))
       /\ cleanup' = c
    \/ /\ ~CanSend(q, 1)
       /\ Retire(l, q, c)

TickTeardown(l) ==
    /\ Ticks(l, "active")
    /\ SendFinal(l, Flushed, Unflushed)
    /\ CloseLater(l)

TickIdle ==
    /\ cleanup # <<>>
    /\ queue' = Flushed
    /\ cleanup' = Unflushed
    /\ UNCHANGED <<stage, dispatch, pend, results, busy, told, transportVars, mail, managerVars>>

-----------------------------------------------------------------------------
(* What the core has the endpoint do *)

(* execute_command with a signal or the identification, and                *)
(* queue_packed_media_packets.  Without room the caller gets an error, or  *)
(* the packet is counted as dropped.                                       *)
Send(l, kind) ==
    /\ stage[l] = "active"
    /\ busy = l
    /\ CanSend(queue, 1)
    /\ queue' = Append(queue, M(kind, l))
    /\ UNCHANGED <<endpointVars, results, busy, told, transportVars, mail, managerVars>>

(* execute_signalling_batch, for the answer of an incoming call: both      *)
(* signals or neither                                                      *)
Answer(l) ==
    /\ carried[l] = "up" /\ told[l] = "up"
    /\ carried' = [carried EXCEPT ![l] = "answered"]
    /\ CanSend(queue, 2)
    /\ queue' = queue \o <<M("control", l), M("control", l)>>
    /\ UNCHANGED <<endpointVars, results, busy, told, transportVars, mail, inbox>>

(* The core ends its call: execute_command with TeardownLink, which is     *)
(* refused as unknown when the endpoint no longer owns the link.           *)
EndCall ==
    /\ busy # None
    /\ busy' = None
    /\ \/ stage[busy] = "attempt" /\ Retire(busy, queue, cleanup)
       \/ stage[busy] = "active" /\ SendFinal(busy, queue, cleanup)
       \/ ~Owned(busy) /\ UNCHANGED <<stage, results, queue, cleanup>>
    /\ UNCHANGED <<dispatch, pend, told, transportVars, mail, managerVars>>

-----------------------------------------------------------------------------
(* The transport: it serves its mailbox in order *)

(* The sender of a control or media packet learns what became of it, if    *)
(* its link was not retired meanwhile.                                     *)
Tracked(m) ==
    /\ m.type \in {"control", "media"}
    /\ m.link \in Incoming \cup {l \in Outgoing : stage[l] = "active"}

FailureOf(m) == [kind |-> m.type, link |-> m.link]

Serve ==
    /\ queue # <<>>
    /\ LET m == Head(queue)
       IN  /\ registered' = IF m.type = "register" THEN registered \cup {m.link}
                            ELSE IF m.type \in {"deregister", "final"} THEN registered \ {m.link}
                            ELSE registered
           /\ \/ /\ m.type = "bind"
                 /\ \/ bound' = bound \cup {m.link} /\ UNCHANGED ended
                    \/ ended' = ended \cup {m.link} /\ UNCHANGED bound
              \/ /\ m.type # "bind"
                 /\ bound' = IF m.type \in {"unbind", "final"} THEN bound \ {m.link} ELSE bound
                 /\ UNCHANGED ended
           /\ \/ m.type = "request" /\ \E r \in {"ok", "failed"} :
                                            dispatch' = [dispatch EXCEPT ![m.link] = r]
              \/ m.type # "request" /\ UNCHANGED dispatch
           /\ \/ UNCHANGED results
              \/ /\ Tracked(m) /\ Cardinality(results) < MaxSends
                 /\ results' = results \cup {FailureOf(m)}
    /\ queue' = Tail(queue)
    /\ UNCHANGED <<stage, cleanup, pend, busy, told, alive, mail, managerVars>>

(* A binding ends: the interface is gone. *)
BindingEnds(l) ==
    /\ l \in bound
    /\ bound' = bound \ {l}
    /\ ended' = ended \cup {l}
    /\ UNCHANGED <<endpointVars, results, busy, told, queue, alive, registered,
                   mail, managerVars>>

(* The transport stops, and every send that waited in its mailbox fails. *)
Stop ==
    /\ alive
    /\ alive' = FALSE
    /\ queue' = <<>>
    /\ registered' = {}
    /\ bound' = {}
    /\ results' = results \cup {FailureOf(queue[i]) : i \in {j \in DOMAIN queue : Tracked(queue[j])}}
    /\ UNCHANGED <<endpointVars, busy, told, ended, mail, managerVars>>

(* The network, through the destination of a link.  No proof comes before  *)
(* the request has left.                                                   *)
Arrive(l, event) ==
    /\ l \in registered
    /\ Owned(l)
    /\ event = "proof" => dispatch[l] = "ok"
    /\ Len(mail[l]) < MaxMail
    /\ mail' = [mail EXCEPT ![l] = Append(@, event)]
    /\ UNCHANGED <<endpointVars, results, busy, told, queue, transportVars, managerVars>>

(* The link manager, which puts each event of an incoming link into the    *)
(* channel of its kind.  It may also report the close of a link that the   *)
(* endpoint had it close.                                                  *)
Report(l, from, to, channel) ==
    /\ carried[l] \in from
    /\ Cardinality({c \in Channels : inbox[c] # <<>>}) < MaxMail
    /\ inbox[channel] = <<>>
    /\ inbox' = [inbox EXCEPT ![channel] = Append(@, l)]
    /\ carried' = [carried EXCEPT ![l] = IF to = "same" THEN @ ELSE to]
    /\ UNCHANGED <<endpointVars, results, busy, told, queue, transportVars, mail>>

Manage(l) ==
    \/ Report(l, {"new"}, "up", "established")
    \/ Report(l, {"up", "answered"}, "same", "identified")
    \/ Report(l, {"up", "answered"}, "same", "packet")
    \/ Report(l, {"up", "answered", "closing"}, "gone", "closed")

-----------------------------------------------------------------------------
Recv ==
    \/ RecvManaged \/ RecvPending \/ RecvFailure
    \/ \E l \in Outgoing : \/ RecvTerminal(l) \/ AttemptLost(l) \/ Promote(l)
                            \/ RemoteClose(l) \/ PacketIn(l) \/ Ignored(l)

Tick ==
    \/ TickIdle
    \/ \E l \in Outgoing : TickClosed(l) \/ TickKeepalive(l) \/ TickTeardown(l)

Command ==
    \/ EndCall
    \/ \E l \in Outgoing : Dial(l) \/ Send(l, "control") \/ Send(l, "media")
    \/ \E l \in Incoming : Answer(l)

Environment ==
    \/ Serve \/ Stop
    \/ \E l \in Outgoing : BindingEnds(l) \/ \E e \in Event : Arrive(l, e)
    \/ \E l \in Incoming : Manage(l)

Next == Recv \/ Tick \/ Command \/ Environment

(* The transport serves its mailbox, and the endpoint, which flushes first *)
(* whenever it polls or ticks, does so now and then while there is room.   *)
Fairness == WF_vars(Serve) /\ SF_vars(TickIdle)

Spec == Init /\ [][Next]_vars /\ Fairness

-----------------------------------------------------------------------------
(* Properties *)

TypeOK ==
    /\ stage \in [Outgoing -> {"new", "attempt", "active", "failed", "done"}]
    /\ dispatch \in [Outgoing -> {"waiting", "ok", "failed"}]
    /\ cleanup \in Seq(Message)
    /\ pend \in Seq(Outgoing)
    /\ results \subseteq Failure
    /\ busy \in Outgoing \cup {None}
    /\ told \in [Links -> {"silent", "up", "closed", "broken"}]
    /\ queue \in Seq(Message)
    /\ alive \in BOOLEAN
    /\ registered \subseteq Outgoing
    /\ bound \subseteq Outgoing
    /\ ended \subseteq Outgoing
    /\ mail \in [Outgoing -> Seq(Event)]
    /\ inbox \in [Channels -> Seq(Incoming)]
    /\ carried \in [Incoming -> {"new", "up", "answered", "closing", "gone"}]

(* What gives a link something to release, and what releases it *)
Takes == {"register", "bind"}
Frees(type) == IF type = "register" THEN {"deregister", "final"} ELSE {"unbind", "final"}

Held(type, l) == IF type = "register" THEN l \in registered ELSE l \in bound

Sent(ms, type, l) == \E i \in DOMAIN ms : ms[i] = M(type, l)

(* A release of the kind is on its way, behind everything it releases. *)
ReleaseFollows(type, l) ==
    \/ \E f \in Frees(type) : Sent(cleanup, f, l)
    \/ \E j \in DOMAIN queue :
          /\ queue[j].link = l /\ queue[j].type \in Frees(type)
          /\ \A i \in DOMAIN queue : queue[i] = M(type, l) => i < j

(* A link that the endpoint forgot is not forgotten by the transport for   *)
(* ever: whatever it was or will be given is released behind it, however   *)
(* full the mailbox was; and a link still owned is not being released.     *)
NothingForgotten ==
    \A l \in Outgoing, type \in Takes :
        IF Owned(l)
        THEN \A f \in Frees(type) : ~Sent(queue, f, l) /\ ~Sent(cleanup, f, l)
        ELSE Held(type, l) \/ Sent(queue, type, l) => ReleaseFollows(type, l)

(* The call of the core is on a link that the endpoint still owns, or the  *)
(* close of that link is about to be told; the only exception is a dial    *)
(* that failed behind the core's back.                                     *)
NoDeafCall ==
    busy # None => \/ Owned(busy)
                   \/ \E i \in DOMAIN pend : pend[i] = busy
                   \/ stage[busy] = "failed"

(* The events of each link tell one life, whatever channel they come by.   *)
Life == INSTANCE LinkLife
ImplementsLinkLife == Life!Spec

(* A link the endpoint no longer owns ends up unknown to the transport.    *)
Released == \A l \in Outgoing :
    ~Owned(l) /\ Held("register", l) ~> ~Held("register", l) /\ ~Held("bind", l)
=============================================================================
