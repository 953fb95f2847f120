# Verification of rsLXST

TLA+ models of rsLXST, the Rust implementation of LXST telephony over
Reticulum, with TLC runs that check them on small instances and TLAPS proofs of
their main invariants. Definitions keep the source's names where they can;
`PROJECT.json` maps each to the lines it translates.

## The system

| Part | Where | State | Operations |
|---|---|---|---|
| Call transitions | `lxst-core/src/shared/telephony.rs` | role, status, profile, answered | one per local operation and per signal; each returns up to four ordered actions |
| Telephone line | `lxst-telephony/src/lib.rs`, `TelephonyRuntimeCore` | access policy, external busy, pending links, parsed links (ingress), active call | link events, packets, dial, answer, retry, switch, hang up, shut down; each returns commands |
| Service | `lib.rs`, `TelephonyService` | core, endpoint, media, discovery, answering and call timers | event loop over controls, discovery results, link events, timers |
| Link endpoint | `lib.rs`, `TelephonyRnsEndpoint` | link manager, outgoing attempts and links, pending results, cleanup queue | executes commands, turns transport events into link events, ticks |
| Push-to-talk gate | `capture_gate.rs` | serial, start, lease, blocked | update, allows, close, from two threads |
| Media streams | `media.rs`, stream pump in `lib.rs` | encoder, decoder, transmit and receive stream | start, stop, pump, deliver |
| Embedded session | `lxst-embedded/src/session.rs` | call, gates for peer, device and microphone, deadlines | one per event of the embedder; each returns up to eight events |
| Embedded media queue | `queue.rs` | ring of three slots, counters | push, pop, clear |
| Frame streams | `lxst-core/src/stream.rs`, `codec2.rs`, `lxst-rns` | packetizer, stream state, jitter buffer, codec | push, drain, send, receive, pop |
| Wire format | `wire.rs` of `lxst-core` and of `lxst-embedded` | none | encode, decode |
| Codecs | `opus.rs`, `raw.rs`, `lxst-codec2` | Opus none of its own; native Codec2 remembers one frame | encode, decode |
| API snapshots, tools, interop scripts | `tools/`, workflows, scripts | none | build and test tooling |

A service owns one line and one endpoint. The endpoint turns Reticulum's events
into link events; the line turns these, and the application's controls, into
commands; the endpoint sends what is to be sent and the service publishes the
rest as events, which are the application's only view of its calls. Each
transition of the active call is a `CallState` transition. A microcontroller
runs `Session` in place of line and service, around the same `CallState`.

What is hard: signals travel in link packets that are neither acknowledged nor
sequenced, so they are lost, late and reordered; the events of different links
come through different queues and outlive their link; every call must end at
both ends although either may disappear; the microphone of an embedded device
must not run by accident; two threads share the push-to-talk gate.
`PROJECT.json` lists these hazards at their lines with the properties that
cover them; where the code does what one would fear, or a run assumes it away, the
hazard's note says so.

## Modules

| Module | What it is |
|---|---|
| `CallState` | the call transitions, as pure operators on a call record |
| `RuntimeCore` | the methods of the line, as pure operators on a core record |
| `OneCall` | abstract: what a line promises the application, call by call |
| `TelephoneLine` | one core driven by everything that can reach it |
| `CallHandshake` | two cores, the network between them, and the service's timers |
| `TelephonyService` | one core, its endpoint and timers, and the application, between batches of link events |
| `LinkLife` | abstract: the events of each link tell one life |
| `LinkEndpoint` | the endpoint between the core and a transport whose mailbox is bounded |
| `FramePath` | voice frames from an encoder through packets and a jitter buffer to a decoder |
| `TransmitGate` | the push-to-talk gate between two threads |
| `FrameFifo` | abstract: a bounded queue of perishable frames |
| `MediaQueue` | the embedded ring |
| `EmbeddedSession` | the methods of `Session`, as pure operators on a session record |
| `EmbeddedCall` | one session, its device and its worker, an arbitrary peer |
| `EmbeddedPair` | a caller and an embedded callee negotiating their profile |
| `ByteReader`, `WireTypes` | what the parsers of bytes, and the two wire formats, have in common |
| `DeviceWire`, `HostWire` | the bounded MessagePack of the device, and that of the host |
| `OpusPacket`, `OpusAgreement` | how a profile's frame is cut, framed and parsed, and what parsers and writer must agree on |
| `Codec2Bits`, `Codec2Lsps`, `Codec2Frames` | native Codec2: bit strings, line spectral pairs, the frames of a stream |
| `Codec2Search` | native Codec2: the vector search of mode 700C |
| `KissFft` | native Codec2: its Fourier transforms |
| `CallProofs` | theorems and lemmas on the call transitions and on the methods of the line, used by the next four |
| `TelephoneLineProofs`, `CallHandshakeProofs`, `TelephonyServiceProofs`, `MediaQueueProofs`, `LinkEndpointProofs` | theorems about the machine they are named for |
| `EmbeddedProofs` | theorems about `EmbeddedCall` and `EmbeddedPair`, with what the methods of a session do |
| `HostMediaProofs` | theorems about `TransmitGate`, `FramePath` and `OpusAgreement` |
| `MC...` | constants for TLC; `MCFormats` grows the samples the formats are compared on |

A module of pure operators returns a record of the state after and what the
code returns: actions, commands or events, in order. The machines apply it in
one action per operation and fold what was returned into the state of those who
carry it out. `Deliberate fault` definitions are variants of the code with one
plausible mistake; each property fails for one of them, which shows that it
depends on the code. No specification uses them.

### TelephoneLine

`core` is the Rust struct; `ingress` keeps only which links are parsed, and
`access` only which identities are admitted. `wire[l]` is the life of link `l`
at the endpoint: an incoming link belongs to the link manager, whose channels
still hold its events after it was torn down (`"closing"`); an outgoing link's
queue dies with it. `phase[l]` is what the application was told
(`RingIncomingCall` or `OutgoingCallStarted` begin a call, `CallTerminated` ends
it), `audio[l]` what its pipelines were told. Peers send any signal at any time,
in packets of up to two signals (`MaxSignals`); the second acts on what the
first left. The order in which shutdown tears pending links down is any order,
as the code drains a hash set.

### CallHandshake

The caller has dialled and its link is up. Each signal is a packet of its own,
as `execute_signalling_batch` sends them. `flight[side]` is a set: messages
arrive in any order or never, and a repetition of one still on its way is not
counted twice (a receiver sees a repetition when the first was delivered).
`AnswerRetry`, `AnswerExpires`, `RingExpires` and `DialExpires` are the
service's timers; when each fires is left open, which covers every setting of
their durations. The callee may be busy, or refuse the caller. `timed` says whether the
callee has an answer timeout, `switching` whether the last profile switch is
undisturbed: asked for while both sides talk and no profile signal is under way, and
followed by no other and no loss.

### TelephonyService

The service runs one handler at a time, so a control, a due timer or a finished
discovery is one action. A drive is several: `Drive` handles one link event and
holds back what the application is to hear of it, `PublishOne` and `EndDrive`
follow when the endpoint has run dry, and a step that fails ends the drive and
drops what was held, as `?` does in `try_drive_ready`. `told[l]` is the
application's idea of the call on link `l`, `dialling` of its last dial and
`onAir` of its streams; each becomes `"broken"` when an event does not fit.

`Outcomes` is how a list of commands can end: all carried out, or a first one
refused, with the teardowns before it done. Which refusals and which unruly
events may happen is the constant `Disorders`, so that one module states what
holds in an orderly environment, what holds in any, and what each disorder
breaks. `wire[l]` is richer than in `TelephoneLine`: a `"dropped"` link is gone
from the link manager with its events still queued, and a `"retired"` one was
given up by the endpoint, with its `LinkClosed` queued. That the link manager no
longer owns a link it has closed is an assumption on rsReticulum, as is a
discovery that ends: the query of a path's length has no time limit of its own.

Left out: announces, changes of the access policy (`TelephoneLine` has them),
encoding and frame counts, and the early returns for an application that dropped
its event channel. The messages that retire an outgoing link at the transport
are not part of what the service sees; `LinkEndpoint` has them.

### LinkEndpoint

`stage`, `dispatch`, `cleanup`, `pend` and `results` are the endpoint's maps and
queues, reduced to what is asked of them: `stage[l]` says in which of
`outgoing_attempts` and `outgoing_links` the link is, `cleanup` is
`pending_outgoing_cleanup`, `pend` is `pending_outgoing_events`. The rest is the
environment: `queue` is the mailbox of the transport, of `Cap` messages, which the
transport empties when it likes or not at all (`alive`); `registered`, `bound` and
`ended` are what it knows of each link; `mail` and `inbox` hold the events on their
way, per outgoing link and per channel of the link manager; `carried` is the link
manager's view of an incoming link. `told` and `busy` are what the core was told and
which link its call is on.

The methods run on one task, so each is one action, all the sends of a handler
included; that the transport may make room between two `try_send`s of one handler is
left out. The tick is taken
one link at a time. Failed sends are a set, so any of them may be polled first.
How a binding ends, refused or with its endpoint, is one event (`ended`). The
message sent last, at an orderly end, is released by the transport itself when it
is handled, as the test at `tests.rs:3715` expects. The `select!` of
`recv_link_event` (it only wakes the same polling) and the counters of dropped media
are left out.

### FramePath

A frame is a number with a profile; what can be told apart of it is its codec, its size
and the native frames it is made of. The encoder and the decoder count the native frames
they have processed, so that one stopped inside a packet shows, and latch `failed` as
`Codec2PacketCodec` does. The packetizer cuts a batch into packets of `Batch` frames;
one that does not fit `Mdu`, or a link that is not active, fails the whole batch before
anything of it is sent. The network loses and reorders packets. The jitter buffer has
both drop policies. `view` follows the events of the stream, `fate` counts how frames
ended. Raw frames have the shape of Opus frames here.

### The formats

`DeviceWire` and `HostWire` translate both decoders and both encoders of the wire
format over bytes: the reader of the device stops at the first error and counts fields,
depth and sizes; the host reads a MessagePack value first (rmpv, modelled from its use)
and then looks for what it knows. Numbers are cut off at `Huge`, and the tag 0xc1, which
MessagePack leaves unused, does not occur.

`OpusPacket` has the layouts of the profiles, the budget of each subframe, the code 3
packet that joins them, and both parsers. What opus-rs produces is any bytes within the
budget, with the first subframe's TOC. The parser's ceiling of 61440 bytes is beyond the
samples of the run. The loops of the parsers are written for proof: the end of the padding
is the first byte behind it that is not 255, the lengths read so far are a recursive function of their
number, and frames are cut at the sums of their lengths.

Of native Codec2 the models have what is discrete: `Codec2Bits` the fields, their
quantisation and packing in Gray code; `Codec2Lsps` the scalar quantisers of line
spectral pairs, by difference and one by one, their order and separation, in quarters of
a hertz; `Codec2Frames` what an encoder sends of its subframes and what a decoder makes of
a frame and its memory, with pitch and energy in the units of their quantisers and, for
700C, a number for a vector; `Codec2Search` the search of two codebooks with survivors and
early exits, of which `MCFormats` uses a small instance (2 survivors, groups of one term).
`KissFft` computes in the Gaussian integers modulo 3583, a field with a root of unity of
order 512, in place of floats: the algorithm uses no more than the laws of a field, and
its rounding is what the model leaves out. A transform is linear, so its values on
impulses determine it.

### TransmitGate

The interface numbers its edges; `edges` says which are presses. Any edge sent
so far may arrive at any time, again and again: the first arrival of a press is
the press, later ones are renewals. Both threads read the clock before they take
the lock, so an operation's time may be up to `Skew` old. `released`, `expired`,
`opened` and `renewed` are history, read only by the properties.

### MediaQueue

A frame is a serial number, its size, its deadline and its generation; a reader
has room for some sizes, or for none. The number of slots is the constant `Capacity`.
Retiring a slot erases it, as in the code. `got` is what the last pop
asked for, had room for and was handed, which the refinement compares: a reader goes
away empty only if no frame is worth playing or the first that is does not fit.
`taken`, `pushed` and `flushed` are history.

### EmbeddedSession, EmbeddedCall, EmbeddedPair

The code keeps absolute times and is handed the present with each call; the
model keeps what is left of each time, in ticks, and `Elapsed` takes one off
all. That makes time unbounded and the state space finite. The audio generation
wraps (`Generations` stands for 2^32).

In `EmbeddedCall` the peer signals anything, a worker configures the device for
the profile of the moment, one job after the other and as late as it likes, and
`mic` folds the session's capture orders as the device does. The worker is at
most `MaxJobs` behind, fewer than there are generations, so that no report is
late by a whole round: the one assumption on the embedder besides ticking the
session once in every tick of the clock.

In `EmbeddedPair` the link delivers in order and loses nothing, the setting in
which `tests/session.rs` claims that crossed offers converge; the model claims it
also of a side that suggested a profile and still waits to have it confirmed.
The caller is an embedded session or a host that runs the bare `CallState`.

## Runs

| Run | Module, cfg | Shows |
|---|---|---|
| `line` | `MCTelephoneLine` | the ledger, audio, link and ingress invariants of one line; statuses never regress; the line implements `OneCall` (`PromiseKept`) |
| `handshake` | `MCCallHandshake` | whoever talks, talks to somebody; undisturbed switches agree; no one-sided call, nobody waits for ever; retries alone recover every loss |
| `service` | `MCTelephonyService` | application, clocks and streams agree with the core between handlers; each dial has one outcome, of a discovery of its identity and profile or of a cancellation; set-up ends, whatever peers signal |
| `service_disorderly` | `MCTelephonyService`, `ServiceDisorderly.cfg` | what holds although everything may fail: complete answers, no cross-talk |
| `phantom_dial` | `MCTelephonyService`, `PhantomDial.cfg` | the finding, below |
| `link_endpoint` | `MCLinkEndpoint` | what a retired link took from the transport is released behind it and in the end; no call is deaf to its link's end; the endpoint implements `LinkLife` |
| `frame_path` | `MCFramePath` | every frame is accounted for once and played in the order of arrival; no codec goes on after it stopped inside a packet; codec changes are announced |
| `media_queue` | `MediaQueue` | accounting and erasure; the ring implements `FrameFifo`: order, freshness, nothing good forgotten or kept from a reader with room |
| `transmit_gate` | `TransmitGate` | releases and the close fence, expiry needs a release, talk is bounded |
| `embedded_call` | `MCEmbeddedCall` | who may open the microphone and when it closes; stale configurations; a fresh press after each interruption; deadlines resolve |
| `embedded_pair` | `MCEmbeddedPair` | crossed offers meet, compatible devices never refuse one another, and echoes end |
| `formats` | `MCFormats` | `WireAgrees`: host and device on the wire format; `OpusAgrees`: both parsers and the writer of Opus packets; `Codec2Agrees`: bits and subframes of Codec2; `QuantisersAgree`: the searches and quantisers; `TransformsAgree`: the transforms |

### Bounds

- `line`: three links, so that a second call, a pending link and a stale link can
  coexist with the active one; two callers of whom one may be blocked; two profiles, so
  that a switch and a repetition differ. Links are symmetric. The theorems below lift
  every bound but the two signals per packet.
- `handshake`: one link, two profiles, one caller, with and without an answer timeout.
  Retries are unbounded because repetitions of a message on its way are one message.
- `service`: two links, so that a call or a ringing link can stand beside the active
  one; a dial with and one without a profile, two discoveries of each under way (one
  dial, once, in `service_disorderly`), so that a cancelled one can finish after its
  successor began; a timer due after one tick. Packets carry one signal. The orderly
  runs keep the disorder "batch", which the code handles.
- `link_endpoint`: one outgoing and one incoming link. A mailbox of three holds the
  messages of one dial, the longest a handler sends, so that each of them, and either
  half of a release, can meet it full; two events in the mail of a link and one unread
  result of a send make failures and closes overtake one another. An instance with two
  outgoing links and no incoming one satisfies the safety properties as well.
- `frame_path`: two Codec2 profiles of two native frames each, which are symmetric, and
  an Opus profile of which two frames exceed a packet (`Mdu` 3, two frames per packet);
  three frames, two packets under way, a buffer of two: it overflows, and packets
  overtake one another, under either policy.
- `formats`: six pieces of a wire packet, among them runs that exceed the device's depth
  and the size of a short string; three items added to an empty packet or to one that is
  one signal short of its limit; five pieces of an Opus packet; two fields, or two gaps,
  set apart; two frames of speech, which suffice because the memory of a decoder is one
  frame; all impulses of the sizes 128 and 512.
- `media_queue`: five frames through three slots wrap the ring and overflow it twice, and
  frames of two sizes meet readers with room for none, one or both;
  deadlines up to two ticks and two generations make frames expire and go stale in every
  position.
- `transmit_gate`: four edges of either kind, a lease of 2, a burst of 4, a skew of 1
  and a clock of 7: a press may be renewed past its lease and reach the burst limit, and
  another may follow.
- `embedded_call`: three profiles of which the device supports two, both roles, with and
  without a microphone; an answer time of five ticks outlasts the three retries, one
  tick apart.
- `embedded_pair`: every set of supported profiles out of three and every preference for
  the caller; the callee prefers one profile, which by symmetry stands for all; a host
  dials with any profile or none.

`CHECK_DEADLOCK FALSE` stands where the system may really stop: a call that is
over, a service that was shut down, a queue or a gate whose clock reached its bound.

### Fairness

- `handshake` states its fairness as the antecedent of each property. `TimersFire` (with
  an answer timeout): a timer that stays due fires, because both service loops tick
  for ever (`run` polls at least every poll period); a side whose peer closed the link
  is told, as Reticulum's close packet or keepalive does. No message is assumed to
  arrive. `RetriesArrive` (without an answer timeout, which would be a second way out):
  retries are sent, and of infinitely many CONNECTING or ESTABLISHED on their way one is
  delivered (strong fairness: the network is lossy, not cut).
- `service`: the clock ticks and a drive ends, because events are drained
  faster than peers send them (weak fairness); a due timer or a finished
  discovery that is ready again and again is served (strong fairness), because
  `select!` picks among ready branches at random.
- `link_endpoint`: a transport that runs reads its mailbox (weak fairness); the
  endpoint's idle tick is taken again and again between other events (strong fairness),
  since the service ticks it once in every turn of its loop.
- `embedded_call`: the embedder ticks the session and time passes.
- `embedded_pair`: what is on its way is delivered, in both directions.

## Proofs

`TelephoneLineProofs` proves `TypeOK`, `LedgerExact`, `AudioFollowsCall`,
`NoOrphanLink`, `ActiveCallHears` and `StatusNeverRegresses` of `TelephoneLine`
for any sets of links, identities, profiles and policies, and that the line
implements `OneCall` (`LineImplementsOneCall`). The assumption on the
constants is `OrderlyPackets`: no packet carries a signal behind one that ends
the call (the end of "Findings" says why it is necessary). (`Links` is finite, so that a
shutdown can enumerate the pending ones.)

None of these is inductive alone. The invariant `IInv` joins them with
`Bookkeeping`: an unused link is unknown to the core and was never announced,
a pending link is parsed and was never announced, only pending links and the
active one are parsed, a link requested but not up belongs to an outgoing
call, and audio that runs belongs to an established call. `Bookkeeping` is what
excludes that a call is announced twice (a link that
begins a call was never announced) and that a link is forgotten (a link dropped
from `pending` is torn down or becomes active).

The argument has three layers. The first, in `CallProofs`, says what any call transition
does: the call stays typed, its status never falls, it opens or starts audio only
if it is answered or outgoing, it stays answered (`Forward`), and it fits the
action list (`ActionsFit`). The second, also there, says what shape the result of each
method of the core has: it changes nothing, continues the call, ends it, or
begins one, and what it commands. The third shows that each kind preserves `IInv`, and
that each action of `TelephoneLine` is of one kind; for the refinement, that each kind is
a step of `OneCall` on the line's call or leaves what `OneCall` sees.

`CallHandshakeProofs` proves `TalkIsMutual` and `SwitchAgreement` for any profiles and
policies, whatever the network loses, delays or reorders. Its invariant is about
messages as much as about states (`Founded`): a CONNECTING or ESTABLISHED under way to the
caller, or a caller beyond it, means that the callee answered; an ESTABLISHED under way to
the callee, or a callee that talks, means that the caller connected; in each case unless
that other end is closed by now. As signals are never withdrawn, what founds them must
not be either: `CallProofs` has that an answered call stays answered and a status never
falls, and an end that closes never reopens. `Tidy` adds that during an undisturbed switch
either no profile is under way and both sides have the same, or exactly the
profile of one side is on its way to the other.

`TelephonyServiceProofs` has two parts. `ServiceSturdy`, `AnswersOffered` and
`NoFrameCrosses` hold of the service whatever is refused and however a drive fails: every
subset of `Disorders`, every packet. Beside the type their invariant (`Sturdy`) has
that an answered call was offered whole and, for `NoCrossTalk`, `Foreign`: a call that the
transmit stream is not of cannot become established before a refresh. `DialsSettled` needs no
invariant but the type. The second part assumes `Undisturbed`: nothing is refused but
the signals of an answer, and packets are orderly. The configuration of `service`
satisfies it, and with any single disorder more TLC finds a violation on that instance: of
`CallsTold`, or of `LoopAgrees` for `audio` and `encode`. Then `CallsTold`, `EveryCallTimed`
and `LoopAgrees` hold (`AllCallsTold`, `AllCallsTimed`, `LoopInStep`). `CallsTold` speaks of
a service at rest, and events wait in `held` while it drives, so the invariant
says what the application knows *and will hear* (`Story`): a call the core has was
announced or its announcement is held, an end that is held stands behind its beginning, nothing is
held twice. `Wired` says that the endpoint owns the links the core speaks to;
`Refreshed` that timer, retry and streams are what a refresh would make of them between
drives; `Echoing` that a call which awaits an echo is the one whose answer is repeated.

`EmbeddedProofs` proves `MicNeedsAuthority`, `DeviceAgrees` and `FreshPressOnly` for any
profiles, configurations and times, and for any peer. The invariant joins three
arguments. `MicFollows`: the device captures exactly while the session believes it does, which
needs authority. `TalkTimed`: time on air and what is left of the
talk limit add up to no more than the limit. `JobsInStep`: the generations of the worker's
jobs are consecutive, the last being the session's own; as there are fewer jobs than
generations, a job that reports success for an older profile is never taken for the current
one, although generations wrap. `Generations` stands for 2^32 and `MaxJobs` for
the jobs an embedder lets wait: that fewer jobs wait than there are generations is the
assumption (`DeviceAssumption`) under which the code's comparison is sound. The limit is
positive (`session.rs:9`): with 0 a press would transmit for as long as no tick
comes. `EventsFit` is the assertion in `Events::push`: from states the session reaches, no method emits
more than eight events.

It also proves `OffersMeet` of `EmbeddedPair` (`ProfilesMeet`) for any profiles,
configurations and times, and a caller of either kind. What crosses on the two channels need not be
described signal by signal: each side offers at most twice, so it is enough to count
how often each offered and how many of these offers the other has heard. The rest is
on its way, in order (`Carries`). `Negotiated` says which profile each side
calls for, and waits for, at each count; `Before` and `During` place this in the course of the call, up
to the callee's answer and from it on. When nothing is on its way each side has heard all
the other offered, and at those counts both call for the same profile. That
compatible devices do not refuse one another needs less: a session only ever names the profile it prefers
or one it was offered (`OnlyPreferred`). What a method's events put on
the channel is a recursive function over their places; that it is what it should be for
any number of events is shown with the least place where it is not, since induction
theorems cannot be used.

`MediaQueueProofs` proves `NothingUncounted`, which is inductive as it stands, for any
capacity of the ring (a constant of the module; the code's is three), any sizes of frames
and buffers, generations and deadlines, and from it the refinement
`ImplementsFifo`. `HeldShift` is its pivot: it says what the sequence of held
frames becomes when the head of the ring moves, through the remainders that
`RingWalk` computes. That a reader stops at the first good frame needs a least number
among any numbers (`LeastNatural`).

`HostMediaProofs` proves `ReleaseFences`, `ExpiryNeedsRelease` and `TalkIsBounded` for
any lease, burst, skew, clock and number of edges. `UpdateIs` first reduces an update to
its seven outcomes. The invariant `GateInv` then says that a press in force is the newest
edge that arrived (`PressInForce`), that its lease is no longer than its last renewal
allows (`LeaseKept`), that what a release or a close fenced off stays fenced (`Fenced`),
and that an expiry which was observed is remembered (`Remembered`).

It also proves `FrameLedger` and `CodecsInStep` of `FramePath` (`FramesAccounted`,
`CodecsKeepStep`), for any batches, profiles, flight and buffer. The ledger says where a frame is:
not yet packed, in a packet under way, in the jitter buffer, or ended. The invariant adds that
serial numbers below the next one are used up and no other is anywhere, so that the packets of a
batch are new to the network; the frames of the batch and the places in its packets
are counted by a bijection. What the receiver does with a packet is a recursive
function over its frames, and what holds after each frame is shown, as above, with the least frame
for which it would not.

Third, it proves `OpusAgrees` (`OpusFramesAgree`) of any bytes as a packet and any sizes of
subframes within their budgets, where the run has a few (`OpusSample` says what a sample
is). Both parsers accept the same packets, whichever way padding and lengths are laid out, but for
empty frames of constant rate, which only the general one takes. `LengthsBehind` is what
holds of the lengths read so far: their bytes lie one behind the other in the packet, as the writer
would push them. `FramesFill` is what holds of the frames then cut: with their
lengths they fill the payload, so that nothing of the packet is lost. For the writer it is enough to
look at three subframes of at most 251 bytes, since every profile has one or three
(`ProfileLayouts`) and no budget is larger.

`LinkEndpointProofs` proves `NothingForgotten`, `NoDeafCall` and the refinement of
`LinkLife` for any number of links, any mailbox and any failure of the transport. The
invariant has two halves. `TransportInv` is about what is on its way: a link that is
owned has nothing of its release queued, one that is not has its release behind
everything it took, and `cleanup` holds nothing that would take something for a link. Most
steps only move messages from `cleanup` to the mailbox, or add some that take nothing;
`MovingSound` settles these at once. `LifeInv` is about what was told: it
relates the stage of an outgoing link, and the channels and the manager's view of an
incoming one, to what the core has heard.

But for `OrderlyPackets` and `Undisturbed`, these theorems assume no more of the constants
than the modules state. The bounds of a
model (its horizon, its number of frames, of unread events) are constants too, and
thereby arbitrary.

Only model-checked:

- `WireAgrees`, `Codec2Agrees`, `QuantisersAgree` and `TransformsAgree`. The MessagePack
  parsers and the transforms recurse over their data and the bits of Codec2 need
  `Bitwise`: the SMT backend is lost in modules that use either, and what a recursive
  operator does with every input needs an induction theorem the provers cannot
  instantiate. Of the formats only `OpusAgrees` could be freed of both.
- Everything temporal under fairness: `Released`, `SetupEnds`, `SessionResolves`,
  `NoOneSidedCall`, `NobodyWaitsForever`, `RetryRecovers`, `NoEchoLoop` and the like. The
  prover has no ENABLED.

## Findings

`phantom_dial`: the core takes an outgoing call before the transport takes its
link (`lib.rs:2788`). When the transport is full, the application hears
`OutgoingCallFailed` and the line stays busy, with no link whose close
would end it and no timer until something else refreshes the timers (a change of the
external busy flag does). `NoDeafCall` names this as its one exception.

Two observations from the models that are stated as they are, without a run:

- A caller that receives ESTABLISHED before, or instead of, CONNECTING starts audio it
  never opened and does not echo (`shared/telephony.rs:182`). The retry brings the echo,
  so that `NoOneSidedCall` holds, but the pipelines are never opened. The comment on the
  answer offer (`:89`) describes the ordered case.
- A hangup, or a due timer, whose command the endpoint refuses ends the call in the
  core, and `CallTerminated` is never published (`lib.rs:1932`), although
  `README.md:223` makes the events the source of call state. The answer timeout
  publishes it in the same situation (`lib.rs:2305`). The orderly runs therefore assume
  that ends are carried out.

Three more ways to lose an event show when a constant is widened. They are stated
as assumptions of the runs and theorems and have no run of their own:

- `OrderlyPackets` of `TelephoneLine`: `accept_lxst_plaintext` applies the signals of a
  packet one by one and returns at the first error. If BUSY or REJECTED is followed by
  another signal in its packet, the second fails (`NoActiveCall`) and the commands of
  the first are dropped: `LedgerExact` fails. This code's own packets carry no signal
  behind a final one.
- `Disorders = {"stray"}` or `{"drop"}`: a failing step makes a drive drop the steps
  before it. Their commands were carried out and their events are lost: `EndAnnounced`,
  part of `CallsTold`, fails. The failing step may be a packet on a link that does not
  carry the call, or a command on a link that is lost before its events are handled (if
  the link manager forgets links at once); in the latter case an incoming call that was
  never announced can occupy the line.
- `Disorders = {"audio"}`: audio in the batch that changes the profile drops the receive
  stream without an event: `StreamsAgree`, part of `LoopAgrees`, fails.

And three things the code does that the properties are worded around:

- A cancelled discovery that completes after the application dialled the same identity in
  the same profile again is taken for the redial: `handle_internal` compares nothing else
  (`lib.rs:1640`). `DialLedger` says that the redial is settled once, not by which of the two.
- A profile switch that is lost, or crosses another one, is not repeated: the telephones stay in
  different profiles until the next switch. `SwitchAgreement` is about a switch that arrives
  undisturbed, whatever was lost before.
- New links are read before the closes of old ones (`lib.rs:2828`): a redial right after a
  close can be answered with BUSY. `ImplementsLinkLife` is about the events of one link.

## Not modelled

- The arithmetic of native Codec2 in floats: pitch estimation, linear prediction,
  phases, synthesis and postfilters. What they compute is compared with oracles in the
  repository. The tables (codebooks, coefficients of the transforms) are data;
  where a table is regular (the scalar codebooks of line spectral pairs) the models have
  it. The modes 2400, 1400, 1300 and 1200 of `mod.rs` are used by no profile.
- opus-rs, rmpv and rsReticulum are other repositories, and modelled only from their use.
  `raw.rs` converts samples; `synthetic.rs` computes test signals.
- In the service: announces, changes of the access policy (the line has them), an
  application that dropped its channel; in the endpoint: the waits for a path and an
  identity, which end or fail as `Discovered` does; a packet that cannot be decrypted or
  unpacked, whose effect on a drive is that of the other failures, and a teardown for
  which Reticulum yields no packet.
- API snapshots, tools and interop scripts.

The application, the embedder, the network and Reticulum are the environment: they do
whatever their interface lets them, but for the assumptions named above.

## Plan

1. Composition of the service with `LinkLife` in place of its own `wire`.
2. The quantiser of 700C's mean and its two-stage codebook at full size, and fixed-point
   bounds on the synthesis of a subframe.
