# Orbit session owner: TLA+ models, model checking and proofs

This directory holds a verification development of the session owner: the
process that runs one terminal child, keeps its authoritative terminal state,
and serves it to one interactive client, one metadata observer and one
management client over local sockets.  The models are translated from the Rust
source; documents are cited only where a property states what they promise.
Paths below are relative to the repository.

## 1. Inventory

| component | source | state | operations | modules |
|---|---|---|---|---|
| client output queue | `src/attachment.rs` | messages with a class, offset of the message on the wire, byte count, initial-frame and initial-metadata flags, closing flag | push (ordered or replaceable), supersede the pending frame, five preflights, flush, fail and close | `OutputQueue`, `ClientOutput`, `CoalescingChannel` |
| presentation and session owner | `src/runtime.rs` | revision, synchronized-output deadline, deferred vertical request, PTY open flag, PTY write queue, captured clipboard writes | the loop of `run`: publish, publish a change, release (expired) holds, flush the deferred request, read and write the PTY, serve, disconnect, end | `Session` |
| interaction | `src/interaction.rs` | selection route, anchor, copied text; viewport and modes of the terminal | one handler per client message: input, resize, preview, scroll, return to live, wheel, selection phases, copy, cancel, autoscroll | `Session` |
| connection slots and metadata observer | `src/attachment.rs`, `src/runtime.rs` | pending, interactive and observer slots, negotiation deadline, last metadata published | accept, negotiate, promote or refuse, expire, publish metadata, read the observer, flush or drop | `Connections` |
| terminal frame extraction | `src/presentation.rs`, the vertical handlers of `src/interaction.rs` | none (a cache of render state) | extract a frame, a row window, metadata | `Viewport`, partly |
| management service | `src/management.rs` | identity of the published record, one client, its lease, its output, a tombstone | publish, accept, read a request, flush, expire, finish, reply stopped | `Management`, `Ownership` |
| platform | `src/platform.rs` | socket paths and inodes, record files, the child, its status | claim a listener, publish and replace records, spawn, poll, stop and reap | `Ownership`, `Shutdown` |
| frame and session codecs | `crates/protocol/src/lib.rs`, `crates/protocol/src/session/` | input bytes of a connection, frame of a reducer | encode, decode, validate, bound, take a message out of the input | `Wire`, `FrameCodec`, `SessionCodec`, `SessionStream` |
| management codec | `crates/protocol/src/management.rs` | none | encode, decode | not modelled |
| command line, diagnostics, governance tool | `src/main.rs`, `src/diagnostic.rs`, `tools/governance/` | none | parse, print | not modelled |

**How they interact.**  The owner is one thread with non-blocking
sockets.  One turn of the loop of `run` visits every component in a fixed
order: shutdown and child exit, expired pending connection, expired hold,
deferred request, metadata, poll, accept, negotiation, observer, management
accept, PTY read, deferred request again, PTY write, client requests, management
requests, flushes.  The handlers change the terminal, the selection, the
revision and the queue of the client in one call; the queues decouple that from
what the peers have read.  The terminal library calls back during `vt_write`
with replies to the PTY and with clipboard writes.

**What is hard.**

- *Ordering and coalescing.*  Frames replace each other in the queue, behind
  responses that must not be lost or overtaken, while the head may be half sent.
- *Preflight and commit.*  Handlers ask whether their outcome fits, change the
  terminal, then push; a refusal after the change ends the session.
- *Synchronized output.*  The child may hold presentation, die, or never resume;
  a vertical request that arrives meanwhile waits in one slot.
- *Loss of a connection* in any section of the loop, including inside the
  handler of its own request.
- *Slots.*  One pending, one interactive and one observer connection, peers that
  negotiate slowly, read slowly or never.
- *Bytes.*  A message arrives in pieces, with the Hello or behind another one, at
  a limit of the decoder that is not the encoder's, or after its peer was refused.
- *Two extractions.*  The rows of a preview and the rows of a frame are extracted by
  different code, under a bound that either may exceed.
- *Shutdown.*  A natural exit, a signal and a management Stop race; a tombstone
  must be written once; the child must not be signalled after it was reaped.
- *Crashes.*  Stale sockets and records of a dead owner; two owners that claim
  the same path.

**What makes each part correct.**

- output queue: exact accounting within the bound, no torn message, order, nothing
  durable lost, replaceable messages do not pile up;
- presentation: revisions grow, the newest frame converges to the terminal, a hold
  hides and ends;
- interaction: a deferred request is answered once, to its sender; a completion's
  frame is reached; copied text is frozen and forgotten; no input for a closed PTY;
- connections: at most one of each role, an unfinished negotiation ends, a busy
  peer is told so, the observer sees an initial metadata message and then newer
  ones only;
- management: a lease belongs to a peer that saw the record; Stop and exit write
  one tombstone with the true outcome;
- codecs and readers: what is written is taken, once and as the same value, in
  whatever pieces; nothing lies unserved while the owner waits; nothing is taken
  after a refusal; a client shows the newest frame;
- extraction: what is shown is the terminal as it is, a window says truly where the
  history ends, and a scroll shows the rows its preview promised;
- platform: a live owner's socket is never removed by another; a record is changed
  by the owner it names; a child that was waited for is never signalled.

The hazards of this code, each at its line and with the properties that cover
it, are in `PROJECT.json`.

## 2. How the models are built

*Sections as actions.*  `run` is single-threaded.  `Session`, `Connections` and
`Management` therefore walk through the sections of the loop's body in the
code's order: `phase` names the next section and each action is one section, or
one message of a section, with every call it makes.  Whatever acts beside the
owner (the child, the peers, the clock, the terminal library) acts through the
choices of a section: what a read yields, how much a write takes, whether a
deadline has passed.  `Ownership` and `Shutdown` are about steps that other
processes do interleave with, so there one action is one system call.

*Five views of one loop.*  One module with every slot, queue, request and byte
would be out of TLC's reach.  `Session` has the interactive connection in detail
and no other, `Connections` all three slots with an opaque interactive client,
`Management` the management connection, the two endings and the shutdown;
`SessionStream` has the bytes of one connection and of its requests no more than
that they are served; `Viewport` has the contents of frames and no queue.  They
share the loop, through `OutputQueue` the queue, and through `FrameCodec` and
`SessionCodec` the messages with their sizes.

*Composition.*  `ClientOutput` and both `Session` and `Connections` stand on
`OutputQueue`; `SessionStream` and `Viewport` on the codecs; `Management` extends
`Shutdown`, whose steps are the owner's while it is in them.

*Data.*  In `Session` a frame is its revision, a number that stands for the screen contents
and whether cells are selected.  A message is its kind, its class and its size in
abstract units.  A title, a status, an inode, a peer is a model value.  The sizes
keep the relations of the code's limits: with `MaxFrameBytes = 1`,
`MaxPayloadBytes = 3`, `HeaderBytes = 1`, `SlackBytes = 1` the queue has seven
units, a frame takes two and a scroll outcome four, so that two frames and a
small message refuse a scroll outcome as they do in the code.  In the codecs a
message is its bytes, with the code's layout, tags and masks.  Only the widths of
`u32` and `u64` are constants (three bytes in the runs), as the integers of TLC
have 32 bits; limits that follow from a width, and the limits of the encoder and the
decoder, are formulas of it as in the code.  Text is ASCII with one private-use
character, which the rules for key text single out.

*Mutants.*  Next to some definitions stands a variant that makes a plausible
mistake (a dropped guard, a missing reset, a swapped order).  No specification
uses it.  `PROJECT.json` says which property each of them breaks under the
configuration of its run, so that every property is known to say something.

### `OutputQueue`, `ClientOutput`, `CoalescingChannel`

`OutputQueue` has `OutputQueue` of `src/attachment.rs` as operators on a record:
`Push`, `PushReplaceable` with the replaceable suffix, `SupersedePendingFrame`, the
partial write of `flush`, and the preflights.  `ClientOutput` puts one such queue
between an arbitrary owner, which pushes any message in any order, and a socket
that takes any number of bytes; what it shows therefore holds under the owner of
`Session`, too.  `CoalescingChannel` is what the queue promises: a peer gets a
subsequence of what was admitted, in order, and all that is durable.

### `Session`

| state | code |
|---|---|
| `phase` | the section of the body of `run`, or how it returned |
| `terminal` | the library's screen (`view`), synchronized-output mode, viewport and mouse and screen modes |
| `selection` | `SelectionState`: the route of the gesture, whether a selection exists, the copied text |
| `revision`, `timer` | `Presentation.revision`, `synchronized_until` |
| `deferred` | `deferred_vertical` |
| `pty`, `writes`, `clipboard` | `pty_open`, `writes`, captured clipboard writes |
| `client`, `peer` | the interactive `Client`, and what its peer has received |

The actions are `Expire` (time passes), `Terminate`, `ChildExited` and `Turn` (the
top of the loop), `FlushDeferred` (both places), `Attach`, `Read` and `ReadNothing`
(the PTY), `WritePty`, `HandleRequest`, `Malformed`, `PeerGone` and `EndClient` (the
interactive client), `FlushWrite`, `FlushEnd` and `FinishEnd`.  `HandleRequest`
is `handle_client_message` with one operator per request, each the whole handler:
preflight, change of the terminal, response, publication, and the end of the owner
where a push contradicts its preflight.

### `Connections`

Three slots and the metadata observer: `Accept` and `AcceptEnd` (accept all,
`Busy` when the pending slot is taken), `Negotiate` (read, promote, refuse, or drop),
`Observe`, `ReadPty` (title changes and holds), `ServeClient`, the flushes of all
slots, `Expire`, and both endings.  Messages are read and sent whole here, as the
bytes are the business of `ClientOutput`.

### `Ownership`

Several owner processes with one parent directory: `create_listener` (lock, stat,
connect, remove, bind, identify) for the presentation and then the management
socket, the Ready record and its claim, serving, the tombstone, and the drops in
Rust's order, which ask for the socket's identity and then remove it by name.
A process may be killed between any two of these calls; an inode that is
closed and removed may be used again.  A launcher may leave an empty record for
its owner and may take it back.

### `Shutdown` and `Management`

`Shutdown` has `Pty::stop_and_reap` step by step (`Look` for an exited child,
`ReadForeground`, the two hangups, the grace with its polls, the reread, the two
kills, the limit) and its repetition by the drop of `Pty`, against a child that exits
at any time and a foreground group that changes between any two steps.

`Management` extends it by the management connection (`Accept`, the reads of each
request, the flush, the lease deadline), `readiness` as `polled`, the termination
by a signal or a Stop, the natural exit, and the tombstone of either.  The owner is
in the loop, in the steps of the shutdown, or in what `run` does of its result
(`Conclude`).  Beside it the child exits, a signal arrives, and somebody replaces the
record or a socket.  To keep the product small these happen where they make a
difference: the foreground group changes during the shutdown, signals arrive while
the owner serves (the flag is not read later), and a replacement comes while it serves
or just before the tombstone is written.

### `Wire`, `FrameCodec`, `SessionCodec`

`Wire` has bytes, little-endian numbers, texts and a decoder's cursor.  `FrameCodec`
has the values of an ORBF frame, `ValidFrame` (what encoder and decoder ask of a frame), its size
accounting (`FrameSize` and `SizeOfRows`, which producers use), `EncodeFrame`, the
strict `DecodeFrame`, and `Push` of the client's `FrameReducer`.  `SessionCodec` has the
header and the announced length (`ClientMessageLen`, `ServerMessageLen`, with the
limits of each kind), and for each message what its encoder writes or refuses
and what its decoder takes or refuses.  What the code does field by field or byte by
byte (`Num`, `Read`) is the last value of a recursive function over the fields
(`Numbers`, `Readings`), about which proofs can reason; `Admits` is what `Push` asks
of a frame.

### `SessionStream`

One connection, in one of two directions.  A peer writes messages to the owner
(`Write`), once with one byte changed (`WriteGarbled`), and may close its end
(`HangUp`); the owner polls, reads any of `ReadSizes` bytes, and is in the section of
the candidate (`ReadPending`), of the observer (`ReadObserver`) or of the client
(`ReadClient`, whose loop takes message after message), and flushes.  Or the owner
writes and a client reads with the same library (`ClientReads`) and keeps a frame.
The loop is `Rounds`, the states after each of its rounds; it has no more rounds than
the input has headers, so `Served` is what the last of them leaves.

### `Viewport`

The rows the terminal has retained, the viewport's offset in them, the screen, the
palette, and what the connected client was told last.  `Output` is one read of the
child's output (`SetPalette`, `SwitchScreen` and `SetMouse` are others) and ends, as
in the code, with `Publish`; `PreviewVertical`, `ScrollVertical` and `ReturnToLive`
are the vertical handlers.  `Extracted` is the frame of the
viewport; `ViewportPreview` is the window beyond it, cut short by the frame bound.
Both resolve a row's background by different definitions, as the code does.

## 3. What is checked

All runs check all reachable states within the bounds.  Deadlock is not reported
as an error in any of them: owners end, and a bounded number of requests, pushes
or peers is used up.

| run | question | bounds |
|---|---|---|
| `client_output` | Is the output of one connection accounted, coalesced and framed, and does it implement the channel? | four admitted messages of one or two units in a queue of four: full queues, cut heads, every class before every other |
| `session_vertical` | Do revisions grow, does the screen converge, does a hold hide, is a deferred request answered once, and is no preflight contradicted? | eight vertical requests, two handled and two PTY reads in a behaviour, both screen modes |
| `session_selection` | Is a completion's frame reached, is copied text frozen, and is it forgotten with its gesture or its client? | seven gesture requests, three handled, one read, mouse tracking on and off; a PTY input queue without room, so that what a pointer sends to the application is empty or closes the connection; input that fits is a matter of `session_input` |
| `session_input` | Does a closed PTY take nothing, does a clipboard write precede its frame, do a hold and a deferral end? | seven requests, two handled, one read, a PTY write queue of two inputs; with fairness |
| `connections` | Is each peer spoken to as its role demands, is metadata ordered and convergent, does negotiation end? | two peers, two titles, revisions up to two: both slots taken, a role refused, a title that changes back |
| `ownership` | Are serving owners reachable, records kept, rollback and Ready exclusive, and is nothing left behind? | two managed owners, four inodes (symmetric), which is what two owners can bind |
| `management` | Are answers, tombstone and `Stopped` true, does no peer make the owner fail, are no late or stale signals sent, is the one connection freed, does the shutdown end? | two peers, two messages to a peer, one foreground job beside the child |
| `session_stream` | Is the framing exact, do encoder and decoder agree, is everything served before waiting, is a refusal final, and does a client show the newest frame? | up to two messages of some 30 requests or 40 server messages, valid ones at their limits (key text, paste, copied text, failure, metadata, a full frame, a full preview and the longest scroll outcome) and invalid ones just beyond; pieces of 15 bytes or all there is |
| `viewport` | Is a window honest, is what is shown the terminal, and does a scroll show what its preview promised? | a viewport of two rows over at most five, reads that print rows at, near and beyond the frame bound, two palettes, six revisions |
| `frame_after_failure`, `stale_presentation`, `one_wins` | Three statements of the documents and tests that the code does not keep, see section 5. | as above |

*Why the bounds are enough.*  A request meets at most the hold, the deferred
request, a full queue, a closing connection and a lost client; two or three
requests with one or two PTY reads reach every pair of these, and every action
and disjunct fires in some run.  Revisions, views and histories grow with
requests and reads only.  A third peer of `Connections` would find the slots as the
second finds them.  `Management` tells peers apart by who holds the
connection only.  In `SessionStream` two messages are a first one that decides the
role and one of every other kind, or two of one kind behind each other; a piece of
15 bytes ends within a header, behind it, within a body or in the next message,
depending on what it follows.  In `Viewport` `MaxFrameBytes` admits a frame of two
rows of which one is large and refuses one of two large rows, and it cuts a window
after its first row.  Five retained rows leave, on either side of the viewport, a full
window that ends at the edge, one that does not reach it, and one that is shorter
because there is no more: with four the distance to the edge would never exceed the
window.  Six revisions suffice to print such a history, to scroll in it in both
directions and to prune it.

*Fairness.*  Only two things are assumed: the loop keeps turning (weak fairness of
its sections; `poll` has a timeout of at most 100 ms, and all sockets are
non-blocking), and time passes.  The latter is strong fairness of `Expire`: the
action is possible at the top of a turn only, where the code compares deadlines,
so it is not continuously enabled, but it is enabled in every turn.  In `Shutdown` it
is weak fairness of the owner's steps and deadlines.  Nothing is assumed of peers,
requests, the child or the sockets.

## 4. What is proved

The theorems hold for every value of the constants, in particular for every number
of peers, owners, messages and revisions and every size of the limits.  They assume
of the constants only what the named assumptions say; TLC evaluates these in every
run of their module.  Every safety invariant and action property of `ClientOutput`,
`Session`, `Connections`, `Ownership` and `Management` is proved, and of
`SessionStream` those on service, refusal and frames.  Each proof has one lemma for
every action, and these rest on lemmas that are stated of values (a queue, a
connection, what a peer has received), so that they can be followed through the
several pushes of one handler.

*`OutputQueueProofs`* has the lemmas on the queue's operators: a push keeps the
byte count exact and within the bound, coalescing keeps order and what is durable.
Three of them say that a preflight does not lie: after `can_push_scroll_outcome`,
`can_push_frame_message` or `can_push_host_selection_result` the pushes they
announce are admitted (`ScrollOutcomeAdmitted`, `FrameMessageAdmitted`,
`FinishAdmitted`).  The sums of sizes behind the byte count are a function given by its
recursion equation (`Sums`); that it exists and is unique is proved by the least
element of a set of naturals.  Assumption: `LimitsAssumption` (limits are positive).

*`ClientOutputProofs`* proves the type invariant and every property of the run
`client_output`.  The invariant `IInv` adds to the types that the byte count is
that of the messages, that the offset lies within the first message, and that
replaceable messages are coalesced: without the offset a partial write could
make the count negative, without the coalescing the suffix that a push removes
is not the one that is superseded.  `OInv` adds how `admitted`, `delivered`, `wire`
and the queue are related.  The refinement maps the queue and the wire to
`CoalescingChannel`, each step to a step or a stutter.  Assumptions:
`LimitsAssumption` and `PushesAssumption` (sizes are positive).

*`SessionProofs`* proves the type invariant and all safety properties of the three
runs of `Session`.  Its `Inv` says of a connection and its peer: the queue is
accounted, the revisions queued grow and none is above the owner's (`RevisionsUpTo`),
a clipboard write is ahead of the frame of its revision (`ClipsFirst`), a copied
text agrees with the one named before it (`CopiesFrozen`), and the newest frame,
sent or queued, either shows the terminal, reaches every completion and carries the
revision, or is older than the revision while output is held, or the connection is
closing (`Presents`).  The last is the heart: `Converges` speaks of an empty queue and
no hold only, and is not inductive, as it says nothing of what is still to be sent.
`NeverContradicted` follows from the preflight lemmas of `OutputQueueProofs`, applied
to the very queue that a handler has preflighted and then pushes to.  `HoldHides` is
an action property that each step's lemma shows along with the invariant
(`HoldsBack`).  `DeferralAnswered` is one over a further invariant, `DeferInv`: the
deferred request is of a kind that is deferred, and of a connection that is closing
while it waits the last message is the failure that closed it, so that the frame
drawn later is not pushed behind it.  Assumptions: `SessionAssumption`, `NoClientAssumption` (the absence of a
client is no connection) and `LimitsAssumption`.

*`ConnectionsProofs`* proves the type invariant and all safety properties of the run
`connections`.  `WellSpoken` and `MetadataOrdered` are about what a peer has received;
the invariant is about that and what waits for it in the queue of its slot, if any
(`SlotTalk`).  That a farewell comes last needs that an open connection has been told
what its role demands so far (`Awaiting`, `Greeted`, `Observed`); that no revision is
sent to the observer twice needs that the revision has moved since its last
metadata whenever the next would differ or output is held (`Attentive`); that a
peer is in one slot only (`Apart`) keeps what is pushed to one from another.
`InitialKept` is proved as an action property from the same invariant, one lemma for
each action.  Assumptions: `ConnectionsAssumption`, `NoConnAssumption` and
`LimitsAssumption`.

*`OwnershipProofs`* proves the type invariant, `ServingReachable`, `RollbackExcludesReady`,
`OrderlyLeavesNothing` and the action property `RecordKept`, for any number of owners
that start, end and die in any order, with inodes used again.  The key is the
presentation socket: whoever deals with the management socket or the record still
listens on the presentation socket that the path names (`PresentationHeld`), so there
is one such process at a time, and what the lock on the directory does not cover
(identifying and removing, a removal without the lock at the end) still meets its own
socket.  `LiveIsOwned` and `ReplacesItsOwn` say who may change a record, `OneClaim` and
`ClaimIsOpen` that a launcher that still may roll back finds no process as far as the
record.  Assumption: `OwnershipAssumption`.

*`ManagementProofs`* proves of `Shutdown` that no signal is sent once the child was
waited for, that another group is signalled only if the terminal named it since the
last wait, and that success is a reaped child.  These are not inductive: the invariant
adds that in every step that sends a signal the child has not been waited for
(`Unwaited`), and that the group to be signalled is among those seen since the
last wait (`CachedCurrent`).  Assumption: `ShutdownAssumption` (groups are positive
and the child's is no job's).

It then proves that the owner implements `Shutdown`
(`OwnerImplementsShutdown`): every step of the loop, of the management connection and
of the end of `run` is a step of `Shutdown` or stutters.  Hence the promises
of `stop_and_reap` hold for the whole owner, whatever its loop does around
it (`OwnerSignalsNotLate`, `OwnerSignalsCurrent`).  Over that invariant, `ManagedInv` adds
where the owner is (`InStep`), why the child is being shut down (`PurposeIsTrue`: a Stop
has a leased connection that was answered, whose peer is `stopper`), and what has
been said and waits to be (`InOrder`, `ClientTalk`).  From it follow `AnsweredInOrder`,
`StoppedIsTrue` and, as an action property, `TombstoneIsTrue`.  `CauseInv` adds that
while `run` has not ended the record is live or another's, and proves
`FailsForCause`, the other half of `WellAnswered`: a request is read only when no answer is in flight
(`ReadingGoesOn`), so that what `queue_response` takes for an error of the owner does
not occur.  Assumptions:
`ManagementAssumption`, `NobodyAssumption` and `ShutdownAssumption`.

*`CodecProofs`* proves that the decoders are canonical: whatever bytes they take as a
value are the bytes that encoding this value yields (`FrameValid`, `ClientSpelled`,
`ServerSpelled`), for every width of the numbers and every limit.  So no two spellings
stand for one value, no field is ignored, and a value that was decoded passes the checks
of the encoder: `decode_frame` counts no sizes, and yet its frame is within
`MAX_FRAME_BYTES` as `FrameSize` counts it.  The argument follows the reader of a decoder
field by field: what it has consumed is what putting the fields it has got writes
(`Unpack`), and the numbers, booleans, tags, colours, flags and texts among
them are each spelled in one way.  Cells, rows and palettes are sequences of such
pieces, whose joins (`FlattenSeq`) are followed by an induction over their number.
Assumptions: `WireAssumption`, `BadAssumption`, `FrameAssumption` and
`SessionAssumption`.

*`SessionStreamProofs`* proves the other direction for frames and rows: what
`encode_frame` writes of a valid frame, and `encode_canonical_rows` of the rows it
accepts, decodes to them again, and is as long as `FrameSize` counts (`FrameReturns`,
`RowsReturn`).  The argument follows the writer: a reader of the join of some fields
takes exactly them (`FieldsBack`), each number, flag, colour and text comes back from its
own spelling, and what `FrameSize` counts is the sum of the widths that are read.
Assumptions, beyond those of `CodecProofs`: that an error is no value
(`ErrorAssumption`, `FrameErrorAssumption`), and that a u32 can count the bytes of a frame
(`FrameLimitAssumption`).

It then proves of a connection `ServedBeforePolling`, `RefusalIsFinal`, `ShowsNewest` and
`FramingExact`, for any messages, bytes, sizes of reads and one changed byte.  The first
is a statement about the loop of `read_client`: the inductive `StreamInv` says that the
section of the loop is the one of the connection's role, that a closing connection has
forgotten its input and is not polled for more, and that past its section an open
client has no complete message left.  This needs that the rounds suffice:
every message that is taken is at least a header long, so that after as many rounds
as the input has headers nothing complete is left (`MoreThanHolds`).  For `ShowsNewest`,
`ServerSpelled` says that whatever bytes are taken as a frame make a valid one: the
checks of `FrameReducer::push` then never refuse a decoded frame but for its revision.
`FramingExact` speaks of what is encoded; its invariant (`FramingInv`) names the bytes
that were read: they are the encodings of the messages taken, followed by the input or,
once the connection is closing, by what was forgotten, and with the stream they
are what was written.  A message that is taken moves its bytes from the one to the other
(`AccountsTake`), which are its encoding as the codec is canonical.
Assumptions: those of `CodecProofs`, `StreamAssumption` and
`BytesAssumption` (what an encoder yields is bytes).

*Induction.*  The library's induction theorems take an operator and cannot be
instantiated by the installed back ends.  Where an induction over a number is needed, for
the sums of sizes, the rounds of a loop or the fields of a reader, the set of numbers at
which the claim fails is shown to have no least element (`RoundsInduct`, by `WFMin`), for
claims that are sets of numbers rather than operators.

*No run of their own* have the proved types, the order of the output and that durable
messages are kept (the last two are what `ImplementsChannel` says), and that success is a
reaped child.

*Only model-checked*:

- liveness (`HoldEnds`, `DeferralEnds`, `NegotiationEnds`, `HandshakeEnds`, `ShutdownEnds`), which needs fairness and `ENABLED`;
- `SentIsTaken` of `SessionStream`: that every value an encoder writes is taken again, as
  the same value.  It is proved of frames and rows, and model-checked of the messages
  around them;
- `WindowIsHonest`, `ShownIsCurrent` and `ScrollShowsPreview` of `Viewport`, which is next in
  the plan.

## 5. Where the documents and the code disagree

1. `frame_after_failure`: a scroll that was deferred by synchronized output is
   still served after its connection failed; its frame follows the fatal failure
   (`docs/TERMINAL.md`).
2. `stale_presentation`: a gesture that fails clears the selection without a new
   revision or frame; the client goes on to show selected cells
   (`docs/CONTRACTS.md`, ORB-C4).
3. `one_wins`: two managed owners that start at once may both fail, since the lock
   on the parent directory is released between the claims of the two sockets.

Behaviours that the models show and no document excludes: an extraction that
fails in a scroll, wheel or autoscroll ends the owner, whereas one that fails in
`publish` costs the client only; a starter that finds no socket where one was a
moment ago fails closed; interactive connections that are closing have no
deadline; a signal that arrives after the child's own exit still writes
`ExplicitStop`, whereas a management Stop then is a natural exit and gets no
`Stopped`; the exact frame a completion names may be replaced by a later one,
which is why `CompletionConverges` asks for a frame that reaches it; a peer that
sends requests behind its Hello and closes its end before they are read loses them,
and one that is refused loses what it sent behind the offending message (which is
what `RefusalIsFinal` asks for).  A management request of which the first read brings
the header and not the rest is refused as pipelined (`src/management.rs`, lines
217-228): the length is announced by the header, and the test that nothing follows
the request also fails when something is missing.

## 6. Abstractions and what is not modelled

- *Session*: pointer requests other than the selection phases, downward autoscroll and
  row geometry; the terminal library decides nondeterministically whether a
  scroll moves the viewport and whether an extraction fails.  Its replies to the
  PTY come from `vt_write` only; what it might write during a resize is left out.
- *Connections*: whole messages; what an interactive client asks only moves the
  revision.
- *Ownership*: identity checks and removals are separate calls, as in the code, and
  a guard without identity removes any socket of its name, as in the code.  A
  launcher leaves a claim only where no other owner is under way.
- *Management*: a request's expectation of the record is right or wrong, and
  requests are read whole (a piece that is refused is one of `ReadRefused`); I/O
  errors other than a disconnect, and a status with neither code nor signal, are
  not modelled.
- *Shutdown*: errors of `try_wait` are not modelled.  Between reading the foreground
  group and signalling it the group may still change; the code cannot exclude
  it, and `SignalsCurrent` does not claim it.
- *Codecs*: the widths of `u32` and `u64` are constants and texts are of ASCII and one
  private-use character (section 2); which error an encoder or decoder returns is
  not told apart.
- *SessionStream*: a peer writes at most one byte that its encoder would not; it
  hangs up after it wrote; the owner's output is not byte by byte, as that is
  `ClientOutput`; what a request does is `Session`.
- *Viewport*: rows have one cell.  Cursor, title, hyperlinks, highlighting and the
  other attributes of a style are taken over from libghostty unchanged and left out;
  what it retains, prunes and how it scrolls is external.  Nothing is printed to the
  alternate screen, which does not ask for wheel input.  Every message arrives at
  once: deferral and queueing are `Session`.
- *Not modelled*: the management codec (its records and messages are of one
  layout with fixed limits whose sum is below the bound of a message), spawning and
  resizing of the child (calls of the system), command line, diagnostics, and the
  repository's governance tool.

## 7. Plan

Built in this order, by what matters most: the output queue with its proofs,
`Session`, `Connections`, `Ownership`, `Shutdown` with its proofs, `Management` over
its steps, the codecs with `SessionStream`, `Viewport`.

The proofs followed in that order: `ClientOutput` with its refinement, `Shutdown`,
`Session`, `Connections`, `Ownership`, `Management` with its refinement, `SessionStream`.

Next, to prove:

- `Viewport`: that what is shown is the terminal as it is and a window says truly where
  the history ends, for every bound of a frame.  Its proofs should share a module with
  the lemmas on decoded frames, as both rest on what makes a frame valid;
- `SessionStream`: that what an encoder writes is taken (`SentIsTaken`), the other
  direction of `CodecProofs`;
- `Shutdown`: that its drop never signals again after success.

To model, should the code grow there: the identity of a gesture whose autoscroll was
deferred, so that a deferred autoscroll that outlives its gesture can be told from one
that does not; management requests in pieces, with their codec.
