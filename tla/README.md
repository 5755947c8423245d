# A verification project for iroh-h3

TLA+ models of the iroh-h3 workspace (HTTP/3 over iroh's QUIC connections), the TLC runs
that check them, and the proofs that TLAPS checks. Paths are relative to the repository;
`client/` stands for `iroh-h3-client/src/`.

| Module | Models | Runs | Proofs |
|---|---|---|---|
| `ConnectionManager`, `PeerLink` (abstract) | `client/connection_manager.rs`: the sender cache | `cache_cache`, `cache_poisoned` | `ConnectionManagerProofs` |
| `ConnectionStreams`, `StreamSlots` (abstract), `MCConnectionStreams` | the streams of one connection: `iroh-h3/src/lib.rs` (`Connection`, `OpenStreams`), axum's `accept` and its tasks, the calls of `handle` | `connection_streams` | `ConnectionStreamsProofs` |
| `RequestExchange` | one request from both ends: `handle`, `send_body`, `IrohH3ResponseBody`, axum's `handle_request` and `RequestBody` | `exchange_exchange`, `exchange_standoff`, `exchange_truncated` | `RequestExchangeProofs` |
| `Middleware`, `MCMiddleware` | `client/middleware.rs`, `client/middleware/*.rs` | `middleware_stacks`, `middleware_jar`, `middleware_hops` | `MiddlewareProofs`, `MiddlewareHopsProofs` |
| `TransportStream`, `ByteChannel` (abstract) | `iroh-h3/src/lib.rs`: send and receive streams | `stream_stream`, `stream_stop` | `TransportStreamProofs` |
| `LineStream`, `MCLineStream` | `client/response/sse.rs`, `ndjson.rs` | `lines_lines` | `LineStreamProofs` |
| `Recursion` | induction and recursion over the natural numbers, for `LineStreamProofs` and `MiddlewareHopsProofs` | | its lemmas |

## 1. Inventory

**Connection manager** (`client/connection_manager.rs`). State: `sender_cache`, a concurrent
map from a peer to a *shared future* of an h3 sender; one clean-up task per connection;
a broadcast channel for disconnects. Operations: `get_sender` (try the cache, then join or
create a future in a loop), `create_connection` (connect, HTTP/3 set-up, spawn the
task), `run_connection` (wait for the close, evict, announce). Hard: calls for one peer race;
a shared future makes progress only in the polls of those who await it; two evictions remove
*by key*, long after the insertion; any call may be dropped at any await (a `Timeout`
does just that). Correct when there is one connection per peer, an open connection stays cached,
evictions hit only what is dead, a listener is never given the connection it was told is
closed, every call returns.

**Request exchange** (`handle` and `send_body` in `connection_manager.rs`, `client/response.rs`,
`iroh-h3-axum/src/lib.rs`). State: one bidirectional QUIC stream, the request body still to be
sent, the response still to be read. The client sends head and body, finishes, receives the head,
and the caller reads the response; the server resolves the request, calls the router with a body
that reads the stream, sends the head and streams the response. Hard: flow control in both
directions, handlers that read and write at once or not at all, bodies that fail,
futures that are dropped (which finishes or stops a half of the stream), shutdown of
the accept loop under its tasks. Correct when what a reader takes for the end of a body is the
end of it, transport errors have a cause, and both ends come to an end.

**Transport connection** (`iroh-h3/src/lib.rs`). State: in the connection and in every handle of it
(`OpenStreams`) a future that opens a stream, stored from poll to poll; a stream of accepts.
Operations: `poll_open_*`, `poll_accept_*`, `close`. The transport allows so many open
streams and counts one until both ends are through with it. Hard: a poll that is dropped leaves its
future, with its waker, to the next call of the handle; handles wait for the same streams; the
connection closes under all of them. Correct when no wake-up is lost, and a stream that
was given back is given to somebody who waits.

**Axum server** (`iroh-h3-axum/src/lib.rs`). One accept loop per connection, one detached task per
request. Hard: requests arrive while the loop is busy or about to sleep; nobody awaits a task,
bounds their number, or aborts them. Correct when every request is taken, whatever other
handlers do, tasks are as many as streams at most, and the end of the connection reaches them. What
a task does is part of the exchange, where the end of the loop is `ServerShutdown`.

**Middleware** (`client/middleware.rs`, `middleware/*.rs`). State per call and layer: the request's
parts, a body slot, a counter; in the jar, cookies per peer. A layer is a function
that awaits the next one any number of times; the last one is the connection manager. Hard: limits
of nested layers multiply; bodies can be sent only once; a timeout drops what is
below it; a jar is shared by concurrent calls, and what was read before an await is used
after it. Correct when sends are bounded, bodies are not replayed, cookies stay with
their peer, a final answer reaches the caller, and calls return.

**Transport adapter** (`iroh-h3/src/lib.rs`). Per stream: a buffer being written in parts, and
a QUIC stream that is lent to a future while a chunk is read. Called by h3, calls iroh.
Hard: polls that are dropped and taken up again. Correct when each direction of a stream is a
byte channel.

**SSE and NDJSON streams** (`client/response/sse.rs`, `ndjson.rs`). State: a ring buffer of bytes, an
event being built, a queue of items, the last event id. `poll_next` returns what is queued or
polls the body. Hard: frames cut lines anywhere, lines wrap around the ring buffer,
wake-ups. Correct when items do not depend on the framing, none is held back, streams end.

**Request builder, bodies, errors, facade** (`client/request.rs`, `body.rs`, `error.rs`, `lib.rs`).
No state of their own; `Body::take` is part of `Middleware`.

The hazards of this code, each at its line with the properties that watch it, are listed in
`PROJECT.json`.

## 2. Modules, runs and what they show

A run passes with no error, or finds the disagreement it is there for. Each property of a
passing run has a mutant, a plausible bug (`\* Mutant:` in the modules), which breaks it.

### ConnectionManager

A future and the connection it opens are named by the call that created them (a call creates at
most one). `pc` follows a call through the awaits: `cached` (line 85), `setup` (the loop, line
94), `joined` (109), `sleeping` (112), `owner` (115), `evicting` (118). Between two awaits code of a
call runs in one step, except where another thread can get in between: reading the cache and
taking the entry's lock are two steps. `ConnectOk` ... `H3SetupOk` are the awaits of
a shared future, taken in the poll of a call that awaits it; `EvictClosed` and
`AnnounceDisconnect` are `run_connection`. `Cancel` drops a call at any await.

* `cache_cache` (3 calls, 2 peers, two of the calls cancellable): `OneLinkPerPeer`,
  `OpenIsCached`, `EvictsOnlyTheDead`, `NeverRejoinsAnnounced`, and `ImplementsPeerLink`: behind
  locks, shared futures and evictions each peer has one link that is dialled, comes up or
  fails, is lost, and is forgotten before it is dialled again. And under fairness: links that
  are down are forgotten, calls return, closed connections are announced, *unless* the peer's
  entry is poisoned. Three calls give an attempt that fails, one that joins it, and one that dials
  again while the first still acts on the failure; two peers, that evictions stay apart.
  More calls are left to the proofs.
* `cache_poisoned` finds how it is: the creator of a future is dropped while another call
  drives the future to its error. Nobody evicts it, and every later call to that peer
  sleeps and loops for ever. The error that tests/error_handling.rs expects never comes.

Fairness: tasks that were woken are polled, timers fire, an awaited connect or handshake ends one way
or the other (iroh times it out). Nobody has to start or cancel a call.

### ConnectionStreams

A stream is named by the call that opens it. `opening_bi` is what a handle's stored future knows of
its callers: the one whose waker it has. `woken` are the calls that will be polled; `Poll` is a
poll of `poll_open_bidi` through h3's `send_request`, which borrows its handle until the
head is sent. `stream` is what the server knows of a stream, `loop` whether
`accept` runs or sleeps, `task` where each spawned task is. `limit` is the client's count of the streams
it may open; it learns of streams that are over later (`MaxStreamsArrives`), a transport frame.
External, by how quinn is used: MAX_STREAMS wakes all that wait, a frame of a stream makes
earlier ones known. A `Slow` caller may stop producing its body or reading the response, a `Hung`
handler may wait for ever; every other exchange ends by itself (`EndsUnlessStandoff`). The order
in which `accept` takes streams is left open.

* `connection_streams` (3 calls, two of which take turns at a handle; one or two streams; one slow
  caller, one hung handler): `IInv` with `WakeInv`, no wake-up of an open or of the loop is lost;
  `TasksBounded`; `ImplementsStreamSlots`: each request has a slot once, until both ends are through;
  `OpensUnlessSaturated`: a call that waits gets a stream, also when it takes over the future of a
  dropped one, unless those that stall hold them all; `RequestsAreTaken`; `ClosedIsOver`. With two
  streams, two calls that stall saturate the connection; one does with one stream, and does
  not with two: both sides of each property occur. Two calls at a handle are what it
  takes for one to inherit the other's future.

Fairness: woken tasks are polled, frames of an open connection arrive. Nobody has to start or drop a
call, and those that stall need not go on.

### RequestExchange

Frames are counted. `client` and `server` say where the two tasks are; `up` and `down` are the
unread frames of each direction, at most `Window`. A handler collects its body before it responds,
echoes it frame by frame, or drops it. Faults (failing bodies, dropped futures, shutdown,
loss) are a constant, so that a run can leave them out. `Leave` and `TaskEnds` are what
dropping the stream does. External: dropped quinn halves are finished or stopped; a server
connection that h3 drops closes with `H3_NO_ERROR`.

* `exchange_exchange` (8 request frames, 6 response frames, windows of 3, all handlers and faults):
  `WholeRequest`, `WholeResponse`, `FailsOnlyForCause`, `EndsUnlessStandoff`. Eight is
  `2 * Window + 2`, the shortest request with which an echo can come to a standoff; all
  counters pass through empty, partly full and full.
* `exchange_standoff`: lib.rs:59 promises streaming in both directions, but the client reads
  nothing before it has written everything: with one frame more than fits, an echo and the client wait
  for one another.
* `exchange_truncated`: an error of the response stream ends the response like its end, and the
  caller takes the part for the whole.

Three properties name exceptions that are facts of the code a caller should know, and that the
properties therefore do not catch: a client that gives up in mid-upload finishes its half, and the
handler takes what it got for the whole request; a server that shuts down closes with
`H3_NO_ERROR`, which the reader takes for an end of body; a handler that drops the body makes the
client's write, and with it the call, fail, and its response is lost. What the first and the last
must not do is leave somebody waiting, and that is `EndsUnlessStandoff`.

Fairness: both tasks are polled when they can move, handlers included. Faults need not happen.

### Middleware

A call is "down" at layer i when this layer is entered with a request, "up" when it gets a result;
`frame` holds the local variables in between. Any stack of layers can be given. The base
service answers what it likes, or never; a location is a URI or a path, which `Resolve` puts at the
authority the layer's own request went to (a request URI without a scheme, which only makes
the call fail, is left out). Durations are left out (any armed timer may fire
while something below it is pending, the backoff included).

* `middleware_stacks` (one call; seven stacks with both orders of retries and redirects, a retry above
  a retry, timeouts at the top and in the middle; 2 retries, 2 redirects): `IInv`, `SendsBounded`,
  `BytesReachEveryHop`, `BodyReplayedOnRedirectOnly`, `NoBodyOnGet`, `LimitsWereReached`,
  `AnswerIsFinal`, `RelativeStays`, `HangsOnlyIfExempt`. Limits of 2 make a counter that is reset,
  or kept in the wrong layer, visible, and a relative location after a redirect to another peer.
  `BytesReachEveryHop` is what the comments at follow_redirects.rs:151-153 say of bodies of
  bytes; for streams they are wrong (section 4).
* `middleware_jar` (two concurrent calls, two peers, redirects from one to the other, two cookie
  names, a retry above the jar or below it): `HomeInv`, `CookiesStayHome`, `CookiesAccumulate`.
* `middleware_hops`: with the jar above the redirects, cookies of the peer redirected to
  are stored for the one that was asked, against cookie_jar.rs:14.

Fairness: futures that can move are polled, timers fire; the base service need not answer.

### TransportStream

`writer` and `left` are `SendStream` with what remains of its buffer; `stream` is "lent" while the
future of `poll_data` has it. Futures of h3's callers may be dropped at any poll (`Abandons`).
A writer that finishes after all its writes were acknowledged is "done"; one that finishes, or is
dropped, out of an abandoned write is "cut".

* `stream_stream` (6 bytes, buffers of up to 3, a window of 2, every fault and dropped future):
  `IInv`, `EndIsEnd`, `StreamDrains`, and `ImplementsByteChannel`: the reader gets a prefix
  and is told of the end only if it has everything, unless the writer's own future was dropped in
  a write or with the stream (`Cut`). A finish that overtakes a buffer
  nobody abandoned is in no case a cut. Buffers exceed the window, so that each is written in parts, and
  there are at least two of them.
* `stream_stop`: `stop_sending` and `recv_id` unwrap a stream that is away while a read is
  pending: after a dropped read they panic.

Fairness: a poll makes progress; reads need strong fairness, since a dropped read disables the next
step again and again. It is justified because a poll with data at hand completes in the
same call: no reader can drop every one of them.

### LineStream

A text is a sequence of pieces: newline, other whitespace, three field names, anything else. One
module models both parsers, which differ in what they make of a line. A frame is the stretch of
the text it was cut from; the data of an event is the sequence of its lines. `PollData` is a poll
with a frame, `append_frame` included: `Lines` and `Rest` search the new pieces and slice the ring
buffer, which wraps at any place, and `Appended` passes the state from line to line. `task` is the
caller's, asleep when the body has its waker. `LinesOf`, `EventsOf` and `Items` say what a text
means with neither buffer nor state: sets of places (newlines, blank lines, lines of a field)
taken in order (`InOrder`), and what is between them.

* `lines_lines` (every text of up to four pieces out of five, five longer ones with several events
  and fields; frames of any length, three of them waiting; trailers; errors at any time):
  `IInv`, what is kept between two frames is what the text polled so far leaves open;
  `FramingDoesNotMatter`, what was returned and queued is what that text means;
  `NothingHeldBack`, `StreamEnds`.

Fairness: an awake task is polled; the peer need not send anything. A caller stops at an error.

## 3. Proofs

Each proof is for every value of the constants that the module's `ASSUME` admits: distinct
names (`ConnectionManager!ConstantsAssumption`), sizes that are natural numbers and windows that are
not empty (`SizesAssumption`), handlers and faults of the listed kinds (`KindsAssumption`). Callers of
`Middleware` set no `Cookie` header themselves (`Middleware!ConstantsAssumption`).

* `ConnectionManagerProofs`. The safety properties are not inductive: that an eviction by key
  hits the right entry depends on who has still to evict. `IInv` adds to the types: entries
  hold futures of their own peer (`CacheInv`), where calls are agrees with the futures
  (`CallInv`), futures with connections and tasks (`ConnectionInv`), and an entry stays exactly as
  long as somebody still has to evict it (`EvictionInv`). From it: `ConnectionReuse`,
  `OpenConnectionsStayCached`, `EvictionIsSafe`, `AnnouncedIsGone`, `Refinement` (of `PeerLink`).
  Of the exception to liveness: `DeadEntriesHaveEvictors`, a failed future or a closed connection in the
  cache has a creator or a task that has still to evict it, unless a creator that may be dropped
  was, and `PoisonedPeersAreLost`, what `cache_poisoned` finds with two calls holds for
  any number: the entry stays, and no call that asks for the peer from then on returns.
* `ConnectionStreamsProofs`. That a sleeping call has its waker in the handle's future (`WakeInv`)
  needs that nobody else is at this handle (`HandleInv`), and that there is nothing for it to do
  needs that credit comes only with a wake-up. `LimitInv`, the client's count lags behind the streams
  that are over, gives the bound on tasks and the free slot that each `Take` of the abstract
  specification asks for. From it: `StreamsInvariance`, `TasksAreBounded`, `SlotsRefinement`.
* `RequestExchangeProofs`. `WholeRequest` needs that no frame is lost (`FrameInv`) and what each
  half's end says about where its owner is (`ClientInv`, `ServerInv`). From it: `RequestsArriveWhole`,
  `ResponsesArriveWhole`, `FailuresHaveCauses`, and `NoStandoffWithShortBodies`: a standoff takes
  more than `2 * Window + 1` frames, the bound the run reaches. And what `EndsUnlessStandoff` rests
  on: every step leaves less to do (`ExchangesAreFinite`, with `Effort` counting what is ahead of each
  frame and each end), and where neither end can move, both are through or in a standoff
  (`OnlyStandoffsBlock`, for which `TaskInv` says what a task that ended has let go of). `ClientMay` and
  `ServerMay` are the guards of the two ends written out, in place of `ENABLED`.
* `TransportStreamProofs`. `BytesInv` accounts for each byte, `CallersInv` says who may leave a
  half with a buffer or without its stream. From them: `EndsAreEnds`, `Refinement` (of `ByteChannel`),
  and `StreamIsBack`: readers that do not drop their futures never meet the panic.
* `LineStreamProofs`, for any texts over the pieces and any framing. `SliceIsTheLine` and
  `LinesOfTheBuffer`: the three slices of `append_frame` copy the line, and a search of the new
  frame alone finds what a search of the whole buffer would. `IInv` says nothing of what was returned;
  `StreamInv` adds that returned and queued items are the meaning of the text polled so far
  (`Means`). The argument follows the text as it grows: places in order grow by one place
  (`InOrderNext`), so the parts they cut grow by one part (`PartsAppend`), so reading on from what
  was left open is reading the whole (`ReadOn`), and a line more is one field or one event more
  (`EventAppend`, `EventsAppend`), which is what `process_line` does with it (`OneLineMore`,
  `AppendedFacts`). From it: `WhatIsKept`, `AnyFraming`, `AllIsGiven`.
* `MiddlewareProofs`, for any stack of layers. That a retry replays no body does not follow from
  how often it was sent so far: `IInv` says where a body can be (on its way down, sent, or, if it is
  bytes, in slots: `BodyInv`) and where calls are (`PlaceInv`). A step of a layer is an `Await` or a
  `Return`; one lemma for each reduces the actions to what they pass on. From it:
  `RetriesDoNotReplay`. `HomeInv` adds that a jar's request, those of the layers below it and the
  one sent go to one place, so that the response is from where the jar stores it. It assumes `RedirectsAboveJars`, without which `middleware_hops` refutes it. From
  it: `CookiesAreKeptPerPeer`; and, without that assumption, `CookiesAreNotLost`.
* `MiddlewareHopsProofs`. `HopInv` says that layers with no redirect between them sent their requests to
  one place (`ToCall`), that a redirect layer counts no more redirects than there were sends
  (`CountCall`), and that errors of limits are true wherever they are (`LimitCall`). From it:
  `LimitsAreReal`, `RelativeLocationsStay`; without it `FinalAnswers`, and, for callers that send no
  GET with a body (`GetsAreEmpty`), `GetsHaveNoBody`. `BytesInv` says that until a retry layer begins
  again, a request on its way and all the frames above it have the bytes of the caller, or are GETs;
  from it `BytesAreKept`.
  `SendsAreBounded` does not follow from the counters: those of the layers below start again with
  every request, so what a call has sent says nothing of what it may still send. The invariant
  (`AllowanceInv`) gives each layer an allowance of sends out of that of the layer above: what it
  was given, less what the sends it has left may cost (`Below`), covers what the layers below it may
  spend. Entering a layer, sending again and giving up keep that balance (`EnterAllowed`,
  `SpendAllowed`, `ReturnAllowed`). `Below` is a product over the layers, as long as the stack.

`Recursion` has the induction that `LineStreamProofs` and `MiddlewareHopsProofs` need. The library's
induction theorems take an operator, which the provers cannot instantiate; here they are stated of a
set of numbers (`InductionUpTo`) and of functions (`InStep`, `RecursionExists`), and follow from the
library's well-foundedness of `<` on the natural numbers. All recursion in the modules is
recursive functions.

Only model-checked is liveness: `LinkForgotten`, `CallsReturnUnlessPoisoned`,
`LostConnectionAnnounced`, `OpensUnlessSaturated`, `RequestsAreTaken`, `ClosedIsOver`,
`EndsUnlessStandoff`, `HangsOnlyIfExempt`, `StreamDrains`, `StreamEnds`. It rests on fairness, which is
about `ENABLED`, and the prover does not handle that; what is proved of it are the parts named above. Every invariant and every safety property of
a step that a passing run checks is a theorem too.

## 4. Observations without a run

* `connection_manager.rs:65-66` says every closed QUIC connection is announced; one that closes
  before the HTTP/3 set-up is over (line 138) has no task and is not.
* `retry_failures.rs:10-12` speaks of transport errors; line 120 retries any error, also
  that of a URI without a peer, which cannot succeed.
* `follow_redirects.rs:152-153` say that the body is kept on 307 and 308, and that the slot holds
  the correct one; a streaming body, which cannot be cloned, was taken by the first hop, and the
  next one is sent an empty body without an error. The model does the same; no property of a
  passing run can say more than that streams are sent once, which Rust's moves guarantee.
* `connection_manager.rs:180`, `:223`: a client that gives up finishes its half, so that a handler
  cannot tell a half-sent request from a whole one; and a client whose upload was stopped
  returns the write error and never reads the response that caused it.
* `retry_failures.rs:112` and `:136` compute `base * 2^(attempts-1)` in `u64`. It is guarded by a base
  of at least 1 ms, so that an overflow takes 2^63 ms of waiting before it: out of reach.
* `iroh-h3-axum/src/lib.rs:129` says `accept` returns an error if request handling fails; tasks
  are detached and their errors dropped. A handler that waits for something other than its stream
  outlives the connection (the `Hung` of `ClosedIsOver`).
* A caller that keeps as many unread responses as the server allows streams waits for itself with the
  next request (`Saturated`); nothing in the client's documentation tells.
* `iroh-h3/src/lib.rs:535`: `poll_finish` finishes a stream whatever is in the buffer. After a dropped
  write the reader takes part of it for the whole; this is `ByteChannel`'s `Cut`.
* `follow_redirects.rs:47` takes a location of the form `//authority/path` for a path at the authority
  of the request, and `../x` is appended as it is; a URI reference says otherwise.
* `timeout.rs:4` announces `Error::Other`, the code returns `MiddlewareError`'s timeout.
* `sse.rs`: `last_event_id` is set by an `id:` line (204), before its event is complete, let alone
  returned; empty `data:` lines at the beginning of an event vanish in the join (197); a line
  of whitespace completes an event (163). In `ndjson.rs` a blank line yields an error item.

## 5. Not modelled, and the plan

Done, in this order: `ConnectionManager` with `PeerLink` and proofs; `RequestExchange` with proofs;
`Middleware` with proofs; `TransportStream` with `ByteChannel` and proofs; `LineStream` with proofs;
`ConnectionStreams` with `StreamSlots` and proofs.

To do: what the other liveness properties rest on, as it is proved of the exchange: that a call, task
or stream which waits has somebody who will wake it, and that what remains to be done only shrinks
(`TransportStream`, `LineStream`, `ConnectionStreams`). And streams and exchange in one module: the exchange is now what `Slow` and `Hung` say of it.

Left out: builders, conversions and facade (they hold no state between calls, and what they call is
modelled where it runs: `Body::take` in `Middleware`, the body's frames in the exchange), the attributes of cookies (the jar keeps
names and values), UTF-8, trailers in the exchange (no reader looks at them), `RemoteId` (a
lookup), the unframed `poll_send` (nothing here calls it), iroh, quinn and h3
(modelled by how they are used, as marked in `PROJECT.json`), tests and build files.
