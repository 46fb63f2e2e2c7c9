# A TLA+ verification of lively_backend

The backend is one Go process: it ingests live streams over RTMP, forwards them
to viewers over WebSocket, counts the viewers, notifies other clients over a
second WebSocket and serves a REST API.  This directory models the parts whose
correctness depends on the order of events, checks them with TLC on small
instances and proves some results with TLAPS for every instance.

## Inventory

| Part | State | Operations | Talks to |
|---|---|---|---|
| Shared buffers, `core/media/shared_buffer.go` | reference count, length, pool | CopySlice, Write, ReadN, Acquire, Release | publisher, RTMP, viewers |
| Publisher, `transport/media_channel/publisher.go` | consumers map, stored headers and metadata, two pools, an RWMutex | Acquire*Buffer, SendMessage, SendMetaData, AddConsumer, RemoveConsumer, Stop | viewers' channels |
| Media channel, `transport/media_channel/channel.go` | publishers by ID, an RWMutex | Add/RemovePublisher, Add/RemoveConsumer | RTMP sessions, viewers |
| Media WebSocket, `transport/ws_media` | per viewer a queue of 128, a stop flag, a connection | ServeHTTP/run (handler goroutine), readMessages (writer goroutine), Stop | media channel, stream service |
| RTMP transport, `transport/rtmp` | a session per connection | onConn loop, cutting of video into NALUs and audio into 512-byte buffers | media channel, stream service, stream keys |
| Stream service, `core/service/stream.go` | viewers per streamer and address | StartStream, AddViewer, RemoveViewer | event bus |
| Event bus, `infra/mem_pubsub` | subscribers by topic section, a queue of 16 each | Publish, Subscribe, Unsubscribe, Read, Close | stream service, main WebSocket |
| Main WebSocket, `transport/ws_main` | clients by topic and topics by client | subscribe, unsubscribe, closeConn, readEvents | event bus, clients |
| Accounts and stream keys, `core/service/auth.go`, `stream_key.go`, `store`, `db` | database rows | SignUp, SignIn, key lookup, transactions | HTTP API, RTMP |
| HTTP API, `transport/http`, `middleware`, `security` | none | handlers, CORS, client address, tokens, error mapping | services |
| Start-up, configuration, migrations, deployment files | none | wiring | all |

What makes each part correct, and what makes it hard:

* Buffers: the count equals the number of holders, so a buffer is recycled
  exactly when the last one is done.  Hard: holders are concurrent goroutines,
  and queues overflow in the middle of a fan-out.
* Publisher: every viewer is sent a decodable stream without holes until it is
  stopped; a slow viewer delays nobody; Stop reaches everybody.  Hard: viewers
  join and leave between any two lock sections of SendMessage.
* Media channel: one publisher per ID.  Hard: check and insertion are two lock
  sections, and both ways of leaving look the publisher up again by ID.
* Media WebSocket: every channel is closed once, every goroutine ends.  Hard:
  three parties call Stop, and a peer may stop reading.
* Bus, stream service, main WebSocket: counts are exact and in order, indexes
  agree, slow clients harm nobody.  Hard: readEvents takes no lock.
* RTMP: NALU and frame boundaries survive the cutting, no path keeps a buffer.
  Hard: short reads, streams that end anywhere, unsigned arithmetic at lengths 0
  and 1 and near 2^32.
* Accounts, HTTP API: a name has one user and a user one key; what a request was
  answered is true of the database.  Hard: concurrent sign-ups between check and
  insert, statements that fail, commits whose answer is lost, crashes.

## Modules

| Module | Models | Status |
|---|---|---|
| `BufferPool` | abstract specification: what pooled buffers promise | written, `PoolSound` proved |
| `MediaChannel` | channel.go with any number of sessions and viewers; a publisher's inside is one step | written, checked, proved |
| `Publisher` | one session in detail: publisher.go, consumer.go, shared_buffer.go and the session loop of rtmp.go | written, checked, proved |
| `MediaChannelProofs` | theorems about `MediaChannel` | written |
| `PublisherProofs` | theorems about `Publisher` | written |
| `EventBus` | infra/mem_pubsub with the program's one subscriber | written |
| `StreamService` | the viewer counts and who calls for them; extends `EventBus` | written |
| `MainSocket` | clients, their subscriptions and readEvents; extends `EventBus` | written |
| `Notifications` | composes the last two over the shared bus; properties | written, checked, proved |
| `BufferProofs` | theorems about the reference counts and payloads of `Publisher`; extends `PublisherProofs` | written |
| `SessionProofs` | theorems about what a viewer of `Publisher` is sent, and its three refinements; extends `BufferProofs` | written |
| `NotificationsProofs` | theorems about `Notifications` | written |
| `MediaFeed` | abstract specification: what an RTMP session feeds its publisher | written, checked, proved of both implementations |
| `RtmpIngest` | one session's reading: messages cut into NAL units and buffers, uint32 arithmetic | written, checked, proved |
| `RtmpIngestProofs` | theorems about `RtmpIngest` | written |
| `Accounts` | HTTP requests and the lookup of a stream key, on one database | written, checked, proved |
| `AccountsProofs` | theorems about `Accounts` | written |
| `MCPublisher`, `MCMediaChannel`, `MCNotifications`, `MCRtmpIngest`, `MCAccounts` | instances for TLC | written |

`Publisher` implements both `BufferPool` (buffers) and `MediaChannel` (who is
registered, a member, closed), by the refinement mappings at its end.
`RtmpIngest` and `Publisher` both implement `MediaFeed`: the first shows that the
loops of rtmp.go produce frames in that order, the second that this order is
the one its sender produces, so that neither assumes of the other what the
other does not do.  All four are theorems.  A stream key that `Accounts` finds in OnConnect is what
`MediaChannel` calls the ID of a session.

### Publisher

| Variables | Code |
|---|---|
| `registered` | the entry of the publisher in `MediaChannel.publishers` |
| `members`, `keyed`, `hdr` | `publisher.consumers`, `sentVideoKeyFrame`, the three stored buffers |
| `spc`, `cur`, `left`, `todo`, `removed`, `writing` | the RTMP goroutine in onConn, sendVideoData or sendAudioData, and SendMessage; `writing` is true while `pub.consumers[id] = data` runs |
| `refs`, `pooled`, `content` | SharedBuffer.refs, the sync.Pool, the bytes |
| `vpc`, `init`, `conn` | the handler goroutine in wsConsumer.run, the rest of sendInitialData, the TCP connection |
| `wpc`, `recv`, `log`, `stopped` | readMessages, its position in the channel, the channel, `wsConsumer.stopped` |
| `sent`, `lost` | history: payload numbers and references dropped without Release |

Steps are cut where the code takes or drops a lock, uses a channel or changes a
count.  Sections under `mu.Lock` are one step; the read-locked loop of
SendMessage is many (`spc = "loop"`), during which the `Lock` sections of
others are disabled (`Unlocked`).  The channel is an append-only log with a read
index, so that properties can speak of all a viewer was sent.  A frame
is `kind` (type and key-frame flag), `cont` (continuation) and a payload number.

Left out: bytes and lengths, timestamps, the service calls that cannot fail,
and the errors of uuid and upgrade, after which nothing has been shared yet.
`CopyBuf` stands for allocations: each member is allocated once.

### MediaChannel

`publishers`, `members` and `closed` are the maps and the closed channels, `spc`
and `vpc` the position of each session and viewer in its Add and Remove calls,
`target` the publisher a viewer is calling.  `Overlap` says whether two
connections of one user may be inside AddPublisher at once; nothing in the code
prevents it, so runs and theorems with `Overlap = FALSE` say what holds as long
as it does not happen, and `same_user_twice` shows what follows when it does.

### Notifications

| Variables | Code |
|---|---|
| `topicSubs`, `queue` | the topics of the one subscriber in `bus.topicSubs`, its channel |
| `viewers`, `handler` | `streamService.viewers`; the handlers that call AddViewer and RemoveViewer |
| `topicConns`, `connTopics`, `conn` | the two maps of the transport; each connection as its writes find it |
| `rpc`, `rev`, `rtodo`, `rlive`, `rcl` | readEvents: position, event, rest of its range, whether the set it ranges over is still the topic's, the connection it sends to |
| `wpc`, `wev` | readData of each client and the event it writes |
| `requests` | counter for a bound |
| `last`, `since`, `told` | history: last event of a topic, when a client subscribed, what it was told last |

Whatever runs under the service's or the transport's mutex is one step, and so
is Publish, which never waits; the head of `EventBus` says why that
needs a queue of at least three.  readEvents takes no lock and is cut at every
access to the shared maps.  A Go map that changes while it is ranged over does
not produce an entry that was removed and may or may not produce one that was
added: `rtodo`, `rlive`.  The runtime may notice overlapping accesses and kill
the process: `MayRace` allows that, and the properties concern the
executions in which it does not.  `WriteFails` is the moment at which the
program first sees that a peer is gone.

Left out: JSON, the token check and the upgrade, the subscriber's Close (nothing
calls it).

### RtmpIngest

| Variables | Code |
|---|---|
| `pc` | the RTMP goroutine in onConn, sendVideoData, discardNALU, sendAudioData, sendSeqHeader |
| `left`, `need`, `frame` | bytes of the message still to come, `remaining`, the frame being sent |
| `len`, `held` | SharedBuffer.len of the buffer in hand; buffers acquired and not released |
| `out`, `units`, `owed` | history: what SendMessage got, the frames the messages held, the bytes viewers were promised |
| `excuse` | history: the encoder or the connection gave a reason to end |

Bytes are counted, not stored; payload identity is `Publisher`'s subject.  The
connection is an io.Reader: a Read returns any number of bytes up to what fits,
may fail at any time, and may report the end of the message with the last bytes
or after them (`Discard` and `DiscardEnds` overlap for that reason).  `Mod`
stands for 2^32, and `NaluLen`, `Length` and `Announced` wrap as uint32 does.
`Cut` is the reference cutting: buffers full but for the last, all but the first
flagged as continuations.

### Accounts

| Variables | Code |
|---|---|
| `users`, `keys` | the committed rows of the tables |
| `tokens` | the users CreateToken has been called for |
| `call`, `pc`, `user`, `res` | each request: what it asks, where its goroutine is, the user filled in by service or middleware, its response |

A request is a process.  CORS, the routes, DecodeBody and the bearer token come
first and each may answer; then the handler runs one database statement per
step.  SignUp is five steps: the check of the name, the insert of the user,
which begins the transaction and waits while another one holds the name in
the unique index, the insert of the key, the commit, the token.  Rows become
visible at the commit, which may take effect and still be reported as failed; any
other step may fail (`Fails`), and `Crash` drops every request in progress with
its transaction.  A request's number stands for the random id and key it
generates, a password for its hash: collisions and cryptography are left
out.  An operator may switch a key off.  `call[r].known` is history: the names
whose sign-up had been answered when the request came.

## Runs

| Run | Bounds | Shows |
|---|---|---|
| `publisher_video` | 2 viewers, 2 pooled buffers, queue of 1, 3 payloads in frames of up to 2 | `NoPanic`, `RefsExact`, `PayloadIntact`, `VideoWellFormed`, `NothingSkipped`; `BuffersRecycled`, `ImplementsChannel` and `ImplementsFeed` (refinements) |
| `publisher_live` | 1 viewer, 3 pooled buffers, 2 stored copies, queue of 1, 3 frames | `SendReturns`, `StoppedEnds`; `TypeOK`, `RefsExact`, `HeadersInOrder` while headers and metadata are stored, replaced and overflow a joining viewer's queue |
| `channel_reconnect` | 3 sessions (2 of one user), 3 viewers | `TypeOK`, `RegistryExact`, `NoPanic`, `LeftIsStopped` |
| `notifications` | 2 viewers of one address, 2 clients, topics `stream` and `stream.u.viewers`, bus queue of 3, 2 requests | `TypeOK`, `IndexesAgree`, `CountCurrent`, `ToldTheCount`, `ToldInOrder`, `ReaderReturns` |
| `ingest` | 2 messages of up to 12 bytes, buffers of 7 and 3, lengths modulo 32 | `TypeOK`, `WireAligned`, `OutputExact`, `BuffersReturned`, `OnlyBadInputEnds`, `MessageHandled`; `ImplementsFeed` (refinement) |
| `accounts` | 3 requests, 1 account and 1 free name | `TypeOK`, `AccountsWhole`, `TokensAreUsers`, `AnswersTrue`, `SignUpSticks`, `KeyOpensOwnStream`, `RequestsAnswered` |
| `late_join` | 1 viewer, 1 frame | `StopStopsAll` fails |
| `mid_frame_join` | 1 viewer, an audio frame of 2 buffers | `FramesStayWhole` fails |
| `map_race` | 2 viewers, 1 key frame | `AddConsumerReturns` fails |
| `same_user_twice` | 2 sessions of one user, 1 viewer | `NoPanic` fails |
| `notifier_panic` | 1 client, 1 event | `NotifierSurvives` fails |
| `null_body` | 2 requests | `InvalidBodyAnswered` fails |

Why the bounds are enough: two viewers are what it takes for a fan-out to visit
one while the other joins, leaves or overflows; two buffers make reuse happen
while a viewer still holds the first; frames of two buffers are the shortest
with a continuation; a queue of one overflows with one message more than
it holds, as 128 does, and `publisher_live` needs three buffers because a viewer
that stalls and is then evicted keeps two of them.  `MaxSends` and `CopyBuf` cap the counters in the guards
of OpenFrame and SendMetaData.  `publisher_video` uses
symmetry of viewers and of buffers; the liveness runs do not.

In `notifications`, a topic and a section of it make the bus queue two copies of
one event, three slots let it overflow with two events, and two clients are what
it takes for one to leave or join while the other is served.  `MaxRequests` is
the number of requests of all clients together, `MaxStarts` allows a stream to
start only as one of the first events; leaving is not bounded.  Several
addresses and streamers are covered by the theorems of `NotificationsProofs`, which hold for
any numbers of them and any queue.

In `ingest`, a video buffer of 7 holds the header of a unit and two bytes more,
so a message of 12 bytes holds a unit of two buffers, or two units of which
the first is lost; an audio frame of 12 bytes needs four buffers of 3.  The
declared lengths include 0, 1, the sizes of the buffers and the ones at which
`NaluLen`, `Length` and `Announced` wrap; 32 is the smallest power of two above
every real length.  In `accounts`, three requests are two sign-ups that race for
a name and a third that observes the result, or a key, its deactivation and an
encoder; the account that exists at first has a password no request gives, so
that wrong credentials occur.

The theorems below remove these bounds for every safety property and refinement of the
passing runs, except that three of `channel_reconnect` are proved under the
assumption that run makes too (`Overlap = FALSE`).

`RtmpIngest` ends in `pc = "over"`; in `Accounts`, `Crash` is always possible, so
that a request which is never answered shows in `RequestsAnswered` and not as a
deadlock.  Deadlock is checked for `Publisher` and `Notifications`, whose only legitimate
ends are listed in `Finished`; `channel_reconnect` and `same_user_twice` switch it off, as every
session and viewer ends.

### Fairness

`FairSpec` gives weak fairness to the steps of each goroutine that the Go
scheduler will run when they can proceed (SenderStep, HandlerStep, WriterStep).
A goroutine waiting for `mu.Lock` is among them, because Go's RWMutex bars new
readers once a writer waits.  Nothing is assumed of the encoder, of peers, or of
`conn.Write`: a viewer may stop reading for ever, and `SendReturns` holds all
the same.  `StoppedEnds` needs the viewer's own writes to return and says so in
its premise, `Responsive(c)`.

In `Notifications`, `FairSpec` is weak fairness of readEvents alone.  It waits
for the readData of one client at a time, so that `ReaderReturns` again has
`Responsive(c)`, for every client, as its premise: one client that
takes no data is enough to stop the notifications of all.

In `RtmpIngest`, the reading and the cutting steps are weakly fair: every Read
returns bytes, the end of the message or an error; nothing is assumed of when
messages come.  In `Accounts` the steps of each handler are (its statements
return), `Fails` and `Crash` are not: they may happen and need not.  An insert
that waits for another transaction goes on when that one ends.

## Where code and documentation disagree

* `late_join`: `publisher.go:22-23` says that stopping a publisher stops all
  its consumers.  AddConsumer looks the publisher up before it inserts, and a
  RemovePublisher in between leaves the viewer in a map nobody looks at again;
  its goroutine and connection stay.
* `mid_frame_join`: a viewer that joins in the middle of a long audio frame is
  sent raw bytes that are not framed as the WebSocket protocol requires
  (`README.md:13`).
* `map_race`: SendMessage writes to the consumers map under the read lock,
  which kills the process if a joining viewer reads the map meanwhile, although
  `media.go:21-24` lists the ways AddConsumer returns.
* `same_user_twice`: AddPublisher may accept two publishers with one ID
  (`media.go:14-16`).  In the counterexample the viewer of the first session
  leaves through the second one, and the next send of the first one panics.
* `notifier_panic`: closeConn closes the channel that readEvents may be about to
  send on (`ws.go:183`, `conn.go:31`); the panic ends the process, although one
  client's notifications (`README.md:12`) should be no business of the other
  transports in it (`README.md:17`).

* `null_body`: `codec.go:11-12` promises a 400 response for every invalid body.
  The body `null` decodes into a nil pointer on which Valid is called; the
  handler panics and the connection is closed without a response.

Met while modelling, and not the subject of a run:

* `auth.go:24` refuses names shorter than 4 with a message that says "between 6
  and 40"; passwords of up to 100 characters are accepted, of which bcrypt takes
  72 bytes, so that a longer one is answered 500.
* The loser of a race for a name is answered 500 and not 400 "Username is taken":
  MapError knows no unique violation.
* A NAL unit of one byte is neither sent nor is its buffer released (`Lost` in
  `BuffersReturned` and `Cut`).
* A header stored between sendInitialData's snapshot and the insertion of the
  viewer is not sent to that viewer until it is replaced (`publisher.go:94`).
* When AddConsumer fails, the goroutine of readMessages is left behind
  (`consumer.go:122`); no comment or test promises otherwise.

## Proofs

`BufferPool!PoolSound`: a buffer is free exactly when nobody holds it; the
invariant is inductive as it stands.

`MediaChannelProofs`, from `IdsAssumption` alone:

* `ChannelTypes`: `Spec => []TypeOK`.
* `RegistryTheorem`, with `Overlap = FALSE`: `RegistryExact` is not inductive,
  because a session between check and insertion must still find its entry
  empty.  `RegistryInv` adds that (`InsertingAlone`), and that entries are filed
  under the publisher's own ID (`OwnEntry`).
* `NoPanicTheorem` and `LeftIsStoppedTheorem`, with `Overlap = FALSE`:
  `MembershipInv` says that a consumer is in at most one map, that of a
  publisher with the ID it asked for, and that while the publisher streams the
  consumer is open and leaves only through that same publisher.  The last part
  needs `RegistryInv`: the second lookup finds the same session.

`PublisherProofs`, from `Publisher`'s assumptions on its constants:

* `SessionTypes`: `Spec => []TypeOK`.  `TypeInv` states it in four parts, each
  with what makes it inductive: the message between two fragments has everything
  but a buffer, and readMessages has received no more than was sent.
* `NoSendOnClosed`: the half of `NoPanic` about closed queues.  `LockInv` is the discipline of
  the locks: members are open until Stop, after which the session sends no more
  (`MembersOpen`); the loop of SendMessage visits members only
  (`LoopOverMembers`); nobody else knows of a viewer before its
  handler has inserted it (`JoiningUnknown`).

`BufferProofs`, from the same assumptions:

* `RefsExactTheorem`: `Spec => []RefsExact`.  The holders of a buffer are split
  into `Sending`, `Keeping`, `Waiting` and `Queued`, which are disjoint
  (`PartsApart`); every step that changes a count adds, removes or moves one
  holder, or, when the loop starts, adds one for each member.  The induction
  (`RefInv`) needs more than `RefsExact`: a copy not yet filled has no references
  (`FreshFree`), and one that is stored, or still to be sent to a joining
  viewer, is filled (`StoredInv`) and so held by the publisher, which is why no
  viewer ever puts a copy into a pool; `CursorInv` says that metadata, and
  nothing else, is sent from a copy.
* `NoPanicTheorem`: `Release` never goes below zero (part of `RefInv`), which
  completes `NoSendOnClosed`.
* `PayloadTheorem`: `Spec => []PayloadIntact`.  A buffer the transport takes has
  count zero, hence no holder, hence is in no queue until the loop starts
  (`TakenAlone`); from then on its content is fixed, and a filled copy is never
  written again (`CopyConstant`).

`SessionProofs`, from the same assumptions:

* `HeadersTheorem`, `NothingSkippedTheorem`, `VideoTheorem`: `Spec =>
  []HeadersInOrder`, `[]NothingSkipped`, `[]VideoWellFormed`, from one invariant,
  `DeliveryInv`.  The message in hand has the highest payload number and nothing
  stored, queued or waiting to be queued has a higher one (`NumbersOK`); a viewer
  that joins has been sent nothing before its handler inserted it, and each kind
  of initial data once (`JoinOK`); a viewer evicted in this round is not visited again
  and is gone before the next one (`RemovedOK`); a member is marked as keyed exactly when
  its channel holds a key frame (`KeyedMembers`).  The core is `KeyedLevel`: a
  keyed member that is not being evicted has been sent the last payload, or the one before as
  long as the loop of SendMessage has not come to it.  What is queued next then
  follows without a hole, and a continuation directly follows its fragment.
* `FeedTheorem`: each step maps to a step of `MediaFeed` or to none; the induction
  needs only that headers come in one piece (`WholeInv`).
* `ChannelTheorem`: each step maps to a step of `MediaChannel` or to none.
  `ChannelInv` says that nothing is registered when the session inserts its publisher and that
  whoever the loop evicts is still a member or has been stopped by its own
  handler; `LockInv` shows the panics of the channel cannot happen.
* `BuffersTheorem`: `Spec => BuffersRecycled`.  A set of holders can lose a
  member only once, a count can be lowered any number of times; the two agree
  because a viewer has at most one reference to a pooled buffer (`RefOnce`): a
  buffer still in its queue is never in hand for it (`TodoAlone`) nor queued
  twice (`QueuedOnce`).  With `RefInv` a buffer is then pooled exactly when it
  has no holder (`FreeExact`).  A reference forgotten on overflow counts as
  the holder "nobody", for which reason `ConstantsAssumption` keeps the name
  apart from the viewers'.

`NotificationsProofs`, from the assumptions of `EventBus`, `StreamService` and
`MainSocket`:

* `IndexesTheorem`: `IndexInv` adds to `IndexesAgree` that readData of a closed
  connection is idle (`ClosedIdle`), or a late failure of its write would make
  the connection look alive again.
* `CountTheorem`: `CountInv` relates the service's number for an address to the
  handlers that watch from it (`PerAddress`), and the last number published to
  the addresses with a number above zero (`PublishedCount`).
* `TypeTheorem`: `TypeInv` in four parts, of which `BusOK` contains that the
  queue never exceeds its capacity.
* `ToldInOrderTheorem`: `OrderInv` follows an event from the queue through
  readEvents and readData to the client.  The numbers do not
  decrease along the queue, the one in hand is not above them, the ones being
  written not above that, and what a client was told last not above any of
  them (`Passed`); and none is above the last one published (`Known`).
* `ToldTheCountTheorem`: `Delivery` says where the last event of a topic is as
  long as a subscriber waits for it: in the queue, in hand with that client still in the
  range, being written to it, or told.  Its steps need `IndexInv` (a subscriber's topic
  is subscribed at the bus, so that a publication queues at least one copy) and
  `OrderInv` (what was told or overtaken since is not newer); `CountTheorem`
  turns the number told into the number of addresses.

`RtmpIngestProofs`, from `SizesAssumption`:

* `IngestTypes`, `WireTheorem`, `EndTheorem`: their invariant adds to the types
  and `WireAligned` what a frame in progress is (`Phase`: the bytes read and
  those to come are its total), that a frame whose announced length wraps is
  longer than its message (`Aligned`), which is why the session is over before
  the next header would be misplaced, and why the session may have to end
  (`Excused`).
* `BuffersTheorem`: `Counted` relates `held` to the number of lost units and the
  buffer in hand; a step starts at most one frame, which adds at most one lost
  unit.
* `FeedTheorem`: each step maps to a step of `MediaFeed` or to none.  A step that
  ends the session maps to End because nothing gives up between two buffers.
* `OutputTheorem`: `Spec => []OutputExact`, which compares with a fold of the
  reference cutting over all units.  `OutInv` adds that within a frame the
  output is what the units before it give and the first `Gone` buffers of this
  one (`Partial`), where a full buffer times `Gone`, the buffer in hand and the
  bytes to come make up the frame.  `CutPiece` shows by lemmas on division that the
  buffer sent next is the one the reference has at that place.  That the fold
  appends one unit's buffers for one unit more (`FlattenAppend`) is an induction
  on the length: it is reduced to the least element of a set of naturals
  (`Least`), which follows from the well-foundedness of their order.

`AccountsProofs`, from `AccountsAssumption` (existing accounts have ids and names
of their own) and `CallAssumption`:

* `AccountsTypes`, `WholeTheorem`, `TokensTheorem`, `AnswersTheorem`,
  `SticksTheorem`, `KeyTheorem`: six of the seven properties of the run, for any number of
  requests, names, passwords and accounts, from one invariant.  `Rows`: a user
  was there at first or committed by the request whose number it has, and that
  request is past its commit.  `Locks`: a transaction's name is free and no other
  transaction's, which is what the unique index does and the check in SignUp
  does not.  `Each`: where a request is and what it was answered (`Stage`,
  `True`, `Own`, `Sticks`), stable while others act because rows of `users` and
  tokens are never removed (`OtherKeeps`).

Only model-checked: liveness (`SendReturns`, `StoppedEnds`, `ReaderReturns`,
`MessageHandled`, `RequestsAnswered`), which needs fairness and ENABLED and is
out of this prover's reach, and the counterexamples of the runs that expect a
violation.  Every safety invariant, action property and refinement of the
passing runs is a theorem.

## Not modelled

* Start-up, configuration, migrations, deployment files: wiring and scripts
  without state of their own.
* `packet.go` and the Close of a bus subscriber: nothing calls them.
* Signing of tokens, hashing of passwords, TLS, the RTMP and WebSocket
  libraries: calls into libraries, present by what they return.
* RealIP's choice of an address and Logger's lines: they change no state; the
  addresses of `StreamService` are arbitrary members of a set.
* Timestamps and the bytes of the WebSocket headers: pure layout.

## Plan

1. `MediaChannelProofs`: what remains true of the registry and of the viewers
   with `Overlap = TRUE`.
2. Conditional forms of the properties that the six violation runs refute: which
   viewers StopStopsAll holds for, and that frames stay whole for every viewer
   that does not join within one.
3. `Notifications`: an abstract specification of the delivery of events to one
   client, and the refinement shown by `OrderInv` and `Delivery`.
