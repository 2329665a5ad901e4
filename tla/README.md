# TLA+ models of the SSF hub and its receivers

This directory specifies, model-checks and proves properties of the code of this
repository: the SSF hub (`ssf-hub`), the SSF receiver library (`ssfreceiver`), the
security event library (`secevent`) and the older receiver (`archive`). Paths below are
relative to the repository's root.

## 1. The system

A *transmitter* posts security event tokens (SETs) to a **hub**; the hub decides which of
its registered *receivers* want the event and publishes one message, with the list of
their ids, on a unified Google Cloud Pub/Sub topic. Every hub whose *hub receiver* runs
has a subscription of its own to that topic; it skips the messages it published itself
and posts the events of the others to the webhooks of its receivers. Apart from the hub, a
program may use the **receiver library** to set up a stream with a transmitter and poll
it for events, acknowledge them and manage the stream.

### ssf-hub

| Part | State | Operations | Hard behaviours |
|---|---|---|---|
| `internal/registry` | map of receivers with counters, one RW lock | Register, Unregister, Update, Get, GetByEventType, FilterReceivers, IncrementEvent*, SetReceiverStatus, UpdateStats | updates racing the counters of deliveries under way; ids that leave and come back; lost at the end of the process |
| `internal/controller/broker.go` | none of its own | ProcessSecurityEvent, RegisterReceiver, UnregisterReceiver, UpdateReceiver, GetBrokerStats, Start, Stop | an audience decided on a snapshot; counting before a publish that may fail; a publish that succeeded but is reported as failed |
| `internal/hubreceiver` | running flag, stop channel, metrics | Start, Stop, consumeMessages, processInternalMessage, HealthCheck | pull under way while stopping; acknowledging before delivering; repeated Start and Stop |
| `internal/distributor` | metrics | DistributeToReceivers, performDeliveryWithRetries | one goroutine per receiver with a stale copy of it; retries with lost answers; metrics without a lock |
| `internal/pubsub/client.go` | instance id, topic | PublishEvent, CreateHubSubscription, DeleteHubSubscription, PullInternalMessages | at-least-once delivery; a subscription that outlives its hub |
| `internal/pubsub/mock_client.go` | topics, subscriptions, processed marks | the same, in memory | marks a message processed before its handler runs; ids that may collide |
| `internal/handlers`, `cmd/*` | none | HTTP routes, start and shutdown of a process | order of shutdown of server and broker |
| `pkg/models` | none | EventFilter.Matches, validation, conversion to messages | filter operators at their edges |

`cmd/server` (Google Pub/Sub) creates the broker but calls neither Broker.Start nor
Broker.Stop; `cmd/server-mock` calls both. A hub is therefore, in the models, one whose
process starts its broker or one that only publishes (constant `BrokerStarted`).

### ssfreceiver, secevent, archive

| Part | State | Operations | Hard behaviours |
|---|---|---|---|
| `ssfreceiver/stream` | stream id, configuration, authorizer, retry settings | Poll, Acknowledge, auto-acknowledge, configuration, status, subject and delete operations | polls and acknowledgments lost or repeated between the library's retries and the transmitter; a failed auto-acknowledge after events were returned |
| `ssfreceiver/internal/retry` | none | Do with backoff | number of attempts, cancellation, which answers are retried |
| `ssfreceiver/builder` | configuration under construction | Setup: find an existing stream or create one | two set-ups at once; a failure after the stream was created |
| `ssfreceiver/types`, `auth`, `options` | none | validation, headers, options | - |
| `secevent/pkg/*` | none (id generator: a mutex; parser: its options) | build, sign, parse, validate SETs; subjects; schemes | what is built and what is read back differ; keys that are retired between signing and reading; generated ids |
| `archive/pkg` | poll goroutine, configuration | ConfigureSsfReceiver, PollEvents, DeleteReceiver, status operations | acknowledging before parsing; a panic of one goroutine while the other has SETs in hand; deleting while a poll runs, twice, or from the callback; a status update that is carried out after its caller gave it up |

### What makes each part correct

* **Hub path of an event**: a webhook gets only events published for it by another hub,
  under a configuration that wants them; each handling of a message starts one delivery per
  receiver; the counters and the answer to the transmitter agree with what happened; a
  consuming hub serves the audience of an event in time.
* **Delivery**: at most `MaxRetries + 1` requests, an outcome that tells the truth, an end.
* **Hub receiver**: a loop that is stopped ends, and reads next to nothing on its way; a loop
  that runs handles what is published, and each message once.
* **Poll stream**: an event is acknowledged only if a poll returned it or is about to; an
  operation that reports success has acknowledged what it was to acknowledge.
* **Stream control**: the copy of the configuration that decides where to poll agrees with
  the transmitter's; an operation that reports success has taken effect.
* **Setup**: one stream of the wanted kind, and no second one for want of an answer.
* **Archived receiver**: polling and deleting do not block each other for ever; nothing polls
  once the receiver is deleted; what is acknowledged reaches the program; a status that is
  reported is one the stream had.
* **Tokens**: what is built and valid is read back unchanged; what is accepted is valid,
  and vouched for by a current key, the expected issuer and audience.

## 2. Modules

| Module | Models | Extends |
|---|---|---|
| `HubRegistry` | `internal/registry`: receivers, matching, counters | - |
| `Distributor` | `internal/distributor`: delivery goroutines | `HubRegistry` |
| `HubEvents` | broker, hub receiver, Pub/Sub client and process life: a fleet of hubs | `Distributor`, instantiates `Fanout` |
| `Fanout` | abstract: what the hubs promise about an event | - |
| `HubInvariant` | the inductive invariant of `HubEvents` | `HubEvents` |
| `HubEvents_proofs` | theorems and proofs | `HubInvariant` |
| `MCHubEvents` | constants of the model-checking runs | `HubInvariant` |
| `Requests` | `ssfreceiver/internal/retry`: one request per goroutine with its attempts | - |
| `StreamSetup` | `ssfreceiver/builder`: Setup by several programs of one account | `Requests` |
| `Delivery` | abstract: what a polled stream promises about an event | - |
| `PollStream` | `ssfreceiver/stream`: Poll, automatic acknowledgment, Acknowledge | `Requests`, instantiates `Delivery` |
| `StreamControl` | the same stream with its other operations and the copy of its configuration; implements `PollStream` | `PollStream`, instantiates `Requests` again |
| `Requests_proofs`, `StreamSetup_proofs`, `PollStream_proofs`, `StreamControl_proofs` | lemmas, theorems and proofs | the module, TLAPS |
| `MCStreamSetup`, `MCStreamControl` | constants and symmetry of the runs | the module |
| `MockPubSub` | `internal/pubsub/mock_client.go`: topic, subscription objects, marks | - |
| `LocalHub` | the hub of `cmd/server-mock`: `internal/hubreceiver` with its loops on the in-memory client | `MockPubSub` |
| `LocalHub_proofs` | its invariant, theorems and proofs | `LocalHub` |
| `Subjects` | `secevent/pkg/subject`: formats, constructors, validation, JSON | - |
| `CaepEvents` | `secevent/pkg/schemes`: CAEP and SSF event types | `Subjects` |
| `SecEvents` | `secevent/pkg` builder, id, token, signing, parser: the way of a token | `CaepEvents` |
| `SecEvents_proofs` | its invariant, theorems and proofs | `SecEvents` |
| `MCSecEvents` | the drafts and foreign tokens of the run | `SecEvents` |
| `ArchiveEvents` | `archive/pkg`: what parsing makes of a SET | - |
| `ArchiveReceiver` | `archive/pkg/receiver.go`: program, poll loop, transmitter | `ArchiveEvents` |
| `ArchiveReceiver_proofs` | its invariant, theorems and proofs | `ArchiveReceiver` |
| `MCArchiveReceiver` | the SETs of the run | `ArchiveReceiver` |

**How state and actions correspond.** `registry[h][r]` is `MemoryRegistry.receivers` of hub
`h`: a receiver is reduced to its event types, the events its filters let through, whether
the distributor can authenticate to it (hmac and oauth2 are accepted at registration but
fail at delivery), and its three counters. Each registry operation holds the lock for its
whole body and is one step. `ingest[s]` is the program counter and the local variables of
the handler of POST /events for submission `s`: parsing (`Arrive`), the audience
(`Filter`), one counter at a time (`CountReceived`), the publish and its confirmation.
`inbox[h][s]` is what Pub/Sub keeps of the message on hub `h`'s subscription together with
the handler that is working on it; `jobs` are the goroutines of `deliverWebhook`, one per
handling and receiver, each with the configuration it captured. `phase[h]` is the life of
a process: up, consuming, stopped, dead. A restarted process is another element of `Hubs`,
because its registry is empty and its instance id new.

`request[c]` is the loop of `retry.Do` for goroutine `c`: which attempt it is at, whether the
transmitter has acted on it (`answering`), the answer, and whether the body has been read.
The loop passes the same `http.Request` to the HTTP client at every attempt. A body that has
been read is at its end: on a new connection net/http then refuses to send (`BodySpent`), on a
reused one its own retry rewinds the body, and both are possible in the model. A request may
be lost, its answer may be lost, a retryable status may come before or after the
transmitter has acted, the caller's context may end, and a request that was given up on its
way may still be carried out (`late`, `straying`). In `StreamSetup`, `setup[c]` is the part of
`StreamBuilder.Setup` program `c` is in, with the streams the query was answered with;
`streams[c]` are those the transmitter made for it. In `PollStream`, `call[c]` is the
operation of goroutine `c`; the transmitter follows RFC 8936 as the code relies on it: it
offers an event until it is acknowledged. Three variables are histories the properties need:
`faults` counts the failures a request met, `gaveUp` the programs that gave up a creation on
its way, `forfeited` the events in hand when a program ended.

In `StreamControl` a stream object has the operations of `operations.go` as well.
`config` is `s.config`, reduced to the delivery endpoint it names, because that is all that
Poll and Acknowledge ask of it; `remote` is the stream at the transmitter. Poll reads
`s.config` twice, for its guard (`Pass`) and for the endpoint of its request (`DoPoll`), and
the configuration may be replaced in between: `gate[c].moved` remembers that. A command is
asked (`Ask`), carried out (`Served`, or `ServedLate` long after it was given up), and returns
(`Configured`, `Succeeded`, `Failed`). What the goroutines of a program use of all this is
a constant choice per behaviour (`Programs`), so that a run can mix operations in pairs.
`held`, `carried`, `alone` and `unsure` are histories the properties need.

In `LocalHub`, `owner` is the goroutine that calls Start and Stop, between the locked and the
unlocked parts of them; `loop[l]` is a goroutine of `consumeMessages`, one for each Start, with
the subscription object it looked up and the messages its pull has yet to process. `running` is
the flag, `closed` the state of `stopChan`. In `MockPubSub` a subscription that is deleted and
created again under its name is an object of the next generation, because a pull keeps the
object it found. A message is told apart by its `MessageID`, which two messages may share. What a
pull takes (`messagesToProcess`) is said by the rank of each new message on the topic instead of
by a loop over it, as the one member of a set.

In `SecEvents` one token goes through `stage`: a draft is built, signed, sent and parsed, while
`published`, the keys of the transmitter's JWKS document, changes and the parser is set up
option by option. A text in a subject is a class (proper, blank, malformed) and whether it is
padded with spaces; an event's payload is a function on its JSON members; an id is its length,
that of its prefix included. `random` is what `crypto/rand` does when the id is generated: it
gives bytes, fails once, or fails. RandomGenerator then takes a UUID in place of its bytes
(`generator.go:117`), which needs bytes of its own and panics without them; a generator that needs
no bytes asks for none.
The constructors, the marshalling, the unmarshalling and the validation are operators of
`Subjects` and `CaepEvents`. A subject is a tree, written as a function from the paths of component
names to nodes: the code's recursion over the components of a complex subject, of any depth, is
a quantifier over paths here.

In `ArchiveReceiver`, `main` and `loop` are the two goroutines, which meet on the channel
`terminate`: a send and its receive are one step (`Terminate`). `poll[p]` is the call of
PollEvents in goroutine `p`: it requests, acknowledges, and only then parses. Answers are
what the code makes of them: it hardly ever looks at their status code. A status call is three
steps: the request (`AskStatus`), what the transmitter does with it (`ServeStatus`: it may leave the
status as it is, and answer with it or with none), and the return (`ReturnStatus`), or a return
without an answer (`StatusUnanswered`), after which the update may still be carried out
(`LateUpdate`), during another call, say. `had` is a history: the statuses of the stream since the
call under way began. DeleteReceiver may be called from the callback (`CallBack`) and again after
it has returned; a panic (`crashed`) ends both goroutines where they are, and what they had in
hand is lost (`LostInPanic`).

**What is abstracted.** Tokens, payloads and ids are model values; a filter is the set of
events it lets through; durations are not measured (a backoff ends at some time, a message
that may outlive its TTL does so at any time). Every receiver is active, because no request
of the hub sets a status.

## 3. Runs

| Run | Instance | Checks | Shows |
|---|---|---|---|
| `hub_retries` | publishing hub h1, consuming hub h2, 1 receiver, 1 event that may expire, 3 configurations, 2 retries | `TypeOK`, `OnlyWantedDeliveries`, `AttemptsTruthful`, `KeepsPromise` | only wanted deliveries, truthful outcomes, refinement of `Fanout` |
| `hub_redelivery` | 2 consuming hubs, a message delivered up to twice, a receiver that comes, changes and goes | `OneJobPerHandling`, `CountersBacked`, `AcceptedIsPublished`, `CountersKept` | duplicates start no second job in one handling; counters count what happened; answer, topic and counters agree |
| `hub_liveness` | 2 events, one malformed, one expiring, fair goroutines | `DeliveriesSettle`, `RequestsAnswered`, `AudienceServed` | everything begun ends, audiences are served |
| `hub_own_events` | a single consuming hub | `OwnEventsDelivered` violated | a hub skips its own events (`hubreceiver.go:173`), against `ssf-hub/README.md:44` |
| `hub_wildcard` | a receiver subscribed to `*` | `WildcardGetsAllEvents` violated | ingest does not know `*` (`registry.go:185`), against `docs/RECEIVER_INTEGRATION.md:301` |
| `setup_streams` | 2 programs (one with the existing check) that want different deliveries, 1 retry, 2 calls each | `TypeOK`, `CreationsBounded`, `NoSecondCreation`, `ReadyMatches` | retries and lost answers make no more streams than attempts; the check prevents a second one; what is returned matches |
| `setup_retries` | 1 program, 1 retry | `TransientFailuresRetried` violated | the retries of a POST are used up without being sent (`builder.go:247`), against `ssfreceiver/README.md:44` |
| `stream_control` | 2 goroutines in programs that mix two kinds of operations, 2 events, 2 endpoints to poll and 1 to push to, restarts (symmetric) | `TypeOK`, `ControlTypeOK`, `NothingLost`, `SuccessIsAcknowledged`, `ConfigurationKept`, `PolledWherePolled`, `SuccessTookEffect`, `EventsKept` | refinement of `Delivery`; polls, acknowledgments, commands and lost requests in any order lose no event; the copy of the configuration is stale only in the listed cases; success means effect |
| `poll_retries` | 1 goroutine, 1 retry configured | `TransientFailuresRetried` violated | a stream drops its retry configuration (`stream.go:70`), against `ssfreceiver/README.md:910` |
| `local_hub` | 2 loops, 2 stops, 2 messages whose ids may collide, pulls of 1 message, clears | `TypeOK`, `OncePerLoop`, `OnePullAfterStop`, `StoppedLoopsEnd`, `PublishedIsHandled` | overlapping Start and Stop duplicate a message at most once per loop, end every loop that is told to, and starve no message |
| `secevents` | 284 drafts, a random source that gives, falters or fails, 83 foreign tokens, 2 keys, 2 issuers, 2 audiences | `TypeOK`, `AcceptedIsValid`, `GeneratedIds`, `RoundTrip`, `AcceptedIsVouched` | what is built, valid and not excepted is read back; what is accepted is valid and vouched for; what a generated id is when the randomness fails |
| `archive_receiver` | 2 SETs in 4 pairs of contents, 2 statuses, with and without callback | `TypeOK`, `AckedIsHanded`, `DeletedIsQuiet`, `DeleteReturns`, `StatusHadDuringCall` | the three ways to lose an acknowledged SET; deleting a polling receiver returns and leaves nothing running; no call reports a status the stream did not have meanwhile |

**Bounds.** `MaxSetups` bounds the calls of Setup per program (2: the second is the one that
may find what the first left behind), `MaxRetries` the retries of a request (1: one attempt
with a fresh body and one with a spent body; streams have none, whatever is configured),
`MaxEvents` is the limit of a poll. The receiver library's models never stop by
themselves, but a program need not call anything, so deadlock is not checked there either.
`MaxDeliveries` bounds how often Pub/Sub delivers one message to one
subscription (1 or 2: the second delivery is where duplicates differ from first ones).
Hubs, receivers and submissions are finite sets; two hubs are enough because a message
involves the hub that published it and one that handles it, and hubs share nothing but
the topic; one receiver that is changed and removed while a request
counts its audience shows a stale audience; the theorems cover the larger ones. `MaxRetries` is 3 in the code and
0 to 2 here; the proofs are for every value. Deadlock is not checked: requests are finite
in number and every process may end, so the system may stop.

**Fairness** (`FairSpec`): a goroutine that can run does (`IngestStep`, `Deliver`); the hub
receiver repeats its pull as long as it consumes (`consumeMessages`); a request a hub makes
is answered or times out (HTTP client: 30 seconds). No fairness is assumed of
administration, arrivals, redeliveries, expiry, starts, stops or crashes. In `LocalHub` each loop
is a goroutine and gets its steps, and a Stop that has begun goes on, since it waits for
nobody; nobody needs to publish, start, stop or clear. In `ArchiveReceiver` both goroutines
run, a sleep ends, and a request is answered or fails; a send on `terminate` is taken at the
next select, because the loop's select polls only if nobody is waiting to send.

**Bounds of the newer models.** `MaxStops` (2) is the second Stop, which panics, and `Loops`
(2) two loops at once; `MaxGenerations` (2) a subscription that was deleted and made again;
`MaxMessages` is 1 of 100, so that a second message exceeds a pull. `stream_control` has no
retries because a stream drops its retry configuration (`poll_retries`). Its `SmallPrograms`
pair the operations that share state: polls with acknowledgments, polls with changes of the
configuration, two changes, statuses, and subjects with deletion. `Varied` limits the drafts
that are signed and read in every way, as the key, the method and the parser do not depend on
what the token says except for its issuer and audience. The four pairs of
`MCArchiveReceiver` have each outcome of parsing (an event, an error, a panic) beside another one,
because the outcome of a batch depends on all its SETs; two statuses are enough for an update to
differ from what the stream has; `MaxEvents` is 2, all there are, of 10. The run has 1.1 million
states.

**Exceptions.** A property that holds except in a case says so; the cases are known behaviour
of the code, and hazards in `PROJECT.json`:

* a stream's configuration is stale after updates that overlapped, that failed once carried out,
  or that were given up and carried out late (`unsure`); a poll that passed its guard before the
  configuration was replaced may be sent to an endpoint that is not for polling (`moved`);
* the constructor of a credential change gives it the type of an assurance level change, the
  parser does not know four of the subject formats that can be built, and an initiating entity
  outside its enumeration is not read back (`Excepted`);
* the last WithExpectedAudience value counts, the others do not;
* a random id of an odd length in hexadecimal, or of 4n + 1 in base 64, panics, unless a UUID takes
  its place for want of random bytes, of another length than was asked for (`GeneratedIds`);
* a second Stop of the hub receiver panics, and a loop started after a Stop ends at once
  (`StoppedLoopsEnd`); two messages with one `MessageID` hide each other (`Shadowed`);
* the archived receiver acknowledges before it parses: a SET is lost beside one that cannot be
  parsed, when its acknowledgment was not answered, or when a panic, also of the loop while the
  program polls by hand (`receiver.go:172`), ends the process that has it in hand (`AckedIsHanded`);
* DeleteReceiver never returns for a receiver without a callback, whose channel is nil; when it is
  called a second time, as nobody receives any more; and when the callback calls it, as the loop
  waits for the callback (`DeleteReturns`);
* an event of a type the archived receiver does not know is taken for a revoked session, its
  number being zero (`EventEnum`); no property speaks of it.

Two of these contradict what the repository says of itself, beside the four disagreements that
have a run of their own:

* `secevent/README.md:29` promises various subject formats and `:169` lists `credential-change` as
  supported, but tokens with four of the formats, or built with NewCredentialChangeEvent, are not
  read back (`subject/parser.go:27`, `credential_change_event.go:58`). Without `Excepted`, TLC
  refutes `RoundTrip` with either.
* `archive/examples/receiver-manual-poll/main.go:37` and `receiver-stream-status/main.go:55` call
  DeleteReceiver on a receiver without a callback and mean to go on, but the call never returns
  (`receiver.go:242`). Without `callback`, TLC refutes `DeleteReturns`.

## 4. Proofs

Every safety property of the passing runs, invariant or action property, is a theorem, for every
value of the constants that the named assumptions admit; so are the three refinements
(`HubEvents` of `Fanout`, `PollStream` of `Delivery`, `StreamControl` of `PollStream`). Each
inductive invariant was checked by TLC on the instance of its run before it was proved.

**HubEvents.** `HubEvents_proofs` proves for every choice of hubs, receivers, submissions,
configurations, `MaxRetries` and `MaxDeliveries`, from the assumptions `TypesAssumption`,
`ConfigsAssumption`, `LimitsAssumption`, `HubsAssumption` and `SubmissionsAssumption`:

* `Invariance`: `Spec => []IInv`; from it `TypeCorrect`, `WantedOnly`, `OneJobEach`,
  `Truthful` and `Honest`, the safety invariants of the runs;
* `CountersNeverFall`: the action property `CountersKept`;
* `Backed`: `CountersBacked`, each counter is at most the number of requests counted for the receiver
  or of deliveries made to it;
* `Implements`: `Spec => KeepsPromise`, the refinement of `Fanout`.

The properties are not inductive alone. That a posted event is published and of another
hub (`OnlyWantedDeliveries`) rests on what a handler works on (`MessageOK`), and that on
what a request has decided when it publishes (`RequestOK`: the audience is not empty, is
counted and is never changed afterwards). That a handling starts one job per receiver
needs the slots of targets still ahead of the handler to be free
(`OneJobPerHandling`). That attempts are truthful needs the place of a goroutine to tell how
many of its attempts have reached the receiver (`JobOK`: strictly fewer while one is under
way, and one more left while it waits). `IInv` is the conjunction of these with the type
invariant. `CountersBacked` compares a counter with the size of a set, so its invariant
(`CountersInv`, beside `IInv`) also says that the sets `Counted` and `DeliveredTo` are finite although
there may be infinitely many submissions: only finitely many have happened. Both sets only grow
(`CountedGrows`, `DeliveredGrows`), and a step that adds one to a counter adds a member to its set
that was not there (`CountersStep`), for which the place of the request or the goroutine is needed.

**Streams.** `PollStream_proofs` proves, for any goroutines, events and limits, `PollTypeCorrect`,
`PollLosesNothing` and `PollSuccess`. The invariant adds what a request that succeeded but has
not been noticed yet has done (`CallOK`): what it was to acknowledge is acknowledged, and
what an automatic acknowledgment's poll carried already was. `PollImplements` maps what `Delivery`
holds to the events automatic acknowledgments carry (`InHand`) and what it drops to `forfeited`:
an operation that ends is `Give`, one that goes on to acknowledge is `Hold`, whatever the
transmitter takes for acknowledged, early or late, is `Acknowledge` by `NothingLost`, and the end of a
program is `End`; everything else stutters. `Delivery` says more than `NothingLost`: an event that is
held must be given, also where nobody has acknowledged it.

`StreamSetup_proofs` proves, for any programs, retries and calls, from `SetupAssumption` and
`RetriesAssumption`, `SetupTypeCorrect`, `SetupBounded`, `SetupMatches` and the action property
`SetupCreatesOnce`. The invariant (`SetupOK`) counts the attempts the call under way has left
(`Remaining`), which pays for each stream that is made or may be made late; and it says that
the answer to a query is up to date about the program's own streams unless it gave one up.
`Requests_proofs` has the lemmas both rest on: what a step of the retry loop does to a
request, and that it uses up an attempt.

`StreamControl_proofs` proves `ControlImplements`: every behaviour of a stream with all its
operations is one of `PollStream`, its steps being steps of `PollStream` or stutters; so
`ControlLosesNothing` follows from `PollLosesNothing`, and `ControlKeepsEvents` from `PollImplements`. It also proves, from `PlacesAssumption`,
`ControlTypeCorrect`, `PollsGoToPolls`, `CopyKept` and the action property `SuccessIsEffect`, for any
goroutines, events, programs and endpoints. `ControlInv` says three things the properties do
not: between its guard and its return, an operation either finds a configuration for polling
or is marked as overtaken (`GateOK`); a command whose request has been answered with success
has had its effect although it has not returned (`CommandOK`); and an update by itself is
answered with what the stream still is when it returns (`AloneOK`), so that the copy is right
unless it is unsure or an update that was carried out has yet to return (`CopyOK`).

**Local hub.** `LocalHub_proofs` proves `TypeCorrect`, `Once` (`OncePerLoop`) and `OnePull`
(`OnePullAfterStop`) for any messages, colliding ids, loops, generations, stops and limits of a pull
(`ClientAssumption`, `StopsAssumption`). That a message is not handled once per pull rests on
`ReceivedOK`: while it can still be read from a subscription object it has not been handled at all,
and later no more often than there are loops past it (`Passed`), because a loop marks a message
before it handles it and a marked message is never taken again. `LoopOK` says that a batch has no
message twice, which rests in turn on the topic having none twice (`TopicOK`) and on the ranks of
`messagesToProcess` (`PullTakes`). `LateOK` ties the count of late pulls to where a loop can be.

**Archived receiver.** `ArchiveReceiver_proofs` proves `TypeCorrect`, `AckedHanded`, `Quiet` and the
action property `HadDuringCall` (`StatusHadDuringCall`), for any SETs, statuses and size of answers
(`ContentsAssumption`, `StatusesAssumption`, `MaxEventsAssumption`). The invariant relates the place of
each goroutine to its poll (`MainOK`, `LoopOK`), says that SETs that are being parsed were
acknowledged in one body that is on record and that the loop calls back with SETs that parsed
(`PollOK`, `LoopOK`), and that the stream's status and the answer under way are among the statuses
the stream has had since the call began (`CallOK`), also after a late update. `AckedIsHanded` is
proved for one SET at a time (`Accounted`): an acknowledged SET is in the hands of a goroutine
until it is handed over, and a step that takes it out of them without that is one of the listed
losses.

**Tokens.** `SecEvents_proofs` proves `TypeCorrect`, `Accepted` (`AcceptedIsValid`), `Ids`
(`GeneratedIds`) and the action properties `Vouched` (`AcceptedIsVouched`) and `ReadBack` (`RoundTrip`)
for any keys, issuers, audiences, drafts and foreign tokens, and for each random source. `DraftsAssumption` says what the
signatures of the library's functions say: each text of a subject is given, a payload has members
of its event, at most one subject is asked for; `ForeignAssumption` asks of JSON from elsewhere only
the types of its claims, and nothing of its subjects and events; `ListsAssumption`, that an
expected audience is a sequence. `RoundTrip` is proved bottom up: a trimmed text stays as it is
(`TrimTrimmed`), a node that was made is read back (`NodeRead`), a subject is (`SubjectRead`), an event
whose type is its kind is (`EventRead`), a token is, and by the parser of its shape (`TokenRead`);
the invariant (`BuiltAsAsked`) carries the claims to the parser unchanged, and the parser's
conditions (`Verified`, `Admits`) follow from the hypotheses of the property. `Ids` rests on
`GeneratedIsOne`, which says for every length, prefix and random source when a generator panics and
what its id is, and that on the arithmetic of the encodings (`BytesTaken`).

**Model-checked only:** the liveness properties (`DeliveriesSettle`, `RequestsAnswered`,
`AudienceServed`, `StoppedLoopsEnd`, `PublishedIsHandled`, `DeleteReturns`), whose fairness and ENABLED
are beyond the prover, and the four disagreements between code and documentation, which are
counterexamples.

## 5. Not modelled

* JSON and getters of the transmitter's metadata and of stream configurations, and the
  authorizers: they keep no state, and the models take a request as authorized.
* HTTP parsing and formatting in `internal/handlers`: the models begin with a request that was
  read and end with its status. `cmd/*` is modelled as far as the order of start and shutdown
  goes, and the debug endpoint of the in-memory client.
* `EventFilter.Matches`: a filter is the set of events it lets through; its operators are to
  come (see the plan).
* The sequential and timestamp id generators, event reasons and the details of a FIDO2
  credential in `secevent`: they are passed through.
* Statistics and metrics, which are only displayed (the hub receiver's are updated without a
  lock, a hazard of its own), and SetReceiverStatus and UpdateStats, which no request calls.
* Configuration files, deployment, the examples and the generated Java client.

## 6. Plan

Done: `Fanout`, `HubRegistry`, `Distributor`, `HubEvents` with its invariant and proofs;
`Requests`, `StreamSetup`, `Delivery`, `PollStream` with theirs; `StreamControl` with its refinement of
`PollStream` and its proofs; `MockPubSub` and `LocalHub`, `ArchiveEvents` and `ArchiveReceiver`, `Subjects`,
`CaepEvents` and `SecEvents`, each with its proofs. Next, in this order:

1. `EventFilter`: the filter operators against a reference definition;
2. the safety part of the liveness properties as theorems: that a goroutine that has not settled
   can always take a step that brings it closer (a measure that every fair step lowers);
3. what the archived receiver delivers, as a refinement of a weaker `Delivery` that may drop a batch.
