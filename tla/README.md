# Mybandnow API: a formal model

The API lets the members of a band record a song together. A musician is
assigned one instrument of a song, uploads a video of it, the video is
validated and stored, and when every instrument of a song has one, an external
worker makes a videoclip of them. The program is a hexagonal TypeScript
application (Express, Prisma on PostgreSQL, RabbitMQ, Google Cloud Storage);
use cases run concurrently in one or several processes, talk to each other
through domain events, and never lock a row.

This directory holds TLA+ modules of the system's parts, the TLC
configurations that check them on small instances, and TLAPS proofs of the
results that matter most for every size of the system.

| module | what it is |
| --- | --- |
| `AtLeastOnceDelivery` | abstract: what the outbox owes the rest of the system |
| `Outbox`, `OutboxProofs`, `MCOutbox` | the transactional outbox |
| `RabbitMQConsumers`, `ConsumerProofs`, `MCConsumers` | retries, dead letters, reconnects |
| `UploadAttempt` | abstract: the life of one upload attempt |
| `UploadLifecycle`, `UploadProofs`, `MCUpload` | the upload attempts of a song instrument |
| `InstrumentVideo`, `VideoProofs`, `MCVideo` | its video, from the validated file to the deletion of the replaced one |
| `VideoclipProcess`, `MCVideoclip` | the videoclip processes of some songs |
| `BandMembership`, `BandProofs`, `MCBand` | a band, its members, who plays what |
| `Accounts`, `MCAccounts` | registration, login, tokens, profiles |
| `Runtime`, `RuntimeProofs`, `MCRuntime` | start, stop and exit of the process |
| `LoggingRedaction`, `Requests`, `MCRequests` | the HTTP interface around the controllers, and what of an exception is logged |
| `AccessProofs` | theorems of `Accounts` and of `Requests` with `LoggingRedaction` |
| `Criteria`, `Catalogue`, `MCCatalogue` | the lists clients read, their scopes and pages; songs and instruments |
| `SongProofs` | theorems of `Catalogue` with `Criteria`, and of `VideoclipProcess` |

A proof module that is about two components extends both; their variables and
specifications have names of their own (`ProcessSpec` and `processVars` in
`VideoclipProcess`, `AccountsNext` and `accountsVars` in `Accounts`), and no theorem is
about both at once.

`C/` stands for `src/src/Contexts/` and `A/` for `src/src/apps/mybandnow/backend/`.

## 1. Inventory

### Outbox and event bus (`C/Shared/infrastructure/EventBus/Outbox`)

*State*: the rows of the table `Outbox` (status, attempts, createdAt); in each
process the flag `isProcessing` and the local variables of a tick.
*Operations*: a repository writes the rows in the transaction of its aggregate
(`VideoclipPrismaRepository.save` and its siblings); `OutboxEventBus.publish`
hands them to RabbitMQ in a `setImmediate` callback and marks them published;
`OutboxPublisher.processOutbox` retries every few seconds what is still pending.
*Hard*: several pollers read the same rows and nobody claims them; a confirm can be
lost; a batch can fail halfway; every statement can fail; the process can die
anywhere. *Correct* when a row is marked published only if RabbitMQ had the
event, given up only after its retries and never tried without limit, and settled
in the end; and when rows and aggregate commit together.

### RabbitMQ consumers and connection (`C/Shared/infrastructure/EventBus/RabbitMQ`)

*State*: the queues, retry queues and dead-letter queues, and the
unacknowledged deliveries in RabbitMQ; in the process the channel, `reconnectAttempts`,
`isReconnecting`, `isClosing`, `inflightMessages`. *Operations*: deliver, run a
subscriber, retry, dead-letter, acknowledge, lose the connection, reconnect and
register the consumers again, close, exit. *Hard*: the republish of a retry is
awaited before the ack, and either can be lost; the channel may be another one
when the handler is done; close waits for the handlers of one moment only.
*Correct* when no message leaves RabbitMQ unhandled, a dead letter has had its
tries, and every message is handled or dead in the end.

### Song instrument uploads (`C/SongInstrument/Upload`, `C/Orchestrator/SongInstrumentProcess`, part of `C/SongInstrument/SongInstrument`)

*State*: the `SongInstrument` row (musician, activeUploadAttemptId), the
`SongInstrumentUpload` rows, the `SongInstrumentProcess` rows, the durable and
destination objects in the bucket. *Operations*: request an upload URL, put the file,
confirm, cancel, edit, assign; validate a confirmed file; write the answer back.
*Hard*: each call reads, awaits the storage, and saves whole rows; the two
answers travel in two queues; a validation can be delivered again after any
of its steps. *Correct* when only confirmed files are processed, a COMPLETED
attempt has a completed process, every attempt keeps to the life its domain
guards draw, the active attempt changes only by request or cancellation, and an
attempt that is being processed is answered.

### Song instrument videos (`C/SongInstrument/Video`)

*State*: one video per instrument (unique index), its object in the bucket.
*Operations*: create or replace on a completed upload, update the start time, delete the
object of a replaced video. *Hard*: creation races creation (P2002), replacement
races the start time, and the deletion travels as an event that comes late and
again. *Correct* when what an instrument shows is in the bucket, a completed
active upload is shown in the end, and a replaced object goes.

### Videoclip processes (`C/Orchestrator/VideoclipProcess`)

*State*: the `VideoclipProcess` rows, which go with their song. *Operations*:
request, cancel, complete, fail. *Hard*: the id comes from the client and every
save is an upsert of a row read earlier; completion and failure come from an
external worker, through two queues that give a message up after some retries; a song
can disappear in between. *Correct* when a song has one active process, and an active
process always has somebody on the way to end it.

### Bands, members and assignments (`C/Band`, `C/SongInstrument/SongInstrument/application`)

*State*: bands, their members, the musician of each instrument. *Operations*:
create, rename, remove a band; add and remove a member; create a song and its
instruments; assign, invite, edit, reassign. *Hard*: members are deleted and
created again from an earlier read; a removal and the reassignment of its
instruments are two transactions; membership is checked before an assignment is
saved. *Correct* when whoever is assigned belongs to the band of the song, and the
owner is a member.

### Users, authentication and musicians (`C/Identity`, `C/Musician`)

*State*: `User` rows, `Musician` rows, tokens. *Operations*: register, log in,
create a profile, verify a token. *Hard*: searches come some awaits before
saves, which are upserts by an id the client chose; the unique indexes settle
the races. *Correct* when e-mails, names and users are unique, a token is its
user's, and no entry is overwritten.

### Songs, instruments, criteria and scopes (`C/Song`, `C/Instruments`, `C/Shared/domain/criteria`, `C/Shared/application/security`)

*State*: `Song`, `Instruments` and `SongInstrument` rows. *Operations*: create a
song, look its duration up, update an instrument, and the lists. *Hard*: a page,
its count and the membership of the caller are read in several statements; a
client chooses filters, and a scope must hold whatever they are. *Correct* when
an answer holds only what its caller may see, page and count agree with what was
asked, and songs keep their data.

### HTTP interface and logging (`A/controllers`, `A/routes`, `A/middlewares`, `C/Shared/infrastructure/Express`, `C/Shared/domain/LoggingRedactionPolicy.ts`)

*State*: the table from exceptions to statuses, filled when the container first builds
a controller; nothing else lives longer than a request. *Operations*: verify a
credential, validate, require a profile, run a controller, answer an exception
and log it. *Hard*: user and profile are read in separate statements; the table
grows in the order of the requests; a logged value may share and contain itself.
*Correct* when only who is entitled runs a controller, a declared exception
has its status whatever was built before, secrets stay out of the log and
the rest does not.

### Runtime lifecycle (`A/MybandnowBackendApp.ts`, `A/runtime`, `A/server.ts`, `A/start.ts`)

*State*: server, outbox poller, event bus. *Operations*: start and its undoing, stop on
a signal, exit on a fatal error. *Hard*: the order of stops, a second signal, a
signal during the start, a stop that hangs. *Correct* when exit code 0 means
a drained process, the bus closes after whoever publishes, and the process exits.

### How they interact

A controller dispatches a command to a use case; the use case reads, decides,
saves aggregate and outbox rows, and publishes; the outbox hands the event to
RabbitMQ; a consumer runs the subscriber of another context, which dispatches a
command again. Delivery is at least once, so every subscriber meets
duplicates; two calls share state only through the database and the bucket.

### Not modelled

- *Videoclips* (`C/Videoclip`): only a creation, which nothing in the application
  dispatches yet; its save is the model of `SaveWithEvents` in `Outbox`.
- *In-memory buses*: command and query buses are a map lookup and a call; the in-memory
  event buses are test doubles of RabbitMQ.
- *Configuration and dependency injection*: evaluated once at start. The parameters
  that matter are constants of the modules; that controllers are built at their first
  request is in `Requests`.

Modelled in part: the *consumers* (several processes on one queue, and messages that
cannot be parsed, are left out); *controllers and middlewares* (tracing, correlation
ids, the health route, the translation of bodies); *logging* (the set-up of the
loggers, their levels); the *storage, ffprobe and HTTP adapters*, whose outcomes
are choices of the modules that use them.

## 2. The models

Common to all: the code between two awaits on shared state is one action, what a
handler read before an await is kept in its record, and a save writes all the
columns that the code writes, with the values of the earlier read. A
database statement or transaction is atomic.

### Outbox

`status`, `attempts`, `createdAt` are columns of the rows; `committed`, `pc`,
`host`, `sent` follow a use case through its save and deferred publish;
`polling`, `batch`, `failing`, `relayed` are the poller's flag and local variables.

| action | code |
| --- | --- |
| `SaveWithEvents` | a repository's save with `outbox.save(session)`, then `publish` finding the row ids |
| `SaveAggregateOnly`, `OutboxSave` | a use case that pulls its events first (`BandMemberAdder.ts:47`), then `publish` inserting the rows |
| `ImmediatePublish`, `ImmediatePublishFails`, `ImmediateMark` | the loop, the catch and the mark of the callback in `OutboxEventBus` |
| `RunTick` | `processOutbox` up to the answer of `pending(batchSize)` |
| `PollPublish`, `PollPublishFails`, `PollRecordFailure`, `PollMark` | its loop over the snapshot and the final `markAsPublished` |
| `Crash`, `Stop`, `Exit`, `Restart` | the process; `stop()` awaits the tick, nobody awaits the callbacks |
| `BrokerChanges`, `TimePasses` | RabbitMQ goes or comes back; the clock behind `pendingGraceMs` |

The clock moves only while some pending row is younger than the grace period, so
it stays finite without a bound of its own: older rows are all alike. `MaxFaults`
caps crashes, stops, database errors and lost confirms together; outages of
RabbitMQ are not capped.

### UploadLifecycle

`row`, `status`, `stored`, `process` are the shared state; `queue` and `worker` the
three subscriber queues and their handlers; `call` the API calls in flight.

| actions | code |
| --- | --- |
| `Request`, `RequestSave` | `SongInstrumentUploadUrlRequester.run`, `saveWithSongInstrument` |
| `PutFile` | the client's PUT to the signed URL |
| `Confirm`, `ConfirmRead`, `ConfirmExists`, `ConfirmSave` | `SongInstrumentUploadConfirmer.run` |
| `Cancel`, `CancelRead`, `CancelExists`, `CancelDelete`, `CancelSaveUpload`, `SaveRow` | `SongInstrumentUploadCanceller.run` |
| `Edit`, `Assign`, `SaveRow` | `SongInstrumentEditor.run`, `SongInstrumentAssignmentCore.run` |
| `Take`, `Validate...` | `SongInstrumentProcessValidator.run` and its catch |
| `UpdateRead`, `UpdateDecide`, `UpdateSave` | `SongInstrumentUploadStatusUpdater.run` |
| `HandlerFails`, `DeadLetters`, `Redeliver`, `ValidateFails`, `ReplayCheckFails`, `CompletionUnacknowledged`, `CallFails` | exceptions, crashes, lost connections |

Abstractions: one song instrument; uploads are never deleted; the signed URL may be
used at any time; the result of ffprobe is a choice; the awaits of a validation
that touch only its temporary file and the destination object are one step with
its answer. An event is in its queue when the row that records it commits (that
is what `Outbox` is for). The tries of a message are not counted one by one: `DeadLetters`
may drop it once as many handlers have failed as it has retries, so that every real
sequence of retries is there, with some that give up early. `repeated` records the attempts
an answer of which may be given twice, `stranded` those of which a message was given up.

### RabbitMQConsumers

`ready`, `retrying`, `dead`, `unacked` are RabbitMQ's; `link`, `channel`, `tag`,
`consuming`, `attempts`, `closing`, `awaited`, `handlers` the process's. `handled`,
`failed`, `refused`, `strayed` only record what happened.

| actions | code |
| --- | --- |
| `Arrive`, `Deliver`, `Expire` | the exchange, `prefetch(1)` and the TTL of the retry queue (`RabbitMQConfigurer`) |
| `Succeed`, `Throw`, `Refuse`, `Republish`, `RepublishFails`, `AckRepublished` | `RabbitMQConsumer.onMessage`, `handleError`, `retry`, `deadLetter` |
| `Settle` | `RabbitMQConnection.ack` and `nack`, on the channel of the moment |
| `Drop`, `Reconnect`, `Consume`, `ReconnectFails` | the close listener and `scheduleReconnect` |
| `Close`, `Exit`, `Crash`, `Restart` | `close()`, the process and its platform |

Abstractions: one process; a message that does not parse fails like any other; a
channel error is a lost connection; a shutdown that takes more than ten seconds is a
`Crash`. A message that throws without the header redelivery_count is always tried again
(`RedeliveredTooMuch`), so that `Retries`, what it is due, is one even if `MaxRetries` is 0;
`failed` counts up to `Retries + 1`.

### VideoclipProcess

`processes` holds the rows by id, `songsLeft` the songs that still exist, `requested` the
events `VideoclipRequested` the worker has not answered, `answers` the messages in the
queues of the two subscribers; `call` and `handler` what each API call and each
handler is about to save.

| actions | code |
| --- | --- |
| `Request`, `Cancel` | `VideoclipProcessRequester.run`, `VideoclipProcessCanceller.run` up to their save |
| `Save`, `CallFails` | `VideoclipProcessPrismaRepository.save` with its outbox rows, or an exception |
| `WorkerAnswers` | the external worker: it completes, fails or times out, perhaps twice |
| `Handle`, `HandlerSave` | the two subscribers, `VideoclipProcessCompleter.run`, `VideoclipProcessFailer.run` |
| `Refuse` | the same use cases finding no active process: they throw |
| `HandlerFails` | a handler that dies, throws or loses its ack before or after its save |
| `Thrown`, `TooMuch` | `RabbitMQConsumer.handleError`: another try, or the dead letter after `MaxRetries` of them |
| `SongRemoved` | `BandPrismaRepository.remove` and its cascade |

Abstractions: a client chooses any id, one in use too; songs are only removed;
`startedAt` is the number of the call; nothing writes `MIXING` yet, as in the code; the
instruments and their videos are the payload and left out (a request without them
changes nothing). `stranded` records the processes that the dead letter of an answer left
active: only a cancellation ends them.

### InstrumentVideo

`exists` and `active` stand for the `SongInstrument` row, `phase` for the validation of
each attempt, `objects` for the bucket, `video` for the row of the video; `completed`
and `replaced` are the messages of the two subscribers, `creator` and `call` what a
handler or a call has read.

| actions | code |
| --- | --- |
| `Request`, `CancelActive`, `InstrumentRemoved` | what other use cases do to the row (`UploadLifecycle`, `BandMembership`) |
| `Uploads`, `Completes`, `RollsBack` | the copy to the final path, `completeProcess`, and the catch that deletes the final object |
| `Take`, `CreateRead`, `CreateSearch`, `CreateCurrent` | `SongInstrumentVideoCreator.run` up to its save |
| `Create`, `Replace`, `DuplicateById`, `DuplicateByInstrument` | the upsert, its P2002 and `ensureDuplicateSaveIsIdempotent` |
| `CreatorFails`, `CommittedUnacked` | a handler that dies before its save, or after it and before its ack |
| `Clean`, `CleanFails` | `DeletePreviousSongInstrumentVideo.run` |
| `UpdateStartTime`, `SaveStartTime`, `CallFails` | `SongInstrumentVideoUpdateStartTime.run` |

An attempt stands for its id, its url and its file, since the final path contains its id.
A message that throws is delivered again without a limit: the properties are then about
every number of retries. A save writes what was read, whatever has happened since, as in the
code; `outrun` records the attempts such a save has touched when what it was decided on no
longer held (`StaleReplace`, `StaleCreate`, `StaleCall`): the one it writes, the one it
announces as replaced and the one that was shown.

### BandMembership

`band` is the band row with its members, `song` and `assigned` are the rows of a song and
of its instruments. A call in flight is the record of its next step, with the rows that
its save will write whatever has changed since. Two histories name those whom the code lets
play without belonging: `guests` were given an instrument at its creation, which checks no
membership, and `stranded` left the band by a call that did not take their instruments
away (a removal that died before the reassignment, a row of the band read before they had
joined, a reassignment that missed a save in flight or went to an owner of a band that had
changed).

| actions | code |
| --- | --- |
| `PostBand`, `PutBand`, `DeleteBand`, `PostMember`, ... | the controllers, with what they look up |
| `CreateBand`, `UpdateBand`, `RemoveBand`, `DeleteBandRow` | `BandCreator`, `BandUpdater`, `BandRemover` |
| `AddMember`, `RemoveMember`, `SaveBand` | `BandMemberAdder`, `BandMemberRemover`, `BandPrismaRepository.save` |
| `Reassign` | `SongInstrumentBandMemberReassigner.run`, called after the removal has committed |
| `CreateSong`, `SaveSong` | `SongCreator.run` |
| `CreateInstrument`, `SearchInstrument`, `SaveInstrument` | `SongInstrumentCreator.run` |
| `ReadInstrument`, `CheckOwner`, `AddMember`, `SaveInstrument` | the core of assigner and inviter, and the editor |
| `CallFails` | a statement that throws, an instance that dies |

### Accounts

| actions | code |
| --- | --- |
| `PostRegister`, `FindAccount`, `SaveAccount` | `UserRegister.run`, `UserPrismaRepository.save` |
| `PostLogin`, `FindUser`, `MatchPassword` | `UserLogin.run`, the encryptor and the token |
| `PostProfile`, `FindProfile`, `FindUsername`, `FindOwner`, `SaveProfile` | `MusicianCreator.run`, `PrismaMusicianRepository.save` |
| `Expire`, `CallFails` | the lifetime of a token; a statement that throws |

A hash equals the password it was made of, and a token cannot be forged. `accounts` and
`profiles` record what was first asked for under each id.

### Runtime

`start`, `server`, `polling`, `ticking`, `bus` are the parts of the process, `requests` and
`handling` the work in it, `stops` each run of `stop()` and the undoing of a failed
start, `fatal` and `exit` how it ends.

| actions | code |
| --- | --- |
| `Load`, `Index`, `Connect`, `Listen`, `ListenFails`, `StartFails` | `start.ts`, `MybandnowBackendApp.start` |
| `RequestArrives`, `RequestEnds`, `Tick`, `TickEnds`, `Deliver`, `Handled` | the work the other modules describe |
| `ReceiveSignal`, `ServerClosed`, `BatchEnded`, `CloseBus`, `StopFails` | `runtimeLifecycle.ts` and `MybandnowBackendApp.stop` |
| `ExitGracefully`, `ExitWithError`, `StopTimesOut`, `SignalHandlerThrows` | the race of the stop with its timer |
| `FatalError`, `FlushSettles` | the handlers of uncaught exceptions and unhandled rejections |

### Requests and LoggingRedaction

`inFlight` holds for each `Connection` the record of where its request is: `security`,
`profile`, `controller`, and `refused`, `failed` or `answered`. `userIds` and `withProfile`
are the rows that the checks read, `mapping` the table of statuses, `built` the
controllers that the container holds, `log` the line just written.

| actions | code |
| --- | --- |
| `Receive`, `Secure` | the OpenAPI back end with its validation, `LocalJwtBearerToken` |
| `RequireProfile` | the middleware of the routes of bands and uploads |
| `Start` | the container building a controller, and `ApiController` adding its exceptions to the table |
| `Succeed`, `Throw`, `Finish` | the controller's end, `ApiExceptionListener`, the response |

Every operation of the interface is in the table `Declares`, with the exceptions that its
controller declares; those that act for a musician may also throw `ForbiddenException`,
which declares its own status (`Forbids`). `LoggingRedaction` computes what is written of a value
(`Strategy`, `CleanText`, `Sanitized`, `Logged`) by the rules of the policy, which match a
secret after a bare name and not one after a name in quotes (`Unmatched`: such a fragment
stays as it is), and by the walk of the code, whose recursion
is a function of the depth (`Visits` from what is written one level deeper); the
reference `ReadableTexts` says instead, by paths, which texts should be readable. Names of
fields and fragments of text are the kinds that the code tells apart.

### Criteria and Catalogue

`Criteria` holds the pure functions: what a client sends and what is refused (`IsCriteria`,
`ToCriteria`), the scopes (`ScopedToUser`, `ScopedToSong`), the WHERE clause and the page
(`Where`, `Holds`, `PageSize`), and the reference `AsksFor`. `Catalogue` runs them:

| actions | code |
| --- | --- |
| `GetBands`, `GetSongs`, `GetParts`, `GetInstruments`, `GetBandSongs`, `GetBand`, `GetPart` | the controllers of the lists and of single rows |
| `CheckBand`, `CheckSong`, `ReadPage`, `CountAll`, ... | the statements of a query, one by one |
| `PostSong`, `CreateSong`, `SaveSong` | `SongCreator.run`, and the event it records |
| `Deliver`, `Fetch`, `UpdateDuration` | the subscriber that looks the duration of a song up |
| `PutInstrument`, `UpdateInstrument`, `SaveInstrument` | `InstrumentsUpdater.run` |
| `ChangeMembers`, `RemoveBand`, `AddPart` | what `BandMembership` does meanwhile |

The order of the rows and the case of letters are left out: a page is any set of rows of
the right size. A creation may take up the id of a song that has gone, as the code lets it;
`gone` records those ids, and `again` the answers about one.

### How the modules fit

`Outbox` puts a message in a queue at least once or gives it up; `RabbitMQConsumers`
shows that a queue delivers it, perhaps more than once, one at a time per
subscriber and channel (`OneAtATime`); `UploadLifecycle`, `InstrumentVideo`,
`VideoclipProcess` and `Catalogue` build on both: their queues deliver at least once.
`UploadLifecycle` is the source of what `InstrumentVideo` takes for granted of attempts,
`BandMembership` of what `Catalogue` does of bands. `Runtime` says when the poller and
the consumers of the first two run, `Requests` under which checks a controller of all
the others does.

### Serial, patient, fresh

The code locks nothing and compares nothing when it saves. The models do neither: a save
from an old read is saved, a call dies between any two statements, a message is retried,
redelivered and given up. Where a result then has exceptions, a history variable names
them at the step of the code that makes them (`repeated`, `stranded`, `outrun`, `guests`),
or a constant says for whom they can arise (`Fragile`, `DrainsFirst`), and everything else is
still claimed. Only three specifications leave steps out, all of them steps of *clients*:

| specification | what it leaves out |
| --- | --- |
| `PatientSpec` (`UploadLifecycle`) | a client with two calls at a time on an instrument, or one that confirms what is not confirmable |
| `SerialSpec` (`VideoclipProcess`) | two requests of one song that overlap |
| `FreshSpec` (`Accounts`) | two clients that draw the same id |

Their results are conditional claims about those clients, and say nothing of the hazards
they exclude: section 5 says what the code does in those. Failures, crashes, retries and
the other actors are as free in them as in `Spec`.

## 3. Runs

| run | instance | what it checks |
| --- | --- | --- |
| `outbox_batch` | one process; one use case with one event, one with two; 2 retries, 1 fault | `OutboxInv`, `RowsCommitWithAggregate`, `NoPhantomEvent`, `RetryBudget`, the refinement of `AtLeastOnceDelivery` (`DeliversAtLeastOnceOrGivesUp`), `RowsAreSettled` |
| `consumers_retries` | two messages on one queue, 1 retry, 1 reconnect, 2 faults | `ConsumersInv`, `HeldUnlessStrayed`, `DeadWasTried`, `Settles` |
| `consumers_stray` | two queues with a message each | finds `NotLost` violated |
| `uploads_overlap` | two attempts, two musicians, two calls at a time, 4 calls, 1 fault | `UploadInv`, `CompletedWasProcessed`, `CompletedProcessStays` |
| `uploads_patient` | two attempts, one fragile; two musicians, 4 calls one at a time, 2 faults, 1 retry | `ActiveAttemptChanges`, the refinement of `UploadAttempt` (`FollowsLifecycle`), `ActiveSettles` |
| `videos_overlap` | three attempts, one fragile; two handlers, 1 call, 1 fault | `VideoInv`, `CompletedIsShown`, `ReplacedGoes` |
| `videoclip_serial` | one song, two ids, 3 calls two at a time, 2 faults, 1 retry | `OneActive`, `ActiveIsAwaited`, `AnsweredEnds` |
| `bands_overlap` | three musicians, two instruments, 7 calls two at a time, 1 fault | `BandInv`, `AssignedBelong` |
| `accounts` | two of everything, 8 calls two at a time | `AccountsInv`, `EntriesStay` |
| `backend` | two signals, two deliveries, two requests; any number of fatal errors | `RuntimeInv`, `CleanExit`, `Ends` |
| `requests` | five operations, 3 requests two at a time, one user; values of five nodes | `RequestsInv`, `EntitledRuns`, `StatusesStay`, `SecretsStayOut`, `TheRestIsLogged`, `EveryRequestEnds` |
| `catalogue` | two bands, musicians, songs; a query beside two commands; 2 requests, 1 change | `CatalogueInv`, `AnswersStayInScope`, `PagesAgree`, `SongsStay` |

Why the bounds are enough to be interesting:

- *Outbox.* Two retries make the first failure differ from the last; a batch of two
  has a first and a last event; `BatchSize` 2 of 3 rows makes `pending` choose; a row is
  inserted once, so more use cases add rows of the same kinds. The deferred publish
  and the poller already interleave in one process; what several processes add is proved.
- *Consumers.* With one retry a message passes every queue; one reconnect attempt
  reaches the exit after the last one; two faults combine a lost connection with
  a crash, a refused publish or a stop. `NotStrayed` cuts the behaviours after a
  handler has acknowledged on a foreign channel: from there on nothing is claimed.
- *Uploads.* Two attempts are the fewest of which one supersedes the other. Request, confirm
  and two more calls reach every status and cross an answer with a newer confirmation, a
  cancellation or a newer attempt; two faults repeat an answer and then lose its handler, or use
  up the one retry and reach the dead letter. `Fragile` marks the attempts for which statements
  inside a validation may fail: one of two, so both kinds are there.
- *Videos.* Three attempts make a second replacement cross the cleaning of the first;
  two handlers race to create; the one fault is a redelivery, an ambiguous commit or
  a death on either side of a save. The call may save over any of them.
- *Videoclips.* Three calls are request, cancel, request, with a save of the first process
  crossing the second, which may repeat the id of the first. Two faults and one retry make a
  first try, a second and the dead letter. What several songs add, a request that writes over
  the active process of another song, is proved.
- *Bands.* Seven calls build a band, its song and an instrument, assign it, and leave a
  removal and an addition or another assignment to race; the third musician tells the
  owner from the member who goes and the one who comes.
- *Accounts.* Two ids for one e-mail, two names for one user and two profiles for one name, each
  raced by two calls; 8 calls register, log in, create profiles and repeat themselves.
- *Runtime.* Two signals are all there are. A second request and a second delivery begin
  while a stop awaits the first.
- *Requests.* The operations are a public one, one for administrators, one whose exception
  another controller declares, one that needs a profile and one that makes it. The
  payloads share a value, contain themselves and are deeper than `MaxDepth`.
- *Catalogue.* Criteria that name the scope's own column, repeat a column, go past
  the last page or ask for what cannot be asked, for each kind of list; a change of membership
  or a removal between any two statements. A page of one row of two makes page and
  count differ.

Symmetry permutes slots, musicians and ids where nothing tells them apart; no
run with symmetry has a liveness property. `CHECK_DEADLOCK FALSE` where the system
may stop: all calls made, all queues empty, the process gone.

### Fairness

- *Outbox* (`FairSpec`): the interval timer keeps firing and its callback keeps running in
  a live process, a stopping process exits, the platform restarts a process, time passes.
  Nothing is assumed of RabbitMQ, requests or deferred publishes.
- *Consumers*: RabbitMQ delivers and expires, subscribers end, the reconnect timer
  fires and the platform restarts the process. Whether RabbitMQ can be
  reached is left open.
- *Uploads*: a call under way, and a handler with a message, go on; a queue delivers to
  an idle handler. Clients promise nothing.
- *Videos*: the queues deliver and handlers go on. Nothing is assumed of clients,
  validations or calls.
- *Videoclips* (`FairSerialSpec`): each waiting answer is delivered at each of its tries,
  each handler goes on. Nothing is assumed of the clients, the worker, or the API calls.
- *Runtime*: Node runs its timers and the continuations of settled promises: the flush that
  ends or times out, and the exits. Nothing is assumed of requests, batches, handlers
  or the start, which may hang.
- *Requests*: every callback runs and every statement ends.

## 4. Proofs

All theorems are of specifications without fairness and hold for every value of the
constants that satisfies the assumptions beside them (every number of instances,
use cases, attempts, slots, handlers, messages, calls, retries and faults). The
assumptions say which constants are numbers, sets or tables of what, and that a table
in a database has finitely many rows (`RowsAreFinite`); those that say more are
`LimitAssumption` (the default limit of a list is within the largest),
`RequestedAssumption` (what a client sends as a limit or an offset is an integer),
`BeginningAssumption` (a song that is there at the start has its band, as the foreign key
demands, and no duration yet) and `PayloadAssumption` (a logged value is
a graph: its fields lead to values, the indices of an array mask nothing, the name of an
error is not a secret). TLC evaluates all of them in the runs.

`OutboxProofs`. `OutboxInv` is inductive (`InvariantCorrect`). A row can be
marked published long after RabbitMQ confirmed it, by someone who only remembers; so
the invariant says that the memories are true: `SentEventsDelivered` for deferred
publishes, `RelayedDelivered` for ticks, `SnapshotsNotAhead` for the attempts of a
snapshot. From it follow `PublishedRowsWereDelivered`, `FailedRowsAreExhausted`,
`RowsCommit`, `NoPhantoms`. `OutboxImplementsDelivery` maps a row's status and its
deliveries to a phase of `AtLeastOnceDelivery` and shows that every step accepts a
batch, delivers, fails an attempt or stutters. `RetriesAreBounded` bounds the tries of a
row for every number of instances. Its invariant `BudgetInv` counts who can still
record a failure: while the row is pending, each instance whose snapshot is
`Behind` the row may record one attempt that the row has long had, and
once it is settled only the `Holders`, whose tick was in flight, may add one.

`ConsumerProofs`. `ConsumersInv` is inductive (`InvariantCorrect`), in four parts:
`CountedFailures` (redelivery_count never runs ahead of the failures), `Deliveries`
(tags tell deliveries apart, one delivery per queue), `OwnDeliveries` (a handler of the
open channel has its delivery, and a republished message is in a queue until it
is acknowledged) and `HeldUnlessStrayed`. Consequences: `NothingLeavesUnhandled`,
`DeadLettersWereTried`, `OneHandlerPerChannel`.

`UploadProofs`. `InvariantCorrect` proves `UploadInv` for any overlap: confirmation
comes before the message, the message before the process
(`ProcessingFollowsConfirmation`). `CompletedIsBacked`
and `CompletedStays` assume one handler per queue and speak of attempts that are not
fragile: `CompletionInv` adds that a handler past the replay check works on a process
that is not completed, and that a message of completion has a completed process behind it.
`ActiveAttemptIsKept` is about `PatientSpec`: `PatientInv` says that what a call has
read still holds when it acts on it. `AttemptsFollowLifecycle` proves the refinement of
`UploadAttempt` for patient clients, whatever their calls and the handlers meet: deaths,
retries, redeliveries, dead letters, failing statements. It needs `LifecycleInv` on top of
`PatientInv`. `OneAnswer`: an attempt in PROCESSING has one token at most that will answer
it, a message or a handler, and any other attempt has none, so that only the holder of the
token writes an answer, and only over PROCESSING. A failure that throws the token back into
its queue keeps it one. A redelivery beside a running handler does not, nor does an ambiguous
commit or a death after the answer: they put the attempt into `repeated`, and the
abstract specification grants it the three `LateMoves`, no more (it never waits for its
file again, and CANCELLED stays final for it too). `ConfirmsWhatItRead` says the same of
what a confirmation has read.

`VideoProofs`. `ShownIsStored` (`VideoInv`, of `Spec`, stale saves included): an object that a
message of the cleaning queue names has lost its turn (`ReplacedIsOutdated`): it is not
shown, and no longer active, so that no handler that reads now will show it again; what
the active attempt has stored is there. Only a save that was decided on an old read can
break this, and it puts every attempt it concerns into `outrun` at that moment. Each
action is shown to keep either the row or the objects.

`SongProofs`, of `VideoclipProcess`. `ActiveProcessesAreAwaited` is about `ProcessSpec`, any overlap
and any number of faults and retries: with `HandlersEnd` (a handler saves an outcome, never an
active row) `ActiveIsAwaited` is inductive, because a message goes only when its handler has
written an outcome, found no active process, or thrown too often, and the last strands the
process. `InvariantCorrect` puts it together with `OneActive`. `SongsHaveOneProcess` is about `SerialSpec`: `OneActive` needs
`OneRequest`, that while a request is between its read and its save the song has no
active process and no other request. Every other save is shown to make no row active.

`BandProofs`. `BandIsSound` and `AssignedDoBelong`, of `Spec`. The invariant `Strong` says of
every call in flight (`Good`) what its save will do: a row of the band keeps the owner that
was read, takes away nobody of those read but the member that is reassigned after it, and holds
whoever is saved in an instrument after it. `AssignedBelong` needs `SavesBelong`, the same of
whoever a call is about to assign: a save of a band read earlier takes away those who joined
since, a reassignment can miss an assignment in flight, a death leaves out the reassignment,
and each step that does it is shown to strand exactly those who are left with an
instrument or about to get one.

`AccessProofs`, of `Accounts`. `AccountsAreSound` and `EntriesDoStay`, of `FreshSpec`. `AccountsInv` carries
`AsAsked`: rows, and rows about to be saved, are what was first asked for under their
id; so an upsert over an existing row writes what is there. Without it a login could
go on from a row that has been replaced.

`RuntimeProofs`. `StopsAreInOrder` and `ExitsCleanly`, of `Spec`: `StartInOrder` ties the parts of the
process to the progress of the start, `StopInOrder` what a stop has stopped to its own progress,
for all runs of `stop()` at once.

`SongProofs`, of `Catalogue`. Its `Spec` is the code as it is, with any number of queries and
commands in flight while memberships change and bands go. `CatInv` is inductive
(`CatInvariant`). It adds to `CatalogueInv` what those in flight remember. A
query that has checked a song or a band has *seen* the band it belongs to, in the
state of the check, so that the rows of a later statement are still of bands that
it saw, or of a song that has gone (`IsInScope`); while nothing is written, what it has
read is a page, of the right size, and the number of the rows that its WHERE clause matches
(`IsCurrent`). A command or an event that carries an address or a duration carries that of
its song, which never changes while the song is there; that is why a late or repeated
enrichment is harmless (`IsFounded`, `EventsAreSound`), as long as the id of the song has not
been taken up again: a late event of a removed song is then taken for the new one's. `CatalogueHolds`,
`ScopesHold` and `SongsStayAsCreated` follow. `PagesHold` also needs that `Where`
means what was asked. `LastFilterWins` says what the loop of the code
leaves: of the filters on a column the last. So without two on one column every filter
counts (`EveryFilterCounts`, `WhereMeansAll`), and a scope that is appended is one condition
more (`ScopeIsOneMore`). That the loop of `Where`, a fold, has a value for every list of
filters is `Recursion`, proved by induction on the length.

`AccessProofs`, of `Requests`. `AccessInv` is inductive (`AccessInvariant`), in three parts.
Users and profiles are only added, so a check that a request has passed is still
true when its controller runs, two awaits later (`Passed`; `OnlyTheEntitledRun`). The
table of statuses is at all times a part of one table in which every exception has
one status: the lemmas from `BandsAreConsistent` to `DeclaredOnce` show it of each of the
declarations of the interface, and then the order in which controllers are built cannot matter
(`StatusesAreDeclared`, `StatusesDoStay`). This is a fact about the controllers there are,
not about the mechanism: two that disagreed would get the status of whichever was built last.
And the log is a line of the listener (`LogIsALine`), which leaves two facts about
`Logged`, for every value and every `MaxDepth`. The walk is a recursion from the
limit upwards, whose existence is proved first (`SanitizedWalks`). `SanitizedIsSafe` goes by
induction on the levels that are left: a value below a sensitive field is masked
as a whole, everything else is cleaned (`SecretsDoStayOut`). `WalkShows` goes by
induction on the length of the way that is left: while a way does not repeat itself the
set of values being walked holds only those on it, so nothing on it is taken for circular
(`TheRestIsThere`).

Induction over numbers is stated of sets (`SetInduction`: a set that holds 0 and every
successor holds every number), from the well-foundedness of `<`. It appears in both modules.

TLC has checked the invariants on the instances of the runs before they were proved.

Only model-checked: the liveness properties (`RowsAreSettled`, `Settles`, `ActiveSettles`,
`CompletedIsShown`, `ReplacedGoes`, `AnsweredEnds`, `Ends`, `EveryRequestEnds`), which are beyond
the prover. Every invariant and every other action property that a run checks, and both
refinements, are theorems.

## 5. What the code does not do as documented

Demonstrated by a run: `ack` and `nack` use the channel of the moment
(`RabbitMQConnection.ts:248`). After a reconnect a handler acknowledges another one's
message, which a crash then loses, although events are delivered at least once (ADR
0007:171). `consumers_stray`.

Met while modelling. The first eight contradict a document, a test or a comment. Where a
module models the code in question its `Spec` has the behaviour, and the properties that
meet it name it as an exception or are of a specification about other clients:

1. The poller gives a row up after `maxRetries` polls, about fifteen seconds, and
   never reads it again (`OutboxPublisher.ts:97`), although every event "must
   eventually reach RabbitMQ" (ADR 0007:30). `AtLeastOnceDelivery` has this as
   its second outcome.
2. Use cases that pull their events before saving (`BandMemberAdder.ts:47`, and those of
   `BandUpdater`, `BandCreator`, `MusicianCreator`, `InstrumentsUpdater`) commit the aggregate
   first; a crash then loses the events, although no aggregate is to be saved without
   its event (outbox-pattern.md:92). They are `DrainsFirst` in `RowsCommitWithAggregate`.
3. The validator is not idempotent (ADR 0007:181): delivered again after a FAILED
   answer it can complete; the answer is dropped, and the confirmation that follows is
   taken for a replay, so the attempt stays PROCESSING (`repeated` in `ActiveSettles`).
4. A cancellation saves the row it read at its start and so clears an attempt requested
   since by an overlapping call (`SongInstrumentUploadCanceller.ts:62`; its unit test says it
   does not, :115); `PatientSpec` is about other clients.
5. A second request for a song is to be answered 409 while a process is active
   (architecture.md:130), but nothing in the database holds two overlapping requests
   apart (`VideoclipProcessRequester.ts:18`): both are accepted, and TLC finds `OneActive`
   violated of `ProcessSpec` in a few steps. `SerialSpec` is about other clients.
6. A request that repeats the id of a process writes over it
   (`VideoclipProcessPrismaRepository.ts:31`), although processes are never overwritten
   (architecture.md:135).
7. A start time saved after a replacement brings the row of the replaced video back
   (`SongInstrumentVideoUpdateStartTime.ts:53`), whose object is then deleted; a replacement
   is to reset the start time (`SongInstrumentVideo.unit.test.ts:88`). These are the attempts
   in `outrun`.
8. A process that dies between the removal of a member and the reassignment
   (`BandMemberRemover.ts:56`) leaves the member their instruments, and a second
   removal returns early; the test (`BandMemberRemover.unit.test.ts:29`) knows only the
   case in which both happen. These are some of the musicians in `stranded`.
9. A band saved from an earlier read undoes additions and removals, and brings a removed band
   back (`BandPrismaRepository.ts:38`); `bands_overlap` has these saves.
10. A confirmation repeated during PROCESSING overwrites an answer
    (`SongInstrumentUploadConfirmer.ts:57`); a failing replay check saves FAILED over
    COMPLETED (`SongInstrumentProcessValidator.ts:80`): `LateMoves`, and `Fragile`.
11. A videoclip process whose answer became a dead letter stays PENDING and refuses every
    further request of its song until somebody cancels it (`stranded`).
12. Registering an existing id with another e-mail overwrites the account
    (`UserPrismaRepository.save` is an upsert); `FreshSpec` is about other clients.
13. A song may be created under the id of one that was removed (`SongCreator.ts:16`); the
    late enrichment of the old one then sets the duration of the new one, and a list whose
    song was checked before is of the new one. `DurationIsItsOwn` and `AnswersStayInScope`
    except the ids that were used before.
14. The rules of the redaction policy match a secret after a bare name; in a text of JSON
    the closing quote stands between the name and the colon and the secret is logged
    (`LoggingRedactionPolicy.ts:8`). `SecretsStayOut` claims what the rules do match.
15. Two updates of an instrument in the catalogue write whole rows: one is lost.
16. The HTTP client has no timeout of its own (`HttpClient.ts:44`).

## 6. What is left

1. The validation step by step, with its temporary file, as a refinement of the
   validation of `UploadLifecycle`.
2. A composition of `UploadLifecycle` and `InstrumentVideo`, in place of the attempts that
   `InstrumentVideo` abstracts: an uncontested upload ends as a video.
3. Several processes on one queue in `RabbitMQConsumers`.
4. The life of one videoclip process as an abstract specification.

## 7. Running the checks

In this directory: `tlc -config MCOutbox_batch.cfg MCOutbox` (and so on: the
runs are listed with their configurations in `PROJECT.json`) and
`tlapm OutboxProofs.tla`. Every run takes a few minutes at most on two
workers, the proofs a few minutes each.
