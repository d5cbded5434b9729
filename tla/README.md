# A TLA+ model of the avatar service

The repository is a Go service that stores users' avatars.  An HTTP server
takes uploads and deletions, PostgreSQL keeps the metadata, an S3-compatible
object storage keeps the files, RabbitMQ carries events, and worker replicas
build thumbnails, remove files and republish what got stuck.  This directory
models the parts of it that are concurrent or can fail halfway, checks them
with TLC on small instances, and proves the invariants that matter most with
TLAPS for every value of the constants.

Paths below are relative to the root of the repository.

## Inventory

| Component | State it keeps | Operations | Talks to |
|---|---|---|---|
| Avatar service (`internal/services/avatar.go`) | none of its own | Upload, Open, Metadata, CurrentMetadata, List, Delete, DeleteCurrent, removeOrphan | repository, storage, publisher |
| Repository (`internal/repository/postgres`) | table `avatars` | create, the reads, softDelete, updateProcessingResult, setProcessingStatus, listPendingOlderThan | PostgreSQL, through a breaker |
| Storage (`internal/repository/s3`) | objects by key | put, get, deleteMany | S3, through a breaker |
| Topology (`internal/broker/rabbitmq/topology.go`) | exchange, two work queues, two delay queues, one dead queue | declare | RabbitMQ |
| Connection (`connection.go`) | current connection and channel, the confirms flag, the closed flag | Connect, open, watch, reconnect, enableConfirms, publishChannel, Close, OpenChannel, IsClosed | RabbitMQ |
| Publisher (`publisher.go`) | a mutex | PublishUpload, PublishDelete | connection, breaker |
| Consumer (`consumer.go`) | a channel, its deliveries | NewConsumer, Consume, handleDelivery, toDeadLetter, Close | RabbitMQ, the handlers |
| Processor (`internal/worker/processor.go`) | none of its own | HandleUpload, HandleDelete | repository, storage |
| Reconciler (`internal/worker/reconciler.go`) | a ticker | Run, reconcile | repository, publisher |
| Breaker (`internal/breaker`) | state, generation and counts of gobreaker | Do, Call, State | whatever it guards; the metrics read it |
| Health and admin server (`handlers/rest/health.go`, `observability/server.go`) | the draining flag | Live, Ready, Drain, Run | every dependency |
| Server process (`cmd/server`) | its step, two listeners, whether signals are caught | run, waitDrain | all of the above |
| Worker process (`cmd/worker`) | its step, a group of goroutines with one context and one error | run | all of the above but the listener of the API |
| REST API (`handlers/rest/avatar.go`, `conditional.go`) | none of its own; the clients keep what they got | Upload, Get, GetCurrent, Metadata, List, Delete, DeleteCurrent, matchesIfNoneMatch | avatar service |
| Limiters (`handlers/rest/middleware.go`, `router.go`) | counters per minute and key, in memory | clientIPKey, userKey, rateLimiter, UploadRateLimiter | in front of the REST API and the web pages |
| Web pages (`handlers/web`) | none | Upload, Gallery, Delete | avatar service |
| Forms, other middleware | none | requests to calls, errors to statuses | |
| Image processing, configuration, logging, tracing, migrations, deployment | none the program acts on | | |

What is hard here, and what makes each part correct:

* **No transaction spans the four stores.**  Upload is put, insert, publish;
  Delete is update, publish.  A stop or an error between any two of them, or an
  error whose effect happened all the same, must not leave a row without its
  files, or files nobody will ever remove.
* **Requests of users are several statements each**, and overlap: DeleteCurrent
  looks up and then deletes, a deletion that hits nothing asks why, uploads are
  committed in another order than they were begun.  What the client is told must
  be what was done, and it cannot be told to repeat what has been done already.
* **Handlers run more than once and at the same time.**  Every replica's
  reconciler republishes, lost connections make the broker deliver again while
  the first handler is still running, and a deletion lands anywhere in between.
  A verdict must not be revised and a deleted avatar must not come back.
* **Retries are counted by the broker, not by the program.**  The attempts of a
  message live in `x-death`; a message must be neither lost nor parked too
  early nor retried for ever, and parking is a publication followed by an
  acknowledgement.
* **The connection repairs itself** in a goroutine of its own while others
  publish, turn confirms on, or close it.
* **The breaker counts results of concurrent calls** that may return to a
  breaker which has changed state since they began.
* **A read is two reads**, the row first and the object later, and the tag made
  of the first goes out with the second into caches that live for long.
* **Stopping is a sequence**, with a balancer that learns of it through probes, a
  second signal, requests that do not end, and members of a group that must all
  end before the dependencies are closed under them.

PROJECT.json lists the individual hazards with the line each one bites at and
the properties that cover it.

## Modules

| Module | Models |
|---|---|
| `AvatarCatalog` | what a client is promised of one avatar: it appears once, gets at most one verdict, may be deleted, never comes back |
| `AvatarLifecycle` | Upload, Delete, HandleUpload, HandleDelete and the reconciler over rows, objects and queues; implements `AvatarCatalog` |
| `Consumer` | one work queue with its delay and dead queues, and the replicas that consume it |
| `BrokerConnection` | connecting, enabling confirms, watching, reconnecting and closing |
| `Publisher` | confirmed publication by concurrent goroutines, composed with `BrokerConnection` |
| `Breaker` | the breaker of one dependency and its concurrent callers |
| `ConditionalRequest` | the scanner of If-None-Match, and what RFC 9110 asks of it |
| `AvatarReads` | caching clients that read images over `AvatarLifecycle`, with `ConditionalRequest` |
| `UserAvatars` | uploads, reads and deletions of several users, statement by statement over one table |
| `ApiRequests` | the way of a request through the limiters to the handlers, composed with `UserAvatars` |
| `ServerProcess` | the life of one server process with its requests, its probes and the balancer |
| `WorkerProcess` | the life of one worker process and its group of goroutines |
| `MC...` | values of the constants that a .cfg cannot write down |
| `...Proofs` | the theorems about a module, or about two that belong together |

Each module also holds the deliberately wrong variants of some of its actions
(commented "Wrong on purpose").  Nothing uses them: they are the mutations with
which the properties were tested, and PROJECT.json says which property each
one breaks.

### AvatarLifecycle

One step is one database statement, storage request, publication or
acknowledgement.  `uploads[a]` and `deletes[a]` are the program counters of the
requests about avatar *a*; `rows`, `objects`, `uploadQueue`, `deleteQueue` and
`deadDeletes` are the stores; `process[w]` and `remove[w]` are the upload and
delete handlers of replica *w*; `stuck[w]` is what its reconciler has listed
and not yet republished.  The handler record's `held` says whether the broker
still counts the event as delivered to *w*: after `ConnectionBreaks` it does
not, the handler runs on, and another replica may get the event.

* `PutOriginal`, `CreateRow`, `PublishUpload`, `RemoveOrphan` and their failing
  twins are `AvatarService.Upload`; `AbandonUpload` is a server that stops in
  the middle.  `CreateRowFails` may leave the row behind when
  `AmbiguousCommits` is TRUE: the statement committed and its answer was lost.
* `SoftDelete` takes the keys the row lists at that moment (`AllS3Keys`), which
  is what `UPDATE ... RETURNING` does; `PublishDelete` and `LoseDelete` follow.
* `TakeUpload`, `LookUp`, `Download`, `PutThumbnail` (one size at a time, in any
  order, as a Go map is ranged over), `RecordResult` or `RecordFailure`, and
  `AckUpload` are `HandleUpload`.  `RecordResult` is guarded by the status and
  not by the deletion mark, `RecordFailure` by nothing, as in the SQL.
* `TakeDelete`, `RemoveObject`, `AckDelete` are `HandleDelete`; `RemoveFails`
  retries or parks.
* `ListStuck`, `Republish` are the reconciler, with the batch limit and the
  order by creation.

An image is a class in `Pictures`, and `Decodes[w]` says which classes replica
*w* decodes: pixel limits are configuration and differ during a rollout.  The
delay queue is not told apart from the work queue here, `Consumer` does that.
A parked upload event is simply gone from the queue, since nobody reads the
dead queue; parked deletions are kept, because properties speak of them.

### Consumer

`place` says where the one live copy of a message is; `deaths` is its `x-death`
header; `wire[m]` holds the frames a replica has written about a message and
the broker has not seen.  Frames of one channel arrive in order or, when the
channel is gone, not at all.  Receiving, handling, `Ack`, `Nack`, `ToDeadLetter`
and their failures are `Consume` and `handleDelivery`, `DeathCount` is
`deathCount`.  When a channel breaks (`ChannelBreaks`), a process crashes
(`Crash`) or the channel is closed (`CloseChannel`), the broker takes back every
unacknowledged message with its `x-death` as it was.  `HandlerCancelled` is a
handler whose calls fail because the context of the loop, under which it runs,
was cancelled.

### BrokerConnection and Publisher

`keeper` is first the loop of `Connect` (main goroutine) and then `watch` with
`reconnect`; both call `open`, whose steps (`Dial`, `Declare`, `ReadConfirms`,
`Confirm`, `OpenFails`) are shared, as in the code.  `main` is the main
goroutine: `Connect`, `NewPublisher`'s `enableConfirms`, and `Close`.  The
write lock held during the request of `enableConfirms` is the step
`"confirming"`; the other critical sections contain no request and are single
steps.  `fresh` is the connection `open` is working on and `doomed` the one
`Close` has taken.  `ChannelBreaks` closes a channel alone.  `Publisher` adds
one goroutine per publication, the mutex, the channel each has fetched, and
what the broker has stored; its timeouts, nacks and cancelled callers are one
action, `AwaitFails`, which may happen although the message is stored.

### Breaker

`Begin`/`Reject` and `End` are the two critical sections of a call around the
work of the dependency.  The library (gobreaker v2.4.0) is not part of the
repository: its state machine is modelled from how `breaker.New` configures it
and from what `breaker_test.go` shows of it.  Whether the library gives the
place of a probe back when its result is excluded (`IsExcluded`, a cancelled
client) cannot be read from the repository, so it is the constant
`ExclusionFreesProbe`; the run takes TRUE.  **With FALSE, `RecoversWhenHealthy`
fails**: `HalfOpenRequests` abandoned probes keep the breaker half-open for
ever.  Anyone who upgrades the library should look at that.
A refusal of a healthy dependency (not found, forbidden, bad data) is reported
as a success and therefore resets the count of consecutive failures; the
comment of `WithHealthyErrors` and the main README say such answers "do not
touch the counter", which is true of cancellations only.

### AvatarReads and ConditionalRequest

`ReadsNext` interleaves the steps of `AvatarLifecycle` with those of clients:
`Get` or `GetCurrent` takes one snapshot of a row (`Select`), `NotModified` or
`Modified` decides from it alone, `Open`, `OpenMissing` and `Fallback` are
`AvatarService.Open`, and `Keep` is the answer with its `Cache-Control`.
`version[a]` stands for `updated_at`: every UPDATE of the row moves it (`Touch`),
also the one that writes `failed` over `failed` (`Rewritten`).  The model takes
two updates to have different times; `updated_at` has microseconds and the
updates of one row wait for each other.  What is kept is the key the body came
from, so that a tag can be compared with the object it vouches for.  A header is
a sequence of the things the scanner tells apart; `Names` says declaratively
what `MatchesIfNoneMatch` computes by scanning.

### UserAvatars

`avatars` is the table as far as it matters to users: owner, `created_at`, and
whether the row is being inserted, visible or deleted.  `request[r]` is one
request with its step and its answer; `history[r]` remembers what it found when
it came and what it has changed, for the properties.

* `StoreOriginal`, `BeginInsert`, `CommitInsert` are Upload.  `created_at` is
  fixed when the INSERT begins and the row appears when it commits, so that two
  uploads may appear in the other order.  `clock` moves with every commit:
  inserts that overlap may have equal times, one that begins after a commit is
  later than it.  (The identifiers are new, `uuid.New`: an absent row.)
* `ReadLatest` is GetCurrent, and List as far as its first row goes; with equal
  times either row may come first.
* `CheckOwner`, `LookUpCurrent`, then `SoftDelete` or `NothingUpdated` and
  `DeleteConflict` are the deletions, of the REST API and of the form alike.
* `Unavailable` is a call that a breaker did not make, `Fails` one that failed,
  `InsertUnanswered` and `SoftDeleteUnanswered` are statements that committed
  without an answer, `Cut` is a client that has gone or a server that stopped.
  What follows the statements, the publication and the orphan cleanup, changes no
  row: it is in `AvatarLifecycle`.  Requests that a form or an identifier makes
  unreadable (400, 413, 415) end as `Refuse` does, with nothing done.

### ApiRequests

The chain of the router: the limiter by address, the one by `X-User-ID`, and for
uploads one more, shared by the REST API and the form.  `hits` are their counters
of this minute, `previous` those of the last one, and `ticket[r]` says which key
the request has and how many limiters are behind it.  `LetThrough` is one
limiter, which compares and counts under one mutex; between two limiters
anything may happen, also the end of the minute (`NextWindow`).  The library
weighs the last minute by the time that has passed, which is a choice of
`carried`.  A form sends no `X-User-ID`, so the user it acts for is unknown to the
limiter by user and the address is counted instead.  `ApiSpec` implies
`UserSpec`, so everything proved of `UserAvatars` holds behind the limiters.

Two things about the limiters that no property can state as a promise:

* The comment of `userKey` says the limit by user is there for fairness among
  users behind one NAT.  Both limits are `APP_RATE_LIMIT_RPM` and the one by
  address comes first: the users of one address together exhaust the limit of
  the address before any one of them exhausts his own, so that behind one NAT
  the limiter by user never refuses anybody.  It bites a user who comes from
  several addresses.
* The limiters count in the memory of a process.  With n replicas a client gets
  n times the limit.

### ServerProcess

`main` is the step of `run()`; `opened` counts tracing, database and broker in
the order they are opened (the storage client needs no closing, and its failure
is one of `OpenFails`).  `api` and `admin` are the listeners and their
goroutines, `trapped` says whether `NotifyContext` catches signals at the
moment, and `asked` is the context it cancels.  `SeeSignal` ... `ShutdownTimesOut`
follow the lines after the select; `CloseAdmin` and `CloseDependency` are the
deferred calls.  `Probe` is the first half of `Ready`, which looks at the
draining flag; `ProbeSucceeds` and `ProbeFails` are the second half, which may
come much later.  `routed` is the balancer's view, `Arrive` a request it sends.
The chart makes `APP_DRAIN_DELAY` longer than the time in which a failed
readiness is noticed; that is the constant `DelayCoversProbe`, which lets
`PauseEnds` happen only when the balancer knows.  With `DrainDelay` FALSE (the
default of the program, for local use) `NobodyTurnedAwayWhileDraining` fails, as
the comment in `main.go` says it would.

### WorkerProcess

`member[m]` is the progress of a goroutine of the errgroup, `cancelled` its
context and `failed` its error.  `NewConsumerFails` returns without waiting for
a consumer that already runs, as the code does.  `DeliveryClosed` is the loop
that finds its channel closed; `Stop` the one that finds the context cancelled,
and both may be possible when the other happens.  What a handler does is in
`AvatarLifecycle` and `Consumer`; here it is `Begin` and `End`.

## Runs

| Run | Instance | Shows |
|---|---|---|
| `lifecycle` | 1 avatar, 2 replicas (the second at work until the first fault), 2 sizes, decodable or not, 1 retry, 3 faults, ambiguous commits | `TypeOK`, `ReferencedObjectsExist`, `DeletedOriginalIsTracked`, `ImplementsCatalog` with retries that run out; `PendingAvatarsSettle`, `DeletedOriginalIsRemoved` |
| `requests` | 2 users behind 1 address, 2 avatars, 3 requests or faults, limits 2 and 1, 2 minutes | `ApiTypeOK`, `AnswersMatchEffects`, `RefusalsAreTruthful`, `CurrentMeansLatest`, `AdmissionIsBounded` |
| `reads` | 1 client, 1 avatar, 1 replica, 1 size, 1 fault | `CurrentTagMeansCurrentCopy`, `VisibleAvatarIsServed`, `HeaderIsReadAsSpecified` (every header of up to two elements) |
| `consumer` | 2 messages in one prefetch window, 2 retries, 1 fault, 1 stop | `TypeOK`, `NoMessageLost`, `ParkedOncePerFault`, `ParkedOnlyWhenExhausted`, `AttemptsAreBounded`, `EveryMessageSettles`, `StopCompletes` |
| `publisher` | 2 publications, 2 attempts of Connect, 3 faults | `PublisherTypeOK`, `NoConnectionLeaks`, `WorkingChannelConfirms`, `ReportedIsStored`, `BrokenLinkIsReplaced`, `CloseReturns`, `EveryPublicationReturns` |
| `breaker` | 3 callers, threshold 2, 2 probes, 5 failures, 2 cancellations | `TypeOK`, `ProbesAreLimited`, `TripsOnFreshFailures`, `RecoversWhenHealthy` |
| `server` | 2 requests, 2 signals, 2 failures | `ServerTypeOK`, `NobodyTurnedAwayWhileDraining`, `CleanStopAnswersEverything`, `StopsWhenItMust` |
| `worker` | 2 consumers, 3 failures, a signal | `WorkerTypeOK`, `NothingRunsWithoutDependencies`, `OnlyConsumersEndTheWorker`, `DeafWorkerEnds` |
| `delete_race` | no fault at all | `DeletedAvatarLeavesNoFiles` **fails** |
| `ambiguous_commit` | 1 fault | `OrphansAreUnreferenced` **fails** when an INSERT may commit and report an error |
| `reconciler_starvation` | 2 avatars, batch of 1, 2 faults | `PendingAvatarsSettle` **fails** |
| `shutdown_burns_attempt` | 1 message, no fault, 1 stop | `RejectionsAreRefusals` **fails** |

The failing runs are the findings of this project:

* `delete_race`: HandleUpload looks at the deletion mark once, before it
  downloads.  A deletion that lands before the result is recorded announces the
  original only, and the thumbnails uploaded afterwards stay in the storage.
* `ambiguous_commit`: an INSERT whose answer is lost makes the orphan cleanup
  delete the file of a visible row.  The row stays pending for ever.
* `reconciler_starvation`: rows that lost their original stay pending and are
  the oldest; a full batch of them hides every younger row.
* `shutdown_burns_attempt`: a graceful stop cancels the handler under way and
  its message pays an attempt, although Consume promises to wait for it.

Why the bounds are enough to be interesting: every hazard involves at most two
handlers of one avatar (two replicas, or a handler and a request), one event
and its duplicate (`MaxQueued` = 1 lets a republished copy coexist with the one
being handled), and one to three faults.  One retry already tells the first
attempt from the last; `consumer` takes two, because with one the wrong way of
adding up `x-death` makes no difference.  Its one replica is enough since a
replica that stops or crashes starts again: the message then meets a successor
that knows nothing, as it would meet a second replica, and the theorems hold for
any number of replicas.  In `lifecycle` two replicas matter for copies of one event handled at the same
time, which needs no fault, and faults matter to one replica's retries; the run
lets the second replica work until the first fault (`Bound` in
`MCAvatarLifecycle`), and the theorems need no such bound.
In `requests` two requests overlap and the third comes before, between or after
them; one of the three may be a fault instead.  One user uses the form and the
other the REST API, so that both kinds of key occur.  At most one avatar is there
from before.  Handlers wait while a request is among the limiters, with which
they share no state, and a minute ends only when a limiter would refuse
somebody: both only leave out steps whose order makes no difference.
`MCApiRequests` names these bounds.  Requests and avatars are interchangeable,
and the run takes them up to symmetry.
In `reads` two thumbnails would only repeat the one.
In `server` two requests tell the one that is under way when the stop begins
from the one that arrives during it; three dependencies, two signals and two
failures cover a second signal at every step and a failure during a stop.
In `publisher` three faults cover a connection that breaks, a replacement that fails and a second
break; `Dials` needs no bound of its own, since each dial but the first follows
a fault.  The counters of the histories are bounded through the faults and
retries.  Deadlock is checked in `breaker` only: a service with
nothing left to do may stop, a process ends, and the liveness properties say what must not be left
undone.

Losses the passing properties allow on purpose.  No passing run gives
replicas different pixel limits (`Decodes` differs): during such a rollout the
refusal of one replica overwrites the `completed` another has recorded, since
`setProcessingStatus` looks at no status.  And the run `server` does send a second
signal outside the pause of the drain, where nothing catches it and the process
ends with its requests: `NobodyTurnedAwayWhileDraining` makes an exception for it.
In `requests`, a DeleteCurrent whose avatar another deletion takes between its
two statements is answered 404 although the user has other avatars (the loser of
a double click); 404 then means that the avatar it chose is gone.  And a
DeleteCurrent that was answered 500 may have been done: repeating it removes the
next avatar.  Only 503 is safe to repeat, which `AnswersMatchEffects` says.

### Fairness

* `AvatarLifecycle!FairSpec`: a request under way goes on (calls have
  deadlines), a replica keeps consuming both queues, and its ticker keeps
  firing.  Faults, uploads and deletions are never owed.
* `Consumer!FairSpec`: the broker delivers, forwards frames and expires the
  delay; a running replica goes on; a stopped one is started again, as both the
  compose file and the Kubernetes deployment ask for.
* `Publisher!FairPublisherSpec`: both goroutines and the publishers run and the
  confirmation timer fires (5 s in the code).  The broker owes no answer.
* `ServerProcess!FairServerSpec`: `run()` goes on, its timers fire, and the kubelet
  keeps asking, one probe after another, each with a deadline (`healthTimeout`).
  Handlers owe no end: the timeout of Shutdown is what ends the wait for them.
* `WorkerProcess!FairWorkerSpec`: every goroutine goes on, handlers and passes of
  the reconciler end (their calls have deadlines), and a select that finds the
  context cancelled again and again takes that branch at last (Go picks among
  the ready branches at random), which is the one strong fairness here.
* `Breaker!FairSpec`: requests keep coming and end, and the pause runs out.

## Proofs

`AvatarLifecycleProofs`
: `TypeCorrect`; `VisibleRowsHaveTheirFiles`; `CleanupIsSafeWithoutAmbiguity`,
  which needs `AmbiguousCommits` to be FALSE (the run `ambiguous_commit` shows
  it); `DeletedOriginalsAreTracked`; and `ServiceImplementsCatalog`, the
  refinement, for replicas that decode the same images (`SameDecodes`, the same
  `APP_MAX_IMAGE_PIXELS` everywhere: without it the refusal of one overwrites the
  success of another).  `ReferencedObjectsExist` is not inductive: nothing in
  it says that an object is not being removed.  `FilesIInv` adds, for each
  place an avatar can be in, what the files are worth there: a request that has
  not inserted its row yet has stored the original and nobody refers to it; a
  delete event in a queue, in the dead queue or in a handler names keys of a
  deleted avatar only; an upload handler that is about to record has stored
  every size it has done with.  The refinement needs `VerdictInv` on top of it:
  a handler that is about to record a verdict has decoded the image, or has
  failed to, as every other would.  One step lemma treats the server and one the
  workers, one case per action.

`ApiRequestsProofs`
: Of `UserAvatars`: `UserTypeCorrect`, `AnswersCanBeRelied`, `RefusalsCanBeRelied` and
  `CurrentIsLatest`.  `IInv` says of every request what its step says of its
  avatar, and of what it has changed that it stays so (`Sound`); of every two,
  that they do not change the same row in the same way (`Apart`); and of the
  rows, that a committed one was begun before now (`Clocked`), which is what makes
  an upload younger than everything that was there when it came.

  Of `ApiRequests`: `LimitersOnlyRefuse` (`ApiSpec` implies `UserSpec`), `ApiKeepsItsWord` from it,
  `ApiTypeCorrect` and `AdmissionKeepsItsLimits`.  A counter is the number of
  requests that carry its mark (`CountersAgree`), which is inductive because a
  request meets no limiter twice (`Behind`).  Requests may be infinitely many:
  the marked ones are finite.

`ConsumerProofs`
: `ConsumerTypeCorrect`, `NothingIsLost` and `NothingIsParkedEarly`.  `IInv` says
  of each replica what its channel, its buffer, its step and the count in its
  delivery have to do with each other, and of each message who may hold it, that
  frames which will remove it are only under way once it is handled or parked,
  and that the rejections counted, and the one under way, never outnumber the
  runs of the handler.  A step is about one message or one replica;
  `OtherReplica` and `OtherMessage` dispose of the rest.

  `RunsAreBounded` (`AttemptsAreBounded`), `CopiesAreBounded`
  (`ParkedOncePerFault`) and `OnlyAStopBurnsAttempts` need a count that adds up
  in every state, `NumbersInv`.  A run of the handler ends in a round, that is in
  a rejection counted in x-death or on its way there (`Rounds`, at most
  `MaxRetries`), or it is the last one (`LastRun`), or a fault has wasted it;
  and a delivery which the broker has taken back while it was still in the
  buffer of a broken channel (`Stale`) may yet waste one, so it is counted from
  the moment the channel breaks.  A copy is followed by its acknowledgement or by a
  fault.  `OnlyAStopBurnsAttempts` complements the finding
  `shutdown_burns_attempt`: as long as no stop was requested, whatever breaks
  or crashes, `RejectionsAreRefusals` holds, so cancelling the handler's context
  is the only way to spend an attempt that the handler did not fail.

`PublisherProofs`
: Of `BrokerConnection`: `ConnectionTypeCorrect`, `NothingLeaks` and `ChannelsConfirm`.  `IInv` relates
  the steps of the two goroutines (`GoroutinesAgree`), says that only the
  current connection and the one being opened can be open
  (`OpenLinksAreKnown`), that one is opened only while the current one is closed
  (`OpeningReplaces`), and that a channel opened before the confirms were asked
  for is not installed once they are promised (`NoPlainInstall`).  The race
  between `open`, which reads the flag and uses it after releasing the lock, and
  `enableConfirms` is harmless exactly because of `OpeningReplaces`:
  `enableConfirms` then runs into a closed channel and fails.

  Of `Publisher`: `PublisherTypeCorrect` and `SuccessIsStored`.
  `PublisherInv` says of the channel a publication has fetched that it was
  current once, so it is never the one that is being opened, and that it is in
  confirm mode as long as it works: publications come only after `main` has
  asked for the confirms.  So nothing is published unconfirmed, and a success
  is only ever read off an acknowledgement.

`BreakerProofs`
: `BreakerTypeCorrect`, `ProbesStayLimited` and `OnlyFreshFailuresTrip` (the
  action property `TripsOnFreshFailures`).  `BreakerInv` says of the breaker that
  no call carries a generation to come (`CallsHaveBegun`), so that a new
  generation starts with none; that a half-open one has counted every probe that
  is under way or has succeeded (`ProbesAgree`); and that in a closed one the
  calls of its generation are those begun since it closed, whose failures in a
  row are at least what it counts (`FailuresAgree`).

`ServerProcessProofs`
: `ServerTypeCorrect`, `CleanStopIsClean` and `DrainTurnsNobodyAway`.  `IInv` says where `run()` is when
  something is open: nothing is accepted before the listener opens or while
  Shutdown waits, no dependency is closed before `run()` leaves, and so no
  request is orphaned before that either.  `DrainInv` says that behind the pause
  the balancer has stopped routing and no probe is under way that could make it
  start again, unless a second signal or a failed listener excuses it.  The
  theorem assumes `DrainDelay` (there is a pause) and `DelayCoversProbe` (it is
  longer than the balancer takes to notice).

`WorkerProcessProofs`
: `WorkerTypeCorrect`, `NothingRunsOnClosedDependencies` and `OnlyAConsumerEndsIt`.  `IInv` adds that a
  consumer without a channel was never started and that, with all of them
  started, `run()` leaves only when every member has returned (`GroupIsOver`).
  `CancelledForAReason`: the group's context is cancelled only for a signal or
  for a consumer that failed, and a member that has returned stays so.

`AvatarReadsProofs`
: `EveryHeaderIsReadAsSpecified`: for a header of any length and any tag the
  scan `MatchesIfNoneMatch` and the definition `Names` agree.  The scan is a
  recursive function; that it exists is shown with the direct answer as the
  witness, that it is the only one by the shortest rest of the header on which
  the two could differ (`LeastElement`, from the well-foundedness of the
  numbers).  `HeadersAreReadAsSpecified` applies it to the headers of the run.
  `KeptCopiesAreCurrent` and `VisibleAvatarsAreServed` are about `ReadsSpec`,
  of which `FilesIInv` is shown to be an invariant too: a failed read is a step
  that `Spec` does not have.  `ReadsInv` says of every kept answer, and of every
  read under way, that it is `Faithful`: its tag is one the avatar has had, and
  if that is still its tag and the avatar visible, the content is what would be
  served.  For a read that falls back this has to hold of the original, and it
  does because a visible row lists no missing thumbnail: whoever misses one has
  read a row that is deleted or rewritten by now.  `VisibleAvatarsAreServed`
  needs `AmbiguousCommits` to be FALSE, like the cleanup of an upload.

The proofs assume what the modules' ASSUMEs say of the constants (limits are
natural numbers, a batch and a prefetch window are at least one, idle markers
are no avatars or messages, finitely many avatars), and TLC evaluates them in
every run.  No bound of a run is assumed: the number of faults is any number.

Beyond those, four theorems have hypotheses of their own, named above:
`CleanupIsSafeWithoutAmbiguity` and `VisibleAvatarsAreServed`
(`~AmbiguousCommits`), `ServiceImplementsCatalog` (`SameDecodes`) and
`DrainTurnsNobodyAway` (`DrainDelay`, `DelayCoversProbe`).

Only model-checked: all liveness (fairness and ENABLED are beyond the prover).
Every invariant and every action property that a passing run checks is a theorem as well.

## Not modelled

* **The end by SIGKILL** when the grace period is over, and `pool.Close`, which
  waits for connections in use: a handler that outlives Shutdown's timeout could
  keep it waiting.
* **Before the start is over**: readiness looks at the dependencies and not at
  the public listener, so a request may come before the port is bound.
  `ServerProcess` shows such requests as `"early"`; no property speaks of them.
* **Orphaned originals** of requests that ended between put and insert: the
  step is taken (`PutOriginalFails`, `AbandonUpload`), but no code promises to
  remove them, so no property does.
* **The repair of a deletion without an event**: when the delete event is lost
  between the soft delete and the broker, the files stay and only the log knows.
  The step is taken (`LoseDelete`, `SoftDeleteUnanswered`); nothing promises a
  repair, so `DeletedOriginalIsTracked` and `DeletedOriginalIsRemoved` except
  such an event openly and do not catch its loss.  They speak of what the worker
  does with an event that was published.
* **How an address is found** behind proxies (`ClientIP`, `CanonicalizeIP`): here it
  is a value that comes with the request.
* **The vendored Swagger UI** (`web/static/swagger/swagger-ui-bundle.js`): minified
  third-party code that shows the API documentation in a browser.
* **The clamp of the retry delay** (`retryTTLMillis`, three lines) and the bounds in
  `config.go`: pure, and free of state.  (One message there promises more than
  the check: `RABBITMQ_RETRY_TTL` "is expected from 1s", and any positive value
  passes.)
* Pixels, file types, multipart forms, HTML, SQL text, metrics, traces, logs,
  migrations, charts: sequential, or without influence on what the program does.
* Time.  Deadlines, TTLs and the age threshold of the reconciler are choices of
  when a step happens.

## Plan

In this order, the most important behaviour first:

1. done: `AvatarLifecycle` with `AvatarCatalog`, then `Consumer`, `BrokerConnection`,
   `Publisher`, `Breaker`, each with its runs and the theorems above.
2. done: `ConditionalRequest` with `AvatarReads`, `ServerProcess`, `WorkerProcess`.
3. done: `UserAvatars` and `ApiRequests`, with their theorems; the refinement of
   `AvatarCatalog` and `DeletedOriginalIsTracked` proved.
4. done: `PublisherProofs`, `DrainTurnsNobodyAway`, `OnlyAConsumerEndsIt`.
5. done: `BreakerProofs`, `AvatarReadsProofs`, `RunsAreBounded`, `CopiesAreBounded`,
   `OnlyAStopBurnsAttempts`.
6. Left: the safety facts under the liveness properties as lemmas of their own (a
   stopping consumer has nothing to wait for, a broken link is always noticed by
   one of the two goroutines).
