# A TLA+ verification of fiap-video-processor

This directory holds a formal model of the video processor: TLA+ modules translated from the Go
sources (and from the Terraform that sets the bounds of its queues), TLC configurations that check
them on small instances, and theorems checked by TLAPS. `PROJECT.json` is the machine-readable
index: the components, the runs, the map from every definition to the lines it stands for, the
mutants that show each property can fail, the findings, the hazards and the theorems.

To reproduce, from this directory:

    tlc -workers 2 -config tracking_single.cfg MCProcessTracking     # any run of the table below
    tlapm ProcessTrackingProofs.tla                                  # and each other ...Proofs module

## 1. The system

A User signs up and logs in (**auth**), asks the **api** for an upload URL, uploads a video straight
to S3 and asks the api to process it. The api records a *Process Request* and, in the same
transaction, a `VideoProcessingRequested` event in its **outbox**; a **relay** publishes it to SNS.
The **worker** takes it from its SQS inbox, downloads the video, extracts frames with ffmpeg, zips
and uploads them, publishes `Started`, `Completed` or `Failed`, and mails the User. The api consumes
those events from its own inbox and **tracks** the status the User polls.

                    HTTP                 outbox, relay        SNS -> SQS
    User --- gateway ----> api ------------------------------------------> worker --> e-mail
               |            ^                                                |
          authorizer        |               SQS <- SNS                       |
             (auth)         +------------------------------------------------+
                             Started / Completed / Failed (status tracking)

Two api pods run (each with HTTP server, relay and consumer), and a number of worker pods that KEDA
scales with the queue, each with `WORKER_CONCURRENCY` goroutines. Each service has its own Postgres
database; services share nothing but messages and S3 objects.

| component | state | operations | interacts with |
|---|---|---|---|
| api: use cases (`domain/video/service.go`) | `video`, `video_process_request` (unique per video), `video_process_result`, `outbox`; objects under `uploads/` | CreateVideo, ProcessVideo, DownloadResult, ListVideos | the User (HTTP), S3 (signed URLs, HEAD), the relay (through the outbox table) |
| api: outbox and relay (`outbound/outbox`, `postgres/outbox.go`) | `outbox.id`, `published_at` | PendingEvents, Publish, MarkPublished, every 2 s, in every pod | SNS |
| worker: consumer (`inbound/sqs/consumer.go`) | the message at hand, its receive count, its heartbeat | receive one, decode, heartbeat, retry, acknowledge | SQS |
| worker: execution (`domain/video/service.go`) | `processing_execution`, `notification_log`, `results/<id>.zip`, a temporary directory | ExecuteProcessRequest: find, save, publish, download, extract, pack, upload, save, publish, notify | Postgres, SNS, S3, ffmpeg, MailerSend |
| api: status tracking (`domain/video/processing.go`, `inbound/sqs/consumer.go`) | status and attempts of a request, its result, `processed_event` | StartProcessing, CompleteProcessing, FailProcessing, through `apply` and `ApplyEvent` | SQS, Postgres |
| messaging (`infra/modules/messaging`) | topics, inboxes, receive counts, dead-letter queues | delivery, visibility timeout, redrive after `maxReceiveCount` | api and worker |
| auth (`video-processor-auth`) | `user` (e-mail unique); JWTs, which nobody stores | SignUp, Login, Authorize | the gateway |
| gateway (`infra/modules/gateway`) | its cache of the authorizer's answers | authorize, pass the identity to the api | auth, api |
| web page (`web/app.js`) | `state` (session, interval, list rendered last, downloads), the DOM, localStorage | login, logout, refresh and render, send, download, boot | the api, auth |

The behaviours that make it hard, each listed with its line under `hazards`:

* **At-least-once, unordered messages.** The outbox may publish an event twice, SQS may deliver it
  twice or late, visibility may run out during a handler, and Completed may overtake Started.
* **Check, then act, in separate calls.** `apply` reads a row and later overwrites it; the worker
  reads an Execution and later upserts it; ProcessVideo looks a request up and later inserts one.
  Two pods interleave between the calls.
* **Partial failure.** Every call may fail without effect, or take effect and lose its answer, and a
  pod may die between any two: after publishing and before marking, after mailing and before logging.
* **Bounds that must agree.** `MAX_ATTEMPTS` of the worker and `maxReceiveCount` of its queue count
  the same deliveries in two places; the batch of a receive shares one visibility timeout.
* **Stale answers.** The gateway caches an authorization past the expiration of its token. The web
  page goes on after each `await` with whatever session there is by then.

What makes each component correct:

* *Status tracking*: a terminal status is final; status, attempts and result are those of events
  recorded as processed; no event is acknowledged before it counted, and none is applied twice; an
  outcome that arrives surfaces or is left in the DLQ.
* *Worker*: a message is acknowledged only after its outcome was recorded, announced and mailed;
  what is announced is what is recorded; every request is told or left in the DLQ, and a video that
  cannot be processed is told before the queue gives up.
* *Outbox*: nothing lost, nothing marked that was not published, order kept.
* *Use cases*: one request and one event per video whatever races; only owners are served, a link
  only for a zip; what was accepted is listed.
* *Auth*: one account per address; the identity served is the one that logged in; sessions end.
* *Web page*: one interval polls exactly while somebody is logged in; the screen is what `state`
  says; a session that lasts ends up showing its own User's list, or does not call it up to date once
  the token is refused.
* *All together*: what the User sees and is mailed is what happened, and every request ends.

## 2. The modules

| module | models | corresponds to |
|---|---|---|
| `ProcessRequest` | the pure part of `processing.go`: statuses, `allowedTransitions`, and the change an event asks for | an operator per method; a row is `[status, attempts]`, a result "zip", "reason" or "none" |
| `RequestLifecycle` | **abstract specification**: the status diagram, attempts that only grow, a result that comes with a terminal status | what the docs promise of a request; no queue, no consumer |
| `ProcessTracking` | the consumer of every api pod | actions `Receive`, `Take`, `WasEventProcessed`, `FindRequest`, `ApplyEvent`, `ApplyFails`, `DeleteMessage`, `CallFails`, `Crash`; the queue's `Arrive`, `Expire`, `DeadLetter` |
| `ProcessTrackingProofs` | the theorems about `ProcessTracking` | |
| `Execution` | the worker's goroutines | one action per call of ExecuteProcessRequest in the code's order (`FindExecution` ... `MarkNotified`), and consume's `DeleteMessage` and `RetryMessage` |
| `ExecutionProofs`, `SerialExecutionProofs` | the theorems about `Execution`: with every fault, and with one delivery per request | |
| `Outbox` | CreateRequest's transaction and the relays | `Insert`, `Commit`, `Rollback`; `PendingEvents`, `Publish`, `PublishFails`, `MarkPublished`, `MarkFails`, `Crash` |
| `OutboxProofs` | the theorems about `Outbox` | |
| `VideoRequests` | the HTTP use cases as sequences of calls | `Begin` (with what is refused before any call), then one action per repository or S3 call, `ListByUser` among them; `Upload`, `ObjectExpires`, `OutcomeApplied` and `StatusTakenBack` outside the service |
| `VideoRequestsProofs` | the theorems about `VideoRequests` | |
| `Pipeline` | **composition**: `Outbox`, `Execution` and `ProcessTracking` as instances over disjoint variables | adds only that a publication puts a message into the other service's inbox |
| `PipelineProofs` | the theorems about `Pipeline`, from those about its components | |
| `UserPromise` | **abstract specification**: a request is settled once, and what is shown, mailed and downloadable tells that outcome | what the platform as a whole promises the User; no service, queue or table |
| `UserReports` | **abstract specification**: what may be told, shown and mailed of a request, and in which order | what the User can rely on whatever runs twice or at once |
| `Access` | sign-up, login, JWT, authorizer, gateway cache | one action per database call and one for signing; `Tick` is the clock |
| `AccessProofs` | the theorems about `Access` | |
| `WebPage` | one browser tab running `web/app.js` | a handler is one action up to each `await` and one after it: `Submit`, `SignedUp`, `LoggedIn`; `Refresh`, `Refreshed`; `Pick`, `Reserved`, `Uploaded`, `Sent`; `Download`, `Downloaded`; `Logout`, `Reload` |
| `WebPageProofs` | the theorems about `WebPage` | |
| `MC...` | small instances for TLC | traffic, message-to-request maps, symmetry sets |

Conventions. A handler that makes several calls is several actions, one per call, with a program
counter `pc`: other processes may step between any two. A database transaction is one action; where
its answer may be lost the action also leads to the error path. Names follow the code. Definitions
called *mutants* (`CommitUnfenced`, `CallFailsDiscarded`, ...) are plausible bugs of the definition
they stand before. No specification refers to them.

### ProcessTracking

`request`, `result` and `processed` are the three tables; `inbox`, `receives` and `body` the queue;
`batch`, `pc`, `current` and `change` what a consumer goroutine remembers. Points that are easily
lost in a model and are kept:

* The 30 s of visibility run for the whole batch from its receive, and nothing extends them, so
  `Expire` has no condition but being in flight.
* `ApplyEvent` overwrites the row with what was computed from an earlier read. The primary key of
  `processed_event` refuses a second application: the transaction is rolled back, as when one of its
  statements fails (`ApplyFails`), with an error that is *not* discardable, and the message stays.
* ErrNotFound, ErrInvalidTransition, ErrTypeMismatch and malformed bodies are discardable and the
  message is deleted. A payload that does not decode (`PayloadAs`, `envelope.go:52`) is wrapped in
  none of these, so that message is redelivered until the DLQ takes it (`Take`, type "BadPayload").
* Messages in flight beyond the pod's life come back by `Expire` alone; `DeleteMessage` with an old
  receipt may do nothing, and its error is only logged.

### Execution

`execution` and `notified` are the tables, `stored` the zip, `published` and `mails` what left the
service. `Faults` selects what an instance may suffer: "call" (a call fails without effect), "lost"
(it takes effect and its answer is an error), "crash", and "lapse" (the heartbeat's
ChangeMessageVisibility keeps failing for five minutes and a message being handled becomes visible).
Without "lapse" a message at hand stays invisible: that is what the heartbeat is for. `run` fails
with "transient", "unprocessable" or "missing"; the first becomes definitive at `MaxAttempts`.

### Outbox

A row takes its id from the sequence at INSERT and is seen from COMMIT on, so ids become visible out
of order (`Insert`, `Commit`). `before[r]` is a history variable: the requests committed when `r`
committed. A relay works on the rows of its own SELECT, which other relays may publish and mark at
the same time; the code has no lock and the model has none.

### VideoRequests

A request is identified by the call that inserted it, so "which request was this call answered with"
is a question about state. A list is answered with the set of requests it names (`listed`). A request
without the gateway's identity, with a body that is no JSON, or with a file that is not accepted is
refused before any call (`Refusals`). An upload with the signed URL carries the owner's metadata only if the
client sends the `uploadHeaders`; an object without them is "foreign".

Status tracking is outside this module, but what it writes is what DownloadResult reads, in two calls:
the status (`completed`) and then the result (`result`), which are two tables. `OutcomeApplied` writes
both in one transaction; `StatusTakenBack` is the stale UPDATE of finding 1, which writes PROCESSING
over COMPLETED and leaves the result. DownloadResult signs the `zip_key` of whatever row it finds, so
that a link is for a zip only because the status was COMPLETED one call earlier. A request has one
outcome here, as one delivery to the worker makes it: with findings 1 and 2 together a COMPLETED could
be followed by the result of a FAILED.

### Access

A hash is represented by the password it matches, a token by its claims; tokens that auth never
issued are outside the model (HS256 is assumed). Durations are in ticks, `Second` ticks to a second,
because `NewNumericDate` drops fractions of seconds. The answer cached by the gateway may also be a
refusal; serving a cached refusal equals verifying again, since a token that has expired stays
expired, and so only acceptances are kept in `cache`. A failure of `Hash` and one of the INSERT both
end in `internal_error` without effect and are one step, `CallFails`.

### Pipeline

The event id of a worker event is its message, which is what a fresh UUID per publication amounts
to. Each acceptance of an outbox row by SNS delivers one new message to the worker's inbox. The
composition reuses the components' actions as they are; `OnlyBox`, `OnlyWork` and `OnlyTrack` say
that the other components stand still.

The refinement mapping to `UserPromise` (`Promise`) reads the abstract state off three places: a
request is *asked* once its transaction has committed, its *outcome* is that of the worker's table
when that is final, *zips* is the storage, *shown* the api's row with its result, and *mailed* what
the mail provider accepted. `KeepsPromise` therefore relates two databases, two inboxes and the
storage: were an event to reach the api before its request was committed (and be discarded as
ErrNotFound), or the api to show what the worker did not record, no step of `UserPromise` would fit.

`UserPromise` needs one delivery of each request and one api pod; two pods are deployed. `UserReports`
is what holds with any number of either, and of lapsed heartbeats. Its state is the same but for
*told* in place of the outcome: the outcomes announced of a request, of which there may then be two.
A terminal status may be taken back by a stale write (`Report`), but nothing is told before it was
asked for, COMPLETED is not told without the zip, nothing is shown or mailed that was not told, an
outcome is shown together with its result, and a result stays until the other outcome is shown.

### WebPage

JavaScript runs one handler at a time, and an `await` lets others run, so interleaving happens at the
awaits and nowhere else. Answers come in any order and after a logout too. The api is reduced to the
list of each User as a version number, `Items`, with a downloadable video from `DoneVersion` on.
`snapshot`, `downloading`, `timer` are the fields of `state`; `timers` are the intervals that really
run, `grid` and `empty` what the DOM shows; `freshness` is `refreshedAt` with `stale`: the page says
since when the list is current, since when nothing answers, or nothing. What the page does, some of it surprising, is kept:

* `refresh` checks `state.token` before its call only (`app.js:328`). The answer of an earlier session
  is rendered.
* An expired token ends no session. `app.js:335` waits for a 401, but the authorizer answers
  `IsAuthorized: false` (`authorizer.go:33-36`) in the simple format (`gateway/routes.tf:7`), for which
  the gateway's status is 403; 401 is for a request without the header, which the page never makes. So
  `Refreshed` only marks the list as stale, as for any error, until a logout or a reload.
* Of two overlapping polls the older answer may be rendered last.
* `clearSession` hides the page and empties `snapshot` but leaves the cells of the grid: after
  another login they are shown until the first answer.
* `boot` goes on with a saved token if it is still valid, and a tab may be closed at any point.

None of these is contradicted by a doc or comment of the repository, so there is no finding. What
they must not do is last: `SessionSettles` says that a session that lasts ends up showing the User's own
list, as it is, or, once its token is refused, one that is not called up to date.

## 3. What is checked

| run | instance | question | properties |
|---|---|---|---|
| `tracking_single` | 1 pod, 2 messages over 8 events (all that a worker may say in two Attempts, an unreadable body, an unreadable payload, an unknown request), batch 2, 3 receives | does one pod follow the status diagram through duplicates, reorderings, crashes, failed calls, lost answers? | TypeOK, AcknowledgedIsSettled, StatusIsExplained, TerminalIsFinal, ImplementsLifecycle, OutcomeSurfaces |
| `tracking_pair_terminal` | 2 pods, 2 messages over Started, retryable Failed, Completed | *violation*: is a terminal status final? | TerminalIsFinal |
| `exec_serial` | 1 request, a malformed message, 2 workers, 3 Attempts, 3 receives; calls fail, answers are lost, pods crash | does the worker settle, announce and mail in order? do its count of Attempts and the queue's count of deliveries agree? is every request told, or left in the DLQ? | TypeOK, AnnouncedIsRecorded, OutcomeIsFinal, AttemptsAdvance, RetryIsDelivered, EveryOutcomeIsTold |
| `exec_duplicate` | 1 request in 2 messages, 2 workers, lapsing heartbeats, failing calls, crashes | what survives concurrent deliveries of one request? | DeletedIsDelivered, CompletedHasZip |
| `exec_duplicate_final` | 1 request in 2 messages, 2 workers, no faults at all | *violation*: is a final Execution ever overwritten? | OutcomeIsFinal |
| `exec_mail` | 1 message, 1 worker, failing calls | *violation*: at most one e-mail? | OneMail |
| `outbox` | 2 requests, 2 relays, batch 2, 3 ids | nothing lost, order kept, everything published | TypeOK, MarkedWasPublished, PublishedInOrder, EveryEventIsPublished |
| `requests` | 2 Users, 2 videos, 4 calls | do racing calls agree on one request and one event? are only owners served, and links only for zips, though a status may be taken back? is what was accepted listed? | TypeOK, AcceptedIsTheRequest, OneEventPerRequest, RequestHadUpload, OnlyOwnersAreServed, AcceptedIsListed |
| `pipeline` | 1 request, 1 relay, 1 worker, 1 pod, 1 Attempt, failing calls | do the services together keep the promise made to the User? is what was mailed shown or on its way? does every request end? | MailedIsShown, KeepsPromise (that is `Promise!Spec`), EveryRequestEnds |
| `pipeline_pods` | 1 request, 1 relay, 1 worker, 2 pods, 1 Attempt, each message of the api received up to twice | what may the User be told when the pods of the api interleave? is a terminal status true? is the event of a mailed outcome ever lost? is one applied twice? | TerminalIsTrue, MailedIsRecorded, AppliedOnce, ReportsHonestly (that is `Reports!Spec`) |
| `access` | 2 spellings of one address and an invalid one, 3 passwords, 4 calls, 6 instants | races of sign-ups, sessions past expiration and cache | TypeOK, OneAccountPerEmail, EverySpellingLogsIn, ServedIsTheAccount, SessionsEnd |
| `page` | 2 Users, 2 logins, 2 list requests in flight, 2 versions of each list | what do late answers, logouts, expirations and reloads leave on the screen? | TypeOK, OnePoller, ScreenFollowsState, SessionSettles |

### Bounds, and why they are enough

* *Messages and events of status tracking.* A Process Request's row is changed by one event at a
  time, and the properties relate one message or one event to one row. Two messages give every
  ordered pair of the eight events, the same event twice included, and with two in one batch the
  visibility of the second runs out while the first is handled. Three receives cover a first try, a retry and the redrive, and 3 is what is deployed (`max_receive_count`).
* *Worker.* Three Attempts have a first, a middle and a last one, and MaxReceives equals
  MaxAttempts, as deployed; two goroutines are the least that can interfere. One message suffices
  where no other delivery is the point; in `exec_duplicate` there are two.
* *Outbox.* Two requests are enough for ids that commit out of order, two relays for overlapping
  drains, and three ids for one rolled-back transaction. The same run with three requests
  passes as well (158 s).
* *Use cases.* Four calls are one upload, two racing ProcessVideo calls and a stranger, a download or
  a list; two videos, because a list that is complete for one may miss another.
* *Web page.* Two logins give an earlier and a present session, of the same User or of two; two list
  requests are the least that overlap, and `LoggedIn` and `Sent` wait for a free one; `MaxVersion` 1
  gives an empty list and one with a video to download. A form is submitted once at a time, and
  `auth[call] < 2` only bounds what the mutant of the lock could do.
* *Pipeline.* One request, because no action of the pipeline touches two. With `MaxAttempts` 1 the
  worker's first transient failure is definitive; retries are `Execution`'s subject. A worker's run
  publishes two events at most per receive, so two messages in the api's inbox do not throttle it.
  In `pipeline_pods` these two are Started and the outcome: with two pods and two receives of each, the
  outcome lands between the read and the write of the other event, or of its own redelivery. `pipeline`
  has one pod, as `EveryRequestEnds` needs: with two, by finding 1, a request may stay in PROCESSING.
* *Access.* TTL 3 with two ticks to a second lets `exp` fall before the end of the TTL; the clock
  runs past TTL + cache.

Deadlock checking is off everywhere: every model has terminal states (all messages acknowledged or
dead, all calls answered, the bounds reached). What must happen before the models of the queues, the
relays and the page come to rest is what their liveness properties say.

### Fairness

Safety needs none. Liveness assumes, and the code justifies:

* *Queues*: weak fairness of `Expire` and `DeadLetter`: SQS timers fire and the redrive policy is
  applied.
* *Consumers*: weak fairness of receiving (both consumers long-poll in an endless loop) and of the
  next step of a handler *whichever* it is: a step may always be the failing one. Nothing is assumed
  to succeed, since retries are bounded by the receive count and what fails for ever ends in the DLQ.
  This includes that ffmpeg terminates; a pod that hangs and is killed is `Crash`.
* *Relays*: rows have no retry bound and no DLQ, so the relay must succeed some time: strong
  fairness of publishing, for each number of rows still to publish, and of marking. A relay that is
  enabled to publish its n-th last row again and again succeeds in the end. An SNS outage that never ends is
  excluded; without this assumption `EveryEventIsPublished` is false and nobody would claim it.
* *The web page*: weak fairness of the interval, of every list request being answered or failing, and
  of the handlers that wait for an answer; strong fairness of the list being answered, so that a
  page that asks for ever is answered some time. Logging in, expiring and uploading are free.
  `SessionSettles` has "the tab is not reloaded for ever" as a hypothesis.
* *Nobody crashes on purpose*: no fairness on `Crash`, `CallFails`, `PublishFails`, `MarkFails`,
  `Rollback`, on arrivals, or on anything a User does.

### Findings

1. **A terminal status can be lost with two api pods** (`tracking_pair_terminal`, `code_bug`). Pod 1
   takes Started and reads PENDING; pod 2 takes Completed, reads PENDING, commits COMPLETED with its
   zip; pod 1 commits PROCESSING over it, because `ApplyEvent` updates the row whatever it is now.
   The request stays in PROCESSING for good, while its result is in `video_process_result` and the
   User has been mailed. `docs/diagrams/02-failure-scenarios.md:40` says terminal statuses are final.
   A `WHERE status NOT IN (...)`, or the read inside the transaction with FOR UPDATE, would close it.
   With one pod the property holds and is proved for all instances (`TerminalStaysFinal`). With any
   number of pods, what a User is shown as an outcome is true while it is shown (`TerminalIsTrue`), and
   the result in the tables is kept (`MailedIsRecorded`, `ReportsHonestly`).
2. **A final Execution can be overwritten by a concurrent duplicate** (`exec_duplicate_final`,
   `doc_code_divergence`): ADR 0001 says a duplicate is absorbed by `processing_execution`; two
   *concurrent* deliveries both find no final Execution and both run. What still holds is checked by
   `exec_duplicate`: no acknowledgement before delivery, no Completed without a zip.
3. **A User can be mailed twice** (`exec_mail`, `doc_code_divergence`): `Send` comes before
   `MarkNotified`; the docs say `notification_log` prevents duplicate e-mails (F10). The order is the
   right one for at-least-once delivery: the opposite could lose the e-mail (`DeletedIsDelivered`).

Every property of a passing run has a mutant of a mapped definition that violates it under the same
configuration (`mutants`).

## 4. What is proved

TLAPS checks thirty-six theorems, for every value of the constants: every set of requests, events,
messages, pods, relays, workers, Users, videos and calls, every positive batch size and receive
bound, every choice of faults. Assumed are the modules' assumptions (`TrafficAssumption`: events have
the types of the code and a natural attempt; `BoundsAssumption`, `OutboxAssumption`,
`ExecutionAssumption`, `PipelineAssumption`, `WebPageAssumption`: bounds are natural numbers, `NoMessage` is no message,
faults are among those listed; `NoneAssumption`: `None` is no User, call or video;
`AccessAssumption`: durations are natural numbers, and a session lasts longer than a second).

### Status tracking (`ProcessTrackingProofs`)

| theorem | property | assumes also |
|---|---|---|
| `TypeCorrect` | `TypeOK` | |
| `AcknowledgedEventsSettled` | `AcknowledgedIsSettled` | |
| `StatusExplained` | `StatusIsExplained` | |
| `EventsAppliedOnce` | `AppliedOnce` | |
| `TerminalStaysFinal` | `TerminalIsFinal` | `SinglePod` |
| `LifecycleImplemented` | `ImplementsLifecycle`, that is `Lifecycle!Spec` | `SinglePod` |

`SinglePod` says that any two consumers are the same. It is not an assumption of the module and not
what is deployed; it is a hypothesis of these two theorems, because finding 1 shows that both
properties are false without it.

* **Typing.** `TypeInv` adds to `TypeOK` that a consumer past "idle" has a message at hand, of an event
  that arrived (`Handling`, `HandlesArrived`): without it `body[current[c]]` need not be an event.
* **Acknowledgement.** `AcknowledgedIsSettled` is about deleted messages, but a message is
  deleted some steps after the reason for it was found, while other pods write. `SettleInv` adds
  `DeletesAccounted`: whoever is about to delete a tracked message has a reason that stays true. It
  also needs `OutcomesRecorded`: a terminal row has had its outcome recorded, which is what
  justifies discarding an event on ErrInvalidTransition, and which survives even finding 1, since
  results are never removed.
* **Explanation.** `ChangesExplained` says that what a pod is about to write would be explained once
  its event is recorded, however stale the row it was computed from (`ChangeExplained`); since
  `processed` only grows (`ExplainedGrows`), explanations never expire. With several pods status and
  result of a row may be of different handlers, so that each has an explanation of its own.
* **Application.** Only `ApplyEvent` writes the row or the result (`OnlyApplyWrites`), and its commit
  records the event it is about, which the primary key requires to be new. The typing is needed for the
  event to be the one of the message at hand, which `HandlesArrived` says.
* **What a commit writes.** `TrackInv` joins the two invariants; from it `ApplyWrites` derives, for any
  number of pods, what the composition needs of `ApplyEvent`: the row it writes is stale, but its
  status is progress, the outcome of the event, or an outcome whose result is recorded.
* **Single pod.** `ChangesCurrent` says that a computed change is the change of the row *as it is
  now*: with one pod nobody writes in between. It keeps the result the one of the status
  (`ResultMatchesStatus`), and from the two follow the action property and the step simulation of the
  refinement: `ApplyEvent` maps to a step of `RequestLifecycle` or a stutter (`ApplyEffect`), and every
  other action to a stutter (`OnlyApplyWrites`).

The lemma `ChangeFacts` about the pure change functions is used by all of them.

### The outbox (`OutboxProofs`)

| theorem | property | assumes also |
|---|---|---|
| `OutboxTyped` | `TypeOK` | |
| `MarkedRowsPublished` | `MarkedWasPublished` | |
| `EventsPublishedInOrder` | `PublishedInOrder` | |

* **Marking.** What a relay is about to mark it has published itself (`SentWasPublished`), and
  publications are never undone.
* **Order.** `PublishedInOrder` compares two rows, but a relay works on a batch it selected before
  other relays published or new rows were committed. The invariant is `DrainsHaveNoGap`: with a row,
  a drain holds every row that precedes it and is not published yet. `NewDrainHasNoGap` shows it of
  a fresh SELECT (ORDER BY id, so that LIMIT cuts off only larger ids), and `NextRowIsDue` that the
  row published next leaves no unpublished one behind. `BeforeCommitted` says that whatever precedes
  a committed row is committed itself.

### The worker (`ExecutionProofs`, `SerialExecutionProofs`)

| theorem | property | assumes also |
|---|---|---|
| `ExecutionTyped` | `TypeOK` | |
| `DeletionFollowsDelivery` | `DeletedIsDelivered` | |
| `CompletedIsDownloadable` | `CompletedHasZip` | |
| `RetriesAreDelivered` | `RetryIsDelivered` | `AttemptsFit` |
| `AnnouncementsTrue` | `AnnouncedIsRecorded` | `OneDelivery` |
| `FinalStaysFinal` | `OutcomeIsFinal` | `OneDelivery` |
| `AttemptsOnlyAdvance` | `AttemptsAdvance` | `OneDelivery` |

`OneDelivery` says that no two messages carry the same request and that heartbeats do not lapse. Like
`SinglePod` it is a hypothesis, not an assumption of the module; finding 2 shows that `OutcomeIsFinal`
is false without it. Calls may still fail or lose their answers, and pods die. `AttemptsFit` is
`MaxAttempts <= MaxReceives`: nothing in the code relates the two, the configuration deploys 3 and 3.

* **Typing.** `HandlersApt` adds that only a malformed message goes straight to its deletion, and
  that what a goroutine saves, announces or mails is an outcome (`MayBeAt`). Every call moves one
  goroutine (`Moves`, `ExecuteMoves`), which leaves the others' part of every invariant alone (`OthersStay`).
* **Delivery.** Every call of `notify` witnesses the one before it (`NotifiedSoFar`): a goroutine
  looks up, sends and marks only what it announced, marks only what it sent, and is about to delete
  only what is logged. The log itself names only what was announced and mailed, so that the shortcut
  of `WasNotified` is sound even when another goroutine, or an earlier life of this one, wrote the
  entry. Announcements, e-mails and log entries are never undone (`OutsideGrows`): that is why a
  concurrent duplicate cannot invalidate the reason to delete.
* **Zip.** `ZipInv` carries "COMPLETED implies stored" through the three places an outcome is copied
  to: the table, a goroutine's copy and the event.
* **Retries.** `RetryInv`: whoever retries has an Attempt left to try (`CopyMayRetry`), the Attempt is
  the receive count, and so the queue has a delivery left.
* **For the composition.** `ExecutionInv` joins the invariants that hold without any hypothesis, with
  `MailedIsAnnounced` (an outcome is mailed only after it was announced) and `HeldArrived` (what a
  goroutine holds has arrived). `StepOutside`: of what the User can have, a step uploads the zip of a
  request whose message it handles, or mails it an outcome that was announced.
* **One delivery.** `HoldInv`: a message at hand is in flight and in one goroutine's hands; hence a
  request is executed by one goroutine. `AgreeInv`: until it has saved the outcome, the request is not
  settled in the table and its copy is the Attempt of the last receive; afterwards the copy *is* the
  row (`CopyAgrees`). Since rows are only written by a goroutine that executes them
  (`SavedWhileExecuting`), a final one is never overwritten and what was announced stays true.

### The use cases (`VideoRequestsProofs`)

| theorem | property |
|---|---|
| `RequestsTyped` | `TypeOK` |
| `AcceptedNamesTheRequest` | `AcceptedIsTheRequest` |
| `EventsMatchRequests` | `OneEventPerRequest` |
| `RequestsHadUploads` | `RequestHadUpload` |
| `OwnersOnly` | `OnlyOwnersAreServed` |
| `ListsAreComplete` | `AcceptedIsListed` |

A call acts on what it read some steps before, while others write. That is sound because what
it relies on only grows (`Grows`): an owner, a request or a zip, once there, stays. A status need not,
and between the two reads of DownloadResult it may be gone; what stays is the result that came with it
(`CompletedHasResult`). Two formulas speak of one call: `Knows` of what it knows at the step it has
reached (past ownedVideo its User is the owner; before the insert an upload was seen; before the reread
there is a request; before the result is read, it is a zip) and `Tells` of what its answer tells.
`OthersStay` shows once for all actions that this survives every step of another call, so that each
action is examined for its own call only. The outbox theorem rests on the transaction alone, and
`ListsAreComplete` is an action property: a list answered *now* names what was accepted *before*.

### Access (`AccessProofs`)

| theorem | property |
|---|---|
| `AccessTyped` | `TypeOK` |
| `AccountsAreUnique` | `OneAccountPerEmail` |
| `IdentityIsTrue` | `ServedIsTheAccount` |
| `SpellingsLogIn` | `EverySpellingLogsIn` |
| `SessionsEndInTime` | `SessionsEnd` |

`AccessInv` joins what every call knows and was told (`CallInv`), that every token carries an account
and the instant of its issue plus the time to live, rounded down to a second (`IssuedInv`, by
`NumericDateBounds`), and that an answer is cached only until the cache's time after a moment at
which the token was valid (`CacheInv`). Accounts and tokens are never withdrawn, and an answered call
changes no more, so that an answer "invalid_credentials" contradicts any earlier "created".

### The web page (`WebPageProofs`)

| theorem | property |
|---|---|
| `PageTyped` | `TypeOK` |
| `PollersCounted` | `OnePoller` |
| `ScreenIsCurrent` | `ScreenFollowsState` |

`OnePoller` is not inductive: `setSession` stops no interval, so what matters is that it never runs
while there is one. `FormLocked` says why: one submission at a time, none once somebody is logged in;
and `TimerCurrent` that `state.timer` is the interval of the session, the one `clearSession` stops.
`ButtonsOwned` (a cell with a button is some User's) makes the redraw during a download agree with
`downloading`; `CallersKnown` that a request in flight belongs to a session somebody logged in to.

### The pipeline (`PipelineProofs`)

| theorem | property | assumes also |
|---|---|---|
| `MailedOutcomesRecorded` | `MailedIsRecorded` | |
| `EventsOnce` | `AppliedOnce` | |
| `ReportsHonest` | `ReportsHonestly`, that is `Reports!Spec` | |
| `TerminalsAreTrue` | `TerminalIsTrue` | `OneDelivery` |
| `MailedOutcomesShown` | `MailedIsShown` | `OneDelivery`, `SinglePod` |
| `PromiseKept` | `KeepsPromise`, that is `Promise!Spec` | `OneDelivery`, `SinglePod` |

The first three hold of the system as it is deployed: any number of pods of both services, relays that
publish twice, redeliveries, lapsed heartbeats, failing calls, lost answers, crashes. The hypotheses of
the others are those of the components, and the findings show that they are needed: with a duplicate
that runs, a request may be told to have ended in both ways, and with a second pod the status may be
taken back. The argument has four parts.

* **Components.** A behaviour of the pipeline is one of `Outbox`, of `Execution` and of
  `ProcessTracking` (`BoxSteps`, `WorkSteps`, `TrackSteps`, joined in `ComponentSpecs`), so that their
  theorems hold in it; the lemmas `SameBox`, `SameWork` and `SameTrack` identify the instances of the
  components with those the theorems are about. For `TrackSteps` the worker's typing is needed: what it
  publishes is of the traffic (`PublishedEvent`). `EventsOnce` is the theorem of status tracking, read in
  the pipeline. The components' invariants are `ComponentsInv`.
* **Bridges.** `BridgeInv` says what no component can say alone, and needs no hypothesis: a message in
  the worker's inbox, and an announcement, is of a committed request (`RequestsCommitted`); the api's
  inbox brings exactly what was announced (`EventsDelivered`); only events that arrived are processed;
  and an outcome that was processed has left a result, which no stale write takes away (`OutcomesKept`).
  Each is preserved by the steps of whichever side they are (`StepKinds`).
  `ShownWasTold` adds that every status and result shown is of an outcome that was announced, by way of
  `StatusIsExplained`: what is shown is explained by a processed event, which is one that arrived,
  which is one that was announced. A mailed outcome was announced, so its event is in the api's inbox
  or was deleted from it, and what is deleted is settled: that is `MailedOutcomesRecorded`.
* **Simulation of `UserReports`.** A commit is `Ask`, an upload `Pack`, a publication of an outcome `Tell`
  (the zip is there by the worker's `ZipInv`), an e-mail `Mail` (`RelayAsks`, `WorkerTells`,
  `WorkerReports`). An applied event is `Conclude` if it brings its result and `Report` if it only writes
  a status over the row, stale or not (`ApiReports`, by `ApplyWrites`); all else is a stutter.
* **Simulation of `UserPromise`.** With one delivery a final Execution stays, so what was announced is
  what is recorded, and a terminal status is true (`TerminalWasSettled`); with one pod a terminal status
  stays as well (`OrderlyInv`). Every step that changes the worker's records saves, stores or mails for a
  request whose message it handles (`StepRecords`, in `SerialExecutionProofs`): these are `Settle`,
  `Pack` and `Mail`; a commit is `Ask`; an applied event is `Show` (`TrackApplies`).

### Only model-checked

The liveness properties, which are beyond TLAPS: `OutcomeSurfaces`, `EveryOutcomeIsTold`,
`EveryEventIsPublished`, `EveryRequestEnds`, `SessionSettles`.

## 5. What is not modelled

* JSON encodings and HTTP status numbers, the text of e-mails, mail protocols, the Lambda adapter,
  metrics, tracing, configuration loading, migrations as such, Terraform, CI: no decision about a
  request is taken there, or the decision is a constant of a model.
* The texts, the layout and the client-side checks of the web page; a second tab (its session is
  another instance of the model, but a logout there also removes the saved token here).
* Redriving a DLQ by hand (F12): a redriven message is a second message of the same request, which is
  what `exec_duplicate` has. The shutdown of a pod: nothing waits for relay or consumer (`app.go:62`
  of the api), so that it is a `Crash`.
* Times, except where a property is about them (`Access`): a visibility timeout may end at any
  moment, which includes the moments it can end at.
* Postgres isolation: statements and transactions are atomic. Each transaction of the program
  writes one request's rows and reads nothing it depends on but unique keys, so READ COMMITTED gives
  no further behaviours.

## 6. Plan

Every component that decides about a request is modelled and model-checked, every safety property
of a passing run is proved, and so is the refinement of the composition. What is left, in order of
importance:

1. `Pipeline` with two Attempts and lossy answers for TLC, once an instance is found that it
   finishes; the theorems cover both.
2. Abstract specifications of the other components that keep state for the User, as there is one of
   status tracking: of the use cases (a video is requested at most once, and listed from then on), of
   the outbox (every committed request is announced, at least once), and of auth, with refinements.
