# A verification model of the YClients notification bot

The program under `src/` watches appointments in YClients (a booking system),
and tells the salon's clients about them in Telegram, WhatsApp and MAX. It is a
FastAPI application, four Celery worker processes, a Celery beat scheduler,
PostgreSQL and Redis. This directory holds TLA+ models of its concurrent and
fault-handling parts, TLC configurations that check them on small instances, and
TLAPS proofs of the properties that matter most for all instances.

## 1. The system

| Component (source below `src/app`) | State | Operations | Hard part |
|---|---|---|---|
| Notification task (`tasks/notification_tasks.py`, `models/task.py`, `tasks/celery_app.py`) | `task_queue` row, broker messages, worker processes | check, insert/update row, execute, mark success, record error, retry, give up | at-least-once delivery, crashes between two transactions, overlapping copies |
| Notification service (`services/notification_service.py`) | `notification_log` | dedup check, loop over channels, log, delivery report | everything is committed at the end; dedup reads what others have not committed |
| Dispatcher (`services/dispatcher.py`) | - | filters (type, quiet hours, recipient), send, deactivate | nested loop with the service's loop; partial failure |
| Adapters (`adapters/*.py`) | connection, MAX polling marker | send, handle updates, poll | failures become results, with exceptions; the marker is in memory |
| Scheduler (`tasks/scheduler_tasks.py`) | `scheduled_reminders` | poll, check reminders, birthdays, schedule reminders | windows without a watermark; publish before commit |
| Webhook intake (`api/webhook.py`) | `task_queue` row | record, publish | commit and publish are two steps |
| Client registry (`services/client_registry.py`) | `clients`, `client_channel_settings` | link, unsubscribe, deactivate, list active channels | commands repeated after a restart; numbers that change hands |
| Client actions (`services/action_handler.py`) | `action_dedup` | confirm, cancel, reschedule, unsubscribe, link | press recorded before the update is made; timeouts; concurrent presses |
| YClients client (`services/yclients_client.py`) | 5xx counter, circuit deadline | request with 429 backoff and circuit breaker | requests in flight while the circuit opens |
| Rate limiter (`utils/rate_limiter.py`) | two kinds of token bucket, in memory | acquire | sleeping with the lock held, refill accounting |
| Template engine (`services/template_engine.py`) | local cache, table | seed, read through, validate, render | caches of many short-lived instances; edits that overlap |
| Admin panel (`api/admin.py`) | the tables above | update a template, deactivate a channel, test-send | read-modify-write of a row |
| Health, metrics, cleanup, security, logging, configuration | - | probes, deletes, pure functions | none of their own |

How they interact: beat publishes `poll_yclients`, which reads YClients and
publishes one `send_notification_task` per changed appointment; the webhook
publishes `process_yclients_event_task`, `check_reminders` publishes
`send_reminder_task`. A worker runs the task: a `send_notification_task` consults
its `task_queue` row, all three call the notification service in one database
transaction, which consults the log, asks the registry for the client's channels,
renders a template and lets the dispatcher call the adapters. An adapter may wait
for the rate limiter. Providers report delivery through the WhatsApp webhook, which
updates the log; buttons pressed and commands sent by the client come back through
the adapters to the action handler, which updates YClients (read by the next poll)
or the registry. The administrator edits templates and switches channels off.

What makes each part correct:

- **Notification task**: gives up only after every attempt failed; never loses a
  published task unless the database or broker fails; a recorded success is not
  executed again; attempts stay bounded under crashes and duplicates; every task
  comes to rest. In one sentence: it keeps the promise of `AtLeastOnce`.
- **Service and dispatcher**: the log agrees with what was sent; a channel that fails,
  is blocked or is silenced costs no other its turn, unless its adapter raises instead
  of answering; a channel known to be blocked is not tried again; once one
  execution has logged a notification, a later one does not send it again within
  the window.
- **Scheduler and intake**: polls that come in time leave no change untold, in the
  order of the versions; a published event or reminder is run to its end; a
  reminder that is written in time is published in its window; how often reminders
  and greetings go out is bounded.
- **Client registry**: a number names one client; a channel is set up exactly for
  clients a user is bound to; repeated commands leave the bindings the commands ask
  for; what the administrator switches off stays off, with one exception (below); no
  command is skipped.
- **Client actions**: what the client is told agrees with what YClients did; later
  presses win over earlier ones; repeated ones are ignored.
- **YClients client**: the circuit opens exactly on consecutive errors; a pause
  spares YClients all calls that had not begun, and it ends.
- **Rate limiter**: the number of messages in any period is bounded.
- **Templates**: no client gets a text older than its notification; raw template
  syntax comes only from what the validation does not look into; no edit is taken
  back.

`PROJECT.json` lists the hazards of the code line by line, with the properties
that cover each, or why none does.

## 2. The modules

Names follow the code. In every module an operator with a suffix, as
`Active_Committed`, is a faulty variant of the operator after it; no action uses
it. It records a plausible mistake that one of the properties rules out. An `MC`
module adds to its module the values, symmetry sets and state constraints of a run.

### `NotificationTask.tla` and `AtLeastOnce.tla`

| TLA+ | Code |
|---|---|
| `status`, `attempts` | columns of `task_queue`; `"none"` is a missing row |
| `broker` | copies of each message waiting in Redis, delayed ones included |
| `pc`, `held` | where each worker process is, and its unacknowledged message |
| `Check`, `InsertRow`, `UpdateRow`, `Execute`, `MarkSuccess`, `RecordError`, `Retry`, `MarkFailed` | the statements of `_send_notification_async`, one action per transaction, call or publication |
| `Receive`, `Ack`, `Crash`, `Redeliver` | late acknowledgement, rejection on worker loss, visibility timeout |
| `Abort`, `MarkSuccessFails`, `Landed` | a database or broker call raises, outside or inside the try block; its commit may have landed all the same |
| `raised`, `returned`, `unanswered`, `crashes`, `redeliveries`, `faults` | history, and counters of the environment's steps |

The check and the row update are separate steps although they share a
transaction: under READ COMMITTED the SELECT locks nothing, so a second worker
can commit between them. The countdown of a retry is abstracted to "any later
time"; what it protects against, `Redeliver` violates anyway. The broker itself
loses nothing here; Redis is configured with `allkeys-lru` eviction
(`docker-compose.yml`), which could, and that is outside the model.

`AtLeastOnce` is the queue as its users may think of it: a task is submitted,
carried out or failed, and settled as success (only if it was carried out) or as
failed (only if all attempts failed); a settled outcome is final until something
disturbs the queue, after which a task may be reopened. `NotificationTask`
instantiates it (`KeepsPromise`): rows that are not final map to open tasks,
`returned` to the tasks carried out, `raised` to the failures, and the first crash
or redelivery is the disturbance (`Disturbed`). So is a success whose commit lands
and whose answer is lost (line 103): the worker takes it for a failed attempt
(`Misjudge` in `AtLeastOnce`), and its error path writes pending over the success.

### `Delivery.tla` and `MCDelivery.tla`

One notification (client, appointment, type) and all executions of the service
for it: retries, redeliveries and the several tasks that overlapping polling
windows publish for one change. Each execution has its own transaction: `off`
and `results` are its uncommitted updates, `enabled` and `log` what is committed.

| TLA+ | Code |
|---|---|
| `CheckDedup`, `LoadChannels`, `VisitChannel`, `Commit` (with `LogRows`) | `send_appointment_notification`, and the caller's commit |
| `Filter`, `Conclude`, `EndDispatch` | `Dispatcher.dispatch`: filters of one channel, what an adapter's result does, the end of the loop |
| `Answer`, `Arrives`, `TelegramStatus`, `WhatsAppStatus`, `MaxStatus` | `send_notification` of the three adapters: the request reaches the messenger or not, and its reply becomes a result |
| `Busy`, `AnswerAgain` | Telegram's 429: the adapter sleeps and sends once more, inside an except clause |
| `Throw` | an adapter raises: Telegram's second attempt is not accepted (`telegram_adapter.py:153`), or the answer of WhatsApp or MAX is no JSON |
| `Abort` | the database raises or the worker dies; as after `Throw`, `RollBack`: whatever was sent stays sent |
| `DeliveryReport` | `update_delivery_status`, called from the WhatsApp webhook |
| `Expire`, `QuietHours` | time: the dedup window of an execution's rows ends; quiet hours begin and end |

Channels are visited in any order, as the query has no ORDER BY. The reply of a
messenger is one of `Replies`; the answer of an accepted message may be lost, and
the adapters then report a failure. The outcome `"blocked"` stands for a FAILED
result with one of the two errors that deactivate the channel; the log then holds
status failed in the code, and the model keeps the distinction only to state
properties. `"multiple"` is the end of an execution by `MultipleResultsFound`.

### `PlainTasks.tla` and `MCPlainTasks.tla`

The tasks without a retry protocol, and what publishes them.

| TLA+ | Code |
|---|---|
| `Accept`, `Record`, `SendTask`, `LoseEvent` | `yclients_webhook` and its background `_queue_yclients_event`: answer, commit of the row, publication, and the errors it swallows |
| `row`, `due`; `Insert`, `CommitRows`, `AbortRows` | `scheduled_reminders`; `schedule_appointment_reminders`: the clock and one INSERT, the commit of all, a rollback |
| `StartCheck`, `Select`, `Dispatch`, `CommitCheck`, `AbortCheck` | one run of `check_reminders`: the clock, the SELECT, one turn of the loop, the commit, a rollback |
| `Move` | the appointment moves in YClients (external) |
| `BeatBirthday`, `Greet`, `EndGreetings` | beat's daily message, published again if beat stops before it wrote down that it was; `send_birthday_greetings` and the service call for one client |
| `Receive`, `Execute`, `Ack`, `Crash`, `Requeue` | a worker runs `process_yclients_event_task` or `send_reminder_task`; late acknowledgement |
| `Redeliver` | the visibility timeout (an hour, as `celery_app.py` sets none): a message whose worker is alive and still at it is delivered again |
| `ended`, `greeted`, `published`, `checked`, `gap`, `overlapped`, `late` | history; `late` holds the reminders due before their row was committed |

A task of this kind that raises is not run again: its end counts as an end
whatever came of it. Nothing in the repository calls
`schedule_appointment_reminders`, although its comment says when it runs; the
model lets it run at any time, so the properties of reminders are about the code
as it would be used. A reminder row keeps its time when the appointment moves.
At most one run has rows inserted and not committed: a second run for the same rows
waits at its INSERT and then finds a conflict.

### `Polling.tla`

| TLA+ | Code |
|---|---|
| `Start` | a worker takes `poll_yclients`; `start_date` and `end_date` are fixed |
| `Fetch` with `Window`, `FirstPages` | `get_appointments`: the records of the window, the first page of 100 |
| `Process`, `Published` | one turn of the loop: `get_client`, and the publication of a `send_notification_task` |
| `Finish`, `Abort` | the end of the task; an exception or a lost worker leaves the rest undone |
| `Modify`, `Tick` | a record changes in YClients (external); time |
| `news`, `outdated`, `started`, `disturbed`, `overlapped` | history: what the tasks published tell of a record's present version, and how the polls went |

Time is relative: `age` is the time since a record changed, `elapsed` that since
the poll began, `started` that since the latest start of any poll; ages beyond
every window are one value, `Old`, so the model is finite without a bound on time.
Whether a record can be parsed is fixed per record (`Notified`): one that cannot is
skipped by every poll and never told. A request that `get_appointments` gives up on
returns an empty page there, and ends the poll as an `Abort` does here.
The overload guard compares at most a handful of reserved messages with 1000 and
always lets the poll pass; it is left out for that reason.

### `Registry.tla` and `MCRegistry.tla`

| TLA+ | Code |
|---|---|
| `StartPolling`, `Fetch`, `FetchFails`, `Wake`, `Advance`, `Crash` | the long-polling loop of `MaxAdapter`, its sleep after an error, `_polling_marker`, and restarts of the application |
| `From`, `acked`, `stream` | the MAX server (external): a request confirms what lies before its marker; without a marker it continues after what was confirmed |
| `LinkMax`, `LinkMisses`, `Candidate`, `EnsureSettings` | `handle_max_phone_link`, `link_max`, `_ensure_channel_settings`, `find_client_by_phone` |
| `HandleUnsubscribe`, `UnsubscribeAmbiguous` | `handle_unsubscribe` and `unsubscribe`; `scalar_one_or_none` raising for a user of two clients |
| `HandleOther`, `HandlerFails` | messages that change nothing; an exception, logged, after which the page goes on |
| `Deactivate` | `deactivate_client_channel` of the admin panel |
| `Move`, `Send` | a number changes hands in YClients; a user writes (external) |
| `word`, `erred`, `silenced`, `before` | history: the command of each user carried out last; users with a failed command; clients switched off; and the /unsubscribes a restart could still repeat when they were |

MAX is the only channel a user can bind: `link_telegram` and `link_whatsapp` have
no callers, so no client ever has a Telegram id, and `/unsubscribe` in Telegram
finds nobody. The phone hash is the number itself here; what matters is that it is
a function of the number.

### `Templates.tla` and `MCTemplates.tla`

| TLA+ | Code |
|---|---|
| `StartUp`, `LookUp`, `CommitSeed`, `SeedFails`, `Stop` | `seed_default_templates` in the application's start-up, one commit for all missing rows |
| `BeginUpdate`, `Valid`, `CommitUpdate`, `Written`, `UpdateFails` | `update_template`: read, `validate_template`, and an UPDATE of the changed columns |
| `BeginJob`, `TemplateBody`, `Render` | a new `TemplateEngine` per notification, `get_template_body` with the engine's cache, one channel after the other |
| `ShowsSyntax` | the two fallbacks of `render_body`: placeholders filled in after an `UndefinedError`, the raw text after any other exception |
| `made`, `current` | history: what was rendered, and what was active meanwhile |

A text is what the code can tell apart: its plain `{{name}}` placeholders, which
the validating pattern finds; whether it has other expressions or statements, which
the pattern does not look into; whether Jinja2 parses it; and how compiling and
rendering end, with a message, an `UndefinedError` or another exception (an unknown
filter, a wrong type, a division by zero). No caller passes a Redis client to the engine,
so its second cache does not exist and invalidation reaches only the administrator's
own, empty engine.

### `ClientActions.tla` and `MCClientActions.tla`

The buttons under a notification: one client, one appointment, and presses of any
buttons in any messenger. Each press is handled once, by its own coroutine.

| TLA+ | Code |
|---|---|
| `rows`, `expired` | rows of `action_dedup`, and those older than 30 seconds |
| `Check`, `Record` | `_is_duplicate_action`; `_record_action` and the commit |
| `Send`, `Return`, `TransportError` | `update_appointment_status`: the PUT (unless the circuit is open), its result, its exceptions |
| `Timeout` | `asyncio.wait_for` around the handler, 3 s in Telegram, 5 s in MAX, none in WhatsApp |
| `wire`, `reply`, `applied`, `writer`; `Apply`, `Refuse`, `Lose` | the request on its way, and YClients (external); an error answer comes after the update, instead of it, or before it is decided (`"undecided"`) |
| `Restart`, `Expire` | the application process restarts; 30 seconds pass |
| `earlier` | history: presses that had returned before this one began |

`result` is the kind of text the handler returns; Telegram shows it, MAX and
WhatsApp drop it. A PUT that met 429 and was repeated counts as one long request:
a 429 changes nothing at YClients. A handler with a timeout ends before its row
can be 30 seconds old, which is the guard of `Expire`.

### `CircuitBreaker.tla`

The calls of `YClientsClient._request` that share one client, as the webhook
handlers of the application process do (each process has its own client and its
own circuit). One action per kind of answer; between two requests of a call others
run.

| TLA+ | Code |
|---|---|
| `counter`, `pause` | `_consecutive_5xx`; what is left until `_circuit_open_until` |
| `Begin`, `Refused` | the check at the start, then the first request or `CircuitBreakerOpen` |
| `Answer429`, `SendAgain`, `GiveUp` | the loop of five attempts |
| `Answer5xx`, `Answer`, `Break` | 5xx; any other answer; `httpx.RequestError` or cancellation |
| `recent`, `caught`, `strays` | history: the latest answers; the calls in flight when a pause began; their requests since |

The counter is counted up to the threshold, beyond which the code compares it with
nothing. A restart of the process is a new behaviour of the module.

### `TokenBucket.tla`

One bucket and the coroutines that call `acquire`. Time is discrete, and tokens
are counted in units so that all numbers are whole: the refill of one tick is one
unit, a token is `Cost` units and the capacity is `Full`. `Full = Cost` is the
per-chat bucket (rate 1), `Full = 30 * Cost` the global one. A caller with a token
at hand takes it in one step (there is no await on that path); otherwise it sleeps
holding the lock (`FallAsleep`, `WakeUp`). A sleep may last longer than asked.

### Proof modules

`NotificationTaskProofs`, `DeliveryProofs`, `PollingProofs`, `PlainTasksProofs`,
`RegistryProofs`, `TemplatesProofs` and `ClientActionsProofs` extend the modules they
are about. `ThrottleProofs` extends two, `CircuitBreaker` and `TokenBucket`, both of
which hold back requests; the names of the bucket (`BucketSpec`, `BucketTypeOK`, ...)
differ from those of the circuit for that reason. See section 4.

### How the modules fit together

They are composed along the interfaces the code has, not into one specification:
each state lives in one module, and its neighbours see it as a choice. `Polling`
and `PlainTasks` end with published tasks, which `NotificationTask` and the workers
of `PlainTasks` run; their `Execute` is one execution of `Delivery`, which
returns or raises (`Execute` chooses); `Delivery` asks for active templates and
linked channels, which `Templates` and `Registry` maintain, and its requests wait
for `TokenBucket`. `ClientActions` and `Polling` go through `CircuitBreaker`, whose
refusals are among the failures they model. `AtLeastOnce` is refined by
`NotificationTask`.

## 3. What TLC checks

| Run | Instance | Shows |
|---|---|---|
| `task` | 1 task, 2 workers, 4 retries, 1 crash, 1 redelivery, 1 fault; about 769 000 states | all safety and liveness properties of the task, and the refinement of `AtLeastOnce` |
| `delivery` | 2 executions, Telegram and WhatsApp, every initial set of enabled channels, quiet hours on one; 2.17 million states up to symmetry | the log, isolation, blocked and dedup properties, with every answer of the adapters |
| `polling` | 3 records (1 without a client), 2 polls, interval, overlap and delay of 1 tick, pages of 2, for ever; about 839 000 states | what is told, in which order, and that the final version is told |
| `plain_tasks` | 2 events, 2 reminders, 2 overlapping checks, 2 greeted clients, 2 workers, 1 crash or rollback, 1 redelivery, 2 messages of the day, 4 ticks, 2 appointment times; about 2.47 million states up to symmetry | that published tasks are run, and how often and when reminders and greetings are published |
| `registry` | 2 clients, 2 numbers, 2 users, 3 updates, 1 restart, 1 error, 1 number that moves, 1 deactivation; about 1.52 million states | the consistency of the registry under repeated commands, and that all are handled |
| `templates` | 2 templates, 6 kinds of text, 2 starts, 2 editors with 3 updates, 1 worker with 2 notifications; about 4.11 million states | freshness, raw syntax, lost updates |
| `actions` | 3 presses, 3 buttons, 2 channels of which one has a timeout; at most 1 undecided error answer; about 4.47 million states up to symmetry | what the answers, the order and the dedup of presses guarantee |
| `circuit` | 3 callers, threshold 3, 5 attempts, a pause of 3 ticks, for ever; about 114 000 states | when the circuit opens, what passes it, that it closes |
| `token_bucket` | 3 callers, a per-chat bucket with 3 units per token, 14 ticks; about 132 000 states | the two bounds |

Why the bounds are enough.

- `task`: two tasks share nothing but workers, so one task with two workers shows
  every overlap of two copies; a crash and a redelivery together give three copies
  of one message and the retries they publish; five retry levels is the code's own
  number.
- `delivery`: two executions and two channels are the least that make the nested
  loops, the double log rows and the overlap of transactions happen; a third channel
  adds no new order between two. Telegram has the retry, WhatsApp the reports; MAX
  has neither. The constraint of `MCDelivery` keeps reports that changed a status to
  one row (`MaxReported`), messages without a result saying sent to one (`MaxLost`)
  and failed results to three (`MaxFailures`); a channel that fails, then is
  blocked, while another works, needs two.
- `polling`: a window of two ticks that starts one tick after the last is the
  smallest that overlaps and can leave a hole; three records overfill a page of two.
- `plain_tasks`: the three sources share only workers and queue, so `OneSource`
  explores them one at a time, with everything within each interleaved, except
  what `FewAtOnce` keeps apart: two workers at once only for greetings, where two runs
  of one message can overlap; a reminder's task while no check runs, since they meet
  only in the queue; redeliveries for events and greetings. The window
  of `Half = 1` tick before and after a reminder due at 1, 2, 3 or 4 lets checks
  come early, in time, late and never.
- `registry`: three updates are a link, another link and an unsubscription, or any
  of them repeated by the restart; two of each kind of person is what ambiguity and
  changed hands need.
- `templates`: the six texts are the classes that validation and rendering tell
  apart; three updates overlap with each other and with a second seeding.
- `actions`: three presses are two that overlap and one that meets their rows (or
  three in sequence), and a third channel would behave as one of the two. An
  undecided answer matters to the press that got it, so `FewUndecided` allows one.
- `circuit`: three callers make a full run of 5xx out of one answer each, with
  stragglers left over; nothing else there is bounded.
- `token_bucket`: fourteen ticks are more than four periods, so three callers meet a
  bucket that is full, empty, asleep and refilling.

Symmetry sets are used only in runs without liveness, over values no property
distinguishes (executions, presses, the two updating actions, events, checks, workers,
greeted clients).

The properties, and what could break them:

- `NoTaskVanishes`, `AttemptsBound`, `CompletedStays`, `KeepsPromise`, `Settles` -
  each needs a particular order of two workers, crashes and redeliveries to fail.
  `AttemptsBound` says that the copies multiply attempts by at most one full series
  per crash or redelivery. `CompletedStays` is the most the idempotency check can
  give: a duplicate that has passed the check before the success was recorded does
  execute again, and its premise leaves that case, and a crash before the success is
  recorded, to `KeepsPromise`. `KeepsPromise` includes that nothing is given up early
  (`NoEarlyGiveUp`) and that outcomes are final while every message is delivered
  once and no recorded success is taken for a failure (`TerminalFinal`); with
  duplicates they are not, since line 82 does not test the status again, and after a
  lost answer to line 103 they are not, since line 119 does not either.
- `AuditAgrees`, `FailureIsolated`, `BlockedOnce`, `CoveredStays` - each relates
  the log to the messages or to another execution's transaction. `AuditAgrees`
  speaks of executions that ended normally: a rollback loses the log of messages
  that went out, and an answer that is lost leaves a row that says failed.
  `FailureIsolated` speaks of every execution that has not raised, running or
  committed: each usable channel has a result or a turn to come for every template
  that is or was dispatched. Channels are not independent where an adapter raises:
  Telegram's second attempt after a 429, or an answer that is no JSON, ends the
  execution, and the channels behind it get no turn in it.
  `CoveredStays` allows for exactly the ways a dedup cover may end: the window
  expires, or the provider reports failure. Its premise excludes executions that
  overlap, which the dedup check cannot keep apart.
- `TimelyPollsMissNothing`, `InVersionOrder`, `FinallyTold` - without a watermark a
  change is told only because windows overlap; the properties say what "in time"
  must mean (starts at most an interval and the 30 seconds apart, no failure, no
  full page), and that this is also enough when polls overlap. Order is lost when
  they do. A poll that fails is made up for by nothing.
- `PublishedIsRun`, `RepeatsBounded`, `NoneMissed`, `GreetingsBounded` -
  publication and commit are two steps, in one order in the webhook and in the other
  in `check_reminders`. An event whose handler stopped between them is lost, a
  reminder whose check was rolled back is repeated, and these are the only ways.
  `NoneMissed`: as long as checks that succeed are at most half a window apart, no
  reminder whose row was committed before it fell due is still pending after a check
  that read the clock past its due time. A row that is inserted in time (line 225
  reads the clock) and committed only after its due time (line 240) may be missed: a
  check can select in between. The property is about the time in the row; a moved
  appointment does not change it. `GreetingsBounded`: nothing records a greeting, so
  each time the message of the day is put into the queue (by beat, for a lost worker,
  by the visibility timeout when a run lasts over an hour) may greet a client once
  more, and nothing else does.
- `OnePerPhone`, `BoundIffSetUp`, `LastWordHolds`, `DeactivationSticks`,
  `RepeatsConverge`, `EveryUpdateHandled` - a restart repeats a page of commands.
  `RepeatsConverge` says that the repetition leaves no trace, provided that no
  command failed and no number moved, in the first pass or in a later one. A command
  can fail because of the repetition: a user who linked one number, unsubscribed and
  linked another is bound to both clients while the page is repeated, and the repeated
  `/unsubscribe` raises (`scalar_one_or_none`, `services/action_handler.py:149`); the
  first binding then stays. A user bound to two clients can never unsubscribe, for the
  same reason; `LastWordHolds` is about commands that succeeded, and its "last" is
  the order in which they were carried out: after a restart an older number binds its
  user again, until the repeated /unsubscribe behind it is reached. `DeactivationSticks`:
  no number that is sent, again or by another user, before or after a restart, brings
  back a channel the administrator switched off. One thing does, besides a new
  /unsubscribe and link: a restart that repeats an /unsubscribe handled before the
  administrator's command and not yet confirmed to the server (`before`) removes the
  disabled row, and the number repeated after it sets the channel up, switched on.
- `NeverStale`, `RawOnlyFromExpressions`, `EditsKept` - the cache of an engine has no
  lifetime and nobody else can clear it, so freshness rests on one engine per
  notification. Validation finds plain placeholders and syntax errors. It does not
  look into other expressions: a misspelt variable in one, an unknown filter (`{{
  name|foo }}`), a wrong type or a division by zero passes it, raises at rendering,
  and reaches clients raw. `RawOnlyFromExpressions` says that only such texts do.
  `EditsKept` holds although `update_template` reads, changes and writes a row without
  a lock, because only changed columns are written.
- `DoneMeansApplied`, `NoLateOverwrite`, `RepeatsIgnored` - the press handlers. A
  handler that returned leaves nothing on its way, so only one that timed out,
  failed, was lost, or was answered with an error before its update was decided (as
  by a gateway) can overwrite a later press. `RepeatsIgnored` holds from the
  moment when a row exists and no press of the button is between check and record;
  presses that overlap are what `ProcessedOnce` is about.
- `OnlyStrays`, `OpensOnStreak`, `ClosesAgain` - the circuit. The loop on 429 does
  not look at the circuit again, so requests do leave during a pause, though
  requirements 1.7 says that attempts stop; `OnlyStrays` bounds them.
  `OpensOnStreak` compares the counter with the answers of all callers in the order
  they are processed. `ClosesAgain` says that late 5xx cannot renew a pause for ever.
- `TwiceTheRate`, `TwoPerPeriod` - the token bucket's real guarantees.

Three runs look for, and find, a violation of what a document or a comment of the
repository says:

| Run | The statement | What the code does |
|---|---|---|
| `delivery_one_per_channel` | no duplicates within ten minutes (requirements 6.9) | n templated channels receive n copies each |
| `delivery_quiet_deferred` | deferred until the quiet hours end (requirements 6.10) | skipped for good |
| `actions_processed_once` | a button pressed several times is not processed twice (`ActionDedup`) | two overlapping presses pass the check and both update YClients |

`delivery_quiet_deferred` is a liveness claim and is checked under fairness.

Four smaller disagreements were met and are only recorded here, as their
explanation needs no search: a task makes at most five attempts, the first and four
retries, where requirements 9.3 says four; a crash before the success update
repeats a delivery, where `TaskQueue` says a task id is never executed twice;
`_check_dedup` raises when two rows match instead of answering; and a per-chat
bucket can let two messages out in one second after a sleep, where
requirements 3.7 and the class comment say one.

### Fairness

- `NotificationTask`: a worker process that is free to run keeps running the task it
  started (Celery's pool and the operating system schedule it; every awaited call
  has a timeout and then returns or raises), and a waiting message is eventually
  taken by some worker (the countdown elapses, the pool fetches). Weak fairness is
  enough: no other process disables a worker's next step for good, except the crash,
  which is bounded. There is none on publishing, crashing, redelivering or failing.
- `Delivery`, for `QuietDeferred` only: a started execution goes on, and quiet hours
  end. Nothing starts a further execution of a task that returned, because
  nothing in the code does.
- `Polling`: beat goes on publishing polls and some worker takes one, a poll that
  started goes on, and time passes. No poll is forced to start in time, and no record
  to change.
- `Registry`: the application is started again after it stopped
  (`restart: unless-stopped` in `docker-compose.yml`), and the loop, a task of its
  own, takes its next step. Nothing is assumed of users or failures.
- `CircuitBreaker`: time passes, and a call in flight comes to its end (the HTTP
  timeout is 30 seconds, a sleep at most 60). Callers are not forced to call.
- `TokenBucket`, `ClientActions`, `PlainTasks` and `Templates` have no liveness
  property and assume none.

Deadlock checking is on for `circuit` and `polling`, which never stop, and off
elsewhere: tasks that were acknowledged, handlers that ended, a loop that waits for
updates, and clocks and environments at their bounds stop, as they should.

## 4. What is proved

TLAPS checks the following for every value of the constants that satisfies the
named assumptions of the modules: any number of tasks, workers, retries, crashes,
redeliveries, callers, presses, records, polls, clients, users, numbers, updates,
editors and engines, and any capacity, token cost, threshold, interval, window and
lead time. The assumptions (`BoundsAssumption`, `NoMsgAssumption`,
`BucketAssumption`, `ActionAssumption`, `CircuitAssumption`, `PollingAssumption`,
`TaskAssumption`, `OwnerAssumption`, `NoneAssumption`, `BodyAssumption`,
`DefaultAssumption`, `NothingAssumption`, `ChannelAssumption`, `PhoneAssumption`) say
that numbers are numbers, that the values for "nothing" are no others, that the default
template is valid, that there are finitely many records, that the channels are among
the three messengers, and that a command is no phone number; TLC evaluates them in the
runs.

**NotificationTask.**
- `TypeCorrect` (`[]TypeOK`), with the strengthening that a worker about to retry
  holds a message below the last level: without it `RetryOf` could leave `Message`.
- `GivesUpLate` (`[]NoEarlyGiveUp`). The inductive invariant `GiveUpInv` follows
  the evidence: a message of level r exists, waiting or held, only if the task
  raised at every level below r, and a worker that recorded an error raised at its
  own level too. Crashes and redeliveries only copy messages, so they copy the
  evidence.
- `NothingVanishes` (`[]NoTaskVanishes`). `VanishInv` says, for a published task
  and no faults so far, that some message waits, or the row is final, or some
  worker still carries the task, that is, holds its message and will leave the row
  final or publish a retry. Holding the message is not enough: a worker at `"ack"`,
  or one whose INSERT was beaten, does nothing more for the task, and the hard steps
  are those that bring a worker there.
- `SuccessStays` (`CompletedStays`), from type correctness: a step that would undo
  a settled success must come from a worker past its check, of which there is none.
- `OutcomeStays` (`TerminalFinal`). `SingleInv`: while nothing was crashed or
  redelivered, a task has at most one copy, waiting or being worked on, and none
  once its row is final; so nobody is left to overwrite it.
- `AttemptsBounded` (`[]AttemptsBound`). The bound alone is not inductive, since it
  says nothing of the messages still under way. `AttemptsInv` counts them in: each
  copy of a message of level r, waiting or held by a worker that has not begun its
  attempt, may still cost `MaxRetries + 1 - r` attempts, one at its level and one at
  each level above (`Left`, `Cost`), and what was made plus what may still be made is
  at most one full series for the first message, every crash and every redelivery. An
  attempt turns a possible one into one made; publishing the retry passes the rest on;
  only a crash or a redelivery adds a copy, and pays for it. The sum is the cardinality
  of two sets of pairs (`HeldAttempts`, `WaitingAttempts`), which the lemmas
  `OneCopyMore` and `OneWorkerMoves` follow through each step.
- `QueueKeepsPromise` (`KeepsPromise`): the refinement. Under these invariants every
  step of the protocol is a step of `AtLeastOnce` or leaves its variables alone.

**Delivery.**
- `DeliveryTypeCorrect` (`[]TypeOK`), with `Dispatching`: a template is under way
  exactly while an execution is inside `dispatch`.
- `AuditTruthful` (`[]AuditAgrees`). `AuditInv` carries the log's truth through the
  open transaction: what a running execution sent is accounted for by a result that
  says sent or failed, a result that says sent has arrived, and every row that a
  report can find, or that says sent or delivered, stands for a message that arrived.
  A rollback drops the results and with them the obligation, since only executions
  that ended normally are promised a log.
- `FailuresIsolated` (`[]FailureIsolated`). The property is inductive with the type
  invariant: for every template that has a result or is being dispatched, each channel
  usable in the execution's own transaction has a result, is still to be visited, or is
  waiting for its adapter (`Turns`). The turn of a channel ends in a result or in the
  channel becoming unusable, by `EndDispatch` nobody is left to visit, and `Commit`
  turns the results into rows (`Served`). `Throw` and `Abort` drop them.
- `BlockedTriedOnce` (`[]BlockedOnce`). `BlockedInv`: a channel found blocked is in
  `off`, and neither the channels to visit nor the one being sent to is.
- `CoverStays` (`CoveredStays`), from type correctness: while every execution is at
  its check or ended, and a recent row exists, the check lets nobody past.

**Polling.**
- `PollingTypeCorrect`; `NothingMissed` (`TimelyPollsMissNothing`). `NoHole`: while
  polls are undisturbed, a version nobody told is younger than the latest start, or
  some running poll will tell it: its window still reaches it (`WillTell`), or the
  page it holds has that version. The hard steps are `Start`, where a young version
  becomes one the new poll will tell, because the last start was no further back than
  the window reaches, and `Tick`, which must not age a version out of a window.
- `VersionsInOrder` (`InVersionOrder`). `OneAtATime`: without overlap one poll runs,
  and what it holds in an outdated version has not been told in its present one.

**PlainTasks.**
- `PlainTypeCorrect`; `NoneLost` (`PublishedIsRun`) from `TasksKept`, which adds that
  whatever is acknowledged has ended, and that a mark not yet committed stands for a
  message already published.
- `RepeatsAreBounded` (`RepeatsBounded`) from `CountedOnce`: without overlap a
  reminder neither sent nor marked was published once per crash at most.
- `NoReminderMissed` (`NoneMissed`) from `ClocksPast` and `WindowsCover`: a check that
  read the clock inside the window after a reminder fell due, and selected, has it
  while it is pending, provided its row was committed by then; and if successful checks
  are close enough, one of them read the clock there. The delicate step is
  `CommitRows`: a row that becomes pending may have been overlooked by any running
  check, which is harmless only if it is not due yet.
- `GreetingsAreBounded` (`GreetingsBounded`) from `GreetingsCounted`: a client's
  greetings, the messages of the day that wait and the runs that have the client still
  to come are together no more than the times the message was put into the queue. A
  run that is received takes the place of its message, a greeting that of its run.

**Registry.** `RegistryTypeCorrect`, `PhonesUnique` (`OnePerPhone`), `SetUpIffBound`
(`BoundIffSetUp`), `UnsubscribedStays` (`LastWordHolds`) and `SilencedStays`
(`DeactivationSticks`) from one invariant, `TypeOK` with the four properties: they
hold each other up, `DeactivationSticks` with its exception for repeated
/unsubscribes. That nobody is silenced without a disabled row needs that a row exists
exactly for a bound client, and that needs both the phone and the id to be written in
one transaction.

`RepeatsHarmless` (`RepeatsConverge`) needs to say where a pass of the loop stands in
its repetition. `ReplayInv`: the updates handled so far are the first n, and a marker is
behind all of them (`Passes`); and while nothing failed and no number moved, the rows
name the owners of the numbers, so a link reaches the same client however often it is
repeated, and every binding is `Right`. A binding is promised nothing while the last
update that links its client is still ahead in this pass, since earlier commands are
overwriting it; once the pass has gone by that update, its sender is bound or nobody is,
nobody if the sender unsubscribed in this pass, or before it and the link is not
repeated. At the end of a pass that is what the commands ask for (`RightIsWanted`). The
same invariant gives `ConfirmedHandled`, the safety part of `EveryUpdateHandled`:
an update confirmed to the server, which never returns it again, has reached its handler.

**Templates.** `TextsNeverStale` (`NeverStale`), `OnlyExpressionsShow`
(`RawOnlyFromExpressions`) and `EditsAreKept` (`EditsKept`) from `TypeOK`,
`RequestsSound` (an accepted request has its row, asks for a valid text, and never
meets the seeding), `TextsValid` (whatever is in the table, a cache or a message
passed the validation or is a default) and `CacheFresh` (a cached text was active
during the present execution). That a valid text with nothing but placeholders renders
is an assumption about Jinja2 (`BodyAssumption`), as is that no more is known of any
other.

**ClientActions.** `ActionTypeCorrect`, `ToldTruly` (`DoneMeansApplied`),
`NothingLate` (`NoLateOverwrite`), `RepeatsStopped` (`RepeatsIgnored`) from one
invariant. Its chain: a press before its PUT has left no trace, a PUT on its way is
not carried out and not answered for good, an answer ok means carried out, and a
handler that returned has no PUT on its way unless its answer was undecided. The last
part is why `earlier` presses cannot write late.

**CircuitBreaker.** `CircuitTypeCorrect`, `PauseSpares` (`OnlyStrays`),
`OpensOnStreakOnly` (`OpensOnStreak`). `StrayInv`: during a pause whoever is in flight
was caught by it, and its first request is not among its strays. `StreakInv`: the
counter is the length of the run of 5xx that ends the sequence of answers.

**TokenBucket.** `BucketTypeCorrect`, `OutputBounded` (`TwiceTheRate`),
`AtMostTwoPerPeriod` (`TwoPerPeriod`) from one inductive invariant of four parts.
`CreditInv` is the accounting: what was handed out and what the bucket holds was paid
by the initial content, by the refills (one unit per tick up to `last`) and by the
sleeps (which the lock keeps from overlapping, one unit per tick up to `now`).
`SleepInv` keeps that credit unspent while a caller sleeps. `SpacingInv` says that the
instant from which the present content was earned is never before the last token but
one.

`TypeOK` of `Registry` and `Templates` is not in their runs, as these proofs
contain it; nor are `NoEarlyGiveUp` and `TerminalFinal` in `task`, since
`KeepsPromise` implies them.

`[]TypeOK` of `NotificationTask`, `Delivery`, `Polling`, `PlainTasks`,
`ClientActions`, `CircuitBreaker` and `TokenBucket`, all their invariants and all their
action properties are thus theorems. Only model-checked is what the prover cannot
reach: liveness (`Settles`, `FinallyTold`, `EveryUpdateHandled`, `ClosesAgain`), which
needs fairness and ENABLED, and the three runs that end with a violation.

## 5. Plan

1. Done: the ten modules above, with the proofs of section 4.
2. The composition of `NotificationTask` with `Delivery`: which failures reach the
   retry machinery. Since adapters turn most failures into results, few do.
3. The pair of buckets of `TelegramRateLimiter`, taken one after the other.
4. Safety parts of the liveness properties as theorems, as `ConfirmedHandled` is for
   `EveryUpdateHandled`: no step leads away from settling.

## 6. Not modelled, and why

- **Cleanup tasks** delete rows by age; no modelled decision reads rows that old.
  `cleanup_expired_dedup` is not in beat's schedule.
- **Health and metrics** only read; **security and logging helpers** are pure functions
  with unit tests; **migrations** and **configuration** have no behaviour over time. The
  UNIQUE constraints appear in the actions that meet them.
- **Texts**: formatting, phone normalisation, masking and signatures are data
  processing. (The masked phone is what the WhatsApp adapter gets as its recipient;
  a delivery there can fail for that reason, and failing is among its answers.)
- **Code without callers**: `link_telegram`, `link_whatsapp`,
  `send_interactive_message`. The Redis level of the template cache has no client.
- **Rate limits across processes**: each worker has its own buckets, so the bounds of
  `TokenBucket` hold per process.
- **Abstractions** named above: floating-point rounding in the bucket, the retry
  delays, and the reuse of process-wide connection pools by a fresh event loop per
  task, represented only by its effect, database calls that raise (`Abort`).

## 7. Running

From this directory:

    tlc -config Task.cfg NotificationTask
    tlc -config Delivery.cfg MCDelivery
    tlc -config Polling.cfg Polling
    tlc -config PlainTasks.cfg MCPlainTasks
    tlc -config Registry.cfg MCRegistry
    tlc -config Templates.cfg MCTemplates
    tlc -config Actions.cfg MCClientActions
    tlc -config Circuit.cfg CircuitBreaker
    tlc -config TokenBucket.cfg TokenBucket
    tlc -config DeliveryOnePerChannel.cfg Delivery
    tlc -config DeliveryQuietDeferred.cfg Delivery
    tlc -config ActionsProcessedOnce.cfg ClientActions

    for m in NotificationTask Delivery Polling PlainTasks Registry Templates \
             ClientActions Throttle
    do tlapm ${m}Proofs.tla; done

The last three runs of TLC end with the violation they are about. The longest run
takes a few minutes with two workers. Runs, findings, hazards, theorems and the
lines each definition models are listed in `PROJECT.json`.
