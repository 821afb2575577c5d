# omaha-client in TLA+

A model of the omaha-client library (`src/omaha-client`), checked with TLC on
small instances. Its safety properties are also proved with TLAPS, for every
value of the constants; liveness is model-checked.

## 1. The system

The library is one state machine that keeps a device up to date. It is a single
future, turned into a stream of events by `async_generator`; whoever owns the
stream polls it, and everything the machine does happens inside those polls.
There are no threads. Concurrency comes from the `select!`s in which a running
operation competes with control requests and timers, from every `.await` at
which the owner's other code runs, and from the device that may lose power.

| component | state | operations | hard parts |
|---|---|---|---|
| control loop (`state_machine.rs`: `run`, `wait_for_reboot`) | where it is, the options of the check, the responder to answer | schedule, decide, check, wait for a reboot, reboot | requests at any moment; on-demand upgrades; three futures competing during the reboot wait |
| `ControlHandle` | a sender of a channel of capacity 0 | `start_update_check` | callers that give up; a machine that is gone |
| update check (`start_update_check`, `perform_update_check`, `do_omaha_request_and_update_context`, event reports, `ping_omaha`) | attempt, response, install results, the context | ask Omaha, retry, plan, install, report, save | partial failure; retries against a dictated interval; positional pairing of results |
| `Context` (`update_check.rs`) | dictated poll interval, failure count, last update time | `load`, `persist` | what is on disk when power is lost |
| update records (`record_update_first_seen_time` and the finish and target keys) | four keys in storage | record, report after the reboot, forget | wall clocks that are wrong, storage that fails, several boots |
| storage (`storage.rs`) | key/value cache and its committed state | `get`, `set`, `remove`, `commit` | failures of each; atomicity of `commit` |
| app set (`app_set.rs`, `common.rs`, `protocol.rs`) | per app: id, cohort, user counting | `update_from_omaha`, `load`, `persist`, `set_target_channel` | shared with the embedder, which may change it during a check |
| request builder (`request_builder.rs`, `protocol/request.rs`) | app entries, ids | `add_update_check`, `add_ping`, `add_event`, `build` | merging by app id, the cohort captured first |
| CUP (`cup_ecdsa.rs`) and the mock server (`mock-omaha-server`) | keys by id; the server's private keys and answers | decorate, sign, verify | answers that arrive late or for another attempt; key rotation |
| async generator (`async_generator.rs`) | task, channel of capacity 0, stored result | `yield_`, `poll_next` | lost wake-ups; the result overtaking an item |
| progress observer (`state_machine/observer.rs`, the join in `perform_update_check`) | a channel of capacity 0 between two futures of one task | `receive_progress` | each future waiting for the other; reports left over when the installer returns |
| schedule and time (`time.rs`, `time/*`, `update_next_update_time`, `report_check_interval`) | the next time on two clocks, the last check, the time in storage | compute, wait, store, report | a wall clock set during a wait; restarts; times before the epoch |
| `version.rs`, `http_uri_ext.rs`, `configuration.rs`, `http_request.rs` | none | parsing, plain data | |
| policy, installer, HTTP, metrics, timer | external (traits), with a stub each and those of the hello-world example | | they answer in any way the trait allows |

Interaction: the embedder calls `ControlHandle`s and polls the stream. The loop
asks the policy, starts the update check, and the update check talks to Omaha
through the request builder, CUP and HTTP, to the installer, and to the storage
through the context, the app set and the update records. Policy, installer,
HTTP and timers are traits whose implementations are not part of the library.

What makes each part correct: no request is lost or answered twice and the
observer's State is never out of date (control loop); Omaha is told what
happened and what must survive a crash is on disk (update check, context);
times reported belong to the update they are reported for (records); an answer
reaches the app it is for and a restart forgets nothing (app set); a request is
what was added (builder); only the server's response to this attempt is
accepted (CUP); every item arrives, then the result (generator); every report
of an installation is observed and the installation ends (progress); checks keep
their distance and no setting of the clock stops them (schedule).

## 2. Modules

| module | models | state | actions |
|---|---|---|---|
| `ObservedStates` | the promise about the `State`s an observer sees, abstract | `observed`, `check` (is one running), `reboot` (is one due) | `Begin`, `Announce`, `Finish`, `AwaitReboot`, `Rest`, `End`, `Boot` |
| `ControlLoop` | `run`, `wait_for_reboot`, `ControlHandle` | `pc`, `source` (`options.source`), `responder`, the channel (`queue`), the callers; `urged` and `asked` are histories | one per `select!` branch, early return and timer; `Call`, `Abandon` of a handle |
| `ControlLoopProofs` | theorems about `ControlLoop` | | |
| `UpdateCheck` | `start_update_check`, `perform_update_check`, `do_omaha_request_and_update_context`, event reports, `ping_omaha`, `Context` | `pc`, request and answer, the check's local variables, `ctx`, `store` (storage with what is not committed), `disk`; `faulty` (which operations of storage failed when last tried) and `dictated` (the header of Omaha's last answer) are histories | one per `.await` segment: `Exchange`, `SavePoll`, `Retry`, `GiveUp`, `StartInstall`, `Install`, ..., `Crash`, `Boot` |
| `UpdateCheckProofs` | theorems about `UpdateCheck` | | |
| `UpdateRecord` | first-seen, finish and target keys and the report after a reboot | the four keys in `store` and `disk`, the clocks | `RecordFirstSeen`, `InstallEnds`, `Report`, `Restart`, `SetClock`, ... |
| `UpdateRecordProofs` | theorems about `UpdateRecord` | | |
| `AppSet` | `App`, `Cohort`, `AppSetExt`, `VecAppSet` and the steps of a check that use them | `apps`, the copy a check works on (`request`), `store`, `disk` | `Send`, `Answer`, `Installed`, `Apply`, `Persist`, `SetTargetChannel` (the embedder), `Crash`, `Boot` |
| `AppSetProofs` | theorems about `AppSet` | | |
| `RequestBuilder` | `RequestBuilder`, the request it builds, events and versions | `entries`, the parameters, the request and its ids | `Add` (the `add_*` functions), `Build` |
| `MockServer` | an exchange with `mock-omaha-server`: the body on the wire, the server's assertions and answers, what the client parses | the builder's, the server's `responses`, the copy a handler works with, the answer | `Send`, `Take`, `Respond`, `Receive`, `Fail`, `SetResponses`, `SetAllUpdateCheckAssertions`, `SetAllCohortAssertions`, `NewRequest` |
| `MockServerProofs` | theorems about `RequestBuilder` and `MockServer` | | |
| `CupExchange` | `StandardCupv2Handler` and the mock server | keys on both sides, the request waited for, messages on their way, what was accepted | `Decorate`, `Take`, `Respond`, `Deliver`, rotations of keys |
| `CupExchangeProofs` | theorems about `CupExchange` | | |
| `AsyncGenerator` | `generate`, `Yield`, `Generator` | task, channel, stored result, who is woken | `PollNext`, `EventHappens`, `PolledAnyway` |
| `InstallProgress` | `StateMachineProgressObserver` and the join of installer and progress loop, in the generator's task | the generator's, the phase, the installer, the channel of reports | `PollInstall`, `PollOther`, `InstallerEvent`, `OtherEvent` |
| `InstallProgressProofs` | theorems about `AsyncGenerator` and `InstallProgress` | | |
| `ComplexTime` | `ComplexTime`, `PartialComplexTime` and the conversions to storage, as operators | | |
| `Schedule` | the timers of `run` and `wait_for_reboot`, `last_update_time`, `report_check_interval`, with the stub's, the mock's and the example's policy, timer and storage | the clocks, the timing waited for and its timers, what the context and the storage (cached and committed) know, what was reported | `ComputeTiming`, `MakeWait`, `TimerFires`, `CheckBegins`, `SavePoll`, `CheckEnds`, `AskReboot`, `AskAgain`, `PingBegins`, `PingEnds`, ..., `Tick`, `SetClock`, `Stop`, `Boot` |
| `ScheduleProofs` | theorems about `Schedule` | | |

How they compose: `ObservedStates` is the seam. `ControlLoop` instantiates it
with the same variables and takes the update check's steps from it, so that the
loop is checked against every check the promise allows; `UpdateCheck` maps its
own `observed`, `check` and `reboot` to it and is shown to implement it (the
property `Observed` of both runs). `UpdateCheck` leaves to `UpdateRecord` the
keys that `Context` does not own, and to `AppSet` the app set: they share no
state but the storage's `commit`, which either may do at any time. `Schedule`
is the same loop as `ControlLoop` with clocks instead of requests: where
`ControlLoop` lets an armed timer fire at any step, `Schedule` says when.

`InstallProgress` extends `AsyncGenerator` by what one task does with a channel
of its own, and is shown to be a behaviour of `AsyncGenerator`, whose task is any
task (`IsGeneratorTask`). `MockServer` extends `RequestBuilder`, and follows what
was added through the body, the server and the parser back to the client.

Each `MC*` module gives its component's constants values; each `.cfg` is a run.
Mutants, the definitions commented as such, are variants of the definition that
follows them with a plausible bug; each property of a passing run is violated
under one of them, as listed in `PROJECT.json`.

## 3. Runs

| run | question | bounds, and why they are enough |
|---|---|---|
| `control_loop` | requests, on-demand upgrades, reboot refusals, States | three handles: one being answered, one parked in the channel, one that gave up. The theorems cover any number |
| `update_check` | events, persistence, retries, install outcomes, States | two apps of ours and one unknown to us, so that positions among the offered and among all apps differ; responses that offer none, one or both, in either order; headers absent and above a day, which is capped; failure counts to 2; results for every app or for the first one only; in every save any one operation may fail, and again in the next. The theorems have no bounds on these |
| `update_record_safety` | first-seen time, wait for the reboot | a system update, one without a version and one of another app; clocks off by little, three ticks, one failing storage operation |
| `app_set_safety` | answers, cohorts and restarts | two apps with two ids each to switch between, answers about either id of an app and about an app that the client does not have, one switch at any point, any subset of failing sets, any number of crashes |
| `mock_server` | entries against a definition over the calls; the answer against the configuration | two ids with two versions of their data, three calls, a rebuild for a retry, one reconfiguration at any moment, every kind of response and both assertions |
| `schedule` | distance of checks, the reboot question, the interval reported, waits that end | five builds (those of the tests, the example and an embedder with an interval), with a storage that always fails, never does, or does now and then; steps of half a microsecond around the epoch, so that truncation, both signs, overflow of the stored value and the clock set across a timer all happen; five steps, enough for a check, a wait and a restart |
| `cup_exchange` | acceptance and stored signatures | two attempts (a late answer needs one earlier), two generations of keys, two bodies and responses. The theorems have no bounds |
| `install_progress` | order, termination, wake-ups, progress reports | ten items, up to seven reports and three in one poll; one to be received, one queued and one more are enough for every order |

Runs that refute what the repository's comments say (`findings` in
`PROJECT.json` quotes them):

| run | what it shows |
|---|---|
| `retry_after_erased` | the answer to an event report without `X-Retry-After` erases the interval that the update check was told |
| `report_of_other_update` | the finish time reported with a target version may be another update's |
| `system_update_missed` | a system app whose id is switched during the installation has its update taken for another app's |
| `check_time_not_stored` | a check that Omaha does not answer leaves no time in storage, although `report_check_interval`'s doc says that it persists the time of the check and `last_update_time`'s that it is the start of the last attempt; after a restart the interval reported is counted from an older check |

Met while modelling, and left without a run of their own:

* when policy defers or denies an install, `make_app_responses` gives that
  action to apps without an update too;
* an install that the installer deferred for every app is reported as
  `SuccessfulUpdateDuration`;
* `App::load` keeps a cohort field the embedder configured, although its doc
  says that stored data overwrites it (`AppSet`'s properties exempt configured
  fields);
* an installer that returns fewer results than apps have updates, as
  `StubInstaller` and the example's do, makes the check panic after Omaha was
  told of the installation (`UpdateCheck`'s `Panic`); the trait's doc does not
  say that there must be a result for every app;
* the doc of `AlreadyRunning` (`state_machine.rs`, line 217) says that such a
  request and its options were ignored. The code makes the running check an
  on-demand one, and the test at line 3346 shows that this is meant; it is what
  `OnDemandHonoured` states;
* `last_update_time` is documented as the start of the last attempt (`common.rs`,
  line 182). It is the moment at which the last check with an answer of a success
  status was settled: `OutcomeOnDisk` states only that such a check renews it,
  and `check_time_not_stored` shows what another check leaves;
* a wait for a reboot that is reported late removes the record of an update
  finished in the meantime (`state_machine.rs`, line 339);
* `truncate_submicrosecond_walltime`, which only tests use, takes a microsecond
  too many off a whole one before the epoch, unlike the conversion to storage;
* the docs of that conversion say it covers 30,000 years; it is some 292,000;
* `MinimalTimer` sleeps as long as its nearest bound was away when it was set,
  and so fires early or late if the wall clock is set meanwhile;
* the mock server asserts that an app without an update check has an event, and
  that `cup2key` is the first parameter of the query: it refuses pings, and a
  service URL with a query of its own.

### Fairness

* `ControlLoop`: weak fairness of `Progress` (code between `.await`s, and
  awaited operations, which the traits promise to end) and of `Timers`; strong
  fairness of `HandleRequest`, because `select!` polls its branches in a random
  order and so does not pass over a ready request for ever. Handles, policy
  answers and the reboot itself have none.
* `UpdateCheck`: weak fairness of `Step`, the steps of a check or ping under
  way. Nothing says that a check is started or that the device does not crash.
* `InstallProgress`: an awake consumer polls, and what the installer or another
  part of the task awaits happens. A consumer that is asleep is polled only if
  it was woken; this is what makes `EverythingArrives` and `InstallationEnds`
  statements about wakers.
* `Schedule`: weak fairness of `Progress`, the steps that nothing holds up, and
  of time. Nobody has to make a request, to set the clock or to start a device.

Deadlock is checked in every run but `mock_server`, where the calls and changes
end. (When `schedule`'s time has ended, the machine may still be stopped, be
started or have its clock set.)

## 4. Proofs

Every safety property that a passing run checks is also a theorem, for every
value of the constants. Each proof module follows the same argument: an
invariant that holds initially and is kept by every action, one step per
action, and that implies the property; where an action property is proved, the
invariant gives it for every step. The helpers (what taking the head of a
channel leaves, what `persist` and `load` do to a key, how times are truncated,
which position an element has) are lemmas, cited by name.

Assumptions are the `ASSUME`s of the modules, which TLC evaluates on the runs'
instances: bounds are naturals, the constant that stands for "none" is no
value, and what is named below.

**`ControlLoopProofs`**, for every set of handles (`NoHandleAssumption`).

* `TypeCorrect`: `TypeOK` is inductive.
* `Coherence`: `LoopCoherent`, which ties the loop's place to the State last
  observed, to the check's status and to the responder. It is inductive
  together with `TypeOK`, and the other results rest on it.
* `RequestsKept`: `NoRequestLost`. `LoopCoherent` is needed to know that no
  responder is held where a new one is taken.
* `OnDemandIsHonoured`, `RefusalStaysCurrent`: inductive with `TypeOK`.
* `ImplementsObservedStates`: every step of the loop is a step of
  `ObservedStates` or leaves its variables alone; `LoopCoherent` gives the
  guards of the abstract actions.

**`UpdateCheckProofs`**, for any apps and for responses of any length and order
in which no app occurs twice (`ResponsesAssumption`).

* `TypeCorrect`.
* `StorageCorrespondence`: `Saved`. At each of the three places that save, only
  the part of the context that has just changed, and the keys that the last save
  failed to keep, differ from what is committed; for any failing operations.
  `NothingIsUnsavedAtRest` follows from it; it is not inductive, since it speaks
  only of the machine at rest.
* `IntervalIsOnDisk` and `NoRetryWhenToldToWait`, from `Saved` and `Heard`: the
  interval in the context is the one Omaha's last answer dictated, whatever that
  answer was to and whatever its status; after a restart, the last answer whose
  interval was saved. This is what lets the code decide about a retry by the
  context alone.
* `Coherence`: `Coherent`, the State yielded last and what the check has come to
  at each point. With it, `ImplementsObservedStates`.
* `OutcomeIsOnDisk`, from `Outcome`: nothing of this check is in the context
  before it is settled, and then it tells how the check went.
* `InstallOutcomeIsCounted`, from `Counted`: the count of failed installs
  follows the installs, at whatever point between the change and its commit.
* `EventsMatchTheOutcome`, from `EventsTold`: which events have been sent for
  which app at each point. The code pairs install results with apps by their
  position among the apps *with* an update, and actions with apps by their
  position in the response; the lemmas about `Rank` say that the two pairings
  meet, for any response.

**`UpdateRecordProofs`**, for any plans, clock errors and number of faults.

* `TypeCorrect`, of a `TypeOK` that no run checks.
* `FirstSeenIsTheOwn`, from `Own`: after at most one fault, what `get` sees,
  what is committed and what the installation uses is a plan's own time or none.
* `FirstSeenTimeSurvives`, from `Recorded`: without a fault everything is
  committed, and is of the plan started last.
* `WaitReportedIsReal`, from `Chronicle`: no remembered time lies ahead.
* `WaitReportedOnce`, from `Forgotten`: one fault may leave a finish time that
  was reported in storage, but then without a target version, and it takes a
  second fault to report it again.

**`AppSetProofs`**, for any number of apps, channels and answers. An app has
app ids of its own (`AppsAssumption`): were one id handed from one app to
another while a check is under way, three changes of channel would be enough to
give an app the answer that was meant for another.

* `TypeCorrect`.
* `NothingIsForgotten`, from `Kept`: a restart at any point, also in the middle
  of a check, would find every app that counts as saved.
* `CohortIsSent`, from `Current`: an app in memory has the cohort Omaha returned
  for it, and storage too.
* `AnswerMeetsItsApp`, from `Asked`: the request is about ids of each app, and
  the answer about the request or about ids that no app has.

**`CupExchangeProofs`**, for any bodies, responses, keys and attempts.

* `TypeCorrect`.
* `Authentic`: `AcceptedIsAuthentic`. It is not inductive alone: the
  strengthening `SignedIsServed` says that what the signature of any reply on
  its way was made over has been served, so that a signature that verifies for
  the pending request is one the server made for it.
* `StoredVerifies`, from `StoredIsSigned`: what is stored was verified.
* `IntactResponseIsAccepted`, from `Traced`: nonces are unique, a request is
  handled once and as it was sent, and the key of the request in flight has not
  been dropped.

**`InstallProgressProofs`**, for any number of items and reports.

* `AnyTaskItemsThenComplete`: of any task, the stream returns the items in
  order, then the result. `Kept` says that nothing stays in the channel from one
  poll to the next and that a result is stored only by a task that is done;
  `Returned` which items and result the consumer has.
* `InstallIsGeneratorTask`: the join of installer and progress loop is, step by
  step, such a task; `StreamInOrder` follows. `Joined` says where the task may
  be while it installs and that there is room for what was reported.
* `ProgressIsComplete`, from `Counted`: the reports are first those yielded and
  then those in the channel, without a gap.

**`MockServerProofs`**, for any apps, calls, parameters and configurations.

* `EntriesAreAsked`, from `Built`: the entries are what the history of calls
  asks for. The reference definition takes the n-th first call, and the n-th
  event, by counting smaller positions; the lemmas say what one more call
  changes.
* `AnswerIsConfigured`, from `Exchanged`: the copy that a handler works with is
  of a configuration in force since the request was sent, and an answer, and
  what is read in it, is about that copy.

**`ScheduleProofs`**, for any build, intervals, clocks and settings of them. A
step of time divides `CHECK_REBOOT_ALLOWED_INTERVAL` (`StepAssumption`):
otherwise a `Tick` of the model would pass by the end of a wait, which real time
does not.

* `TypeCorrect`.
* `ChecksAreApart`, from `Armed`: timers that run were set after the last check
  or ping ended.
* `RebootIsAskedInTime`, from `Asking`: the wait counts from the timer's last
  question, and time comes to its end in whole steps.
* `ReportedIntervalIsReal`, from `Clocks`: readings lie in the past, what the
  context knows of a check of this boot is a reading of the monotonic clock, and
  what is loaded, cached or committed is the wall clock's reading at the answer
  it was first stored for, to the microsecond, whichever sets and commits failed
  and however often it was stored again. It rests on lemmas about
  `ComplexTime`'s conversions, on both sides of the epoch.

Only model-checked, because liveness under fairness is out of the prover's
reach: `EveryCallAnswered`, `KeepsServing`, `EveryWaitEnds`,
`EverythingArrives`, `InstallationEnds`, and the liveness half of `Observed`.
What the runs that expect a violation refute is, of course, not proved either.

## 5. Abstractions

* Time: in `ControlLoop` a timer may fire at any step after it is armed;
  `UpdateRecord` has clocks that count, and `Schedule` clocks that timers wait
  for, in nanoseconds of a small range. In `Schedule` time does not pass by a
  timer that has run out while the machine waits for it, and the steps between
  two `.await`s take none.
* Policy, installer, HTTP: any answer the trait allows, at any step.
* Storage: every `set`, `remove` and `commit` may fail, in `UpdateCheck` (any of
  one save together; in its run one per save), `UpdateRecord` (one failure
  altogether in its run), `AppSet` (any sets, and the commit) and `Schedule`
  (builds whose storage always fails, never does, or does now and then). A `get`
  that fails is a key that is not set; it does not fail where the key is set.
* An installer returns a result for every app with an update, or one
  as the stubs do.
* Hashes and signatures are records of what they were made from.
* JSON is the record that is written and read; URIs, headers other than
  `X-Retry-After` and `ETag`, and logging are left out.
* `mock-omaha-server`: in `CupExchange` a response is the setting it was made
  under, in `MockServer` it has no signature. A failed assertion ends the
  connection. `etag_override` is left out.

Not modelled: `configuration.rs` and `unless.rs`, which keep no state;
`http_uri_ext.rs` and the display of versions, which put strings together;
`MemStorage`, the mock HTTP and metrics reporters and the mock timers, which
tests look into (`MockTimeSource` is `Schedule`'s clock); `into_try_stream`,
which nothing uses; the sockets of `mock-omaha-server` and of the example, which
are hyper's.

## 6. Plan

Done: every component of the first plan, time and schedule, the progress
channel, the wire between request builder and mock server, installers that
return too little; a theorem for every safety property.

1. `Observed` of `ControlLoop` composed with `UpdateCheck` itself: the two
   refinements meet in `ObservedStates`, but no theorem states the composition.
2. Lemmas that `App::load` undoes `persist` and that a time in storage is read
   back, as results of their own.
3. The lock order of storage and app set, with an embedder that uses both.
4. The query of a service URL that has one of its own, in `CupExchange`.
