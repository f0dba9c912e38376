# t-display-gp: a TLA+ model of the firmware

t-display-gp is the firmware of a small desk display (an ESP32-S3 with a 1.9"
screen and two buttons) that shows A-share quotes and charts, the weather, 3D
printers reached over Bambu's cloud, and Home Assistant entities.  This directory holds TLA+
modules of the parts whose correctness depends on tasks, queues, locks, time, stored
configurations and the order of user actions, the TLC configurations that check them, and proofs for TLAPS.  Paths below are
relative to the repository (`src/` is the PlatformIO source directory of the
firmware, `lib/` its portable libraries).

To check: `tlc -workers 2 -config X.cfg M` for a run, `tlapm M.tla` for proofs.

## 1. The system

Four tasks share the device.

| Task | Code | What it does |
|---|---|---|
| Arduino loop | `src/main.cpp`, `DeviceLayer` | buttons, the application on screen, drawing, Wi-Fi provisioning, the configuration portal (an HTTP server) |
| `market-data` | `MarketDataWorker::run` | fetches quotes and charts |
| `appdata` | `AppDataWorker::run` | fetches weather and Home Assistant states |
| `bambu-mqtt` | `BambuMqttService::taskLoop` | one MQTT connection per printer |

They interact through FreeRTOS queues (requests and results of the two workers),
three mutexes (`MarketDataWorker::pendingMutex`, `BambuMqttService::mutex_`, and
`NetworkArbiter`, which lets one TLS session be set up at a time), and through the Bambu
configuration, which the loop writes and the MQTT task reads.

### Components, their state and what makes them correct

| Component | State | Operations | Correct when |
|---|---|---|---|
| `MarketDataWorker`, `PendingMarketWork`, `MarketRequestPolicy` | up to N quotes and probes, one intraday slot, cancelled ids, result queue, the running request | `enqueue`, `setPaused`, `tryReceive` (loop); `popNextReady`, `execute`, `sendSynthetic`, deferred retries (task) | each accepted request is answered exactly once; urgent work first; retries stay in their budget |
| `StockController` | page, round robin, `outstanding_`, caches, trading-day inference, failover | `tick`, page changes, Wi-Fi changes, `consumeMarketResults` | the bookkeeping mirrors the worker; data stays with its stock; every stock is refreshed |
| `ProviderFailover` | active provider, two counters, two timestamps | `recordSuccess`, `recordFailure`, `shouldProbePrimary` | no change of provider without the evidence the policy asks for; the primary comes back |
| `MarketClock` | none | `status`, intervals | phases of the trading day |
| `BambuMqttService` | configuration and its revision, `states_`, `conns_` | `replaceConfig`, `cycleActivePrinter` (loop); `process`, `connectSlot`, `handleMessage` (task) | connections follow the configuration; refused tokens are not presented again; retries keep their distance; no printer starves; no data under the wrong name |
| `BambuConfig`, `BambuPortalModel`, `BambuConfigStore` | stored configuration and revision | validate, merge portal input, save | only valid configurations are stored and used |
| `BambuCloudClient`, `BambuCloudProtocol` | none | login, printer list, parsing | requests and outcomes are mapped correctly |
| `BambuState`, `BambuSessionModel` | the state of one printer | merge of partial reports | a partial report changes only what it names |
| `AppDataWorker` | request queue, two result queues | `enqueue`, `tryReceive`, task loop | each accepted request is answered |
| `WeatherController`, `HomeAssistantController` | one outstanding id, refresh cycle, view | `activate`, `tick`, `consume` | an answer is matched with its request and its cycle |
| `NetworkArbiter`, `HttpTransport`, `SecureHomeAssistantTransport` | a mutex | acquire, release | sessions never overlap, nobody waits for ever |
| `AppShell`, `AppManager` and the applications | current application and page | `onInput`, `navigate`, `activate`, `suspend` | exactly one application is active; every page can be reached |
| `ButtonInput`, `ButtonDebouncer` | levels and timestamps per button | `update` | one gesture per press |
| `ProvisioningService`, `ProvisioningFlow` | phase, deadline, credentials | `begin`, `process`, form handlers | the device ends up connected or in the portal |
| `IntegrationConfigPortal` | HTTP server, pending cloud login | request handlers | an accepted save reaches the service |
| `ConfigStore`, `AppConfig`, `HomeAssistantConfig` | flash | load, save, validate | a stored configuration is valid |
| Providers and parsers | none | fetch, parse | text formats |
| Screens, formatting | none of the program's | drawing | layout |
| `BadApplePlayback` | frame clock, stream position | `start`, `advance` | frames follow the clock |
| `DeviceLayer`, `main.cpp` | drivers | `setup`, `loop` | each pass serves every part |

### What is hard here

* **Interleaving.** The loop enqueues, pauses and pages between any two steps of
  a worker, and replaces the Bambu configuration while the MQTT task dials.
* **Late and lost answers.** Answers arrive after the page, the provider or the
  day they were asked for is gone; results are allocated with `new (std::nothrow)`,
  and one that cannot be allocated is never sent.
* **Locks that are waited for only so long.** The MQTT task gives an update of the
  screen up when the loop holds `mutex_` for more than 100 ms.
* **Time.** TTLs, retry windows, retry intervals, probe intervals; `millis()` wraps
  after 49.7 days; a clock value is read before a mutex is waited for.
* **Scheduling by hand.** One intraday slot, urgencies, a round robin and one dial
  per pass stand where a general queue would be; each could starve somebody.

`PROJECT.json` lists the hazards with their lines and the properties that would
catch them.

## 2. The modules

```
MarketRequestBroker <---- refined by ---- MarketDataWorker ---- MarketDataWorkerProofs
      ^                                          ^
      | EXTENDS                                  | EXTENDS
FailoverPolicy <-- StockController        MCMarketDataWorker
      ^               ^--- StockControllerProofs
      +---------- ProviderFailover <---- ProviderFailoverProofs

BambuMqttService <---- BambuMqttServiceProofs
      ^--------------- MCBambuMqttService

AppDataWorker <-- AppDataControllers <-- AppDataControllersProofs
                       ^---------------- MCAppDataControllers

ButtonInput, AppShell, Screens <-- DeviceLoop <-- DeviceLoopProofs
                ^--- AppShellProofs <-----------------'

AppConfigForm, BambuPortal, HomeAssistantSettings <-- DeviceLifecycle <-- DeviceLifecycleProofs
                                                            ^------------ MCDeviceLifecycle
```

**MarketRequestBroker** is what the worker promises: an accepted request is
pending until one answer for it enters a bounded queue, or until its answer is lost because
it could not be allocated.  It knows nothing of slots, retries and time.
`StockController` is written over it, and `MarketDataWorker` is shown to
implement it, so that the two can be checked apart.

**MarketDataWorker** has one action per critical section of the task (`pc` is the place in
`run()`): `ReadClock` (`millis()`, before the mutex), `TakeWork`
(`collectExpired`, `takeCancelled`, `popNextReady` under the mutex),
`PostNotice`/`LoseNotice` (`sendSynthetic`), `BeginFetch`/`EndFetch` (`execute`),
`DeferRetry`, `DeferFallback` (`installDeferredIntraday`), `KeepResult`, `Deliver`
(which blocks while the result queue is full).  The loop's `Enqueue`, `SetPaused`
and `TryReceive` interleave with them.  A fetch is its outcome.  Timestamps are
kept as ages; `createdMs` is taken as zero at `enqueue()`, although the controller takes it a
few instructions earlier.  `lag` is how far the clock value of the pass is behind.

**StockController** is one action per call of the loop: `Tick` (with the trading cycle and
the probe it may ask for), `ConsumeResult` (one turn of
`consumeMarketResults`), `Select`, `SetWifiOnline`, and what its worker does.
Whether an interval has elapsed, and whether a call is refused (paused, mutex held, queue
full), is chosen.  What one tick enqueues is accepted together.  Ids are reused
once free, which a 32-bit counter does only after its wrap.

**FailoverPolicy** is the three counters of `ProviderFailover` without time, for the
controller; **ProviderFailover** adds the two timestamps, their wrap and the answers that
are still under way.  A timestamp that a wrap has put into the future (`ahead`) stays there until it is overwritten: that the
clock catches up with it, so that after a whole turn, 49.7 days without an answer of Tencent's, it seems fresh again, is
left out.

**BambuMqttService** splits `process()` where it takes and releases `mutex_` or blocks
on the network: `StartPass` (`configCopy` and the comparison of revisions),
`ResetRuntime`, `Disabled`/`Offline`/`Online`, one step per slot for `loop()`
(`LoopLost`, `LoopQuiet`, and `RouteReport` followed by `ApplyReport`, because
`handleMessage` takes the mutex twice), `PublishPushall`, `ChooseSlot`,
and `connectSlot()` as `SlotGone` or `BeginDial` and one action per way an attempt can end.
`ReplaceConfig` and `SelectPrinter` are the loop's.  Of a configuration, region,
token and user id are one `account`, since they are compared together; of
reports only the printers they came from are kept.  `states_[].connected` is written
together with `mqttConnected` and not kept apart.  Waiting for
`NetworkArbiter` is part of the time a dial takes.  `Show` loses any of a step's
timed updates, up to `MaxLost` in all.  `loop()` and `publish()` take time, up to `MaxLag` in a pass; `lag` is
how far the clock value the pass began with is behind.  It matters to what computes with that value, `nowMs`: whether an
attempt or a pushall is due, and the stamp of a failed `loop()` (`AttemptedAtStart`).  An attempt itself is stamped
when it returns (`Attempted`).  `rest` and `late` are histories for `RetryAfterInterval`: the time since an attempt of
the slot returned or a `loop()` of it failed, and how long the pass had run when it failed.

**AppDataWorker** is the second worker: one queue for the requests of both pages, a result
queue for each, and a task that takes a request (`TakeRequest`, or `TakeWithoutMemory` when its
result cannot be allocated) and publishes its result (`PublishResult`).  Unlike in
`MarketDataWorker` nothing waits for room: what does not fit is refused or deleted.
`memory` is the environment's: allocations succeed while it holds.

**AppDataControllers** puts `WeatherController` and `HomeAssistantController` on top.  A `tick()` is
several steps, since the worker may act in between: `ConsumeResult` until the queue is empty, then one of
`AskWeather`, `StartCycle`, `ContinueCycle` (with `enqueueEntity()`) and
`NothingToAsk`; `ticking` keeps `ShowPage` from happening inside a tick.  Only the page on screen is ticked.
Both pages are configured.  Ids are reused in turn; in the code they are 32 bits
wide, and the one id in 2^32 that is 0, the mark for "none", is left out.

**DeviceLoop** is a pass of the Arduino loop on a device that is set up: perhaps a save in the
portal (`SaveBambu`), then `Input` (`pollButtons()` and `AppManager::onInput()`), then
`TickAndRender` (`AppManager::tick()` and `render()`).  **ButtonInput** is one button with its
two thresholds; ages stand for timestamps.  **AppShell** is where a press leads: `navigate()`, the
page counts and selections of the applications.  Of the configured stocks and printers the first `StockPages`
(four) and `NavigationPages` (two) have a page; buttons are the only way to choose a stock, so one without
a page is never on screen, while the portal may make any printer active.  **Screens** says which fields each draw function
reads and which changes call it.  The picture on the panel is kept as what is wrong with it: `changed` are
the fields that differ from the last render's, `behind` the pairs of a region and a field it was
last drawn with another value of.  Reports and answers are the sets of fields that change
together.  The video is its frame numbers: the one asked for, the one decoding stands at, the
one shown.

**DeviceLifecycle** runs from power-on to the restart.  `Boot` loads the flash, `PortalReturns` is a
round of `ensureConnected()`, `FinishProvisioning` takes the forced mark back, `SetUp` is the
rest of `setup()`, with each way it can end early.  On the running device the two portals act:
`SaveSettings`, `Reconfigure`, `SaveHa`, `Discover`, `SaveBambu`, `LogoutBambu`, and `Restart` once one is due.
`Discover` and `SaveBambu` may block the loop in a Bambu call (`TakeArbiter`,
`RequestEnds`, `Replace`); meanwhile the tasks contend for the arbiter and for `mutex_`
(`WorkerSteps`, `WorkerReleases`, `MqttSteps`, `MqttReleases`).  `PowerLoss` comes at any moment.
**AppConfigForm**, **BambuPortal** and **HomeAssistantSettings** hold the pure parts: parsing and
validating a form, merging it with what is stored, and the codecs with their two schemas.
What the environment is taken to do:

* A write to the flash may fail and leaves the old value; a read succeeds.  (Were the read of the mark
  to fail, `writeForcePortal(false)` would erase a request nobody has seen.)
* WiFiManager returns "connected" from a portal that was forced only after a save, and reports
  parameters only with a save (`PortalOutcome`).  Without the first part, a first boot whose configuration
  could not be written might go on with none.
* The loop handles one request at a time, so the tasks are followed only while it is blocked,
  from any state they may be in (`Busy`) until it returns.
* A released FreeRTOS mutex is not handed over: whoever comes first takes it.

Each module of a component ends with its properties.  Definitions in the sections "Fault
variants" are forms of the mapped definitions with a plausible bug; no specification
uses them, the mutants of `PROJECT.json` do.

## 3. The runs

| Run | Instance | Shows |
|---|---|---|
| `worker` | two ids, two stocks, five kinds, two places for quotes, result queue of one, TTLs of 1 and 2 ticks, three attempts, failing allocations | `HeldOnce`: a request is in exactly one place; `OneWaitingPerKey`; `FetchBudget`; `OnlyNewWorkDisplaces`; `UrgentFirst`; `ImplementsBroker`; `EveryRequestAnswered`, or its result could not be allocated, once the stock application stays on screen |
| `controller` | two stocks, both looked at, two ids, lost answers | `OutstandingMirrorsWorker`, `OneRequestPerUrgency`, `NoForeignData` |
| `trading_day` | one stock, five phases of the day, three dates of quotes, failing answers | `ConfirmedByLatestQuote` |
| `controller_live` | three stocks, four ids | `EveryStockRefreshed`: the round robin starves nobody |
| `lost_answer` (violation) | one stock | a result that cannot be allocated blocks its kind of request for good |
| `failover` | windows of 2 and 3 ticks, two quotes and two probes under way, the clock wraps | `SwitchOnlyAfterThreeFailures`, `ReturnOnlyAfterTwoSuccesses`, `PrimaryReturns` |
| `bambu` | two slots; two printers, or one of them moved to the other slot; three retry intervals; `loop()` and `publish()` take a tick in a pass | `ConnectionsFollowConfig`, `RefusedTokenLatched`, `PushallOnce`, `RetryAfterInterval` |
| `bambu_live` | two printers, logged out and in, one update lost | `EveryPrinterTried`, `OnlineIsEarned` |
| `app_data` | both pages, three entities, two ids, failing fetches and allocations, Wi-Fi loss, page changes | `OneOnItsWay`, `NothingDropped`, `CycleCoversEntities`; `PageRefreshed`: the page on screen asks for each entity again and again |
| `device_ui` | three stocks of which two have a page, no or three printers of which two have a page, a debounce of 1 and a long press of 2 ticks, passes of 1 or 2 ticks, three video frames | `WorkerFollowsPage`, `OneGesturePerPress`, `OtherButtonLeadsBack`, `EveryPageInReach`, `PanelShowsPage`, `VideoFollowsClock`, `ShowsTheSelectedPrinter` |
| `lifecycle` | nine forms over three codes, three stored applications, four Home Assistant and four Bambu inputs, texts of both schemas, a worker with two requests, three changes or power losses | `RunsWhatIsStored`, `StoredConfigStarts`, `CredentialsBelongTogether`, `ReconfigureHonoured`, `HaSecretsKept`; `Answered`, `SavedTakesEffect` |
| `foreign_report` (violation) | one slot whose printer is exchanged | a report of the old printer is merged under the new one |

Type invariants that TLAPS proves (section 5) are not repeated in the runs, but for the one of `lifecycle`,
which also says that the arbiter has one holder at the most.

**Why the bounds are enough.**  In `worker` the five kinds hold a promotable quote, a second key that
fills the two places, and two charts that compete for the slot.  Two ids at a time are enough for one
request that runs and one that waits, is promoted or displaced; that more of them change nothing in the safety
properties is proved.  A queue of one makes the task block in nearly every behaviour.  A tick of about 5 s orders all
the TTLs of `MarketRequestPolicy`.  In `controller` a page change needs two stocks; two
ids are enough to have a request under way for the page left and one for the new.
`controller_live` needs three stocks for the round robin to skip the one on
screen and still have a choice; its answers are all EXPIRED, so no cache ever fills and
every tick is due, which makes the round robin as busy as it gets.  In `bambu` a configuration
that keeps a printer but moves it to another slot tells apart slots,
printers and connections; its three intervals take one, two and three ticks, and ages beyond the longest of them and
the tick a pass may take make no difference.  `shown` is written and never read, and no property of this run is about it: the
run leaves it out of the states it tells apart (`Unshown`).
`bambu_live` takes two ticks for the retry interval: with one tick a pass would be as
long as the interval, which on the device is shorter by a factor of 60.  For the same reason no time passes in
`loop()` and `publish()` there (`MaxLag` is 0); `bambu` has it pass for the safety properties.

In `app_data` the request queue has two places and each result
queue one, where the code has six and four: that nothing is refused or dropped even so shows that the
one outstanding request per page, and not the size of a queue, is what keeps results from being deleted.
Three entities give a cycle a first, a middle and a last one; two ids tell a late answer from the one waited for.

In `device_ui` there are a stock and a printer more than there are pages for, and saves that make any printer active, which put the
selection where the buttons do not lead; a pass of two ticks polls a button later than
either threshold, and three frames let the video skip one and go round.  In `lifecycle` the forms are
one of each way to be refused, a name too long for the access point's form but not for the portal,
coordinates at the limit and beyond it by one unit of rounding, and a symbol whose code belongs to two
exchanges; three changes are a save, a second one before its restart, and a power loss.  That more of
them, and other forms and printers, change nothing in the safety properties of `device_ui` and `lifecycle` is proved.

**Fairness.**  Weak fairness of the tasks: FreeRTOS runs them, and each blocking call
in them has a timeout or a consumer.  `TryReceive`, `Tick` and `ConsumeResult`
(and `TickPage` in `AppDataControllers`)
are calls of the loop, which runs for ever; `EveryRequestAnswered` asks for the
stock application to stay on screen, since `tryReceive` is called only then.  In `BambuMqttService`
time passes only while the task sleeps, while it dials and, where `MaxLag` allows it, in `loop()` and `publish()`, so `Tick` is enabled again and again but not
continuously, hence strong fairness.  No fairness is assumed of the user, the
network or Wi-Fi: `PrimaryReturns`, `EveryPrinterTried`, `EveryStockRefreshed` and `PageRefreshed` state in
their premise what they need of them.  In `DeviceLifecycle` fairness is assumed of the firmware's own
steps only (`Boot`, `FinishProvisioning`, `SetUp`, `Restart`, the steps of a call, and the tasks' releases), not of
users or Wi-Fi.  `Answered` needs two facts besides: the work a worker has left when the loop blocks
is finite, since the loop is what enqueues it, and the MQTT task sleeps between its passes, so that a task
that waits for what it has released runs first (`Wakes`).  Without the second, `Answered` fails, which its
mutant shows.  Repeated saves put a restart off; `Requests` bounds them.

Deadlock is checked in every run but `lifecycle`, where the portal may wait for a user for ever.  Time
can always pass in most of the models, so the absence of deadlock says little; the liveness properties are what shows that work gets done.

## 4. What the violation runs show

* **A lost answer wedges the controller** (`MarketDataWorker.cpp:95`): `sendSynthetic()`
  returns when it cannot allocate, nobody tells the controller, and `outstanding_`
  refuses this kind of request until the device restarts.  The stability design rules
  this out.
* **A report under another printer's name** (`BambuMqttService.cpp:301`): the slot found for
  a topic is used after the mutex was released and taken again; a configuration
  saved in between has put another printer there, and nothing clears
  what is written.

Differences from the documents, and oddities, that are harmless or belong to nobody's promise and are
not runs of their own: `run()` reads `millis()` before it waits for `pendingMutex`, so a request enqueued
meanwhile has an unsigned age of about 2^32 and is reported EXPIRED at once (`MarketDataWorker.cpp:182`; the
model has it, as `lag`); the failure window of `ProviderFailover` is a tumbling one (a burst of failures that
straddles its end is counted from one again); answers to quotes asked before a switch count for
the recovery; after a wrap of `millis()` probes stop until the clock has caught up;
the retry window of a chart starts when it is asked for, not when it is first attempted.
The hardware acceptance (`docs/hardware-acceptance.md:99`) wants the retry backoff anchored after the failure
has returned.  `connectSlot()` does that (`markAttemptComplete()`), but `process()` stamps a failed `loop()` with `nowMs`
(`BambuMqttService.cpp:154`), the clock value the pass began with, before the `loop()` of this slot and of the
ones before it blocked for perhaps seconds, so that the next attempt may follow that much earlier.
`RetryAfterInterval` says what does hold: the full interval lies between the attempt and the return of the last
one, or the start of the pass in which the connection was found lost (`late`).
A weather or Home Assistant page whose result cannot be allocated (`AppDataWorker.cpp:101`) waits for
it for ever, as the stock controller does; `OneOnItsWay` and `PageRefreshed` exclude exactly these pages (`lost`).

On the panel: the footer of the stock screen draws the marker of a chart, but the condition it is redrawn under leaves
it out (`StockScreen.cpp:239`); corrected points in the middle of a chart do not redraw it; a switch of
the provider caused by another stock's answer marks nothing dirty; `sameIntraday()` does not compare `hasQuote`, so a
chart that had come before the first quote is not drawn with it when that quote has an open and a previous close of zero.
`PanelShowsPage` names exactly these four.  The
flags of `StockApp` short-circuit (`StockApp.cpp:53`), so the screen is cleared in two passes after a
page change.  Of two gestures in one pass `pollButtons()` reports one.  Printers three and four have no page, nor has a fifth stock
(`StockApp.h:26`; `docs/hardware-acceptance.md:31` wants it so, `AppConfig` accepts five); a
Bambu page whose printers the portal deletes is left for good.  Long presses do nothing, although
two screens still say they open a menu (`WeatherScreen.cpp:243`, `HomeAssistantScreen.cpp:79`).
`/api/wifi/reconfigure` answers 202 even when nothing could be written.  A portal that could not write the
configuration stays forced until something has been saved.

## 5. What is proved

TLAPS checks the following for every value of the constants that satisfies the
assumptions named in the modules (`BrokerAssumption`, `WorkerAssumption`, `BambuAssumption`, ...): bounds
are natural numbers, retry delays and intervals are within the cap on ages, configurations are
valid.  Every invariant is proved through an inductive one; what it adds is said with it.

**MarketDataWorkerProofs.**  `IInv == TypeOK /\ HeldOnce /\ ControlInv` is inductive.
`HeldOnce` alone is not: `TakeWork` overwrites `current` and `notices`, which
loses a request unless both are empty there; `ControlInv` says where in `run()` the
task holds something.  From it follow

* `Typing`: the type invariant;
* `ConservesRequests`: every request the controller waits for is in exactly one place;
* `Refinement`: the worker implements `MarketRequestBroker`: every step is an
  accept, an answer, a loss, a take, or changes nothing the broker sees;
* `FetchesBounded`: the budget of fetches, with `FetchInv`, which relates the fetches made to
  the attempt number a request carries through retries and the fallback;
* `NewWorkWins`: only newly accepted work displaces waiting work;
* `KeysWaitOnce`: no two waiting quotes or probes ask for the same thing;
* `UrgentGoesFirst` (`UrgentFirst`), with `SortedInv`: only quotes and probes wait in `highPriority_`, none of them
  with a delay, and the clock value of the pass is behind by `MaxLag` at the most.  A quote created after that
  value was read has an age that wraps beyond every TTL, so it is collected as expired (`ReadyOrExpired`) and
  does not wait behind a chart.  `ClockAssumption` is what this needs: the longest TTL, 75 s, and the time the
  mutex is waited for do not add up to 49.7 days.

**StockControllerProofs.**  One inductive invariant carries all but the last two: `OutstandingMirrorsWorker`,
`OneRequestPerUrgency` and `NoForeignData` together with the types, the answers having distinct ids, and
ids being finitely many (they are 32 bits wide), so that a free one exists or a request is not made.

* `TypesHold`, `OutstandingAlwaysMirrorsWorker`, `NothingAskedTwice`, `DataStayWithTheirStock`;
* `AlwaysConfirmedByLatestQuote`: what the trading-day inference rests on;
* `ChartsNeverMoveFailover`: an action property (`OnlyQuotesMoveFailover`): only answers to quotes and probes
  move the failover.

**ProviderFailoverProofs.**  The histories `failed` and `succeeded` are tied to the counters.

* `LeavingTakesThreeFailures` (`SwitchOnlyAfterThreeFailures`), with `FailureInv`: while the window is
  open its age is that of the first failure counted in it;
* `ReturnIsEarned` (`ReturnOnlyAfterTwoSuccesses`), with `RecoveryInv`: `recoverySuccessCount_` is
  the number of successes in a row since the switch;
* `TypesHold`.

**BambuMqttServiceProofs.**

* `Typing`: among the rest, the slot worked on always lies within the copied configuration,
  although `connectSlot()` copies it a second time in mid-pass;
* `Following` (`ConnectionsFollowConfig`), with `DialInv`: what is being dialled is what the
  configuration says, unless its change is still unnoticed;
* `Latching` (`RefusedTokenLatched`), with `RefusalInv`: a slot that dials has not been
  refused, and one refused before a change was noticed waits for the next pass;
* `Resting` (`RetryAfterInterval`), with `RestInv`: the age the code computes never runs ahead of the
  time since the last attempt returned or, after a failed `loop()`, since its pass began;
* `AskingOnce` (`PushallOnce`), with `PushallInv`: a published pushall is no longer pending, and its
  connection was old enough.

**AppDataControllersProofs.**

* `TypesHold`;
* `OneIsOnItsWay`, with `WayInv`: for each page, where its one request is;
* `NothingIsDropped`, when the request queue has room for one request of each page
  (`RequestDepth >= 2`): a page counts in the queue at most once;
* `CyclesCoverEntities`, an action property, with `CycleInv`: the entities asked for so far are those up to
  the one the cycle has come to.

**DeviceLoopProofs.**

* `TypesHold`: in particular `navigate()` finds an application with a page and an index within it, and the
  picture is one of the page on screen;
* `PressReportedOnce` (`OneGesturePerPress`), with `GestureInv`: a press has been reported when it is over or
  was a long one;
* `WorkerAlwaysFollowsPage` (`WorkerFollowsPage`), inductive as it stands;
* `ButtonsAreInverse` (`OtherButtonLeadsBack`) and `EachButtonReachesAll` (`EveryPageInReach`), from the module
  **AppShellProofs**: the pages navigation exposes lie in a ring (`Place`), in which a press moves one place on
  (`PressMovesOn`), whatever search `navigate()` makes for it, so the other button undoes it (`PressIsUndone`); and
  there are as many pages as places (`RingCount`), so that many presses visit them all (`RowVisitsAll`).  Where
  `k` presses lead is an induction; the library's theorems for that take an operator as a
  parameter, which the provers cannot instantiate, so `InductionOverSet` takes a set of numbers instead and
  follows from the well-foundedness of strict inclusion;
* `VideoAlwaysFollows` (`VideoFollowsClock`), with `VideoInv`: while the playback runs there is data to show it
  with and nothing of it is left to draw, so that the frame is set and drawn in one pass;
* `SelectedPrinterShown` (`ShowsTheSelectedPrinter`), with `PrinterInv`: between the press that leads to a Bambu
  page and the tick nothing of the printer before counts as fresh, and the active printer is one that has a page;
* `PanelAlwaysShowsPage` (`PanelShowsPage`), with `PanelInv`: what differs on the panel is one of the four
  things that come later, or the page is due to be drawn in full.  A tick that changes fields marks the page dirty or
  changes only what is late (`Noticed`), each set of fields that change together redraws every region
  they show in (`StockChangesCover`), and a press that leads to another page has it drawn in full (`ShownInFull`).

**DeviceLifecycleProofs.**  All need `Shape`: nothing is pending on a device that does not run.

* `StoredIsRun` (`RunsWhatIsStored`), with `StoredInv`: the portal is forced as long as there is nothing valid
  in the flash, and left by a save or with what was valid before it;
* `CredentialsStayTogether`, with `CredentialsInv`: what is stored, in memory and in a save under way belongs
  together, and the user id is asked for with the token that is saved;
* `ReconfigureIsHonoured`, with `ReconfigureInv`: the portal that was asked for is forced;
* `HaSecretsAreKept`;
* `StoredAlwaysStarts` (`StoredConfigStarts`), with `SettingsInv`: what is in the flash, or is about to be
  loaded, is a configuration a form gives.  `RoundTrip` takes any such configuration through the form and
  back: the rows in use are the first ones, the n-th of them is found again (`FirstNumbers`, `RankedRow`), a
  symbol keeps its exchange by its suffix, and a coordinate within the limits survives being printed and parsed;
* `LifecycleTypes` (`TypeOK`), from `SettingsInv`, `HaInv`, `BambuInv`, `PhaseInv` and `TaskInv`.  The last says
  who may hold the arbiter: one worker, or the MQTT task, or the loop in its request, and that a worker that
  uses or waits for it has a request left.

`InputAssumption` is what the last two rest on: what is submitted has the types of `ProvisioningFields` and of the
other forms, and what is found in the flash at first was written by this program, hence from forms it had accepted.

**Only model-checked**: all liveness properties, which are out of the prover's reach, as is `ENABLED`.  Every invariant
and action property of the passing runs is also a theorem.

## 6. What is not modelled

In the components that are modelled: contents of quotes, charts and reports; the view
`WeatherController` and `HomeAssistantController` derive for the screen, with the age it is called stale by (an answer may be
stamped later than the clock value of the tick that takes it, and is shown as stale for one pass); creation and
deletion of tasks; the branches for configurations that validation excludes; several updates of a
Bambu session in a row that are given up (`MaxLost` bounds them).  `MarketClock` is reduced to the phases of the day.
`NetworkArbiter` is followed while it blocks the loop; between the tasks alone it is part of the
time a fetch or a dial takes.  Frames of the video always decode: they are compiled in.

Left out altogether:

* `BambuState`, the merge of a partial report into the state of a printer: thirty optional fields, each kept or replaced
  on its own; only the ones that depend on each other would be worth a model (a report that
  changes `tray_now` without its `ams` array keeps the filament of the tray before).
  `BambuSessionModel` and `ButtonDebouncer` are used by tests only, `MenuApp` and its screen by nothing.
* Providers and parsers: to the rest of the system they are outcomes of a fetch, and
  what they do is a function of one text.
* HTTP and TLS, JSON, hardware drivers, HTML, fonts and layout.

## 7. Plan

1. A composition of `StockController` and `MarketDataWorker` with a common clock: paging A, B, A while
   a chart is under way (the slot then holds the chart of the page that was left, and the one on screen cannot be
   asked again until its CANCELLED answer is taken), and how often a provider that fails at once is
   asked while the stock on screen has no quote (`StockController.cpp:105`: at every tick).
2. The merge of partial reports in `BambuState`, reduced to the fields that depend on each other.
3. `NetworkArbiter` with the four tasks as its users at all times.
4. `MarketClock` and the intervals as pure definitions against references.
5. Proofs: once the composition of 1 exists, its invariants, from `Refinement` and `OutstandingAlwaysMirrorsWorker`.
