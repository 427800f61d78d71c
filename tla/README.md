# A verification model of yy_mqtt_bridge

`yy_mqtt_bridge` subscribes to MQTT topics, turns the messages it receives into
Prometheus samples, and serves the last sample of every series over HTTP. This
directory holds TLA+ modules that model it, TLC configurations that check them
on small instances, and proofs, checked by TLAPS, of all their safety properties
for every value of the constants.

The reference is the code in `src/`. Libraries that are not in the repository
(libmosquitto, civetweb, spdlog, boost, yaml-cpp, and the author's own yy_cpp,
yy_json, yy_mqtt, yy_prometheus, yy_values and yy_web) are external: they are
modelled only as far as `src/` relies on them.

    tlc -config MCMqttIngest.cfg MCMqttIngest
    tlc -config BridgeLifecycle.cfg BridgeLifecycle
    tlc -config MCScrapeHandler.cfg MCScrapeHandler
    tlc -config MCBridge.cfg MCBridge
    tlc -config MCConfiguration.cfg MCConfiguration
    tlc -config Logger.cfg Logger
    tlc -config BridgeLogs.cfg BridgeLogs

    tlapm SequenceProofs.tla
    tlapm MqttIngestProofs.tla
    tlapm IngestRefinementProofs.tla
    tlapm BridgeLifecycleProofs.tla
    tlapm ScrapeHandlerProofs.tla
    tlapm BridgeProofs.tla
    tlapm ConfigurationProofs.tla
    tlapm LogProofs.tla

## 1. The system

### Components, their state and operations

| Component | Source | State | Operations |
|---|---|---|---|
| Program life cycle | `yy_mqtt_bridge.cpp` | `g_mqtt_bridge_state` (client, exit_program, a mutex), the web server, the library's initialisation, the default logger | `main`, `signal_handler`, `do_create_client`, `do_exit_program` |
| MQTT client, connection | `mqtt_client.cpp` | libmosquitto's client, `m_is_connected`, `m_subscriptions` | `run`, `stop`, `connect`, `on_connect`, `on_disconnect`, `on_subscribe` |
| MQTT client, messages | `mqtt_client.cpp` | `m_metric_data`, a vector whose elements outlive `clear(Keep)`; `m_topics`; `m_path` | `on_message` |
| Handlers | `mqtt_handler*.cpp` | a JSON parser with its visitor; the metrics; `m_metric_count` | `Event` (JSON, value); `JsonVisitor::apply`, `reset` and setters |
| Metric | `prometheus_metric.cpp` | `m_metric_data`, `m_metric_properties`, both recycled | `Event` |
| Metric cache | external | the last sample of each series, a lock | `Add`, `Visit` |
| Scrape handler | `prometheus_civetweb_handler.cpp` | `m_body`, `m_header` | `DoGet` |
| Configuration | `configure_*.cpp` | the metrics filed by handler id, the handler store, filters and subscriptions | one function per section of the file |
| Topic automaton | external | filters, and what each is bound to | `add`, `find` |
| Logging | `logger.cpp`, `configure_logging.cpp` | `g_logger`, spdlog's registry and default logger | `set_logger`, `set_console_logger`, `stop_log`, `stop_all_logs` |

### How they interact

    broker --> libmosquitto loop (main's thread) --> mqtt_client::on_message
        --> MqttHandler::Event --> Metric::Event --> m_metric_data
        --> MetricDataCache::Add  <== lock ==>  MetricDataCache::Visit
                                              <-- DoGet <-- civetweb threads <-- scraper
    SIGINT, SIGTERM --> signal_handler (any thread) --> mqtt_client::stop

The configuration runs first and hands each `Metric` object to one handler, each
handler to the topics. After that everything about messages happens on main's
thread, inside `loop_forever`; the cache is shared with the threads of the web
server, and `g_mqtt_bridge_state` with whichever thread a signal is delivered to.

### What is hard

* *Recycled state.* To avoid allocation, nothing on the path of a message is
  made anew: each `Metric` fills an object that any metric may have filled for
  any message, parsers stop in the middle of broken documents, and the vector
  is cleared with its elements kept.
* *Signals.* A handler takes a mutex on top of whatever its thread was doing,
  and calls a library that calls back and that logs.
* *Connections come and go.* The library reconnects on its own, and what the
  broker knew of the last connection is gone.
* *Ends.* `run()` waits for a callback; the library is cleaned up while the web
  server still has threads.
* *Several scrapers.* One handler object, two buffers, many threads; the cache
  changes while an answer is made.
* *Loggers by name.* spdlog's registry refuses a name it has, and one logger is
  the log, the default and perhaps the access log at once.
* *Configuration files.* Metrics are moved out of one structure into another by
  name, and names may be missing, unknown or repeated.

### What makes each component correct

| Component | Correct if | Stated as |
|---|---|---|
| Messages | what the cache holds depends on messages alone, each one whole | `ImplementsLatestReadings`, `FreshBatch`, `ReserveSuffices` |
| Connection | `run()` ends when it should, with the connection closed; every connection is subscribed | `DoneIsClosed`, `ClosedLoopEnds`, `SignalEndsProgram`, `ServedIsSubscribed` |
| Life cycle | exit requests are not lost, handlers return, the tear-down is in order, a missing client has one cause | `StopReachesClient`, `HandlerReturns`, `TeardownOrder`, `NullOnlyAfterExit` |
| Scrape | an answer is one state of the cache, with headers in place | `AnswerIsSnapshot`, `AnswerIsAnnounced` |
| Configuration | no metric is shared, miscounted or bound where it was not asked for, nor lost but in the cases of section 3; no filter is unhandled | `MetricHasOnePlace`, `AskedIsBound`, `CountIsBound`, `SubscribedIsHandled` |
| The whole | an answer is the whole messages up to one moment, and the last sample of each series, untouched | `ImplementsExporter` |
| Logging | there is one log, and what is logged goes where it was asked to | `OneLog`, `LogsAsAsked` |

## 2. The modules

| Module | What it models | Builds on |
|---|---|---|
| `MetricData` | `Metric::Event` as functions of the recycled object and properties; the sample they should make | |
| `Handlers` | what the configuration leaves the client with, as constants | `MetricData` |
| `LatestReadings` | the abstract specification of the ingest path | `Handlers` |
| `MqttIngest` | `on_message` and all it calls, and the refinement | `Handlers`, `LatestReadings` |
| `MCMqttIngest` | a small bridge | `MqttIngest` |
| `MqttIngestProofs` | proofs of its types and of `FreshBatch` | `MqttIngest` |
| `IngestRefinementProofs` | proofs of the refinement and of the reservation | `MqttIngestProofs`, `SequenceProofs` |
| `MqttClientRun` | `run`, `stop` and the connection callbacks over libmosquitto | |
| `BridgeLifecycle` | `main` and the signal handler; its `Run` steps are those of `MqttClientRun` | `MqttClientRun` |
| `BridgeLifecycleProofs` | proofs about both | `BridgeLifecycle` |
| `Filter` | the elements of a sequence that are in a set | |
| `SequenceProofs` | lemmas about filtered and joined sequences | `Filter` |
| `ScrapeHandler`, `MCScrapeHandler` | `DoGet` on several threads against the cache | `Filter` |
| `ScrapeHandlerProofs` | proofs about it | `ScrapeHandler`, `SequenceProofs` |
| `Exporter` | the abstract specification of the bridge as a whole | `LatestReadings` |
| `Bridge` | messages and scrapes over one cache: `MqttIngest` and `ScrapeHandler` composed, and the refinement | both, `Exporter` |
| `MCBridge` | a bridge of two metrics | `Bridge` |
| `BridgeProofs` | the proof of the refinement | `Bridge`, `IngestRefinementProofs`, `ScrapeHandlerProofs` |
| `Configuration`, `MCConfiguration` | from the file to handlers and subscriptions | `Filter` |
| `ConfigurationProofs` | proofs about it | `Configuration`, `SequenceProofs` |
| `Logger` | the functions of `logger.cpp` over spdlog's registry, in any order | |
| `BridgeLogs` | the logs `main` makes of the command line and the file | `Logger` |
| `LogProofs` | proofs about both | `BridgeLogs` |

Definitions marked "A mutant" are not part of any specification. Each is the
definition below it with a plausible mistake, and shows that a property notices.

### MqttIngest and MetricData

State: `slots` and `size` are `m_metric_data` with its kept elements, `scratch`
and `props` are `m_metric_data` and `m_metric_properties` of each `Metric`,
`parser` is `m_parser` with its visitor, for each JSON handler, and `cache` is
the cache. The other variables are the locals of `on_message` and of the
functions it is in: the message, the handlers that are left, the readings the
parser has still to report and the metrics that have still to be told.

| Action | Code |
|---|---|
| `OnMessage` | `on_message` up to its loop; a topic without handlers is ignored, which is a stutter |
| `HandlerEvent` | the loop over the handlers, and `Event` of the next one up to `write_some` or its loop over the metrics |
| `JsonScalar` | the parser reports a scalar, and `JsonVisitor::apply` begins |
| `MetricEvent` | `Metric::Event`, with its `swap_data_back` |
| `AddToCache` | `m_metric_cache->Add(m_metric_data)` and the return |

A message is a trimmed topic and a payload; a payload is the text a value
handler takes whole and the scalars a parser reports of it, in order. A document
that breaks off has the scalars reported before it did: the code does not look
at the error. A parser that is not reset after use reports nothing. The levels of
the topic are not kept apart from the topic. Label, value and property actions
are functions given as constants: any configured list of actions is such a
function. `Style` stands for type, unit and format. `Add` gets the vector by
reference and is external: it may leave the vector's elements, or exchange them
for those it replaces, and both are followed.

`HandlersFor` gives one sequence for the list of lists `m_topics.find` returns,
so a handler may be in it twice when filters overlap.

### MqttClientRun and BridgeLifecycle

`run` is where `mqtt_client::run` is; `socket`, `stopping`, `outgoing` and
`phase` are what the code depends on in libmosquitto: a socket that waits for its
CONNACK, was accepted or was refused; a note that a disconnect was asked for; the
packets that are not written yet, in order; the wait before a reconnect.
`subscribed` is what the broker has for this connection. It is gone with the
socket, so `OnConnect` has to queue a subscription on every connection, behind
which a DISCONNECT of a signal handler may come. All filters go into one packet;
a client without filters is not told apart. The library is deliberately given
freedom rather than followed: `Connect` may or may not forget an earlier request,
a disconnect may close the socket at once or leave that to the loop, a fatal
error may end the loop at any time, a callback may throw.

`main` is a program counter with a point for each call of `main` that matters,
and `frames[t]` is the stack of signal handlers on thread `t`, one frame for each
signal at most, as a signal is blocked while its handler runs. main stands still
while it has a frame. There are two threads: main's, and one that stands for
every thread of the web server. `handled` has the signals that still have the
handler: the handler sets both back to the default first, so a second signal
kills the process, also between the two. A frame that interrupts the code of a
thread is `locked` if that code has a lock which `stop()` needs too: one of
libmosquitto's, or that of the log, which `on_disconnect` writes to. Any thread
of the server may, and main while it is in `run()`. `VisitState` then waits until
no frame is locked, which no thread but the interrupted one could bring about.
Installing the handlers is `Init`:
before that nothing of the program has happened.

`RunWithoutClient` is what happens when exit is asked for before the client is
made: `client->run()` at `yy_mqtt_bridge.cpp:233` uses a null pointer, and the
process is `crashed`. An exception outside the `try` block, from a missing file to
a port that is taken, is `SetUpThrows`.

### ScrapeHandler

A sample is opaque and has a name, a type and a unit, so that the same module
serves small symbols (`MCScrapeHandler`) and the records of `MetricData`
(`Bridge`). `AddMessage` is all a message does here: its series get its samples,
under the lock. `took[w]` is the cache at the moment w's `Visit` got the lock,
kept to compare the answer with.

A line of `body` is a header block or a sample. While another `DoGet` is between
its start and its end, a write to `m_body` or `m_header` is a data race, which is
undefined behaviour: the outcome is what was written, or a value that stands for
anything else, a wrong length or a body that is `Torn` until it is cleared.
`alone[w]` says whether any other `DoGet` ran during w's, and the properties
promise nothing of those that were not alone. They do promise that the buffers
recover: the answers before may all have been damaged.

A header block has the unit the code writes: that of the sample if it differs
from the unit of the sample before, whatever metric that was of, and none
otherwise (`prometheus_civetweb_handler.cpp:81`). `AnswerIsAnnounced` says that a
unit line is missing there and nowhere else. That no metric is announced twice is
said only where the samples of a name have one type and one unit (`OneStyle`):
nothing keeps two entries of the configuration from having one name and two
units, and then the code announces the metric with every change.

### Bridge and Exporter

`Bridge` has the variables of both sides and one `cache`. `HandleMessage` is a
step of main's thread, whose last, `AddShared`, waits for the lock while a worker
visits; `Scrape` is a step of a worker. Nothing else is shared, which is what the
code relies on when `on_message` uses no lock of its own.

`Exporter` is what a user is told: messages are in the cache at once, and an
answer is the cache at one moment between question and answer. The mapping reads
`phase` off `at`, has `took` for the moment, and leaves out the lines that are
headers. The variables of `MqttIngest` but the cache, the buffers, the lock and
what `Visit` has left have no counterpart. `Exporter` promises nothing of the
answer of a scrape that another overlapped, and everything of the next.

### Configuration

A file is a record of lists. The metric entries are read first, by
`configure_prometheus_metrics`; `metrics[id]` are the objects filed under a
handler's id, which may be empty. A property of a JSON handler moves objects to a
pointer, unless the builder of JSON pointers refuses that pointer (`Addable`); a
value handler takes all. What a handler entry calls a property is trimmed, what a
metric entry calls one is not: names are kept as they are written, and `Trim` is
applied where the code trims. A handler that took metrics is stored unless its id
is empty or taken; then they are gone with it. The code leaves null pointers where it moved objects away and
skips them later; the model takes the objects out. `Held` is where a metric is, by
its positions in what is filed, in the handler that is being made and in those
that are made. `Ascending` is the order `find_iter_pos` keeps the subscriptions
in: filters are numbers, in the order of their texts. A file without a host stops
after the metrics, as `configure_mqtt` returns early. `Find` is what the automaton
of the client gives for a topic: it is external, and `Matches`, which topic a
filter matches, is a parameter.

### Logger and BridgeLogs

A logger is known by its name, as in spdlog's registry; `sink` and `level` are
those of the last logger made under it. Every function of `logger.cpp` that
changes something is an action and may come at any time. Each is one step: the
other threads only read `g_logger`, and the functions themselves are called on
main's thread. Making a logger under a name that is taken
throws before anything has changed, so that the failing call is a stutter, and no
property says more of it. `switched` and `cut` are history: a log has been set, and
`stop_log(name)` was called with the current log's name.
`spdlog::drop` forgets a default logger of that name. `set_default_logger` may
or may not take the former default out of the registry, as versions of spdlog
differ.

`BridgeLogs` extends this with `main`'s points in the order of its calls: the
option, the two sections of the file, the decision whether the access log is the
activity log, none, or one of its own, and `stop_all_logs` at its three places:
after the usage (`StopAfterUsage`), and at main's end, with the bridge run or not
(`StopLogs`).

## 3. What is checked

| Run | States | Shows |
|---|---|---|
| `ingest` | 132,816 | below, 1 |
| `lifecycle` | 51,951 | below, 2 |
| `scrape` | 1,405,566 | below, 3 |
| `bridge` | 796,905 | below, 4 |
| `configuration` | 8,775 | below, 5 |
| `logger` | 2,170 | below, 6 |
| `logs` | 6,174 | below, 7 |

1. **ingest.** Three metrics, of which two share a name and a series, one JSON
   handler with an unused pointer, one value handler. Topic `tj` has the JSON
   handler twice, `tb` has both handlers, `tn` none. Payloads: a whole document,
   one that breaks before its first scalar, and one that says a pointer twice.
   Nothing bounds the number of messages: the state space is finite as
   everything kept is a sample of some message, and it is explored fully. Two
   topics, three payloads and a location that only one topic sets are enough for
   a leftover to differ from the right value. There is one time: which message a
   sample is of shows in its topic and its value, and the proof covers the rest.
   `ImplementsLatestReadings` says that all the steps of a message together are
   one step of `LatestReadings`, which has no vector and nothing to recycle. That
   step is the delivery of some message; that it is this one is in `FreshBatch`,
   by which every sample of the vector is one of this message.
2. **lifecycle.** No bound: two signals, two threads, and each signal can be
   delivered once before the disposition is the default. Every interleaving of
   main, two handlers and the library is there, with any number of connections.
3. **scrape.** Two workers and three messages that may come any number of times.
   Four series of three metrics. Two messages bring the two series of one metric
   and tell each other apart in both; the third brings one of them and the other
   metrics. Two metrics share type and unit, one has no unit, and one has another
   unit with the third message, so that a metric of two styles is scraped too. The
   workers are symmetric, the properties are invariants. Workers scrape again
   without limit.
4. **bridge.** One value handler with two metrics of one series each, one topic,
   two payloads, two workers; messages and scrapes without limit. Two payloads
   are enough to tell the last message from the one before and half a message
   from a whole one; two workers to damage both buffers and to answer after that.
   The workers are symmetric, and so is `Exporter`: the property is a safety
   property that names no worker. That JSON handlers feed the cache as value
   handlers do is what `ingest` shows; both kinds here are too large a product.
5. **configuration.** 1,050 files: two metric entries out of five, seven lists of
   handlers, three lists of topics, with and without a host. Handlers appear
   twice, in either order, of each type, without id, with the empty id that a
   metric names too; properties are repeated, empty, unknown, blank, written with
   a blank on one side or on both, and at a pointer that is refused. Filters
   overlap: a topic may match one, both or none. `AskedIsBound` goes both ways. A
   metric is bound only where its handler asks for it, in any file and at any
   time; and when all is configured it is bound there, but for the two cases below.
6. **logger.** Two files, two levels, any sequence of calls.
7. **logs.** Every combination of the option, a file and a level in each
   section or not, and no access log, one without a file, and one that is off.

In `lifecycle`, `configuration` and `logs` deadlock is not checked: the process
ends, a configuration is done, the logs are stopped, and main or a handler does
wait for itself in some cases (`SelfDeadlock`).

No run bounds a counter. All there is to choose is the size of constant sets.

### Fairness

`BridgeLifecycle!Spec` assumes that main's thread gets on (weak fairness of
`MainStep` and of the steps of `run()` that need nobody else), and that each
thread gets on with its handler. The code's threads are scheduled by the kernel
and none of these steps waits for anything but its guard. Nothing is assumed of
the broker, the network, callbacks that throw, or signals, and nothing of the
mutex: it need not be given to the handler that waits. A handler must still
return, as main holds the mutex once and briefly, which `HandlerReturns` checks.
`ServedIsSubscribed` needs only that main writes what it has queued.

The other specifications state no fairness, and no liveness is asked of them.
That a message gets into the cache, or that a scrape is answered, depends on a
`std::mutex` that is not fair: with scrapes in one long sequence the thread of
the client may wait for ever, and only strong fairness would hide that.

### Limits that the properties name

* `SelfDeadlock` is the exception of all liveness. The code does deadlock when a
  signal is handled on main's thread while main holds the mutex
  (`yy_mqtt_bridge.cpp:88` with 231), and when the handler interrupts code that
  has a lock `stop()` needs (`mqtt_client.cpp:102` and 172).
* `NullOnlyAfterExit` does not say that `run()` always has a client: an exit
  asked for before the client is made leaves main with a null pointer
  (`yy_mqtt_bridge.cpp:233`).
* `ServedIsSubscribed` is about the packet. A filter the broker refuses is never
  heard of again, as `on_subscribe` does not look.
* `SignalEndsProgram` is about requests that reach a loop that serves a socket
  or waits to reconnect, and excepts the case in which a callback has thrown and
  its connection is never closed. A `stop()` before or during a connect may be
  forgotten.
* `AnswerIsSnapshot`, `AnswerIsAnnounced` and `Exporter` except overlapping scrapes.
* `AskedIsBound` excepts the metrics of two kinds of handler id, which the code
  does lose: an id that two handler entries say, of which the second takes metrics
  and is thrown away (`configure_mqtt_handlers.cpp:253`), and the empty id, which
  a metric may name (`configure_prometheus_metrics.cpp:89`) and a handler may have
  without ever being stored (`configure_mqtt_handlers.cpp:250`).
* A property is asked for where it is said first. If that pointer is refused
  (`configure_mqtt_handlers.cpp:91`) it is bound nowhere, as the property counts as
  seen; and a metric whose property is written with blanks around it is asked for
  by no JSON handler, as only the handler's side is trimmed.
* `ReserveSuffices` excepts documents that say a pointer twice; the vector grows.
* `OneLog` excepts histories with a `stop_log(name)` of the current log (`cut`),
  after which the next change drops the log it makes. No caller in `src/` does that.
  And until a log has been set for the first time (`switched`) the default logger
  is spdlog's own: `set_console_logger` at the start of main does nothing, as
  `g_logger` is on the console and registered before main begins.
* `LogsAsAsked` allows two loggers to write to one file when their levels differ.

## 4. What is proved

Every invariant and every refinement the runs check, for every value of the
constants that meets the assumptions below.

| Theorem | Says | Run |
|---|---|---|
| `MqttIngestProofs!BatchInvariant` | the inductive invariant of the ingest path | |
| `MqttIngestProofs!TypeCorrect`, `FreshBatchHolds` | `TypeOK`, `FreshBatch` | `ingest` |
| `IngestRefinementProofs!IngestImplements` | `Spec => ImplementsLatestReadings` | `ingest` |
| `IngestRefinementProofs!ReservationSuffices` | `ReserveSuffices` | `ingest` |
| `BridgeLifecycleProofs!LifeInvariant` | the inductive invariant of the life cycle | |
| `BridgeLifecycleProofs!NoExitLost` | `StopReachesClient` | `lifecycle` |
| `BridgeLifecycleProofs!NullMeansExit` | `NullOnlyAfterExit` | `lifecycle` |
| `BridgeLifecycleProofs!RunReturnsClosed` | `DoneIsClosed` | `lifecycle` |
| `BridgeLifecycleProofs!NothingUsedAfterTeardown` | `TeardownOrder` | `lifecycle` |
| `BridgeLifecycleProofs!LifeIsTyped` | `TypeOK` | `lifecycle` |
| `ScrapeHandlerProofs!ScrapesAreTyped` | `TypeOK` | `scrape` |
| `ScrapeHandlerProofs!AnswersAreSnapshots` | `AnswerIsSnapshot` | `scrape` |
| `ScrapeHandlerProofs!AnswersAreAnnounced` | `AnswerIsAnnounced` | `scrape` |
| `BridgeProofs!BridgeKeepsPromise` | `BridgeSpec => ImplementsExporter` | `bridge` |
| `BridgeProofs!BridgeAnnounces` | `AnswerIsAnnounced` of the bridge | |
| `ConfigurationProofs!ConfigurationIsTyped` | `TypeOK` | `configuration` |
| `ConfigurationProofs!CountsAreBound` | `CountIsBound` | `configuration` |
| `ConfigurationProofs!MetricsHaveOnePlace` | `MetricHasOnePlace` | `configuration` |
| `ConfigurationProofs!SubscriptionsAreHandled` | `SubscribedIsHandled` | `configuration` |
| `ConfigurationProofs!WhatIsAskedIsBound` | `AskedIsBound` | `configuration` |
| `LogProofs!ThereIsOneLog` | `OneLog` | `logger` |
| `LogProofs!LogsAreAsAsked` | `LogsAsAsked` | `logs` |

### The assumptions

* `DataAssumption`, `HandlersAssumption`: constants have their types, and actions
  return labels and values. Nothing is said of what they return.
* `CountAssumption`: a handler's metric count is the number of metrics bound to
  it. It is what `CountsAreBound` proves of the handlers a configuration makes.
* `ScrapeAssumption`: types, and values that stand for none are none.
* `AnnounceAssumption`: `Visit` has the series of a metric together. That is what
  the external cache does. Only what is said of headers depends on it.
* `BridgeAssumption`: both of these for the bridge, where a series has the name of
  its metric in it.
* `LoggerAssumption`, `OffAssumption`, `NotMadeAssumption`: values that stand for
  none are none.
* `ConfigAssumption`: files have the shape of files, with any ids, empty ones too;
  there are finitely many filters, and they are ordered; a name that is trimmed is
  a name or empty, and nothing else is said of trimming; some of the pointers are
  taken by the builder, and it is not said which.

`BridgeLifecycle` needs none. Each is evaluated by the runs.

### MqttIngest

`FreshBatch` is not inductive: it says nothing of where the next sample will come
from. `BatchInv` adds that the handlers that are left are handlers of the
message's topic, that the readings that are left are scalars of its payload, that
the reading and the metrics that are left belong together, that the visitor of
the running JSON handler has the topic and time of this message, and that nothing
is left between messages. With these, `MetricEvent` is one lemma,
`EventMakesSample`: whatever the recycled object and properties held, `EventData`
is the `Sample` of the reading. The other actions append nothing.

For the refinement a message is a sequence of tellings, `Told`, each a reading
given to a metric. `ToTell` is what the metrics, scalars and handlers that are
left still tell, and `IngestInv` says that it is the rest of `Told` after the
samples there are, and that those are the samples of what was told. Taking up a
handler or a scalar only unfolds the rest; an event takes its head; at the end
the rest is empty, and the vector is what `LatestReadings` delivers. Of a series
with several samples both take the last. All other steps stutter.

`ReserveSuffices` is not inductive either: a reservation is made when a handler is
taken up, and its samples come later. `RestIsReserved` counts what the running
handler has still to tell. A document that says no pointer twice reaches each
metric of a handler at most once, by an injection of what is told into the bound
metrics.

### BridgeLifecycle

`LifeInv` has three parts beside `StopReachesClient`. `CreationIsLocked`: main has
the mutex from the check of exit_program to the end of the creation, so the
answer of the check stays true; and once main has unlocked without a client, exit
was asked for. `ConnectionInv`: being connected needs a socket, and out of the
loop a socket means being connected, which is why the wait for `m_is_connected`
is a wait for the socket. `RunInv` ties main's place to run's. A disconnect keeps
`ConnectionInv` whoever calls it (`DisconnectKeeps`), so a signal at any point
does. For the types, `NestedOnce`: no thread has two handlers of one signal, so
that handlers nest no deeper than there are signals.

### ScrapeHandler

`Inv` says that a worker visits exactly when it has the lock, that the cache is
then still what it took, that a worker that is `alone` is the only busy one, and
how far the answer of such a worker has come (`Formatting`): the samples in the
body and those it has still to visit are the snapshot. Nothing is said of a
worker that is not alone, which may have torn the body; clearing makes it good.

`AnnounceInv` is on top of that. The last line is the sample that `last` remembers
(`RemembersLast`), so new headers come exactly with a new metric or a new style;
and the series that are left bring the last metric's first, and no metric again
that has been announced (`NoneRepeats`).

### Bridge

Each behaviour of the bridge is a behaviour of `MqttIngest` (`BridgeIngests`) and
of `ScrapeHandler` (`BridgeScrapes`), where a message is the batch its vector holds
(`AddIsBatch`), so all of the above holds of it. A step of on_message is then a
message of `Exporter` or a stutter by `IngestImplements`, and a step of a scrape
is a question, its moment, its answer or a stutter; that the answer is the cache
of the moment is `Formatting`.

### Configuration

* Counts: `Counted`, of the handler that is being made and of those that are. A
  property adds as many positions as it moves metrics (`MoreCounted`).
* One place: `OnePlace` holds of a step because every position of a metric after
  it comes from one before. While metrics are made none is bound, and no entry
  finds a metric of its own filed (`Early`). A property moves each metric to one
  position, in the order they were filed in (`OneWithProperty`).
* Subscriptions: they ascend, and the handlers that have been added for a filter
  are those the past topic entries add (`TopicsInv`). `FindIs` says what the
  automaton makes of that.
* What is asked is bound: metrics are filed under their own handler (`Home`), and
  what is bound was asked for there (`Placed`), by the property that moves it or by
  the value handler. Nothing past handlers (`Taken`) or past properties of this one
  (`Asked`) ask for is still filed; and no metric is lost whose handler id is not
  empty and has one entry: it is filed, bound or stored (`NoneLost`). A handler
  with such an id is thrown away only if an earlier entry was stored under it
  (`Turned`), which there is not. In the end nothing is being made, so a metric that
  was asked for is neither filed nor bound but stored, and at the one place its
  handler asks for it.

### Logging

`OneLog` is inductive once it is said which logs there are, and which is the
default before one is set. `LogsAsAsked` follows
from what is set at each point of main (`LogIsSet`, `AccessIsSet`).

### Induction over data

Filtering and joining sequences are recursive functions, and what they do is
proved by induction on a set of lengths (`SetInduction` in `SequenceProofs`), which
takes no operator as a parameter.

### What is only model-checked

* All liveness: `HandlerReturns`, `SignalEndsProgram`, `ServedIsSubscribed`,
  `ClosedLoopEnds`. With its fairness and ENABLED it is out of this prover's reach.

## 5. What is not modelled

* Parsing: the command line (boost) and the YAML file (yaml-cpp). Their outcomes
  are choices of `BridgeLifecycle` and the inputs of `Configuration` and
  `BridgeLogs`. Ports, addresses, options of the web server and the names of
  types, units and styles are read once and kept as they are.
* The topic automaton (`yy_mqtt`), the JSON parser (`yy_json`, boost), what label
  and value actions do (`yy_values`): other libraries, here as constants.
* The granted QoS that `on_subscribe` ignores: nothing depends on it.
* The code `subscribe_multiple` returns (`mqtt_client.cpp:90`), which nobody looks
  at, and an exception out of `on_disconnect`, which could only come from its log
  line.
* `example.yaml`: its key `topics` is in the column of the list of handlers before
  it, which YAML does not allow, so nothing is claimed of the shipped file.
* An exception from a handler's `Event`, which is `noexcept` and ends the process.
* The help text of a header block, empty in every sample the bridge makes.
* The move constructors and assignments of handlers and visitors, which nothing
  calls once a handler has been made.
* The destruction of the client with `g_mqtt_bridge_state`, after main returns:
  what is destroyed before it is up to the static objects of the libraries.
* The build.

## 6. Plan

Done in this order, so that the most important behaviour came first: the ingest
path with its abstract specification and its proof; the life cycle with the
client's connection and its proof; the scrape; the configuration; the bridge as a whole; subscriptions; locks under a signal; the logs.

Then the proofs: types and safety of each component, the two refinements, and
the bridge from its halves.

Left is `Configuration` composed with `Handlers`: that what a configuration ends
with meets `HandlersAssumption` and `CountAssumption`, so that the theorems about
messages hold of every file. `Find`, `CountsAreBound` and `SubscriptionsAreHandled`
are the parts of it.
