# Verification of the tracker demo

trackerDemo runs on a BeagleBone Green Wireless. It turns a solar panel around two axes towards
the light, with two hobby servos on PWM outputs and four light sensors on A/D inputs. It reports
irradiance, position and stow status to an MQTT broker, and stows the panel when a pushbutton or
one of two applications asks for it. It is a C program of three threads of its own and one of
libmosquitto, which systemd starts again when it fails.

This directory holds TLA+ modules translated from that code, TLC configurations that check them
on small instances, and proofs, checked by TLAPS, that hold for every value of the constants.
`PROJECT.json` maps every definition to the lines it models. Paths below are relative to the
repository.

## 1. The system

| part | where | state | operations |
|---|---|---|---|
| PWM servo driver | `hw/BBGW/GPIO/GPIO.c` 196-358 | `PWMConfig[pin]` (limits, `currentDutyCycle_mSecs`); the kernel's sysfs registers | `PWM_init`, `PWM_setPosition`, `PWM_step`, `PWM_enable`, `PWM_disable`, `PWM_getDutyCycle_mSecs` |
| discrete and A/D input | `GPIO.c` 39-193 | none | `DiscreteIO_init/_write/_read`, `AtoD_init`, `AtoD_read` |
| main | `projects/spi/src/trackerDemo.c` 87-293 | `irradianceV` under `lockIrradianceData`, the servos | start-up; then rounds: read and scale the sensors, stow or track |
| stow monitor thread | `trackerDemo.c` 396-458 | debounce variables, `stowButtonIsPressed`, `panelIsStowed` | sample and debounce the pushbutton, combine it with both commands |
| report thread | `trackerDemo.c` 295-394 | a message buffer | connect, subscribe; then publish irradiances, stow status, position |
| MQTT client wrapper | `Common/mosquitto/mosquittoClient.c` | `pMosq`, `StowCmd_WebApp`, `StowCmd_RulesEngine` | `MQTT_init/_publish/_subscribe/_loop`, `shutdownMQTT`, the callbacks |
| message callback | `mosquittoClient.c` 235-303, `Common/lib/jsmn/jsmn.c` | a token array on the stack | parse a message, walk over its tokens by pairs, store commands |
| configuration | `projects/spi/include/GlobalConfig.c` | some forty global parameters | `readAndAssignConfigurationDetails` |
| timing | `trackerDemo.c` 282-286, 388-392, 456 | none | `usleep` of what is left of a period |
| utilities, log | `Common/utilities`, `projects/spi/include/log.c` | none | `system_desktopSafe`; two string helpers nobody calls; syslog |
| service | `projects/spi/trackerDemo.service` | | `Restart=on-failure` |
| MQTT client library (vendored) | `Common/lib/mosquitto/lib` | the socket, `last_mid`, `in_messages`, `out_messages`, `inflight_messages` | publish, subscribe, loop, packet handlers, retry, keepalive, reconnect |
| broker: topics | `Common/lib/mosquitto/src/subs.c`, `security_default.c`, `lib/util_mosq.c` | the tree of subscriptions and retained messages; access lists | add, remove, search, retain; check and match topics |
| broker: sessions | `src/database.c`, `context.c`, `loop.c`, `read_handle*.c`, `persist.c` (same library) | the message store, contexts with their queues, the file | packet handlers, main loop, wills, take-over, backup, restore |
| broker: configuration, access files | `src/conf.c`, `security_default.c`, `mosquitto.c`, `loop.c` 391-400 (same library) | `struct mqtt3_config`; passwords, keys, access lists; `flag_reload` | parse the arguments, read each file, reload on SIGHUP |
| broker: bridge | `src/bridge.c`, `loop.c` (same library) | `struct _mqtt3_bridge`, its context | connect, restart, keepalive, change of address |
| jsmn (vendored) | `Common/lib/jsmn` | a parser and tokens on the caller's stack | `jsmn_parse` |

How the parts interact:

- **Calls.** main alone calls the servo driver. Every driver call ends in shell commands
  (`echo n > /sys/...`) whose result is used only for the export.
- **Shared memory with a lock.** main and the report thread share `irradianceV`.
- **Shared memory without one.** The MQTT thread writes the two commands and the monitor thread
  reads them. The monitor thread writes `panelIsStowed` and `stowButtonIsPressed`; main reads the
  first, the report thread both. The report thread reads `currentDutyCycle_mSecs`.
- **Process.** The threads exist only after main's start-up. `exit(1)` in any of them ends all of
  them; systemd starts the program again. Variables are then zero, but the PWM registers keep
  their values, and the configuration file may have been edited.
- **Signals.** SIGHUP makes the broker's main loop read its configuration and access files again, while the
  contexts of connected clients point into the access lists that it frees.
- **Network.** The report thread publishes and subscribes through the client library, whose own
  thread reads, retries and connects again. The broker keeps the sessions, the queues and the
  retained messages; the applications are other clients of it. The repository vendors the client
  library and the broker, and a bridge connects such a broker to the one the applications use.

What makes it hard, and what correctness means in each part:

- *Driver*: variables and registers are written one after the other, the process can end in
  between, PWM_init may reject its arguments and carry on. Correct: no pulse outside the
  configured range, none that differs from the reported position, no step longer than configured.
- *Monitor*: a bouncing input, unreadable inputs, commands that change while they are read.
  Correct: no bounce gets through, no press is lost, every stow status is justified by what the
  sources asked for in the meantime, and a standing request is obeyed.
- *Sensors*: in-place scaling of a shared array. Correct: a message shows one complete round, each
  element scaled once for each corner that has it, and the axes follow those values.
- *Callback*: bounded tokens, a walk that relies on flat messages, text without an end.
  Correct: a flat message is obeyed as a whole or not at all, and nothing else changes a command.
- *Program*: start-up order, restarts, repeated stow rounds, threads that may not come up.
  Correct: a stow ends with the panel parked, and it stays parked until it is released.
- *Configuration and timing*: lines that jsmn takes in another way than they read, settings that
  depend on each other, unsigned durations. Correct: each setting is its last line, each sensor has
  its own tuning, and a pause ends when its period does.
- *Client library and session*: two threads on one queue, a connection that breaks at any step, late and
  repeated answers. Correct: what is published with QoS 1 or 2 is kept until it is passed on, and passed on
  once with QoS 2; commands for a session arrive.
- *Broker*: reference counts across queues, retained messages and take-overs; limits; a file that holds a
  part of the state. Correct: nothing is freed early or kept for ever, order and identifiers
  are kept, a restart is the last backup.
- *Topics*: one tree for subscriptions and retained messages, pruned from several places, wildcards, `$`.
  Correct: everybody gets what the filters and the access rules say, once.
- *Reload*: options that are reset, freed, skipped or read again, each in its own place; clients that stay
  connected. Correct: a reload is as good as a restart, and as a new connection of each client.
- *Bridge*: several timers move one index. Correct: it is connected again, and says truly whether it is.

`PROJECT.json` lists the hazards one by one, with the line at which each bites and the
properties that cover it.

## 2. The modules

    StowDecision <---implements--- StowControl <--EXTENDS-- StowReport
         ^
         | INSTANCE
    TrackerDemo --EXTENDS--> ServoPwm        LightSensors        StowMessage
         ^   (and implements it)
         | EXTENDS                           TrackerStart --EXTENDS--> Configuration
    PanelMotion

    RoutingSpec <---implements--- TopicRouting --EXTENDS--> SubTree --EXTENDS--> Topics

    Broker --EXTENDS--> Admission
       |                                     MqttSession --EXTENDS--> MqttClient
       +--EXTENDS--> BrokerHandlers <--EXTENDS--+                        Bridge
                           |
                           +--EXTENDS--> BrokerDb
    BrokerReload --EXTENDS--> BrokerConfig, AccessFiles
         +--INSTANCE--> Admission

Every module with a run has its small instances in `MCX.tla` and `*.cfg`, and, where there are theorems,
its proofs in `X_proofs.tla` (TrackerDemo_proofs has those of ServoPwm too, Messages_proofs those of LightSensors and
StowMessage). Passes is the induction over the rounds of a loop, which Broker_proofs and TopicRouting_proofs use with
INSTANCE for each loop.
A definition whose comment calls it a mutant is a plausible bug in the code
that the next definition models; each property has one that breaks it.

**ServoPwm**, the driver. `PWM_init`, `PWM_setPosition`, `PWM_step` and `PWM_disable` are
the calls; they change the variables (`PWMConfig`, `current`) and set `pc` to the shell command
that comes next. `Export`, `WritePeriod`, `WriteDuty`, `WriteEnable` and `WriteDisable` are the
shell commands, each a step of its own. A register keeps its value if the kernel refuses the new
one (a period shorter than the duty cycle, a duty cycle longer than the period, enabling without
a period), or, with `SysfsMayFail`, for any reason. `Restart` clears the variables, keeps
(or, at a reboot, clears) the registers and may bring another configuration. `setting` is what the
configuration file says, accepted or not. Durations are whole numbers.

**StowDecision**, the abstract promise of `panelIsStowed`. A decision may be true only if a source
was on at some moment since the decision before, and false only if every source was off at some
moment since then. It says nothing about threads, reads or debouncing.

**StowControl**, the monitor thread and the callback's stores. `FirstRead`, `Sample` (read, debounce,
first operand), `ReadCommand` and `WriteStatus` are the thread's steps at shared variables; `StorePair`
stores one pair of a message, so a message that sets both commands is seen half done. `run`,
`changed`, `beenOn`, `beenOff` and `round` are history variables. The plain, unlocked accesses are
data races in C: the model gives them the outcomes that builds for the board produce, aligned
words read and written whole, in either order.

**StowReport**, the report thread's stow message against all of StowControl: its fields are read one by one, in
any order, and published.

**LightSensors**, the array, the mutex, and the steps of main and the report thread at single
elements. Corners may share an A/D input (with the shipped configuration files all four have input 0),
and then scale its element one after the other. `FailedRead` stores any of `Leftovers`: AtoD_read converts an
uninitialised buffer.

**StowMessage**, the callback and as much of jsmn as it depends on. A step is a lexeme of the text
or a pair of the walk. The text is whatever a sender of a JSON object can write, nested or not, then
whatever the stack holds (the payload is copied without its NUL). `TokensAt` gives any
token for the element past the last one, and `own` counts the tokens of the message itself, before the
leftovers. FlatIsObeyed is what lets StowControl take a message for
the pairs it sets, in order.

**TrackerDemo**, the program. main's start-up and rounds call the actions of ServoPwm; the monitor
thread is StowDecision's `Decide`, which is sound because StowControl implements StowDecision; the
sensors are any combination of turns. `TrackerRestarts` ends everything at any moment.
Every step is one of ServoPwm or leaves its variables alone, so what the driver promises holds in the program.

**PanelMotion** adds the altitude servo's shaft, which is not part of the code and marked external.

**Configuration** and **TrackerStart**. Configuration is the reader: a line is what jsmn makes of it
(key, value, words of a comment, or torn), and `Assign` is the chain of comparisons, with the tuning
stored at the input that the sensor has at that moment (`MappingKey` is the name of an input in the
shipped files, which the code does not know). Of parameters that are treated alike one stands for all: the
host name for the texts (`Overwrite`: strncpy without the end), periods for the numbers.
TrackerStart puts the service around it: `Main` (exit(0) without a file), `EndOfFile`, `Round` and `Wake`
of each loop with `Rest` in unsigned arithmetic, `Fail` and `Restart`.

**Topics**, **SubTree**, **TopicRouting**, **RoutingSpec**. Topics has the checks of topics and both ways
the library compares them: by levels and character by character (`MatchesSub`). SubTree is the tree as the
sequence of its nodes, with `SubAdd`, `SubRemove`, `CleanSession`, `Search`, `Retain`, `RetainSearch`.
TopicRouting has the requests (subscribe, unsubscribe, leave, publish, refuse) and the access rules as the file is
read and used. RoutingSpec says what that is for, without a tree.

**BrokerDb**, **BrokerHandlers**, **Admission**, **Broker**. BrokerDb is database.c, each function an operator
from one state of the broker to the next (`V31` are the clients that speak MQTT 3.1, to which the broker
answers CONNECT and SUBSCRIBE in another way): the store with its reference counts, and for each client the
queue, its limits and states. A loop of the code is a recursive function of its rounds. The subscriptions
are a set of leaves, as their order decides nothing when each is of another client. BrokerHandlers has the packet handlers, wills, disconnection and take-over.
Admission is what CONNECT is asked, in the order of `mqtt3_handle_connect`. Broker is the program: one
thread, so a handler is one step; the clients keep to the protocol but answer late and twice, their
connections come and go, and the broker is stopped or killed and reads the file that `File` says it wrote.

**MqttClient** and **MqttSession**. MqttClient has the functions of the client library, MqttSession the
threads: the library's (reconnect in three steps, read, retry, keepalive), the report thread in
`mosquitto_publish` (the message is queued under the mutex and sent after it), and the broker with the
handlers of BrokerHandlers. A connection breaks at once or without notice, at any step.

**BrokerConfig**, **AccessFiles**, **BrokerReload**. BrokerConfig is conf.c: a table of the options (to what each
belongs, how it is read, what it may be), the lines that are read in a way of their own, the defaults of
`_config_init_reload` and `mqtt3_config_init`, and the checks at the end. A line is the sequence of its words, NULL is
no entry. AccessFiles has the three files of security_default.c. BrokerReload is the broker between them: files are
edited (`Edit`), `LoadConfig` and `LoadSecurity` are the two halves of a reload, and each client that connects is
asked what Admission asks, now with what the files say at that moment.

**Bridge**. The pass of the broker's loop in three steps (`Serve`, the restart, the poll), the timers counting down,
the addresses coming and going. A connection that is made outlives an address that is no longer known (`Heard`); it
ends when the other side does not answer.

The broker and the bridge are modelled as CMake builds them, with WITH_BRIDGE and WITH_PERSISTENCE;
`config.mk` switches both off, and the broker is then Broker without `Backup`, and without Bridge.

## 3. What is checked

| run | instance | shows |
|---|---|---|
| `servo` | one pin, commands that fail, four settings (one rejected; periods shorter than another's duty cycles), positions below, in and above the ranges, restarts with other settings | ReportedInRange, StepIsBounded |
| `stow` | two applications, button, debounce 2, reads that fail, messages that hand the stow over in both orders, the report thread | NoBounce, ButtonFollowsInput; DecisionIsJustified (refinement); CommandIsObeyed, ButtonIsObeyed, StowIsReleased, StatusIsReported (liveness) |
| `sensors` | three corners, two of them on one input, different scalars and offsets, failed reads | MessageIsOneRound, TurnIsReported, RoundsGoOn |
| `tracker` | both servos, one application, button, threads that may not come up, restarts | PulseInRange, ParkedStaysPut, StowIsCompleted, TrackingResumes (liveness) |
| `message` | both keys and another one, room for six tokens, nesting two deep, any number of messages, any leftovers of the stack | FlatIsObeyed, LeftoversStayApart |
| `startup` | files of up to three lines out of nineteen, two sensors on one or two inputs, two loops, periods and rounds of every order | EachSettingIsItsLast, TuningFollowsSensor |
| `topics` | two clients (one with a user name), five filters with every wildcard, topics that are parents of each other and one under `$`, retained and cleared, an access file with all kinds of lines | TreeOK, RoutesAsPromised (refinement) |
| `broker` | a publisher with and without a will, a subscriber of MQTT 3.1 with a password, QoS 0, 1 and 2, room for one message in flight and one queued | CountsAreExact, MidsAreDistinct, SentInOrder, KeptUntilAcknowledged, RestartIsLastBackup |
| `session` | the tracker's client, clean and persistent, two publications or commands of every QoS, one message in flight, one loss or one late answer | NothingIsLost, PassedOnOnce, CommandsAreKept; EventuallyAcknowledged, EventuallyReceived (liveness) |
| `reload` | three versions of the configuration (every kind of option; a stricter one; one with an error in the middle), files with and without errors or missing, a client with a name and a password, one without | ReloadIsRestart, ReloadIsReconnect |
| `bridge` | two addresses, one of an older broker, each start type, with and without round_robin, every kind of failure, one kill | NoticeIsTrue; ComesBack, PrimaryIsRegained, LazyIsStarted (liveness) |

And one run whose property is what the code announces and does not do:

| run | the text | what happens |
|---|---|---|
| `panel_motion` | `trackerDemo.c` 200: "Panel altitude stowed at %f ms." | PWM_disable directly follows the enabling, and no later round enables the servo again: the panel may never arrive |

**Texts that the code does not keep.** Comments and manuals say other things that the code does not do. Each of the
following is stated as a property at the end of its module, which no run repeats: put into the configuration named in place of
its own properties, TLC finds it violated within seconds. The properties of the runs describe the program as it is.

| property | configuration | the text | what happens |
|---|---|---|---|
| PressToggles (StowControl) | `MCStowReport.cfg` | `trackerDemo.c` 77: "If the pushbutton is pressed, we toggle the stow state" | the panel is stowed while the button is held, and released when it is let go: StowIsReleased and ButtonIsObeyed take the button as a level |
| PauseEndsWhenDue (TrackerStart) | `MCTrackerStart.cfg` | `trackerDemo.c` 387: "Sleep until it's time for the next report" | after a round that took longer than its period the unsigned difference wraps (lines 286, 392) |
| MappingIsObeyed (Configuration) | `MCTrackerStart.cfg` | `tracker-bbgw-demo.conf` 57: "This specifies how we map the A/D inputs" | the names of its lines are not those that `GlobalConfig.c` 233-243 compares with: all four sensors stay at input 0 |
| RetainedIsSent (TopicRouting) | `MCTopicRouting.cfg` | `man/mqtt.7.xml` 132: a new subscription that matches gets the retained message | one that ends in `+/#` may miss that of the level above (`subs.c` 717-721): RoutesAsPromised leaves it open |
| ReceivedOnce (MqttSession) | `MCMqttSession.cfg` | `man/mqtt.7.xml` 124: QoS 2 is delivered "exactly once" | the client library keeps a PUBLISH that is repeated beside the first one (`lib/read_handle.c` 147): `on_message` is called twice |
| LazyStartsByQueue (Bridge) | `MCBridge.cfg` | `mosquitto.conf` 731: a lazy bridge starts when more messages wait than `threshold` | after an attempt that failed, or a restart with messages in the file, it waits for another message (`bridge.c` 312): LazyIsStarted asks for messages that keep coming |
| OthersAreKept (Bridge) | `MCBridge.cfg` | `mosquitto.conf` 676: the bridge tries the main address "whilst connected to a secondary bridge" | each attempt closes the connection to the other address, also when the main one refuses (`loop.c` 181) |
| ConnectedStay (BrokerReload) | `MCBrokerReload.cfg` | `man/mosquitto.conf.5.xml` 434, of the password file: "Clients that are already connected will not be affected" | those whose name or password is no longer good are disconnected (`security_default.c` 763): ReloadIsReconnect asks for that |
| ListsAreThoseOfTheFile (BrokerReload) | `MCBrokerReload.cfg` | `man/mosquitto.conf.5.xml` 146: "The currently loaded ACLs will be freed and reloaded" | patterns stay and are read in addition when the file had nothing else (`security_default.c` 477): ReloadIsRestart leaves that case out |

Other places where a comment and the code differ are in the models as the code has them, and are noted at
their hazards in `PROJECT.json`: what PWM_setPosition returns (`GPIO.h` 226), what a failed AtoD_read returns
(`GPIO.h` 148), "a single variable" that is two (`trackerDemo.c` 345), and comments in the configuration file.

**Bounds, and why they are enough.** In the tracker's own modules no counter is capped: their state spaces
are finite by nature, except for the length of a text, which the room for tokens bounds (six: an object of two
members fits, one of three does not, as four and five in the code), for the nesting
(`MaxDepth` 2: a container inside the object is what shifts the walk), and for the lines of a configuration file
(`MaxLines` 3: a sensor's input, its tuning and one line between or after them). Driver positions and settings
form the smallest set with every relation between two configurations: a range above, below and
across another, a period shorter than the other's duty cycle, a rejected one. In LightSensors three
corners tell left from right and top from bottom; two of them share an element, so that an element is scaled once, twice
or, having no corner, not at all. One application suffices in the program, as StowDecision treats all sources
alike and `stow` has two. The debounce is 2 in `stow` (3 in the code), which lets a bounce
restart a count that has begun; its theorems are for any. The proofs have none of these bounds.

In the broker's modules, `MaxLeaves` 2 subscriptions let two filters of one client overlap or two clients share a
node; `MaxBody` 2 publications with room for one in flight and one queued give every
state of a queue: in flight, queued, dropped; `MaxLost` 1 step between a backup and a kill, because a second one only
loses more. `MaxMid` bounds the identifiers below their wrap at 65535 (`IdentifiersLeft` in the guards of the actions
that give one), so the wrap itself is not explored.
A publisher gives an identifier to one message at a time, as the protocol demands: that is what Publish's guard says.
In `reload` the files change to any of their versions at any moment, so every pair of
versions is reloaded one after the other; `MaxPatterns` 1 stops the signals once patterns have added up.
In `session`, `MaxMessages` 2 with one in flight makes the second one wait, and
`MaxFaults` 1 breaks the connection, or delays an answer, at each step of an exchange. In `bridge` the timeouts
are 1: the return to the main address is due when the restart comes, as with the 5 and 30 seconds of the code;
`MaxMessages` is one more than the lazy threshold.

**Fairness.** StowControl, StowReport, TrackerDemo: weak fairness of each thread, which the kernel's
scheduler gives; for main this includes the shell commands, which end. There is none for messages,
the pushbutton, the light, the connection or restarts. LightSensors has strong fairness of the two
threads: `pthread_mutex_lock` alone may starve a thread, but each sleeps without the mutex for
most of its period (0.3 s and 1 s; a round takes milliseconds), so a thread that waits finds it
free again and again and is scheduled then. In PanelMotion pulses that go on turn the shaft.
MqttSession: the library's thread and the broker run for ever (weak fairness of each of their steps that
stays possible), a function that has been called goes on; strong fairness of `Late`, the passing of
`message_retry` or `retry_interval` while no packet is under way. Bridge: its loop runs for
ever; strong fairness of `Tick` (time passes) and of `PollReady` (an address that stays up answers). There is none for
losses, kills, or addresses that come and go. The other modules have safety properties only.

**Premises.** StowIsCompleted and TrackingResumes speak of sources and the monitor thread from
some moment on, which allows any number of restarts before. CommandIsObeyed, ButtonIsObeyed,
StowIsReleased and StatusIsReported have the same form. With several sources and none that stays
on, the panel may be released for a moment while the stow is handed over:
StowDecision allows it, because the code does.
EachSettingIsItsLast and TuningFollowsSensor are for files that keep to their own first lines; what the code does with
others is in the model. TuningFollowsSensor promises a tuning to the sensor whose input at that line is the one it has at the
end, which is what the file itself asks for ("must come after the specification of the A/D sensor position mapping", line 68); lines may be mixed in any other way and inputs shared. ReloadIsRestart is for files with which the
broker would start, and not for access lists that had only patterns before: after an error the broker goes on with what it
has read until then, and a signal that comes during a reload is forgotten. PassedOnOnce leaves out a publication whose answer
arrives while the report thread is still sending it (`overtaken`). RoutesAsPromised leaves open the retained message that RetainedIsSent asks for (`MayMiss`).
LazyIsStarted asks for messages that keep coming, or for one that has set `lazy_reconnect`; that messages which wait are
not enough contradicts LazyStartsByQueue. ComesBack and PrimaryIsRegained exclude addresses that fail
at once for ever (the index then moves twice for each attempt); that a bridge without round_robin does not keep another
address while the main one refuses contradicts OthersAreKept.

## 4. What is proved

All theorems are for every value of the constants that the named assumptions allow; those ask only
for types and for distinct pins.

- **TrackerDemo_proofs, the driver.** `DriverInv` = types, `LimitsInForce` (the configured limits if
  accepted, else zero) and the position inside them whenever a pin has been positioned. It holds
  whatever fails, and gives ReportedInRange, StepIsBounded and EnablesWithLimits. With
  `~SysfsMayFail`, `RegistersInv` adds what the registers are at each `pc`: a duty
  cycle fits in its period; the period register of an initialised pin is at least the configured one,
  also when the kernel refused it (it does so because of a duty cycle, and hence a period, that is
  longer); and an enabled, positioned pin has the duty cycle `current` unless that is about to be
  written. Together: PulseInRange, PulseIsReported, KernelTakesPulse. Without RegistersInv none of
  the three is inductive: the danger is in the registers an earlier process left.
- **StowControl_proofs.** The debounce: `DebounceInv` ties the count to the number of
  equal samples (`run`) and says that no debounce in progress means the button equals the input;
  `StartInv` is for the first read. `VerdictInv` says of the partial verdict in the middle
  of the reads what has been on or off since the last decision. With it every step is a step of
  StowDecision or a stutter: DecisionIsJustified.
- **Messages_proofs, the irradiance.** `LockInv` (who holds the mutex where), `ArrayInv` (each element is what was measured, put through `Scaled` as many `Times` as
  corners with its input have had their turn in this round: once with inputs of their own, four times when all four share
  one, as with the shipped files) and `CopyInv` (the copied part of the message
  agrees with the array).
- **Messages_proofs, the stow message.** `WalkInv` gives the types and RefusedChangesNothing.
  FlatIsObeyed needs `FlatInv`: while a flat text is scanned, keys stand at even and values at odd
  places, and what is meant for a command `Follows` from the last pair with its key; while the
  tokens are walked, the command follows from the last such pair before `index`. LeftoversStayApart needs `ApartInv`: the object and its
  members, an even number, are the first `own` tokens, so the walk by two pairs none of them with what comes behind, and a command
  is what the members meant once the walk has passed them, unless a leftover names it.
- **TrackerDemo_proofs, the program.** That it implements ServoPwm, step by step (the lemma `ProgramUsesDriver`). `SetUp` (which pins are
  initialised and positioned at each place of main) gives ThreadsAfterStart; `Parking` (between the
  round that parked the panel and the one that finds it released, position and
  register are as they should be at each place and each `pc`) gives ParkedStaysPut. PulseInRange of the
  program then follows from the refinement and the theorem of the driver.
- **TrackerStart_proofs.** `StartIInv` = types; `FileInv`: EachSettingIsItsLast, TuningFollowsSensor,
  and all tunings 0 before the first line that sets one; `TuningStays`: the value at an input is that of the last tuning
  that was for it, and no line but such a one changes it. The step that reads a line needs that the last value of a key is that of the new line if it has the key, and
  what it was if not (`LastOfAppend`), for a file of any length.
- **Bridge_proofs.** `BridgeIInv` = types, `WillIsArmed` (a context has its will exactly while it is not disconnected),
  `SocketIsServed` (a socket that is lost does not outlive the pass of the loop), and `NoticeOfState` (the message
  says 1 while the state is connected, and only then). NoticeIsTrue alone is not inductive: whether the end of a connection
  changes the message depends on the will that was left with it.
- **Broker_proofs.** CountsAreExact is about the moments between two handlers. In the middle of one the counts are not
  exact: `mqtt3_db_messages_queue` holds a message while it passes it on, a message leaves its queue before its reference
  is given back. So the invariant is `Exact(d, held)`: the state d is as the types say (`Types`), nothing is freed that a
  queue, a topic or the handler refers to (`NothingDangles`), each reference is counted, those that the handler holds
  included (`AllCounted`), the queues of connected clients are counted (`QueuesCounted`), and an incoming message has the
  identifier and the retain flag that are in the store (`IncomingIsStored`; the reconnection and the file rely on it), and
  a topic keeps a message of its own that is to be retained and not empty (`KeptAsPublished`). There is a lemma for each
  function of database.c, each handler and each part of the restart: from Exact it comes back to Exact, with what it takes
  and gives. A loop keeps it by `PassKeeps` of Passes. `BrokerIInv` is Exact with nothing held, for the broker and for the
  state that its file has saved; every step keeps it, for any number of clients, any queues and limits. For
  KeptUntilAcknowledged each of those lemmas says besides what the function leaves of the queues: `Keeps` (a queue still
  has each message of QoS 1 or 2 it had, by direction and identifier), `KeepsAll` (all queues), `KeepsAllBut` and
  `KeepsOthers` (all but one message, all but one client). ExactRestore says that a restart gives a persistent client the
  queue that the file has, and, with KeptAsPublished, that each topic keeps again what it kept: RestartIsLastBackup.
  `MayGo` is what the property allows a step to take out of a queue; one lemma for each packet shows that nothing else
  goes.
- **Broker_proofs, the order of the queues.** MidsAreDistinct and SentInOrder relate any two messages of a queue, and a message is put at its
  end with the next identifier of its client. Neither is inductive alone. `Ordered(d)`, next to Exact, says of each queue:
  outgoing messages of QoS 1 and 2 have identifiers that rise along it and are none beyond the last one given, those of
  QoS 0 have none, incoming ones have QoS 2 and differ; and if one message may be in flight, nothing outgoing that was
  started lies behind something that waits. A client must not get one message twice by two leaves of one topic, so Ordered
  also says that it has one leaf for each. Each function of database.c that changes a queue lets its messages advance
  (`GoesOnAs`, `Advances`), takes one away, or appends one (`OrderedInsert`), and each handler, will, take-over and
  restart is made of those. How many identifiers a step gives is `Gave`: one for each client and message, and at the end of
  the broker one for each will, which is what the bound leaves room for. `OrderIInv` is Ordered of the broker and of the
  state in its file. It gives MidsAreDistinct for any limits, and SentInOrder for `MaxInflight = 1`.
- **TopicRouting_proofs.** `Grown(t)` = types, the three parts of TreeOK (`Distinct`: a path has one node, `Attached`: a node
  has its parent, `Single`: a client has one leaf at a node) and that the paths of `mqtt3_db_open` are there. A lemma for each
  function of subs.c keeps it. `_sub_add` looks down a path for its longest known part and appends what is missing (`WithPathGrown`):
  the missing paths are new because every prefix of a known path is known, and the first of them has the longest known part as its parent,
  or is one level long; where nothing is known it comes behind the last node, and there is one, as the two of the
  start are never pruned. Pruning takes out a node only with all that is below it (`PrunedGrown`), so no child loses its parent.
  What a client's leaving removes is a loop over the nodes (PassKeeps of Passes). It is assumed that topics and
  filters are strings (`TopicsAssumption`). That the tree sends what the filters promise (RoutesAsPromised) is not proved.

Assumed in some of them: `~SysfsMayFail` (PulseInRange, PulseIsReported, KernelTakesPulse,
ParkedStaysPut). When shell commands fail these are false, as the code ignores their results.

Theorems about the types, DebounceEnds, FreeMeansScaled, ThreadsAfterStart, RefusedChangesNothing, PulseIsReported,
KernelTakesPulse and EnablesWithLimits state properties that no run repeats. OneInFlightKeepsOrder assumes
`MaxInflight = 1`, as `mosquitto.conf` 49 and `man/mosquitto.conf.5.xml` 384 do ("If set to 1, this will guarantee in-order
delivery"). With three messages or more in flight SentInOrder is false: after a reconnection the first
max_inflight places of the queue are started; if two of them are of QoS 0, the count leaves room, and a new message goes
ahead of a queued one.

**Only model-checked:** all liveness properties (liveness under fairness and ENABLED are outside what
the prover's backends support), StowReport and PanelMotion, RoutesAsPromised of the topics, the broker's configuration and the session. No module uses
RECURSIVE operators. The one induction over data is that of Passes: it has the property of a loop as a constant operator, so a
proof gives it by INSTANCE. What the matching of Topics, the searches of SubTree and the folds of BrokerConfig and AccessFiles
return for data of any length is checked on instances only.

## 5. Not modelled, and the plan

Abstracted everywhere: float rounding, the wording of messages and logs, characters inside
lexemes (StowMessage, Configuration). `PROJECT.json` lists every component with its status and the reason.

Not modelled of the tracker: `DiscreteIO_init`, whose write has no effect that the program depends on;
`DiscreteIO_write`, `MQTT_loop`, `shutdownMQTT`, `trimWhiteSpace` and `getSubString`, which nothing reaches; logging.

Not modelled of the vendored library: byte streams (partial packets, TLS, PSK, websockets, SOCKS, SRV records),
plugins and certificates, `include_dir`, what a reload does to the contexts of bridges, the `$SYS` tree, the topics a bridge shares and their
remapping, mount points, and the clearing of a queue that the access rules no longer
allow at a reconnection (`read_handle_server.c` 546-575). A message that its sender may not publish, or that is too
large, is not in Broker either (`process_bad_message`, `read_handle.c` 255-282): with QoS 2 it is stored without a topic,
answered, and removed at PUBREL; TopicRouting has the refusal, without the queues. A client keeps its version of MQTT for
good (`V31`), and the clients of TopicRouting are no bridges, to which the access rules do not apply. Broker and MqttSession
take names for topics; wildcards and access rules are TopicRouting's, which has no queues.

What is left, in this order:

1. NothingIsLost and PassedOnOnce of MqttSession, from an invariant over the packets under way.
2. The queue that is cleared at a reconnection, with the counts that it leaves wrong.
3. Two bridges in a circle, with the topics they share.
