# OsmoseLinux: verification project

TLA+ models, TLC runs and TLAPS proofs for OsmoseLinux, the program that
controls reverse-osmosis water production and the refill of a reef tank on a
Raspberry Pi. Source lines are given as `file:line` below `src/OsmoseLinux/`.

The plant in one paragraph: fresh water flows through a vent and a membrane
into a tank with a bottom and a top sensor; a second vent lets the flushing
water of the membrane drain. A pump lifts tank water into the aquarium, which
has one sensor. Two housing switches override both by hand. A thread reads the
sensors and runs two state machines every half second; clients send commands
over a WebSocket at any moment, on another thread and without a lock, and their
pages show the status that the loop sends back.

## 1. Inventory

### Components

| Component | State it keeps | Operations | Source |
|---|---|---|---|
| Production cycle | `osmoseProductionLastState`, three runtimes with their starts, vent flags, two vent pins | `stateMachineOsmose`, `resetOsmoseProduction` | OsmoseAnlage.cpp:302-484 |
| Refill | `osmoseRefillState`, `osmoseRefillActiv`, one runtime with its start, mail flag, pump flag and pin | `stateMachineRefill`, `resetRefillProduction`, `setRefillPump` | OsmoseAnlage.cpp:164-300, 486-490, OsmoseAnlage.h:143-156 |
| Control loop | the status sent last (`rootOld`) | `thread_io`: sensors, production, refill, `notify`, status, sleep 500 ms | OsmoseLinux.cpp:94-179 |
| Commands | - | `command`: reset, refillOn, refillOff, writeConfig, readConfig, readStatistik | OsmoseLinux.cpp:204-307 |
| Water sensor | stable state, last sample, start second | constructor, `UpdateState` | SensorIR.cpp |
| Digital I/O | the port of each pin, its level | constructor (drives outputs low), `read`, `write` | DigiIO.cpp |
| Message bus | a queue, the receivers | `sendMessage`, `notify` | MessageBus.h |
| Statistics | two pending starts, a queue of 100 records, a file | `onNotify`, `AddStatistikToQueue`, `writeFile`, `readFile` | Statistik.cpp |
| Mail | one file, switched on or off | `onNotify`, `SendMail` | mail.cpp |
| Configuration | one JSON file | `writeConfig`, `readConfig`, `Schreiben`, `Lesen` | ConfigRegister.h, OsmoseAnlage.cpp:493-617 |
| Web page and status | what the page shows, its variable `refillAutomaticActiv` | status broadcast, `onmessage`, `doRefillAutomatic` | OsmoseLinux.cpp:94-179, 458-480, web/index.html |
| Connection of the page | the socket, its timers, number of attempts, `forcedClose` | `open`, `close`, `refresh`, the socket's events | web/jquery/reconnecting-websocket.js |
| Web servers, JSON, logging, GPIO, page libraries | third-party | - | websocket/, httpserver/, json/, spdlog/, wiringPi/, web/ |

### How they interact

- The two state machines share the pins: production drives the pump pin low in
  every state it writes outputs for, the refill closes both vents whenever it
  pumps, and it reads `osmoseProductionLastState` to know whether it may.
- They tell the statistics of starts and ends through the message bus. The bus
  is emptied once per pass, and a receiver that sends (the statistics send
  mails) is served within the same call.
- Commands write the same fields and pins from the WebSocket thread. `reset`,
  `refillOn` and `refillOff` touch states, timers and the pump; the two
  configuration commands replace settings, sensors and pin objects.
- The statistics and the settings survive a restart in two files that are
  truncated and rewritten in place. The pins of the chip keep their levels as
  well: nothing lowers them but the constructors of the next process.
- Each mail is written to one file, and a program started in the background
  reads it some time later.
- A page tells the server only what its buttons do, and is told only the status
  that differs from the one before. Neither confirms to the other.

### What is hard here

- A transition is decided by the runtimes of the *previous* pass. Stale
  runtimes (after a fault, a reset, a changed limit) can start, end or fault a
  run at the wrong time.
- A command may come between any two steps of a pass, or in the middle of one.
- A state kept while the mode changes keeps its outputs.
- Runs break off silently (fault, switch, reset, refused refill), so starts and
  ends of the statistics do not pair up by themselves.
- Seconds are whole: limits of one second, and the debounce, sit on the edge.
- The process can be killed while it writes a file, and ends by itself when a
  command lacks a field: the exception leaves the WebSocket thread.
- A connection can be lost with commands and statuses on their way; timers of
  earlier sockets outlive them in the page.

The full list, line by line, is under `hazards` in PROJECT.json, each with the
properties that would notice it going wrong or with the reason why none does.

### What makes each component correct

- Production: no water over a wet top sensor; a flush before each production
  phase; a fault stays until an operator clears it; a run ends; an empty tank
  starts one.
- Refill: no pumping into a wet aquarium, while production runs, in
  `modus_manuel` or longer than the limit, unless someone holds the switch; a
  refill ends.
- Commands: an order to stop stops the pump, whatever it collides with.
- Sensor: a level is accepted only after it has been stable, and then in time.
- Messages and statistics: each record has the start of its own run; nothing is
  lost in the queue or the file; the last mail is sent.
- Configuration: the file never mixes two settings; between commands memory,
  file and pins agree; a new process starts its loop with its outputs low.
- Connection: one at a time, and again after every outage; no timer of an
  earlier attempt cuts it.
- Page: once it has been sent a status it keeps up with the plant.

## 2. Modules

```
AnlageState <- Produktion \
            <- Refill     -- OsmoseAnlage <- MCOsmoseAnlage
Meldungen (INSTANCE) -------/     ^
    ^                             +-- OsmoseAnlageProofs
    +-- Statistik (with the mailer)

Verbindung <- ReconnectingWebSocket (INSTANCE)      StatusClients
RefillRace     SensorIR <- MCSensorIR     Konfiguration <- MCKonfiguration
```

`RefillRace`, `SensorIR`, `Konfiguration`, `Statistik`, `ReconnectingWebSocket` and
`StatusClients` have their theorems in a module of the same name with `Proofs`
appended, which extends them and which no run needs (section 4).

### AnlageState
The fields of one `OsmoseAnlage` object and the pins it drives, `Init` and the
type invariant. The code keeps the second in which a phase started and computes
`now - start`; the model keeps that difference (`...Age`). A start assigned
from `now` is age 0, a start of 0 (1970) is the largest age. Ages saturate at
`Horizon`; every limit in `Configs` is below it (`ConfigsAssumption`), so no
comparison of the code can tell.

### Produktion
One action, `stateMachineOsmose`, with the four ways through the function:
switch on, switch released, automatic, manual. `CalcState` is the else-if chain
(its conditions exclude one another, so it is a CASE), `UpdateRuntimes` the
branch that owns each timer, `SchaltenIO` the block that writes the pins.

### Refill
One action, `stateMachineRefill`, with one disjunct per early return and, as
`RefillRest`, the fall-through to `refill_error`. The branch
`REFILL UNKNOWN ERROR` cannot be reached by one thread alone and has no disjunct
here; it has one in `RefillRace`, where it can be reached.

### OsmoseAnlage
The loop (`ioPc`: sensoren, osmose, refill, notify, sleep), the clock that moves
while the loop sleeps, and the commands, each one atomic step between any two
steps of the loop. Sensors and switches may read anything at any pass.
`LoadConfig` is what both configuration commands end in: `Lesen` takes the
settings and creates the pin objects, whose constructors drive outputs low; the
setters before it (OsmoseLinux.cpp:206-247) are part of this one step, and
`Konfiguration` has them one by one. What the properties of the plant say of
commands holds at this granularity: a command between two steps of the loop. For
`refillOn`, `refillOff` and `reset`, `RefillRace` shows what is left of it when
their statements mix with those of a pass (section 5 has what is not). The
debounce is not composed in: the sensors the plant sees are already stable, and
a sensor that may change at every pass is the more general one.

### Meldungen
An abstract specification: what the plant may tell the bus. A run or a refill
begins with a message and ends with one or silently; a refill that hits its
limit is sent as the end of production, once until a reset of production.
`OsmoseAnlage` implements it through a refinement mapping
(`lauf <- productionState \in {sclean, sposmose, sosmose}` and so on), both as a
property of a run and as a theorem. `Statistik` is built on it instead of on the
whole plant, which keeps it small.

### Statistik
The receivers of the bus. Statistics: pending starts, the queue of records, the
file, and the mail sent for each record. Mail: `SendMail` writes the one file and
starts a program in the background, which reads the file at any later step
(`leser` counts the programs that have not); a second mail may overwrite the file
first. The process may be killed at any step and is restarted from the file; the
mail programs survive it. Writing a file is two steps (truncated, complete), as
is each record read back. The variables marked *history* exist in no code; the
properties compare with them.

### RefillRace
`stateMachineRefill` against `refillOn`, `refillOff` and `reset` with one step
per statement: a test of a shared field or one assignment. A thread carries the
assignments it still has to execute as a sequence. The constants `OsmoseSchalter`
and `RefillSchalter` say whether anybody uses the two housing switches: race_idle
has both in use, v_race_off leaves out the refill switch, which its finding is not
about. `gestoert` is history: a command and a call of `stateMachineRefill`
overlapped since the refill began, or as it began. A command between two calls
does not set it, although it clears the start and the runtime as well.

### SensorIR
`UpdateState` and the constructor, with a clock of `Ticks` ticks per second of
which the code sees only the seconds. `NewSensorIR` is the constructor at a
`readConfig` or `writeConfig`: it takes one raw sample as stable, so
`AcceptedAfterAgreement` is about `UpdateState` only.

### Konfiguration
The settings in four places: the request, memory, the file, the pins of the chip.
`writeConfig` is one step per setter (`SetFeld`), then truncation, the write and
`Lesen`, which deletes the objects and makes each anew (`DigiIO`). A bad field
(missing, or not convertible; a number, the mail settings or a port) throws at its
setter and ends the process (`Ausnahme`); `Kill` may come anywhere,
a write may fail. Meanwhile the loop writes any level to any output that has an
object, and to any pin at all through an object that is deleted
(`LoopWriteDeleted`: undefined behaviour, as a choice). The three outputs stand for
all objects; sensors and switches drive nothing and are left out. The settings
that are plain values are two fields, those before and those after the mail.

### Verbindung and ReconnectingWebSocket
`Verbindung` is what the page may rely on: waiting, open, closing, and the text it
shows. `ReconnectingWebSocket` is the script: each socket event and each timer is
one step of the page's event loop. The local `timeout` of an `open()` and its
`reconnectAttempt` are kept per socket, because they outlive each other. The
script implements `Verbindung` (a property of the run, by the mapping
`NetzDerSeite`).

### StatusClients
The loop of the status (flags first, then the state machines, then the state,
then the comparison with `rootOld` and the broadcast), the connections of the
server, and the page: what it shows, and the button, which shows the new value
before the server has it. The status has one field of each kind: the flag that
commands write, a flag of the pass before, and the state. Connections open, break
with everything on its way, and are noticed as broken later; the page is loaded
again; the server restarts. Its connection is that of `Verbindung`, except that
the closing state is not told apart from a dead open one: what the page sends is
lost in both. The same is lost while the page closes an attempt that failed
(`wartet`); where `send` throws instead, nothing changes and there is no step.

## 3. Runs

| Run | Instance | Question |
|---|---|---|
| anlage_auto | one automatic setting (refill 2 s, run 5 s, flush 2 s, cycle 2 s), clock 0-1 s per pass, ages to 5 | interlocks, watchdog, cycle order |
| anlage_wechsel | settings change between automatic (refill 1 s) and manual, run 2 s, ages to 3 | does a change of mode end every automatic refill? does the plant implement Meldungen? |
| anlage_liveness | automatic, all limits 2 s, fair | do refills and runs end, what may hold up a flush, does an empty tank start a run, and not a fault? |
| race_idle | three commands, limit 2 s, both switches used | what a collision of two threads cannot break |
| sensor | 10 ticks per second, debounce 2 s, pauses of 0.5-1.2 s | how early and how late may a level be accepted? |
| statistik | queue of 2, three seconds, 2 mail programs | records, restarts and mails |
| konfig | two settings, four ports, failing writes, exceptions, kills | do memory, file and pins stay in step? |
| web | three sockets, plateau 2, a server that comes and goes | one connection, and again; does the script implement Verbindung? |
| status | one page and commands of others, 2 statuses and 2 commands under way | does a page keep up with the plant? does an idle plant fall silent? |
| v_overfilling, v_zyklus_eins | as anlage_wechsel; as anlage_liveness with a cycle of 1 s | two disagreements with documents, see section 5 |
| v_race_off | three commands, limit 2 s, only the production switch used | may a pass undo `refillOff` for good? |

anlage_auto visits 4.8 million states, anlage_wechsel 3.1, statistik 1.2; the
others finish in seconds, anlage_liveness in about two minutes.

The interlocks of anlage_auto hold for every set of settings and every change of
them (section 4), so anlage_wechsel does not check them again. The type invariants
of RefillRace, SensorIR, ReconnectingWebSocket and StatusClients are proved; no run
lists them.

What the properties say is in the comment above each. The ones worth an argument:

- `RefillWatchdog`: the pump of a refill runs at most two clock steps beyond its
  limit. The limit is compared with the runtime of the previous pass, hence
  two and not one, also when clients reload, reset or switch between two steps of
  the loop; a reload is one step with its setters.
- `NoPumpingWhileProducing` holds at the end of a pass only: between the two
  state machines, and between a command and the next pass, the pins overlap.
- `StartsWhenEmpty` is about the runtimes that `sidle` must have cleared. A stale
  `osmoseRuntime` at its limit makes an idle plant with an empty tank fault at once
  (OsmoseAnlage.cpp:397), without a run; a plant that waits is its first part, one
  that faults its second. The switch leaves exactly such runtimes (section 5), so
  the second part is about a plant whose production switch is left alone from some
  time on: `<>[]` then allows the one fault it may have left, and no later one,
  whatever runs, resets, reloads and sensors follow.
- `FileIsWhole` is about where a setting comes from. The type invariant allows any
  combination of fields in the file; this says that all are of one request.
- `FlushProceeds` says what a flush may be held up by: a wet bottom sensor, and
  nothing else that lasts (see section 5 for the exception).
- `NoHiddenFlow` relates pins to the flags the status sends, in both modes. The
  converse does not hold: the flag `refillPump` may stay up over a low pin.
- `StartsLow` is the only defence against levels a dead process has left: it
  holds because all objects are made before `thread_io` starts.
- `TimeoutSparesOpen` and `OneConnection` hold although the script fails to clear
  timers: a timer closes its own socket only, and only `onclose` plans an attempt.

Some properties name an exception, each a history variable or a condition set in
exactly one place:

| Property | Exception | What it is |
|---|---|---|
| `OsmoseRecordsTrue` | `limit` | a refill hit its limit in this pass and is recorded as a run |
| `NothingForgotten` | `abgebrochen` | killed while writing or reading back the file, which is truncated first |
| `LastMailSent` | `mailVerloren` | killed between writing the mail and starting the program for it |
| `MemoryIsFile`, `PortsAreOutputs`, `FileSurvives` | `verdorben` | the last write of the file failed or was cut off |
| `ErrorMeansTimeout` | `gestoert` | a command overlapped with a call of `stateMachineRefill` since the refill began |
| `LastStatusReaches`, `PageFollows` | `geklickt` | the page's own button was used since the last status |
| `LastStatusReaches`, `PageFollows` | `dabei` | the connection has carried a status |
| `StartsWhenEmpty` (second part) | `Schalterruhe` | the production switch is used for ever, and leaves its runtimes each time |
| `OneConnection`, `ConnectsAgain` | `forcedClose` | the page called `close()` |

### Bounds

- Limits of a few seconds stand for minutes: the code compares a runtime with a
  limit and with nothing else, so three seconds show before, at and after it. A
  run of 5 s in anlage_auto has time for a flush, a cycle and a second flush
  (`srclean`); `FlushBeforeOsmose` would not see the second one otherwise.
- A change of the refill limit while a refill runs multiplies the states beyond
  what a run can do; `WatchdogHolds` covers it for every set of settings.
- `MaxStep = 1`: a pass sleeps 500 ms, so its clock reads the same second or the
  next one. The proofs hold for every `MaxStep`, with the overrun of
  `RefillWatchdog` growing with it.
- `maxSizeStatistikQueue = 2` is full after two records; `MaxZeit = 3` gives
  runs different starts; the file is read back while the queue fills up. From
  `MaxZeit` on nothing begins or ends, which also bounds the number of records.
  `MaxLeser = 2`: two mail programs are enough for one to read the text of the
  other; with two waiting, no third mail is sent in the model.
- `Ports` has four pins for three outputs, so that an output can move to a free
  pin; the two settings move the pump and swap the vents. No number of settings
  makes more of a difference to the file than old and new.
- `Sockets = {1, 2, 3}`: the socket in use and two earlier ones whose timers are
  pending; a name is used again once its timer has fired. `Plateau` is the number
  of attempts after which the delay no longer grows.
- `MaxPost` and `MaxKommandos` bound what is on its way to and from a page: the
  loop waits when a queue is full. Two statuses in a row are what an order can go
  wrong in. Other pages are the action `CommandOfOther`: pages do not read one
  another, only `osmoseRefillActiv`.
- The pauses of the sensor run are half a second and longer, up to a pass that
  skips a whole second.

### Fairness

- The plant: `WF(ThreadIo)`, as the loop never blocks and sleeps for a fixed time;
  `SF(Sleep with a step > 0)`, as with 500 ms of sleep per pass the wall clock
  cannot show the same second for ever. Nothing is assumed of sensors, switches or
  clients: they may do, or repeat, anything.
- StatusClients: weak fairness of the steps of the loop, of the command thread and
  of delivery on a connection that is up. Nothing makes a connection open or stay.
- ReconnectingWebSocket: weak fairness of timers and close events, as the browser
  delivers them; strong fairness of `OnOpen`, as a reachable server answers some
  attempt within the timeout, although each attempt may be cut off before.

### Fault variants

An operator with the comment `Fault:` stands before some definitions, with the
same parameters: the definition as a plausible bug would have it (a dropped
guard, an off-by-one, a missing reset). Nothing uses them in the specifications.
Replacing the original by the variant makes the property named under `mutants`
fail under its own run, so each property is known to notice something.

## 4. Proofs

Seven modules prove what the system promises, for every value of the constants
that the named assumptions of each module allow. Every safety property and every
action property that a passing run checks is the statement of a theorem, and both
refinements are; what the runs show on small instances holds for all of them.

| Module | Theorem | Property | Strengthening |
|---|---|---|---|
| `OsmoseAnlageProofs` | `TypeCorrect` | `TypeOK` | inductive as it stands |
| | `PumpInterlocked` | `RefillInterlock` | `PumpInv` |
| | `PumpIdleWhileProducing` | `NoPumpingWhileProducing` | `PumpInv` |
| | `AquariumNotOverfilled` | `AquaSensorStopsPump` | `PumpInv` |
| | `ManuellStops` | `ManuellStopsPump` | `PumpInv` |
| | `WatchdogHolds` | `RefillWatchdog` | `WatchdogInv` |
| | `TankNotOverfilled` | `TopSensorStopsWater` | `WaterInv` |
| | `FlowShown` | `NoHiddenFlow` | `WaterInv`, `PumpInv` |
| | `DrainNeedsSupply` | `CleanNeedsFresh` | `WaterInv` |
| | `FaultIsLatched` | `FaultStays` | type invariant |
| | `FlushedFirst` | `FlushBeforeOsmose` | `FlushInv` |
| | `MeldungenImplemented` | `MeldetWieSpezifiziert` | type invariant |
| `RefillRaceProofs` | `RaceTypeCorrect` | `TypeOK` | `CodeInv` |
| | `IdlePassStopsPump` | `PumpOffAfterIdlePass` | `RuheInv` |
| | `FaultIsTimeout` | `ErrorMeansTimeout`, limits other than 1 | `LaufzeitInv` |
| `StatistikProofs` | `StatistikTypeCorrect` | `StatistikTypeOK` | `BusInv` |
| | `NothingIsForgotten` | `NothingForgotten` | `ArchivInv` |
| | `RecordsAreMailed` | `EveryRecordMailed` | `BusInv` |
| | `LastMailArrives` | `LastMailSent` | `MailInv` |
| | `RefillsRecordedTrue` | `RefillRecordsTrue` | `BusInv`, `RefillInv` |
| | `RunsRecordedTrue` | `OsmoseRecordsTrue` | `BusInv`, `LaufInv` |
| `KonfigurationProofs` | `KonfigTypeCorrect` | `KonfigTypeOK` | `ProzessInv` |
| | `FileNeverMixes` | `FileIsWhole` | `BefehlInv` (memory is the request at the write) |
| | `RestartChangesNothing` | `MemoryIsFile` | `BefehlInv`, `LesenInv` |
| | `SettingsSurvive` | `FileSurvives` | `DateiInv` |
| | `OutputsReady` | `PortsAreOutputs` | `LesenInv` |
| | `LoopStartsLow` | `StartsLow` | `LesenInv` |
| `SensorIRProofs` | `SensorTypeCorrect` | `TypeOK` | inductive as it stands |
| | `SensorAcceptsInTime` | `AcceptedInTime` | `AlterInv` |
| | `SensorAcceptsAfterAgreement` | `AcceptedAfterAgreement` | `AlterInv` |
| `ReconnectingWebSocketProofs` | `SocketTypeCorrect` | `SocketTypeOK` | `AktuellInv` |
| | `OnlyOneConnection` | `OneConnection` | `AktuellInv` |
| | `DelayIsReset` | `ConnectedResetsDelay` | `OffenInv` |
| | `TimeoutsAreHarmless` | `TimeoutSparesOpen` | `OffenInv` |
| | `SocketImplementsVerbindung` | `VerbindetWieSpezifiziert` | `AktuellInv`, `AnzeigeInv` |
| `StatusClientsProofs` | `StatusTypeCorrect` | `StatusTypeOK` | `LeitungInv` |
| | `NoStatusIsMissed` | `LastStatusReaches` | `AnkunftInv` |

The inductive invariant of each of the six newer modules is a theorem of its own
(`RaceInvariant`, `StatistikInvariant`, `KonfigInvariant`, `SensorInvariant`,
`SocketInvariant`, `StatusInvariant`). Each of them was checked by TLC on the
instance of the module's run before it was proved.

### From which assumptions

| Module | Assumption | What it says, and why |
|---|---|---|
| OsmoseAnlage | `ConfigsAssumption`, `ClockAssumption` | limits are numbers of seconds below the horizon of the model |
| RefillRace | `RaceAssumption` | any limit from 0 on below the horizon, any subset of the three commands, each switch in use or not |
| Statistik | `StatistikAssumption` | the bounds are positive |
| Konfiguration | `KonfigAssumption` | the settings have the fields of the code; two outputs may share a port |
| SensorIR | `SensorAssumption` | a pass takes time, a second has a tick; any debounce time below the horizon |
| ReconnectingWebSocket | `SocketAssumption` | there is a socket, and 0 (no socket) is none |
| StatusClients | `StatusAssumption` | a connection carries at least one message each way |

### The arguments

OsmoseAnlage:

- `PumpInv`. None of the pump properties is inductive: they hold at the end of a
  pass only because of where the pump can be high in the middle of one. After
  production has run, a high pump belongs to the refill switch or to a held
  production switch, as every other state drives it low. After the refill has
  run, it belongs to the refill switch or to a branch that found the sensor dry,
  the mode automatic and production in `sidle`, and that closed the vents.
- `WatchdogInv` relates three clocks: the age of the refill, its runtime, which
  lags behind by at most one step, and the limit in force when it was last
  tested. That the limit may change under a running refill is harmless only
  because a reload also drives the pump low; the conjunct is therefore about
  `IOpumpRefill`, not the state alone.
- `WaterInv` adds that the flags show what the state will open. Only then is
  `NoHiddenFlow` kept in `modus_manuel`, where pins are written and flags not.
  Its part about the pump is a conjunct of `PumpInv`.
- `FlushInv`: the runtime never runs ahead of the true age, except for the value
  1 that marks the first pass.
- `MeldungenImplemented` maps each step to a step of `Meldungen` or to a
  stutter: one lemma for production, one for the refill, and the commands.

RefillRace:

- `CodeInv`: what the IO thread has left to execute is one of the end pieces of its
  branches (`IoCodes`); the lemma `Pieces` tells, for each, the statement it
  executes and the piece that remains. What a command has left is one of the end
  pieces of the three commands (`WsCodes`): statements that stop a refill, none
  that starts one.
- `RuheInv`: after an idle pass with the refill off and no command running, the IO
  thread is at a test that cannot lead to pumping or in a piece of the refill
  switch. The pieces have to be named, because between their two statements the
  pump and the state disagree.
- `LaufzeitInv`: while commands run only between the calls, the shared runtime
  and start are those of the refill that was started, also between the statements
  that set them. A command breaks this when it clears the start, and repairs it
  with its last statement, which switches the refill off; `WsCodes` says that this
  one is all that is left, so no call begins in between. It says
  nothing for a limit of 1, where the theorem would be false (section 5); TLC
  checked the invariant with limits of 0, 1, 2 and 3.

Statistik:

- `BusInv`: at most one message of each state machine, and the mails that come
  after them, so that the queue has at most two; `offen` counts the mails in it.
- `LaufInv`, `RefillInv`: the start of a run is recorded or its message is under
  way, and the end of a run is taken from the queue before the next start.
- `ArchivInv`: the queue, or the queue followed by what is still to be read from
  the file, is the newest records. It needs that both together fit the limit:
  only then does no `Push` of a restart drop a record.
- `MailInv`: a text that was not sent is still in the file, and a program waits.

Konfiguration:

- `BefehlInv` says what memory has of the request at each setter, all of it at the
  write; `LesenInv` what it has of the file at each object, in the order `Lesen`
  makes them. A setting is the tuple of its fields (`EinstellungExtensional`), so
  that the last object makes memory equal to the file.
- `LoopStartsLow` needs that the objects a process has made are low until its loop
  runs. That is kept although two outputs may share a port: making the second
  drives the shared pin low once more.

SensorIR:

- `AlterInv` relates the ticks for which a level has agreed to the whole seconds
  the code counts and the tick within the second, to less than one second. Where
  the age saturates at `Horizon` only a lower bound remains, and is enough.

ReconnectingWebSocket:

- `AktuellInv`: only `ws` is in use, and without it a reconnect timer is pending.
  `OneConnection` counts sockets; the count follows from this disjunction.
- `OffenInv`: an open socket has had its own timeout cleared, and a timer closes
  its own socket only: this is why the timers the script forgets are harmless.
- `SocketImplementsVerbindung` needs `AnzeigeInv`, as the close event changes the
  text only for the first attempt: a retry must have started from "Disconnect".

StatusClients:

- `AnkunftInv`: the last status on a connection, or what the page shows when none
  is under way, is `rootOld`, except between the comparison and the sending.
  `LeitungInv` adds that a lost connection carries nothing.

### What only TLC checks

- Liveness under fairness (`RefillEnds`, `ProductionEnds`, `FlushProceeds`,
  `StartsWhenEmpty`, `PageFollows`, `StatusRuht`, `ConnectsAgain`) needs `ENABLED`
  and is beyond the prover.
- The three runs that expect a violation are counterexamples; nothing is to be
  proved about them.

## 5. Disagreements with the documents

Each of these has a run in which TLC shows the behaviour.

- **v_overfilling.** README.md promises safety logic against overfilling. A run
  that a client switches to `modus_manuel` keeps its vents open over a wet top
  sensor: OsmoseAnlage.cpp:459 writes the outputs of the last state again.
- **v_zyklus_eins.** With `osmoseRuntimeToClean = 1`, which the page accepts,
  the value 1 that marks the first pass of `sposmose` has already reached the
  limit; `sosmose` is never entered, and only there does the run's time count.
- **v_race_off.** In the trace nobody uses the refill switch. A pass has tested
  `osmoseRefillActiv` (OsmoseAnlage.cpp:194) and is starting a refill (227-246)
  when `refillOff` clears the flag and drives the pump low; the pass then turns
  the pump on (245), and `refillOff` resets the state. `PumpOffAfterIdlePass` shows
  that an idle plant repairs this with the next pass; while the production switch
  is held nothing does, as `stateMachineOsmose` then leaves the pump's pin alone.
  The comment in `refillOff` says that the pump is always switched off there, lest
  it fill for ever. The branch of the refill switch (182-185) can collide in the
  same way when somebody uses it; the run leaves it out.

Seen while modelling, without a run of their own, as no document settles what the
code ought to do:

- A command that clears `refillStartTime` after a pass has found `refill_on` and
  before it computes `now - refillStartTime` (OsmoseAnlage.cpp:252) makes the
  runtime the seconds since 1970. The next pass faults the refill in the branch
  introduced as "REFILL HAT LAUFZEIT ÜBERSCHRITTEN" (257), with its limit not yet
  reached. `ErrorMeansTimeout` shows that only such an overlap can do this.
- In `spclean` a wet bottom sensor keeps the state, and its branch restarts both
  timers at every pass: the flush does not end while the sensor is wet.
- A refill that hits its limit is sent as `setEndProductionOsmose`, though the log
  line at OsmoseAnlage.cpp:273 says refill; it is recorded as a run.
- The production switch leaves `smanual` for `sidle` without clearing a runtime
  (OsmoseAnlage.cpp:315-329). Used during a run that has just reached its limit, or
  on a plant in `serror`, it leaves an idle plant whose next pass, with the tank
  empty, faults at once (397): no run starts until a reset. With a full tank the
  next pass clears the runtimes. This is the exception of `StartsWhenEmpty`.
- A `readConfig` or `writeConfig` makes the sensors anew (560-580), each of which
  takes the one level it reads as stable: a wave at that moment is not debounced.
- A refill limit of 1 s is reached by the value 1 that marks the first pass
  (OsmoseAnlage.cpp:196, 230): the second pass faults the refill half a second
  after it began. The proof of `FaultIsTimeout` needs a limit other than 1.
- OsmoseAnlage.cpp:275 says the mail flag is lowered by a reset; the reset of a
  refill fault (486) leaves it up, only that of a production fault (482) does.
- SensorIR.h:29 says how long the signal must be stable. With whole seconds it
  may be up to a second less; `AcceptedAfterAgreement` states what remains.
- A refill fault is not latched: production that leaves `sidle` clears it (289).
- The flag `refillPump` stays up when the aquarium sensor gets wet in the pass in
  which the limit is reached (297): the page shows a pump that stands.
- `setPort` moves an output while the old pin keeps its level. No object drives
  that pin any more, also after the file was read back; the comment at
  OsmoseLinux.cpp:258, before the objects are made anew, is to switch all off.
- A page sends null for an empty number. The setter throws, nothing catches it on
  the WebSocket thread, and the process ends with the pins as they are.
- Two mails of one pass overwrite one another's file: one text may be sent twice
  and the other never.
- A page that connects is sent nothing until the status changes, although the
  comment at OsmoseLinux.cpp:117 keeps the status in order to send it then; a
  plant at rest leaves the page empty.
- The button of a page stays wrong when its command was lost on a dead connection,
  or when another page's command within the same pass restored the old value: the
  status does not change, so nothing is sent.
- A restart sets `osmoseRefillActiv` again, whatever the pages show and whoever
  had switched it off.
- reconnecting-websocket.js:269 declares `timeout` again, so the timer of an
  attempt that closed is not cleared; it fires without effect. `close()` with a
  reconnect timer pending does not stop that timer: the page connects again.

## 6. Not modelled, and why

- Third-party code: web servers, JSON, logging, GPIO, and the libraries of the web
  page (jQuery, jqplot, Bootstrap, moment, popper), which are most of the
  repository's JavaScript. They are vendored, hold no state of the plant, and
  nothing the plant or its pages decide passes through them; of the JavaScript
  only index.html's own script and the reconnecting connection take part in the
  system, and both are modelled.
- The setup form of the page (`SetupToJson` and the fields it fills) and the
  statistics chart: one read and one display each, without a state of their own.
- `readStatistik`, which copies the `std::queue` on the other thread: a data race
  whose outcome has no bounds to enumerate.
- Console output and logging. The HTTP server sends static files. The classes
  `SensorListe` and `OsmoseParameter` are empty.
- A wall clock that jumps: with steps no limit of the code holds, and the code has
  no defence whose effect could be checked.
- Negative settings and an `osmoseModus` outside its enumeration: the page sends
  none.
- The mailer switched off (`activmailer`), in which `SendMail` does nothing.

## 7. Plan

Done: the plant with Meldungen, Statistik with the mailer, RefillRace, SensorIR,
Konfiguration, ReconnectingWebSocket with Verbindung, StatusClients, each with the
proofs of all its safety properties. What remains:

1. That an undisturbed pass of RefillRace implements stateMachineRefill of module
   Refill: the statements of a pass, taken together, are its one step.
2. The safety part of `PageFollows` as an invariant: what a page shows at rest is
   the plant, without the fairness that brings it there.
