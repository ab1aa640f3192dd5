# A formal model of frisquet-bridge

TLA+ models of the bridge between a Frisquet boiler and Home Assistant, checked with TLC and, for every value of the
constants, proved with TLAPS. Paths below are relative to the repository; `frisquet_bridge/` is `src/frisquet_bridge/`.
`PROJECT.json` maps each definition to the lines it models, and lists the runs, mutants, hazards, findings and theorems.

## The system

The bridge is one asyncio process and a radio modem on a USB serial line.

| Part | State | Operations | Talks to |
|---|---|---|---|
| Modem (`firmware/src/main.cpp`) | mode, the radio's sync word | `NID`, `TX`, `LISTEN`, `SLEEP`, `PING`; pushes received frames | host, over serial lines with a sequence number and a CRC |
| Serial transport (`transport/serial.py`) | the pending command, next sequence number, subscribers, reader failure | one command at a time, dispatch of received frames | modem; clients (calls), mirror and requests (queues) |
| RF client (`connect/client.py`, `connect/state.py`), one per role | request id, shared request lock | `request` (attempts, bursts, reply window), `send_oneway` (repeats) | transport; state file |
| Boiler operations (`connect/ops.py`) | none; writes `BoilerData` and RF health | reads, consignes, outside temperature, zone and DHW writes | client |
| Poll loop and outside temperature (`scheduler.py`) | due times, last attempt, a lock | polls; writes an outside temperature at once, later, or again | operations; callers in two other tasks |
| Virtual satellite (`satellite.py`), one per zone | wake event | sends the zone's consigne every ten minutes, after a minute if it failed, at once when woken | operations; woken by MQTT commands |
| Passive mirror (`emulation.py`) | reads overheard and unanswered | learns from others' frames | `BoilerData`, state file |
| MQTT adapter (`mqtt/adapter.py`) | what was published, pending DHW mode, Home Assistant's status | commands, state, discovery, flow fallback | satellites, scheduler, operations |
| State store (`state_store.py`) | `config.state.json` | saves request ids and zones, loads them at start | disk |
| Configuration and pairing (`config.py`, `cli/pair.py`, `cli/recover_id.py`) | the TOML file | `load` with its checks, `save` in place, `set_identity`; the commands load, wait for the boiler, save | user; state file; read by the service when it starts |
| Service (`service.py`) | the tasks | starts all of the above, stops when one fails; systemd restarts it | |

The pure parts are the climate and profile rules (`climate.py`, `boiler_profile.py`) and the codecs.

What makes it hard: several tasks share a half-duplex radio that loses, delays and repeats frames; answers are matched by a
one-byte id that wraps; a modem command may time out and be carried out all the same; values change while they are being
sent; writes are rate limited, retried and superseded, and some are never acknowledged; several tasks publish the same state;
the process, the modem, Home Assistant and the commands that edit the configuration stop and start independently. The
properties that make each part correct are those of the table under "Runs".

## Modules

| Module | Models | Composes with |
|---|---|---|
| `RollingId` | the request ids and sequence numbers: counters of any width | the three modules that draw ids |
| `RfExchange` | clients, the lock, the reply queue, the radio, id persistence, restarts | `RollingId` |
| `ModemLink` | `SerialTransport._command` and the reader, the wire, the firmware | `RollingId` |
| `TunedLink` | the commands of the clients' calls on the link, from `listen()` on | `ModemLink`, whose steps its steps are |
| `CommandOrder` | abstract: a device set over a connection that loses commands and answers | implemented by `ModemLink` |
| `LatestValue` | abstract: a sender of values that supersede each other | implemented by the next two |
| `VirtualSatellite` | a satellite runner, MQTT commands, stop and restart | `LatestValue` |
| `OutsideTemperature` | the outside-temperature side of `PollScheduler`, its callers, time | `LatestValue` |
| `PassiveMirror` | overhearing a real Connect's reads, the radio's tuning | `RollingId` |
| `FlowFallback` | zone 1 in flow_temp mode: Home Assistant's status and commands, the fallback, the curve, the saved target | |
| `ZoneModel` | the zone record; the climate rules, the simple profile, zone frames and consignes as operators on it | |
| `ZoneControl` | one zone under Home Assistant, its satellite and user, a real Connect, the boiler's block, the state file | `ZoneModel` |
| `Configuration` | the configuration file, what loading accepts, pairing and recovery | |
| `MqttAdapter` | discovery and retirement of entities over restarts, state publication by two tasks, the DHW mode | `Configuration`, whose file it starts from |
| `*_proofs` | theorems | |
| `MC*` | what TLC needs: model values, the instance's functions | |

How they correspond to the code:

**RfExchange.** One action per stretch of code between two awaits: `Begin` is the call, `Acquire` the entry of
`async with self._lock` (first come, first served, as `asyncio.Lock` is), `Tuned` and `TuneFailed` the end of
`set_network_id`, `Sent`, `SendFailed` (`TransportError`) and `PortFails` (any other exception, which ends the call) that of `transport.send`, `TakeFrame` and `Timeout` the two ends of the wait in
`_await_match`, `GapOver` the sleep of `send_oneway`. `FailAttempt` is the loop's next iteration or its end. An id is an index
0..IdCount-1: `(r + 4) & 0xFF` keeps `r % 4`, so a byte has 64 of them (`MCRfExchange` checks that arithmetic over all
256 bytes). `tag` and `drawn` are history variables that number attempts without wrapping; no guard reads them, except
that `DrawId` drops frames as old as IdCount draws from the air: no answer comes 64 requests late. `SentUnreported`
is a frame that went out though `send` will raise. `saved' \in {saved, ...}` is the save that may fail, which is
only logged; a restart after it reuses ids, and `rewound` marks the clients for which the properties on ids do not hold
across such a restart.

**ModemLink.** `Issue`, `Write`, `Written`, `Return`, `TimeOut` are `_command`; `HandleReply` is `_resolve_pending`; `Dispatch`
and `Reject` are `dispatchLine`. The write runs in an executor, so a reply can be handled before the task waits for it.
`Reject` also stands for lines garbled on their way, whose error may name any sequence number. A garbled reply is modelled
as one that matches no pattern (`HandleGarbage`): `OK` and `PONG` lines have no CRC, and that no digit of one changes into
another valid sequence number is an assumption. So is that no line is under way when its number returns, 2^32 commands later.
`Ordered` reads the link as `CommandOrder`: the commands owed are the lines on the wire and the one being written, and `asked`,
the replies and the sequence numbers are hidden.

**TunedLink.** A call takes the request lock and issues `NID` (`Tune`), then frames (`Send`), each after the former command ended:
`Succeeds`, `Fails` (`TransportError`, which ends a call that is not tuned yet but not one that has attempts left) and `PortFails`
(`SerialException`, which no call handles) are the three ways. Every action but `Leave` contains an action of `ModemLink`. Attempts,
ids and answers are `RfExchange`'s. `epoch` and `sender` are history: the resets that came before the call tuned, and whose each command is.

**VirtualSatellite.** `Round` is the code from `_wake.clear()` to the first await: nothing can come between clearing the event
and reading the zone. `SendDone` and `Notified` are the two awaits after it, `Wake` the end of `wait_for`. A zone's values are a
version number that each change steps; `Incomplete` is a zone that lacks a value. Where a consigne is accepted, `RfExchange` is
the reason `Accepted` requires that the boiler heard this very request.

**OutsideTemperature.** `Set` and `LoopAsks` queue for the scheduler's lock; `Deferred`, `SetterSends`, `NotDue` and `LoopSends` are
the branches taken once it is held, up to the await of the write; `SendDone` is the rest. Time is in minutes, kept as the time since
the last attempt (up to `MinChange`, the most any comparison asks) and the time left until the next is due. In flow_temp
mode `MinChange` is 0 and the persisted target is there at start, hence the two values of `desired` in `Init` and `Restart`.

**PassiveMirror.** `Ask` and `Answer` are the frames of a real Connect and the boiler, each overheard or not; hearing them is
`PassiveMirror.handle`. The mirror's queue is first in, first out and only the mirror reads `_pending_reads`, so frames are
handled as they come. `age` counts reads since the one overheard (history, up to IdCount). A block decodes as another if it is
long enough, which is all the decoders check. `Tune` is `set_network_id`, which only a bridge that transmits calls.

**FlowFallback.** `inbox` is the queue of the MQTT task: `Handle` takes a message and runs `handle_message` up to the await of the
outside-temperature writer, during which the task takes no other (`Free`). `CheckFallback` is `check_fallback` in the diagnostics
task, to the same await. Both put the target in the zone before they wait for the scheduler's lock: `line` is who waits for it,
`asked` what each will set, `Grant` the code from entering the lock to the write, `Written` its end. The two senders appear by what
their own modules show: `Reports` is a consigne that reads the demand, `LoopAsks` the poll loop at some due time. Flows and
temperatures are tenths of a degree, as the sonde sends them; `Outdoor` is the division, the rounding (ties may differ) and
the sonde's limits together. The service starts with the unrounded value, which the sonde rounds. `Later` counts minutes to
`Patience`, the most any comparison asks. Commands come from Home Assistant alone, and only while it is there. The
configuration stays the same across a restart.

**ZoneModel, ZoneControl.** Temperatures are steps of two degrees, what a boost adds; `MaxCode` is where a frame's byte ends. The
schedule is left out: it is data nothing else depends on. `WriteCommand`, `Send` and `WriteDone` are `write_zone_short`: the zone
is resolved before the burst (`write.old`) and set after it, with `Overhear` and `ReadInfo` free to change it in between.
`Overhear`, `ConnectWrites`, `SatelliteConsigne` and `ReadInfo` are what the mirror or a read decodes of the zone; `Catch`, `Fade` and
`ReportLost` are the radio. `Save` is the read, change and replace of the state file, each of whose halves may fail: a file that
cannot be read counts as empty, one that cannot be written stays. `SendSimple` is what the simple profile does to the zone as it sends its
consigne. `SatelliteConsigne` is the satellite's check-in, heard or not: one of the bounded moves while there are any, free afterwards.
History variables: `basis`, what the settings of a satellite's zone rest on: its last report, a write that no report was heard of, a write put over
a report of something else that was heard during its burst, or nothing certain, as a report was missed or the bridge has
just started; reads of the boiler's block and frames that fade change nothing of it. `lost`, the parts of the file a
fault cost; `drawn`, that an id has been saved; `heard`, the last report during a burst; `of`, the settings behind a consigne.
No guard or update of the modelled state reads them.

**Configuration.** A document is what the file says of the Connect, the sonde and the zones, as far as `load` or the service
decides by it. `Loads` is the checks of `load`, `Saved` the document `save` writes, `CutShort` what an interrupted `save` leaves:
it truncates the file first and writes table after table, so what is there is a prefix of the tables, the last of which may lack
fields, or have a maximum flow that lost digits. `meant` is history, the document last written. `CliStarts`, `BroadcastHeard`
and `CliSaves` are `pair` and `recover-id`: load, set the identity, save the document loaded, over any edit of the user's in between. They use the serial port, so
they run without the service. `UserEdits` is external.

**MqttAdapter.** `plan` is what the message task still has to do, one step per await: `Discover`, `PublishDevice`, `Noted` are
`publish_discovery`, `HandleLegacy` to `ClearLegacy` the migration of old configs. `phase` and `snap` are each task's place in
`publish_state` under `_publish_lock`; "diagnostics" stands for all the tasks that are not the message task. One retained topic,
the DHW mode, stands for all: each is compared, published and recorded by itself, and that one also has the pending value.
`Subscribe` delivers what the broker retains, the device's own config and old configs in any order. `Commands`, `HomeGoes` and
`HomeReturns` are Home Assistant. `forgotten` is history. The service reads the configuration at start only, so an
edit made while it runs is the same as one made before the next start, where the model has it (`Configure`).

## Runs

| Run | Bounds | Shows |
|---|---|---|
| `rf_exchange` | 2 clients, 3 ids, 2 calls of up to 2 attempts or 2 frames, 1 restart, 1 frame queued | `ExclusiveExchange`: nobody transmits inside another's exchange. `AnswersOwnAttempt`: success or "address not found" only on an answer to the call's last attempt. `IdsTellAttemptsApart`: same id, same attempt. `NobodyStranded`: who waits is in the line, and whoever has the lock will release it. `EveryStepCounts`: a call's steps lead to its end. `EveryCallEnds` |
| `modem_link` | 2 networks, 3 sequence numbers, 3 commands, 1 reset | `SuccessMeansExecuted`: a command in flight succeeds only once the modem did that one. `RadioAsAsked`: no command that timed out takes effect later. `KeepsOrder`: it implements `CommandOrder`, liveness included: every command ends |
| `tuned_link` | 2 clients with a network each, 3 sequence numbers, 5 commands, 1 reset | `ExchangeOnItsNetwork`: a call's frames, and its wait for an answer, are on its network unless the modem was reset since it tuned. `NobodyElseTransmits`: no frame given up earlier goes out inside another's exchange |
| `virtual_satellite` | 4 changes, 2 stops | `NoLostChange`: asleep with no wake pending, the latest values were sent. `KeepsBoilerCurrent`: it implements `LatestValue`, liveness included |
| `outside_temperature` | intervals 4, 1 and 2 minutes, 2 callers, 4 temperatures, 1 restart | `RateLimited`, `KeptChangeScheduled`, `KeepsBoilerCurrent` |
| `passive_mirror` | 2 blocks, 3 ids, 1 modem reset, 1 restart | `MisreadsOnlyAfterACycle`, `BlocksKeepComing` |
| `flow_fallback` | slope 0.7, 20 to 65 degrees, a target beyond the range, patience 2 minutes, 3 messages, 1 stop | `LastWriteGivesTarget`: whatever overlaps, the outdoor temperature written last gives the zone's target. `NotBeforeItsTime`. `HeatsWhileAway`: if Home Assistant stays away, the boiler ends up heating at the fallback flow |
| `zone_control` | 3 settings (programme, boosted, derogation with other temperatures), target 7 of at most 7 steps, bursts of 2, 3 commands, changes, faults or stops | `ComfortIsSet`: no boost is left behind in the comfort temperature. `CommandShown`: an accepted command ends with what it asked for shown, in every state reached. `SentMeansSame`: a frame means to its reader what the writer recorded. `ReportKept`: the temperatures and boost of the last report heard stay the zone's until a write takes their place, whatever bursts, consignes and reads of the block there are in between. `FileKept`: neither owner's save drops the other's part. `ModeSettles`: when nothing changes any more, the bridge ends up with the satellite's mode and derogation |
| `mqtt_adapter` | 2 zones, 3 documents and the default one, 1 entity with an old config, 2 DHW modes, 3 commands, edits or restarts, 2 messages waiting | `RecordIsShown`: what is taken for published is what the broker retains. `NothingForgotten`: once idle, Home Assistant has the configuration's entities and no former ones. `RunsAsMeant`: a configuration that loads is what was meant up to some table, and empty after it, wherever a save was cut short. `PairedFileLoads`: what pairing saves loads again. `DhwSettles` |
| `zone_control_overwritten` | as above, without the fairness | violated: see Findings |
| `passive_mirror_cycle` | as above | violated: see Findings |
| `passive_mirror_passive` | as above, `Transmits = FALSE` | violated: see Findings |

Each run also checks its module's `TypeOK`; that of `TunedLink`, `TunedTypeOK`, is proved.

Why the bounds are enough to meet the interesting cases: with 3 ids, an id returns within the calls and retries allowed, so wrapped
ids, late answers and repeated answers all occur; two clients suffice for every pair of exchanges to interleave, and what
a third would add (the order of the line) is the same between any two; one restart or reset is enough for a state to
survive or be lost, five commands of `tuned_link` are the start, a call that gives up a frame, and the next client's, and the second stop of the satellite lets one happen in the life that follows another. The intervals
keep the order of the real ones (retry 1 min, minimum 5 min, keepalive 10 min) except that retry and minimum are closer; the
proofs hold for any. In `flow_fallback` slope and range are such that the sonde's coldest temperature, not the highest flow, ends
the range, and three messages allow two absences or an absence with commands before and after it. In `zone_control` a comfort
of 7 exceeds, boosted, what a frame carries, a burst of two lets a report come between its frames, and three moves allow a
command and two changes by hand, consignes, faults or stops in any order; check-ins beyond them are free, so that liveness is not
about a satellite that fell silent; one zone is enough, as no rule relates
two. In `mqtt_adapter` the documents are one that reads and writes as Connect, one with a profile that excludes other zones, and one that
load refuses; every role is paired into the default one and the two that load; three moves allow a command, an edit and a restart between them,
or two commands and a change at the boiler. Neither run checks for deadlock: what drives the two systems counts as a move, and when
the moves are spent they rest, but for the satellite's check-ins. Where a proof exists the bounds matter only for liveness.

A mutant accompanies each property: a definition changed as a plausible slip in that code would change it, under which TLC
refutes the property. The mutants stand in the modules, marked as such, each before the definition it replaces.

### Fairness

Only what the code bounds by a timeout or the operating system is assumed to happen. `RfExchange`: a free lock is handed on, a
modem command ends (which `ModemLink` shows), the reply window and the gap close by their timers. No fairness on the
radio: calls end without an answer. `ModemLink`: the executor's write ends, the timer of `wait_for` fires; none on the modem.
`VirtualSatellite` and `OutsideTemperature`: requests end, sleeps end, systemd restarts the service (`Restart=always` in the
deployed unit), and time passes. The one strong fairness, on `BoilerTakes`, says the boiler does hear one of infinitely many writes;
that it gets the newest value needs no less. `FlowFallback`: the same, on `SondeHeard` and `ReportHeard`, and messages in the
queue are handled. `PassiveMirror`: likewise, the two frames of some reads of each block are heard. `MqttAdapter`: a publication and a
write end, twenty seconds pass, a poll is answered now and then, and the diagnostics task publishes every thirty seconds.
`ZoneControl`: the satellite, which checks in every ten minutes, is heard now and then by a bridge that runs; nothing else, so
zone frames and reports may be lost and nobody need read the block.

## What is proved

For every value of the constants, under the `ASSUME` of each module (positive widths, natural bounds, a nobody that is no
client; `MinChange <= Interval`; the service uses 0 or 5 against 10 minutes), with types first and then an inductive
invariant, one step per action:

- `RfExchange_proofs`: `Exclusion`, inductive by itself. `Attribution` and `Distinguishability` from `AnswerInv`: a frame tagged t on
  the air or queued carries the id its client had `drawn - t` draws ago, with that difference below IdCount. The bare properties
  are not inductive, as they say nothing of a frame before it is answered; equal ids then give equal tags by `IdBeforeInjective`.
  `Waiting` relates the lock, the line and each client's place: a client that waits is in the line, once, and a lock that is taken is
  held by a client in its own exchange. `Progress` (of `EveryStepCounts`) is from `BudgetInv`, that a call is within its attempts and its burst
  and outside the lock has an attempt left: every step of a call begins another attempt or lowers `Remaining`, but for frames skipped
  and repeated transmissions, which change nothing of it. What `EveryCallEnds` needs beyond these two is fairness: that a
  step of the lock's holder is taken, and that the head of the line gets the lock.
- `ModemLink_proofs`: `Success` and `Tuning` from `LinkInv`: lines on the wire carry the sequence numbers drawn for them and are
  in the order of issue; no line still under way sets what a returned command set. `Refinement`, from the same invariant, maps each
  step to one of `CommandOrder`: what `LinkInv` says of the order of lines is what makes the lines behind an executed one
  newer than it. `TunedLink`'s steps are steps of the link (`ClientsUseTheLink`), so `LinkInv` holds there too, and `ExchangesAreTuned`
  and `ExchangesApart` follow from it with `TunedInv`: whoever holds the lock was the last to ask for a network, and
  ahead of its frames there is no command that sets one. The lock alone does not give `NobodyElseTransmits`: what does is that a
  confirmed `NID` leaves nothing on the line.
- `VirtualSatellite_proofs`: `NothingLost`, and `Refinement`, that each step is a step of `LatestValue` or leaves the boiler's
  and the wanted version alone. `SatelliteInv` adds to `NoLostChange` that a version sent is never newer than the zone's.
- `OutsideTemperature_proofs`: `Scheduling`, `Limit` and `Refinement` from `SchedulerInv`: what waits for the lock is newer than what is
  desired and in order (so whoever the callers are, none undoes a later one), what is written is what is desired, and an
  accepted attempt leaves at least `MinChange` from its end to the next due time.
- `PassiveMirror_proofs`: `Attribution`, a misread read is a whole cycle of ids old, from `PendingInv`: a younger one is kept
  under the id it was asked with.
- `FlowFallback_proofs`: `LastWrite` and `NotBefore`. That a target in the range survives the conversion to an outdoor temperature is the
  lemma `OutdoorGives`, for any slope. The invariants add what the properties leave open: `FlowInv`, that nobody waits for the lock
  of a service that is down; `TimeInv`, that the adapter never counts more minutes than Home Assistant has been away, and
  that an "offline" in the queue is true or followed by an "online". Assumed of the curve: the configuration's own checks, and that
  the sonde can ask for the boiler's lowest flow.
- `MqttAdapter_proofs`: `LoadedIsMeant` (of `RunsAsMeant`) and `PairingLasts` from `FileSound`, which says that the file is the document
  last written or what a cut-short save left of it, and what a command in progress holds: the
  document it loaded still loads, with the identities of its role (or is the excepted pairing), and a file that is paired is not torn.
  What a cut-short table may be is wide; that only its harmless forms load is due to the checks of `LoadZone` and `LoadConnect`.
  `RecordMatchesBroker` from `Published`: who holds the lock, and how far it is, says how the record, its
  snapshot and the retained value may differ. `Typing` from `TypeInv`, which adds the types of plans and messages. `Retired` (of
  `NothingForgotten`) from three more: `Phases` says at which point of a discovery the plan is and what it still has to announce or
  remove there, with every entity of Home Assistant's accounted for by the broker, the bridge's lists, a waiting message, an old
  config or `forgotten`; `Followed`, that Home Assistant keeps up with the broker while it is there; `Remembered`, that every old
  config waits to be dealt with.
- `ZoneControl_proofs`: `CommandsShown` and `MeaningKept` hold in every zone of the right type, whatever led to it; that takes
  `Sound`, that only comfort is boosted and only automatic mode derogated from. `NoCreep` from `ComfortInv`, which says the
  same of the file, of a write under way and of the frames on the air, those of a boost apart. `Kept` from `FileInv`: what is
  saved of a zone of the bridge's own is all of it, as nothing measured is in it, and another consigne of the simple profile
  changes nothing (`SimpleConsigneTwice`). `Reported` (of `ReportKept`) and `Told` from `AgreeInv`: a report on the air has the satellite's settings, the last
  one heard in a burst still is them, and the byte in the boiler's block puts any zone at the mode of the settings it was sent
  at (`Tells`). `Told` is the safety part of `ModeSettles`: every check-in that is heard, and every read of a block as new as the
  settings, puts the zone at the satellite's mode, whatever was missed or overwritten before; that such a check-in comes is fairness. Assumed: targets and settings fit a frame, and a target leaves something when a boost is taken off.

The three `Refinement` theorems are of the safety part of `LatestValue` and `CommandOrder`. What `RfExchange`, `ModemLink` and `PassiveMirror` need of
counters and queues is proved in each, as lemmas.

Only model-checked: every liveness property (the proof system does not reason about fairness here), so of the three
refinements the fairness part of the abstract specification.

## Findings

- A zone write overwrites what the satellite reports while its frames go out: `write_zone_short` sets the zone to what it wrote after the
  last frame, though the satellite's report, which "is what confirms the change" (`connect/ops.py`), was heard with other settings
  (`zone_control_overwritten`). Its consignes correct the mode, but temperatures and boost stay wrong until it next reports.
- A read overheard whose answer was missed is kept until its request id returns, and may then be paired with another block's
  answer (`emulation.py`).
- A bridge that only listens never sets the sync word, and after a modem start hears nothing (`service.py`; `docs/CONFIG.md`:
  "mirrors what it hears").

Seen while modelling, not contradicted by the repository's words and so only stated:

- A bridge that starts while Home Assistant is away never falls back unless the broker retains Home Assistant's status, which the
  bridge neither asks for nor checks (`mqtt/adapter.py`): with `Retained = FALSE` `HeatsWhileAway` fails.
- The minimum interval of the outside temperature counts from the last attempt, and a retry after a failure comes within it
  (`RateLimited` is about accepted attempts); it is not kept across restarts.
- Pairing the satellite of another zone while zone 1 has a profile saves a file that `load` then refuses (`config.py`; the
  exception `PairedBeside` of `PairedFileLoads`).
- The configuration is saved in place: an interrupted save may leave a file that loads with only the first of its zones, without
  the sonde or the Connect, or with a lower maximum flow than was meant (`CutShort`), and the service starts with it without a word.
  `RunsAsMeant` says that nothing worse does: no zone without the identity, curve or fallback it had.
- The boiler's block repeats the satellite's last consigne, whose mode may be older than a zone write or a report: reading it shows the old
  mode until the satellite sends again. `ModeSettles` says that this passes.
- With `sonde.enabled = false` a temperature set over MQTT is transmitted all the same, while one kept back by the rate limit never is
  (`scheduler.py`, `service.py`; `docs/CONFIG.md` says of `enabled` "Enables the virtual outside sensor writer."): with
  `Push = FALSE` `OutsideTemperature` makes such a write.
- A DHW command notes its mode as pending and publishes it before it writes. If that publication raises (`mqtt/adapter.py:409`), nothing is
  written and the mode stays pending, so the same command is skipped for 20 seconds: the message task logs such an error and goes on. The
  model has a publication that raises only as the loss of the connection, which stops the service.
- An entity is never retired if Home Assistant was away when its removal was published, or a stop lost the list, or came amid the
  migration of its old config (`forgotten`).

## Not modelled, and why

- **Byte layouts and plausibility limits of the codecs**, and settings of the configuration that only have a format: pure functions
  with tests against captured frames. What frames mean is in `ZoneModel`, that blocks may be confused in `PassiveMirror`.
- **RF health counters** (`TrackedOperation`): they count the attempts `RfExchange` makes and nothing depends on them.
- **The consigne of the `central_boiler` profile, the hvac action shown, the availability topic**: values computed from one state without
  memory; the profile sends like any satellite (`VirtualSatellite`).
- **The order of shutdown in `service.py`**: all tasks end with the first that fails, which the models take as a stop at any moment.
- **Other command-line tools, logging and the passive description of frames**: one-shot or output only.
- **A restart of the service while the modem runs on**, for the serial link: `ModemLink` and `TunedLink` are of one life of the service,
  so lines of a former one, whose numbers were drawn from another random start, are not on the wire.
- **A target of the lowest degree while boosting**: `ZoneControlAssumption` leaves out targets that the boost would take to nothing or
  below, which Home Assistant's range for a zone does not offer.
