---------------------------- MODULE MqttAdapter ----------------------------
(***************************************************************************)
(* The bridge towards Home Assistant (mqtt/adapter.py) over the runs of    *)
(* its service: the entities it announces, which depend on the             *)
(* configuration it was started with, and those of former runs it must     *)
(* retire; the retained state that several tasks publish; and the DHW      *)
(* mode, shown as asked for while its write is under way.                  *)
(* One retained topic stands for all: the DHW mode.                        *)
(***************************************************************************)
EXTENDS Configuration, FiniteSets

CONSTANTS
  Modes,      \* the DHW modes
  Legacy,     \* entities with a retained discovery config from before device discovery
  MaxMoves,   \* bound: commands, changes, edits, pairings, restarts of the bridge or Home Assistant
  MaxInbox    \* bound: messages that wait

\* The tasks that publish: the one that handles messages, and one for all the others.
Tasks == {"mqtt", "diagnostics"}

ASSUME MqttAdapterAssumption ==
  /\ None \notin Modes \cup Tasks /\ IsFiniteSet(Legacy)
  /\ MaxMoves \in Nat /\ MaxInbox \in Nat

VARIABLES
  cfg,         \* the configuration the service runs with, or None
  plan,        \* what the message task still has to do
  inbox,       \* messages it has not handled
  rf,          \* the RF operations there are diagnostics of
  discovered, last,     \* _discovered and _last_discovery, the latter none or one
  record,      \* _published_state
  lock,        \* _publish_lock
  phase, snap, \* of each task, how far it is with publishing, and the value it is publishing
  mode,        \* the DHW mode in the data model
  pending, expired,     \* _pending_dhw_mode, and whether _pending_dhw_until is over
  boiler,      \* the DHW mode of the boiler
  device, legacy, shown,   \* the broker's retained discovery and state
  online, entities,     \* Home Assistant: whether it runs, and the entities it has
  forgotten,   \* ghost: entities that a stop, or an absence of Home Assistant, left behind
  moves

adapter == <<cfg, plan, inbox, rf, discovered, last>>
publishing == <<record, lock, phase, snap>>
dhw == <<mode, pending, expired, boiler>>
broker == <<device, legacy, shown>>
home == <<online, entities, forgotten>>
vars == <<configVars, adapter, publishing, dhw, broker, home, moves>>

Moved == moves < MaxMoves /\ moves' = moves + 1

-----------------------------------------------------------------------------
(* What a configuration exposes.                                           *)

SondeExposed(doc) == doc.sonde = "on" /\ ~FlowTemp(doc)

ReadOnlySatellite(doc) == \E n \in ZoneNumbers : doc.zones[n].mode = "satellite"

ZoneComponents(doc, n) ==
  {<<"sensor_flow", n>>}
  \cup (CASE doc.zones[n].mode = "central_boiler" -> {<<"switch_central", n>>}
          [] doc.zones[n].mode = "flow_temp" -> {<<"switch_flow", n>>}
          [] doc.zones[n].mode = "satellite" -> {<<"climate", n>>}
          [] OTHER -> {<<"climate", n>>, <<"number_ambient", n>>})

\* The keys hold the platform, so that an entity which changes it is another one.
Components(doc, operations) ==
  (IF doc.connect.mode = "absent" THEN {}
   ELSE {<<"sensor_boiler", 0>>, <<IF WritesEnabled(doc) THEN "select_dhw" ELSE "sensor_dhw", 0>>})
  \cup (IF SondeExposed(doc) THEN {<<"number_outside", 0>>} ELSE {})
  \cup (UNION {ZoneComponents(doc, n) : n \in {m \in ZoneNumbers : ZoneEnabled(doc, m)}})
  \cup {<<"rf", o>> : o \in operations}

Operations ==
  {"reads", "satellite_info", "dhw_write", "sonde", "zone_write"} \cup {Satellite(n) : n \in ZoneNumbers}

\* The operations there are diagnostics of from the start.  A zone write makes its own later: it is of
\* a satellite the bridge does not own, and every such zone is "read-only" here.
RfDiagnostics(doc) ==
  (IF ReadsEnabled(doc) THEN {"reads"} ELSE {})
  \cup (IF ReadsEnabled(doc) /\ ReadOnlySatellite(doc) THEN {"satellite_info"} ELSE {})
  \cup (IF WritesEnabled(doc) THEN {"dhw_write"} ELSE {})
  \cup (IF doc.sonde = "on" THEN {"sonde"} ELSE {})
  \cup {Satellite(n) : n \in {m \in ZoneNumbers : UsesVirtualSatellite(doc, m)}}

-----------------------------------------------------------------------------
(* The steps of the message task and the messages it gets, of one shape.   *)

Step(do, keys, gone, what) == [do |-> do, keys |-> keys, gone |-> gone, what |-> what]
Do(do, what) == Step(do, {}, {}, what)
Doing(do) == plan # <<>> /\ Head(plan).do = do

\* The mode to be shown.
Visible == IF pending = None \/ expired THEN mode ELSE pending
Sets(m, p, over) == mode' = m /\ pending' = p /\ expired' = over

AdapterInit ==
  /\ cfg = None /\ plan = <<>> /\ inbox = <<>> /\ rf = {} /\ discovered = {} /\ last = {}
  /\ record = None /\ lock = None
  /\ phase = [t \in Tasks |-> "idle"] /\ snap = [t \in Tasks |-> None]
  /\ mode = None /\ pending = None /\ expired = FALSE /\ boiler \in Modes
  /\ device = [keys |-> {}, gone |-> {}] /\ shown = None
  /\ \/ legacy = [k \in Legacy |-> "config"] /\ entities = Legacy
     \/ legacy = [k \in Legacy |-> "absent"] /\ entities = {}
  /\ online = TRUE /\ forgotten = {}
  /\ moves = 0

Init == ConfigInit /\ AdapterInit

-----------------------------------------------------------------------------
(* The service.                                                            *)

Start ==
  /\ cfg = None /\ cli = None /\ file # Torn /\ Loads(file)
  /\ cfg' = file /\ rf' = RfDiagnostics(file)
  /\ plan' = <<Do("subscribe", None), Do("discover", "changed"), Do("state", None)>>
  /\ UNCHANGED <<configVars, inbox, discovered, last, publishing, dhw, broker, home, moves>>

\* What it knows of former discoveries, and the entities on their way from an old config to the device's.
Owed == discovered \cup (UNION {inbox[i].keys : i \in DOMAIN inbox})
Marked == {k \in Legacy : legacy[k] = "marker"}

\* It stops, or dies at whatever it was doing; what is only in its memory of former runs is lost.
Stop ==
  /\ cfg # None /\ Moved
  /\ cfg' = None /\ plan' = <<>> /\ inbox' = <<>> /\ rf' = {} /\ discovered' = {} /\ last' = {}
  /\ record' = None /\ lock' = None
  /\ phase' = [t \in Tasks |-> "idle"] /\ snap' = [t \in Tasks |-> None]
  /\ Sets(None, None, FALSE)
  /\ forgotten' = forgotten \cup ((Owed \cup Marked) \ (device.keys \cup device.gone))
  /\ UNCHANGED <<configVars, boiler, broker, online, entities>>

\* The configuration is read at the start only, and pairing needs the serial port.
Configure ==
  /\ cfg = None
  /\ \/ UserEdits /\ Moved
     \/ CliStarts /\ Moved
     \/ BroadcastHeard /\ UNCHANGED moves
     \/ CliSaves /\ UNCHANGED moves
     \/ CliGivesUp /\ UNCHANGED moves
     \/ CliDies /\ Moved
  /\ UNCHANGED <<adapter, publishing, dhw, broker, home>>

-----------------------------------------------------------------------------
(* Discovery.                                                              *)

\* The broker sends what it retains, in any order.
Subscribe ==
  LET left == {k \in Legacy : legacy[k] = "config"}
      own == IF device.keys = {} THEN <<>> ELSE <<Step("device", device.keys, {}, None)>>
  IN  /\ Doing("subscribe")
      /\ \E order \in [1 .. Cardinality(left) -> left] :
           /\ {order[i] : i \in DOMAIN order} = left
           /\ inbox' = inbox \o own \o [i \in DOMAIN order |-> Do("legacy", order[i])]
      /\ plan' = Tail(plan)
      /\ UNCHANGED <<configVars, cfg, rf, discovered, last, publishing, dhw, broker, home, moves>>

\* Mutant of Discover: what a former run had is not told apart.
KeepingDiscover ==
  LET now == Components(cfg, rf)
  IN  /\ Doing("discover")
      /\ plan' = <<Step("device", now, {}, None), Step("noted", now, {}, None)>> \o Tail(plan)
      /\ UNCHANGED <<configVars, cfg, inbox, rf, discovered, last, publishing, dhw, broker, home, moves>>

\* publish_discovery: first with the entities to remove, then without, if there is anything new.
Discover ==
  LET now == Components(cfg, rf)
      gone == discovered \ now
      changed == Head(plan).what = "forced" \/ gone # {} \/ last # {now}
  IN  /\ Doing("discover")
      /\ plan' = (IF gone # {} THEN <<Step("device", now, gone, None)>> ELSE <<>>)
                 \o (IF changed THEN <<Step("device", now, {}, None)>> ELSE <<>>)
                 \o <<Step("noted", now, {}, None)>> \o Tail(plan)
      /\ UNCHANGED <<configVars, cfg, inbox, rf, discovered, last, publishing, dhw, broker, home, moves>>

\* The broker retains the device's config; Home Assistant, if it is there, follows it.
PublishDevice ==
  LET keys == Head(plan).keys
      gone == Head(plan).gone
  IN  /\ Doing("device")
      /\ device' = [keys |-> keys, gone |-> gone]
      /\ IF online THEN entities' = (entities \cup keys) \ gone /\ UNCHANGED forgotten
         ELSE forgotten' = forgotten \cup gone /\ UNCHANGED entities
      /\ plan' = Tail(plan)
      /\ UNCHANGED <<configVars, cfg, inbox, rf, discovered, last, publishing, dhw, legacy, shown, online, moves>>

Noted ==
  /\ Doing("noted")
  /\ last' = {Head(plan).keys} /\ discovered' = Head(plan).keys
  /\ plan' = Tail(plan)
  /\ UNCHANGED <<configVars, cfg, inbox, rf, publishing, dhw, broker, home, moves>>

\* An old config of one entity: marked as migrating, so that the device's config takes the entity over.
PublishMarker ==
  /\ Doing("marker")
  /\ legacy' = [legacy EXCEPT ![Head(plan).what] = "marker"]
  /\ plan' = Tail(plan)
  /\ UNCHANGED <<configVars, cfg, inbox, rf, discovered, last, publishing, dhw, device, shown, home, moves>>

\* It is cleared, which removes an entity that is still its own.
ClearLegacy ==
  LET k == Head(plan).what
      its == IF legacy[k] = "config" THEN {k} ELSE {}
  IN  /\ Doing("clear")
      /\ legacy' = [legacy EXCEPT ![k] = "absent"]
      /\ IF online THEN entities' = entities \ its /\ UNCHANGED forgotten
         ELSE forgotten' = forgotten \cup its /\ UNCHANGED entities
      /\ plan' = Tail(plan)
      /\ UNCHANGED <<configVars, cfg, inbox, rf, discovered, last, publishing, dhw, device, shown, online, moves>>

\* Home Assistant goes, and comes back with what the broker retains; its birth is told to those who listen.
HomeGoes ==
  /\ online /\ Moved
  /\ online' = FALSE
  /\ UNCHANGED <<configVars, adapter, publishing, dhw, broker, entities, forgotten>>

Listening == cfg # None /\ ~Doing("subscribe")

HomeReturns ==
  /\ ~online
  /\ online' = TRUE
  /\ entities' = (entities \cup device.keys \cup {k \in Legacy : legacy[k] = "config"}) \ device.gone
  /\ inbox' = IF Listening THEN Append(inbox, Do("birth", None)) ELSE inbox
  /\ UNCHANGED <<configVars, cfg, plan, rf, discovered, last, publishing, dhw, broker, forgotten, moves>>

\* Home Assistant sends a command: to set the DHW mode, or to a zone.
Commands(c) ==
  /\ online /\ Listening /\ Len(inbox) < MaxInbox /\ Moved
  /\ inbox' = Append(inbox, c)
  /\ UNCHANGED <<configVars, cfg, plan, rf, discovered, last, publishing, dhw, broker, home>>

-----------------------------------------------------------------------------
(* handle_message, once the message before has been dealt with.            *)

Message(do) == cfg # None /\ plan = <<>> /\ inbox # <<>> /\ Head(inbox).do = do /\ inbox' = Tail(inbox)

\* The config of the run before lists the entities this one may lack.
HandleDevice ==
  /\ Message("device")
  /\ discovered' = Head(inbox).keys
  /\ plan' = <<Do("discover", "changed")>>
  /\ UNCHANGED <<configVars, cfg, rf, last, publishing, dhw, broker, home, moves>>

HandleLegacy ==
  LET k == Head(inbox).what
  IN  /\ Message("legacy")
      /\ plan' = (IF k \in Components(cfg, rf) THEN <<Do("marker", k), Do("discover", "forced")>> ELSE <<>>)
                 \o <<Do("clear", k)>>
      /\ UNCHANGED <<configVars, cfg, rf, discovered, last, publishing, dhw, broker, home, moves>>

\* Home Assistant is back: it is sent everything again.
HandleBirth ==
  /\ Message("birth")
  /\ record' = None
  /\ plan' = <<Do("discover", "forced"), Do("state", None)>>
  /\ UNCHANGED <<configVars, cfg, rf, discovered, last, lock, phase, snap, dhw, broker, home, moves>>

\* A zone write, whose diagnostics begin with it; it may fail, even before for want of the zone's metadata.
HandleZone ==
  /\ Message("zone")
  /\ \/ WritesEnabled(cfg) /\ ReadOnlySatellite(cfg)
        /\ rf' = rf \cup {"zone_write"} /\ plan' \in {<<>>, <<Do("state", None)>>}
     \/ UNCHANGED <<rf, plan>>
  /\ UNCHANGED <<configVars, cfg, discovered, last, publishing, dhw, broker, home, moves>>

\* The mode asked for is shown at once; one that is already under way is not written again.
HandleDhw ==
  LET m == Head(inbox).what
  IN  /\ Message("dhw")
      /\ IF ~WritesEnabled(cfg) \/ (pending = m /\ ~expired)
         THEN UNCHANGED <<plan, dhw>>
         ELSE /\ Sets(mode, m, FALSE) /\ UNCHANGED boiler
              /\ plan' = <<Do("state", None), Do("write", m), Do("state", None)>>
      /\ UNCHANGED <<configVars, cfg, rf, discovered, last, publishing, broker, home, moves>>

-----------------------------------------------------------------------------
(* The DHW mode.                                                           *)

WriteSucceeds ==
  /\ Doing("write")
  /\ Sets(Head(plan).what, pending, expired) /\ boiler' = Head(plan).what
  /\ plan' = Tail(plan)
  /\ UNCHANGED <<configVars, cfg, inbox, rf, discovered, last, publishing, broker, home, moves>>

\* No answer is heard, whatever the boiler did.
WriteFails ==
  /\ Doing("write")
  /\ Sets(mode, None, FALSE) /\ boiler' \in {boiler, Head(plan).what}
  /\ plan' = Tail(plan)
  /\ UNCHANGED <<configVars, cfg, inbox, rf, discovered, last, publishing, broker, home, moves>>

\* Twenty seconds have passed, which a write with its retries may outlast.
Expire ==
  /\ pending # None /\ ~expired
  /\ Sets(mode, pending, TRUE)
  /\ UNCHANGED <<configVars, adapter, publishing, boiler, broker, home, moves>>

\* The mode is polled, or overheard.
Read ==
  /\ cfg # None /\ cfg.connect.mode # "absent" /\ mode # boiler
  /\ Sets(boiler, pending, expired)
  /\ UNCHANGED <<configVars, adapter, publishing, boiler, broker, home, moves>>

\* Somebody sets it at the boiler.
BoilerChanges ==
  /\ Moved
  /\ boiler' \in Modes \ {boiler}
  /\ UNCHANGED <<configVars, adapter, publishing, mode, pending, expired, broker, home>>

-----------------------------------------------------------------------------
(* publish_state, by several tasks: a snapshot, then one value after       *)
(* another is compared, published and recorded.                            *)

Wants(t) == cfg # None /\ phase[t] = "idle" /\ (t = "mqtt" => Doing("state"))

\* Mutant of Snapshot: the twenty seconds are not looked at.
UndyingSnapshot(t) ==
  LET value == IF cfg.connect.mode = "absent" THEN None ELSE IF pending = None THEN mode ELSE pending
  IN  /\ phase' = [phase EXCEPT ![t] = "comparing"] /\ snap' = [snap EXCEPT ![t] = value]
      /\ UNCHANGED <<configVars, adapter, record, dhw, broker, home, moves>>

Snapshot(t) ==
  LET value == IF cfg.connect.mode = "absent" THEN None ELSE Visible
  IN  /\ phase' = [phase EXCEPT ![t] = "comparing"] /\ snap' = [snap EXCEPT ![t] = value]
      /\ Sets(mode, IF expired THEN None ELSE pending, FALSE)   \* what is over is forgotten
      /\ UNCHANGED <<configVars, adapter, record, boiler, broker, home, moves>>

\* Mutant of Take: the lock is not waited for.
UnlockedTake(t) == Wants(t) /\ lock' = t /\ Snapshot(t)

Take(t) == Wants(t) /\ lock = None /\ lock' = t /\ Snapshot(t)

Known(t) == snap[t] \in {None, record}

Publish(t) ==
  /\ phase[t] = "comparing" /\ ~Known(t)
  /\ shown' = snap[t]
  /\ phase' = [phase EXCEPT ![t] = "published"]
  /\ UNCHANGED <<configVars, adapter, record, lock, snap, dhw, device, legacy, home, moves>>

\* The value is recorded, or was already, and the task goes on.
Finish(t) ==
  /\ \/ phase[t] = "published" /\ record' = snap[t]
     \/ phase[t] = "comparing" /\ Known(t) /\ UNCHANGED record
  /\ lock' = None
  /\ phase' = [phase EXCEPT ![t] = "idle"] /\ snap' = [snap EXCEPT ![t] = None]
  /\ plan' = IF t = "mqtt" THEN Tail(plan) ELSE plan
  /\ UNCHANGED <<configVars, cfg, inbox, rf, discovered, last, dhw, broker, home, moves>>

-----------------------------------------------------------------------------
HomeCommands == {Do("dhw", m) : m \in Modes} \cup {Do("zone", None)}

Next ==
  \/ Start \/ Stop \/ Configure
  \/ Subscribe \/ Discover \/ PublishDevice \/ Noted \/ PublishMarker \/ ClearLegacy
  \/ HomeGoes \/ HomeReturns
  \/ \E c \in HomeCommands : Commands(c)
  \/ HandleDevice \/ HandleLegacy \/ HandleBirth \/ HandleZone \/ HandleDhw
  \/ WriteSucceeds \/ WriteFails \/ Expire \/ Read \/ BoilerChanges
  \/ \E t \in Tasks : Take(t) \/ Publish(t) \/ Finish(t)

\* Publications and writes end, twenty seconds pass, the boiler is polled and the diagnostics task
\* publishes every thirty seconds.
Fairness ==
  /\ WF_vars(Subscribe \/ Discover \/ PublishDevice \/ Noted \/ PublishMarker \/ ClearLegacy)
  /\ WF_vars(WriteSucceeds \/ WriteFails)
  /\ WF_vars(Expire) /\ WF_vars(Read)
  /\ \A t \in Tasks : WF_vars(Take(t)) /\ WF_vars(Publish(t)) /\ WF_vars(Finish(t))

Spec == Init /\ [][Next]_vars /\ Fairness

-----------------------------------------------------------------------------
(* Properties.                                                             *)

Keys ==
  ({"sensor_boiler", "select_dhw", "sensor_dhw", "number_outside", "sensor_flow", "switch_central", "switch_flow",
    "climate", "number_ambient"} \X (0 .. 3))
  \cup ({"rf"} \X Operations)

\* Type correctness: one task at a time is publishing, and no step of a plan belongs to another run.
TypeOK ==
  /\ cfg # None => Loads(cfg)
  /\ rf \subseteq Operations /\ discovered \subseteq Keys
  /\ device \in [keys : SUBSET Keys, gone : SUBSET Keys]
  /\ legacy \in [Legacy -> {"config", "marker", "absent"}]
  /\ online \in BOOLEAN /\ entities \cup forgotten \subseteq Keys \cup Legacy
  /\ {mode, pending, shown} \subseteq Modes \cup {None} /\ boiler \in Modes
  /\ expired => pending # None
  /\ \A t \in Tasks : phase[t] # "idle" <=> lock = t
  /\ phase["mqtt"] # "idle" => Doing("state")
  /\ cfg = None => plan = <<>> /\ inbox = <<>> /\ lock = None

\* What the bridge takes for published, and therefore does not publish again, is what the broker
\* retains, whichever tasks published last and whatever they waited for.
RecordIsShown == (\A t \in Tasks : phase[t] = "idle") => record \in {None, shown}

\* When the bridge has dealt with its messages, Home Assistant has the entities of its configuration
\* and no others: those of former runs, and of the discovery before, are gone.  Left behind are only
\* those whose list a stop lost before they were retired, or retired while Home Assistant was away.
NothingForgotten ==
  cfg # None /\ plan = <<>> /\ inbox = <<>> =>
    /\ device.gone = {} /\ device.keys = discovered
    /\ Components(cfg, RfDiagnostics(cfg)) \subseteq device.keys
    /\ \A k \in Legacy : legacy[k] # "config"
    /\ online => device.keys \subseteq entities /\ entities \ device.keys \subseteq forgotten

\* In the end Home Assistant shows the DHW mode the boiler is in, after commands that fail, or of which
\* the boiler's answer is lost, and changes made at the boiler while a command is pending.
DhwSettles == <>[](cfg # None /\ ReadsEnabled(cfg) => shown = boiler)
=============================================================================
