------------------------------ MODULE FlowFallback ------------------------------
(***************************************************************************)
(* Zone 1 in flow_temp mode (mqtt/adapter.py): Home Assistant switches the *)
(* heating and sets a flow target, which the boiler gets as an outdoor     *)
(* temperature.  Once Home Assistant's MQTT status has been "offline" for  *)
(* Patience minutes the diagnostics task sets a fallback flow itself.      *)
(* Commands and statuses reach the MQTT task in one queue, which waits     *)
(* while that task writes to the boiler.                                   *)
(*                                                                         *)
(* Flows and temperatures are in tenths of a degree.  The two senders,     *)
(* VirtualSatellite for the demand and OutsideTemperature for the outdoor  *)
(* temperature, appear by what those modules show of them.                 *)
(***************************************************************************)
EXTENDS Integers, Sequences

CONSTANTS
  Slope, MinFlow, MaxFlow,   \* heating_curve of the configuration
  Fallback,                  \* fallback_flow
  Patience,                  \* FALLBACK_SECONDS, in minutes
  Retained,                  \* the broker keeps Home Assistant's status for later subscribers
  Targets,                   \* the flow targets commanded
  MaxMessages, MaxStops      \* bounds: messages published, stops of the service

Nothing == 99999   \* no value yet

\* Slope, MinFlow and MaxFlow are positive and MinFlow < MaxFlow (config.py); the boiler's
\* lowest flow is one the sonde can ask for.
ASSUME CurveAssumption ==
  /\ Slope \in Nat \ {0} /\ MinFlow \in Nat \ {0} /\ MaxFlow \in Nat /\ MinFlow < MaxFlow
  /\ 198 - MinFlow <= 60 * Slope /\ MinFlow <= 198 + 50 * Slope
  /\ Fallback \in MinFlow .. MaxFlow

ASSUME FallbackAssumption ==
  /\ Patience \in Nat /\ Patience < Nothing /\ Retained \in BOOLEAN /\ Targets \subseteq Int
  /\ MaxMessages \in Nat /\ MaxStops \in Nat

Off == 0
On == 1
Tasks == {"mqtt", "diagnostics"}     \* the callers of _set_flow

VARIABLES
  awayFor,      \* minutes since homeassistant/status says "offline", Nothing when "online"
  inbox,        \* messages for the MQTT task
  up,           \* the service runs
  offlineFor,   \* minutes since _ha_offline_since, Nothing when it is None
  fallingBack,  \* _falling_back
  demand,       \* zone.flow_demand
  target,       \* zone.flow_target
  saved,        \* the two, as the state file has them
  line,         \* who waits for the outside-temperature lock, in order
  asked,        \* the outdoor temperature each task is to set there
  writing,      \* who holds the lock, in a write to the boiler, or "nobody"
  desired,      \* data.sonde.outside_temperature
  report,       \* the demand the satellite is reporting
  boiler,       \* the demand and the outdoor temperature the boiler has
  messages, stops

zoneVars == <<demand, target, saved>>
writerVars == <<line, asked, writing, desired>>
homeVars == <<awayFor, messages>>
vars == <<homeVars, inbox, up, offlineFor, fallingBack, zoneVars, writerVars, report, boiler, stops>>

-----------------------------------------------------------------------------
(* The curve (boiler_profile.py): an outdoor-only boiler's flow is          *)
(* 19.8 + slope * (20 - outdoor).                                           *)

Least(a, b) == IF a <= b THEN a ELSE b
Greatest(a, b) == IF a >= b THEN a ELSE b

\* flow_temp_range: what the coldest outdoor temperature the sonde can send leaves of it.
HighFlow == Least(MaxFlow, 198 + 50 * Slope)

\* Mutant of Clamped: the coldest outdoor temperature is forgotten.
CurveClamped(t) == Least(Greatest(t, MinFlow), MaxFlow)

Clamped(t) == Least(Greatest(t, MinFlow), HighFlow)

\* flow_temp_outdoor, rounded and clamped to what the sonde can send.
Outdoor(t) == Least(Greatest(200 - (20 * (t - 198) + Slope) \div (2 * Slope), -300), 800)

\* The curve gives flow t at outdoor temperature o, to half a step of the sonde.
Gives(o, t) ==
  /\ 2 * (10 * (t - 198) - Slope * (200 - o)) <= Slope
  /\ 2 * (10 * (t - 198) - Slope * (200 - o)) >= -Slope

-----------------------------------------------------------------------------
Message(kind, value) == [kind |-> kind, value |-> value]
StatusKinds == {"online", "offline"}

\* What the subscription gets at first: nothing, or a retained status.
Greeting ==
  IF ~Retained THEN <<>>
  ELSE <<Message(IF awayFor = Nothing THEN "online" ELSE "offline", 0)>>

\* As run() finds it at the start.
OutdoorAtStart(t) == IF t = Nothing THEN Nothing ELSE Outdoor(t)

Init ==
  /\ awayFor \in {0, Nothing} /\ up = TRUE
  /\ inbox = Greeting
  /\ offlineFor = Nothing /\ fallingBack = FALSE
  /\ \/ demand = Nothing /\ target = Nothing
     \/ demand = Off /\ target = Clamped(MaxFlow)
  /\ saved = [demand |-> demand, target |-> target]
  /\ line = <<>> /\ asked = [t \in Tasks |-> Nothing] /\ writing = "nobody"
  /\ desired = OutdoorAtStart(target)
  /\ report = Nothing /\ boiler = [demand |-> Nothing, outdoor |-> Nothing]
  /\ messages = 0 /\ stops = 0

-----------------------------------------------------------------------------
(* Home Assistant and the broker.                                           *)

Publish(m) ==
  /\ messages < MaxMessages
  /\ messages' = messages + 1
  /\ inbox' = IF up THEN Append(inbox, m) ELSE inbox
  /\ UNCHANGED <<up, offlineFor, fallingBack, zoneVars, writerVars, report, boiler, stops>>

GoesOnline ==
  /\ Publish(Message("online", 0))
  /\ awayFor' = Nothing

\* Home Assistant stops or loses the broker: its will, which may come again if it dies
\* before it was online.
GoesOffline ==
  /\ Publish(Message("offline", 0))
  /\ awayFor' = IF awayFor = Nothing THEN 0 ELSE awayFor

\* A command of Home Assistant, while it is there.
Commands ==
  /\ awayFor = Nothing
  /\ \/ \E d \in {Off, On} : Publish(Message("demand", d))
     \/ \E t \in Targets : Publish(Message("target", t))
     \/ \E t \in Targets : Publish(Message("outside", t))
  /\ UNCHANGED awayFor

-----------------------------------------------------------------------------
(* The adapter.                                                             *)

Free(task) == up /\ writing # task /\ \A i \in 1 .. Len(line) : line[i] # task

\* _persist_state: a failure is only logged.
Saves ==
  \/ saved' = [demand |-> demand', target |-> target']
  \/ UNCHANGED saved

\* _set_flow(target): the zone has it before the writer is awaited.
SetTarget(task, t) ==
  /\ target' = Clamped(t)
  /\ line' = Append(line, task)
  /\ asked' = [asked EXCEPT ![task] = Outdoor(Clamped(t))]

\* Mutant of OnlineSeen: the time of the last "offline" stays.
ForgetfulOnlineSeen == fallingBack' = FALSE /\ UNCHANGED offlineFor

\* Mutant of OnlineSeen: a fallback is never over.
LatchedOnlineSeen == offlineFor' = Nothing /\ UNCHANGED fallingBack

OnlineSeen == offlineFor' = Nothing /\ fallingBack' = FALSE

OfflineSeen ==
  /\ offlineFor' = IF offlineFor = Nothing THEN 0 ELSE offlineFor
  /\ UNCHANGED fallingBack

\* Mutant of OutsideCommand: the writer is given the temperature.
ObeyedOutsideCommand(t) ==
  /\ line' = Append(line, "mqtt")
  /\ asked' = [asked EXCEPT !["mqtt"] = t]

\* A command to the outside sensor's topic is ignored: the flow target owns the sonde.
OutsideCommand(t) == UNCHANGED <<line, asked>>

\* handle_message, for the next message in the queue.
Handle ==
  /\ inbox # <<>> /\ Free("mqtt")
  /\ inbox' = Tail(inbox)
  /\ LET m == Head(inbox)
     IN \/ m.kind = "online" /\ OnlineSeen /\ UNCHANGED <<zoneVars, line, asked>>
        \/ m.kind = "offline" /\ OfflineSeen /\ UNCHANGED <<zoneVars, line, asked>>
        \/ /\ m.kind = "demand"
           /\ demand' = m.value /\ UNCHANGED target /\ Saves
           /\ UNCHANGED <<offlineFor, fallingBack, line, asked>>
        \/ /\ m.kind = "target"
           /\ SetTarget("mqtt", m.value) /\ UNCHANGED demand /\ Saves
           /\ UNCHANGED <<offlineFor, fallingBack>>
        \/ /\ m.kind = "outside"
           /\ OutsideCommand(m.value)
           /\ UNCHANGED <<offlineFor, fallingBack, zoneVars>>
  /\ UNCHANGED <<homeVars, up, writing, desired, report, boiler, stops>>

FallsBackNow == offlineFor # Nothing /\ offlineFor >= Patience /\ ~fallingBack

\* check_fallback, in the diagnostics task.
CheckFallback ==
  /\ Free("diagnostics")
  /\ FallsBackNow
  /\ fallingBack' = TRUE
  /\ demand' = On
  /\ SetTarget("diagnostics", Fallback) /\ Saves
  /\ UNCHANGED <<homeVars, inbox, up, offlineFor, writing, desired, report, boiler, stops>>

-----------------------------------------------------------------------------
(* The senders.                                                             *)

\* The lock is handed on: in this mode no change is kept back, so its holder writes.
Grant ==
  /\ up /\ writing = "nobody" /\ line # <<>>
  /\ writing' = Head(line)
  /\ line' = Tail(line)
  /\ desired' = IF writing' \in Tasks THEN asked[writing'] ELSE desired
  /\ UNCHANGED <<homeVars, inbox, up, offlineFor, fallingBack, zoneVars, asked, report, boiler, stops>>

\* The poll loop queues for a retry or the keepalive.
LoopAsks ==
  /\ Free("loop") /\ desired # Nothing
  /\ line' = Append(line, "loop")
  /\ UNCHANGED <<homeVars, inbox, up, offlineFor, fallingBack, zoneVars, asked, writing, desired, report, boiler, stops>>

SondeHeard ==
  /\ writing # "nobody"
  /\ boiler' = [boiler EXCEPT !.outdoor = desired]
  /\ UNCHANGED <<homeVars, inbox, up, offlineFor, fallingBack, zoneVars, writerVars, report, stops>>

\* The write ends, accepted or not.
Written ==
  /\ writing # "nobody"
  /\ writing' = "nobody"
  /\ UNCHANGED <<homeVars, inbox, up, offlineFor, fallingBack, zoneVars, line, asked, desired, report, boiler, stops>>

\* The satellite reads the demand for its next consigne.
Reports ==
  /\ up /\ demand # Nothing
  /\ report' = demand
  /\ UNCHANGED <<homeVars, inbox, up, offlineFor, fallingBack, zoneVars, writerVars, boiler, stops>>

ReportHeard ==
  /\ up /\ report # Nothing
  /\ boiler' = [boiler EXCEPT !.demand = report]
  /\ UNCHANGED <<homeVars, inbox, up, offlineFor, fallingBack, zoneVars, writerVars, report, stops>>

-----------------------------------------------------------------------------
\* A minute, as far as it matters.
Later(m) == IF m = Nothing THEN Nothing ELSE Least(m + 1, Patience)

Tick ==
  /\ awayFor' = Later(awayFor)
  /\ offlineFor' = Later(offlineFor)
  /\ UNCHANGED <<messages, inbox, up, fallingBack, zoneVars, writerVars, report, boiler, stops>>

\* The service stops; what it had not handled is lost.
Stop ==
  /\ up /\ stops < MaxStops
  /\ stops' = stops + 1
  /\ up' = FALSE
  /\ inbox' = <<>> /\ line' = <<>> /\ writing' = "nobody"
  /\ offlineFor' = Nothing /\ fallingBack' = FALSE /\ report' = Nothing
  /\ UNCHANGED <<homeVars, zoneVars, asked, desired, boiler>>

\* systemd starts it again; the zone comes from the state file.
Start ==
  /\ ~up
  /\ up' = TRUE
  /\ inbox' = Greeting
  /\ demand' = saved.demand /\ target' = saved.target
  /\ desired' = OutdoorAtStart(saved.target)
  /\ UNCHANGED <<homeVars, offlineFor, fallingBack, saved, line, asked, writing, report, boiler, stops>>

Next ==
  \/ GoesOnline \/ GoesOffline \/ Commands
  \/ Handle \/ CheckFallback
  \/ Grant \/ LoopAsks \/ SondeHeard \/ Written \/ Reports \/ ReportHeard
  \/ Tick \/ Stop \/ Start

Spec == Init /\ [][Next]_vars

\* The service's tasks go on, every request ends, time passes and systemd restarts the service;
\* the boiler hears some of the writes and consignes repeated forever.
FairSpec ==
  /\ Spec
  /\ WF_vars(Handle) /\ WF_vars(CheckFallback) /\ WF_vars(Grant) /\ WF_vars(LoopAsks)
  /\ WF_vars(Written) /\ WF_vars(Reports) /\ WF_vars(Tick) /\ WF_vars(Start)
  /\ SF_vars(SondeHeard) /\ SF_vars(ReportHeard)

-----------------------------------------------------------------------------
(* Properties.                                                             *)

Minutes == 0 .. Patience \cup {Nothing}
Messages == [kind : StatusKinds \cup {"demand", "target", "outside"}, value : Int]

\* Type invariant.
TypeOK ==
  /\ awayFor \in Minutes /\ offlineFor \in Minutes
  /\ inbox \in Seq(Messages)
  /\ up \in BOOLEAN /\ fallingBack \in BOOLEAN
  /\ demand \in Int /\ target \in MinFlow .. HighFlow \cup {Nothing}
  /\ saved \in [demand : Int, target : MinFlow .. HighFlow \cup {Nothing}]
  /\ line \in Seq(Tasks \cup {"loop"}) /\ asked \in [Tasks -> Int]
  /\ writing \in Tasks \cup {"loop", "nobody"}
  /\ desired \in Int /\ report \in Int /\ boiler \in [demand : Int, outdoor : Int]
  /\ messages \in Nat /\ stops \in Nat

\* "An outdoor temperature at which the curve gives the requested flow" (docs/CONFIG.md): the
\* temperature set last, by the last task that waits for the lock or else before, gives the
\* zone's flow target, however the writes of the two tasks overlap.
Setting == {i \in 1 .. Len(line) : line[i] \in Tasks}
LastWriteGivesTarget ==
  up /\ target # Nothing =>
    /\ Setting = {} => Gives(desired, target)
    /\ \A i \in Setting : (\A j \in Setting : j <= i) => Gives(asked[line[i]], target)

\* "Once Home Assistant's MQTT status has been offline" that long (adapter.py): no fallback
\* begins earlier, unless Home Assistant's return is in the queue.
Online(i) == inbox[i].kind = "online"
Returning == \E i \in 1 .. Len(inbox) : Online(i)
NotBeforeItsTime ==
  [][~fallingBack /\ fallingBack' =>
       Returning \/ (awayFor # Nothing /\ awayFor >= Patience)]_vars

\* Why they hold: nobody waits for the lock of a service that is down; the adapter does not count
\* from before Home Assistant went away, but for a return that waits in the queue.
FlowInv ==
  /\ LastWriteGivesTarget
  /\ ~up => line = <<>> /\ writing = "nobody"

OfflineTrue ==
  \A i \in 1 .. Len(inbox) :
    inbox[i].kind = "offline" => awayFor # Nothing \/ \E j \in i + 1 .. Len(inbox) : Online(j)
CountTrue == offlineFor # Nothing => Returning \/ (awayFor # Nothing /\ offlineFor <= awayFor)
TimeInv ==
  /\ OfflineTrue /\ CountTrue
  /\ ~up => inbox = <<>> /\ offlineFor = Nothing

\* "Turn heating on at that flow once homeassistant/status has said offline for 30 minutes"
\* (docs/CONFIG.md): if it stays away, the boiler ends up heating, at the fallback flow.
HeatsAtFallback == boiler.demand = On /\ Gives(boiler.outdoor, Clamped(Fallback))
HeatsWhileAway == <>[](awayFor # Nothing) => <>[]HeatsAtFallback
=============================================================================
