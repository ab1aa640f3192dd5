--------------------------- MODULE VirtualSatellite ---------------------------
(***************************************************************************)
(* The runner of a virtual satellite (satellite.py): it owns a zone's      *)
(* consigne and is its only sender.  MQTT handlers change the zone's       *)
(* values and wake it; it sends the values it reads, then sleeps ten       *)
(* minutes, or one if the boiler did not accept them.  The zone's values   *)
(* are a version number that every change steps.                           *)
(***************************************************************************)
EXTENDS Integers

CONSTANTS
  MaxChanges,   \* bound: changes of the zone's values
  MaxStops      \* bound: how often the service stops

ASSUME SatelliteAssumption == MaxChanges \in Nat /\ MaxStops \in Nat

Incomplete == 0   \* a value the consigne needs is missing

VARIABLES
  pc,         \* "top" of the loop, "sending", "notifying", "asleep"; "down": no process
  wake,       \* the wake event
  zone,       \* the version of the zone's values, or Incomplete
  snapshot,   \* the version send_once read last
  heard,      \* the boiler took this consigne
  sent,       \* what send_once is to return
  timer,      \* the sleep it led to: "interval" (CONSIGNE_INTERVAL) or "retry"
  boiler,     \* the version the boiler took last
  changes, stops

vars == <<pc, wake, zone, snapshot, heard, sent, timer, boiler, changes, stops>>

Init ==
  /\ pc = "top" /\ wake = FALSE
  /\ zone \in {Incomplete, 1} /\ changes = 1
  /\ snapshot = 0 /\ heard = FALSE /\ sent = FALSE /\ timer = "retry"
  /\ boiler = 0
  /\ stops = 0

\* Mutant of SleepAfter: send_once falls off its end after a failure.
UnsetSleepAfter(ok) == IF ok THEN "interval" ELSE "none"

\* How long run sleeps after send_once returned ok.
SleepAfter(ok) == IF ok THEN "interval" ELSE "retry"

\* One round of run: no await lies between clearing the wake and reading the values, or
\* between finding them incomplete and going to sleep.
Round ==
  /\ pc = "top"
  /\ wake' = FALSE
  /\ IF zone = Incomplete
     THEN pc' = "asleep" /\ timer' = SleepAfter(FALSE) /\ UNCHANGED <<snapshot, heard>>
     ELSE pc' = "sending" /\ snapshot' = zone /\ heard' = FALSE /\ UNCHANGED timer
  /\ UNCHANGED <<zone, sent, boiler, changes, stops>>

\* The boiler takes the consigne from one of the frames of the request.
BoilerTakes ==
  /\ pc = "sending"
  /\ ~heard
  /\ heard' = TRUE
  /\ boiler' = snapshot
  /\ UNCHANGED <<pc, wake, zone, snapshot, sent, timer, changes, stops>>

\* send_zone_consigne returns only on the boiler's answer to this very request.
Accepted(ok) == ok => heard

\* send_zone_consigne returns or raises; send_once calls on_update either way.
SendDone(ok) ==
  /\ pc = "sending"
  /\ Accepted(ok)
  /\ sent' = ok
  /\ pc' = "notifying"
  /\ UNCHANGED <<wake, zone, snapshot, heard, timer, boiler, changes, stops>>

\* on_update (an MQTT publication) returns and the runner goes to sleep.
Notified ==
  /\ pc = "notifying"
  /\ pc' = "asleep"
  /\ timer' = SleepAfter(sent)
  /\ UNCHANGED <<wake, zone, snapshot, heard, sent, boiler, changes, stops>>

\* Mutant of Wake: the wait has no timeout.
EventWake ==
  /\ pc = "asleep"
  /\ wake
  /\ pc' = "top"
  /\ UNCHANGED <<wake, zone, snapshot, heard, sent, timer, boiler, changes, stops>>

\* The sleep ends: request_send set the event, or the time is up.
Wake ==
  /\ pc = "asleep"
  /\ pc' = "top"
  /\ UNCHANGED <<wake, zone, snapshot, heard, sent, timer, boiler, changes, stops>>

\* Mutant of RequestSend: the runner is woken only if it sleeps.
SleeperRequestSend == wake' = (wake \/ pc = "asleep")

RequestSend == wake' = TRUE

\* An MQTT command sets values of the zone (which may still lack others), saves them and
\* wakes the runner: one step, nothing is awaited in between.
Command ==
  /\ pc # "down"
  /\ changes < MaxChanges
  /\ changes' = changes + 1
  /\ zone' \in {changes'} \cup ({zone} \cap {Incomplete})
  /\ RequestSend
  /\ UNCHANGED <<pc, snapshot, heard, sent, timer, boiler, stops>>

\* The service stops: a signal, a crash, the reader thread, or a task of its own that
\* raised, such as this runner when on_update cannot publish.
Stop ==
  /\ pc # "down"
  /\ stops < MaxStops
  /\ stops' = stops + 1
  /\ pc' = "down"
  /\ UNCHANGED <<wake, zone, snapshot, heard, sent, timer, boiler, changes>>

\* systemd starts it again, with the values the state file has, if it has them.
Restart ==
  /\ pc = "down"
  /\ pc' = "top"
  /\ wake' = FALSE
  /\ changes' = changes + 1
  /\ zone' \in {Incomplete, changes'}
  /\ UNCHANGED <<snapshot, heard, sent, timer, boiler, stops>>

Next ==
  \/ Round \/ BoilerTakes \/ Notified \/ Wake \/ Command \/ Stop \/ Restart
  \/ \E ok \in BOOLEAN : SendDone(ok)

Spec == Init /\ [][Next]_vars

\* The runner's steps end: every wait in them has a timeout, and systemd restarts the service.
\* The boiler hears one of the consignes, should the runner send them forever.
FairSpec ==
  /\ Spec
  /\ WF_vars(Round) /\ WF_vars(Notified) /\ WF_vars(Wake) /\ WF_vars(Restart)
  /\ WF_vars(\E ok \in BOOLEAN : SendDone(ok))
  /\ SF_vars(BoilerTakes)

-----------------------------------------------------------------------------
(* Properties.                                                             *)

\* Type invariant.
TypeOK ==
  /\ pc \in {"top", "sending", "notifying", "asleep", "down"}
  /\ wake \in BOOLEAN /\ heard \in BOOLEAN /\ sent \in BOOLEAN
  /\ zone \in Nat /\ snapshot \in Nat /\ boiler \in Nat
  /\ timer \in {"interval", "retry"}
  /\ changes \in Nat /\ stops \in Nat

\* "A change that arrives mid-send triggers one more send, instead of being lost until the next
\* interval" (satellite.py): the runner sleeps on, no wake pending, only having sent the zone's
\* latest values; and for the whole interval only if the boiler has them.
NoLostChange ==
  pc = "asleep" /\ ~wake /\ zone # Incomplete =>
    /\ snapshot = zone
    /\ timer = "interval" => boiler = zone

\* The inductive invariant behind it.
SatelliteInv ==
  /\ zone <= changes
  /\ boiler <= snapshot /\ snapshot <= changes
  /\ pc # "down" /\ zone # Incomplete => snapshot <= zone
  /\ pc \in {"sending", "notifying"} => zone # Incomplete
  /\ pc \in {"sending", "notifying"} /\ ~wake => snapshot = zone
  /\ pc = "sending" /\ heard => boiler = snapshot
  /\ pc = "notifying" /\ sent => boiler = snapshot
  /\ NoLostChange

\* The boiler as the receiver of the zone's latest values: it never goes back to older ones,
\* and eventually gets newer ones while there are any.
Owed == INSTANCE LatestValue WITH
  wanted <- IF zone = Incomplete THEN boiler ELSE zone, got <- boiler

KeepsBoilerCurrent == Owed!FairSpec
=============================================================================
