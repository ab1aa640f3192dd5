--------------------------- MODULE OutsideTemperature ---------------------------
(***************************************************************************)
(* The outside temperature the bridge sends the boiler as its sonde        *)
(* (scheduler.py): a new temperature is sent at once unless one was sent   *)
(* less than MinChange ago, in which case the poll loop sends it when that *)
(* time is up; the loop also repeats the last temperature every Interval,  *)
(* and tries again Retry after a failure.  The callers, an MQTT command,   *)
(* the fallback and the loop, take turns by an asyncio.Lock.  Temperatures *)
(* are version numbers; time passes in minutes, and is kept as the time    *)
(* since the last attempt (as far as it matters) and the time until the    *)
(* next is due.                                                            *)
(***************************************************************************)
EXTENDS Integers, Sequences

CONSTANTS
  Interval, Retry, MinChange,   \* OUTSIDE_TEMPERATURE_* (MinChange is 0 in flow_temp mode)
  Push,         \* push_outside_temperature: sonde.enabled of the configuration
  Callers,      \* how many tasks set a temperature: the MQTT loop, and diagnostics (the fallback)
  MaxChanges,   \* bound: temperatures set
  MaxRestarts   \* bound: restarts of the process

ASSUME SchedulerAssumption ==
  /\ Interval \in Nat /\ Retry \in Nat \ {0} /\ MinChange \in Nat /\ MinChange <= Interval
  /\ Push \in BOOLEAN
  /\ Callers \in Nat /\ MaxChanges \in Nat /\ MaxRestarts \in Nat

Unknown == 0      \* no temperature; in `line`, the loop's request to send what there is
Never == -1       \* no attempt since the service started

VARIABLES
  desired,    \* the version in data.sonde.outside_temperature, or Unknown
  line,       \* who waits for the lock, in order: the version to set, or Unknown for the loop
  sending,    \* who holds the lock in a write: "nobody", "setter" or "loop"
  snapshot,   \* the version being written
  heard,      \* the boiler took it
  age,        \* minutes since the last attempt ended, up to MinChange, or Never
  wait,       \* minutes until _outside_temperature_due, 0 once it is reached
  lastOk,     \* the last attempt succeeded
  boiler,     \* the version the boiler took last
  changes, restarts

outcome == <<age, wait, lastOk>>
vars == <<desired, line, sending, snapshot, heard, outcome, boiler, changes, restarts>>

Least(a, b) == IF a <= b THEN a ELSE b

\* flow_temp starts from the persisted flow target, the other modes from no temperature.
Init ==
  /\ desired \in {Unknown, 1} /\ changes = 1
  /\ line = <<>> /\ sending = "nobody" /\ snapshot = 0 /\ heard = FALSE
  /\ age = Never /\ wait = 0 /\ lastOk = FALSE
  /\ boiler = 0 /\ restarts = 0

-----------------------------------------------------------------------------
Setters == Len(SelectSeq(line, LAMBDA v : v # Unknown)) + (IF sending = "setter" THEN 1 ELSE 0)

\* send_outside_temperature_now(temperature): queue for the lock.
Set ==
  /\ changes < MaxChanges
  /\ Setters < Callers
  /\ changes' = changes + 1
  /\ line' = Append(line, changes')
  /\ UNCHANGED <<desired, sending, snapshot, heard, outcome, boiler, restarts>>

\* Mutant of LoopAsks: the loop only tries again what failed.
RetryingLoopAsks ==
  /\ Push /\ desired # Unknown /\ wait = 0
  /\ ~lastOk
  /\ sending # "loop" /\ \A i \in 1 .. Len(line) : line[i] # Unknown
  /\ line' = Append(line, Unknown)
  /\ UNCHANGED <<desired, sending, snapshot, heard, outcome, boiler, changes, restarts>>

\* run finds the temperature due and queues for the lock.
LoopAsks ==
  /\ Push /\ desired # Unknown /\ wait = 0
  /\ sending # "loop" /\ \A i \in 1 .. Len(line) : line[i] # Unknown
  /\ line' = Append(line, Unknown)
  /\ UNCHANGED <<desired, sending, snapshot, heard, outcome, boiler, changes, restarts>>

Granted(who) ==
  /\ sending = "nobody"
  /\ line # <<>>
  /\ who = IF Head(line) = Unknown THEN "loop" ELSE "setter"
  /\ line' = Tail(line)

\* Mutant of TooSoon: the limit is off by a minute.
HastyTooSoon == age # Never /\ age + 1 < MinChange

TooSoon == age # Never /\ age < MinChange

\* Mutant of Deferred: the change is kept but not scheduled.
UnscheduledDeferred ==
  /\ Granted("setter") /\ TooSoon
  /\ desired' = Head(line)
  /\ UNCHANGED <<sending, snapshot, heard, outcome, boiler, changes, restarts>>

\* A change inside the minimum interval is kept for the loop, which it wakes.
Deferred ==
  /\ Granted("setter") /\ TooSoon
  /\ desired' = Head(line)
  /\ wait' = Least(wait, MinChange - age)
  /\ UNCHANGED <<sending, snapshot, heard, age, lastOk, boiler, changes, restarts>>

\* A change is written at once.
SetterSends ==
  /\ Granted("setter") /\ ~TooSoon
  /\ desired' = Head(line)
  /\ sending' = "setter" /\ snapshot' = Head(line) /\ heard' = FALSE
  /\ UNCHANGED <<outcome, boiler, changes, restarts>>

\* The loop finds that a setter has written meanwhile (only_if_due).
NotDue ==
  /\ Granted("loop") /\ wait > 0
  /\ UNCHANGED <<desired, sending, snapshot, heard, outcome, boiler, changes, restarts>>

\* The loop writes what is desired: a deferred change, a retry or a keepalive.
LoopSends ==
  /\ Granted("loop") /\ wait = 0
  /\ sending' = "loop" /\ snapshot' = desired /\ heard' = FALSE
  /\ UNCHANGED <<desired, outcome, boiler, changes, restarts>>

\* The boiler takes the temperature from one of the frames of the request.
BoilerTakes ==
  /\ sending # "nobody" /\ ~heard
  /\ heard' = TRUE
  /\ boiler' = snapshot
  /\ UNCHANGED <<desired, line, sending, snapshot, outcome, changes, restarts>>

\* write_outside_temperature returns (on the boiler's answer to this request) or raises.
SendDone(ok) ==
  /\ sending # "nobody"
  /\ ok => heard
  /\ sending' = "nobody"
  /\ age' = 0 /\ lastOk' = ok
  /\ wait' = IF ok THEN Interval ELSE Retry
  /\ desired' = IF ok THEN snapshot ELSE desired
  /\ UNCHANGED <<line, snapshot, heard, boiler, changes, restarts>>

\* Mutant of Left: the time left is not cut off at zero.
UnclampedLeft(w) == w - 1

\* What is left of a wait after a minute.
Left(w) == IF w = 0 THEN 0 ELSE w - 1

\* A minute passes.  A free lock is granted at once.
Tick ==
  /\ sending # "nobody" \/ line = <<>>
  /\ age' = IF age = Never THEN Never ELSE Least(age + 1, MinChange)
  /\ wait' = Left(wait)
  /\ UNCHANGED <<desired, line, sending, snapshot, heard, lastOk, boiler, changes, restarts>>

\* The process stops and starts: the temperature is lost, but for a persisted flow target.
Restart ==
  /\ restarts < MaxRestarts
  /\ restarts' = restarts + 1
  /\ changes' = changes + 1
  /\ desired' \in {Unknown, changes'}
  /\ line' = <<>> /\ sending' = "nobody"
  /\ age' = Never /\ wait' = 0 /\ lastOk' = FALSE
  /\ UNCHANGED <<snapshot, heard, boiler>>

Grant == Deferred \/ SetterSends \/ NotDue \/ LoopSends

Next ==
  \/ Set \/ LoopAsks \/ Grant \/ BoilerTakes \/ Tick \/ Restart
  \/ \E ok \in BOOLEAN : SendDone(ok)

Spec == Init /\ [][Next]_vars

\* Time passes, the lock is handed on, the loop comes round, a request ends by its timeouts;
\* the boiler hears one of the writes, should they go on forever.
FairSpec ==
  /\ Spec
  /\ WF_vars(Tick) /\ WF_vars(Grant) /\ WF_vars(LoopAsks)
  /\ WF_vars(\E ok \in BOOLEAN : SendDone(ok))
  /\ SF_vars(BoilerTakes)

-----------------------------------------------------------------------------
(* Properties.                                                             *)

\* Type invariant.
TypeOK ==
  /\ desired \in Nat /\ line \in Seq(Nat)
  /\ sending \in {"nobody", "setter", "loop"}
  /\ snapshot \in Nat /\ heard \in BOOLEAN
  /\ age \in {Never} \cup 0 .. MinChange
  /\ wait \in Nat /\ lastOk \in BOOLEAN
  /\ boiler \in Nat /\ changes \in Nat /\ restarts \in Nat

\* "At most once per this interval" (scheduler.py): once a temperature was accepted no other
\* write begins, of a change, a retry or a keepalive, until MinChange has passed.
RateLimited ==
  [][sending = "nobody" /\ sending' # "nobody" /\ lastOk => age >= MinChange]_vars

\* "Staleness is bounded by this interval": a temperature kept back becomes due MinChange after
\* the last accepted one, or Retry after the last failure, at the latest.
KeptChangeScheduled ==
  sending = "nobody" /\ desired # Unknown /\ ~(lastOk /\ desired = snapshot) =>
    \/ wait = 0
    \/ age + wait <= IF lastOk THEN MinChange ELSE Retry

\* Why they hold, an inductive invariant: what waits in the line is newer than what is desired,
\* and in order; what is written is what is desired.
LineInv ==
  /\ \A i \in 1 .. Len(line) :
       /\ line[i] = Unknown => desired # Unknown
       /\ line[i] # Unknown => line[i] > desired /\ line[i] > boiler /\ line[i] <= changes
  /\ \A i, j \in 1 .. Len(line) :
       i < j /\ line[i] # Unknown /\ line[j] # Unknown => line[i] < line[j]

WriteInv ==
  /\ desired <= changes /\ boiler <= changes
  /\ desired # Unknown => boiler <= desired
  /\ sending # "nobody" => desired = snapshot /\ desired # Unknown
  /\ sending # "nobody" /\ heard => boiler = snapshot

DueInv ==
  /\ age = Never => wait = 0 /\ ~lastOk
  /\ age # Never => desired # Unknown
  /\ lastOk => age + wait >= MinChange
  /\ KeptChangeScheduled

SchedulerInv == LineInv /\ WriteInv /\ DueInv

\* With the writer enabled, the boiler as the receiver of the latest temperature: it never goes
\* back to an older one, and gets newer ones while there are any.
Owed == INSTANCE LatestValue WITH
  wanted <- IF desired = Unknown THEN boiler ELSE desired, got <- boiler

KeepsBoilerCurrent == Owed!FairSpec
=============================================================================
