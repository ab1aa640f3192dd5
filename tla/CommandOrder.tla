----------------------------- MODULE CommandOrder -----------------------------
(***************************************************************************)
(* What a device promises to a caller that sets it, one command at a time, *)
(* over a connection that loses commands and answers: a command takes      *)
(* effect at most once, as a whole and in the order of issue.  One that is *)
(* given up may still do so later, but never after a later one has.  It is *)
(* confirmed only once it has; the device changes in no other way, but for *)
(* its resets; and every call ends.                                        *)
(***************************************************************************)
EXTENDS Integers

CONSTANTS
  Setting,    \* what can be set
  Nothing,    \* a command leaves a setting alone
  Commands,   \* what a command sets
  Boot        \* the device after a reset

VARIABLES
  issued,      \* commands issued
  owed,        \* those that may still take effect: [number, sets]
  effective,   \* the number of the last that did
  call,        \* "idle", "open", or "confirmed" and still to return
  device       \* its settings

vars == <<issued, owed, effective, call, device>>

Init ==
  /\ issued = 0 /\ owed = {} /\ effective = 0
  /\ call = "idle"
  /\ device = Boot

Issue(sets) ==
  /\ call = "idle"
  /\ call' = "open"
  /\ issued' = issued + 1
  /\ owed' = owed \cup {[number |-> issued', sets |-> sets]}
  /\ UNCHANGED <<effective, device>>

\* Earlier commands that did not take effect by then never will.
TakeEffect(o) ==
  /\ effective' = o.number
  /\ device' = [f \in Setting |-> IF o.sets[f] = Nothing THEN device[f] ELSE o.sets[f]]
  /\ owed' \in SUBSET {p \in owed : p.number > o.number}
  /\ UNCHANGED <<issued, call>>

Lose ==
  /\ owed' \in SUBSET owed
  /\ UNCHANGED <<issued, effective, call, device>>

Confirm ==
  /\ call = "open" /\ effective = issued
  /\ call' = "confirmed"
  /\ UNCHANGED <<issued, owed, effective, device>>

\* The call returns or, confirmed or not, raises.
End ==
  /\ call # "idle"
  /\ call' = "idle"
  /\ owed' \in SUBSET owed
  /\ UNCHANGED <<issued, effective, device>>

Reset ==
  /\ device' = Boot
  /\ owed' \in SUBSET owed
  /\ UNCHANGED <<issued, effective, call>>

Next ==
  \/ \E sets \in Commands : Issue(sets)
  \/ \E o \in owed : TakeEffect(o)
  \/ Lose \/ Confirm \/ End \/ Reset

Spec == Init /\ [][Next]_vars

FairSpec == Spec /\ WF_vars(End)
=============================================================================
