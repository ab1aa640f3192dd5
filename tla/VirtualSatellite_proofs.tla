------------------------ MODULE VirtualSatellite_proofs ------------------------
(***************************************************************************)
(* What holds of VirtualSatellite however many changes and stops there     *)
(* are: its types, that no change is lost, and that every step of it is    *)
(* one of LatestValue or changes nothing the boiler could see.             *)
(***************************************************************************)
EXTENDS VirtualSatellite, TLAPS

\* Types.
THEOREM Typing == Spec => []TypeOK
<1>1. Init => TypeOK
  <2> SUFFICES ASSUME Init PROVE TypeOK
    OBVIOUS
  <2>1. zone \in Nat /\ changes \in Nat
    BY DEF Init, Incomplete
  <2>2. QED BY <2>1 DEF Init, TypeOK
<1>2. TypeOK /\ [Next]_vars => TypeOK'
  <2> SUFFICES ASSUME TypeOK, [Next]_vars PROVE TypeOK'
    OBVIOUS
  <2> USE DEF TypeOK
  <2>1. CASE Round
    BY <2>1 DEF Round, SleepAfter
  <2>2. CASE BoilerTakes
    BY <2>2 DEF BoilerTakes
  <2>3. ASSUME NEW ok \in BOOLEAN, SendDone(ok) PROVE TypeOK'
    BY <2>3 DEF SendDone
  <2>4. CASE Notified
    BY <2>4 DEF Notified, SleepAfter
  <2>5. CASE Wake \/ Stop
    BY <2>5 DEF Wake, Stop
  <2>6. CASE Command
    BY <2>6 DEF Command, RequestSend
  <2>7. CASE Restart
    <3>1. changes' \in Nat /\ zone' \in Nat
      BY <2>7 DEF Restart, Incomplete
    <3>2. QED BY <2>7, <3>1 DEF Restart
  <2>8. CASE UNCHANGED vars
    BY <2>8 DEF vars
  <2>9. QED BY <2>1, <2>2, <2>3, <2>4, <2>5, <2>6, <2>7, <2>8 DEF Next
<1>3. QED BY <1>1, <1>2, PTL DEF Spec

\* What is sent, and what the boiler has, against the latest values.
THEOREM Inductive == Spec => []SatelliteInv
<1>1. Init => SatelliteInv
  BY DEF Init, SatelliteInv, NoLostChange, Incomplete
<1>2. TypeOK /\ SatelliteInv /\ [Next]_vars => SatelliteInv'
  <2> SUFFICES ASSUME TypeOK, SatelliteInv, [Next]_vars PROVE SatelliteInv'
    OBVIOUS
  <2> USE DEF TypeOK, SatelliteInv, NoLostChange
  <2>1. CASE Round
    BY <2>1 DEF Round, SleepAfter
  <2>2. CASE BoilerTakes
    BY <2>2 DEF BoilerTakes
  <2>3. ASSUME NEW ok \in BOOLEAN, SendDone(ok) PROVE SatelliteInv'
    BY <2>3 DEF SendDone, Accepted
  <2>4. CASE Notified
    BY <2>4 DEF Notified, SleepAfter
  <2>5. CASE Wake
    BY <2>5 DEF Wake
  <2>6. CASE Command
    BY <2>6 DEF Command, RequestSend, Incomplete
  <2>7. CASE Stop
    BY <2>7 DEF Stop
  <2>8. CASE Restart
    BY <2>8 DEF Restart, Incomplete
  <2>9. CASE UNCHANGED vars
    BY <2>9 DEF vars
  <2>10. QED BY <2>1, <2>2, <2>3, <2>4, <2>5, <2>6, <2>7, <2>8, <2>9 DEF Next
<1>3. QED BY <1>1, <1>2, Typing, PTL DEF Spec

\* A change that arrives while a consigne is being sent is sent next.
THEOREM NothingLost == Spec => []NoLostChange
<1>1. SatelliteInv => NoLostChange
  BY DEF SatelliteInv
<1>2. QED BY <1>1, Inductive, PTL

\* The runner implements a sender of superseding values: what the boiler has never goes back.
THEOREM Refinement == Spec => Owed!Spec
<1>1. Init => Owed!Init
  BY DEF Init, Owed!Init, Incomplete
<1>2. TypeOK /\ SatelliteInv /\ [Next]_vars => [Owed!Next]_Owed!vars
  <2> SUFFICES ASSUME TypeOK, SatelliteInv, [Next]_vars PROVE [Owed!Next]_Owed!vars
    OBVIOUS
  <2> USE DEF TypeOK, SatelliteInv, Owed!vars
  <2>1. CASE BoilerTakes
    <3>1. /\ pc = "sending" /\ zone # Incomplete /\ boiler' = snapshot /\ zone' = zone
          /\ boiler <= snapshot /\ snapshot <= zone
      BY <2>1 DEF BoilerTakes
    <3>2. CASE snapshot = boiler
      BY <3>1, <3>2
    <3>3. CASE boiler < snapshot
      BY <3>1, <3>3 DEF Owed!Next, Owed!Deliver
    <3>4. QED BY <3>1, <3>2, <3>3
  <2>2. CASE Command
    <3>1. CASE zone' = zone
      BY <2>2, <3>1 DEF Command
    <3>2. CASE zone' = changes'
      <4>1. /\ zone' > zone /\ zone' > boiler /\ zone' # Incomplete /\ zone' \in Nat
            /\ boiler' = boiler
        BY <2>2, <3>2 DEF Command, Incomplete
      <4>2. QED BY <4>1 DEF Owed!Next, Owed!Want
    <3>3. QED BY <2>2, <3>1, <3>2 DEF Command
  <2>3. CASE Restart
    <3>1. CASE zone' = Incomplete
      BY <2>3, <3>1 DEF Restart, Owed!Next, Owed!Withdraw
    <3>2. CASE zone' = changes'
      <4>1. /\ zone' > zone /\ zone' > boiler /\ zone' # Incomplete /\ zone' \in Nat
            /\ boiler' = boiler
        BY <2>3, <3>2 DEF Restart, Incomplete
      <4>2. QED BY <4>1 DEF Owed!Next, Owed!Want
    <3>3. QED BY <2>3, <3>1, <3>2 DEF Restart
  <2>4. CASE Round
    BY <2>4 DEF Round
  <2>5. ASSUME NEW ok \in BOOLEAN, SendDone(ok) PROVE UNCHANGED <<zone, boiler>>
    BY <2>5 DEF SendDone
  <2>6. CASE Notified \/ Wake \/ Stop
    BY <2>6 DEF Notified, Wake, Stop
  <2>7. CASE UNCHANGED vars
    BY <2>7 DEF vars
  <2>8. QED BY <2>1, <2>2, <2>3, <2>4, <2>5, <2>6, <2>7 DEF Next
<1>3. QED BY <1>1, <1>2, Typing, Inductive, PTL DEF Spec, Owed!Spec
=============================================================================
