--------------------------- MODULE FlowFallback_proofs ---------------------------
(***************************************************************************)
(* Theorems about FlowFallback, for every heating curve, patience, set of  *)
(* targets and bound.                                                      *)
(***************************************************************************)
EXTENDS FlowFallback, TLAPS

\* Sequences used as queues.
LEMMA QueueTypes ==
  ASSUME NEW S, NEW q \in Seq(S)
  PROVE  /\ <<>> \in Seq(S)
         /\ \A e \in S : Append(q, e) \in Seq(S)
         /\ q # <<>> => Head(q) \in S /\ Tail(q) \in Seq(S)
  OBVIOUS

\* What a queue holds after an arrival.
LEMMA AppendElements ==
  ASSUME NEW S, NEW q \in Seq(S), NEW e \in S
  PROVE  /\ Len(q) \in Nat
         /\ Len(Append(q, e)) = Len(q) + 1
         /\ Append(q, e)[Len(q) + 1] = e
         /\ \A i \in 1 .. Len(q) : Append(q, e)[i] = q[i]
  OBVIOUS

\* What a queue holds after its first element left.
LEMMA TailElements ==
  ASSUME NEW S, NEW q \in Seq(S), q # <<>>
  PROVE  /\ Len(q) \in Nat /\ Len(q) >= 1
         /\ Len(Tail(q)) = Len(q) - 1
         /\ Head(q) = q[1]
         /\ \A i \in 1 .. Len(q) - 1 : Tail(q)[i] = q[i + 1]
  OBVIOUS

\* A clamped target is within the range.
LEMMA ClampedRange ==
  ASSUME NEW t \in Int
  PROVE  /\ MinFlow \in Int /\ HighFlow \in Int /\ MinFlow <= HighFlow
         /\ Clamped(t) \in MinFlow .. HighFlow
  BY CurveAssumption DEF Clamped, HighFlow, Least, Greatest

\* Rounded division.
LEMMA Division ==
  ASSUME NEW n \in Int, NEW d \in Nat \ {0}
  PROVE  /\ n \div d \in Int
         /\ d * (n \div d) <= n /\ n < d * (n \div d) + d
  OBVIOUS

LEMMA ProductOrder ==
  ASSUME NEW d \in Nat \ {0}, NEW a \in Int, NEW b \in Int, d * a < d * b
  PROVE  a < b
  OBVIOUS

\* The outdoor temperature of a target gives that target.
LEMMA OutdoorGives ==
  ASSUME NEW t \in MinFlow .. HighFlow
  PROVE  Outdoor(t) \in Int /\ Gives(Outdoor(t), t)
<1> DEFINE n == 20 * (t - 198) + Slope
           d == 2 * Slope
           q == n \div d
<1>1. /\ Slope \in Nat \ {0} /\ t \in Int /\ n \in Int /\ d \in Nat \ {0}
      /\ t >= MinFlow /\ t <= 198 + 50 * Slope /\ t >= 198 - 60 * Slope
  BY ClampedRange, CurveAssumption DEF HighFlow, Least
<1>2. q \in Int /\ d * q <= n /\ n < d * q + d
  BY <1>1, Division
<1>3. q <= 500
  <2>1. n < d * 501
    BY <1>1
  <2>2. d * q < d * 501
    BY <1>1, <1>2, <2>1
  <2>3. QED BY <1>1, <1>2, <2>2, ProductOrder
<1>4. q >= -600
  <2>1. d * (-600) < n
    BY <1>1
  <2>2. d * (q + 1) = d * q + d
    BY <1>1, <1>2
  <2>3. d * (-600) < d * (q + 1)
    BY <1>1, <1>2, <2>1, <2>2
  <2>4. QED BY <1>1, <1>2, <2>3, ProductOrder
<1>5. Outdoor(t) = 200 - q
  <2>1. 200 - q >= -300 /\ 200 - q <= 800
    BY <1>2, <1>3, <1>4
  <2>2. QED BY <1>2, <2>1 DEF Outdoor, Least, Greatest
<1>6. Slope * (200 - Outdoor(t)) = Slope * q
  BY <1>1, <1>2, <1>5
<1>7. d * q = 2 * (Slope * q) /\ Slope * q \in Int
  BY <1>1, <1>2
<1>8. Gives(Outdoor(t), t)
  BY <1>1, <1>2, <1>6, <1>7 DEF Gives
<1>9. QED BY <1>2, <1>5, <1>8

-----------------------------------------------------------------------------
(* Types.                                                                   *)

\* The patience is no missing time.
LEMMA PatienceFits ==
  /\ Patience \in Nat /\ Patience < Nothing
  /\ Nothing = 99999 /\ Nothing \in Nat
BY FallbackAssumption DEF Nothing

\* Minutes stay minutes as time passes.
LEMMA MinuteTypes ==
  /\ 0 \in Minutes /\ Nothing \in Minutes
  /\ Minutes \subseteq Int
  /\ \A m \in Minutes : Later(m) \in Minutes
BY PatienceFits DEF Minutes, Later, Least

LEMMA SetTargetTypes ==
  ASSUME TypeOK, NEW task \in Tasks, NEW t \in Int, SetTarget(task, t)
  PROVE  /\ target' \in MinFlow .. HighFlow
         /\ line' \in Seq(Tasks \cup {"loop"})
         /\ asked' \in [Tasks -> Int]
<1>1. Clamped(t) \in MinFlow .. HighFlow /\ Outdoor(Clamped(t)) \in Int
  BY ClampedRange, OutdoorGives
<1>2. line' \in Seq(Tasks \cup {"loop"})
  BY QueueTypes DEF SetTarget, TypeOK
<1>3. QED BY <1>1, <1>2 DEF SetTarget, TypeOK

LEMMA StartTypes ==
  ASSUME NEW t \in MinFlow .. HighFlow \cup {Nothing}
  PROVE  OutdoorAtStart(t) \in Int
  BY OutdoorGives DEF OutdoorAtStart, Nothing

LEMMA GreetingTypes == Greeting \in Seq(Messages)
<1>1. <<>> \in Seq(Messages) /\ \A m \in Messages : <<m>> \in Seq(Messages)
  OBVIOUS
<1>2. \A k \in StatusKinds : Message(k, 0) \in Messages
  BY DEF Message, Messages
<1>3. QED BY <1>1, <1>2 DEF Greeting, StatusKinds

LEMMA PublishTypes ==
  ASSUME TypeOK, NEW m \in Messages, Publish(m), awayFor' \in Minutes
  PROVE  TypeOK'
<1>1. inbox' \in Seq(Messages)
  BY QueueTypes DEF Publish, TypeOK
<1>2. QED BY <1>1 DEF Publish, TypeOK, zoneVars, writerVars

LEMMA SavesTypes ==
  ASSUME TypeOK, Saves, demand' \in Int, target' \in MinFlow .. HighFlow \cup {Nothing}
  PROVE  saved' \in [demand : Int, target : MinFlow .. HighFlow \cup {Nothing}]
  BY DEF Saves, TypeOK

\* The type invariant.
THEOREM Typing == Spec => []TypeOK
<1>1. Init => TypeOK
  <2> SUFFICES ASSUME Init PROVE TypeOK
    OBVIOUS
  <2>1. demand \in Int /\ target \in MinFlow .. HighFlow \cup {Nothing}
    <3>1. Clamped(MaxFlow) \in MinFlow .. HighFlow
      BY ClampedRange, CurveAssumption
    <3>2. QED BY <3>1 DEF Init, Off, Nothing
  <2>2. desired \in Int
    BY <2>1, StartTypes DEF Init
  <2>3. inbox \in Seq(Messages)
    BY GreetingTypes DEF Init
  <2>4. /\ awayFor \in Minutes /\ offlineFor \in Minutes
        /\ line \in Seq(Tasks \cup {"loop"}) /\ asked \in [Tasks -> Int]
        /\ saved \in [demand : Int, target : MinFlow .. HighFlow \cup {Nothing}]
    <3>1. <<>> \in Seq(Tasks \cup {"loop"}) /\ Nothing \in Int
      BY DEF Nothing
    <3>2. QED BY <2>1, <3>1, MinuteTypes DEF Init
  <2>5. /\ up \in BOOLEAN /\ fallingBack \in BOOLEAN
        /\ writing \in Tasks \cup {"loop", "nobody"}
        /\ report \in Int /\ boiler \in [demand : Int, outdoor : Int]
        /\ messages \in Nat /\ stops \in Nat
    <3>1. Nothing \in Int
      BY DEF Nothing
    <3>2. up \in BOOLEAN /\ fallingBack \in BOOLEAN /\ writing \in Tasks \cup {"loop", "nobody"}
      BY Zenon DEF Init
    <3>3. report \in Int /\ boiler \in [demand : Int, outdoor : Int]
      BY <3>1, Zenon DEF Init
    <3>4. messages \in Nat /\ stops \in Nat
      BY DEF Init
    <3>5. QED BY <3>2, <3>3, <3>4
  <2>6. QED BY <2>1, <2>2, <2>3, <2>4, <2>5 DEF TypeOK
<1>2. TypeOK /\ [Next]_vars => TypeOK'
  <2> SUFFICES ASSUME TypeOK, [Next]_vars PROVE TypeOK'
    OBVIOUS
  <2>0. \A k \in StatusKinds \cup {"demand", "target", "outside"}, v \in Int : Message(k, v) \in Messages
    BY DEF Message, Messages
  <2>1. CASE GoesOnline
    BY <2>0, <2>1, MinuteTypes, PublishTypes DEF GoesOnline, StatusKinds
  <2>2. CASE GoesOffline
    <3>1. awayFor' \in Minutes
      BY <2>2, MinuteTypes DEF GoesOffline, TypeOK
    <3>2. Message("offline", 0) \in Messages /\ Publish(Message("offline", 0))
      BY <2>0, <2>2 DEF GoesOffline, StatusKinds
    <3>3. QED BY <3>1, <3>2, PublishTypes
  <2>3. CASE Commands
    <3>1. awayFor' \in Minutes
      BY <2>3 DEF Commands, TypeOK
    <3>2. PICK m \in Messages : Publish(m)
      <4>1. CASE \E v \in {Off, On} : Publish(Message("demand", v))
        BY <2>0, <4>1 DEF Off, On
      <4>2. CASE \E t \in Targets : Publish(Message("target", t))
        BY <2>0, <4>2, FallbackAssumption
      <4>3. CASE \E t \in Targets : Publish(Message("outside", t))
        BY <2>0, <4>3, FallbackAssumption
      <4>4. QED BY <2>3, <4>1, <4>2, <4>3 DEF Commands
    <3>3. QED BY <3>1, <3>2, PublishTypes
  <2>4. CASE Handle
    <3>1. inbox # <<>> /\ inbox' = Tail(inbox) /\ Head(inbox) \in Messages /\ inbox' \in Seq(Messages)
      BY <2>4, QueueTypes DEF Handle, TypeOK
    <3>2. Head(inbox).value \in Int
      BY <3>1 DEF Messages
    <3>3. offlineFor' \in Minutes /\ fallingBack' \in BOOLEAN
      BY <2>4, MinuteTypes DEF Handle, OnlineSeen, OfflineSeen, TypeOK
    <3>4. /\ demand' \in Int /\ target' \in MinFlow .. HighFlow \cup {Nothing}
          /\ line' \in Seq(Tasks \cup {"loop"}) /\ asked' \in [Tasks -> Int]
          /\ saved' \in [demand : Int, target : MinFlow .. HighFlow \cup {Nothing}]
      <4>1. CASE SetTarget("mqtt", Head(inbox).value) /\ UNCHANGED demand /\ Saves
        BY <3>2, <4>1, SetTargetTypes, SavesTypes DEF TypeOK, Tasks
      <4>2. CASE demand' = Head(inbox).value /\ UNCHANGED target /\ Saves /\ UNCHANGED <<line, asked>>
        BY <3>2, <4>2, SavesTypes DEF TypeOK
      <4>3. CASE UNCHANGED <<zoneVars, line, asked>>
        BY <4>3 DEF TypeOK, zoneVars
      <4>4. QED BY <2>4, <4>1, <4>2, <4>3 DEF Handle, OutsideCommand
    <3>5. UNCHANGED <<homeVars, up, writing, desired, report, boiler, stops>>
      BY <2>4 DEF Handle
    <3>6. QED BY <3>1, <3>3, <3>4, <3>5 DEF TypeOK, homeVars
  <2>5. CASE CheckFallback
    <3>1. SetTarget("diagnostics", Fallback) /\ Fallback \in Int /\ "diagnostics" \in Tasks /\ demand' \in Int
      BY <2>5, CurveAssumption DEF CheckFallback, Tasks, On
    <3>2. saved' \in [demand : Int, target : MinFlow .. HighFlow \cup {Nothing}]
      BY <2>5, <3>1, SetTargetTypes, SavesTypes DEF CheckFallback
    <3>3. QED BY <2>5, <3>1, <3>2, SetTargetTypes DEF CheckFallback, TypeOK, homeVars
  <2>6. CASE Grant
    <3>1. Head(line) \in Tasks \cup {"loop"} /\ line' \in Seq(Tasks \cup {"loop"})
      BY <2>6, QueueTypes DEF Grant, TypeOK
    <3>2. desired' \in Int
      BY <2>6, <3>1 DEF Grant, TypeOK
    <3>3. QED BY <2>6, <3>1, <3>2 DEF Grant, TypeOK, homeVars, zoneVars
  <2>7. CASE LoopAsks
    <3>1. line' \in Seq(Tasks \cup {"loop"})
      BY <2>7, QueueTypes DEF LoopAsks, TypeOK
    <3>2. QED BY <2>7, <3>1 DEF LoopAsks, TypeOK, homeVars, zoneVars
  <2>8. CASE SondeHeard
    BY <2>8 DEF SondeHeard, TypeOK, homeVars, zoneVars, writerVars
  <2>9. CASE Written
    BY <2>9 DEF Written, TypeOK, homeVars, zoneVars
  <2>10. CASE Reports
    BY <2>10 DEF Reports, TypeOK, homeVars, zoneVars, writerVars
  <2>11. CASE ReportHeard
    BY <2>11 DEF ReportHeard, TypeOK, homeVars, zoneVars, writerVars
  <2>12. CASE Tick
    BY <2>12, MinuteTypes DEF Tick, TypeOK, zoneVars, writerVars
  <2>13. CASE Stop
    <3>1. <<>> \in Seq(Messages) /\ <<>> \in Seq(Tasks \cup {"loop"})
      OBVIOUS
    <3>2. stops' \in Nat /\ report' \in Int
      BY <2>13 DEF Stop, TypeOK, Nothing
    <3>3. up' \in BOOLEAN /\ fallingBack' \in BOOLEAN /\ writing' \in Tasks \cup {"loop", "nobody"}
      BY <2>13, Zenon DEF Stop
    <3>4. /\ inbox' \in Seq(Messages) /\ line' \in Seq(Tasks \cup {"loop"}) /\ offlineFor' \in Minutes
          /\ UNCHANGED <<awayFor, messages, demand, target, saved, asked, desired, boiler>>
      BY <2>13, <3>1, MinuteTypes DEF Stop, homeVars, zoneVars
    <3>5. QED BY <3>2, <3>3, <3>4, Zenon DEF TypeOK
  <2>14. CASE Start
    <3>1. saved.demand \in Int /\ saved.target \in MinFlow .. HighFlow \cup {Nothing}
      BY DEF TypeOK
    <3>2. /\ demand' \in Int /\ target' \in MinFlow .. HighFlow \cup {Nothing}
          /\ desired' \in Int /\ inbox' \in Seq(Messages) /\ up' \in BOOLEAN
          /\ UNCHANGED <<homeVars, offlineFor, fallingBack, saved, line, asked, writing, report, boiler, stops>>
      BY <2>14, <3>1, StartTypes, GreetingTypes DEF Start
    <3>3. UNCHANGED <<awayFor, messages, offlineFor, fallingBack, saved, line, asked, writing, report,
                      boiler, stops>>
      BY <3>2 DEF homeVars
    <3>4. QED BY <3>2, <3>3, Zenon DEF TypeOK
  <2>15. CASE UNCHANGED vars
    BY <2>15 DEF vars, TypeOK, homeVars, zoneVars, writerVars
  <2>16. QED BY <2>1, <2>2, <2>3, <2>4, <2>5, <2>6, <2>7, <2>8, <2>9, <2>10, <2>11, <2>12, <2>13,
              <2>14, <2>15 DEF Next
<1>3. QED BY <1>1, <1>2, PTL DEF Spec

-----------------------------------------------------------------------------
(* The temperature set last.                                                *)

\* A task that sets the target is the last in the line.
LEMMA LastSets ==
  ASSUME TypeOK, NEW task \in Tasks, NEW t \in Int, SetTarget(task, t)
  PROVE  LastWriteGivesTarget'
<1>1. /\ line \in Seq(Tasks \cup {"loop"}) /\ line' = Append(line, task)
      /\ target' = Clamped(t) /\ asked'[task] = Outdoor(Clamped(t))
  BY DEF TypeOK, SetTarget
<1>2. Gives(asked'[task], target')
  BY <1>1, ClampedRange, OutdoorGives
<1>3. Len(line) \in Nat /\ Len(line') = Len(line) + 1 /\ line'[Len(line) + 1] = task
  BY <1>1, AppendElements
<1>4. Len(line) + 1 \in Setting'
  BY <1>3 DEF Setting
<1>5. \A i \in Setting' : (\A j \in Setting' : j <= i) => i = Len(line) + 1
  BY <1>3, <1>4 DEF Setting
<1>6. \A i \in Setting' : (\A j \in Setting' : j <= i) => Gives(asked'[line'[i]], target')
  BY <1>2, <1>3, <1>5
<1>7. QED BY <1>4, <1>6 DEF LastWriteGivesTarget

\* The poll loop in the line changes nothing.
LEMMA LoopSetsNothing ==
  ASSUME TypeOK, LastWriteGivesTarget, LoopAsks
  PROVE  LastWriteGivesTarget'
<1>1. /\ line \in Seq(Tasks \cup {"loop"}) /\ line' = Append(line, "loop")
      /\ UNCHANGED <<up, target, desired, asked>>
  BY DEF TypeOK, LoopAsks, zoneVars
<1>2. /\ Len(line) \in Nat /\ Len(line') = Len(line) + 1 /\ line'[Len(line) + 1] = "loop"
      /\ \A i \in 1 .. Len(line) : line'[i] = line[i]
  BY <1>1, AppendElements
<1>3. "loop" \notin Tasks
  BY DEF Tasks
<1>4. Setting' = Setting /\ \A i \in Setting : line'[i] = line[i]
  BY <1>2, <1>3 DEF Setting
<1>5. QED BY <1>1, <1>4 DEF LastWriteGivesTarget

\* Whoever gets the lock writes what it asked for.
LEMMA HeadWrites ==
  ASSUME TypeOK, LastWriteGivesTarget, Grant
  PROVE  LastWriteGivesTarget'
<1>1. /\ line \in Seq(Tasks \cup {"loop"}) /\ line # <<>> /\ line' = Tail(line)
      /\ UNCHANGED <<up, target, asked>>
      /\ desired' = IF Head(line) \in Tasks THEN asked[Head(line)] ELSE desired
  BY DEF TypeOK, Grant, zoneVars
<1>2. /\ Len(line) \in Nat /\ Len(line) >= 1 /\ Len(line') = Len(line) - 1 /\ Head(line) = line[1]
      /\ \A i \in 1 .. Len(line) - 1 : line'[i] = line[i + 1]
  BY <1>1, TailElements
<1>3. \A i \in Setting' : i \in Int /\ i + 1 \in Setting /\ line'[i] = line[i + 1]
  BY <1>2 DEF Setting
<1>4. \A k \in Setting : k \in Int /\ (k = 1 \/ k - 1 \in Setting')
  BY <1>2 DEF Setting
<1> SUFFICES ASSUME up, target # Nothing
             PROVE  /\ Setting' = {} => Gives(desired', target)
                    /\ \A i \in Setting' : (\A j \in Setting' : j <= i) => Gives(asked[line'[i]], target)
  BY <1>1 DEF LastWriteGivesTarget
<1>5. ASSUME Setting' = {} PROVE Gives(desired', target)
  <2>1. \A k \in Setting : k = 1
    BY <1>4, <1>5
  <2>2. CASE 1 \in Setting
    <3>1. line[1] \in Tasks /\ \A k \in Setting : k <= 1
      BY <2>1, <2>2 DEF Setting
    <3>2. QED BY <1>1, <1>2, <2>2, <3>1 DEF LastWriteGivesTarget
  <2>3. CASE 1 \notin Setting
    <3>1. Setting = {} /\ Head(line) \notin Tasks
      BY <1>2, <2>1, <2>3 DEF Setting
    <3>2. QED BY <1>1, <3>1 DEF LastWriteGivesTarget
  <2>4. QED BY <2>2, <2>3
<1>6. ASSUME NEW i \in Setting', \A j \in Setting' : j <= i PROVE Gives(asked[line'[i]], target)
  <2>1. i \in Int /\ i >= 1 /\ i + 1 \in Setting /\ line'[i] = line[i + 1]
    BY <1>3 DEF Setting
  <2>2. \A k \in Setting : k <= i + 1
    BY <1>4, <1>6, <2>1
  <2>3. QED BY <2>1, <2>2 DEF LastWriteGivesTarget
<1>7. QED BY <1>5, <1>6

\* At the start the sonde has the target of the state file.
LEMMA StartGives ==
  ASSUME NEW t \in MinFlow .. HighFlow \cup {Nothing}, t # Nothing
  PROVE  Gives(OutdoorAtStart(t), t)
  BY OutdoorGives DEF OutdoorAtStart

\* The temperature set last gives the zone's flow target.
THEOREM LastWrite == Spec => []LastWriteGivesTarget
<1>1. TypeOK /\ Init => FlowInv
  <2> SUFFICES ASSUME TypeOK, Init PROVE FlowInv
    OBVIOUS
  <2>1. Setting = {} /\ desired = OutdoorAtStart(target) /\ up
    BY DEF Init, Setting
  <2>2. target # Nothing => Gives(desired, target)
    BY <2>1, StartGives DEF TypeOK
  <2>3. QED BY <2>1, <2>2 DEF FlowInv, LastWriteGivesTarget
<1>2. TypeOK /\ TypeOK' /\ FlowInv /\ [Next]_vars => FlowInv'
  <2> SUFFICES ASSUME TypeOK, TypeOK', FlowInv, [Next]_vars PROVE FlowInv'
    OBVIOUS
  <2>0. LastWriteGivesTarget /\ (~up => line = <<>> /\ writing = "nobody")
    BY DEF FlowInv
  <2>1. ASSUME UNCHANGED <<up, target, line, asked, writing, desired>>
        PROVE  FlowInv'
    BY <2>0, <2>1 DEF FlowInv, LastWriteGivesTarget, Setting
  <2>2. CASE GoesOnline \/ GoesOffline \/ Commands
    BY <2>1, <2>2 DEF GoesOnline, GoesOffline, Commands, Publish, zoneVars, writerVars
  <2>3. CASE Handle
    <3>1. up /\ up' = up /\ UNCHANGED <<writing, desired>>
      BY <2>3 DEF Handle, Free
    <3>2. CASE SetTarget("mqtt", Head(inbox).value)
      <4>1. inbox # <<>> /\ inbox \in Seq(Messages)
        BY <2>3 DEF Handle, TypeOK
      <4>2. Head(inbox) \in Messages
        BY <4>1, QueueTypes
      <4>3. "mqtt" \in Tasks /\ Head(inbox).value \in Int
        BY <4>2 DEF Messages, Tasks
      <4>4. QED BY <3>1, <3>2, <4>3, LastSets DEF FlowInv
    <3>3. CASE UNCHANGED <<target, line, asked>>
      BY <2>1, <3>1, <3>3
    <3>4. QED BY <2>3, <3>2, <3>3 DEF Handle, OutsideCommand, zoneVars
  <2>4. CASE CheckFallback
    <3>1. /\ up /\ up' = up /\ SetTarget("diagnostics", Fallback)
          /\ "diagnostics" \in Tasks /\ Fallback \in Int
      BY <2>4, CurveAssumption DEF CheckFallback, Free, Tasks
    <3>2. QED BY <3>1, LastSets DEF FlowInv
  <2>5. CASE Grant
    <3>1. up /\ up' = up
      BY <2>5 DEF Grant
    <3>2. QED BY <2>0, <2>5, <3>1, HeadWrites DEF FlowInv
  <2>6. CASE LoopAsks
    <3>1. up /\ up' = up
      BY <2>6 DEF LoopAsks, Free
    <3>2. QED BY <2>0, <2>6, <3>1, LoopSetsNothing DEF FlowInv
  <2>7. CASE Written
    <3>1. writing' = "nobody" /\ UNCHANGED <<up, target, line, asked, desired>>
      BY <2>7 DEF Written, zoneVars
    <3>2. QED BY <2>0, <3>1 DEF FlowInv, LastWriteGivesTarget, Setting
  <2>8. CASE SondeHeard \/ Reports \/ ReportHeard
    BY <2>1, <2>8 DEF SondeHeard, Reports, ReportHeard, zoneVars, writerVars
  <2>9. CASE Tick
    BY <2>1, <2>9 DEF Tick, zoneVars, writerVars
  <2>10. CASE Stop
    BY <2>10 DEF Stop, FlowInv, LastWriteGivesTarget
  <2>11. CASE Start
    <3>1. /\ Setting' = {} /\ desired' = OutdoorAtStart(target') /\ up'
      BY <2>0, <2>11 DEF Start, Setting
    <3>2. target' # Nothing => Gives(desired', target')
      BY <3>1, StartGives DEF TypeOK
    <3>3. QED BY <3>1, <3>2 DEF FlowInv, LastWriteGivesTarget
  <2>12. CASE UNCHANGED vars
    BY <2>1, <2>12 DEF vars, zoneVars, writerVars
  <2>13. QED BY <2>2, <2>3, <2>4, <2>5, <2>6, <2>7, <2>8, <2>9, <2>10, <2>11, <2>12 DEF Next
<1>3. FlowInv => LastWriteGivesTarget
  BY DEF FlowInv
<1>4. QED BY <1>1, <1>2, <1>3, Typing, PTL DEF Spec

-----------------------------------------------------------------------------
(* The time of the fallback.                                                *)

\* What a message that arrives leaves true of the queue.
LEMMA Arrival ==
  ASSUME TypeOK, NEW m \in Messages, inbox' = Append(inbox, m)
  PROVE  /\ Returning \/ m.kind = "online" => Returning'
         /\ OfflineTrue /\ awayFor = Nothing /\ m.kind # "offline" => OfflineTrue'
<1>1. inbox \in Seq(Messages)
  BY DEF TypeOK
<1>2. /\ Len(inbox) \in Nat /\ Len(inbox') = Len(inbox) + 1 /\ inbox'[Len(inbox) + 1] = m
      /\ \A i \in 1 .. Len(inbox) : inbox'[i] = inbox[i]
  BY <1>1, AppendElements
<1>3. \A i \in 1 .. Len(inbox) : i \in 1 .. Len(inbox') /\ (Online(i) => Online(i)')
  BY <1>2 DEF Online
<1>4. Returning => Returning'
  BY <1>3 DEF Returning
<1>5. m.kind = "online" => Returning'
  BY <1>2 DEF Returning, Online
<1>6. ASSUME OfflineTrue, awayFor = Nothing, m.kind # "offline",
             NEW i \in 1 .. Len(inbox'), inbox'[i].kind = "offline"
      PROVE  \E j \in i + 1 .. Len(inbox') : Online(j)'
  <2>1. i \in 1 .. Len(inbox) /\ inbox[i].kind = "offline"
    BY <1>2, <1>6
  <2>2. PICK j \in i + 1 .. Len(inbox) : Online(j)
    BY <1>6, <2>1 DEF OfflineTrue
  <2>3. j \in i + 1 .. Len(inbox') /\ Online(j)'
    BY <1>2, <1>3, <2>1, <2>2
  <2>4. QED BY <2>3
<1>7. OfflineTrue /\ awayFor = Nothing /\ m.kind # "offline" => OfflineTrue'
  BY <1>6 DEF OfflineTrue
<1>8. QED BY <1>4, <1>5, <1>7

\* What the first message, once handled, leaves true of the queue.
LEMMA Departure ==
  ASSUME TypeOK, inbox # <<>>, inbox' = Tail(inbox), awayFor' = awayFor, OfflineTrue
  PROVE  /\ OfflineTrue'
         /\ Returning /\ Head(inbox).kind # "online" => Returning'
         /\ Head(inbox).kind = "offline" => awayFor # Nothing \/ Returning'
<1>1. inbox \in Seq(Messages)
  BY DEF TypeOK
<1>2. /\ Len(inbox) \in Nat /\ Len(inbox) >= 1 /\ Len(inbox') = Len(inbox) - 1 /\ Head(inbox) = inbox[1]
      /\ \A i \in 1 .. Len(inbox) - 1 : inbox'[i] = inbox[i + 1]
  BY <1>1, TailElements
<1>3. \A j \in 2 .. Len(inbox) : Online(j) => j - 1 \in 1 .. Len(inbox') /\ Online(j - 1)'
  <2> SUFFICES ASSUME NEW j \in 2 .. Len(inbox), Online(j)
               PROVE  j - 1 \in 1 .. Len(inbox') /\ Online(j - 1)'
    OBVIOUS
  <2>1. j - 1 \in 1 .. Len(inbox) - 1 /\ (j - 1) + 1 = j
    BY <1>2
  <2>2. inbox'[j - 1] = inbox[j]
    BY <1>2, <2>1
  <2>3. QED BY <1>2, <2>1, <2>2 DEF Online
<1>4. ASSUME awayFor = Nothing, NEW i \in 1 .. Len(inbox'), inbox'[i].kind = "offline"
      PROVE  \E j \in i + 1 .. Len(inbox') : Online(j)'
  <2>1. i + 1 \in 1 .. Len(inbox) /\ inbox[i + 1].kind = "offline"
    BY <1>2, <1>4
  <2>2. PICK j \in i + 2 .. Len(inbox) : Online(j)
    BY <1>4, <2>1 DEF OfflineTrue
  <2>3. j - 1 \in i + 1 .. Len(inbox') /\ Online(j - 1)'
    BY <1>2, <1>3, <2>1, <2>2
  <2>4. QED BY <2>3
<1>5. OfflineTrue'
  BY <1>4 DEF OfflineTrue
<1>6. Returning /\ Head(inbox).kind # "online" => Returning'
  <2> SUFFICES ASSUME Returning, Head(inbox).kind # "online" PROVE Returning'
    OBVIOUS
  <2>1. PICK j \in 1 .. Len(inbox) : Online(j)
    BY DEF Returning
  <2>2. j \in 2 .. Len(inbox)
    BY <1>2, <2>1 DEF Online
  <2>3. QED BY <1>3, <2>1, <2>2 DEF Returning
<1>7. Head(inbox).kind = "offline" => awayFor # Nothing \/ Returning'
  <2> SUFFICES ASSUME Head(inbox).kind = "offline", awayFor = Nothing PROVE Returning'
    OBVIOUS
  <2>1. 1 \in 1 .. Len(inbox) /\ inbox[1].kind = "offline"
    BY <1>2
  <2>2. PICK j \in 2 .. Len(inbox) : Online(j)
    BY <2>1 DEF OfflineTrue
  <2>3. QED BY <1>3, <2>2 DEF Returning
<1>8. QED BY <1>5, <1>6, <1>7

\* The first message a subscriber gets is true.
LEMMA GreetingTrue ==
  ASSUME NEW i \in 1 .. Len(Greeting), Greeting[i].kind = "offline"
  PROVE  awayFor # Nothing
<1>1. CASE Retained
  <2>1. /\ Len(Greeting) = 1
        /\ Greeting[1] = Message(IF awayFor = Nothing THEN "online" ELSE "offline", 0)
    BY <1>1 DEF Greeting
  <2>2. Message(IF awayFor = Nothing THEN "online" ELSE "offline", 0).kind = "offline" =>
          awayFor # Nothing
    BY DEF Message
  <2>3. QED BY <2>1, <2>2
<1>2. CASE ~Retained
  BY <1>2 DEF Greeting
<1>3. QED BY <1>1, <1>2

\* The adapter does not count from before Home Assistant went away.
THEOREM Counting == Spec => []TimeInv
<1>0. Patience \in Nat /\ Patience < Nothing /\ Nothing = 99999
  BY PatienceFits
<1>1. Init => TimeInv
  <2> SUFFICES ASSUME Init PROVE TimeInv
    OBVIOUS
  <2>1. OfflineTrue
    BY GreetingTrue DEF Init, OfflineTrue
  <2>2. QED BY <2>1 DEF Init, TimeInv, CountTrue
<1>2. TypeOK /\ TypeOK' /\ TimeInv /\ [Next]_vars => TimeInv'
  <2> SUFFICES ASSUME TypeOK, TypeOK', TimeInv, [Next]_vars PROVE TimeInv'
    OBVIOUS
  <2>0. OfflineTrue /\ CountTrue /\ (~up => inbox = <<>> /\ offlineFor = Nothing)
    BY DEF TimeInv
  <2>1. ASSUME UNCHANGED <<up, inbox, awayFor, offlineFor>> PROVE TimeInv'
    BY <2>0, <2>1 DEF TimeInv, OfflineTrue, CountTrue, Returning, Online
  <2>2. ASSUME inbox' = <<>> PROVE OfflineTrue'
    BY <2>2 DEF OfflineTrue
  <2>3. ASSUME NEW m \in Messages, Publish(m)
        PROVE  /\ up' = up /\ offlineFor' = offlineFor
               /\ inbox' = IF up THEN Append(inbox, m) ELSE inbox
    BY <2>3 DEF Publish
  <2>4. \A k \in StatusKinds \cup {"demand", "target", "outside"}, v \in Int :
          Message(k, v) \in Messages /\ Message(k, v).kind = k
    BY DEF Message, Messages
  <2>5. ASSUME ~up, up' = up, offlineFor' = offlineFor, inbox' = inbox PROVE TimeInv'
    BY <2>0, <2>2, <2>5 DEF TimeInv, CountTrue
  <2>6. CASE GoesOnline
    <3>1. Message("online", 0) \in Messages /\ Message("online", 0).kind = "online"
      BY <2>4 DEF StatusKinds
    <3>2. Publish(Message("online", 0)) /\ awayFor' = Nothing
      BY <2>6 DEF GoesOnline
    <3>3. CASE up
      <4>1. inbox' = Append(inbox, Message("online", 0)) /\ inbox \in Seq(Messages)
        BY <2>3, <3>1, <3>2, <3>3 DEF TypeOK
      <4>2. PICK n \in Nat : n = Len(inbox) + 1
        BY <4>1, AppendElements
      <4>3. Len(inbox') = n /\ inbox'[n] = Message("online", 0)
        BY <3>1, <4>1, <4>2, AppendElements
      <4>4. Online(n)'
        BY <3>1, <4>3 DEF Online
      <4>5. OfflineTrue'
        <5> SUFFICES ASSUME NEW i \in 1 .. Len(inbox'), inbox'[i].kind = "offline"
                     PROVE  \E j \in i + 1 .. Len(inbox') : Online(j)'
          BY DEF OfflineTrue
        <5>1. i # n
          BY <3>1, <4>3
        <5>2. n \in i + 1 .. Len(inbox')
          BY <4>3, <5>1
        <5>3. QED BY <4>4, <5>2
      <4>6. Returning'
        BY <3>1, <4>1, Arrival
      <4>7. QED BY <2>3, <3>1, <3>2, <3>3, <4>5, <4>6 DEF TimeInv, CountTrue
    <3>4. CASE ~up
      BY <2>3, <2>5, <3>1, <3>2, <3>4
    <3>5. QED BY <3>3, <3>4
  <2>7. CASE GoesOffline
    <3>1. Message("offline", 0) \in Messages
      BY <2>4 DEF StatusKinds
    <3>2. Publish(Message("offline", 0)) /\ awayFor' = IF awayFor = Nothing THEN 0 ELSE awayFor
      BY <2>7 DEF GoesOffline
    <3>3. CASE up
      <4>1. awayFor' # Nothing /\ OfflineTrue'
        BY <1>0, <3>2 DEF OfflineTrue
      <4>2. Returning => Returning'
        BY <2>3, <3>1, <3>2, <3>3, Arrival
      <4>3. QED BY <2>0, <2>3, <3>1, <3>2, <3>3, <4>1, <4>2 DEF TimeInv, CountTrue
    <3>4. CASE ~up
      BY <2>3, <2>5, <3>1, <3>2, <3>4
    <3>5. QED BY <3>3, <3>4
  <2>8. CASE Commands
    <3>1. PICK m \in Messages : Publish(m) /\ m.kind # "offline"
      <4>1. CASE \E v \in {Off, On} : Publish(Message("demand", v))
        BY <2>4, <4>1 DEF Off, On
      <4>2. CASE \E t \in Targets : Publish(Message("target", t))
        BY <2>4, <4>2, FallbackAssumption
      <4>3. CASE \E t \in Targets : Publish(Message("outside", t))
        BY <2>4, <4>3, FallbackAssumption
      <4>4. QED BY <2>8, <4>1, <4>2, <4>3 DEF Commands
    <3>2. awayFor = Nothing /\ awayFor' = awayFor
      BY <2>8 DEF Commands
    <3>3. CASE up
      <4>1. OfflineTrue' /\ (Returning => Returning')
        BY <2>0, <2>3, <3>1, <3>2, <3>3, Arrival
      <4>2. QED BY <2>0, <2>3, <3>1, <3>2, <3>3, <4>1 DEF TimeInv, CountTrue
    <3>4. CASE ~up
      BY <2>3, <2>5, <3>1, <3>4
    <3>5. QED BY <3>3, <3>4
  <2>9. CASE Handle
    <3>1. up /\ up' = up /\ inbox # <<>> /\ inbox' = Tail(inbox) /\ awayFor' = awayFor
      BY <2>9 DEF Handle, Free, homeVars
    <3>2. /\ OfflineTrue' /\ (Returning /\ Head(inbox).kind # "online" => Returning')
          /\ Head(inbox).kind = "offline" => awayFor # Nothing \/ Returning'
      BY <2>0, <3>1, Departure
    <3>3. CountTrue'
      <4>1. CASE Head(inbox).kind = "online" /\ OnlineSeen
        BY <4>1 DEF OnlineSeen, CountTrue
      <4>2. CASE Head(inbox).kind = "offline" /\ OfflineSeen
        <5>1. CASE offlineFor = Nothing
          <6>1. offlineFor' = 0
            BY <4>2, <5>1 DEF OfflineSeen
          <6>2. awayFor # Nothing => awayFor \in Nat
            BY <1>0 DEF TypeOK, Minutes
          <6>3. QED BY <3>1, <3>2, <4>2, <6>1, <6>2 DEF CountTrue
        <5>2. CASE offlineFor # Nothing
          <6>1. offlineFor' = offlineFor /\ Head(inbox).kind # "online"
            BY <4>2, <5>2 DEF OfflineSeen
          <6>2. QED BY <2>0, <3>1, <3>2, <6>1 DEF CountTrue
        <5>3. QED BY <5>1, <5>2
      <4>3. CASE Head(inbox).kind \in {"demand", "target", "outside"} /\ UNCHANGED offlineFor
        <5>1. Head(inbox).kind # "online"
          BY <4>3
        <5>2. QED BY <2>0, <3>1, <3>2, <4>3, <5>1 DEF CountTrue
      <4>4. QED BY <2>9, <4>1, <4>2, <4>3 DEF Handle
    <3>4. QED BY <3>1, <3>2, <3>3 DEF TimeInv
  <2>10. CASE CheckFallback \/ Grant \/ LoopAsks \/ SondeHeard \/ Written \/ Reports \/ ReportHeard
    BY <2>1, <2>10 DEF CheckFallback, Grant, LoopAsks, SondeHeard, Written, Reports, ReportHeard, homeVars
  <2>11. CASE Tick
    <3>1. /\ inbox' = inbox /\ up' = up /\ awayFor' = Later(awayFor) /\ offlineFor' = Later(offlineFor)
      BY <2>11 DEF Tick
    <3>2. /\ awayFor = Nothing \/ (awayFor \in Nat /\ awayFor <= Patience)
          /\ offlineFor = Nothing \/ (offlineFor \in Nat /\ offlineFor <= Patience)
      BY <1>0 DEF TypeOK, Minutes
    <3>3. /\ awayFor # Nothing <=> awayFor' # Nothing
          /\ offlineFor # Nothing <=> offlineFor' # Nothing
          /\ awayFor # Nothing /\ offlineFor # Nothing /\ offlineFor <= awayFor => offlineFor' <= awayFor'
      BY <1>0, <3>1, <3>2 DEF Later, Least
    <3>4. OfflineTrue' /\ (Returning => Returning')
      BY <2>0, <3>1, <3>3 DEF OfflineTrue, Returning, Online
    <3>5. QED BY <2>0, <3>1, <3>3, <3>4 DEF TimeInv, CountTrue
  <2>12. CASE Stop
    <3>1. inbox' = <<>> /\ offlineFor' = Nothing
      BY <2>12 DEF Stop
    <3>2. QED BY <2>2, <3>1 DEF TimeInv, CountTrue
  <2>13. CASE Start
    <3>1. up' /\ inbox' = Greeting /\ offlineFor' = Nothing /\ awayFor' = awayFor
      BY <2>0, <2>13 DEF Start, homeVars
    <3>2. OfflineTrue'
      BY <3>1, GreetingTrue DEF OfflineTrue
    <3>3. QED BY <3>1, <3>2 DEF TimeInv, CountTrue
  <2>14. CASE UNCHANGED vars
    BY <2>1, <2>14 DEF vars, homeVars
  <2>15. QED BY <2>6, <2>7, <2>8, <2>9, <2>10, <2>11, <2>12, <2>13, <2>14 DEF Next
<1>3. QED BY <1>1, <1>2, Typing, PTL DEF Spec

\* No fallback begins before its time.
THEOREM NotBefore == Spec => NotBeforeItsTime
<1>1. TypeOK /\ TimeInv /\ [Next]_vars =>
        [~fallingBack /\ fallingBack' =>
           Returning \/ (awayFor # Nothing /\ awayFor >= Patience)]_vars
  <2> SUFFICES ASSUME TypeOK, TimeInv, [Next]_vars, ~fallingBack, fallingBack'
               PROVE  Returning \/ (awayFor # Nothing /\ awayFor >= Patience)
    OBVIOUS
  <2>1. CheckFallback
    <3>1. ~Handle
      BY DEF Handle, OnlineSeen, OfflineSeen
    <3>2. ~GoesOnline /\ ~GoesOffline /\ ~Commands
      BY DEF GoesOnline, GoesOffline, Commands, Publish
    <3>3. /\ ~Grant /\ ~LoopAsks /\ ~SondeHeard /\ ~Written /\ ~Reports /\ ~ReportHeard
          /\ ~Tick /\ ~Stop /\ ~Start
      <4>1. ~Grant /\ ~LoopAsks /\ ~SondeHeard /\ ~Written
        BY DEF Grant, LoopAsks, SondeHeard, Written
      <4>2. ~Reports /\ ~ReportHeard /\ ~Tick
        BY DEF Reports, ReportHeard, Tick
      <4>3. ~Stop /\ ~Start
        BY DEF Stop, Start
      <4>4. QED BY <4>1, <4>2, <4>3
    <3>4. ~UNCHANGED vars
      BY DEF vars
    <3>5. QED BY <3>1, <3>2, <3>3, <3>4 DEF Next
  <2>2. offlineFor # Nothing /\ offlineFor >= Patience
    BY <2>1 DEF CheckFallback, FallsBackNow
  <2>3. Returning \/ (awayFor # Nothing /\ offlineFor <= awayFor)
    BY <2>2 DEF TimeInv, CountTrue
  <2>4. awayFor \in Int /\ offlineFor \in Int /\ Patience \in Int
    <3>1. Patience \in Int /\ Minutes \subseteq Int
      BY PatienceFits, MinuteTypes
    <3>2. QED BY <3>1 DEF TypeOK
  <2>5. QED BY <2>2, <2>3, <2>4
<1>2. QED BY <1>1, Typing, Counting, PTL DEF Spec, NotBeforeItsTime
=============================================================================
