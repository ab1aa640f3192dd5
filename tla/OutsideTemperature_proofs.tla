----------------------- MODULE OutsideTemperature_proofs -----------------------
(***************************************************************************)
(* What holds of OutsideTemperature for all intervals, numbers of callers  *)
(* and bounds: its types, the rate limit, that a temperature kept back is  *)
(* scheduled in time, and that the boiler never goes back to an older one. *)
(***************************************************************************)
EXTENDS OutsideTemperature, TLAPS

\* Sequences used as queues.
LEMMA QueueTypes ==
  ASSUME NEW S, NEW q \in Seq(S)
  PROVE  /\ <<>> \in Seq(S)
         /\ \A e \in S : Append(q, e) \in Seq(S)
         /\ q # <<>> => Head(q) \in S /\ Tail(q) \in Seq(S)
  OBVIOUS

\* What a queue holds after an arrival.
LEMMA AppendElements ==
  ASSUME NEW S, NEW q \in Seq(S), NEW e \in S
  PROVE  /\ Len(q) \in Nat
         /\ Len(Append(q, e)) = Len(q) + 1
         /\ Append(q, e)[Len(q) + 1] = e
         /\ \A i \in 1 .. Len(q) : Append(q, e)[i] = q[i]
  OBVIOUS

\* What a queue holds after its first element left.
LEMMA TailElements ==
  ASSUME NEW S, NEW q \in Seq(S), q # <<>>
  PROVE  /\ Len(q) \in Nat /\ Len(q) >= 1
         /\ Len(Tail(q)) = Len(q) - 1
         /\ Head(q) = q[1]
         /\ \A i \in 1 .. Len(q) - 1 : Tail(q)[i] = q[i + 1]
  OBVIOUS

\* What holds of every element still holds after the first one left.
LEMMA TailSubset ==
  ASSUME NEW S, NEW q \in Seq(S), q # <<>>
  PROVE  \A i \in 1 .. Len(Tail(q)) : i + 1 \in 1 .. Len(q) /\ Tail(q)[i] = q[i + 1]
  BY TailElements

\* Types.
THEOREM Typing == Spec => []TypeOK
<1>1. Init => TypeOK
  <2> SUFFICES ASSUME Init PROVE TypeOK
    OBVIOUS
  <2>1. desired \in Nat /\ changes \in Nat
    BY DEF Init, Unknown
  <2>2. line \in Seq(Nat)
    BY DEF Init
  <2>3. QED BY <2>1, <2>2 DEF Init, TypeOK
<1>2. TypeOK /\ [Next]_vars => TypeOK'
  <2> SUFFICES ASSUME TypeOK, [Next]_vars PROVE TypeOK'
    OBVIOUS
  <2> USE SchedulerAssumption DEF TypeOK, outcome
  <2>1. ASSUME line # <<>> PROVE Head(line) \in Nat /\ Tail(line) \in Seq(Nat)
    BY <2>1, QueueTypes
  <2>2. CASE Set
    <3>1. changes' \in Nat
      BY <2>2 DEF Set
    <3>2. line' \in Seq(Nat)
      BY <2>2, <3>1, QueueTypes DEF Set
    <3>3. QED BY <2>2, <3>1, <3>2 DEF Set
  <2>3. CASE LoopAsks
    <3>1. line' \in Seq(Nat)
      BY <2>3, QueueTypes DEF LoopAsks, Unknown
    <3>2. QED BY <2>3, <3>1 DEF LoopAsks
  <2>4. CASE Deferred
    <3>1. desired' \in Nat /\ line' \in Seq(Nat)
      BY <2>1, <2>4 DEF Deferred, Granted
    <3>2. wait' \in Nat
      BY <2>4 DEF Deferred, TooSoon, Least, Never
    <3>3. QED BY <2>4, <3>1, <3>2 DEF Deferred
  <2>5. CASE SetterSends
    <3>1. desired' \in Nat /\ snapshot' \in Nat /\ line' \in Seq(Nat)
      BY <2>1, <2>5 DEF SetterSends, Granted
    <3>2. QED BY <2>5, <3>1 DEF SetterSends
  <2>6. CASE NotDue
    <3>1. line' \in Seq(Nat)
      BY <2>1, <2>6 DEF NotDue, Granted
    <3>2. QED BY <2>6, <3>1 DEF NotDue
  <2>7. CASE LoopSends
    <3>1. line' \in Seq(Nat)
      BY <2>1, <2>7 DEF LoopSends, Granted
    <3>2. QED BY <2>7, <3>1 DEF LoopSends
  <2>8. CASE BoilerTakes
    BY <2>8 DEF BoilerTakes
  <2>9. ASSUME NEW ok \in BOOLEAN, SendDone(ok) PROVE TypeOK'
    <3>1. wait' \in Nat /\ desired' \in Nat /\ age' \in {Never} \cup 0 .. MinChange
      BY <2>9 DEF SendDone
    <3>2. QED BY <2>9, <3>1 DEF SendDone
  <2>10. CASE Tick
    <3>1. wait' \in Nat
      BY <2>10 DEF Tick, Left
    <3>2. age' \in {Never} \cup 0 .. MinChange
      BY <2>10 DEF Tick, Least, Never
    <3>3. QED BY <2>10, <3>1, <3>2 DEF Tick
  <2>11. CASE Restart
    <3>1. changes' \in Nat /\ desired' \in Nat /\ line' \in Seq(Nat)
      BY <2>11 DEF Restart, Unknown
    <3>2. age' \in {Never} \cup 0 .. MinChange /\ restarts' \in Nat
      BY <2>11 DEF Restart, Never
    <3>3. QED BY <2>11, <3>1, <3>2 DEF Restart
  <2>12. CASE UNCHANGED vars
    BY <2>12 DEF vars
  <2>13. QED
    BY <2>2, <2>3, <2>4, <2>5, <2>6, <2>7, <2>8, <2>9, <2>10, <2>11, <2>12 DEF Next, Grant
<1>3. QED BY <1>1, <1>2, PTL DEF Spec

\* Arrivals and departures keep the line newer than what is desired, and in order.
LEMMA LineGrows ==
  ASSUME TypeOK, LineInv, WriteInv, NEW v \in Nat,
         line' = Append(line, v), desired' = desired, boiler' = boiler,
         changes' \in Nat, changes' >= changes,
         \/ v = Unknown /\ desired # Unknown
         \/ v # Unknown /\ v > changes /\ v = changes'
  PROVE  LineInv'
<1>1. /\ Len(line) \in Nat
      /\ Len(line') = Len(line) + 1
      /\ line'[Len(line) + 1] = v
      /\ \A i \in 1 .. Len(line) : line'[i] = line[i] /\ line[i] \in Nat
  BY AppendElements DEF TypeOK
<1>2. desired \in Nat /\ boiler \in Nat /\ changes \in Nat /\ desired <= changes /\ boiler <= changes
  BY DEF TypeOK, WriteInv
<1>3. ASSUME NEW i \in 1 .. Len(line')
      PROVE  /\ line'[i] = Unknown => desired' # Unknown
             /\ line'[i] # Unknown =>
                  line'[i] > desired' /\ line'[i] > boiler' /\ line'[i] <= changes'
  <2>1. CASE i = Len(line) + 1
    BY <1>1, <1>2, <2>1
  <2>2. CASE i \in 1 .. Len(line)
    BY <1>1, <1>2, <2>2 DEF LineInv
  <2>3. QED BY <1>1, <1>3, <2>1, <2>2
<1>4. ASSUME NEW i \in 1 .. Len(line'), NEW j \in 1 .. Len(line'),
             i < j, line'[i] # Unknown, line'[j] # Unknown
      PROVE  line'[i] < line'[j]
  <2>1. i \in 1 .. Len(line)
    BY <1>1, <1>4
  <2>2. CASE j = Len(line) + 1
    BY <1>1, <1>2, <1>4, <2>1, <2>2 DEF LineInv
  <2>3. CASE j \in 1 .. Len(line)
    BY <1>1, <1>4, <2>1, <2>3 DEF LineInv
  <2>4. QED BY <1>1, <1>4, <2>2, <2>3
<1>5. QED BY <1>3, <1>4 DEF LineInv

LEMMA LineShrinks ==
  ASSUME TypeOK, LineInv, line # <<>>, line' = Tail(line),
         boiler' = boiler, changes' = changes,
         desired' = IF Head(line) = Unknown THEN desired ELSE Head(line)
  PROVE  LineInv'
<1>1. /\ Len(line) \in Nat /\ Len(line) >= 1
      /\ Len(line') = Len(line) - 1
      /\ Head(line) = line[1]
      /\ \A i \in 1 .. Len(line') : i + 1 \in 1 .. Len(line) /\ line'[i] = line[i + 1]
      /\ \A i \in 1 .. Len(line) : line[i] \in Nat
  BY TailElements, TailSubset DEF TypeOK
<1>2. 1 \in 1 .. Len(line) /\ desired \in Nat /\ boiler \in Nat
  BY <1>1 DEF TypeOK
<1>3. ASSUME NEW i \in 1 .. Len(line')
      PROVE  /\ line'[i] = Unknown => desired' # Unknown
             /\ line'[i] # Unknown =>
                  line'[i] > desired' /\ line'[i] > boiler' /\ line'[i] <= changes'
  <2>1. i + 1 \in 1 .. Len(line) /\ 1 < i + 1 /\ line'[i] = line[i + 1]
    BY <1>1, <1>3
  <2>2. CASE line[1] = Unknown
    BY <1>1, <1>2, <2>1, <2>2 DEF LineInv
  <2>3. CASE line[1] # Unknown
    BY <1>1, <1>2, <2>1, <2>3 DEF LineInv
  <2>4. QED BY <2>2, <2>3
<1>4. ASSUME NEW i \in 1 .. Len(line'), NEW j \in 1 .. Len(line'),
             i < j, line'[i] # Unknown, line'[j] # Unknown
      PROVE  line'[i] < line'[j]
  <2>1. /\ i + 1 \in 1 .. Len(line) /\ j + 1 \in 1 .. Len(line) /\ i + 1 < j + 1
        /\ line'[i] = line[i + 1] /\ line'[j] = line[j + 1]
    BY <1>1, <1>4
  <2>2. QED BY <1>4, <2>1 DEF LineInv
<1>5. QED BY <1>3, <1>4 DEF LineInv

\* What the head of the line is: a request of the loop, or a newer temperature.
LEMMA HeadOfLine ==
  ASSUME TypeOK, LineInv, line # <<>>
  PROVE  /\ Head(line) \in Nat
         /\ Head(line) = Unknown => desired # Unknown
         /\ Head(line) # Unknown =>
              Head(line) > desired /\ Head(line) > boiler /\ Head(line) <= changes
<1>1. Head(line) = line[1] /\ 1 \in 1 .. Len(line) /\ Head(line) \in Nat
  BY TailElements, QueueTypes DEF TypeOK
<1>2. QED BY <1>1 DEF LineInv

\* The inductive invariant.
THEOREM Inductive == Spec => []SchedulerInv
<1> USE SchedulerAssumption DEF outcome
<1>1. Init => SchedulerInv
  <2> SUFFICES ASSUME Init PROVE SchedulerInv
    OBVIOUS
  <2>1. LineInv
    <3>1. Len(line) = 0
      BY DEF Init
    <3>2. QED BY <3>1 DEF LineInv
  <2>2. WriteInv
    BY DEF Init, WriteInv, Unknown
  <2>3. DueInv
    BY DEF Init, DueInv, KeptChangeScheduled, Never
  <2>4. QED BY <2>1, <2>2, <2>3 DEF SchedulerInv
<1>2. TypeOK /\ TypeOK' /\ SchedulerInv /\ [Next]_vars => SchedulerInv'
  <2> SUFFICES ASSUME TypeOK, TypeOK', SchedulerInv, [Next]_vars PROVE SchedulerInv'
    OBVIOUS
  <2>0. LineInv /\ WriteInv /\ DueInv
    BY DEF SchedulerInv
  <2>1. CASE Set
    <3>1. changes' \in Nat /\ changes' # Unknown /\ changes' > changes /\ changes' >= changes
      BY <2>1 DEF Set, TypeOK, Unknown
    <3>2. LineInv'
      BY <2>0, <2>1, <3>1, LineGrows DEF Set
    <3>3. WriteInv'
      BY <2>0, <2>1, <3>1 DEF Set, WriteInv, TypeOK
    <3>4. DueInv'
      BY <2>0, <2>1 DEF Set, DueInv, KeptChangeScheduled
    <3>5. QED BY <3>2, <3>3, <3>4 DEF SchedulerInv
  <2>2. CASE LoopAsks
    <3>1. Unknown \in Nat /\ changes' \in Nat /\ changes' >= changes
      BY <2>2 DEF LoopAsks, TypeOK, Unknown
    <3>2. LineInv'
      BY <2>0, <2>2, <3>1, LineGrows DEF LoopAsks
    <3>3. WriteInv'
      BY <2>0, <2>2 DEF LoopAsks, WriteInv
    <3>4. DueInv'
      BY <2>0, <2>2 DEF LoopAsks, DueInv, KeptChangeScheduled
    <3>5. QED BY <3>2, <3>3, <3>4 DEF SchedulerInv
  <2>3. ASSUME Deferred \/ SetterSends
        PROVE  /\ LineInv'
               /\ line # <<>> /\ desired' = Head(line) /\ Head(line) # Unknown
               /\ Head(line) \in Nat /\ Head(line) > desired /\ Head(line) > boiler
               /\ Head(line) <= changes
    <3>1. /\ line # <<>> /\ Head(line) # Unknown /\ desired' = Head(line)
          /\ line' = Tail(line) /\ boiler' = boiler /\ changes' = changes
      BY <2>3 DEF Deferred, SetterSends, Granted
    <3>2. LineInv'
      BY <2>0, <3>1, LineShrinks
    <3>3. QED BY <2>0, <3>1, <3>2, HeadOfLine
  <2>4. CASE Deferred
    <3>1. WriteInv'
      BY <2>0, <2>3, <2>4 DEF Deferred, Granted, WriteInv, TypeOK
    <3>2. DueInv'
      <4>1. /\ age \in Nat /\ age < MinChange /\ age' = age /\ lastOk' = lastOk /\ sending = "nobody"
            /\ wait' = Least(wait, MinChange - age) /\ age # Never /\ desired # Unknown
            /\ snapshot' = snapshot /\ wait \in Nat
        BY <2>0, <2>4 DEF Deferred, Granted, TooSoon, DueInv, TypeOK, Never
      <4>2. lastOk => age + wait >= MinChange
        BY <2>0 DEF DueInv
      <4>3. lastOk => age' + wait' = MinChange
        BY <4>1, <4>2 DEF Least
      <4>4. ~lastOk => wait = 0 \/ age + wait <= Retry
        BY <2>0, <4>1 DEF DueInv, KeptChangeScheduled
      <4>5. ~lastOk => wait' = 0 \/ age' + wait' <= Retry
        BY <4>1, <4>4 DEF Least
      <4>6. QED BY <2>3, <2>4, <4>1, <4>3, <4>5 DEF DueInv, KeptChangeScheduled
    <3>3. QED BY <2>3, <2>4, <3>1, <3>2 DEF SchedulerInv
  <2>5. CASE SetterSends
    <3>1. WriteInv'
      <4>1. /\ desired' \in Nat /\ desired' > boiler /\ desired' <= changes /\ desired' # Unknown
            /\ boiler' = boiler /\ boiler \in Nat /\ changes' = changes /\ snapshot' = desired' /\ ~heard'
        BY <2>3, <2>5 DEF SetterSends, TypeOK
      <4>2. QED BY <2>0, <4>1 DEF WriteInv
    <3>2. DueInv'
      BY <2>0, <2>3, <2>5 DEF SetterSends, DueInv, KeptChangeScheduled
    <3>3. QED BY <2>3, <2>5, <3>1, <3>2 DEF SchedulerInv
  <2>6. ASSUME NotDue \/ LoopSends
        PROVE  LineInv' /\ desired # Unknown
    <3>1. /\ line # <<>> /\ Head(line) = Unknown /\ desired' = desired
          /\ line' = Tail(line) /\ boiler' = boiler /\ changes' = changes
      BY <2>6 DEF NotDue, LoopSends, Granted
    <3>2. QED BY <2>0, <3>1, LineShrinks, HeadOfLine
  <2>7. CASE NotDue
    <3>1. WriteInv'
      BY <2>0, <2>7 DEF NotDue, WriteInv
    <3>2. DueInv'
      BY <2>0, <2>7 DEF NotDue, DueInv, KeptChangeScheduled
    <3>3. QED BY <2>6, <2>7, <3>1, <3>2 DEF SchedulerInv
  <2>8. CASE LoopSends
    <3>1. WriteInv'
      BY <2>0, <2>6, <2>8 DEF LoopSends, WriteInv
    <3>2. DueInv'
      BY <2>0, <2>8 DEF LoopSends, DueInv, KeptChangeScheduled
    <3>3. QED BY <2>6, <2>8, <3>1, <3>2 DEF SchedulerInv
  <2>9. CASE BoilerTakes
    <3>1. boiler' = desired /\ desired' = desired /\ line' = line /\ changes' = changes
      BY <2>0, <2>9 DEF BoilerTakes, WriteInv
    <3>2. LineInv'
      BY <2>0, <3>1 DEF LineInv
    <3>3. WriteInv'
      BY <2>0, <2>9, <3>1 DEF BoilerTakes, WriteInv, TypeOK
    <3>4. DueInv'
      BY <2>0, <2>9 DEF BoilerTakes, DueInv, KeptChangeScheduled
    <3>5. QED BY <3>2, <3>3, <3>4 DEF SchedulerInv
  <2>10. ASSUME NEW ok \in BOOLEAN, SendDone(ok) PROVE SchedulerInv'
    <3>1. desired' = desired /\ desired # Unknown
      BY <2>0, <2>10 DEF SendDone, WriteInv
    <3>2. LineInv'
      BY <2>0, <2>10, <3>1 DEF SendDone, LineInv
    <3>3. WriteInv'
      BY <2>0, <2>10, <3>1 DEF SendDone, WriteInv
    <3>4. DueInv'
      <4>1. /\ age' = 0 /\ lastOk' = ok /\ wait' = IF ok THEN Interval ELSE Retry
            /\ ok => desired' = snapshot'
        BY <2>10 DEF SendDone
      <4>2. QED BY <3>1, <4>1 DEF DueInv, KeptChangeScheduled, Never
    <3>5. QED BY <3>2, <3>3, <3>4 DEF SchedulerInv
  <2>11. CASE Tick
    <3>1. LineInv' /\ WriteInv'
      BY <2>0, <2>11 DEF Tick, LineInv, WriteInv
    <3>2. DueInv'
      <4>1. CASE age = Never
        BY <2>0, <2>11, <4>1 DEF Tick, Left, DueInv, KeptChangeScheduled, Never
      <4>2. CASE age # Never
        <5>1. /\ age \in 0 .. MinChange /\ wait \in Nat
              /\ age' = Least(age + 1, MinChange) /\ wait' = Left(wait)
          BY <2>11, <4>2 DEF Tick, TypeOK
        <5>2. /\ age' \in Nat /\ wait' \in Nat
              /\ wait = 0 => wait' = 0
              /\ wait # 0 => age' + wait' <= age + wait
              /\ age + wait >= MinChange => age' + wait' >= MinChange
          BY <5>1 DEF Least, Left
        <5>3. /\ sending' = sending /\ desired' = desired /\ lastOk' = lastOk
              /\ snapshot' = snapshot /\ age' # Never
          BY <2>11, <5>2 DEF Tick, Never
        <5>4. lastOk' => age' + wait' >= MinChange
          BY <2>0, <5>2, <5>3 DEF DueInv
        <5>5. KeptChangeScheduled'
          <6>1. ASSUME NEW m \in Nat, wait = 0 \/ age + wait <= m
                PROVE  wait' = 0 \/ age' + wait' <= m
            BY <5>1, <5>2, <6>1 DEF Left
          <6>2. (IF lastOk THEN MinChange ELSE Retry) \in Nat
            OBVIOUS
          <6>3. QED BY <2>0, <5>3, <6>1, <6>2 DEF DueInv, KeptChangeScheduled
        <5>6. QED BY <2>0, <4>2, <5>3, <5>4, <5>5 DEF DueInv
      <4>3. QED BY <4>1, <4>2
    <3>3. QED BY <3>1, <3>2 DEF SchedulerInv
  <2>12. CASE Restart
    <3>1. LineInv'
      <4>1. Len(line') = 0
        BY <2>12 DEF Restart
      <4>2. QED BY <4>1 DEF LineInv
    <3>2. WriteInv'
      BY <2>0, <2>12 DEF Restart, WriteInv, TypeOK, Unknown
    <3>3. DueInv'
      BY <2>12 DEF Restart, DueInv, KeptChangeScheduled, Never
    <3>4. QED BY <3>1, <3>2, <3>3 DEF SchedulerInv
  <2>13. CASE UNCHANGED vars
    <3>1. LineInv' /\ WriteInv'
      BY <2>0, <2>13 DEF vars, LineInv, WriteInv
    <3>2. DueInv'
      BY <2>0, <2>13 DEF vars, DueInv, KeptChangeScheduled
    <3>3. QED BY <3>1, <3>2 DEF SchedulerInv
  <2>14. QED
    BY <2>1, <2>2, <2>4, <2>5, <2>7, <2>8, <2>9, <2>10, <2>11, <2>12, <2>13 DEF Next, Grant
<1>3. QED BY <1>1, <1>2, Typing, PTL DEF Spec

\* A temperature kept back is scheduled in time.
THEOREM Scheduling == Spec => []KeptChangeScheduled
<1>1. SchedulerInv => KeptChangeScheduled
  BY DEF SchedulerInv, DueInv
<1>2. QED BY <1>1, Inductive, PTL

\* No write begins within MinChange of an accepted one.
THEOREM Limit == Spec => RateLimited
<1>1. TypeOK /\ SchedulerInv /\ [Next]_vars =>
        [sending = "nobody" /\ sending' # "nobody" /\ lastOk => age >= MinChange]_vars
  <2> SUFFICES ASSUME TypeOK, SchedulerInv, [Next]_vars,
                      sending = "nobody", sending' # "nobody", lastOk
               PROVE  age >= MinChange
    OBVIOUS
  <2> USE SchedulerAssumption DEF outcome, TypeOK
  <2>1. SetterSends \/ LoopSends
    BY DEF Next, Grant, Set, LoopAsks, Deferred, NotDue, BoilerTakes, SendDone, Tick, Restart, vars
  <2>2. age # Never /\ age + wait >= MinChange
    BY DEF SchedulerInv, DueInv
  <2>3. CASE SetterSends
    BY <2>2, <2>3 DEF SetterSends, TooSoon, Never
  <2>4. CASE LoopSends
    BY <2>2, <2>4 DEF LoopSends, Never
  <2>5. QED BY <2>1, <2>3, <2>4
<1>2. QED BY <1>1, Typing, Inductive, PTL DEF Spec, RateLimited

\* The scheduler implements a sender of superseding values: the boiler never goes back to an
\* older temperature, whoever sets them.
THEOREM Refinement == Spec => Owed!Spec
<1>1. Init => Owed!Init
  BY DEF Init, Owed!Init, Unknown
<1>2. TypeOK /\ SchedulerInv /\ [Next]_vars => [Owed!Next]_Owed!vars
  <2> SUFFICES ASSUME TypeOK, SchedulerInv, [Next]_vars PROVE [Owed!Next]_Owed!vars
    OBVIOUS
  <2>0. LineInv /\ WriteInv /\ desired \in Nat /\ boiler \in Nat /\ changes \in Nat
    BY DEF SchedulerInv, TypeOK
  <2>1. CASE Deferred \/ SetterSends
    <3>1. line # <<>> /\ Head(line) # Unknown /\ desired' = Head(line) /\ boiler' = boiler
      BY <2>1 DEF Deferred, SetterSends, Granted
    <3>2. Head(line) \in Nat /\ Head(line) > desired /\ Head(line) > boiler
      BY <2>0, <3>1, HeadOfLine
    <3>3. QED BY <3>1, <3>2 DEF Owed!Next, Owed!Want
  <2>2. CASE BoilerTakes
    <3>1. /\ boiler' = desired /\ desired' = desired /\ desired # Unknown /\ boiler <= desired
      BY <2>0, <2>2 DEF BoilerTakes, WriteInv
    <3>2. CASE boiler = desired
      BY <3>1, <3>2 DEF Owed!vars
    <3>3. CASE boiler < desired
      BY <2>0, <3>1, <3>3 DEF Owed!Next, Owed!Deliver
    <3>4. QED BY <2>0, <3>1, <3>2, <3>3
  <2>3. CASE Restart
    <3>1. CASE desired' = Unknown
      BY <2>3, <3>1 DEF Restart, Owed!Next, Owed!Withdraw
    <3>2. CASE desired' = changes'
      <4>1. /\ desired' \in Nat /\ desired' > desired /\ desired' > boiler /\ desired' # Unknown
            /\ boiler' = boiler
        BY <2>0, <2>3, <3>2 DEF Restart, WriteInv, Unknown
      <4>2. QED BY <4>1 DEF Owed!Next, Owed!Want
    <3>3. QED BY <2>3, <3>1, <3>2 DEF Restart
  <2>4. CASE Set \/ LoopAsks \/ NotDue \/ LoopSends \/ Tick \/ UNCHANGED vars
    <3>1. UNCHANGED <<desired, boiler>>
      BY <2>4 DEF Set, LoopAsks, NotDue, LoopSends, Tick, vars
    <3>2. QED BY <3>1 DEF Owed!vars
  <2>5. ASSUME NEW ok \in BOOLEAN, SendDone(ok) PROVE UNCHANGED Owed!vars
    <3>1. UNCHANGED <<desired, boiler>>
      BY <2>0, <2>5 DEF SendDone, WriteInv
    <3>2. QED BY <3>1 DEF Owed!vars
  <2>6. QED BY <2>1, <2>2, <2>3, <2>4, <2>5 DEF Next, Grant
<1>3. QED BY <1>1, <1>2, Typing, Inductive, PTL DEF Spec, Owed!Spec
=============================================================================
