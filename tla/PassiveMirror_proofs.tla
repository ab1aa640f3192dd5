-------------------------- MODULE PassiveMirror_proofs --------------------------
(***************************************************************************)
(* What holds of PassiveMirror for any blocks and any number of request    *)
(* ids: its types, and that only a read a whole cycle of ids old can be    *)
(* mistaken for the one that is answered.                                  *)
(***************************************************************************)
EXTENDS PassiveMirror, TLAPS

(***************************************************************************)
(* Ids drawn from a counter.                                               *)
(***************************************************************************)

\* The next id is an id: the counter stays within its width.
LEMMA NextIdType == ASSUME NEW i \in Id PROVE NextId(i) \in Id
  BY IdCountAssumption DEF Id, NextId

\* Ids drawn fewer than IdCount draws ago differ.
LEMMA IdBeforeInjective ==
  ASSUME NEW i \in Id, NEW m \in 0 .. IdCount - 1, NEW n \in 0 .. IdCount - 1,
         IdBefore(i, m) = IdBefore(i, n)
  PROVE  m = n
  BY IdCountAssumption DEF Id, IdBefore

\* One more draw puts an id one place further back.
LEMMA IdBeforeNext ==
  ASSUME NEW i \in Id, NEW n \in Nat, n + 1 < IdCount
  PROVE  IdBefore(NextId(i), n + 1) = IdBefore(i, n)
  BY IdCountAssumption DEF Id, IdBefore, NextId

\* No draw ago it was the last id drawn.
LEMMA IdBeforeZero == ASSUME NEW i \in Id PROVE IdBefore(i, 0) = i
  BY DEF Id, IdBefore

(***************************************************************************)
(* The reads that are remembered.                                          *)
(***************************************************************************)

Read == [block : Blocks, age : 0 .. IdCount]

\* Counting one more read keeps the reads that are remembered.
LEMMA OlderRead ==
  ASSUME NEW p \in Read \cup {Nothing}
  PROVE  /\ Older(p) \in Read \cup {Nothing}
         /\ p = Nothing <=> Older(p) = Nothing
         /\ p # Nothing => Older(p).block = p.block
         /\ p # Nothing /\ p.age < IdCount => Older(p).age = p.age + 1
         /\ p # Nothing /\ p.age = IdCount => Older(p).age = IdCount
<1> USE MirrorAssumption, IdCountAssumption
<1>1. CASE p = Nothing
  BY <1>1 DEF Older
<1>2. CASE p # Nothing /\ p.age = IdCount
  BY <1>2 DEF Older, Read
<1>3. CASE p \in Read /\ p.age # IdCount
  <2>1. Older(p) = [p EXCEPT !.age = @ + 1] /\ p # Nothing
    BY <1>3 DEF Older, Read
  <2>2. Older(p) \in Read /\ Older(p).block = p.block /\ Older(p).age = p.age + 1
    BY <1>3, <2>1 DEF Read
  <2>3. QED BY <1>3, <2>1, <2>2 DEF Read
<1>4. QED BY <1>1, <1>2, <1>3

\* What a further read of block b leaves remembered.
LEMMA PendingAfterAsk ==
  ASSUME TypeOK, NEW b \in Blocks, NEW hears \in BOOLEAN, Ask(b, hears)
  PROVE  /\ lastId' \in Id /\ asked' = [id |-> lastId', block |-> b]
         /\ pending' \in [Id -> Read \cup {Nothing}]
         /\ \A i \in Id :
              pending'[i] = IF hears /\ i = lastId' THEN [block |-> b, age |-> 0]
                            ELSE Older(pending[i])
<1>1. lastId' \in Id /\ asked' = [id |-> lastId', block |-> b]
  BY NextIdType DEF Ask, TypeOK
<1>2. \A i \in Id : pending[i] \in Read \cup {Nothing}
  BY DEF TypeOK, Read
<1>3. Aged \in [Id -> Read \cup {Nothing}] /\ \A i \in Id : Aged[i] = Older(pending[i])
  BY <1>2, OlderRead DEF Aged
<1>4. [block |-> b, age |-> 0] \in Read
  BY IdCountAssumption DEF Read
<1>5. CASE hears
  <2>1. pending' = [Aged EXCEPT ![lastId'] = [block |-> b, age |-> 0]]
    BY <1>5 DEF Ask, Key
  <2>2. QED BY <1>1, <1>3, <1>4, <1>5, <2>1
<1>6. CASE ~hears
  <2>1. pending' = Aged
    BY <1>6 DEF Ask
  <2>2. QED BY <1>1, <1>3, <1>6, <2>1
<1>7. QED BY <1>5, <1>6

\* Types.
THEOREM Typing == Spec => []TypeOK
<1> USE MirrorAssumption, IdCountAssumption
<1>1. Init => TypeOK
  BY DEF Init, TypeOK
<1>2. TypeOK /\ [Next]_vars => TypeOK'
  <2> SUFFICES ASSUME TypeOK, [Next]_vars PROVE TypeOK'
    OBVIOUS
  <2>1. CASE Tune
    BY <2>1 DEF Tune, TypeOK
  <2>2. CASE ModemReset
    BY <2>2 DEF ModemReset, TypeOK
  <2>3. CASE NoAnswer
    BY <2>3 DEF NoAnswer, TypeOK
  <2>4. CASE Restart
    <3>1. /\ pending' \in [Id -> [block : Blocks, age : 0 .. IdCount] \cup {Nothing}]
          /\ mirrored' \in [Blocks -> Blocks \cup {Nothing}]
      BY <2>4 DEF Restart
    <3>2. QED BY <2>4, <3>1 DEF Restart, TypeOK
  <2>5. ASSUME NEW hears \in BOOLEAN, Answer(hears) PROVE TypeOK'
    <3>1. asked \in [id : Id, block : Blocks] /\ asked' = Nothing
      BY <2>5 DEF Answer, TypeOK
    <3>2. CASE hears
      <4>1. pending' \in [Id -> [block : Blocks, age : 0 .. IdCount] \cup {Nothing}]
        BY <2>5, <3>1, <3>2 DEF Answer, TypeOK, Key
      <4>2. mirrored' \in [Blocks -> Blocks \cup {Nothing}]
        <5>1. CASE Decodes(asked.block, Paired(asked.id))
          <6>1. Paired(asked.id).block \in Blocks
            BY <3>1, <5>1 DEF Decodes, Paired, Key, TypeOK
          <6>2. QED BY <2>5, <3>1, <3>2, <5>1, <6>1 DEF Answer, TypeOK
        <5>2. CASE ~Decodes(asked.block, Paired(asked.id))
          BY <2>5, <3>2, <5>2 DEF Answer, TypeOK
        <5>3. QED BY <5>1, <5>2
      <4>3. QED BY <2>5, <3>1, <4>1, <4>2 DEF Answer, TypeOK
    <3>3. CASE ~hears
      BY <2>5, <3>1, <3>3 DEF Answer, TypeOK
    <3>4. QED BY <3>2, <3>3
  <2>6. ASSUME NEW hears \in BOOLEAN, NEW b \in Blocks, Ask(b, hears) PROVE TypeOK'
    <3>1. lastId' \in Id /\ asked' = [id |-> lastId', block |-> b]
          /\ pending' \in [Id -> [block : Blocks, age : 0 .. IdCount] \cup {Nothing}]
      BY <2>6, PendingAfterAsk DEF Read
    <3>2. QED BY <2>6, <3>1 DEF Ask, TypeOK
  <2>7. CASE UNCHANGED vars
    BY <2>7 DEF vars, TypeOK
  <2>8. QED BY <2>1, <2>2, <2>3, <2>4, <2>5, <2>6, <2>7 DEF Next
<1>3. QED BY <1>1, <1>2, PTL DEF Spec

\* A read that is remembered less than a cycle of ids is under the id it had.
THEOREM Inductive == Spec => []PendingInv
<1> USE MirrorAssumption, IdCountAssumption
<1>1. Init => PendingInv
  BY DEF Init, PendingInv
<1>2. TypeOK /\ PendingInv /\ [Next]_vars => PendingInv'
  <2> SUFFICES ASSUME TypeOK, PendingInv, [Next]_vars PROVE PendingInv'
    OBVIOUS
  <2>1. CASE Tune \/ ModemReset \/ UNCHANGED vars
    <3>1. UNCHANGED <<lastId, asked, pending>>
      BY <2>1 DEF Tune, ModemReset, vars
    <3>2. QED BY <3>1 DEF PendingInv
  <2>2. CASE NoAnswer
    BY <2>2 DEF NoAnswer, PendingInv
  <2>3. CASE Restart
    BY <2>3 DEF Restart, PendingInv, TypeOK
  <2>4. ASSUME NEW hears \in BOOLEAN, Answer(hears) PROVE PendingInv'
    <3>1. /\ lastId' = lastId /\ asked' = Nothing
          /\ \A i \in Id : pending'[i] = pending[i] \/ pending'[i] = Nothing
      BY <2>4 DEF Answer, TypeOK, Key
    <3>2. QED BY <3>1 DEF PendingInv
  <2>5. ASSUME NEW hears \in BOOLEAN, NEW b \in Blocks, Ask(b, hears) PROVE PendingInv'
    <3>1. /\ lastId' \in Id /\ asked' = [id |-> lastId', block |-> b]
          /\ \A i \in Id :
               pending'[i] = IF hears /\ i = lastId' THEN [block |-> b, age |-> 0]
                             ELSE Older(pending[i])
      BY <2>5, PendingAfterAsk
    <3>2. lastId' = NextId(lastId) /\ lastId \in Id
      BY <2>5 DEF Ask, TypeOK
    <3>3. ASSUME NEW i \in Id, pending'[i] = Older(pending[i]),
                 pending'[i] # Nothing, pending'[i].age < IdCount
          PROVE  /\ pending'[i].age > 0
                 /\ i = IdBefore(lastId', pending'[i].age)
      <4>1. pending[i] \in Read \cup {Nothing}
        BY DEF TypeOK, Read
      <4>2. pending[i] # Nothing /\ pending[i].age \in 0 .. IdCount
        BY <3>3, <4>1, OlderRead DEF Read
      <4>3. pending[i].age < IdCount /\ pending'[i].age = pending[i].age + 1
        BY <3>3, <4>1, <4>2, OlderRead
      <4>4. i = IdBefore(lastId, pending[i].age)
        BY <4>2, <4>3 DEF PendingInv
      <4>5. QED BY <3>2, <3>3, <4>2, <4>3, <4>4, IdBeforeNext
    <3>4. ASSUME NEW i \in Id, pending'[i] # Nothing, pending'[i].age < IdCount
          PROVE  i = IdBefore(lastId', pending'[i].age)
      <4>1. CASE hears /\ i = lastId'
        BY <3>1, <4>1, IdBeforeZero
      <4>2. CASE ~(hears /\ i = lastId')
        BY <3>1, <3>3, <3>4, <4>2
      <4>3. QED BY <4>1, <4>2
    <3>5. ASSUME pending'[lastId'] # Nothing, pending'[lastId'].age = 0
          PROVE  pending'[lastId'].block = asked'.block
      <4>1. hears
        BY <3>1, <3>3, <3>5
      <4>2. QED BY <3>1, <4>1
    <3>6. asked'.id = lastId'
      BY <3>1
    <3>7. QED BY <3>4, <3>5, <3>6 DEF PendingInv
  <2>6. QED BY <2>1, <2>2, <2>3, <2>4, <2>5 DEF Next
<1>3. QED BY <1>1, <1>2, Typing, PTL DEF Spec

\* An answer is misread only as the answer to a read that lies a whole cycle of ids back.
THEOREM Attribution == Spec => MisreadsOnlyAfterACycle
<1> USE MirrorAssumption, IdCountAssumption
<1>1. TypeOK /\ PendingInv /\ [Next]_vars =>
        [\A b \in Blocks : mirrored'[b] # mirrored[b] /\ mirrored'[b] \notin {b, Nothing} =>
           Paired(asked.id) # Nothing /\ Paired(asked.id).age = IdCount]_vars
  <2> SUFFICES ASSUME TypeOK, PendingInv, [Next]_vars, NEW b \in Blocks,
                      mirrored'[b] # mirrored[b], mirrored'[b] \notin {b, Nothing}
               PROVE  Paired(asked.id) # Nothing /\ Paired(asked.id).age = IdCount
    OBVIOUS
  <2>1. \E hears \in BOOLEAN : Answer(hears)
    <3>1. mirrored' # mirrored /\ ~Restart
      BY DEF Restart
    <3>2. QED BY <3>1 DEF Next, Tune, ModemReset, NoAnswer, Ask, vars
  <2>2. /\ asked # Nothing /\ Decodes(asked.block, Paired(asked.id))
        /\ mirrored' = [mirrored EXCEPT ![Paired(asked.id).block] = asked.block]
    BY <2>1 DEF Answer
  <2>3. b = Paired(asked.id).block /\ asked.block # b
    BY <2>2 DEF TypeOK
  <2>4. asked \in [id : Id, block : Blocks] /\ asked.id = lastId
    BY <2>2 DEF TypeOK, PendingInv
  <2>5. pending[lastId] # Nothing /\ Paired(asked.id) = pending[lastId]
    BY <2>2, <2>4 DEF Decodes, Paired, Key
  <2>6. pending[lastId].age \in 0 .. IdCount /\ lastId \in Id
    BY <2>5 DEF TypeOK
  <2>7. pending[lastId].age # 0
    BY <2>2, <2>3, <2>5 DEF PendingInv
  <2>8. CASE pending[lastId].age < IdCount
    <3>1. IdBefore(lastId, pending[lastId].age) = IdBefore(lastId, 0)
      BY <2>5, <2>6, <2>8, IdBeforeZero DEF PendingInv
    <3>2. pending[lastId].age \in 0 .. IdCount - 1 /\ 0 \in 0 .. IdCount - 1
      BY <2>6, <2>8
    <3>3. pending[lastId].age = 0
      BY <2>6, <3>1, <3>2, IdBeforeInjective
    <3>4. QED BY <2>7, <3>3
  <2>9. QED BY <2>5, <2>6, <2>8
<1>2. QED BY <1>1, Typing, Inductive, PTL DEF Spec, MisreadsOnlyAfterACycle
=============================================================================
