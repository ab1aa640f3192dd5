--------------------------- MODULE RfExchange_proofs ---------------------------
(***************************************************************************)
(* What holds of RfExchange for every set of clients, number of ids, shape *)
(* of call and bound: its type invariant, the exclusion of the exchanges,  *)
(* and that an accepted answer belongs to the attempt that awaits it.      *)
(***************************************************************************)
EXTENDS RfExchange, TLAPS

(***************************************************************************)
(* Ids drawn from a counter, and queues.                                   *)
(***************************************************************************)

\* Sequences used as queues.
LEMMA QueueTypes ==
  ASSUME NEW S, NEW q \in Seq(S)
  PROVE  /\ <<>> \in Seq(S)
         /\ \A e \in S : Append(q, e) \in Seq(S)
         /\ q # <<>> => Head(q) \in S /\ Tail(q) \in Seq(S)
  OBVIOUS

\* The next id is an id: the counter stays within its width.
LEMMA NextIdType == ASSUME NEW i \in Id PROVE NextId(i) \in Id
  BY IdCountAssumption DEF Id, NextId

\* Ids drawn fewer than IdCount draws ago differ.
LEMMA IdBeforeInjective ==
  ASSUME NEW i \in Id, NEW m \in 0 .. IdCount - 1, NEW n \in 0 .. IdCount - 1,
         IdBefore(i, m) = IdBefore(i, n)
  PROVE  m = n
  BY IdCountAssumption DEF Id, IdBefore

\* One more draw puts an id one place further back.
LEMMA IdBeforeNext ==
  ASSUME NEW i \in Id, NEW n \in Nat, n + 1 < IdCount
  PROVE  IdBefore(NextId(i), n + 1) = IdBefore(i, n)
  BY IdCountAssumption DEF Id, IdBefore, NextId

\* No draw ago it was the last id drawn.
LEMMA IdBeforeZero == ASSUME NEW i \in Id PROVE IdBefore(i, 0) = i
  BY DEF Id, IdBefore

(***************************************************************************)
(* Types.                                                                  *)
(***************************************************************************)

LEMMA FrameOfType == ASSUME TypeOK, NEW c \in Client PROVE FrameOf(c) \in Frame
  BY DEF TypeOK, FrameOf, Frame, Id

\* The type invariant: in particular the rolling id never leaves its byte.
THEOREM Typing == Spec => []TypeOK
<1>1. Init => TypeOK
  BY IdCountAssumption, ExchangeAssumption DEF Init, TypeOK, Id, Kind, Outcome
<1>2. TypeOK /\ [Next]_vars => TypeOK'
  <2> SUFFICES ASSUME TypeOK, [Next]_vars PROVE TypeOK'
    OBVIOUS
  <2> USE DEF TypeOK, progress, ids, channel, result, bounds
  <2>1. ASSUME NEW c \in Client, NEW kind \in Kind, NEW shape \in Shape, Begin(c, kind, shape)
        PROVE  TypeOK'
    <3>1. [kind |-> kind, attempts |-> shape.attempts,
           burst |-> IF kind = "oneway" THEN 1 ELSE shape.burst]
             \in [kind : Kind, attempts : Nat \ {0}, burst : Nat \ {0}]
      BY ExchangeAssumption
    <3>2. call' \in [Client -> [kind : Kind, attempts : Nat \ {0}, burst : Nat \ {0}]]
      BY <2>1, <3>1 DEF Begin
    <3>3. /\ attempt' \in [Client -> Nat] /\ sent' \in [Client -> Nat]
          /\ answeredBy' \in [Client -> Nat] /\ outcome' \in [Client -> Outcome]
      BY <2>1 DEF Begin, Outcome
    <3>4. /\ line' \in Seq(Client) /\ calls' \in Nat
          /\ pc' \in [Client -> {"idle", "waiting", "tune", "send", "await", "gap"}]
      BY <2>1 DEF Begin
    <3>5. UNCHANGED <<lock, ids, channel, crashes>>
      BY <2>1 DEF Begin
    <3>6. QED BY <3>2, <3>3, <3>4, <3>5
  <2>2. ASSUME NEW c \in Client, DrawId(c) PROVE
          /\ pc' \in [Client -> {"idle", "waiting", "tune", "send", "await", "gap"}]
          /\ call' = call /\ rewound' = rewound
          /\ attempt' \in [Client -> Nat] /\ sent' \in [Client -> Nat]
          /\ reqId' \in [Client -> Id] /\ saved' \in [Client -> Id]
          /\ drawn' \in [Client -> Nat] /\ inbox' \in Seq(Heard) /\ air' \in SUBSET Frame
    <3>1. /\ pc' \in [Client -> {"idle", "waiting", "tune", "send", "await", "gap"}]
          /\ attempt' \in [Client -> Nat] /\ sent' \in [Client -> Nat]
          /\ drawn' \in [Client -> Nat] /\ call' = call /\ rewound' = rewound
      BY <2>2 DEF DrawId
    <3>2. reqId' \in [Client -> Id] /\ saved' \in [Client -> Id]
      <4>1. NextId(reqId[c]) \in Id
        BY NextIdType
      <4>2. QED BY <2>2, <4>1 DEF DrawId
    <3>3. inbox' \in Seq(Heard)
      <4>1. <<>> \in Seq(Heard)
        BY QueueTypes
      <4>2. QED BY <2>2, <4>1 DEF DrawId
    <3>4. air' \in SUBSET Frame
      BY <2>2 DEF DrawId
    <3>5. QED BY <3>1, <3>2, <3>3, <3>4
  <2>3. ASSUME NEW c \in Client, NEW how \in Outcome, NEW by \in Nat, Finish(c, how, by) PROVE
          /\ pc' \in [Client -> {"idle", "waiting", "tune", "send", "await", "gap"}]
          /\ outcome' \in [Client -> Outcome] /\ answeredBy' \in [Client -> Nat]
          /\ inbox' \in Seq(Heard) /\ lock' \in Client \cup {Nobody}
          /\ UNCHANGED <<progress, ids>>
    BY <2>3 DEF Finish, Release
  <2>4. ASSUME NEW c \in Client, NEW why \in Outcome, FailAttempt(c, why), UNCHANGED <<line, bounds>>
        PROVE  TypeOK'
    <3>1. CASE DrawId(c) /\ UNCHANGED <<lock, result>>
      BY <3>1, <2>2, <2>4
    <3>2. CASE Finish(c, why, 0) /\ air' = air
      BY <3>2, <2>3, <2>4
    <3>3. QED BY <2>4, <3>1, <3>2 DEF FailAttempt
  <2>5. ASSUME NEW c \in Client, Acquire(c) PROVE TypeOK'
    <3>1. line' \in Seq(Client)
      BY <2>5, QueueTypes DEF Acquire
    <3>2. /\ lock' \in Client \cup {Nobody}
          /\ pc' \in [Client -> {"idle", "waiting", "tune", "send", "await", "gap"}]
          /\ UNCHANGED <<progress, ids, channel, result, bounds>>
      BY <2>5 DEF Acquire
    <3>3. QED BY <3>1, <3>2
  <2>6. ASSUME NEW c \in Client, Tuned(c) PROVE TypeOK'
    BY <2>6, <2>2 DEF Tuned
  <2>7. ASSUME NEW c \in Client, TuneFailed(c) PROVE TypeOK'
    BY <2>7, <2>3 DEF TuneFailed, Outcome
  <2>8. ASSUME NEW c \in Client, Sent(c) PROVE TypeOK'
    <3>1. air' \in SUBSET Frame
      BY <2>8, FrameOfType DEF Sent
    <3>2. CASE /\ sent' = [sent EXCEPT ![c] = @ + 1]
               /\ pc' = [pc EXCEPT ![c] = IF sent[c] + 1 < call[c].burst THEN "send" ELSE "await"]
               /\ UNCHANGED <<lock, call, attempt, ids, inbox, result>>
      <4>1. /\ sent' \in [Client -> Nat]
            /\ pc' \in [Client -> {"idle", "waiting", "tune", "send", "await", "gap"}]
        BY <3>2
      <4>2. UNCHANGED <<line, bounds>>
        BY <2>8 DEF Sent
      <4>3. QED BY <3>1, <3>2, <4>1, <4>2
    <3>3. CASE /\ pc' = [pc EXCEPT ![c] = "gap"]
               /\ Release
               /\ UNCHANGED <<progress, ids, inbox, result>>
      BY <2>8, <3>1, <3>3 DEF Sent, Release
    <3>4. CASE Finish(c, "ok", 0)
      BY <2>8, <3>1, <3>4, <2>3 DEF Sent, Outcome
    <3>5. QED BY <2>8, <3>2, <3>3, <3>4 DEF Sent
  <2>9. ASSUME NEW c \in Client, SendFailed(c) PROVE TypeOK'
    BY <2>9, <2>4 DEF SendFailed, Outcome
  <2>10. ASSUME NEW c \in Client, SentUnreported(c) PROVE TypeOK'
    BY <2>10, FrameOfType DEF SentUnreported
  <2>11. ASSUME NEW c \in Client, GapOver(c) PROVE TypeOK'
    <3>1. line' \in Seq(Client)
      BY <2>11, QueueTypes DEF GapOver
    <3>2. /\ pc' \in [Client -> {"idle", "waiting", "tune", "send", "await", "gap"}]
          /\ UNCHANGED <<lock, progress, ids, channel, result, bounds>>
      BY <2>11 DEF GapOver
    <3>3. QED BY <3>1, <3>2
  <2>12. ASSUME NEW c \in Client, TakeFrame(c) PROVE TypeOK'
    <3> DEFINE f == Head(inbox)
    <3>1. f \in Heard /\ f.tag \in Nat /\ Tail(inbox) \in Seq(Heard)
      <4>1. f \in Heard /\ Tail(inbox) \in Seq(Heard)
        BY <2>12, QueueTypes DEF TakeFrame
      <4>2. QED BY <4>1 DEF Heard
    <3>2. CASE Finish(c, "ok", f.tag)
      BY <2>12, <3>1, <3>2, <2>3 DEF TakeFrame, Outcome
    <3>3. CASE Finish(c, "nack", f.tag)
      BY <2>12, <3>1, <3>3, <2>3 DEF TakeFrame, Outcome
    <3>4. CASE inbox' = Tail(inbox) /\ UNCHANGED <<lock, pc, progress, ids, result>>
      BY <2>12, <3>1, <3>4 DEF TakeFrame
    <3>5. QED BY <2>12, <3>2, <3>3, <3>4 DEF TakeFrame
  <2>13. ASSUME NEW c \in Client, Timeout(c) PROVE TypeOK'
    BY <2>13, <2>4 DEF Timeout, Outcome
  <2>14. ASSUME NEW m \in air, NEW answer \in Answer, BoilerAnswers(m, answer) PROVE TypeOK'
    <3>1. [client |-> m.client, id |-> m.id, tag |-> m.tag, answer |-> answer] \in Heard
      BY DEF Heard, Frame
    <3>2. inbox' \in Seq(Heard)
      BY <2>14, <3>1, QueueTypes DEF BoilerAnswers
    <3>3. QED BY <2>14, <3>2 DEF BoilerAnswers
  <2>15. ASSUME NEW m \in air, Fade(m) PROVE TypeOK'
    BY <2>15 DEF Fade
  <2>16. CASE Restart
    BY <2>16 DEF Restart, Outcome
  <2>17. CASE UNCHANGED vars
    BY <2>17 DEF vars
  <2>18. ASSUME NEW c \in Client, PortFails(c) PROVE TypeOK'
    BY <2>18, <2>3 DEF PortFails, Outcome
  <2>19. QED
    BY <2>1, <2>5, <2>6, <2>7, <2>8, <2>9, <2>10, <2>11, <2>12, <2>13, <2>14, <2>15, <2>16,
       <2>17, <2>18 DEF Next, CallStep
<1>3. QED BY <1>1, <1>2, PTL DEF Spec

(***************************************************************************)
(* Exclusion.  Whoever finishes or releases holds the lock, so nobody else *)
(* is inside; whoever acquires finds it free, so nobody is.                *)
(***************************************************************************)

\* A call that ends, or steps out of the lock, leaves nobody else inside.
LEMMA LeavingExcludes ==
  ASSUME TypeOK, ExclusiveExchange, NEW c \in Client, pc[c] \in {"tune", "send", "await"},
         NEW p \in {"idle", "gap"}, pc' = [pc EXCEPT ![c] = p], lock' = Nobody
  PROVE  ExclusiveExchange'
  BY DEF TypeOK, ExclusiveExchange

\* A call that stays inside keeps the lock.
LEMMA StayingExcludes ==
  ASSUME TypeOK, ExclusiveExchange, NEW c \in Client, pc[c] \in {"tune", "send", "await"},
         NEW p \in {"send", "await"}, pc' = [pc EXCEPT ![c] = p], lock' = lock
  PROVE  ExclusiveExchange'
  BY DEF TypeOK, ExclusiveExchange

\* A client outside the lock moves between places outside it.
LEMMA OutsideExcludes ==
  ASSUME TypeOK, ExclusiveExchange, NEW c \in Client,
         NEW p \in {"idle", "waiting", "gap"}, pc' = [pc EXCEPT ![c] = p], lock' = lock
  PROVE  ExclusiveExchange'
  BY DEF TypeOK, ExclusiveExchange

LEMMA FailAttemptExcludes ==
  ASSUME TypeOK, ExclusiveExchange, NEW c \in Client, pc[c] \in {"send", "await"},
         NEW why, FailAttempt(c, why)
  PROVE  ExclusiveExchange'
  <1>1. CASE DrawId(c) /\ UNCHANGED <<lock, result>>
    BY <1>1, StayingExcludes DEF DrawId
  <1>2. CASE Finish(c, why, 0)
    BY <1>2, LeavingExcludes DEF Finish, Release
  <1>3. QED BY <1>1, <1>2 DEF FailAttempt

\* Exchanges of different clients never overlap on the modem.
THEOREM Exclusion == Spec => []ExclusiveExchange
<1>1. Init => ExclusiveExchange
  BY DEF Init, ExclusiveExchange
<1>2. TypeOK /\ ExclusiveExchange /\ [Next]_vars => ExclusiveExchange'
  <2> SUFFICES ASSUME TypeOK, ExclusiveExchange, [Next]_vars PROVE ExclusiveExchange'
    OBVIOUS
  <2>1. ASSUME NEW c \in Client, NEW kind \in Kind, NEW shape \in Shape, Begin(c, kind, shape)
        PROVE  ExclusiveExchange'
    BY <2>1, OutsideExcludes DEF Begin
  <2>2. ASSUME NEW c \in Client, Acquire(c) PROVE ExclusiveExchange'
    <3>1. \A d \in Client : pc[d] \notin {"tune", "send", "await"}
      BY <2>2, ExchangeAssumption DEF Acquire, ExclusiveExchange
    <3>2. QED BY <2>2, <3>1 DEF Acquire, ExclusiveExchange, TypeOK
  <2>3. ASSUME NEW c \in Client, Tuned(c) PROVE ExclusiveExchange'
    BY <2>3, StayingExcludes DEF Tuned, DrawId
  <2>4. ASSUME NEW c \in Client, TuneFailed(c) PROVE ExclusiveExchange'
    BY <2>4, LeavingExcludes DEF TuneFailed, Finish, Release
  <2>5. ASSUME NEW c \in Client, Sent(c) PROVE ExclusiveExchange'
    <3>1. pc[c] \in {"tune", "send", "await"}
      BY <2>5 DEF Sent
    <3>2. CASE /\ pc' = [pc EXCEPT ![c] = IF sent[c] + 1 < call[c].burst THEN "send" ELSE "await"]
               /\ UNCHANGED <<lock, call, attempt, ids, inbox, result>>
      <4>1. (IF sent[c] + 1 < call[c].burst THEN "send" ELSE "await") \in {"send", "await"}
        OBVIOUS
      <4>2. lock' = lock
        BY <3>2
      <4>3. QED BY <3>1, <3>2, <4>1, <4>2, StayingExcludes
    <3>3. CASE pc' = [pc EXCEPT ![c] = "gap"] /\ Release
      BY <3>1, <3>3, LeavingExcludes DEF Release
    <3>4. CASE Finish(c, "ok", 0)
      BY <3>1, <3>4, LeavingExcludes DEF Finish, Release
    <3>5. QED BY <2>5, <3>2, <3>3, <3>4 DEF Sent
  <2>6. ASSUME NEW c \in Client, SendFailed(c) PROVE ExclusiveExchange'
    BY <2>6, FailAttemptExcludes DEF SendFailed
  <2>7. ASSUME NEW c \in Client, SentUnreported(c) PROVE ExclusiveExchange'
    BY <2>7 DEF SentUnreported, ExclusiveExchange
  <2>8. ASSUME NEW c \in Client, GapOver(c) PROVE ExclusiveExchange'
    BY <2>8, OutsideExcludes DEF GapOver
  <2>9. ASSUME NEW c \in Client, TakeFrame(c) PROVE ExclusiveExchange'
    <3>1. CASE UNCHANGED <<lock, pc, progress, ids, result>>
      BY <3>1 DEF ExclusiveExchange
    <3>2. ASSUME NEW how, NEW by, Finish(c, how, by) PROVE ExclusiveExchange'
      BY <2>9, <3>2, LeavingExcludes DEF TakeFrame, Finish, Release
    <3>3. QED BY <2>9, <3>1, <3>2 DEF TakeFrame
  <2>10. ASSUME NEW c \in Client, Timeout(c) PROVE ExclusiveExchange'
    BY <2>10, FailAttemptExcludes DEF Timeout
  <2>11. ASSUME NEW m \in air, NEW answer \in Answer, BoilerAnswers(m, answer)
         PROVE  ExclusiveExchange'
    BY <2>11 DEF BoilerAnswers, ExclusiveExchange
  <2>12. ASSUME NEW m \in air, Fade(m) PROVE ExclusiveExchange'
    BY <2>12 DEF Fade, ExclusiveExchange
  <2>13. CASE Restart
    BY <2>13 DEF Restart, ExclusiveExchange
  <2>14. CASE UNCHANGED vars
    BY <2>14 DEF vars, ExclusiveExchange
  <2>15. ASSUME NEW c \in Client, PortFails(c) PROVE ExclusiveExchange'
    BY <2>15, LeavingExcludes DEF PortFails, Finish, Release
  <2>16. QED
    BY <2>1, <2>2, <2>3, <2>4, <2>5, <2>6, <2>7, <2>8, <2>9, <2>10, <2>11, <2>12, <2>13, <2>14, <2>15
       DEF Next, CallStep
<1>3. QED BY <1>1, <1>2, Typing, PTL DEF Spec

(***************************************************************************)
(* Answers.  A frame's tag says which draw made its id; matching ids give  *)
(* equal tags because fewer than IdCount draws lie between them.           *)
(***************************************************************************)

\* The frame of the current attempt carries the current id.
LEMMA FrameOfTraceable == ASSUME TypeOK, NEW c \in Client PROVE Traceable(FrameOf(c))
  <1>1. reqId[c] \in Id /\ drawn[c] \in Nat
    BY DEF TypeOK
  <1>2. FrameOf(c).client = c /\ FrameOf(c).id = reqId[c] /\ FrameOf(c).tag = drawn[c]
    BY DEF FrameOf
  <1>3. drawn[c] - drawn[c] = 0 /\ 0 < IdCount
    BY <1>1, IdCountAssumption
  <1>4. QED BY <1>1, <1>2, <1>3, IdBeforeZero DEF Traceable

\* A traceable frame that matches is a frame of the current attempt.
LEMMA MatchIsOwn ==
  ASSUME TypeOK, NEW c \in Client \ rewound, NEW f \in Heard, Traceable(f), Matches(c, f)
  PROVE  f.tag = drawn[c]
  <1>1. f.tag \in Nat /\ drawn[c] \in Nat /\ reqId[c] \in Id
    BY DEF TypeOK, Heard
  <1>2. f.client = c /\ f.id = reqId[c]
    BY DEF Matches
  <1>3. drawn[c] - f.tag \in 0 .. IdCount - 1 /\ 0 \in 0 .. IdCount - 1
    BY <1>1, <1>2, IdCountAssumption DEF Traceable
  <1>4. IdBefore(reqId[c], drawn[c] - f.tag) = IdBefore(reqId[c], 0)
    BY <1>1, <1>2, IdBeforeZero DEF Traceable
  <1>5. drawn[c] - f.tag = 0
    BY <1>1, <1>3, <1>4, IdBeforeInjective
  <1>6. QED BY <1>1, <1>5

\* Drawing an id keeps what stays on the air traceable.
LEMMA DrawTraces ==
  ASSUME TypeOK, NEW c \in Client, DrawId(c), NEW m \in air', Traceable(m)
  PROVE  Traceable(m)'
  <1> DEFINE d == m.client
             n == drawn[d] - m.tag
  <1>1. /\ m \in air /\ d \in Client /\ m.tag \in Nat /\ drawn[d] \in Nat /\ reqId[d] \in Id
        /\ m.client = c => drawn[c] + 1 - m.tag < IdCount
    BY DEF TypeOK, DrawId, Frame
  <1>2. rewound' = rewound
    BY DEF DrawId
  <1>3. CASE d # c
    <2>1. drawn'[d] = drawn[d] /\ reqId'[d] = reqId[d]
      BY <1>1, <1>3 DEF DrawId, TypeOK
    <2>2. QED BY <1>2, <2>1 DEF Traceable
  <1>4. CASE d = c
    <2>1. drawn'[d] = drawn[d] + 1 /\ reqId'[d] = NextId(reqId[d])
      BY <1>1, <1>4 DEF DrawId, TypeOK
    <2>2. n \in Nat /\ n + 1 < IdCount /\ drawn'[d] - m.tag = n + 1
      BY <1>1, <1>4, <2>1, IdCountAssumption DEF Traceable
    <2>3. IdBefore(NextId(reqId[d]), n + 1) = IdBefore(reqId[d], n)
      BY <1>1, <2>2, IdBeforeNext
    <2>4. m.tag <= drawn'[d]
      BY <1>1, <2>1 DEF Traceable
    <2>5. d \notin rewound => m.id = IdBefore(reqId[d], n)
      BY DEF Traceable
    <2>6. QED BY <1>2, <2>1, <2>2, <2>3, <2>4, <2>5 DEF Traceable
  <1>5. QED BY <1>3, <1>4

LEMMA DrawKeepsAnswers ==
  ASSUME TypeOK, AnswerInv, NEW c \in Client, pc[c] # "idle", DrawId(c), UNCHANGED result
  PROVE  AnswerInv'
  <1>1. \A m \in air' : Traceable(m)'
    <2>1. \A m \in air' : m \in air
      BY DEF DrawId
    <2>2. QED BY <2>1, DrawTraces DEF AnswerInv
  <1>2. \A i \in 1 .. Len(inbox') : FALSE
    <2>1. inbox' = <<>> /\ Len(<<>>) = 0
      BY DEF DrawId
    <2>2. QED BY <2>1
  <1>3. \A d \in Client : pc'[d] # "idle" => outcome'[d] = "none"
    BY DEF AnswerInv, DrawId, result, TypeOK
  <1>4. AnswersOwnAttempt'
    <2> SUFFICES ASSUME NEW d \in Client, d \notin rewound', call'[d].kind = "request",
                        outcome'[d] \in {"ok", "nack"}
                 PROVE  answeredBy'[d] = drawn'[d]
      BY DEF AnswersOwnAttempt
    <2>1. outcome' = outcome /\ answeredBy' = answeredBy /\ call' = call /\ rewound' = rewound
      BY DEF DrawId, result
    <2>2. d # c
      BY <2>1 DEF AnswerInv
    <2>3. drawn'[d] = drawn[d]
      BY <2>2 DEF DrawId, TypeOK
    <2>4. QED BY <2>1, <2>3 DEF AnswerInv, AnswersOwnAttempt
  <1>5. QED BY <1>1, <1>2, <1>3, <1>4 DEF AnswerInv

LEMMA FinishKeepsAnswers ==
  ASSUME TypeOK, AnswerInv, NEW c \in Client, NEW how, NEW by, Finish(c, how, by),
         \A m \in air' : Traceable(m),
         c \notin rewound /\ call[c].kind = "request" /\ how \in {"ok", "nack"} => by = drawn[c]
  PROVE  AnswerInv'
  <1>1. UNCHANGED <<reqId, drawn, rewound, call>>
    BY DEF Finish, ids, progress
  <1>2. \A m \in air' : Traceable(m)'
    BY <1>1 DEF Traceable
  <1>3. \A i \in 1 .. Len(inbox') : FALSE
    <2>1. inbox' = <<>> /\ Len(<<>>) = 0
      BY DEF Finish
    <2>2. QED BY <2>1
  <1>4. \A d \in Client : pc'[d] # "idle" => outcome'[d] = "none"
    BY DEF AnswerInv, Finish, TypeOK
  <1>5. AnswersOwnAttempt'
    BY <1>1 DEF AnswerInv, AnswersOwnAttempt, Finish, TypeOK
  <1>6. QED BY <1>2, <1>3, <1>4, <1>5 DEF AnswerInv

LEMMA FailAttemptKeepsAnswers ==
  ASSUME TypeOK, AnswerInv, NEW c \in Client, pc[c] # "idle",
         NEW why \in {"transport", "timeout"}, FailAttempt(c, why)
  PROVE  AnswerInv'
  <1>1. CASE DrawId(c) /\ UNCHANGED <<lock, result>>
    BY <1>1, DrawKeepsAnswers
  <1>2. CASE Finish(c, why, 0) /\ air' = air
    <2>1. \A m \in air' : Traceable(m)
      BY <1>2 DEF AnswerInv
    <2>2. why \notin {"ok", "nack"}
      OBVIOUS
    <2>3. QED BY <1>2, <2>1, <2>2, FinishKeepsAnswers
  <1>3. QED BY <1>1, <1>2 DEF FailAttempt

\* A step that touches neither ids, calls in progress nor outcomes, and leaves only traceable
\* frames about.
LEMMA OtherKeepsAnswers ==
  ASSUME TypeOK, AnswerInv, UNCHANGED <<ids, call, result>>,
         \A d \in Client : pc'[d] # "idle" => pc[d] # "idle",
         \A m \in air' : Traceable(m), \A i \in 1 .. Len(inbox') : Traceable(inbox'[i])
  PROVE  AnswerInv'
  <1>1. UNCHANGED <<reqId, drawn, rewound, call, outcome, answeredBy>>
    BY DEF ids, result
  <1>2. QED BY <1>1 DEF AnswerInv, AnswersOwnAttempt, Traceable

THEOREM AnswersInductive == Spec => []AnswerInv
<1>1. Init => AnswerInv
  <2> SUFFICES ASSUME Init PROVE AnswerInv
    OBVIOUS
  <2>1. air = {} /\ inbox = <<>> /\ Len(<<>>) = 0
    BY DEF Init
  <2>2. \A c \in Client : outcome[c] = "none"
    BY DEF Init
  <2>3. QED BY <2>1, <2>2 DEF AnswerInv, AnswersOwnAttempt
<1>2. TypeOK /\ AnswerInv /\ [Next]_vars => AnswerInv'
  <2> SUFFICES ASSUME TypeOK, AnswerInv, [Next]_vars PROVE AnswerInv'
    OBVIOUS
  <2>0. /\ \A m \in air : Traceable(m)
        /\ \A i \in 1 .. Len(inbox) : Traceable(inbox[i])
    BY DEF AnswerInv
  <2>1. ASSUME NEW c \in Client, NEW kind \in Kind, NEW shape \in Shape, Begin(c, kind, shape)
        PROVE  AnswerInv'
    <3>1. UNCHANGED <<reqId, drawn, rewound, inbox, air>>
      BY <2>1 DEF Begin, ids, channel
    <3>2. /\ outcome'[c] = "none"
          /\ \A d \in Client \ {c} : /\ pc'[d] = pc[d] /\ outcome'[d] = outcome[d]
                                     /\ call'[d] = call[d] /\ answeredBy'[d] = answeredBy[d]
      BY <2>1 DEF Begin, TypeOK
    <3>3. AnswersOwnAttempt'
      BY <3>1, <3>2 DEF AnswerInv, AnswersOwnAttempt
    <3>4. \A d \in Client : pc'[d] # "idle" => outcome'[d] = "none"
      BY <3>2 DEF AnswerInv
    <3>5. QED BY <2>0, <3>1, <3>3, <3>4 DEF AnswerInv, Traceable
  <2>2. ASSUME NEW c \in Client, Acquire(c) PROVE AnswerInv'
    <3>1. UNCHANGED <<ids, call, result, air, inbox>>
      BY <2>2 DEF Acquire, channel, progress
    <3>2. \A d \in Client : pc'[d] # "idle" => pc[d] # "idle"
      BY <2>2 DEF Acquire, TypeOK
    <3>3. QED BY <2>0, <3>1, <3>2, OtherKeepsAnswers
  <2>3. ASSUME NEW c \in Client, Tuned(c) PROVE AnswerInv'
    BY <2>3, DrawKeepsAnswers DEF Tuned
  <2>4. ASSUME NEW c \in Client, TuneFailed(c) PROVE AnswerInv'
    <3>1. Finish(c, "transport", 0) /\ air' = air
      BY <2>4 DEF TuneFailed
    <3>2. QED BY <2>0, <3>1, FinishKeepsAnswers
  <2>5. ASSUME NEW c \in Client, Sent(c) PROVE AnswerInv'
    <3>1. pc[c] = "send" /\ \A m \in air' : Traceable(m)
      BY <2>0, <2>5, FrameOfTraceable DEF Sent
    <3>2. CASE /\ pc' = [pc EXCEPT ![c] = IF sent[c] + 1 < call[c].burst THEN "send" ELSE "await"]
               /\ UNCHANGED <<lock, call, attempt, ids, inbox, result>>
      <4>1. \A d \in Client : pc'[d] # "idle" => pc[d] # "idle"
        BY <3>1, <3>2 DEF TypeOK
      <4>2. UNCHANGED <<ids, call, result, inbox>>
        BY <3>2
      <4>3. QED BY <2>0, <3>1, <4>1, <4>2, OtherKeepsAnswers
    <3>3. CASE /\ pc' = [pc EXCEPT ![c] = "gap"]
               /\ UNCHANGED <<progress, ids, inbox, result>>
      <4>1. \A d \in Client : pc'[d] # "idle" => pc[d] # "idle"
        BY <3>1, <3>3 DEF TypeOK
      <4>2. UNCHANGED <<ids, call, result, inbox>>
        BY <3>3 DEF progress
      <4>3. QED BY <2>0, <3>1, <4>1, <4>2, OtherKeepsAnswers
    <3>4. CASE call[c].kind = "oneway" /\ Finish(c, "ok", 0)
      BY <3>1, <3>4, FinishKeepsAnswers
    <3>5. QED BY <2>5, <3>2, <3>3, <3>4 DEF Sent
  <2>6. ASSUME NEW c \in Client, SendFailed(c) PROVE AnswerInv'
    BY <2>6, FailAttemptKeepsAnswers DEF SendFailed
  <2>7. ASSUME NEW c \in Client, SentUnreported(c) PROVE AnswerInv'
    <3>1. \A m \in air' : Traceable(m)
      BY <2>0, <2>7, FrameOfTraceable DEF SentUnreported
    <3>2. UNCHANGED <<ids, call, result, pc, inbox>>
      BY <2>7 DEF SentUnreported, progress
    <3>3. QED BY <2>0, <3>1, <3>2, OtherKeepsAnswers
  <2>8. ASSUME NEW c \in Client, GapOver(c) PROVE AnswerInv'
    <3>1. UNCHANGED <<ids, call, result, air, inbox>>
      BY <2>8 DEF GapOver, channel, progress
    <3>2. \A d \in Client : pc'[d] # "idle" => pc[d] # "idle"
      BY <2>8 DEF GapOver, TypeOK
    <3>3. QED BY <2>0, <3>1, <3>2, OtherKeepsAnswers
  <2>9. ASSUME NEW c \in Client, TakeFrame(c) PROVE AnswerInv'
    <3> DEFINE f == Head(inbox)
    <3>1. /\ pc[c] = "await" /\ air' = air /\ inbox # <<>> /\ inbox \in Seq(Heard)
      BY <2>9 DEF TakeFrame, TypeOK
    <3>2. f \in Heard /\ Traceable(f)
      <4>1. f = inbox[1] /\ 1 \in 1 .. Len(inbox) /\ f \in Heard
        BY <3>1
      <4>2. QED BY <2>0, <4>1
    <3>3. CASE Matches(c, f) /\ \E how \in {"ok", "nack"} : Finish(c, how, f.tag)
      <4>1. c \notin rewound => f.tag = drawn[c]
        BY <3>2, <3>3, MatchIsOwn
      <4>2. QED BY <2>0, <3>1, <3>3, <4>1, FinishKeepsAnswers
    <3>4. CASE /\ inbox' = Tail(inbox)
               /\ UNCHANGED <<lock, pc, progress, ids, result>>
      <4>1. \A i \in 1 .. Len(inbox') : Traceable(inbox'[i])
        <5>1. \A i \in 1 .. Len(Tail(inbox)) :
                /\ i + 1 \in 1 .. Len(inbox)
                /\ Tail(inbox)[i] = inbox[i + 1]
          BY <3>1
        <5>2. \A i \in 1 .. Len(Tail(inbox)) : Traceable(inbox[i + 1])
          BY <2>0, <5>1
        <5>3. QED BY <3>4, <5>1, <5>2 DEF Traceable
      <4>2. UNCHANGED <<ids, call, result, pc>>
        BY <3>4 DEF progress
      <4>3. QED BY <2>0, <3>1, <4>1, <4>2, OtherKeepsAnswers
    <3>5. QED BY <2>9, <3>3, <3>4 DEF TakeFrame
  <2>10. ASSUME NEW c \in Client, Timeout(c) PROVE AnswerInv'
    BY <2>10, FailAttemptKeepsAnswers DEF Timeout
  <2>11. ASSUME NEW m \in air, NEW answer \in Answer, BoilerAnswers(m, answer)
         PROVE  AnswerInv'
    <3> DEFINE h == [client |-> m.client, id |-> m.id, tag |-> m.tag, answer |-> answer]
    <3>1. Traceable(h)
      BY <2>0 DEF Traceable
    <3>2. inbox' = Append(inbox, h) /\ inbox \in Seq(Heard)
      BY <2>11 DEF BoilerAnswers, TypeOK
    <3>3. \A i \in 1 .. Len(inbox') : inbox'[i] = h \/ (i \in 1 .. Len(inbox) /\ inbox'[i] = inbox[i])
      BY <3>2
    <3>4. \A i \in 1 .. Len(inbox') : Traceable(inbox'[i])
      BY <2>0, <3>1, <3>3
    <3>5. UNCHANGED <<ids, call, result, pc, air>>
      BY <2>11 DEF BoilerAnswers, progress
    <3>6. QED BY <2>0, <3>4, <3>5, OtherKeepsAnswers
  <2>12. ASSUME NEW m \in air, Fade(m) PROVE AnswerInv'
    <3>1. UNCHANGED <<ids, call, result, pc, inbox>> /\ air' \subseteq air
      BY <2>12 DEF Fade, progress
    <3>2. QED BY <2>0, <3>1, OtherKeepsAnswers
  <2>13. CASE Restart
    <3>1. /\ air' = air /\ drawn' = drawn /\ inbox' = <<>> /\ Len(<<>>) = 0
          /\ \A c \in Client : outcome'[c] = "none"
          /\ reqId' = saved
          /\ rewound' = rewound \cup {c \in Client : saved[c] # reqId[c]}
      BY <2>13 DEF Restart
    <3>2. \A m \in air' : Traceable(m)'
      <4>1. \A m \in air : m.client \in Client
        BY DEF TypeOK, Frame
      <4>2. \A c \in Client : c \notin rewound' => c \notin rewound /\ reqId'[c] = reqId[c]
        BY <3>1
      <4>3. QED BY <2>0, <3>1, <4>1, <4>2 DEF Traceable
    <3>3. QED BY <3>1, <3>2 DEF AnswerInv, AnswersOwnAttempt
  <2>14. CASE UNCHANGED vars
    BY <2>0, <2>14 DEF vars, AnswerInv, AnswersOwnAttempt, Traceable, ids, progress, result, channel
  <2>15. ASSUME NEW c \in Client, PortFails(c) PROVE AnswerInv'
    <3>1. Finish(c, "port", 0) /\ air' = air
      BY <2>15 DEF PortFails
    <3>2. QED BY <2>0, <3>1, FinishKeepsAnswers
  <2>16. QED
    BY <2>1, <2>2, <2>3, <2>4, <2>5, <2>6, <2>7, <2>8, <2>9, <2>10, <2>11, <2>12, <2>13, <2>14, <2>15
       DEF Next, CallStep
<1>3. QED BY <1>1, <1>2, Typing, PTL DEF Spec

\* An accepted answer belongs to the attempt that awaits it, for any number of ids and clients.
THEOREM Attribution == Spec => []AnswersOwnAttempt
<1>1. AnswerInv => AnswersOwnAttempt
  BY DEF AnswerInv
<1>2. QED BY <1>1, AnswersInductive, PTL

\* Different attempts the boiler may still answer carry different ids.
THEOREM Distinguishability == Spec => []IdsTellAttemptsApart
<1>1. TypeOK /\ AnswerInv => IdsTellAttemptsApart
  <2> SUFFICES ASSUME TypeOK, AnswerInv, NEW m \in air, NEW n \in air, m.client = n.client,
                      m.client \notin rewound, m.id = n.id
               PROVE  m.tag = n.tag
    BY DEF IdsTellAttemptsApart
  <2> DEFINE c == m.client
  <2>1. c \in Client /\ m.tag \in Nat /\ n.tag \in Nat /\ drawn[c] \in Nat /\ reqId[c] \in Id
    BY DEF TypeOK, Frame
  <2>2. Traceable(m) /\ Traceable(n)
    BY DEF AnswerInv
  <2>3. drawn[c] - m.tag \in 0 .. IdCount - 1 /\ drawn[c] - n.tag \in 0 .. IdCount - 1
    BY <2>1, <2>2, IdCountAssumption DEF Traceable
  <2>4. IdBefore(reqId[c], drawn[c] - m.tag) = IdBefore(reqId[c], drawn[c] - n.tag)
    BY <2>2 DEF Traceable
  <2>5. drawn[c] - m.tag = drawn[c] - n.tag
    BY <2>1, <2>3, <2>4, IdBeforeInjective
  <2>6. QED BY <2>1, <2>5
<1>2. QED BY <1>1, Typing, AnswersInductive, PTL

(***************************************************************************)
(* What every call's end rests on.  The line: who asks for the lock joins  *)
(* it from outside, who is handed the lock leaves it, and nothing else     *)
(* moves in it.                                                            *)
(***************************************************************************)

\* A client that asks for the lock is in the line, once.
LEMMA JoiningStrandsNobody ==
  ASSUME TypeOK, NobodyStranded, NEW c \in Client, pc[c] \in {"idle", "gap"},
         line' = Append(line, c), pc' = [pc EXCEPT ![c] = "waiting"], lock' = lock
  PROVE  NobodyStranded'
<1>1. /\ line \in Seq(Client) /\ Len(line) \in Nat /\ Len(line') = Len(line) + 1
      /\ line'[Len(line) + 1] = c /\ \A i \in 1 .. Len(line) : line'[i] = line[i]
  BY DEF TypeOK
<1>2. \A i \in 1 .. Len(line) : line[i] # c
  BY DEF NobodyStranded, InLine
<1>3. \A d \in Client : InLine(d)' <=> d = c \/ InLine(d)
  <2>1. ASSUME NEW d \in Client, InLine(d)' PROVE d = c \/ InLine(d)
    <3>1. PICK i \in 1 .. Len(line') : line'[i] = d
      BY <2>1 DEF InLine
    <3>2. CASE i = Len(line) + 1
      BY <1>1, <3>1, <3>2
    <3>3. CASE i \in 1 .. Len(line)
      BY <1>1, <3>1, <3>3 DEF InLine
    <3>4. QED BY <1>1, <3>2, <3>3
  <2>2. ASSUME NEW d \in Client, InLine(d) PROVE InLine(d)'
    BY <1>1, <2>2 DEF InLine
  <2>3. InLine(c)'
    BY <1>1 DEF InLine
  <2>4. QED BY <2>1, <2>2, <2>3
<1>4. \A d \in Client : pc'[d] = "waiting" <=> InLine(d)'
  BY <1>3 DEF NobodyStranded, TypeOK
<1>5. \A i, j \in 1 .. Len(line') : line'[i] = line'[j] => i = j
  BY <1>1, <1>2 DEF NobodyStranded
<1>6. lock' # Nobody => pc'[lock'] \in Inside
  BY DEF NobodyStranded, TypeOK, Inside
<1>7. QED BY <1>4, <1>5, <1>6 DEF NobodyStranded

LEMMA PoppedQueue ==
  ASSUME NEW q \in Seq(Client), q # <<>>
  PROVE  /\ q \in Seq(Client) /\ Len(q) \in Nat /\ Len(q) >= 1
         /\ Len(Tail(q)) = Len(q) - 1 /\ q[1] = Head(q)
         /\ \A i \in 1 .. Len(q) - 1 : Tail(q)[i] = q[i + 1]
  OBVIOUS

\* The lock is handed to the first in line, who is then no longer in it.
LEMMA AcquiringStrandsNobody ==
  ASSUME TypeOK, NobodyStranded, NEW c \in Client, Acquire(c)
  PROVE  NobodyStranded'
<1>1. /\ line # <<>> /\ line' = Tail(line) /\ lock' = c /\ pc' = [pc EXCEPT ![c] = "tune"]
      /\ Head(line) = c
  BY DEF Acquire
<1>2. /\ line \in Seq(Client) /\ Len(line) \in Nat /\ Len(line) >= 1
      /\ Len(line') = Len(line) - 1 /\ line[1] = c
      /\ \A i \in 1 .. Len(line) - 1 : line'[i] = line[i + 1]
  BY <1>1, PoppedQueue DEF TypeOK
<1>3. \A i \in 2 .. Len(line) : line[i] # c
  BY <1>2 DEF NobodyStranded
<1>4. \A d \in Client : InLine(d)' <=> d # c /\ InLine(d)
  <2>1. ASSUME NEW d \in Client, InLine(d)' PROVE d # c /\ InLine(d)
    <3>1. PICK i \in 1 .. Len(line') : line'[i] = d
      BY <2>1 DEF InLine
    <3>2. i + 1 \in 2 .. Len(line) /\ line[i + 1] = d
      BY <1>2, <3>1
    <3>3. QED BY <1>2, <1>3, <3>2 DEF InLine
  <2>2. ASSUME NEW d \in Client, d # c, InLine(d) PROVE InLine(d)'
    <3>1. PICK i \in 1 .. Len(line) : line[i] = d
      BY <2>2 DEF InLine
    <3>2. i - 1 \in 1 .. Len(line') /\ line'[i - 1] = d
      BY <1>2, <2>2, <3>1
    <3>3. QED BY <3>2 DEF InLine
  <2>3. QED BY <2>1, <2>2
<1>5. \A d \in Client : pc'[d] = "waiting" <=> InLine(d)'
  BY <1>1, <1>4 DEF NobodyStranded, TypeOK
<1>6. \A i, j \in 1 .. Len(line') : line'[i] = line'[j] => i = j
  BY <1>2 DEF NobodyStranded
<1>7. lock' # Nobody => pc'[lock'] \in Inside
  BY <1>1 DEF TypeOK, Inside
<1>8. QED BY <1>5, <1>6, <1>7 DEF NobodyStranded

\* A client inside goes on there.
LEMMA StayingStrandsNobody ==
  ASSUME TypeOK, NobodyStranded, NEW c \in Client, pc[c] \in Inside, line' = line,
         NEW p \in {"send", "await"}, pc' = [pc EXCEPT ![c] = p], lock' = lock
  PROVE  NobodyStranded'
  BY DEF TypeOK, NobodyStranded, InLine, Inside

\* Or it leaves, and the lock is free.
LEMMA LeavingStrandsNobody ==
  ASSUME TypeOK, NobodyStranded, NEW c \in Client, pc[c] \in Inside, line' = line,
         NEW p \in {"idle", "gap"}, pc' = [pc EXCEPT ![c] = p], lock' = Nobody
  PROVE  NobodyStranded'
  BY DEF TypeOK, NobodyStranded, InLine, Inside

LEMMA OtherStrandsNobody ==
  ASSUME NobodyStranded, UNCHANGED <<pc, lock, line>>
  PROVE  NobodyStranded'
  BY DEF NobodyStranded, InLine

LEMMA FailAttemptStrandsNobody ==
  ASSUME TypeOK, NobodyStranded, NEW c \in Client, pc[c] \in Inside, line' = line,
         NEW why, FailAttempt(c, why)
  PROVE  NobodyStranded'
<1>1. CASE DrawId(c) /\ UNCHANGED <<lock, result>>
  BY <1>1, StayingStrandsNobody DEF DrawId
<1>2. CASE Finish(c, why, 0)
  BY <1>2, LeavingStrandsNobody DEF Finish, Release
<1>3. QED BY <1>1, <1>2 DEF FailAttempt

\* Nobody waits for a lock that nobody will release, or outside its line.
THEOREM Waiting == Spec => []NobodyStranded
<1>1. Init => NobodyStranded
  <2> SUFFICES ASSUME Init PROVE NobodyStranded
    OBVIOUS
  <2>1. Len(line) = 0 /\ lock = Nobody
    BY DEF Init
  <2>2. QED BY <2>1 DEF Init, NobodyStranded, InLine
<1>2. TypeOK /\ NobodyStranded /\ [Next]_vars => NobodyStranded'
  <2> SUFFICES ASSUME TypeOK, NobodyStranded, [Next]_vars PROVE NobodyStranded'
    OBVIOUS
  <2> USE DEF Inside
  <2>1. ASSUME NEW c \in Client, NEW kind \in Kind, NEW shape \in Shape, Begin(c, kind, shape)
        PROVE  NobodyStranded'
    BY <2>1, JoiningStrandsNobody DEF Begin
  <2>2. ASSUME NEW c \in Client, Acquire(c) PROVE NobodyStranded'
    BY <2>2, AcquiringStrandsNobody
  <2>3. ASSUME NEW c \in Client, Tuned(c) PROVE NobodyStranded'
    BY <2>3, StayingStrandsNobody DEF Tuned, DrawId
  <2>4. ASSUME NEW c \in Client, TuneFailed(c) PROVE NobodyStranded'
    BY <2>4, LeavingStrandsNobody DEF TuneFailed, Finish, Release
  <2>5. ASSUME NEW c \in Client, Sent(c) PROVE NobodyStranded'
    <3>1. pc[c] \in Inside /\ line' = line
      BY <2>5 DEF Sent
    <3>2. CASE /\ pc' = [pc EXCEPT ![c] = IF sent[c] + 1 < call[c].burst THEN "send" ELSE "await"]
               /\ UNCHANGED <<lock, call, attempt, ids, inbox, result>>
      <4>1. (IF sent[c] + 1 < call[c].burst THEN "send" ELSE "await") \in {"send", "await"}
        OBVIOUS
      <4>2. lock' = lock
        BY <3>2
      <4>3. QED BY <3>1, <3>2, <4>1, <4>2, StayingStrandsNobody
    <3>3. CASE pc' = [pc EXCEPT ![c] = "gap"] /\ Release
      BY <3>1, <3>3, LeavingStrandsNobody DEF Release
    <3>4. CASE Finish(c, "ok", 0)
      BY <3>1, <3>4, LeavingStrandsNobody DEF Finish, Release
    <3>5. QED BY <2>5, <3>2, <3>3, <3>4 DEF Sent
  <2>6. ASSUME NEW c \in Client, SendFailed(c) PROVE NobodyStranded'
    BY <2>6, FailAttemptStrandsNobody DEF SendFailed
  <2>7. ASSUME NEW c \in Client, GapOver(c) PROVE NobodyStranded'
    BY <2>7, JoiningStrandsNobody DEF GapOver
  <2>8. ASSUME NEW c \in Client, TakeFrame(c) PROVE NobodyStranded'
    <3>1. pc[c] \in Inside /\ line' = line
      BY <2>8 DEF TakeFrame
    <3>2. CASE UNCHANGED <<lock, pc, progress, ids, result>>
      BY <3>1, <3>2, OtherStrandsNobody
    <3>3. ASSUME NEW how, NEW by, Finish(c, how, by) PROVE NobodyStranded'
      BY <3>1, <3>3, LeavingStrandsNobody DEF Finish, Release
    <3>4. QED BY <2>8, <3>2, <3>3 DEF TakeFrame
  <2>9. ASSUME NEW c \in Client, Timeout(c) PROVE NobodyStranded'
    BY <2>9, FailAttemptStrandsNobody DEF Timeout
  <2>10. CASE Restart
    <3>1. Len(line') = 0 /\ lock' = Nobody
      BY <2>10 DEF Restart
    <3>2. QED BY <2>10, <3>1 DEF Restart, NobodyStranded, InLine
  <2>11. CASE \/ \E c \in Client : SentUnreported(c)
              \/ \E m \in air, answer \in Answer : BoilerAnswers(m, answer)
              \/ \E m \in air : Fade(m)
              \/ UNCHANGED vars
    BY <2>11, OtherStrandsNobody DEF SentUnreported, BoilerAnswers, Fade, vars
  <2>12. ASSUME NEW c \in Client, PortFails(c) PROVE NobodyStranded'
    BY <2>12, LeavingStrandsNobody DEF PortFails, Finish, Release
  <2>13. QED
    BY <2>1, <2>2, <2>3, <2>4, <2>5, <2>6, <2>7, <2>8, <2>9, <2>10, <2>11, <2>12 DEF Next, CallStep
<1>3. QED BY <1>1, <1>2, Typing, PTL DEF Spec

(***************************************************************************)
(* A call stays within the attempts and frames it was asked for, so what   *)
(* it has left shrinks at every step of it.                                *)
(***************************************************************************)

\* What the type invariant says of a call.
LEMMA CallTypes ==
  ASSUME TypeOK, NEW c \in Client
  PROVE  /\ attempt[c] \in Nat /\ sent[c] \in Nat
         /\ call[c].attempts \in Nat \ {0} /\ call[c].burst \in Nat \ {0}
         /\ call[c].kind \in Kind
  BY DEF TypeOK

\* Another attempt, while there is one left.
LEMMA DrawIdCounts ==
  ASSUME TypeOK, BudgetInv, NEW c \in Client, attempt[c] < call[c].attempts, DrawId(c)
  PROVE  BudgetInv' /\ \A d \in Client : Counted(d)
<1>1. /\ attempt' = [attempt EXCEPT ![c] = @ + 1] /\ sent' = [sent EXCEPT ![c] = 0]
      /\ pc' = [pc EXCEPT ![c] = "send"] /\ call' = call
  BY DEF DrawId
<1>2. attempt'[c] = attempt[c] + 1 /\ sent'[c] = 0 /\ pc'[c] = "send"
  BY <1>1 DEF TypeOK
<1>3. \A d \in Client \ {c} : UNCHANGED <<pc[d], attempt[d], sent[d], call[d]>>
  BY <1>1 DEF TypeOK
<1>4. BudgetInv'
  BY <1>1, <1>2, <1>3, CallTypes DEF BudgetInv
<1>5. Counted(c)
  BY <1>1, <1>2, CallTypes DEF Counted, Nearer
<1>6. \A d \in Client \ {c} : Counted(d)
  BY <1>3 DEF Counted
<1>7. QED BY <1>4, <1>5, <1>6

\* A step that leaves every attempt as it is, and moves one client.
LEMMA MoveCounts ==
  ASSUME TypeOK, BudgetInv, NEW c \in Client, UNCHANGED progress,
         NEW p, pc' = [pc EXCEPT ![c] = p],
         \/ p \in {"idle", "await"}
         \/ p \in {"waiting", "tune", "gap"} /\ attempt[c] < call[c].attempts
  PROVE  BudgetInv' /\ \A d \in Client \ {c} : Counted(d)
<1>1. pc'[c] = p /\ \A d \in Client \ {c} : pc'[d] = pc[d]
  BY DEF TypeOK
<1>2. UNCHANGED <<call, attempt, sent>>
  BY DEF progress
<1>3. QED BY <1>1, <1>2 DEF BudgetInv, Counted

\* The end of a call counts for nothing.
LEMMA FinishCounts ==
  ASSUME TypeOK, BudgetInv, NEW c \in Client, NEW how, NEW by, Finish(c, how, by)
  PROVE  BudgetInv' /\ \A d \in Client : Counted(d)
<1>1. pc' = [pc EXCEPT ![c] = "idle"] /\ UNCHANGED <<call, attempt, sent>>
  BY DEF Finish, progress
<1>2. pc'[c] = "idle" /\ \A d \in Client \ {c} : pc'[d] = pc[d]
  BY <1>1 DEF TypeOK
<1>3. BudgetInv'
  BY <1>1, <1>2 DEF BudgetInv
<1>4. \A d \in Client : Counted(d)
  BY <1>1, <1>2 DEF Counted
<1>5. QED BY <1>3, <1>4

LEMMA FailAttemptCounts ==
  ASSUME TypeOK, BudgetInv, NEW c \in Client, NEW why, FailAttempt(c, why)
  PROVE  BudgetInv' /\ \A d \in Client : Counted(d)
<1>1. CASE attempt[c] < call[c].attempts /\ DrawId(c)
  BY <1>1, DrawIdCounts
<1>2. CASE Finish(c, why, 0)
  BY <1>2, FinishCounts
<1>3. QED BY <1>1, <1>2 DEF FailAttempt

\* Steps that are nobody's: the radio, another frame, a repeated transmission.
LEMMA OtherCounts ==
  ASSUME BudgetInv, UNCHANGED <<pc, call, attempt, sent>>
  PROVE  BudgetInv' /\ \A d \in Client : Counted(d)
  BY DEF BudgetInv, Counted

\* A frame of a burst went out: another is due, or the answer is.
LEMMA BurstCounts ==
  ASSUME TypeOK, BudgetInv, NEW c \in Client, pc[c] = "send",
         sent' = [sent EXCEPT ![c] = @ + 1],
         pc' = [pc EXCEPT ![c] = IF sent[c] + 1 < call[c].burst THEN "send" ELSE "await"],
         UNCHANGED <<call, attempt>>
  PROVE  BudgetInv' /\ \A d \in Client : Counted(d)
<1>1. /\ sent'[c] = sent[c] + 1
      /\ pc'[c] = IF sent[c] + 1 < call[c].burst THEN "send" ELSE "await"
  BY DEF TypeOK
<1>2. \A d \in Client \ {c} : UNCHANGED <<pc[d], attempt[d], sent[d], call[d]>>
  BY DEF TypeOK
<1>3. sent[c] < call[c].burst
  BY DEF BudgetInv
<1>4. BudgetInv'
  BY <1>1, <1>2, CallTypes DEF BudgetInv
<1>5. Remaining(c) = 3 + call[c].burst - sent[c]
  BY DEF Remaining
<1>6. Remaining(c)' \in 0 .. Remaining(c) - 1
  <2>1. CASE sent[c] + 1 < call[c].burst
    <3>1. Remaining(c)' = 3 + call[c].burst - (sent[c] + 1)
      BY <1>1, <2>1 DEF Remaining
    <3>2. QED BY <1>3, <1>5, <3>1, CallTypes
  <2>2. CASE ~(sent[c] + 1 < call[c].burst)
    <3>1. Remaining(c)' = 0
      BY <1>1, <2>2 DEF Remaining
    <3>2. QED BY <1>3, <1>5, <3>1, CallTypes
  <2>3. QED BY <2>1, <2>2
<1>7. Counted(c)
  BY <1>6 DEF Counted, Nearer
<1>8. QED BY <1>2, <1>4, <1>7 DEF Counted

\* Every step of the system, client by client.
LEMMA NextCounts ==
  ASSUME TypeOK, BudgetInv, [Next]_vars
  PROVE  BudgetInv' /\ \A d \in Client : Counted(d)
<1>1. ASSUME NEW c \in Client, NEW kind \in Kind, NEW shape \in Shape, Begin(c, kind, shape)
      PROVE  BudgetInv' /\ \A d \in Client : Counted(d)
  <2>1. shape.attempts \in Nat \ {0} /\ shape.burst \in Nat \ {0}
    BY ExchangeAssumption
  <2>2. /\ pc[c] = "idle" /\ pc'[c] = "waiting" /\ attempt'[c] = 0
        /\ call'[c] = [kind |-> kind, attempts |-> shape.attempts,
                       burst |-> IF kind = "oneway" THEN 1 ELSE shape.burst]
    BY <1>1 DEF Begin, TypeOK
  <2>3. \A d \in Client \ {c} : UNCHANGED <<pc[d], attempt[d], sent[d], call[d]>>
    BY <1>1 DEF Begin, TypeOK
  <2>4. BudgetInv'
    BY <2>1, <2>2, <2>3 DEF BudgetInv
  <2>5. QED BY <2>2, <2>3, <2>4 DEF Counted
<1>2. ASSUME NEW c \in Client, Acquire(c) PROVE BudgetInv' /\ \A d \in Client : Counted(d)
  <2>1. pc[c] = "waiting" /\ pc' = [pc EXCEPT ![c] = "tune"] /\ UNCHANGED progress
    BY <1>2 DEF Acquire
  <2>2. pc'[c] = "tune"
    BY <2>1 DEF TypeOK
  <2>3. attempt[c] < call[c].attempts
    BY <2>1 DEF BudgetInv
  <2>4. BudgetInv' /\ \A d \in Client \ {c} : Counted(d)
    BY <2>1, <2>3, MoveCounts
  <2>5. Remaining(c) = 1 /\ Remaining(c)' = 0
    BY <2>1, <2>2 DEF Remaining
  <2>6. Counted(c)
    BY <2>1, <2>5 DEF Counted, Nearer, progress
  <2>7. QED BY <2>4, <2>6
<1>3. ASSUME NEW c \in Client, Tuned(c) PROVE BudgetInv' /\ \A d \in Client : Counted(d)
  <2>1. attempt[c] < call[c].attempts /\ DrawId(c)
    BY <1>3 DEF Tuned, BudgetInv
  <2>2. QED BY <2>1, DrawIdCounts
<1>4. ASSUME NEW c \in Client, TuneFailed(c) PROVE BudgetInv' /\ \A d \in Client : Counted(d)
  BY <1>4, FinishCounts DEF TuneFailed
<1>5. ASSUME NEW c \in Client, Sent(c) PROVE BudgetInv' /\ \A d \in Client : Counted(d)
  <2>1. pc[c] = "send"
    BY <1>5 DEF Sent
  <2>2. CASE /\ sent' = [sent EXCEPT ![c] = @ + 1]
             /\ pc' = [pc EXCEPT ![c] = IF sent[c] + 1 < call[c].burst THEN "send" ELSE "await"]
             /\ UNCHANGED <<lock, call, attempt, ids, inbox, result>>
    <3>1. UNCHANGED <<call, attempt>>
      BY <2>2
    <3>2. QED BY <2>1, <2>2, <3>1, BurstCounts
  <2>3. CASE /\ call[c].kind = "oneway" /\ attempt[c] < call[c].attempts
             /\ pc' = [pc EXCEPT ![c] = "gap"]
             /\ UNCHANGED <<progress, ids, inbox, result>>
    <3>1. BudgetInv' /\ \A d \in Client \ {c} : Counted(d)
      <4>1. UNCHANGED progress
        BY <2>3
      <4>2. QED BY <2>3, <4>1, MoveCounts
    <3>2. sent[c] < call[c].burst /\ pc'[c] = "gap" /\ attempt'[c] = attempt[c] /\ call'[c] = call[c]
      BY <2>1, <2>3 DEF BudgetInv, TypeOK, progress
    <3>3. Remaining(c) = 3 + call[c].burst - sent[c] /\ Remaining(c)' = 2
      BY <2>1, <3>2 DEF Remaining
    <3>4. Remaining(c)' \in 0 .. Remaining(c) - 1
      BY <3>2, <3>3, CallTypes
    <3>5. Counted(c)
      BY <3>2, <3>4 DEF Counted, Nearer
    <3>6. QED BY <3>1, <3>5
  <2>4. CASE Finish(c, "ok", 0)
    BY <2>4, FinishCounts
  <2>5. QED BY <1>5, <2>2, <2>3, <2>4 DEF Sent
<1>6. ASSUME NEW c \in Client, SendFailed(c) PROVE BudgetInv' /\ \A d \in Client : Counted(d)
  BY <1>6, FailAttemptCounts DEF SendFailed
<1>7. ASSUME NEW c \in Client, GapOver(c) PROVE BudgetInv' /\ \A d \in Client : Counted(d)
  <2>1. pc[c] = "gap" /\ pc' = [pc EXCEPT ![c] = "waiting"] /\ UNCHANGED progress
    BY <1>7 DEF GapOver
  <2>2. pc'[c] = "waiting"
    BY <2>1 DEF TypeOK
  <2>3. attempt[c] < call[c].attempts
    BY <2>1 DEF BudgetInv
  <2>4. BudgetInv' /\ \A d \in Client \ {c} : Counted(d)
    BY <2>1, <2>3, MoveCounts
  <2>5. Remaining(c) = 2 /\ Remaining(c)' = 1
    BY <2>1, <2>2 DEF Remaining
  <2>6. Counted(c)
    BY <2>1, <2>5 DEF Counted, Nearer, progress
  <2>7. QED BY <2>4, <2>6
<1>8. ASSUME NEW c \in Client, TakeFrame(c) PROVE BudgetInv' /\ \A d \in Client : Counted(d)
  <2>1. CASE UNCHANGED <<lock, pc, progress, ids, result>>
    BY <2>1, OtherCounts DEF progress
  <2>2. ASSUME NEW how, NEW by, Finish(c, how, by)
        PROVE  BudgetInv' /\ \A d \in Client : Counted(d)
    BY <2>2, FinishCounts
  <2>3. QED BY <1>8, <2>1, <2>2 DEF TakeFrame
<1>9. ASSUME NEW c \in Client, Timeout(c) PROVE BudgetInv' /\ \A d \in Client : Counted(d)
  BY <1>9, FailAttemptCounts DEF Timeout
<1>10. CASE Restart
  <2>1. \A c \in Client : pc'[c] = "idle" /\ UNCHANGED progress
    BY <1>10 DEF Restart
  <2>2. QED BY <2>1 DEF BudgetInv, Counted, progress
<1>11. CASE \/ \E c \in Client : SentUnreported(c)
            \/ \E m \in air, answer \in Answer : BoilerAnswers(m, answer)
            \/ \E m \in air : Fade(m)
            \/ UNCHANGED vars
  BY <1>11, OtherCounts DEF SentUnreported, BoilerAnswers, Fade, vars, progress
<1>12. ASSUME NEW c \in Client, PortFails(c) PROVE BudgetInv' /\ \A d \in Client : Counted(d)
  BY <1>12, FinishCounts DEF PortFails
<1>13. QED
  BY <1>1, <1>2, <1>3, <1>4, <1>5, <1>6, <1>7, <1>8, <1>9, <1>10, <1>11, <1>12 DEF Next, CallStep

\* A call transmits no more, and no longer, than its attempts and bursts allow: with Waiting and the
\* timeouts' fairness, the reason every call ends.
THEOREM Progress == Spec => EveryStepCounts
<1>1. Init => BudgetInv
  BY DEF Init, BudgetInv
<1>2. TypeOK /\ BudgetInv /\ [Next]_vars => BudgetInv'
  BY NextCounts
<1>3. TypeOK /\ BudgetInv /\ [Next]_vars => [\A c \in Client : Counted(c)]_vars
  BY NextCounts
<1>4. QED BY <1>1, <1>2, <1>3, Typing, PTL DEF Spec, EveryStepCounts
=============================================================================
