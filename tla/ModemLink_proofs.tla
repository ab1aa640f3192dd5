---------------------------- MODULE ModemLink_proofs ----------------------------
(***************************************************************************)
(* What holds of ModemLink for every set of networks, width of the         *)
(* sequence number and bound: its type invariant, that a command succeeds  *)
(* only on the modem's carrying it out, that the radio stays as asked, and *)
(* that commands keep their order; and what that gives the clients of      *)
(* TunedLink, for any of them and any networks: frames that go out where   *)
(* and when they belong.                                                   *)
(***************************************************************************)
EXTENDS TunedLink, TLAPS

(***************************************************************************)
(* Sequence numbers, and the wire as a queue.                              *)
(***************************************************************************)

\* Sequences used as queues.
LEMMA QueueTypes ==
  ASSUME NEW S, NEW q \in Seq(S)
  PROVE  /\ <<>> \in Seq(S)
         /\ \A e \in S : Append(q, e) \in Seq(S)
         /\ q # <<>> => Head(q) \in S /\ Tail(q) \in Seq(S)
  OBVIOUS

\* What a queue holds after an arrival.
LEMMA AppendElements ==
  ASSUME NEW S, NEW q \in Seq(S), NEW e \in S
  PROVE  /\ Len(q) \in Nat
         /\ Len(Append(q, e)) = Len(q) + 1
         /\ Append(q, e)[Len(q) + 1] = e
         /\ \A i \in 1 .. Len(q) : Append(q, e)[i] = q[i]
  OBVIOUS

\* What a queue holds after its first element left.
LEMMA TailElements ==
  ASSUME NEW S, NEW q \in Seq(S), q # <<>>
  PROVE  /\ Len(q) \in Nat /\ Len(q) >= 1
         /\ Len(Tail(q)) = Len(q) - 1
         /\ Head(q) = q[1]
         /\ \A i \in 1 .. Len(q) - 1 : Tail(q)[i] = q[i + 1]
  OBVIOUS

\* What holds of every element still holds after the first one left.
LEMMA TailSubset ==
  ASSUME NEW S, NEW q \in Seq(S), q # <<>>
  PROVE  \A i \in 1 .. Len(Tail(q)) : i + 1 \in 1 .. Len(q) /\ Tail(q)[i] = q[i + 1]
  BY TailElements

\* The next id is an id: the counter stays within its width.
LEMMA NextIdType == ASSUME NEW i \in Id PROVE NextId(i) \in Id
  BY IdCountAssumption DEF Id, NextId

\* Ids drawn fewer than IdCount draws ago differ.
LEMMA IdBeforeInjective ==
  ASSUME NEW i \in Id, NEW m \in 0 .. IdCount - 1, NEW n \in 0 .. IdCount - 1,
         IdBefore(i, m) = IdBefore(i, n)
  PROVE  m = n
  BY IdCountAssumption DEF Id, IdBefore

\* One more draw puts an id one place further back.
LEMMA IdBeforeNext ==
  ASSUME NEW i \in Id, NEW n \in Nat, n + 1 < IdCount
  PROVE  IdBefore(NextId(i), n + 1) = IdBefore(i, n)
  BY IdCountAssumption DEF Id, IdBefore, NextId

\* No draw ago it was the last id drawn.
LEMMA IdBeforeZero == ASSUME NEW i \in Id PROVE IdBefore(i, 0) = i
  BY DEF Id, IdBefore

(***************************************************************************)
(* Types.                                                                  *)
(***************************************************************************)

\* A command sets each field to one of its values or to nothing.
LEMMA CommandType ==
  ASSUME NEW c \in Command
  PROVE  /\ c.sets \in [Setting -> Value \cup {Nothing}]
         /\ c.reply \in {"OK", "PONG"}
  BY DEF Command, Nid, ModeChange, Tx, Ping, Only, Forgotten, Setting, Value

LEMMA SomeCommand == Tx \in Command
  BY DEF Command

LEMMA BootRadioType == BootRadio \in [Setting -> Value]
  BY LinkAssumption DEF BootRadio, Value, Mode

\* The type invariant: in particular the sequence number never leaves its width.
THEOREM Typing == Spec => []TypeOK
<1>1. Init => TypeOK
  <2> SUFFICES ASSUME Init PROVE TypeOK
    OBVIOUS
  <2>1. 0 \in Id
    BY IdCountAssumption DEF Id
  <2>2. pending \in [seq : Id, reply : {"OK", "PONG"}]
    BY <2>1 DEF Init
  <2>3. asked \in [Setting -> Value \cup {Nothing}]
    BY DEF Init, Forgotten
  <2>4. toModem \in Seq(CommandLine) /\ toHost \in Seq(ReplyLine)
    BY DEF Init
  <2>5. QED
    BY <2>2, <2>3, <2>4, SomeCommand, BootRadioType DEF Init, TypeOK
<1>2. TypeOK /\ [Next]_vars => TypeOK'
  <2> SUFFICES ASSUME TypeOK, [Next]_vars PROVE TypeOK'
    OBVIOUS
  <2> USE DEF TypeOK, host, wires, history
  <2>1. ASSUME NEW c \in Command, Issue(c) PROVE TypeOK'
    <3>1. nextSeq' \in Id
      BY <2>1, NextIdType DEF Issue
    <3>2. pending' \in [seq : Id, reply : {"OK", "PONG"}]
      BY <2>1, CommandType DEF Issue
    <3>3. asked' \in [Setting -> Value \cup {Nothing}]
      BY <2>1 DEF Issue, Replace, Forgotten
    <3>4. QED BY <2>1, <3>1, <3>2, <3>3 DEF Issue
  <2>2. CASE Write
    <3>1. TheLine \in CommandLine
      BY DEF TheLine, CommandLine
    <3>2. toModem' \in Seq(CommandLine)
      BY <2>2, <3>1, QueueTypes DEF Write
    <3>3. QED BY <2>2, <3>2 DEF Write
  <2>3. CASE Written
    BY <2>3 DEF Written
  <2>4. CASE WriteFails
    BY <2>4 DEF WriteFails
  <2>5. CASE HandleReply
    <3>1. toHost' \in Seq(ReplyLine)
      BY <2>5, QueueTypes DEF HandleReply
    <3>2. QED BY <2>5, <3>1 DEF HandleReply
  <2>6. CASE HandleGarbage
    <3>1. toHost' \in Seq(ReplyLine)
      BY <2>6, QueueTypes DEF HandleGarbage
    <3>2. QED BY <2>6, <3>1 DEF HandleGarbage
  <2>7. CASE Return
    <3>1. asked' \in [Setting -> Value \cup {Nothing}]
      BY <2>7, CommandType DEF Return, Replace
    <3>2. QED BY <2>7, <3>1 DEF Return
  <2>8. CASE TimeOut
    BY <2>8 DEF TimeOut
  <2>9. CASE ReaderFails
    BY <2>9 DEF ReaderFails
  <2>10. ASSUME toModem # <<>>
         PROVE  /\ Head(toModem).seq \in Id /\ Head(toModem).tag \in Nat
                /\ Head(toModem).command \in Command
                /\ Tail(toModem) \in Seq(CommandLine)
    <3>1. Head(toModem) \in CommandLine /\ Tail(toModem) \in Seq(CommandLine)
      BY <2>10, QueueTypes
    <3>2. QED BY <3>1 DEF CommandLine
  <2>11. ASSUME NEW seq \in Id, NEW tag \in Nat, NEW reply \in Reply
         PROVE  Append(toHost, [seq |-> seq, tag |-> tag, reply |-> reply]) \in Seq(ReplyLine)
    <3>1. [seq |-> seq, tag |-> tag, reply |-> reply] \in ReplyLine
      BY DEF ReplyLine
    <3>2. QED BY <3>1, QueueTypes
  <2>12. CASE Dispatch
    <3>1. Head(toModem).command.reply \in Reply
      BY <2>10, <2>12, CommandType DEF Dispatch, Reply
    <3>2. toHost' \in Seq(ReplyLine)
      BY <2>10, <2>11, <2>12, <3>1 DEF Dispatch
    <3>3. radio' \in [Setting -> Value]
      BY <2>10, <2>12, CommandType DEF Dispatch, Replace
    <3>4. QED BY <2>10, <2>12, <3>2, <3>3 DEF Dispatch
  <2>13. CASE Reject
    <3>1. "ERR" \in Reply /\ Head(toModem).tag \in Nat
      BY <2>10, <2>13 DEF Reject, Reply
    <3>2. \A seq \in Id : Append(toHost, [seq |-> seq, tag |-> Head(toModem).tag, reply |-> "ERR"])
                             \in Seq(ReplyLine)
      BY <2>11, <3>1
    <3>3. toHost' \in Seq(ReplyLine)
      BY <2>13, <3>2 DEF Reject
    <3>4. QED BY <2>10, <2>13, <3>3 DEF Reject
  <2>14. CASE Reset
    <3>1. toModem' \in Seq(CommandLine)
      BY <2>14 DEF Reset
    <3>2. asked' \in [Setting -> Value \cup {Nothing}]
      BY <2>14 DEF Reset, Forgotten
    <3>3. radio' \in [Setting -> Value]
      BY <2>14, BootRadioType DEF Reset
    <3>4. UNCHANGED <<host, toHost, issued, processed, executed>> /\ steady' = FALSE /\ resets' \in Nat
      BY <2>14 DEF Reset
    <3>5. QED BY <3>1, <3>2, <3>3, <3>4
  <2>15. CASE UNCHANGED vars
    BY <2>15 DEF vars
  <2>16. QED
    BY <2>1, <2>2, <2>3, <2>4, <2>5, <2>6, <2>7, <2>8, <2>9, <2>12, <2>13, <2>14, <2>15 DEF Next
<1>3. QED BY <1>1, <1>2, PTL DEF Spec

(***************************************************************************)
(* What a command that succeeded did.  Lines stay in order, so by the time *)
(* the modem carries a command out nothing issued earlier is under way;    *)
(* and fewer than IdCount commands lie between the lines under way, so a   *)
(* sequence number names one command.                                      *)
(***************************************************************************)

\* Nothing that the lines' sequence numbers and ages are measured by has changed.
LEMMA SequencedStays ==
  ASSUME UNCHANGED <<issued, pending>>, NEW l
  PROVE  (Recent(l) <=> Recent(l)') /\ (Sequenced(l) <=> Sequenced(l)')
  BY DEF Recent, Sequenced

\* A line under way keeps its place when another command is issued.
LEMMA SequencedAges ==
  ASSUME TypeOK, OrderInv, NEW c, Issue(c), NEW l, l.tag \in Nat, issued + 1 - l.tag < IdCount
  PROVE  (Recent(l) => Recent(l)') /\ (Sequenced(l) => Sequenced(l)')
<1>1. issued' = issued + 1 /\ issued \in Nat /\ pending'.seq = nextSeq
  BY DEF Issue, TypeOK
<1>2. Recent(l) => Recent(l)'
  BY <1>1 DEF Recent
<1>3. ASSUME Sequenced(l) PROVE Sequenced(l)'
  <2>1. Recent(l) /\ issued > 0 /\ issued - l.tag \in Nat
    BY <1>1, <1>3 DEF Sequenced, Recent
  <2>2. nextSeq = NextId(pending.seq) /\ pending.seq \in Id
    BY <2>1 DEF OrderInv, TypeOK
  <2>3. IdBefore(nextSeq, (issued - l.tag) + 1) = IdBefore(pending.seq, issued - l.tag)
    BY <1>1, <2>1, <2>2, IdBeforeNext
  <2>4. issued' - l.tag = (issued - l.tag) + 1
    BY <1>1
  <2>5. QED BY <1>1, <1>2, <1>3, <2>1, <2>3, <2>4 DEF Sequenced
<1>4. QED BY <1>2, <1>3

\* Of the lines under way only those of the command in flight carry its sequence number.
LEMMA SequencedIsOwn ==
  ASSUME TypeOK, NEW l, Sequenced(l), l.seq = pending.seq
  PROVE  l.tag = issued
<1>1. pending.seq \in Id /\ issued \in Nat
  BY DEF TypeOK
<1>2. issued - l.tag \in 0 .. IdCount - 1 /\ 0 \in 0 .. IdCount - 1 /\ l.tag \in Nat
  BY <1>1, IdCountAssumption DEF Sequenced, Recent
<1>3. IdBefore(pending.seq, issued - l.tag) = IdBefore(pending.seq, 0)
  BY <1>1, IdBeforeZero DEF Sequenced
<1>4. issued - l.tag = 0
  BY <1>1, <1>2, <1>3, IdBeforeInjective
<1>5. QED BY <1>1, <1>2, <1>4

\* The inductive step: what it needs of the types after the step is the length of the lines.
LEMMA NextKeepsLink ==
  ASSUME TypeOK, TypeOK', LinkInv, [Next]_vars
  PROVE  LinkInv'
<1>0. /\ OrderInv /\ LinesInv /\ RadioInv /\ SuccessMeansExecuted
      /\ issued \in Nat /\ processed \in Nat /\ executed \in Nat
      /\ toModem \in Seq(CommandLine) /\ toHost \in Seq(ReplyLine)
      /\ Len(toModem) \in Nat /\ Len(toHost) \in Nat
  BY DEF LinkInv, TypeOK
<1>1. ASSUME NEW c \in Command, Issue(c) PROVE LinkInv'
  <2>1. /\ issued' = issued + 1 /\ pc' = "writing" /\ verdict' = "open" /\ command' = c
        /\ UNCHANGED <<toModem, toHost, radio, processed, executed>>
        /\ pending'.seq = nextSeq /\ nextSeq' = NextId(nextSeq)
    BY <1>1 DEF Issue, wires
  <2>2. OrderInv' /\ SuccessMeansExecuted'
    BY <1>0, <2>1 DEF OrderInv, SuccessMeansExecuted
  <2>3. ASSUME NEW i \in 1 .. Len(toModem)
        PROVE  /\ Sequenced(toModem[i])' /\ toModem[i].tag > processed
               /\ toModem[i].tag < issued'
    <3>1. /\ toModem[i] \in CommandLine /\ Sequenced(toModem[i]) /\ toModem[i].tag > processed
      BY <1>0 DEF LinesInv
    <3>2. toModem[i].tag \in Nat /\ issued + 1 - toModem[i].tag < IdCount
      BY <1>1, <3>1 DEF Issue, CommandLine
    <3>3. Sequenced(toModem[i])'
      BY <1>0, <1>1, <2>1, <3>1, <3>2, SequencedAges
    <3>4. QED BY <1>0, <2>1, <3>1, <3>3 DEF Sequenced, Recent
  <2>4. ASSUME NEW i \in 1 .. Len(toHost)
        PROVE  /\ Recent(toHost[i])'
               /\ toHost[i].reply # "ERR" => Sequenced(toHost[i])' /\ toHost[i].tag <= executed
    <3>1. /\ toHost[i] \in ReplyLine /\ Recent(toHost[i])
          /\ toHost[i].reply # "ERR" => Sequenced(toHost[i]) /\ toHost[i].tag <= executed
      BY <1>0 DEF LinesInv
    <3>2. toHost[i].tag \in Nat /\ issued + 1 - toHost[i].tag < IdCount
      BY <1>1, <3>1 DEF Issue, ReplyLine
    <3>3. QED BY <1>0, <1>1, <2>1, <3>1, <3>2, SequencedAges
  <2>5. LinesInv'
    BY <1>0, <2>1, <2>3, <2>4 DEF LinesInv
  <2>6. RadioInv'
    <3>1. \A f \in Setting : asked'[f] # Nothing => c.sets[f] = Nothing /\ asked'[f] = asked[f]
      BY <1>1 DEF Issue, Replace, Forgotten
    <3>2. executed' # issued'
      BY <1>0, <2>1 DEF OrderInv
    <3>3. QED BY <1>0, <2>1, <3>1, <3>2 DEF RadioInv
  <2>7. QED BY <2>2, <2>5, <2>6 DEF LinkInv
<1>2. CASE Write
  <2>1. /\ pc = "writing" /\ pc' = "written" /\ toModem' = Append(toModem, TheLine)
        /\ UNCHANGED <<nextSeq, pending, verdict, command, toHost, radio, issued, processed,
                       executed, steady, asked>>
    BY <1>2 DEF Write, history
  <2>2. OrderInv' /\ SuccessMeansExecuted'
    BY <1>0, <2>1 DEF OrderInv, SuccessMeansExecuted
  <2>3. TheLine.seq = pending.seq /\ TheLine.tag = issued /\ TheLine.command = command
    BY DEF TheLine
  <2>4. TheLine \in CommandLine
    BY <1>0, <2>3 DEF TheLine, CommandLine, TypeOK
  <2>5. /\ Len(toModem') = Len(toModem) + 1 /\ toModem'[Len(toModem) + 1] = TheLine
        /\ \A i \in 1 .. Len(toModem) : toModem'[i] = toModem[i]
    BY <1>0, <2>1, <2>4, AppendElements
  <2>6. Sequenced(TheLine) /\ TheLine.tag > processed
    <3>1. issued > processed /\ issued - issued = 0 /\ 0 < IdCount
      BY <1>0, <2>1, IdCountAssumption DEF OrderInv
    <3>2. IdBefore(pending.seq, 0) = pending.seq
      BY IdBeforeZero DEF TypeOK
    <3>3. QED BY <1>0, <2>3, <3>1, <3>2 DEF Sequenced, Recent
  <2>7. LinesInv'
    <3>1. \A i \in 1 .. Len(toModem') :
            /\ Sequenced(toModem'[i]) /\ toModem'[i].tag > processed
            /\ toModem'[i].tag = issued => toModem'[i].command = command
      BY <1>0, <2>3, <2>5, <2>6 DEF LinesInv
    <3>2. \A i, j \in 1 .. Len(toModem') : i < j => toModem'[i].tag < toModem'[j].tag
      <4>1. \A i \in 1 .. Len(toModem) : toModem[i].tag < issued
        BY <1>0, <2>1 DEF LinesInv
      <4>2. \A i, j \in 1 .. Len(toModem) : i < j => toModem[i].tag < toModem[j].tag
        BY <1>0 DEF LinesInv
      <4>3. ASSUME NEW i \in 1 .. Len(toModem'), NEW j \in 1 .. Len(toModem'), i < j
            PROVE  toModem'[i].tag < toModem'[j].tag
        <5>1. i \in 1 .. Len(toModem) /\ toModem'[i] = toModem[i]
          BY <1>0, <2>5, <4>3
        <5>2. CASE j = Len(toModem) + 1
          BY <2>3, <2>5, <4>1, <5>1, <5>2
        <5>3. CASE j \in 1 .. Len(toModem)
          BY <2>5, <4>2, <4>3, <5>1, <5>3
        <5>4. QED BY <1>0, <2>5, <5>2, <5>3
      <4>4. QED BY <4>3
    <3>3. \A i \in 1 .. Len(toHost') :
            /\ Recent(toHost'[i])
            /\ toHost'[i].reply # "ERR" => Sequenced(toHost'[i]) /\ toHost'[i].tag <= executed'
      BY <1>0, <2>1 DEF LinesInv
    <3>4. \A l : (Recent(l) <=> Recent(l)') /\ (Sequenced(l) <=> Sequenced(l)')
      BY <2>1, SequencedStays
    <3>5. QED BY <2>1, <3>1, <3>2, <3>3, <3>4 DEF LinesInv
  <2>8. RadioInv'
    BY <1>0, <2>1, <2>3, <2>5 DEF RadioInv
  <2>9. QED BY <2>2, <2>7, <2>8 DEF LinkInv
<1>3. ASSUME pc' # "writing", pc' # "idle" => pc # "idle",
             UNCHANGED <<nextSeq, pending, verdict, command, wires, radio, history>>
      PROVE  LinkInv'
  <2>1. UNCHANGED <<toModem, toHost, issued, processed, executed, steady, asked>>
    BY <1>3 DEF wires, history
  <2>2. OrderInv' /\ SuccessMeansExecuted' /\ RadioInv'
    BY <1>0, <1>3, <2>1 DEF OrderInv, SuccessMeansExecuted, RadioInv
  <2>3. LinesInv'
    BY <1>0, <1>3, <2>1, SequencedStays DEF LinesInv
  <2>4. QED BY <2>2, <2>3 DEF LinkInv
<1>4. CASE Written
  BY <1>3, <1>4 DEF Written
<1>5. CASE WriteFails
  BY <1>3, <1>5 DEF WriteFails
<1>6. CASE TimeOut
  BY <1>3, <1>6 DEF TimeOut
<1>7. ASSUME toHost # <<>>, toHost' = Tail(toHost),
             verdict' = "ok" => verdict = "ok" \/ executed = issued,
             UNCHANGED <<nextSeq, pc, pending, command, toModem, radio, history>>
      PROVE  LinkInv'
  <2>1. UNCHANGED <<issued, processed, executed, steady, asked>>
    BY <1>7 DEF history
  <2>2. OrderInv' /\ SuccessMeansExecuted' /\ RadioInv'
    BY <1>0, <1>7, <2>1 DEF OrderInv, SuccessMeansExecuted, RadioInv
  <2>3. \A i \in 1 .. Len(toHost') : i + 1 \in 1 .. Len(toHost) /\ toHost'[i] = toHost[i + 1]
    BY <1>0, <1>7, TailSubset
  <2>4. LinesInv'
    BY <1>0, <1>7, <2>1, <2>3, SequencedStays DEF LinesInv
  <2>5. QED BY <2>2, <2>4 DEF LinkInv
<1>8. CASE HandleReply
  <2> DEFINE l == Head(toHost)
  <2>1. toHost # <<>> /\ l = toHost[1] /\ 1 \in 1 .. Len(toHost) /\ l \in ReplyLine
    <3>1. toHost # <<>>
      BY <1>8 DEF HandleReply
    <3>2. QED BY <1>0, <3>1, TailElements, QueueTypes
  <2>2. ASSUME verdict' = "ok", verdict # "ok" PROVE executed = issued
    <3>1. Accepts(l) /\ l.reply # "ERR"
      BY <1>8, <2>2 DEF HandleReply
    <3>2. Sequenced(l) /\ l.tag <= executed /\ l.seq = pending.seq
      BY <1>0, <2>1, <3>1 DEF LinesInv, Accepts
    <3>3. l.tag = issued
      BY <3>2, SequencedIsOwn
    <3>4. QED BY <1>0, <3>2, <3>3 DEF OrderInv
  <2>3. QED BY <1>7, <1>8, <2>1, <2>2 DEF HandleReply
<1>9. CASE HandleGarbage
  BY <1>7, <1>9 DEF HandleGarbage, host
<1>10. CASE Return
  <2>1. /\ pc = "waiting" /\ pc' = "idle"
        /\ UNCHANGED <<nextSeq, pending, verdict, command, toModem, toHost, radio, issued,
                       processed, executed, steady>>
    BY <1>10 DEF Return, wires
  <2>2. OrderInv' /\ SuccessMeansExecuted'
    BY <1>0, <2>1 DEF OrderInv, SuccessMeansExecuted
  <2>3. LinesInv'
    BY <1>0, <2>1, SequencedStays DEF LinesInv
  <2>4. CASE asked' = asked
    BY <1>0, <2>1, <2>2, <2>3, <2>4 DEF RadioInv, LinkInv
  <2>5. CASE verdict = "ok" /\ steady
    <3>1. executed = issued /\ processed = issued
      BY <1>0, <2>1, <2>5 DEF SuccessMeansExecuted, OrderInv
    <3>2. \A i \in 1 .. Len(toModem) : FALSE
      BY <1>0, <3>1 DEF LinesInv, Sequenced, Recent
    <3>3. asked' = Replace(asked, command.sets, command.sets)
      BY <1>10, <2>5 DEF Return
    <3>4. \A f \in Setting : asked'[f] # Nothing => radio[f] = asked'[f]
      BY <1>0, <2>1, <2>5, <3>1, <3>3 DEF RadioInv, Replace
    <3>5. RadioInv'
      BY <2>1, <3>2, <3>4 DEF RadioInv
    <3>6. QED BY <2>2, <2>3, <3>5 DEF LinkInv
  <2>6. QED BY <1>10, <2>4, <2>5 DEF Return
<1>11. CASE ReaderFails
  <2>1. /\ verdict' = "ok" => verdict = "ok"
        /\ UNCHANGED <<nextSeq, pc, pending, command, toModem, toHost, radio, issued,
                       processed, executed, steady, asked>>
    BY <1>11 DEF ReaderFails, wires, history
  <2>2. OrderInv' /\ SuccessMeansExecuted' /\ RadioInv'
    BY <1>0, <2>1 DEF OrderInv, SuccessMeansExecuted, RadioInv
  <2>3. LinesInv'
    BY <1>0, <2>1, SequencedStays DEF LinesInv
  <2>4. QED BY <2>2, <2>3 DEF LinkInv
<1>12. ASSUME toModem # <<>>, toModem' = Tail(toModem), processed' = Head(toModem).tag
       PROVE  /\ Head(toModem) = toModem[1] /\ 1 \in 1 .. Len(toModem)
              /\ Head(toModem) \in CommandLine
              /\ \A i \in 1 .. Len(toModem') :
                   i + 1 \in 1 .. Len(toModem) /\ toModem'[i] = toModem[i + 1]
              /\ Sequenced(Head(toModem)) /\ processed < processed' /\ processed' <= issued
              /\ processed' \in Nat
              /\ pc = "writing" => processed' < issued
              /\ \A i \in 1 .. Len(toModem') : toModem'[i].tag > processed'
  <2>1. /\ Head(toModem) = toModem[1] /\ 1 \in 1 .. Len(toModem)
        /\ Head(toModem) \in CommandLine
    BY <1>0, <1>12, TailElements, QueueTypes
  <2>2. \A i \in 1 .. Len(toModem') : i + 1 \in 1 .. Len(toModem) /\ toModem'[i] = toModem[i + 1]
    BY <1>0, <1>12, TailSubset
  <2>3. /\ Sequenced(Head(toModem)) /\ processed < processed' /\ processed' <= issued
        /\ pc = "writing" => processed' < issued
    BY <1>0, <1>12, <2>1 DEF LinesInv, Sequenced, Recent
  <2>4. \A i \in 1 .. Len(toModem') : 1 < i + 1 /\ toModem'[i].tag > processed'
    BY <1>0, <1>12, <2>1, <2>2 DEF LinesInv
  <2>5. processed' \in Nat
    BY <1>12, <2>1 DEF CommandLine
  <2>6. QED BY <2>1, <2>2, <2>3, <2>4, <2>5
<1>13. ASSUME toModem # <<>>, toModem' = Tail(toModem), processed' = Head(toModem).tag,
              UNCHANGED <<host, issued>>,
              executed' \in {executed, processed'},
              \/ toHost' = toHost
              \/ \E l \in ReplyLine :
                   /\ toHost' = Append(toHost, l)
                   /\ l.tag = Head(toModem).tag
                   /\ l.reply # "ERR" => l.seq = Head(toModem).seq /\ executed' = processed'
       PROVE  LinesInv'
  <2>1. UNCHANGED <<issued, pending, pc, command>> /\ executed <= executed' /\ executed' \in Nat
    BY <1>0, <1>12, <1>13 DEF host, OrderInv
  <2>2. \A l : (Recent(l) <=> Recent(l)') /\ (Sequenced(l) <=> Sequenced(l)')
    BY <2>1, SequencedStays
  <2>3. /\ \A i \in 1 .. Len(toModem') : LET l == toModem'[i] IN
             /\ Sequenced(l)
             /\ l.tag > processed'
             /\ pc = "writing" => l.tag < issued
             /\ l.tag = issued => l.command = command
        /\ \A i, j \in 1 .. Len(toModem') : i < j => toModem'[i].tag < toModem'[j].tag
    BY <1>0, <1>12, <1>13 DEF LinesInv
  <2>4. \A i \in 1 .. Len(toHost) : LET l == toHost[i] IN
          /\ Recent(l)
          /\ l.reply # "ERR" => Sequenced(l) /\ l.tag <= executed'
    <3>1. \A i \in 1 .. Len(toHost) : toHost[i].tag \in Nat
      <4>1. \A i \in 1 .. Len(toHost) : toHost[i] \in ReplyLine
        BY <1>0
      <4>2. QED BY <4>1 DEF ReplyLine
    <3>2. QED BY <1>0, <2>1, <3>1 DEF LinesInv
  <2>5. CASE toHost' = toHost
    BY <2>1, <2>2, <2>3, <2>4, <2>5 DEF LinesInv
  <2>6. ASSUME NEW l \in ReplyLine, toHost' = Append(toHost, l), l.tag = Head(toModem).tag,
               l.reply # "ERR" => l.seq = Head(toModem).seq /\ executed' = processed'
        PROVE  LinesInv'
    <3>1. /\ Len(toHost') = Len(toHost) + 1 /\ toHost'[Len(toHost) + 1] = l
          /\ \A i \in 1 .. Len(toHost) : toHost'[i] = toHost[i]
      BY <1>0, <2>6, AppendElements
    <3>2. /\ Recent(l)
          /\ l.reply # "ERR" => Sequenced(l) /\ l.tag <= executed'
      BY <1>12, <1>13, <2>6 DEF Sequenced, Recent
    <3>3. \A i \in 1 .. Len(toHost') :
            /\ Recent(toHost'[i])
            /\ toHost'[i].reply # "ERR" => Sequenced(toHost'[i]) /\ toHost'[i].tag <= executed'
      BY <1>0, <2>4, <3>1, <3>2
    <3>4. QED BY <2>1, <2>2, <2>3, <3>3 DEF LinesInv
  <2>7. QED BY <1>13, <2>5, <2>6
<1>14. CASE Dispatch
  <2> DEFINE l == Head(toModem)
  <2>1. /\ toModem # <<>> /\ toModem' = Tail(toModem) /\ processed' = l.tag /\ executed' = l.tag
        /\ UNCHANGED <<host, issued, steady, asked>>
        /\ radio' = Replace(radio, l.command.sets, l.command.sets)
        /\ toHost' = Append(toHost, [seq |-> l.seq, tag |-> l.tag, reply |-> l.command.reply])
    BY <1>14 DEF Dispatch
  <2>2. UNCHANGED <<pc, pending, nextSeq, command, verdict>>
    BY <2>1 DEF host
  <2>3. OrderInv'
    BY <1>0, <1>12, <2>1, <2>2 DEF OrderInv
  <2>4. SuccessMeansExecuted'
    BY <1>0, <1>12, <2>1, <2>2 DEF SuccessMeansExecuted, OrderInv
  <2>5. [seq |-> l.seq, tag |-> l.tag, reply |-> l.command.reply] \in ReplyLine
    BY <1>12, <2>1, CommandType DEF CommandLine, ReplyLine, Reply
  <2>6. LinesInv'
    BY <1>13, <2>1, <2>5
  <2>7. RadioInv'
    <3>1. ASSUME NEW f \in Setting, pc # "idle", steady, executed' = issued,
                 command.sets[f] # Nothing
          PROVE  radio'[f] = command.sets[f]
      <4>1. l.command = command
        BY <1>0, <1>12, <2>1, <3>1 DEF LinesInv
      <4>2. QED BY <2>1, <3>1, <4>1 DEF Replace
    <3>2. ASSUME NEW f \in Setting, asked[f] # Nothing
          PROVE  radio'[f] = asked[f]
      <4>1. l.command.sets[f] = Nothing /\ radio[f] = asked[f]
        BY <1>0, <1>12, <2>1, <3>2 DEF RadioInv
      <4>2. QED BY <2>1, <4>1 DEF Replace
    <3>3. \A f \in Setting, i \in 1 .. Len(toModem') :
            asked[f] # Nothing => toModem'[i].command.sets[f] = Nothing
      BY <1>0, <1>12, <2>1 DEF RadioInv
    <3>4. QED BY <1>0, <2>1, <2>2, <3>1, <3>2, <3>3 DEF RadioInv
  <2>8. QED BY <2>3, <2>4, <2>6, <2>7 DEF LinkInv
<1>15. CASE Reject
  <2> DEFINE l == Head(toModem)
  <2>1. /\ toModem # <<>> /\ toModem' = Tail(toModem) /\ processed' = l.tag /\ executed' = executed
        /\ UNCHANGED <<host, issued, steady, asked, radio>>
        /\ \/ toHost' = toHost
           \/ \E seq \in Id : toHost' = Append(toHost, [seq |-> seq, tag |-> l.tag, reply |-> "ERR"])
    BY <1>15 DEF Reject
  <2>2. UNCHANGED <<pc, pending, nextSeq, command, verdict>>
    BY <2>1 DEF host
  <2>3. OrderInv' /\ SuccessMeansExecuted'
    BY <1>0, <1>12, <2>1, <2>2 DEF OrderInv, SuccessMeansExecuted
  <2>4. \A seq \in Id : [seq |-> seq, tag |-> l.tag, reply |-> "ERR"] \in ReplyLine
    BY <1>12, <2>1 DEF CommandLine, ReplyLine, Reply
  <2>5. LinesInv'
    BY <1>13, <2>1, <2>4
  <2>6. \A f \in Setting, i \in 1 .. Len(toModem') :
          asked[f] # Nothing => toModem'[i].command.sets[f] = Nothing
    BY <1>0, <1>12, <2>1 DEF RadioInv
  <2>7. RadioInv'
    BY <1>0, <2>1, <2>2, <2>6 DEF RadioInv
  <2>8. QED BY <2>3, <2>5, <2>7 DEF LinkInv
<1>16. CASE Reset
  <2>1. /\ Len(toModem') = 0 /\ steady' = FALSE /\ asked' = Forgotten
        /\ UNCHANGED <<pc, nextSeq, pending, verdict, command, toHost, issued, processed, executed>>
    BY <1>16 DEF Reset, host
  <2>2. OrderInv' /\ SuccessMeansExecuted' /\ RadioInv'
    BY <1>0, <2>1 DEF OrderInv, SuccessMeansExecuted, RadioInv, Forgotten
  <2>3. LinesInv'
    BY <1>0, <2>1, SequencedStays DEF LinesInv
  <2>4. QED BY <2>2, <2>3 DEF LinkInv
<1>17. CASE UNCHANGED vars
  BY <1>0, <1>17, SequencedStays DEF vars, host, wires, history, LinkInv, OrderInv, LinesInv,
     RadioInv, SuccessMeansExecuted
<1>18. QED
  BY <1>1, <1>2, <1>4, <1>5, <1>6, <1>8, <1>9, <1>10, <1>11, <1>14, <1>15, <1>16, <1>17 DEF Next

\* The inductive invariant of the link.
THEOREM LinkInductive == Spec => []LinkInv
<1>1. Init => LinkInv
  <2> SUFFICES ASSUME Init PROVE LinkInv
    OBVIOUS
  <2>1. Len(toModem) = 0 /\ Len(toHost) = 0
    BY DEF Init
  <2>2. OrderInv /\ LinesInv /\ SuccessMeansExecuted
    BY <2>1 DEF Init, OrderInv, LinesInv, SuccessMeansExecuted
  <2>3. RadioInv
    BY DEF Init, RadioInv, Forgotten
  <2>4. QED BY <2>2, <2>3 DEF LinkInv
<1>2. TypeOK /\ TypeOK' /\ LinkInv /\ [Next]_vars => LinkInv'
  BY NextKeepsLink
<1>3. QED BY <1>1, <1>2, Typing, PTL DEF Spec

\* A command succeeds only once the modem carried out that very command.
THEOREM Success == Spec => []SuccessMeansExecuted
<1>1. LinkInv => SuccessMeansExecuted
  BY DEF LinkInv
<1>2. QED BY <1>1, LinkInductive, PTL

\* The radio keeps what the last command that returned asked for.
THEOREM Tuning == Spec => []RadioAsAsked
<1>1. LinkInv => RadioAsAsked
  BY DEF LinkInv, RadioInv, RadioAsAsked
<1>2. QED BY <1>1, LinkInductive, PTL

(***************************************************************************)
(* The refinement of CommandOrder.  The line orders the commands under     *)
(* way, so the first is the oldest: carrying it out forgets none.          *)
(***************************************************************************)

\* While the line to the modem stays as it is, so does what is under way.
LEMMA UnderwayStays == ASSUME toModem' = toModem PROVE Underway' = Underway
  BY DEF Underway, Effect

\* A line that leaves: what stays under way was under way before.
LEMMA UnderwayTail ==
  ASSUME toModem \in Seq(CommandLine), toModem # <<>>, toModem' = Tail(toModem)
  PROVE  /\ Effect(Head(toModem)) \in Underway
         /\ Underway' \subseteq Underway
         /\ \A o \in Underway' : \E i \in 1 .. Len(toModem') : o = Effect(toModem'[i])
<1>1. Head(toModem) = toModem[1] /\ 1 \in 1 .. Len(toModem)
  BY TailElements
<1>2. \A i \in 1 .. Len(toModem') : i + 1 \in 1 .. Len(toModem) /\ toModem'[i] = toModem[i + 1]
  BY TailSubset
<1>3. \A o \in Underway' : \E i \in 1 .. Len(toModem') : o = Effect(toModem'[i])
  BY DEF Underway, Effect
<1>4. ASSUME NEW o \in Underway' PROVE o \in Underway
  <2>1. PICK i \in 1 .. Len(toModem') : o = Effect(toModem'[i])
    BY <1>3
  <2>2. i + 1 \in 1 .. Len(toModem) /\ o = Effect(toModem[i + 1])
    BY <1>2, <2>1
  <2>3. QED BY <2>2 DEF Underway
<1>5. QED BY <1>1, <1>3, <1>4 DEF Underway

\* A line written joins what is under way.
LEMMA UnderwayAppend ==
  ASSUME toModem \in Seq(CommandLine), NEW l \in CommandLine, toModem' = Append(toModem, l)
  PROVE  Underway' = Underway \cup {Effect(l)}
<1>1. /\ Len(toModem) \in Nat /\ Len(toModem') = Len(toModem) + 1
      /\ toModem'[Len(toModem) + 1] = l
      /\ \A i \in 1 .. Len(toModem) : toModem'[i] = toModem[i]
  BY AppendElements
<1>2. Underway' = {Effect(toModem'[i]) : i \in 1 .. Len(toModem')}
  BY DEF Underway, Effect
<1>3. ASSUME NEW o \in Underway' PROVE o \in Underway \cup {Effect(l)}
  <2>1. PICK i \in 1 .. Len(toModem') : o = Effect(toModem'[i])
    BY <1>2
  <2>2. CASE i = Len(toModem) + 1
    BY <1>1, <2>1, <2>2
  <2>3. CASE i \in 1 .. Len(toModem)
    BY <1>1, <2>1, <2>3 DEF Underway
  <2>4. QED BY <1>1, <2>2, <2>3
<1>4. ASSUME NEW o \in Underway PROVE o \in Underway'
  <2>1. PICK i \in 1 .. Len(toModem) : o = Effect(toModem[i])
    BY DEF Underway
  <2>2. i \in 1 .. Len(toModem') /\ o = Effect(toModem'[i])
    BY <1>1, <2>1
  <2>3. QED BY <1>2, <2>2
<1>5. Effect(l) \in Underway'
  <2>1. Len(toModem) + 1 \in 1 .. Len(toModem')
    BY <1>1
  <2>2. QED BY <1>1, <1>2, <2>1
<1>6. QED BY <1>3, <1>4, <1>5

\* Steps that neither issue, carry out nor lose a command leave what is owed as it is.
LEMMA OutstandingStays ==
  ASSUME toModem' = toModem, UNCHANGED <<pending, issued, command>>,
         pc' = "writing" <=> pc = "writing"
  PROVE  Outstanding' = Outstanding
  BY UnderwayStays DEF Outstanding, TheLine, Effect

\* The transport and the modem implement CommandOrder: no command is carried out twice, after a
\* later one, or confirmed before it was, whatever times out, is lost or is reset.
THEOREM Refinement == Spec => Ordered!Spec
<1>1. Init => Ordered!Init
  <2> SUFFICES ASSUME Init PROVE Ordered!Init
    OBVIOUS
  <2>1. Len(toModem) = 0
    BY DEF Init
  <2>2. Underway = {}
    BY <2>1 DEF Underway
  <2>3. Outstanding = {} /\ Calling = "idle"
    BY <2>2 DEF Init, Outstanding, Calling
  <2>4. QED BY <2>3 DEF Init, Ordered!Init
<1>2. TypeOK /\ TypeOK' /\ LinkInv /\ [Next]_vars => [Ordered!Next]_Ordered!vars
  <2> SUFFICES ASSUME TypeOK, TypeOK', LinkInv, [Next]_vars PROVE [Ordered!Next]_Ordered!vars
    OBVIOUS
  <2>0. /\ OrderInv /\ LinesInv /\ SuccessMeansExecuted
        /\ issued \in Nat /\ executed \in Nat
        /\ toModem \in Seq(CommandLine) /\ Len(toModem) \in Nat
    BY DEF LinkInv, TypeOK
  <2>1. ASSUME NEW c \in Command, Issue(c) PROVE [Ordered!Next]_Ordered!vars
    <3>1. /\ pc = "idle" /\ pc' = "writing" /\ verdict' = "open" /\ command' = c
          /\ issued' = issued + 1 /\ UNCHANGED <<toModem, executed, radio>>
      BY <2>1 DEF Issue, wires
    <3>2. Effect(TheLine)' = [number |-> issued', sets |-> c.sets]
      BY <3>1 DEF Effect, TheLine
    <3>3. Outstanding' = Outstanding \cup {[number |-> issued', sets |-> c.sets]}
      BY <3>1, <3>2, UnderwayStays DEF Outstanding
    <3>4. Calling = "idle" /\ Calling' = "open"
      BY <3>1 DEF Calling
    <3>5. Ordered!Issue(c.sets)
      BY <3>1, <3>3, <3>4 DEF Ordered!Issue
    <3>6. QED BY <3>5 DEF Ordered!Next
  <2>2. CASE Write
    <3>1. /\ pc = "writing" /\ pc' = "written" /\ toModem' = Append(toModem, TheLine)
          /\ UNCHANGED <<verdict, issued, executed, radio>>
      BY <2>2 DEF Write, history
    <3>2. TheLine \in CommandLine
      BY <2>0 DEF TheLine, CommandLine, TypeOK
    <3>3. Outstanding' = Outstanding
      BY <2>0, <3>1, <3>2, UnderwayAppend DEF Outstanding
    <3>4. Calling' = Calling
      BY <3>1 DEF Calling
    <3>5. QED BY <3>1, <3>3, <3>4 DEF Ordered!vars
  <2>3. CASE Written
    <3>1. /\ pc = "written" /\ pc' = "waiting"
          /\ UNCHANGED <<toModem, pending, command, verdict, issued, executed, radio>>
      BY <2>3 DEF Written, wires, history
    <3>2. Outstanding' = Outstanding /\ Calling' = Calling
      BY <3>1, OutstandingStays DEF Calling
    <3>3. QED BY <3>1, <3>2 DEF Ordered!vars
  <2>4. CASE WriteFails \/ Return \/ TimeOut
    <3>1. /\ pc # "idle" /\ pc' = "idle" /\ UNCHANGED <<toModem, issued, executed, radio>>
      BY <2>4 DEF WriteFails, Return, TimeOut, wires, history
    <3>2. Outstanding' \in SUBSET Outstanding
      BY <3>1, UnderwayStays DEF Outstanding
    <3>3. Calling # "idle" /\ Calling' = "idle"
      BY <3>1 DEF Calling
    <3>4. Ordered!End
      BY <3>1, <3>2, <3>3 DEF Ordered!End
    <3>5. QED BY <3>4 DEF Ordered!Next
  <2>5. CASE HandleReply
    <3> DEFINE l == Head(toHost)
    <3>1. /\ UNCHANGED <<toModem, pc, pending, command, issued, executed, radio>>
          /\ verdict' = IF ~Accepts(l) THEN verdict ELSE IF l.reply = "ERR" THEN "error" ELSE "ok"
      BY <2>5 DEF HandleReply, history
    <3>2. Outstanding' = Outstanding
      BY <3>1, OutstandingStays
    <3>3. CASE Accepts(l) /\ verdict' = "ok"
      <4>1. pc # "idle" /\ verdict = "open"
        BY <3>3 DEF Accepts
      <4>2. Calling = "open" /\ Calling' = "confirmed"
        BY <3>1, <3>3, <4>1 DEF Calling
      <4>3. executed = issued
        <5>1. SuccessMeansExecuted'
          BY <2>5, NextKeepsLink DEF LinkInv, Next
        <5>2. QED BY <3>1, <3>3, <4>1, <5>1 DEF SuccessMeansExecuted
      <4>4. Ordered!Confirm
        BY <3>1, <3>2, <4>2, <4>3 DEF Ordered!Confirm
      <4>5. QED BY <4>4 DEF Ordered!Next
    <3>4. CASE ~(Accepts(l) /\ verdict' = "ok")
      <4>1. verdict' = "ok" <=> verdict = "ok"
        BY <3>1, <3>4 DEF Accepts
      <4>2. Calling' = Calling
        BY <3>1, <4>1 DEF Calling
      <4>3. QED BY <3>1, <3>2, <4>2 DEF Ordered!vars
    <3>5. QED BY <3>3, <3>4
  <2>6. CASE HandleGarbage \/ ReaderFails \/ UNCHANGED vars
    <3>1. /\ UNCHANGED <<toModem, pc, pending, command, issued, executed, radio>>
          /\ verdict' = "ok" <=> verdict = "ok"
      BY <2>6 DEF HandleGarbage, ReaderFails, vars, host, wires, history
    <3>2. Outstanding' = Outstanding /\ Calling' = Calling
      BY <3>1, OutstandingStays DEF Calling
    <3>3. QED BY <3>1, <3>2 DEF Ordered!vars
  <2>7. ASSUME toModem # <<>>, toModem' = Tail(toModem), UNCHANGED <<host, issued>>
        PROVE  /\ Effect(Head(toModem)) \in Outstanding
               /\ Outstanding' \in SUBSET {p \in Outstanding : p.number > Head(toModem).tag}
               /\ Calling' = Calling
    <3>1. UNCHANGED <<pc, verdict, pending, command>>
      BY <2>7 DEF host
    <3>2. /\ Effect(Head(toModem)) \in Underway /\ Underway' \subseteq Underway
          /\ \A o \in Underway' : \E i \in 1 .. Len(toModem') : o = Effect(toModem'[i])
      BY <2>0, <2>7, UnderwayTail
    <3>3. /\ \A i \in 1 .. Len(toModem') : toModem'[i].tag > Head(toModem).tag
          /\ pc = "writing" => issued > Head(toModem).tag
      <4>1. Head(toModem) = toModem[1] /\ 1 \in 1 .. Len(toModem)
        BY <2>0, <2>7, TailElements
      <4>2. \A i \in 1 .. Len(toModem') :
              i + 1 \in 1 .. Len(toModem) /\ 1 < i + 1 /\ toModem'[i] = toModem[i + 1]
        BY <2>0, <2>7, TailSubset
      <4>3. QED BY <2>0, <4>1, <4>2 DEF LinesInv
    <3>4. \A o \in Underway' : o.number > Head(toModem).tag
      BY <3>2, <3>3 DEF Effect
    <3>5. Effect(TheLine)' = Effect(TheLine) /\ Effect(TheLine).number = issued
      BY <2>7, <3>1 DEF Effect, TheLine
    <3>6. QED BY <3>1, <3>2, <3>3, <3>4, <3>5 DEF Outstanding, Calling
  <2>8. CASE Dispatch
    <3> DEFINE l == Head(toModem)
    <3>1. /\ toModem # <<>> /\ toModem' = Tail(toModem) /\ executed' = l.tag
          /\ radio' = Replace(radio, l.command.sets, l.command.sets)
          /\ UNCHANGED <<host, issued>>
      BY <2>8 DEF Dispatch
    <3>2. Ordered!TakeEffect(Effect(l))
      BY <2>7, <3>1 DEF Ordered!TakeEffect, Effect, Replace
    <3>3. QED BY <2>7, <3>1, <3>2 DEF Ordered!Next
  <2>9. CASE Reject
    <3>1. /\ toModem # <<>> /\ toModem' = Tail(toModem)
          /\ UNCHANGED <<host, issued, executed, radio>>
      BY <2>9 DEF Reject
    <3>2. Ordered!Lose
      BY <2>7, <3>1 DEF Ordered!Lose
    <3>3. QED BY <3>2 DEF Ordered!Next
  <2>10. CASE Reset
    <3>1. /\ toModem' = <<>> /\ radio' = BootRadio
          /\ UNCHANGED <<pc, verdict, pending, command, issued, executed>>
      BY <2>10 DEF Reset, host
    <3>2. Underway' = {}
      <4>1. Len(toModem') = 0
        BY <3>1
      <4>2. QED BY <4>1 DEF Underway
    <3>3. Outstanding' \in SUBSET Outstanding /\ Calling' = Calling
      BY <3>1, <3>2 DEF Outstanding, Calling, Effect, TheLine
    <3>4. Ordered!Reset
      BY <3>1, <3>3 DEF Ordered!Reset
    <3>5. QED BY <3>4 DEF Ordered!Next
  <2>11. QED
    BY <2>1, <2>2, <2>3, <2>4, <2>5, <2>6, <2>8, <2>9, <2>10 DEF Next
<1>3. QED BY <1>1, <1>2, Typing, LinkInductive, PTL DEF Spec, Ordered!Spec

(***************************************************************************)
(* The clients on the link.  What holds of the link holds under them; what *)
(* the last of them asked for is what the modem is tuned to.               *)
(***************************************************************************)

\* Whatever the clients do, the link makes its own steps.
THEOREM ClientsUseTheLink == TunedSpec => Spec
<1>1. TunedInit => Init
  BY DEF TunedInit
<1>2. [TunedNext]_tunedVars => [Next]_vars
  <2> SUFFICES ASSUME [TunedNext]_tunedVars PROVE [Next]_vars
    OBVIOUS
  <2>1. ASSUME NEW c, NEW when, NEW m \in Command, IssueFor(c, when, m) PROVE Next
    BY <2>1 DEF IssueFor, Next
  <2>2. CASE Listen
    <3>1. ModeChange("Listen") \in Command
      BY DEF Command, Mode
    <3>2. QED BY <2>1, <2>2, <3>1 DEF Listen
  <2>3. ASSUME NEW c \in Client, Tune(c) PROVE Next
    <3>1. Nid(NetworkOf[c]) \in Command
      BY TunedAssumption DEF Command
    <3>2. QED BY <2>1, <2>3, <3>1 DEF Tune
  <2>4. CASE Send
    BY <2>1, <2>4, SomeCommand DEF Send
  <2>5. CASE Leave \/ UNCHANGED tunedVars
    BY <2>5 DEF Leave, tunedVars
  <2>6. CASE Succeeds \/ Fails \/ PortFails \/ LinkStep
    BY <2>6 DEF Succeeds, Fails, RaisesTransportError, PortFails, LinkStep, Next
  <2>7. QED
    BY <2>2, <2>3, <2>4, <2>5, <2>6 DEF TunedNext
<1>3. QED BY <1>1, <1>2, PTL DEF TunedSpec, Spec

\* A command that ends, well or not.
LEMMA EndOf ==
  ASSUME Return \/ TimeOut \/ WriteFails
  PROVE  pc # "idle" /\ pc' = "idle" /\ UNCHANGED <<issued, resets, command, toModem, radio, pending>>
  BY DEF Return, TimeOut, WriteFails, history, wires

\* A command that begins.
LEMMA BeginningOf ==
  ASSUME TypeOK, TunedTypeOK, NEW c \in Client \cup {Nobody}, NEW when \in Nat, NEW m,
         IssueFor(c, when, m)
  PROVE  /\ pc = "idle" /\ pc' = "writing" /\ epoch' = when
         /\ issued' = issued + 1 /\ resets' = resets /\ command' = m /\ steady' = TRUE
         /\ UNCHANGED <<toModem, radio>>
         /\ asked' = Replace(asked, m.sets, Forgotten)
         /\ sender' \in Seq([client : Client \cup {Nobody}, epoch : Nat])
         /\ Len(sender') = issued'
         /\ sender'[issued'] = [client |-> c, epoch |-> when]
         /\ \A n \in 1 .. issued : sender'[n] = sender[n]
<1>1. /\ pc = "idle" /\ pc' = "writing" /\ epoch' = when
      /\ issued' = issued + 1 /\ resets' = resets /\ command' = m /\ steady' = TRUE
      /\ UNCHANGED <<toModem, radio>>
      /\ asked' = Replace(asked, m.sets, Forgotten)
      /\ sender' = Append(sender, [client |-> c, epoch |-> when])
  BY DEF IssueFor, Issue, wires
<1>2. /\ [client |-> c, epoch |-> when] \in [client : Client \cup {Nobody}, epoch : Nat]
      /\ sender \in Seq([client : Client \cup {Nobody}, epoch : Nat]) /\ Len(sender) = issued
  BY DEF TunedTypeOK
<1>3. /\ sender' \in Seq([client : Client \cup {Nobody}, epoch : Nat])
      /\ Len(sender') = Len(sender) + 1
      /\ sender'[Len(sender) + 1] = [client |-> c, epoch |-> when]
      /\ \A n \in 1 .. Len(sender) : sender'[n] = sender[n]
  BY <1>1, <1>2, AppendElements, QueueTypes
<1>4. QED BY <1>1, <1>2, <1>3

\* The type invariant of the clients on the link.
THEOREM TunedTyping == TunedSpec => []TunedTypeOK
<1>1. TunedInit => TunedTypeOK
  BY DEF TunedInit, Init, TunedTypeOK, Stage
<1>2. TypeOK /\ TunedTypeOK /\ [TunedNext]_tunedVars => TunedTypeOK'
  <2> SUFFICES ASSUME TypeOK, TunedTypeOK, [TunedNext]_tunedVars PROVE TunedTypeOK'
    OBVIOUS
  <2>0. /\ issued \in Nat /\ resets \in Nat /\ epoch \in 0 .. resets /\ epoch \in Nat
        /\ user \in Client \cup {Nobody} /\ stage \in Stage
        /\ sender \in Seq([client : Client \cup {Nobody}, epoch : Nat]) /\ Len(sender) = issued
        /\ pc # "idle" <=> stage \in {"listening", "tuning", "sending"}
        /\ user # Nobody <=> stage \in {"tuning", "ready", "sending"}
    BY DEF TypeOK, TunedTypeOK
  <2>1. CASE Listen
    <3>1. /\ pc' = "writing" /\ epoch' = epoch /\ resets' = resets
          /\ sender' \in Seq([client : Client \cup {Nobody}, epoch : Nat]) /\ Len(sender') = issued'
      BY <2>0, <2>1, BeginningOf DEF Listen
    <3>2. stage = "starting" /\ stage' = "listening" /\ user' = user
      BY <2>1 DEF Listen
    <3>3. QED BY <2>0, <3>1, <3>2 DEF TunedTypeOK, Stage
  <2>2. ASSUME NEW c \in Client, Tune(c) PROVE TunedTypeOK'
    <3>1. /\ pc' = "writing" /\ epoch' = resets /\ resets' = resets
          /\ sender' \in Seq([client : Client \cup {Nobody}, epoch : Nat]) /\ Len(sender') = issued'
      BY <2>0, <2>2, BeginningOf DEF Tune
    <3>2. stage' = "tuning" /\ user' = c /\ c # Nobody
      BY <2>2, TunedAssumption DEF Tune
    <3>3. QED BY <2>0, <3>1, <3>2 DEF TunedTypeOK, Stage
  <2>3. CASE Send
    <3>1. /\ pc' = "writing" /\ epoch' = epoch /\ resets' = resets
          /\ sender' \in Seq([client : Client \cup {Nobody}, epoch : Nat]) /\ Len(sender') = issued'
      BY <2>0, <2>3, BeginningOf DEF Send
    <3>2. stage = "ready" /\ stage' = "sending" /\ user' = user
      BY <2>3 DEF Send
    <3>3. QED BY <2>0, <3>1, <3>2 DEF TunedTypeOK, Stage
  <2>4. CASE Leave
    <3>1. stage = "ready" /\ stage' = "free" /\ user' = Nobody
          /\ UNCHANGED <<pc, issued, resets, epoch, sender>>
      BY <2>4 DEF Leave, vars, host, history
    <3>2. QED BY <2>0, <3>1 DEF TunedTypeOK, Stage
  <2>5. CASE Succeeds
    <3>1. /\ pc # "idle" /\ pc' = "idle" /\ UNCHANGED <<issued, resets, user, epoch, sender>>
          /\ stage' = IF stage = "listening" THEN "free" ELSE "ready"
      BY <2>5, EndOf DEF Succeeds
    <3>2. QED BY <2>0, <3>1 DEF TunedTypeOK, Stage
  <2>6. CASE Fails
    <3>1. /\ pc # "idle" /\ pc' = "idle" /\ UNCHANGED <<issued, resets, epoch, sender>>
          /\ \/ stage = "sending" /\ stage' = "ready" /\ user' = user
             \/ stage \in {"tuning", "listening"} /\ Gone
      BY <2>6, EndOf DEF Fails, RaisesTransportError
    <3>2. QED BY <2>0, <3>1 DEF TunedTypeOK, Stage, Gone
  <2>7. CASE PortFails
    <3>1. pc # "idle" /\ pc' = "idle" /\ UNCHANGED <<issued, resets, epoch, sender>> /\ Gone
      BY <2>7, EndOf DEF PortFails
    <3>2. QED BY <2>0, <3>1 DEF TunedTypeOK, Stage, Gone
  <2>8. CASE LinkStep
    <3>1. UNCHANGED <<user, stage, epoch, sender, issued>>
      BY <2>8 DEF LinkStep, callers, Write, Written, HandleReply, HandleGarbage, ReaderFails,
                  Dispatch, Reject, Reset, history, host
    <3>2. resets' \in Nat /\ resets' >= resets
      BY <2>0, <2>8 DEF LinkStep, Write, Written, HandleReply, HandleGarbage, ReaderFails,
                        Dispatch, Reject, Reset, history
    <3>3. pc' # "idle" <=> pc # "idle"
      BY <2>8 DEF LinkStep, Write, Written, HandleReply, HandleGarbage, ReaderFails,
                  Dispatch, Reject, Reset, host
    <3>4. QED BY <2>0, <3>1, <3>2, <3>3 DEF TunedTypeOK
  <2>9. CASE UNCHANGED tunedVars
    BY <2>9 DEF tunedVars, callers, vars, host, history, TunedTypeOK
  <2>10. QED
    BY <2>1, <2>2, <2>3, <2>4, <2>5, <2>6, <2>7, <2>8, <2>9 DEF TunedNext
<1>3. QED BY <1>1, <1>2, ClientsUseTheLink, Typing, PTL DEF TunedSpec

\* The commands the clients use, told apart by what they set.
LEMMA CommandSets ==
  /\ Tx.sets = Forgotten /\ Forgotten["sync"] = Nothing /\ Forgotten["mode"] = Nothing
  /\ \A n \in Network :
       Nid(n).sets["sync"] = n /\ Nid(n).sets["mode"] = Nothing /\ Nid(n) # Tx /\ n # Nothing
  /\ LET on == ModeChange("Listen") IN
       on.sets["sync"] = Nothing /\ on.sets["mode"] = "Listen" /\ on # Tx
<1>1. Tx.sets = Forgotten /\ Forgotten["sync"] = Nothing /\ Forgotten["mode"] = Nothing
  BY DEF Tx, Forgotten, Setting
<1>2. ASSUME NEW n \in Network
      PROVE  Nid(n).sets["sync"] = n /\ Nid(n).sets["mode"] = Nothing /\ Nid(n) # Tx /\ n # Nothing
  <2>1. Nid(n).sets["sync"] = n /\ Nid(n).sets["mode"] = Nothing /\ n # Nothing
    BY <1>2, LinkAssumption DEF Nid, Only, Setting
  <2>2. QED BY <1>1, <2>1
<1>3. LET on == ModeChange("Listen") IN
        on.sets["sync"] = Nothing /\ on.sets["mode"] = "Listen" /\ on # Tx
  <2>1. /\ ModeChange("Listen").sets["sync"] = Nothing
        /\ ModeChange("Listen").sets["mode"] = "Listen" /\ "Listen" # Nothing
    BY DEF ModeChange, Only, Setting, Nothing
  <2>2. QED BY <1>1, <2>1
<1>4. QED BY <1>1, <1>2, <1>3

\* Frames on the line stay where they belong while neither they, nor the radio, nor what is known of
\* them changes.
LEMMA FramesKept ==
  ASSUME TypeOK, LinkInv, FramesInv, UNCHANGED <<toModem, radio, resets>>,
         \A n \in 1 .. issued : sender'[n] = sender[n]
  PROVE  FramesInv'
<1>1. \A i \in 1 .. Len(toModem) : toModem[i].tag \in 1 .. issued
  BY DEF LinkInv, LinesInv, Sequenced, Recent
<1>2. QED BY <1>1 DEF FramesInv, OnItsNetwork

\* So do those of a client that keeps the lock.
LEMMA OthersKept ==
  ASSUME TypeOK, LinkInv, NobodyElseTransmits, stage \in {"ready", "sending"},
         user' = user, toModem' = toModem, \A n \in 1 .. issued : sender'[n] = sender[n]
  PROVE  NobodyElseTransmits'
<1>1. \A i \in 1 .. Len(toModem) : toModem[i].tag \in 1 .. issued
  BY DEF LinkInv, LinesInv, Sequenced, Recent
<1>2. QED BY <1>1 DEF NobodyElseTransmits

LEMMA ModeKept ==
  ASSUME ModeInv, UNCHANGED <<toModem, radio>>, command'.sets["mode"] \in {"Listen", Nothing}
  PROVE  ModeInv'
  BY DEF ModeInv

\* A command of a caller begins: nothing is on the line yet.
LEMMA BeginningKeeps ==
  ASSUME TypeOK, TunedTypeOK, LinkInv, FramesInv, ModeInv,
         NEW c \in Client \cup {Nobody}, NEW when \in Nat, NEW m,
         m.sets["mode"] \in {"Listen", Nothing}, IssueFor(c, when, m)
  PROVE  FramesInv' /\ ModeInv'
  BY BeginningOf, FramesKept, ModeKept

\* A command ends: what is on the line stays there.
LEMMA EndKeeps ==
  ASSUME TypeOK, LinkInv, FramesInv, ModeInv, Return \/ TimeOut \/ WriteFails, sender' = sender
  PROVE  FramesInv' /\ ModeInv'
<1>1. UNCHANGED <<issued, resets, command, toModem, radio>>
  BY EndOf
<1>2. FramesInv'
  BY <1>1, FramesKept
<1>3. ModeInv'
  BY <1>1, ModeKept DEF ModeInv
<1>4. QED BY <1>2, <1>3

\* The inductive invariant of the clients on the link.
LEMMA NextKeepsTuned ==
  ASSUME TypeOK, TunedTypeOK, LinkInv, TunedInv, [TunedNext]_tunedVars
  PROVE  TunedInv'
<1>0. /\ CallInv /\ FramesInv /\ ModeInv /\ NobodyElseTransmits
      /\ issued \in Nat /\ resets \in Nat /\ epoch \in 0 .. resets /\ epoch \in Nat
      /\ user \in Client \cup {Nobody} /\ stage \in Stage
      /\ pc # "idle" <=> stage \in {"listening", "tuning", "sending"}
      /\ user # Nobody <=> stage \in {"tuning", "ready", "sending"}
      /\ asked \in [Setting -> Value \cup {Nothing}] /\ radio \in [Setting -> Value]
  BY DEF TypeOK, TunedTypeOK, TunedInv
<1>1. CASE Listen
  <2>1. stage' = "listening" /\ IssueFor(Nobody, epoch, ModeChange("Listen"))
    BY <1>1 DEF Listen
  <2>2. FramesInv' /\ ModeInv'
    BY <1>0, <2>1, BeginningKeeps, CommandSets
  <2>3. command' = ModeChange("Listen")
    BY <1>0, <2>1, BeginningOf
  <2>4. CallInv' /\ NobodyElseTransmits'
    BY <2>1, <2>3 DEF CallInv, NobodyElseTransmits
  <2>5. QED BY <2>2, <2>4 DEF TunedInv
<1>2. ASSUME NEW c \in Client, Tune(c) PROVE TunedInv'
  <2>1. stage' = "tuning" /\ user' = c /\ IssueFor(c, resets, Nid(NetworkOf[c]))
    BY <1>2 DEF Tune
  <2>2. NetworkOf[c] \in Network
    BY TunedAssumption
  <2>3. FramesInv' /\ ModeInv'
    BY <1>0, <2>1, <2>2, BeginningKeeps, CommandSets
  <2>4. command' = Nid(NetworkOf[c]) /\ steady' = TRUE
    BY <1>0, <2>1, BeginningOf
  <2>5. CallInv' /\ NobodyElseTransmits'
    BY <2>1, <2>4 DEF CallInv, NobodyElseTransmits
  <2>6. QED BY <2>3, <2>5 DEF TunedInv
<1>3. CASE Send
  <2>1. stage = "ready" /\ stage' = "sending" /\ user' = user /\ IssueFor(user, epoch, Tx)
    BY <1>3 DEF Send
  <2>2. FramesInv' /\ ModeInv'
    BY <1>0, <2>1, BeginningKeeps, CommandSets
  <2>3. command' = Tx /\ epoch' = epoch /\ resets' = resets
    BY <1>0, <2>1, BeginningOf
  <2>4. sender'[issued'] = [client |-> user, epoch |-> epoch]
    BY <1>0, <2>1, BeginningOf
  <2>5. asked' = Replace(asked, Tx.sets, Forgotten)
    BY <2>1 DEF IssueFor, Issue
  <2>6. asked'["sync"] = asked["sync"]
    BY <1>0, <2>5, CommandSets DEF Replace, Setting
  <2>7. CallInv'
    BY <1>0, <2>1, <2>3, <2>4, <2>6 DEF CallInv
  <2>8. toModem' = toModem /\ \A n \in 1 .. issued : sender'[n] = sender[n]
    BY <1>0, <2>1, BeginningOf
  <2>9. NobodyElseTransmits'
    BY <1>0, <2>1, <2>8, OthersKept
  <2>10. QED BY <2>2, <2>7, <2>9 DEF TunedInv
<1>4. CASE Leave
  <2>1. stage' = "free" /\ UNCHANGED <<vars, epoch, sender>>
    BY <1>4 DEF Leave
  <2>2. UNCHANGED <<toModem, radio, resets, command>>
    BY <2>1 DEF vars, host, wires, history
  <2>3. FramesInv' /\ ModeInv'
    BY <1>0, <2>1, <2>2, FramesKept, ModeKept DEF ModeInv
  <2>4. CallInv' /\ NobodyElseTransmits'
    BY <2>1 DEF CallInv, NobodyElseTransmits
  <2>5. QED BY <2>3, <2>4 DEF TunedInv
<1>5. CASE Succeeds
  <2>1. /\ verdict = "ok" /\ Return /\ UNCHANGED <<user, epoch, sender>>
        /\ stage' = IF stage = "listening" THEN "free" ELSE "ready"
    BY <1>5 DEF Succeeds
  <2>2. FramesInv' /\ ModeInv'
    BY <1>0, <2>1, EndKeeps
  <2>3. /\ pc # "idle" /\ UNCHANGED <<resets, command, steady>>
        /\ asked' = IF steady THEN Replace(asked, command.sets, command.sets) ELSE asked
    BY <2>1, EndOf DEF Return
  <2>4. CASE stage = "listening"
    <3>1. CallInv' /\ NobodyElseTransmits'
      BY <2>1, <2>4 DEF CallInv, NobodyElseTransmits
    <3>2. QED BY <2>2, <3>1 DEF TunedInv
  <2>5. CASE stage \in {"tuning", "sending"}
    <3>1. user \in Client /\ NetworkOf[user] \in Network
      BY <1>0, <2>5, TunedAssumption
    <3>2. ASSUME epoch = resets PROVE asked'["sync"] = NetworkOf[user]
      <4>1. CASE stage = "tuning"
        <5>1. steady /\ command.sets["sync"] = NetworkOf[user] /\ NetworkOf[user] # Nothing
          BY <1>0, <3>1, <3>2, <4>1, CommandSets DEF CallInv
        <5>2. QED BY <1>0, <2>3, <5>1 DEF Replace, Setting
      <4>2. CASE stage = "sending"
        <5>1. asked["sync"] = NetworkOf[user] /\ command.sets["sync"] = Nothing
          BY <1>0, <3>2, <4>2, CommandSets DEF CallInv
        <5>2. QED BY <1>0, <2>3, <5>1 DEF Replace, Setting
      <4>3. QED BY <2>5, <4>1, <4>2
    <3>3. CallInv'
      BY <2>1, <2>3, <2>5, <3>2 DEF CallInv
    <3>4. NobodyElseTransmits'
      <4>1. CASE stage = "tuning"
        <5>1. toModem' = toModem /\ Len(toModem) \in Nat
          BY <2>1, EndOf DEF TypeOK
        <5>2. executed = issued /\ executed <= processed /\ processed \in Nat
          BY <2>1, <2>3 DEF LinkInv, SuccessMeansExecuted, OrderInv, TypeOK
        <5>3. \A i \in 1 .. Len(toModem) : toModem[i].tag \in 1 .. issued /\ toModem[i].tag > processed
          BY DEF LinkInv, LinesInv, Sequenced, Recent
        <5>4. \A i \in 1 .. Len(toModem) : FALSE
          BY <1>0, <5>2, <5>3
        <5>5. QED BY <5>1, <5>4 DEF NobodyElseTransmits
      <4>2. CASE stage = "sending"
        BY <1>0, <2>1, <4>2, EndOf, OthersKept
      <4>3. QED BY <2>5, <4>1, <4>2
    <3>5. QED BY <2>2, <3>3, <3>4 DEF TunedInv
  <2>6. QED BY <1>0, <2>3, <2>4, <2>5
<1>6. CASE Fails
  <2>1. /\ Return \/ TimeOut
        /\ (verdict = "error" /\ Return) \/ TimeOut
        /\ UNCHANGED <<epoch, sender>>
        /\ \/ stage = "sending" /\ stage' = "ready" /\ user' = user
           \/ stage \in {"tuning", "listening"} /\ stage' \in {"stopped", "free"}
    BY <1>6 DEF Fails, RaisesTransportError, Gone
  <2>2. FramesInv' /\ ModeInv'
    BY <1>0, <2>1, EndKeeps
  <2>3. UNCHANGED <<resets, asked>>
    BY <2>1 DEF Return, TimeOut, history
  <2>4. CallInv'
    BY <1>0, <2>1, <2>3 DEF CallInv
  <2>5. NobodyElseTransmits'
    <3>1. CASE stage = "sending"
      BY <1>0, <2>1, <3>1, EndOf, OthersKept
    <3>2. CASE stage' \in {"stopped", "free"}
      BY <3>2 DEF NobodyElseTransmits
    <3>3. QED BY <2>1, <3>1, <3>2
  <2>6. QED BY <2>2, <2>4, <2>5 DEF TunedInv
<1>7. CASE PortFails
  <2>1. WriteFails /\ stage' \in {"stopped", "free"} /\ UNCHANGED <<epoch, sender>>
    BY <1>7 DEF PortFails, Gone
  <2>2. FramesInv' /\ ModeInv'
    BY <1>0, <2>1, EndKeeps
  <2>3. CallInv' /\ NobodyElseTransmits'
    BY <2>1 DEF CallInv, NobodyElseTransmits
  <2>4. QED BY <2>2, <2>3 DEF TunedInv
<1>8. CASE LinkStep
  <2>0. UNCHANGED callers
    BY <1>8 DEF LinkStep
  <2>1. ASSUME UNCHANGED <<resets, command, steady, asked, issued>> PROVE CallInv'
    BY <1>0, <2>0, <2>1 DEF CallInv, callers
  <2>2. CASE Write
    <3>1. /\ pc = "writing" /\ toModem' = Append(toModem, TheLine)
          /\ UNCHANGED <<command, radio, resets, steady, asked, issued, sender>>
      BY <2>0, <2>2 DEF Write, history, callers
    <3>2. TheLine.command = command /\ TheLine.tag = issued /\ TheLine \in CommandLine
      BY <1>0, <3>1 DEF TheLine, TypeOK, CommandLine, LinkInv, OrderInv
    <3>3. /\ Len(toModem) \in Nat /\ Len(toModem') = Len(toModem) + 1
          /\ toModem'[Len(toModem) + 1] = TheLine
          /\ \A i \in 1 .. Len(toModem) : toModem'[i] = toModem[i]
      BY <3>1, <3>2, AppendElements DEF TypeOK
    <3>4. ModeInv'
      BY <1>0, <3>1, <3>2, <3>3 DEF ModeInv
    <3>5. ASSUME command = Tx, sender[issued].epoch = resets
          PROVE  /\ radio["sync"] = NetworkOf[sender[issued].client]
                 /\ \A i \in 1 .. Len(toModem) : toModem[i].command.sets["sync"] = Nothing
      <4>1. stage = "sending"
        BY <1>0, <3>1, <3>5, CommandSets, TunedAssumption DEF CallInv
      <4>2. sender[issued] = [client |-> user, epoch |-> epoch] /\ user \in Client
        BY <1>0, <4>1 DEF CallInv
      <4>3. asked["sync"] = NetworkOf[user] /\ NetworkOf[user] # Nothing /\ "sync" \in Setting
        BY <1>0, <3>5, <4>1, <4>2, CommandSets, TunedAssumption DEF CallInv, Setting
      <4>4. QED BY <4>2, <4>3 DEF LinkInv, RadioInv
    <3>6. FramesInv'
      <4> SUFFICES ASSUME NEW i \in 1 .. Len(toModem'), toModem'[i].command = Tx,
                          sender'[toModem'[i].tag].epoch = resets'
                   PROVE  /\ OnItsNetwork(toModem[i])'
                          /\ \A j \in 1 .. i : toModem'[j].command.sets["sync"] = Nothing
        BY DEF FramesInv
      <4>1. CASE i \in 1 .. Len(toModem)
        BY <1>0, <3>1, <3>3, <4>1 DEF FramesInv, OnItsNetwork
      <4>2. CASE i = Len(toModem) + 1
        <5>1. command = Tx /\ sender[issued].epoch = resets
          BY <3>1, <3>2, <3>3, <4>2
        <5>2. OnItsNetwork(toModem[i])'
          BY <3>1, <3>2, <3>3, <3>5, <4>2, <5>1 DEF OnItsNetwork
        <5>3. \A j \in 1 .. i : toModem'[j].command.sets["sync"] = Nothing
          BY <3>2, <3>3, <3>5, <4>2, <5>1, CommandSets
        <5>4. QED BY <5>2, <5>3
      <4>3. QED BY <3>3, <4>1, <4>2
    <3>7. NobodyElseTransmits'
      <4> SUFFICES ASSUME stage \in {"ready", "sending"}, NEW i \in 1 .. Len(toModem')
                   PROVE  sender[toModem'[i].tag].client = user
        BY <2>0 DEF NobodyElseTransmits, callers
      <4>1. CASE i \in 1 .. Len(toModem)
        BY <1>0, <3>3, <4>1 DEF NobodyElseTransmits
      <4>2. CASE i = Len(toModem) + 1
        BY <1>0, <3>1, <3>2, <3>3, <4>2 DEF CallInv
      <4>3. QED BY <3>3, <4>1, <4>2
    <3>8. QED BY <2>1, <3>1, <3>4, <3>6, <3>7 DEF TunedInv
  <2>3. CASE Written \/ HandleReply \/ HandleGarbage \/ ReaderFails
    <3>1. UNCHANGED <<command, toModem, radio, resets, steady, asked, issued, sender>>
      BY <2>0, <2>3 DEF Written, HandleReply, HandleGarbage, ReaderFails, wires, host, history, callers
    <3>2. FramesInv'
      BY <1>0, <3>1, FramesKept
    <3>3. ModeInv'
      BY <1>0, <3>1 DEF ModeInv
    <3>4. NobodyElseTransmits'
      BY <1>0, <2>0, <3>1 DEF NobodyElseTransmits, callers
    <3>5. QED BY <2>1, <3>1, <3>2, <3>3, <3>4 DEF TunedInv
  <2>4. CASE Dispatch \/ Reject
    <3>1. /\ toModem # <<>> /\ toModem' = Tail(toModem)
          /\ radio' \in {radio, Replace(radio, Head(toModem).command.sets, Head(toModem).command.sets)}
          /\ UNCHANGED <<command, resets, steady, asked, issued, sender>>
      BY <2>0, <2>4 DEF Dispatch, Reject, host, callers
    <3>2. /\ Len(toModem) \in Nat /\ Len(toModem) >= 1 /\ Len(toModem') = Len(toModem) - 1
          /\ Head(toModem) = toModem[1]
          /\ \A i \in 1 .. Len(toModem') : i + 1 \in 1 .. Len(toModem) /\ toModem'[i] = toModem[i + 1]
      BY <3>1, TailElements, TailSubset DEF TypeOK
    <3>3. \A f \in Setting : radio'[f] \in {radio[f], toModem[1].command.sets[f]}
      BY <3>1, <3>2 DEF Replace
    <3>4. toModem[1].command.sets["sync"] = Nothing => radio'["sync"] = radio["sync"]
      BY <1>0, <3>1, <3>2 DEF Replace, Setting
    <3>5. ModeInv'
      <4>1. radio'["mode"] = "Listen"
        <5>1. toModem[1].command.sets["mode"] \in {"Listen", Nothing} /\ radio["mode"] = "Listen"
          BY <1>0, <3>2 DEF ModeInv
        <5>2. QED BY <3>1, <3>2, <5>1 DEF Replace, Setting
      <4>2. QED BY <1>0, <3>1, <3>2, <4>1 DEF ModeInv
    <3>6. FramesInv'
      <4> SUFFICES ASSUME NEW i \in 1 .. Len(toModem'), toModem'[i].command = Tx,
                          sender'[toModem'[i].tag].epoch = resets'
                   PROVE  /\ OnItsNetwork(toModem[i])'
                          /\ \A j \in 1 .. i : toModem'[j].command.sets["sync"] = Nothing
        BY DEF FramesInv
      <4>1. /\ i + 1 \in 1 .. Len(toModem) /\ toModem[i + 1].command = Tx
            /\ sender[toModem[i + 1].tag].epoch = resets
        BY <3>1, <3>2
      <4>2. /\ radio["sync"] = NetworkOf[sender[toModem[i + 1].tag].client]
            /\ \A j \in 1 .. i + 1 : toModem[j].command.sets["sync"] = Nothing
        BY <1>0, <4>1 DEF FramesInv, OnItsNetwork
      <4>3. 1 \in 1 .. i + 1 /\ \A j \in 1 .. i : j + 1 \in 1 .. i + 1 /\ j \in 1 .. Len(toModem')
        BY <3>2
      <4>4. OnItsNetwork(toModem[i])'
        BY <3>1, <3>2, <3>4, <4>2, <4>3 DEF OnItsNetwork
      <4>5. QED BY <3>2, <4>2, <4>3, <4>4
    <3>7. NobodyElseTransmits'
      BY <1>0, <2>0, <3>1, <3>2 DEF NobodyElseTransmits, callers
    <3>8. QED BY <2>1, <3>1, <3>5, <3>6, <3>7 DEF TunedInv
  <2>5. CASE Reset
    <3>1. /\ resets' = resets + 1 /\ radio' = BootRadio /\ Len(toModem') = 0
          /\ UNCHANGED <<command, user, stage, epoch, sender, issued>>
      BY <2>0, <2>5 DEF Reset, host, callers
    <3>2. epoch' # resets'
      BY <1>0, <3>1
    <3>3. CallInv'
      BY <1>0, <3>1, <3>2 DEF CallInv
    <3>4. radio'["mode"] = "Listen"
      BY <3>1 DEF BootRadio, Setting
    <3>5. ModeInv'
      BY <1>0, <3>1, <3>4 DEF ModeInv
    <3>6. FramesInv' /\ NobodyElseTransmits'
      BY <3>1 DEF FramesInv, NobodyElseTransmits
    <3>7. QED BY <3>3, <3>5, <3>6 DEF TunedInv
  <2>6. QED BY <1>8, <2>2, <2>3, <2>4, <2>5 DEF LinkStep
<1>9. CASE UNCHANGED tunedVars
  <2>1. UNCHANGED <<command, toModem, radio, resets, steady, asked, issued, sender, user, stage, epoch>>
    BY <1>9 DEF tunedVars, vars, host, wires, history, callers
  <2>2. FramesInv' /\ ModeInv' /\ CallInv' /\ NobodyElseTransmits'
    BY <1>0, <2>1, FramesKept DEF ModeInv, CallInv, NobodyElseTransmits
  <2>3. QED BY <2>2 DEF TunedInv
<1>10. QED
  BY <1>1, <1>2, <1>3, <1>4, <1>5, <1>6, <1>7, <1>8, <1>9 DEF TunedNext

THEOREM TunedInductive == TunedSpec => []TunedInv
<1>1. TunedInit => TunedInv
  <2> SUFFICES ASSUME TunedInit PROVE TunedInv
    OBVIOUS
  <2>1. Len(toModem) = 0 /\ stage = "starting" /\ command = Tx /\ radio = BootRadio
    BY DEF TunedInit, Init
  <2>2. CallInv /\ FramesInv /\ NobodyElseTransmits
    BY <2>1 DEF CallInv, FramesInv, NobodyElseTransmits
  <2>3. ModeInv
    BY <2>1, CommandSets DEF ModeInv, BootRadio, Setting
  <2>4. QED BY <2>2, <2>3 DEF TunedInv
<1>2. TypeOK /\ TunedTypeOK /\ LinkInv /\ TunedInv /\ [TunedNext]_tunedVars => TunedInv'
  BY NextKeepsTuned
<1>3. QED BY <1>1, <1>2, ClientsUseTheLink, Typing, TunedTyping, LinkInductive, PTL DEF TunedSpec

\* A call's frames go out on its client's network, and where it awaits an answer the modem listens
\* there, unless a reset came since it tuned the modem.
THEOREM ExchangesAreTuned == TunedSpec => []ExchangeOnItsNetwork
<1>1. TypeOK /\ TunedTypeOK /\ LinkInv /\ TunedInv => ExchangeOnItsNetwork
  <2> SUFFICES ASSUME TypeOK, TunedTypeOK, LinkInv, TunedInv PROVE ExchangeOnItsNetwork
    OBVIOUS
  <2>1. ASSUME toModem # <<>> PROVE OnItsNetwork(Head(toModem))
    <3>1. Head(toModem) = toModem[1] /\ 1 \in 1 .. Len(toModem)
      BY <2>1, TailElements DEF TypeOK
    <3>2. QED BY <3>1 DEF TunedInv, FramesInv, OnItsNetwork
  <2>2. radio["mode"] = "Listen"
    BY DEF TunedInv, ModeInv
  <2>3. ASSUME stage = "ready", epoch = resets PROVE radio["sync"] = NetworkOf[user]
    <3>1. user \in Client /\ NetworkOf[user] # Nothing
      BY <2>3, TunedAssumption, CommandSets DEF TunedTypeOK
    <3>2. QED BY <2>3, <3>1 DEF TunedInv, CallInv, LinkInv, RadioInv, Setting
  <2>4. QED BY <2>1, <2>2, <2>3 DEF ExchangeOnItsNetwork
<1>2. QED BY <1>1, ClientsUseTheLink, Typing, TunedTyping, LinkInductive, TunedInductive, PTL

\* Exchanges do not overlap on the air either: a frame given up earlier is out of the way by then.
THEOREM ExchangesApart == TunedSpec => []NobodyElseTransmits
<1>1. TunedInv => NobodyElseTransmits
  BY DEF TunedInv
<1>2. QED BY <1>1, TunedInductive, PTL
=============================================================================
