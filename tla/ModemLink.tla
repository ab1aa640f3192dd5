------------------------------- MODULE ModemLink -------------------------------
(***************************************************************************)
(* The host and the Feather modem on the two ends of the USB serial line:  *)
(* transport/serial.py (one command at a time under _cmd_lock, a pending   *)
(* future resolved by sequence number and reply kind, a timeout, a reader  *)
(* that may fail) and firmware/src/main.cpp (a line dispatcher with a mode *)
(* and the radio's sync word).  Lines stay in order; either side may find  *)
(* one garbled, and the modem may reset at any time.                       *)
(***************************************************************************)
EXTENDS RollingId, Sequences

CONSTANTS
  Network,     \* network ids the host tunes to
  BootSync,    \* ffffffff, the sync word radioInit leaves in the radio
  MaxIssued,   \* bound: commands issued
  MaxResets    \* bound: modem resets

Nothing == "nothing"    \* a command leaves this setting of the radio alone

ASSUME LinkAssumption ==
  /\ BootSync \in Network /\ Nothing \notin Network
  /\ MaxIssued \in Nat /\ MaxResets \in Nat

VARIABLES
  \* SerialTransport
  nextSeq,    \* _next_seq
  pc,         \* _command: "idle", "writing" and "written" (executor), "waiting" (for the future)
  pending,    \* _pending: [seq, reply] of the command in flight
  verdict,    \* its future: "open", "ok" or "error"
  command,    \* the command in flight
  failed,     \* the reader thread stopped (_failure is set)
  \* The line
  toModem, toHost,
  \* The firmware: gMode and the radio's sync word
  radio,
  \* History: never read by a guard of the code
  issued,     \* commands issued: the identity of the latest one
  processed,  \* the last command line the modem took off the line
  executed,   \* the last command the modem carried out
  steady,     \* no reset of the modem since the latest command was issued
  asked,      \* what the last command that set it, and returned, set each field of radio
              \* to; Nothing once another such command is issued or the modem resets
  resets

host == <<nextSeq, pc, pending, verdict, command, failed>>
wires == <<toModem, toHost>>
history == <<issued, processed, executed, steady, asked, resets>>
vars == <<host, wires, radio, history>>

Setting == {"mode", "sync"}
Mode == {"Listen", "Sleep"}
Value == Mode \cup Network

\* What a command sets, and the reply the firmware gives to it.
Only(setting, value) == [f \in Setting |-> IF f = setting THEN value ELSE Nothing]
Forgotten == [f \in Setting |-> Nothing]

Nid(network) == [sets |-> Only("sync", network), reply |-> "OK"]
ModeChange(mode) == [sets |-> Only("mode", mode), reply |-> "OK"]
Tx == [sets |-> Forgotten, reply |-> "OK"]
Ping == [sets |-> Forgotten, reply |-> "PONG"]
Command == {Nid(network) : network \in Network} \cup {ModeChange(mode) : mode \in Mode} \cup {Tx, Ping}

Reply == {"OK", "PONG", "ERR"}
CommandLine == [seq : Id, tag : Nat, command : Command]
ReplyLine == [seq : Id, tag : Nat, reply : Reply]

BootRadio == [f \in Setting |-> IF f = "mode" THEN "Listen" ELSE BootSync]

\* `settings`, with those that `sets` sets replaced by what `new` has for them.
Replace(settings, sets, new) ==
  [f \in Setting |-> IF sets[f] = Nothing THEN settings[f] ELSE new[f]]

Init ==
  /\ nextSeq \in Id
  /\ pc = "idle"
  /\ pending = [seq |-> 0, reply |-> "OK"]
  /\ verdict = "error"
  /\ command = Tx
  /\ failed = FALSE
  /\ toModem = <<>> /\ toHost = <<>>
  /\ radio = BootRadio
  /\ issued = 0 /\ processed = 0 /\ executed = 0
  /\ steady = TRUE
  /\ asked = Forgotten
  /\ resets = 0

-----------------------------------------------------------------------------
(* The host.                                                               *)

\* _command: take a sequence number and a future, hand the line to the executor.  No line
\* is still under way when its sequence number comes round again (2^32 commands later).
Issue(c) ==
  /\ pc = "idle"
  /\ issued < MaxIssued
  /\ \A i \in 1 .. Len(toHost) : issued + 1 - toHost[i].tag < IdCount
  /\ \A i \in 1 .. Len(toModem) : issued + 1 - toModem[i].tag < IdCount
  /\ nextSeq' = NextId(nextSeq)
  /\ pending' = [seq |-> nextSeq, reply |-> c.reply]
  /\ verdict' = "open"
  /\ command' = c
  /\ pc' = "writing"
  /\ issued' = issued + 1
  /\ steady' = TRUE
  /\ asked' = Replace(asked, c.sets, Forgotten)
  /\ UNCHANGED <<failed, wires, radio, processed, executed, resets>>

TheLine == [seq |-> pending.seq, tag |-> issued, command |-> command]

\* _write puts the line on the wire.
Write ==
  /\ pc = "writing"
  /\ toModem' = Append(toModem, TheLine)
  /\ pc' = "written"
  /\ UNCHANGED <<nextSeq, pending, verdict, command, failed, toHost, radio, history>>

\* The executor reports back to the event loop, which may have read the reply by then.
Written ==
  /\ pc = "written"
  /\ pc' = "waiting"
  /\ UNCHANGED <<nextSeq, pending, verdict, command, failed, wires, radio, history>>

\* The write raises SerialException, with the line out or not: no reply is awaited.
WriteFails ==
  /\ pc \in {"writing", "written"}
  /\ pc' = "idle"
  /\ UNCHANGED <<nextSeq, pending, verdict, command, failed, wires, radio, history>>

\* Mutant of Accepts: a reply of the right kind will do, whichever command it answers.
AnySeqAccepts(l) ==
  /\ pc # "idle"
  /\ verdict = "open"
  /\ l.reply \in {"ERR", pending.reply}

\* _resolve_pending: the reply is to the pending command, of the kind it expects or an
\* error, and the future is not done.
Accepts(l) ==
  /\ pc # "idle"
  /\ verdict = "open"
  /\ l.seq = pending.seq
  /\ l.reply \in {"ERR", pending.reply}

\* _handle_line: a reply resolves the pending future or is ignored.
HandleReply ==
  /\ ~failed
  /\ toHost # <<>>
  /\ toHost' = Tail(toHost)
  /\ verdict' = IF ~Accepts(Head(toHost)) THEN verdict
                ELSE IF Head(toHost).reply = "ERR" THEN "error" ELSE "ok"
  /\ UNCHANGED <<nextSeq, pc, pending, command, failed, toModem, radio, history>>

\* A garbled line matches none of the patterns.
HandleGarbage ==
  /\ ~failed
  /\ toHost # <<>>
  /\ toHost' = Tail(toHost)
  /\ UNCHANGED <<host, toModem, radio, history>>

\* The future is done: the command returns, or raises the modem's or the reader's error.
Return ==
  /\ pc = "waiting"
  /\ verdict # "open"
  /\ pc' = "idle"
  /\ asked' = IF verdict = "ok" /\ steady THEN Replace(asked, command.sets, command.sets) ELSE asked
  /\ UNCHANGED <<nextSeq, pending, verdict, command, failed, wires, radio,
                 issued, processed, executed, steady, resets>>

\* Mutant of TimeOut: the command is written once more.
RepeatingTimeOut ==
  /\ pc = "waiting"
  /\ pc' \in IF verdict = "open" THEN {"writing", "idle"} ELSE {"idle"}
  /\ UNCHANGED <<nextSeq, pending, verdict, command, failed, wires, radio, history>>

\* asyncio.wait_for gives up: the command raises whatever the modem made or will make of
\* it.  (Its future may be done: the cancellation can reach the task first.)
TimeOut ==
  /\ pc = "waiting"
  /\ pc' = "idle"
  /\ UNCHANGED <<nextSeq, pending, verdict, command, failed, wires, radio, history>>

\* The reader thread gets a SerialException: it stops reading, and the pending future fails.
ReaderFails ==
  /\ ~failed
  /\ failed' = TRUE
  /\ verdict' = IF verdict = "open" /\ pc # "idle" THEN "error" ELSE verdict
  /\ UNCHANGED <<nextSeq, pc, pending, command, wires, radio, history>>

-----------------------------------------------------------------------------
(* The firmware.                                                           *)

\* dispatchLine on a good line: carry the command out and reply.
Dispatch ==
  /\ toModem # <<>>
  /\ LET l == Head(toModem) IN
     /\ toModem' = Tail(toModem)
     /\ toHost' = Append(toHost, [seq |-> l.seq, tag |-> l.tag, reply |-> l.command.reply])
     /\ processed' = l.tag
     /\ executed' = l.tag
     /\ radio' = Replace(radio, l.command.sets, l.command.sets)
  /\ UNCHANGED <<host, issued, steady, asked, resets>>

\* dispatchLine on a line it cannot read, or a TX the radio refuses: an error with the
\* sequence number read, which a garbled line gives wrong or not at all ("ERR -").
Reject ==
  /\ toModem # <<>>
  /\ LET l == Head(toModem) IN
     /\ toModem' = Tail(toModem)
     /\ \/ toHost' = toHost
        \/ \E seq \in Id : toHost' = Append(toHost, [seq |-> seq, tag |-> l.tag, reply |-> "ERR"])
     /\ processed' = l.tag
  /\ UNCHANGED <<host, radio, issued, executed, steady, asked, resets>>

\* setup() runs again: the radio is back on the boot sync word, unread input is lost.
Reset ==
  /\ resets < MaxResets
  /\ resets' = resets + 1
  /\ radio' = BootRadio
  /\ toModem' = <<>>
  /\ steady' = FALSE
  /\ asked' = Forgotten
  /\ UNCHANGED <<host, toHost, issued, processed, executed>>

Next ==
  \/ \E c \in Command : Issue(c)
  \/ Write \/ Written \/ WriteFails
  \/ HandleReply \/ HandleGarbage \/ Return \/ TimeOut \/ ReaderFails
  \/ Dispatch \/ Reject \/ Reset

Spec == Init /\ [][Next]_vars

\* The executor's write ends, one way or the other, and the timer of wait_for fires.
FairSpec ==
  /\ Spec
  /\ WF_vars(Write \/ WriteFails)
  /\ WF_vars(Written)
  /\ WF_vars(TimeOut)

-----------------------------------------------------------------------------
(* Properties.                                                             *)

\* Type invariant: the sequence number keeps its width.
TypeOK ==
  /\ nextSeq \in Id
  /\ pc \in {"idle", "writing", "written", "waiting"}
  /\ pending \in [seq : Id, reply : {"OK", "PONG"}]
  /\ verdict \in {"open", "ok", "error"}
  /\ command \in Command
  /\ failed \in BOOLEAN
  /\ toModem \in Seq(CommandLine) /\ toHost \in Seq(ReplyLine)
  /\ radio \in [Setting -> Value]
  /\ issued \in Nat /\ processed \in Nat /\ executed \in Nat
  /\ steady \in BOOLEAN
  /\ asked \in [Setting -> Value \cup {Nothing}]
  /\ resets \in Nat

\* "The host accepts only a reply matching the pending sequence and expected response kind"
\* (docs/PROTOCOL.md): the command in flight has succeeded only once the modem carried out that
\* very command, however many timed out before it and whatever late replies they left behind.
SuccessMeansExecuted == pc # "idle" /\ verdict = "ok" => executed = issued

\* From the return of set_network_id, listen or sleep until the next one, or a reset of the
\* modem, the radio is as the caller asked: no NID, LISTEN or SLEEP that timed out earlier
\* takes effect after it.
RadioAsAsked == \A f \in Setting : asked[f] # Nothing => radio[f] = asked[f]

\* Why they hold, an inductive invariant.  The modem serves commands in the order issued, and a
\* line carries the sequence number its command drew, fewer than IdCount commands ago.
Recent(l) == l.tag \in 1 .. issued /\ issued - l.tag < IdCount
Sequenced(l) == Recent(l) /\ l.seq = IdBefore(pending.seq, issued - l.tag)

OrderInv ==
  /\ executed <= processed /\ processed <= issued
  /\ pc = "writing" => processed < issued
  /\ issued > 0 => nextSeq = NextId(pending.seq)

LinesInv ==
  /\ \A i \in 1 .. Len(toModem) : LET l == toModem[i] IN
       /\ Sequenced(l)
       /\ l.tag > processed
       /\ pc = "writing" => l.tag < issued
       /\ l.tag = issued => l.command = command
  /\ \A i, j \in 1 .. Len(toModem) : i < j => toModem[i].tag < toModem[j].tag
  /\ \A i \in 1 .. Len(toHost) : LET l == toHost[i] IN
       /\ Recent(l)
       /\ l.reply # "ERR" => Sequenced(l) /\ l.tag <= executed

\* What was asked of the radio is in effect, and nothing under way would change it.
RadioInv ==
  \A f \in Setting :
    /\ pc # "idle" /\ steady /\ executed = issued /\ command.sets[f] # Nothing => radio[f] = command.sets[f]
    /\ asked[f] # Nothing =>
         /\ radio[f] = asked[f]
         /\ pc = "writing" => command.sets[f] = Nothing
         /\ \A i \in 1 .. Len(toModem) : toModem[i].command.sets[f] = Nothing

LinkInv == OrderInv /\ LinesInv /\ RadioInv /\ SuccessMeansExecuted

\* The transport and the modem together keep the order of commands: each is carried out at most
\* once, whole, as late as it may be never after a later one, and confirmed only once it was; and no command waits
\* forever: the transport's lock is always released.
Effect(l) == [number |-> l.tag, sets |-> l.command.sets]
Underway == {Effect(toModem[i]) : i \in 1 .. Len(toModem)}
Outstanding == IF pc = "writing" THEN Underway \cup {Effect(TheLine)} ELSE Underway
Calling == IF pc = "idle" THEN "idle" ELSE IF verdict = "ok" THEN "confirmed" ELSE "open"

Ordered == INSTANCE CommandOrder WITH
  Commands <- {c.sets : c \in Command}, Boot <- BootRadio,
  owed <- Outstanding, effective <- executed, call <- Calling, device <- radio
KeepsOrder == Ordered!FairSpec

=============================================================================
