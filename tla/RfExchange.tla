------------------------------ MODULE RfExchange ------------------------------
(***************************************************************************)
(* The request/response exchanges of connect/client.py: several            *)
(* FrisquetClients (connect, sonde, satellites) share one modem and one    *)
(* asyncio.Lock.  `request` tunes the modem, then makes up to `attempts`   *)
(* attempts: draw a request id, persist it, send the same frame `burst`    *)
(* times, await the answer with that id.  `send_oneway` sends `attempts`   *)
(* frames, each with an id of its own, and releases the lock between them. *)
(* The radio loses, delays and repeats frames; the process may stop at any *)
(* point and come back with the ids it had saved.                          *)
(***************************************************************************)
EXTENDS RollingId, Sequences, FiniteSets

CONSTANTS
  Client,       \* the FrisquetClients: one per role (address, association, counter)
  Nobody,       \* the holder of a free lock
  Shape,        \* [attempts, burst] of the calls the operations make
  MaxCalls,     \* bound: calls started, over all clients
  MaxCrashes,   \* bound: restarts of the process
  MaxInbox      \* bound: frames waiting in the subscriber's queue

ASSUME ExchangeAssumption ==
  /\ Nobody \notin Client
  /\ Shape \subseteq [attempts : Nat \ {0}, burst : Nat \ {0}]
  /\ MaxCalls \in Nat /\ MaxCrashes \in Nat /\ MaxInbox \in Nat

VARIABLES
  lock,      \* the client that holds the request lock
  line,      \* the clients queued for it, in order (asyncio.Lock is first come, first served)
  pc,        \* where each client's call stands
  call,      \* the call in progress: [kind, attempts, burst]
  attempt,   \* attempts (request) or repeats (send_oneway) begun
  sent,      \* frames of this attempt handed to the modem
  reqId,     \* ProtocolState.request_id
  saved,     \* the request id in state.json
  inbox,     \* the queue the lock holder's request subscribed
  air,       \* request frames the boiler has heard or may still hear and answer
  outcome,   \* how each client's last call ended
  calls, crashes,        \* counters for the bounds
  \* History: never read by a guard of the code.
  drawn,     \* how many ids the client ever drew: the identity of an attempt
  answeredBy,\* the attempt whose answer ended the last call, 0 if none
  rewound    \* clients whose counter went back in a restart, an id having been used unsaved

channel == <<inbox, air>>
ids == <<reqId, saved, drawn, rewound>>
progress == <<call, attempt, sent>>
result == <<outcome, answeredBy>>
bounds == <<calls, crashes>>
vars == <<lock, line, pc, progress, ids, channel, result, bounds>>

Kind == {"request", "oneway"}
Answer == {"ack", "nack", "other"}
Outcome == {"none", "ok", "nack", "timeout", "transport", "port"}
Frame == [client : Client, id : Int, tag : Nat]

\* The frame of the attempt client c is making.  `tag` is history, the code compares `id`.
FrameOf(c) == [client |-> c, id |-> reqId[c], tag |-> drawn[c]]

-----------------------------------------------------------------------------
(* Sub-actions: what several steps of a call have in common.               *)

\* Mutant of Release: nobody is told that the lock is free.
SilentRelease == lock' = lock

\* async with self._lock: leave the lock to whoever is first in line.
Release == lock' = Nobody

\* next_request_id draws and saves an id (a failed save is only logged), and the queue is
\* drained.  The radio's part: no answer is still to come for an attempt IdCount draws old.
DrawId(c) ==
  LET new == NextId(reqId[c]) IN
  /\ reqId' = [reqId EXCEPT ![c] = new]
  /\ saved' \in {saved, [saved EXCEPT ![c] = new]}
  /\ drawn' = [drawn EXCEPT ![c] = @ + 1]
  /\ air' = {m \in air : m.client = c => drawn[c] + 1 - m.tag < IdCount}
  /\ inbox' = <<>>
  /\ attempt' = [attempt EXCEPT ![c] = @ + 1]
  /\ sent' = [sent EXCEPT ![c] = 0]
  /\ pc' = [pc EXCEPT ![c] = "send"]
  /\ UNCHANGED <<call, rewound>>

\* The call returns or raises: leave `async with`, drop the subscription.
Finish(c, how, by) ==
  /\ outcome' = [outcome EXCEPT ![c] = how]
  /\ answeredBy' = [answeredBy EXCEPT ![c] = by]
  /\ pc' = [pc EXCEPT ![c] = "idle"]
  /\ inbox' = <<>>
  /\ Release
  /\ UNCHANGED <<progress, ids>>

\* Mutant of FailAttempt: the last attempt is one too many.
OverlongFailAttempt(c, why) ==
  \/ /\ call[c].kind = "request"
     /\ attempt[c] <= call[c].attempts
     /\ DrawId(c)
     /\ UNCHANGED <<lock, result>>
  \/ /\ call[c].kind = "oneway" \/ attempt[c] > call[c].attempts
     /\ Finish(c, why, 0)
     /\ air' = air

\* An attempt failed: try again under a new id, or give up with the last error.
\* send_oneway does not try again.
FailAttempt(c, why) ==
  \/ /\ call[c].kind = "request"
     /\ attempt[c] < call[c].attempts
     /\ DrawId(c)
     /\ UNCHANGED <<lock, result>>
  \/ /\ call[c].kind = "oneway" \/ attempt[c] >= call[c].attempts
     /\ Finish(c, why, 0)
     /\ air' = air

-----------------------------------------------------------------------------
(* Steps of a call.                                                        *)

Init ==
  /\ lock = Nobody
  /\ line = <<>>
  /\ pc = [c \in Client |-> "idle"]
  /\ call = [c \in Client |-> [kind |-> "request", attempts |-> 1, burst |-> 1]]
  /\ attempt = [c \in Client |-> 0]
  /\ sent = [c \in Client |-> 0]
  /\ reqId = [c \in Client |-> 0]
  /\ saved = reqId
  /\ inbox = <<>>
  /\ air = {}
  /\ outcome = [c \in Client |-> "none"]
  /\ calls = 0
  /\ crashes = 0
  /\ drawn = [c \in Client |-> 0]
  /\ answeredBy = [c \in Client |-> 0]
  /\ rewound = {}

\* request(...) or send_oneway(...) is called and queues for the lock.
Begin(c, kind, shape) ==
  /\ pc[c] = "idle"
  /\ calls < MaxCalls
  /\ calls' = calls + 1
  /\ call' = [call EXCEPT ![c] =
                [kind |-> kind, attempts |-> shape.attempts,
                 burst |-> IF kind = "oneway" THEN 1 ELSE shape.burst]]
  /\ attempt' = [attempt EXCEPT ![c] = 0]
  /\ sent' = [sent EXCEPT ![c] = 0]
  /\ outcome' = [outcome EXCEPT ![c] = "none"]
  /\ answeredBy' = [answeredBy EXCEPT ![c] = 0]
  /\ line' = Append(line, c)
  /\ pc' = [pc EXCEPT ![c] = "waiting"]
  /\ UNCHANGED <<lock, ids, channel, crashes>>

\* Mutant of Acquire: a client enters without waiting for the lock.
BargingAcquire(c) ==
  /\ pc[c] = "waiting"
  /\ line # <<>> /\ Head(line) = c
  /\ lock' = c
  /\ line' = Tail(line)
  /\ pc' = [pc EXCEPT ![c] = "tune"]
  /\ UNCHANGED <<progress, ids, channel, result, bounds>>

Acquire(c) ==
  /\ pc[c] = "waiting"
  /\ lock = Nobody
  /\ line # <<>> /\ Head(line) = c
  /\ lock' = c
  /\ line' = Tail(line)
  /\ pc' = [pc EXCEPT ![c] = "tune"]
  /\ UNCHANGED <<progress, ids, channel, result, bounds>>

\* set_network_id returned; the first (or, one-way, the next) attempt begins.
Tuned(c) ==
  /\ pc[c] = "tune"
  /\ DrawId(c)
  /\ UNCHANGED <<lock, line, result, bounds>>

\* Mutant of TuneFailed: the exception leaves the lock taken.
LeakingTuneFailed(c) ==
  /\ pc[c] = "tune"
  /\ outcome' = [outcome EXCEPT ![c] = "transport"]
  /\ pc' = [pc EXCEPT ![c] = "idle"]
  /\ UNCHANGED <<lock, line, progress, ids, channel, answeredBy, bounds>>

\* set_network_id raised, whichever exception: the call ends whatever attempts it had left.
TuneFailed(c) ==
  /\ pc[c] = "tune"
  /\ Finish(c, "transport", 0)
  /\ UNCHANGED <<line, air, bounds>>

\* transport.send returned.  After the burst a request awaits its answer; send_oneway
\* releases the lock, sleeps before the next repeat, or is done.
Sent(c) ==
  /\ pc[c] = "send"
  /\ air' = air \cup {FrameOf(c)}
  /\ \/ /\ call[c].kind = "request"
        /\ sent' = [sent EXCEPT ![c] = @ + 1]
        /\ pc' = [pc EXCEPT ![c] = IF sent[c] + 1 < call[c].burst THEN "send" ELSE "await"]
        /\ UNCHANGED <<lock, call, attempt, ids, inbox, result>>
     \/ /\ call[c].kind = "oneway"
        /\ attempt[c] < call[c].attempts
        /\ pc' = [pc EXCEPT ![c] = "gap"]
        /\ Release
        /\ UNCHANGED <<progress, ids, inbox, result>>
     \/ /\ call[c].kind = "oneway"
        /\ attempt[c] >= call[c].attempts
        /\ Finish(c, "ok", 0)
  /\ UNCHANGED <<line, bounds>>

\* transport.send raised a TransportError, at the first frame of the attempt or a later one
\* of its burst.
SendFailed(c) ==
  /\ pc[c] = "send"
  /\ FailAttempt(c, "transport")
  /\ UNCHANGED <<line, bounds>>

\* The write to the port raised: `except TransportError` lets that pass, and the call ends
\* whatever attempts it had left.
PortFails(c) ==
  /\ pc[c] = "send"
  /\ Finish(c, "port", 0)
  /\ UNCHANGED <<line, air, bounds>>

\* The modem transmits the frame before its OK arrives, if it does: should the OK be lost
\* or late, send raises although the boiler may hear the frame.
SentUnreported(c) ==
  /\ pc[c] = "send"
  /\ FrameOf(c) \notin air
  /\ air' = air \cup {FrameOf(c)}
  /\ UNCHANGED <<lock, line, pc, progress, ids, inbox, result, bounds>>

\* send_oneway slept `interval` and asks for the lock again.
GapOver(c) ==
  /\ pc[c] = "gap"
  /\ line' = Append(line, c)
  /\ pc' = [pc EXCEPT ![c] = "waiting"]
  /\ UNCHANGED <<lock, progress, ids, channel, result, bounds>>

\* Mutant of Matches: an answer is recognised by its addresses alone.
AddressOnlyMatches(c, f) == f.client = c

\* Frame.matches: swapped addresses, association id, request id.
Matches(c, f) == f.client = c /\ f.id = reqId[c]

\* _await_match takes the next queued frame: another's, or one of another type or
\* control, is skipped; MSG_ADDRESS_NOT_FOUND ends the call at once.
TakeFrame(c) ==
  /\ pc[c] = "await"
  /\ inbox # <<>>
  /\ LET f == Head(inbox) IN
     \/ /\ Matches(c, f) /\ f.answer = "ack"
        /\ Finish(c, "ok", f.tag)
     \/ /\ Matches(c, f) /\ f.answer = "nack"
        /\ Finish(c, "nack", f.tag)
     \/ /\ ~Matches(c, f) \/ f.answer = "other"
        /\ inbox' = Tail(inbox)
        /\ UNCHANGED <<lock, pc, progress, ids, result>>
  /\ UNCHANGED <<line, air, bounds>>

\* The deadline passes.  Frames still queued are dropped with the queue or drained.
Timeout(c) ==
  /\ pc[c] = "await"
  /\ FailAttempt(c, "timeout")
  /\ UNCHANGED <<line, bounds>>

-----------------------------------------------------------------------------
(* The radio and the process.                                              *)

\* A client's request has a queue subscribed to what the modem receives.
Subscribed == \E c \in Client : pc[c] \in {"send", "await"} /\ call[c].kind = "request"

\* The boiler answers a frame it heard, once or (a burst, a late frame) again; the
\* modem hears it and _dispatch_rx queues it.  Nobody subscribed: nobody hears it.
BoilerAnswers(m, answer) ==
  /\ m \in air
  /\ Subscribed
  /\ Len(inbox) < MaxInbox
  /\ inbox' = Append(inbox, [client |-> m.client, id |-> m.id, tag |-> m.tag, answer |-> answer])
  /\ UNCHANGED <<lock, line, pc, progress, ids, air, result, bounds>>

\* A frame, or its answer, is lost for good.
Fade(m) ==
  /\ m \in air
  /\ air' = air \ {m}
  /\ UNCHANGED <<lock, line, pc, progress, ids, inbox, result, bounds>>

\* The process stops (a crash, a signal, a failed task) and starts again: the ids are
\* read back from state.json, everything else in memory is lost.
Restart ==
  /\ crashes < MaxCrashes
  /\ crashes' = crashes + 1
  /\ lock' = Nobody
  /\ line' = <<>>
  /\ pc' = [c \in Client |-> "idle"]
  /\ reqId' = saved
  /\ rewound' = rewound \cup {c \in Client : saved[c] # reqId[c]}
  /\ inbox' = <<>>
  /\ outcome' = [c \in Client |-> "none"]
  /\ answeredBy' = [c \in Client |-> 0]
  /\ UNCHANGED <<progress, saved, drawn, air, calls>>

CallStep(c) ==
  \/ Acquire(c) \/ Tuned(c) \/ TuneFailed(c) \/ Sent(c) \/ SendFailed(c)
  \/ PortFails(c) \/ SentUnreported(c) \/ GapOver(c) \/ TakeFrame(c) \/ Timeout(c)

Next ==
  \/ \E c \in Client, kind \in Kind, shape \in Shape : Begin(c, kind, shape)
  \/ \E c \in Client : CallStep(c)
  \/ \E m \in air, answer \in Answer : BoilerAnswers(m, answer)
  \/ \E m \in air : Fade(m)
  \/ Restart

Spec == Init /\ [][Next]_vars

\* Every await of a call is bounded: the lock is handed on, a modem command ends by its
\* own timeout, the reply window closes, the sleep between repeats ends.
Fairness == \A c \in Client :
  /\ WF_vars(Acquire(c))
  /\ WF_vars(Tuned(c) \/ TuneFailed(c))
  /\ WF_vars(Sent(c) \/ SendFailed(c) \/ PortFails(c))
  /\ WF_vars(Timeout(c))
  /\ WF_vars(GapOver(c))

FairSpec == Spec /\ Fairness

-----------------------------------------------------------------------------
(* Properties.                                                             *)

Heard == [client : Client, id : Int, tag : Nat, answer : Answer]

\* Type invariant: ids stay within their byte, the queue and the air hold frames.
TypeOK ==
  /\ lock \in Client \cup {Nobody}
  /\ line \in Seq(Client)
  /\ pc \in [Client -> {"idle", "waiting", "tune", "send", "await", "gap"}]
  /\ call \in [Client -> [kind : Kind, attempts : Nat \ {0}, burst : Nat \ {0}]]
  /\ attempt \in [Client -> Nat] /\ sent \in [Client -> Nat]
  /\ reqId \in [Client -> Id] /\ saved \in [Client -> Id]
  /\ inbox \in Seq(Heard)
  /\ air \in SUBSET Frame
  /\ outcome \in [Client -> Outcome]
  /\ calls \in Nat /\ crashes \in Nat
  /\ drawn \in [Client -> Nat] /\ answeredBy \in [Client -> Nat]
  /\ rewound \in SUBSET Client

\* "Clients sharing one modem don't transmit over each other" (client.py, service.py):
\* whoever tunes, transmits or awaits an answer holds the lock, so no other client's frame
\* goes out between a request's first frame and the end of its reply window.
ExclusiveExchange ==
  \A c \in Client : pc[c] \in {"tune", "send", "await"} => lock = c

\* A call ends with "ok" or "address not found" only on an answer to the frame of its own
\* last attempt: never to an earlier attempt, call or burst, late as that answer may be and
\* however often the byte wrapped; also across a restart, unless an id used had not been saved.
AnswersOwnAttempt ==
  \A c \in Client \ rewound :
    call[c].kind = "request" /\ outcome[c] \in {"ok", "nack"} => answeredBy[c] = drawn[c]

\* Two frames of one client the boiler may still answer carry the same id only when they are
\* copies of one attempt (a burst): what makes an answer attributable at all.
IdsTellAttemptsApart ==
  \A m, n \in air :
    m.client = n.client /\ m.client \notin rewound /\ m.id = n.id => m.tag = n.tag

\* Why those two hold, an inductive invariant: the id of a frame on the air, or queued, is the
\* id its client drew as many draws ago as the tags say, fewer than IdCount; and a call in
\* progress has no outcome yet.
Traceable(f) ==
  /\ f.tag <= drawn[f.client]
  /\ drawn[f.client] - f.tag < IdCount
  /\ f.client \notin rewound =>
       f.id = IdBefore(reqId[f.client], drawn[f.client] - f.tag)

AnswerInv ==
  /\ \A m \in air : Traceable(m)
  /\ \A i \in 1 .. Len(inbox) : Traceable(inbox[i])
  /\ \A c \in Client : pc[c] # "idle" => outcome[c] = "none"
  /\ AnswersOwnAttempt

\* What EveryCallEnds, below, rests on.  First, nobody waits for what cannot come: a client that waits
\* is in the line, once, and a lock that is taken is held by a client whose own timeouts release it.
Inside == {"tune", "send", "await"}
InLine(c) == \E i \in 1 .. Len(line) : line[i] = c
NobodyStranded ==
  /\ \A c \in Client : pc[c] = "waiting" <=> InLine(c)
  /\ \A i, j \in 1 .. Len(line) : line[i] = line[j] => i = j
  /\ lock # Nobody => pc[lock] \in Inside

\* Second, a call cannot go on forever, or transmit more than its attempts and bursts allow: each
\* step of it begins another of its attempts or brings it nearer to the end of one.
Remaining(c) ==
  CASE pc[c] = "send" -> 3 + call[c].burst - sent[c]
    [] pc[c] = "gap" -> 2
    [] pc[c] = "waiting" -> 1
    [] OTHER -> 0

Nearer(c) ==
  \/ attempt'[c] = attempt[c] + 1 /\ attempt'[c] <= call[c].attempts
  \/ attempt'[c] = attempt[c] /\ Remaining(c)' \in 0 .. Remaining(c) - 1

Counted(c) ==
  pc[c] # "idle" /\ pc'[c] # "idle" =>
    /\ call'[c] = call[c]
    /\ Nearer(c) \/ UNCHANGED <<pc[c], attempt[c], sent[c]>>

EveryStepCounts == [][\A c \in Client : Counted(c)]_vars

\* Why: a call stays within the attempts and frames it was asked for.
BudgetInv ==
  \A c \in Client :
    /\ attempt[c] <= call[c].attempts
    /\ pc[c] = "send" => sent[c] < call[c].burst
    /\ pc[c] \in {"waiting", "tune", "gap"} => attempt[c] < call[c].attempts
    /\ call[c].kind = "oneway" => call[c].burst = 1

\* Every call returns or raises: the lock is never left taken, whichever step failed, and
\* nobody starves in its queue.
EveryCallEnds == \A c \in Client : pc[c] # "idle" ~> pc[c] = "idle"

=============================================================================
