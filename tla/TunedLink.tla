------------------------------ MODULE TunedLink -------------------------------
(***************************************************************************)
(* The clients of connect/client.py on the link of ModemLink: a call takes *)
(* the request lock, tunes the modem to its own network once, and sends    *)
(* its frames, while commands time out, take effect late, and the modem    *)
(* resets under it.  Each step is a step of ModemLink, or of the client    *)
(* alone; of a call only its commands are modelled, the rest of it being   *)
(* RfExchange.  One life of the service, from transport.listen() on.       *)
(***************************************************************************)
EXTENDS ModemLink

CONSTANTS
  Client,      \* the FrisquetClients, one per role
  Nobody,      \* the holder of a free lock
  NetworkOf    \* the network each was paired with

ASSUME TunedAssumption ==
  /\ Nobody \notin Client
  /\ NetworkOf \in [Client -> Network]

VARIABLES
  user,     \* the client that holds the request lock
  stage,    \* what it, or the service at its start, is doing
  \* History: never read by a guard of the code
  epoch,    \* modem resets by the time the call in progress began to tune
  sender    \* who issued each command, and in which epoch of its call

callers == <<user, stage, epoch, sender>>
tunedVars == <<vars, callers>>

Stage == {"starting", "listening", "free", "tuning", "ready", "sending", "stopped"}

TunedInit ==
  /\ Init
  /\ user = Nobody
  /\ stage = "starting"
  /\ epoch = 0
  /\ sender = <<>>

-----------------------------------------------------------------------------

\* A call issues a command, the n-th of all.
IssueFor(c, when, command_) ==
  /\ Issue(command_)
  /\ epoch' = when
  /\ sender' = Append(sender, [client |-> c, epoch |-> when])

\* The service opens the transport and puts the modem in reception before any client runs.
Listen ==
  /\ stage = "starting"
  /\ IssueFor(Nobody, epoch, ModeChange("Listen"))
  /\ stage' = "listening"
  /\ user' = user

\* A client gets the lock, and set_network_id issues its command: nothing is awaited between, as
\* no other command can be in flight.
Tune(c) ==
  /\ stage = "free"
  /\ user' = c
  /\ IssueFor(c, resets, Nid(NetworkOf[c]))
  /\ stage' = "tuning"

\* A frame: the first of an attempt, another of its burst, or of a further attempt (send_oneway
\* sends just one).  The network is not set again.
Send ==
  /\ stage = "ready"
  /\ IssueFor(user, epoch, Tx)
  /\ stage' = "sending"
  /\ user' = user

\* The call ended, or send_oneway lets go of the lock between two of its frames.
Leave ==
  /\ stage = "ready"
  /\ stage' = "free"
  /\ user' = Nobody
  /\ UNCHANGED <<vars, epoch, sender>>

\* The command raised nothing.
Succeeds ==
  /\ verdict = "ok" /\ Return
  /\ stage' = IF stage = "listening" THEN "free" ELSE "ready"
  /\ UNCHANGED <<user, epoch, sender>>

\* The client's command raised SerialException, or one whose TransportError ends the call.
Gone ==
  /\ stage' = IF stage = "listening" THEN "stopped" ELSE "free"
  /\ user' = Nobody

RaisesTransportError ==
  \/ verdict = "error" /\ Return
  \/ TimeOut

\* Mutant of Fails: a call goes on untuned.
UndauntedFails ==
  /\ RaisesTransportError
  /\ \/ stage \in {"sending", "tuning"} /\ stage' = "ready" /\ user' = user
     \/ stage = "listening" /\ Gone
  /\ UNCHANGED <<epoch, sender>>

\* The command raised TransportError: a frame is one of the attempts, which may be followed by
\* others, while untuned the call is over, and a service that cannot listen stops.
Fails ==
  /\ RaisesTransportError
  /\ \/ stage = "sending" /\ stage' = "ready" /\ user' = user
     \/ stage \in {"tuning", "listening"} /\ Gone
  /\ UNCHANGED <<epoch, sender>>

\* The serial port raised: no call handles that.
PortFails == WriteFails /\ Gone /\ UNCHANGED <<epoch, sender>>

\* The steps between the calls': the wire, the reader thread, the executor and the modem.
LinkStep ==
  /\ Write \/ Written \/ HandleReply \/ HandleGarbage \/ ReaderFails \/ Dispatch \/ Reject \/ Reset
  /\ UNCHANGED callers

TunedNext ==
  \/ Listen
  \/ \E c \in Client : Tune(c)
  \/ Send \/ Leave
  \/ Succeeds \/ Fails \/ PortFails
  \/ LinkStep

TunedSpec == TunedInit /\ [][TunedNext]_tunedVars

-----------------------------------------------------------------------------
(* Properties.                                                             *)

\* The type invariant: a command is in flight exactly while its caller waits for it.
TunedTypeOK ==
  /\ user \in Client \cup {Nobody}
  /\ stage \in Stage
  /\ epoch \in 0 .. resets
  /\ sender \in Seq([client : Client \cup {Nobody}, epoch : Nat])
  /\ Len(sender) = issued
  /\ pc # "idle" <=> stage \in {"listening", "tuning", "sending"}
  /\ user # Nobody <=> stage \in {"tuning", "ready", "sending"}

OnItsNetwork(l) ==
  LET by == sender[l.tag] IN
  l.command = Tx /\ by.epoch = resets => radio["sync"] = NetworkOf[by.client]

\* The modem transmits a frame on the network of the client that sent it, however late after its
\* command timed out and whoever has tuned the modem since; and a call that awaits an answer, or
\* is about to send a frame, has the modem listening there.  The exception is a modem reset since
\* that call tuned: the rest of a call that a reset interrupts is all that goes astray.
ExchangeOnItsNetwork ==
  /\ toModem # <<>> => OnItsNetwork(Head(toModem))
  /\ stage = "ready" =>
       /\ radio["mode"] = "Listen"
       /\ epoch = resets => radio["sync"] = NetworkOf[user]

\* Clients "don't transmit over each other" (client.py), on the air as well: a frame of an earlier
\* call, given up but still to be carried out, never goes out inside another's exchange.  The lock
\* alone does not give that, as it is let go when the command times out.
NobodyElseTransmits ==
  stage \in {"ready", "sending"} =>
    \A i \in 1 .. Len(toModem) : sender[toModem[i].tag].client = user

\* Why: the call that has tuned the modem is the last that asked for a network, and no command
\* that could still change it is ahead of a frame.
CallInv ==
  /\ stage = "listening" => command = ModeChange("Listen")
  /\ stage = "tuning" =>
       command = Nid(NetworkOf[user]) /\ (epoch = resets => steady)
  /\ stage = "sending" =>
       command = Tx /\ sender[issued] = [client |-> user, epoch |-> epoch]
  /\ stage \in {"ready", "sending"} /\ epoch = resets => asked["sync"] = NetworkOf[user]

FramesInv ==
  \A i \in 1 .. Len(toModem) :
    toModem[i].command = Tx /\ sender[toModem[i].tag].epoch = resets =>
      /\ OnItsNetwork(toModem[i])
      /\ \A j \in 1 .. i : toModem[j].command.sets["sync"] = Nothing

\* No command ever asks for anything but reception.
ModeInv ==
  /\ radio["mode"] = "Listen"
  /\ command.sets["mode"] \in {"Listen", Nothing}
  /\ \A i \in 1 .. Len(toModem) : toModem[i].command.sets["mode"] \in {"Listen", Nothing}

TunedInv == CallInv /\ FramesInv /\ ModeInv /\ NobodyElseTransmits
=============================================================================
