----------------------------- MODULE PassiveMirror -----------------------------
(***************************************************************************)
(* What the bridge learns from a real Connect that reads the boiler's      *)
(* memory (emulation.py).  An answer does not say which address it is      *)
(* from, so PassiveMirror keeps the address of every read it overhears     *)
(* until the answer with the same request id.  The modem passes on only    *)
(* frames of the network its radio is tuned to, and of these may miss any. *)
(* How far back an overheard read lies is counted in reads, up to IdCount, *)
(* the number of request ids a Connect has.                                *)
(***************************************************************************)
EXTENDS RollingId

CONSTANTS
  Blocks,       \* the memory blocks Connect reads, such as sensors or clock
  Size,         \* the length of each block, the least its decoder takes
  Transmits,    \* the bridge transmits as some device of its own
  MaxResets,    \* bound: resets of the modem
  MaxRestarts,  \* bound: restarts of the bridge
  Nothing       \* no read, no value

ASSUME MirrorAssumption ==
  /\ Size \in [Blocks -> Nat]
  /\ Transmits \in BOOLEAN
  /\ MaxResets \in Nat /\ MaxRestarts \in Nat
  /\ Nothing \notin Blocks
  /\ Nothing \notin [id : Id, block : Blocks]
  /\ Nothing \notin [block : Blocks, age : 0 .. IdCount]

VARIABLES
  sync,      \* the radio's sync word: "boot" (ffffffff), or "site" (the boiler's network)
  lastId,    \* the request id of Connect's last read
  asked,     \* the read Connect waits for an answer to, or Nothing
  pending,   \* _pending_reads: by request id, a read overheard and reads since then
  mirrored,  \* for each block, the block its values in BoilerData really come from
  resets, restarts

vars == <<sync, lastId, asked, pending, mirrored, resets, restarts>>

Init ==
  /\ sync \in {"boot", "site"}      \* the modem may have served a run before
  /\ lastId \in Id
  /\ asked = Nothing
  /\ pending = [i \in Id |-> Nothing]
  /\ mirrored = [b \in Blocks |-> Nothing]
  /\ resets = 0 /\ restarts = 0

-----------------------------------------------------------------------------
\* A request of the bridge tunes the radio (set_network_id); nothing else does.
Tune ==
  /\ Transmits
  /\ sync' = "site"
  /\ UNCHANGED <<lastId, asked, pending, mirrored, resets, restarts>>

\* The modem resets: radioInit sets the sync word the radio starts with.
ModemReset ==
  /\ resets < MaxResets
  /\ resets' = resets + 1
  /\ sync' = "boot"
  /\ UNCHANGED <<lastId, asked, pending, mirrored, restarts>>

\* Mutant of Key: a read is paired with the next answer.
SingleKey(i) == 0

\* Where a read with request id i is kept.
Key(i) == i

\* The reads overheard, when Connect reads once more.
Older(p) == IF p = Nothing \/ p.age = IdCount THEN p ELSE [p EXCEPT !.age = @ + 1]
Aged == [i \in Id |-> Older(pending[i])]

\* Connect reads block b; the bridge hears the request, or does not.
Ask(b, hears) ==
  /\ asked = Nothing
  /\ hears => sync = "site"
  /\ lastId' = NextId(lastId)
  /\ asked' = [id |-> lastId', block |-> b]
  /\ pending' =
       IF hears THEN [Aged EXCEPT ![Key(lastId')] = [block |-> b, age |-> 0]] ELSE Aged
  /\ UNCHANGED <<sync, mirrored, resets, restarts>>

\* The read the mirror takes an answer with request id i to belong to, or Nothing.
Paired(i) == pending[Key(i)]

\* Mutant of Decodes: a payload of just the length needed is refused.
LongerDecodes(b, p) == p # Nothing /\ Size[b] > Size[p.block]

\* The decoder of the block asked for, as read p says, takes the payload, which is b's.
Decodes(b, p) == p # Nothing /\ Size[b] >= Size[p.block]

\* The boiler answers; the bridge hears the answer, or does not.
Answer(hears) ==
  /\ asked # Nothing
  /\ hears => sync = "site"
  /\ asked' = Nothing
  /\ IF hears
     THEN /\ pending' = [pending EXCEPT ![Key(asked.id)] = Nothing]
          /\ mirrored' =
               IF Decodes(asked.block, Paired(asked.id))
               THEN [mirrored EXCEPT ![Paired(asked.id).block] = asked.block]
               ELSE mirrored
     ELSE UNCHANGED <<pending, mirrored>>
  /\ UNCHANGED <<sync, lastId, resets, restarts>>

\* The boiler did not hear Connect, which gives up.
NoAnswer ==
  /\ asked # Nothing
  /\ asked' = Nothing
  /\ UNCHANGED <<sync, lastId, pending, mirrored, resets, restarts>>

\* The bridge restarts, and has heard nothing.
Restart ==
  /\ restarts < MaxRestarts
  /\ restarts' = restarts + 1
  /\ pending' = [i \in Id |-> Nothing]
  /\ mirrored' = [b \in Blocks |-> Nothing]
  /\ UNCHANGED <<sync, lastId, asked, resets>>

Next ==
  \/ Tune \/ ModemReset \/ NoAnswer \/ Restart
  \/ \E hears \in BOOLEAN : Answer(hears) \/ \E b \in Blocks : Ask(b, hears)

Spec == Init /\ [][Next]_vars

\* The answer to a read of b that was overheard itself is overheard too.
AnswersOverheard(b) ==
  /\ asked # Nothing
  /\ asked.block = b
  /\ Paired(asked.id) # Nothing
  /\ Paired(asked.id).age = 0
  /\ Answer(TRUE)

\* A bridge that transmits keeps doing so; Connect keeps reading every block and the boiler
\* keeps answering; the air does not lose one of the two frames of a block's reads forever.
FairSpec ==
  /\ Spec
  /\ WF_vars(Tune)
  /\ WF_vars(\E b \in Blocks, hears \in BOOLEAN : Ask(b, hears))
  /\ WF_vars(NoAnswer \/ \E hears \in BOOLEAN : Answer(hears))
  /\ \A b \in Blocks : SF_vars(Ask(b, TRUE)) /\ SF_vars(AnswersOverheard(b))

-----------------------------------------------------------------------------
(* Properties.                                                             *)

\* Type invariant.
TypeOK ==
  /\ sync \in {"boot", "site"}
  /\ lastId \in Id
  /\ asked \in [id : Id, block : Blocks] \cup {Nothing}
  /\ pending \in [Id -> [block : Blocks, age : 0 .. IdCount] \cup {Nothing}]
  /\ mirrored \in [Blocks -> Blocks \cup {Nothing}]
  /\ resets \in Nat /\ restarts \in Nat

\* The address of a read is remembered "so the boiler's response can be matched back to the
\* address that was asked" (emulation.py): no block has another one's bytes.
MirrorsTheAskedBlock == \A b \in Blocks : mirrored[b] \in {b, Nothing}

\* Where that fails: an answer is taken for another block's only when its own request was
\* missed, and so was the answer to a read with the same id, a whole cycle of ids before.
MisreadsOnlyAfterACycle ==
  [][\A b \in Blocks : mirrored'[b] # mirrored[b] /\ mirrored'[b] \notin {b, Nothing} =>
       Paired(asked.id) # Nothing /\ Paired(asked.id).age = IdCount]_vars

\* Why: a read overheard less than a cycle ago is kept under the id it had.
PendingInv ==
  /\ \A i \in Id : pending[i] # Nothing /\ pending[i].age < IdCount =>
       i = IdBefore(lastId, pending[i].age)
  /\ asked # Nothing => asked.id = lastId
  /\ asked # Nothing /\ pending[lastId] # Nothing /\ pending[lastId].age = 0 =>
       pending[lastId].block = asked.block

\* "Mirrors what it hears" (docs/CONFIG.md): every block Connect keeps reading is mirrored,
\* again and again, resets of the modem and restarts notwithstanding.
BlocksKeepComing == \A b \in Blocks : []<>(mirrored[b] = b)
=============================================================================
