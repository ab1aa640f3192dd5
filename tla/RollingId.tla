------------------------------ MODULE RollingId ------------------------------
(***************************************************************************)
(* Identifiers drawn from a counter of fixed width: the request ids of     *)
(* ProtocolState.next_request_id (a byte stepped by 4, so 64 ids) and the  *)
(* modem command sequence numbers of SerialTransport._command (32 bits).   *)
(* An id is an index 0..IdCount-1; request id r of the code is the index   *)
(* r \div 4 (the step keeps r % 4, so the low two bits never tell two      *)
(* requests of one role apart).                                            *)
(***************************************************************************)
EXTENDS Integers

CONSTANT IdCount    \* how many different ids the counter has

ASSUME IdCountAssumption == IdCount \in Nat \ {0}

Id == 0 .. IdCount - 1

\* Mutants of NextId: a counter that sticks at its last value, one that never wraps.
StickingNextId(i) == IF i = IdCount - 1 THEN i ELSE i + 1
UnwrappedNextId(i) == i + 1

\* The id drawn after i.
NextId(i) == IF i = IdCount - 1 THEN 0 ELSE i + 1

\* The id that had been drawn n draws before i, for n < IdCount.
IdBefore(i, n) == IF n <= i THEN i - n ELSE i - n + IdCount
=============================================================================
