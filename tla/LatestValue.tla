------------------------------ MODULE LatestValue ------------------------------
(***************************************************************************)
(* What a sender of values that supersede each other promises: the         *)
(* receiver may miss values, but never goes back to an older one, and as   *)
(* long as it lags behind it eventually gets a newer one.                  *)
(***************************************************************************)
EXTENDS Integers

VARIABLES
  wanted,   \* the version the receiver should have
  got       \* the version it has

vars == <<wanted, got>>

Init == wanted \in Nat /\ got \in 0 .. wanted

\* A newer value.
Want ==
  /\ wanted' \in Nat /\ wanted' > wanted
  /\ got' = got

\* Nothing more is owed to the receiver.
Withdraw ==
  /\ wanted' = got
  /\ got' = got

Deliver ==
  /\ got < wanted
  /\ got' \in got + 1 .. wanted
  /\ wanted' = wanted

Next == Want \/ Withdraw \/ Deliver

Spec == Init /\ [][Next]_vars

FairSpec == Spec /\ WF_vars(Deliver)
=============================================================================
