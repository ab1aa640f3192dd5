----------------------------- MODULE MCRfExchange -----------------------------
(* RfExchange on small instances.                                            *)
EXTENDS RfExchange, TLC

CONSTANTS connect, satellite

\* A poll that retries, and a consigne that sends each attempt as a burst.
MCShape == {[attempts |-> 2, burst |-> 1], [attempts |-> 1, burst |-> 2]}

\* The index arithmetic of RollingId is that of (request_id + 4) & 0xFF, whatever the
\* start value, and that of (seq + 1) & 0xFFFFFFFF at a width TLC can enumerate.
ASSUME \A r \in 0 .. 255 :
  LET next == (r + 4) % 256 IN
  /\ next % 4 = r % 4
  /\ next \div 4 = IF r \div 4 = 63 THEN 0 ELSE r \div 4 + 1
=============================================================================
