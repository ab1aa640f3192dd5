------------------------------ MODULE MCTunedLink ------------------------------
(* TunedLink on a small instance: two clients, each with a network of its own. *)
EXTENDS TunedLink, TLC

CONSTANTS ffffffff, home, annex, connect, satellite

MCNetworkOf == connect :> home @@ satellite :> annex
=============================================================================
