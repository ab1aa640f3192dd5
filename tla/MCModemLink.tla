------------------------------ MODULE MCModemLink ------------------------------
(* ModemLink on a small instance: the boot sync word and one network.        *)
EXTENDS ModemLink, TLC

CONSTANTS ffffffff, home
=============================================================================
