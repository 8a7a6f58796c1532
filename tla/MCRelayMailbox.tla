--------------------------- MODULE MCRelayMailbox ---------------------------
(* Two polls and two receivers of one session.                             *)
EXTENDS RelayMailbox, TLC

CONSTANTS p1, p2, r1, r2

MCPollers == {p1, p2}
MCReceivers == {r1, r2}

=============================================================================
