--------------------------- MODULE MCRelaySession ---------------------------
(* A download, whole, of a middle unit or resumed at the last one, and an upload, in one   *)
(* session of a browser that sends the whole file.                                         *)
EXTENDS RelaySession, TLC

CONSTANTS d1, s1, u1, g1

MCReceivers == {d1}
MCPosts == {s1}
MCUploads == {u1}
MCPulls == {g1}
MCRequests ==
    {[start |-> 0, limit |-> 0], [start |-> 1, limit |-> 1], [start |-> 2, limit |-> 1]}
=============================================================================
