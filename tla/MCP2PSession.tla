---------------------------- MODULE MCP2PSession ----------------------------
(* A file of four units and a queue that pauses at two: two units are on   *)
(* their way or in the sender's hands when the PAUSE leaves.               *)
EXTENDS P2PSession

=============================================================================
