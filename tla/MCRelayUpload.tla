---------------------------- MODULE MCRelayUpload ---------------------------
(* Two uploads and two pulls in one session, two units in each file, and a *)
(* download that uses the other slot.                                      *)
EXTENDS RelayUpload, TLC

CONSTANTS d1, u1, u2, g1, g2

MCDownloads == {d1}
MCUploads == {u1, u2}
MCPulls == {g1, g2}

=============================================================================
