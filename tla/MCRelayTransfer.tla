--------------------------- MODULE MCRelayTransfer --------------------------
(* Whole-file downloads, and downloads resumed at unit 1 (bytes=1-).       *)
EXTENDS RelayTransfer, TLC

CONSTANTS d1, d2, s1, s2, u1

MCOne == {d1}
MCTwo == {d1, d2}
MCOnePost == {s1}
MCUploads == {u1}
MCPosts == {s1, s2}
MCSymmetry == Permutations(MCTwo) \cup Permutations(MCPosts)
MCWhole == {[start |-> 0, limit |-> 0]}
MCRequests == {[start |-> 0, limit |-> 0], [start |-> 1, limit |-> Size - 1]}

=============================================================================
