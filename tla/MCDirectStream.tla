---------------------------- MODULE MCDirectStream --------------------------
(* Two workers on one channel, so that one restart races its predecessor.  *)
EXTENDS DirectStream

=============================================================================
