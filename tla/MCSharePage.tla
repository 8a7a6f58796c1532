---------------------------- MODULE MCSharePage ----------------------------
EXTENDS SharePage
=============================================================================
