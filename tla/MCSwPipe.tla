------------------------------ MODULE MCSwPipe ------------------------------
\* Two units, so that a download can be cut before, between and behind them; two
\* requests, so that the second can come before and after the end of the pipe.
EXTENDS SwPipe
=============================================================================
