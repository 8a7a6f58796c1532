----------------------------- MODULE RelayQueue -----------------------------
(***************************************************************************)
(* The download mailbox of a relay session (internal/relay/server.go): a   *)
(* single slot that keeps the latest download request, and a channel of    *)
(* capacity one that wakes a blocked long poll.  Every method below runs   *)
(* under Session.mu, so each is one step.                                  *)
(***************************************************************************)

CONSTANTS
    Receivers,      \* download handlers; a request is named by its handler
    None            \* a nil pointer, an empty channel

ASSUME NoneIsNoReceiver == None \notin Receivers

VARIABLES
    pending,        \* Session.pendingDownload
    downloadNotify  \* TRUE when Session.downloadNotify holds its token

queueVars == <<pending, downloadNotify>>

QueueTypeOK ==
    /\ pending \in Receivers \cup {None}
    /\ downloadNotify \in BOOLEAN

QueueInit ==
    /\ pending = None
    /\ downloadNotify = FALSE

\* Faulty variant of EnqueueDownload: nobody is woken.
EnqueueSilently(r) ==
    /\ pending' = r
    /\ UNCHANGED downloadNotify

\* The new request replaces the one nobody took; a token already there stays.
EnqueueDownload(r) ==
    /\ pending' = r
    /\ downloadNotify' = TRUE

\* The caller takes `pending` in the same step.
DequeueDownload ==
    /\ pending' = None
    /\ downloadNotify' = IF pending = None THEN downloadNotify ELSE FALSE

ClearDownloadQueue ==
    /\ pending' = None
    /\ downloadNotify' = FALSE

=============================================================================
