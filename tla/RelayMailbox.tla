---------------------------- MODULE RelayMailbox ----------------------------
(***************************************************************************)
(* How a relay session hands commands to the sender: the long poll         *)
(* (handlePoll) selects among a WebRTC answer, an upload announcement, the *)
(* download token, the end of the session and the loss of its own client,  *)
(* while receivers call handleAnswer, handleUpload and handleDownload and  *)
(* the sweeper expires the session.                                        *)
(***************************************************************************)
EXTENDS RelayQueue

CONSTANTS Pollers   \* concurrent /relay/poll handlers of one session

VARIABLES
    answerReady,    \* Session.AnswerReady, a channel of capacity 1
    uploadReq,      \* Session.UploadReq, a channel of capacity 1
    registered,     \* Server.sessions still holds the session
    phase,          \* "live", "closing" after Close's first critical section,
                    \* "closed" once Close has also cleared the queue
    poll,           \* where each poll handler stands
    pollGone,       \* the poll's client has disconnected
    recv            \* where each receiver's handler stands

vars == <<pending, downloadNotify, answerReady, uploadReq, registered, phase,
          poll, pollGone, recv>>
sessionVars == <<registered, phase>>
pollVars == <<poll, pollGone>>

TypeOK ==
    /\ QueueTypeOK
    /\ answerReady \in Receivers \cup {None}
    /\ uploadReq \in Receivers \cup {None}
    /\ registered \in BOOLEAN
    /\ phase \in {"live", "closing", "closed"}
    /\ poll \in [Pollers -> {"idle", "found", "select", "woken"}]
    /\ pollGone \in [Pollers -> BOOLEAN]
    /\ recv \in [Receivers -> {"idle", "found", "announce", "panicked"}]

Init ==
    /\ QueueInit
    /\ answerReady = None
    /\ uploadReq = None
    /\ registered = TRUE
    /\ phase = "live"
    /\ poll = [p \in Pollers |-> "idle"]
    /\ pollGone = [p \in Pollers |-> FALSE]
    /\ recv = [r \in Receivers |-> "idle"]

-----------------------------------------------------------------------------
(* The receivers' handlers.                                                *)

\* getSessionFromQuery: the handler keeps the pointer, whatever happens to the
\* map afterwards.
FindSession(r) ==
    /\ recv[r] = "idle"
    /\ registered
    /\ recv' = [recv EXCEPT ![r] = "found"]
    /\ UNCHANGED <<queueVars, answerReady, uploadReq, sessionVars, pollVars>>

\* Faulty variant of RequestDownload: the handler ends in no known state.
RequestDownloadStays(r) ==
    /\ recv[r] = "found"
    /\ EnqueueDownload(r)
    /\ recv' = [recv EXCEPT ![r] = "queued"]
    /\ UNCHANGED <<answerReady, uploadReq, sessionVars, pollVars>>

\* handleDownload announces its request; it never looks at Session.closed.
RequestDownload(r) ==
    /\ recv[r] = "found"
    /\ EnqueueDownload(r)
    /\ recv' = [recv EXCEPT ![r] = "idle"]
    /\ UNCHANGED <<answerReady, uploadReq, sessionVars, pollVars>>

\* handleAnswer: a non-blocking send under the lock; "ok" in every case.
PostAnswer(r) ==
    /\ recv[r] = "found"
    /\ answerReady' = IF phase = "live" /\ answerReady = None
                      THEN r ELSE answerReady
    /\ recv' = [recv EXCEPT ![r] = "idle"]
    /\ UNCHANGED <<queueVars, uploadReq, sessionVars, pollVars>>

\* handleUpload reads Session.closed without the lock ...
CheckOpen(r) ==
    /\ recv[r] = "found"
    /\ recv' = [recv EXCEPT ![r] = IF phase = "live" THEN "announce" ELSE "idle"]
    /\ UNCHANGED <<queueVars, answerReady, uploadReq, sessionVars, pollVars>>

\* ... and then sends: on a channel that Close has closed meanwhile, the
\* runtime panics and the HTTP server drops the connection.
AnnounceUpload(r) ==
    /\ recv[r] = "announce"
    /\ IF phase = "live"
       THEN /\ uploadReq' = IF uploadReq = None THEN r ELSE uploadReq
            /\ recv' = [recv EXCEPT ![r] = "idle"]
       ELSE /\ recv' = [recv EXCEPT ![r] = "panicked"]
            /\ UNCHANGED uploadReq
    /\ UNCHANGED <<queueVars, answerReady, sessionVars, pollVars>>

-----------------------------------------------------------------------------
(* The long poll.                                                          *)

\* The handler answers its client, with the command it took, 404 or 410.
Respond(p) == poll' = [poll EXCEPT ![p] = "idle"]

StartPoll(p) ==
    /\ poll[p] = "idle"
    /\ poll' = [poll EXCEPT ![p] = IF registered THEN "found" ELSE "idle"]
    /\ pollGone' = [pollGone EXCEPT ![p] = FALSE]
    /\ UNCHANGED <<queueVars, answerReady, uploadReq, sessionVars, recv>>

\* DequeueDownload, tried once on entry and again after every wake-up.
TakeDownload(p) ==
    /\ poll[p] \in {"found", "woken"}
    /\ DequeueDownload
    /\ IF pending = None
       THEN poll' = [poll EXCEPT ![p] = "select"]
       ELSE Respond(p)
    /\ UNCHANGED <<answerReady, uploadReq, sessionVars, pollGone, recv>>

SelectAnswer(p) ==
    /\ poll[p] = "select"
    /\ answerReady # None
    /\ answerReady' = None
    /\ Respond(p)
    /\ UNCHANGED <<queueVars, uploadReq, sessionVars, pollGone, recv>>

SelectUpload(p) ==
    /\ poll[p] = "select"
    /\ uploadReq # None
    /\ uploadReq' = None
    /\ Respond(p)
    /\ UNCHANGED <<queueVars, answerReady, sessionVars, pollGone, recv>>

\* Faulty variant of SelectNotify: the wake-up is not followed by a dequeue.
SelectNotifyOnly(p) ==
    /\ poll[p] = "select"
    /\ downloadNotify
    /\ downloadNotify' = FALSE
    /\ UNCHANGED <<pending, answerReady, uploadReq, sessionVars, poll, pollGone, recv>>

SelectNotify(p) ==
    /\ poll[p] = "select"
    /\ downloadNotify
    /\ downloadNotify' = FALSE
    /\ poll' = [poll EXCEPT ![p] = "woken"]
    /\ UNCHANGED <<pending, answerReady, uploadReq, sessionVars, pollGone, recv>>

\* Faulty variant of SelectExpired: only a session still being closed answers.
SelectExpiredEarly(p) ==
    /\ poll[p] = "select"
    /\ phase = "closing"
    /\ Respond(p)
    /\ UNCHANGED <<queueVars, answerReady, uploadReq, sessionVars, pollGone, recv>>

\* ctx.Done(), or a receive from a channel that Close closed.
SelectExpired(p) ==
    /\ poll[p] = "select"
    /\ phase # "live"
    /\ Respond(p)
    /\ UNCHANGED <<queueVars, answerReady, uploadReq, sessionVars, pollGone, recv>>

SelectClientGone(p) ==
    /\ poll[p] = "select"
    /\ pollGone[p]
    /\ Respond(p)
    /\ UNCHANGED <<queueVars, answerReady, uploadReq, sessionVars, pollGone, recv>>

Select(p) ==
    \/ SelectAnswer(p)
    \/ SelectUpload(p)
    \/ SelectNotify(p)
    \/ SelectExpired(p)
    \/ SelectClientGone(p)

\* The network loses the client of a poll in progress.
LosePoller(p) ==
    /\ poll[p] # "idle"
    /\ ~pollGone[p]
    /\ pollGone' = [pollGone EXCEPT ![p] = TRUE]
    /\ UNCHANGED <<queueVars, answerReady, uploadReq, sessionVars, poll, recv>>

-----------------------------------------------------------------------------
(* Expiry.                                                                 *)

\* SweepExpiredSessions removes the session from the map first ...
Sweep ==
    /\ registered
    /\ registered' = FALSE
    /\ UNCHANGED <<queueVars, answerReady, uploadReq, phase, pollVars, recv>>

\* ... then Close marks it closed, cancels its context and closes its channels
\* in one critical section ...
CloseSession ==
    /\ ~registered
    /\ phase = "live"
    /\ phase' = "closing"
    /\ UNCHANGED <<queueVars, answerReady, uploadReq, registered, pollVars, recv>>

\* ... and clears the queue in another.
CloseClearsQueue ==
    /\ phase = "closing"
    /\ phase' = "closed"
    /\ ClearDownloadQueue
    /\ UNCHANGED <<answerReady, uploadReq, registered, pollVars, recv>>

-----------------------------------------------------------------------------
ReceiverStep(r) ==
    \/ RequestDownload(r)
    \/ PostAnswer(r)
    \/ CheckOpen(r)
    \/ AnnounceUpload(r)

PollStep(p) == StartPoll(p) \/ TakeDownload(p) \/ Select(p)

Next ==
    \/ \E r \in Receivers : FindSession(r) \/ ReceiverStep(r)
    \/ \E p \in Pollers : PollStep(p) \/ LosePoller(p)
    \/ Sweep
    \/ CloseSession
    \/ CloseClearsQueue

Spec == Init /\ [][Next]_vars

\* The sender polls for ever (cmd/beam/main.go, the relay goroutine retries
\* after every error) and a goroutine that can run does; an expired session is
\* closed by the same sweep.  Receivers and the network owe nothing.
Fairness ==
    /\ \A p \in Pollers : WF_vars(PollStep(p))
    /\ \A r \in Receivers : WF_vars(ReceiverStep(r))
    /\ WF_vars(CloseSession)
    /\ WF_vars(CloseClearsQueue)

FairSpec == Spec /\ Fairness

-----------------------------------------------------------------------------
(* Properties.                                                             *)

\* No lost wake-up: a request that waits in the slot of a live session either
\* has its token in the channel or belongs to a poll that took the token and
\* is about to dequeue (EnqueueDownload, DequeueDownload and the select race).
NoLostWakeup ==
    pending # None => \/ downloadNotify
                      \/ \E p \in Pollers : poll[p] = "woken"

\* A download request is taken (or replaced, or cleared with the session),
\* whatever answers, uploads and disconnections compete for the poll.
RequestTaken ==
    \A r \in Receivers : (pending = r /\ registered) ~> (pending # r \/ ~registered)

\* Expiry releases every long poll, also one that found the session after the
\* sweep had begun (the ctxDone arm of the select in handlePoll).
ExpiryEndsPolls ==
    \A p \in Pollers : (phase = "closed" /\ poll[p] = "select") ~> (poll[p] = "idle")

=============================================================================
