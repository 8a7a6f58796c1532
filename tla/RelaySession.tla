---------------------------- MODULE RelaySession ----------------------------
(***************************************************************************)
(* A relay session with both of its paths (internal/relay/server.go and    *)
(* the relay loop of cmd/beam/main.go): the download path of RelayTransfer *)
(* and the upload path of RelayUpload on one pair of pipe slots, closed by *)
(* one Session.Close and served by one sender, which is busy with one      *)
(* command at a time.  Each path was specified with what it expects of the *)
(* other as steps of its environment; here the other is really there.      *)
(***************************************************************************)
EXTENDS RelayTransfer

CONSTANTS
    Pulls,          \* /relay/pull handlers, as in RelayUpload
    Length          \* units in every uploaded file

ASSUME UploadAssumption ==
    /\ Length \in Nat \ {0}
    /\ Pulls \cap {"polling", "command", "stopped"} = {}

VARIABLES
    uploadReq, upload, uploadGone, sent, pull, pullPipe, name, got, lost, saved,
                    \* see RelayUpload
    puller          \* the sender where it serves an upload: RelayUpload's sender

uploadPathVars == <<uploadReq, upload, uploadGone, sent, pull, pullPipe,
                    puller, name, got, lost, saved>>
sessionVarsAll == <<vars, uploadPathVars>>

\* handleUpload and handlePull see of the session that it was closed, not that its queue
\* has yet to be cleared.
UploadPhase == IF phase = "live" THEN "live" ELSE "closed"

Up == INSTANCE RelayUpload
        WITH DataPipes <- Receivers, UploadPipes <- Uploads, NoPipe <- None,
             phase <- UploadPhase, sender <- puller

SessionInit == Init /\ Up!Init

\* The sender's loop is between two commands; a browser takes one only, of either kind.
SenderIdle ==
    /\ sender = "polling" /\ puller = "polling"
    /\ SenderSeeks \/ name = None

DownloadPathStep ==
    /\ \/ \E d \in Receivers : DownloadStep(d) \/ WatchDownload(d) \/ LoseReceiver(d)
       \/ SenderIdle /\ TakeCommand
       \/ \E s \in Posts :
             SendPost(s) \/ PostStep(s) \/ WatchPost(s) \/ WatchPostFires(s) \/ LosePost(s)
    /\ UNCHANGED uploadPathVars

UploadPathStep ==
    /\ UNCHANGED <<queueVars, offsetVars, sessionVars, downloadVars, senderVars, postVars>>
    /\ \/ \E u \in Uploads : Up!UploadStep(u) \/ Up!WatchUpload(u) \/ Up!LoseUploader(u)
       \/ SenderIdle /\ Up!TakeUpload
       \/ \E g \in Pulls : Up!SendPull(g) \/ Up!PullStep(g) \/ Up!LosePull(g)

\* SweepExpiredSessions and Session.Close, once for both paths.
Expiry == (Sweep \/ CloseSession \/ CloseClearsQueue) /\ UNCHANGED uploadPathVars

SessionNext == DownloadPathStep \/ UploadPathStep \/ Expiry

SessionSpec == SessionInit /\ [][SessionNext]_sessionVarsAll

-----------------------------------------------------------------------------
(* Properties. *)

\* Each path runs in the other's company as it was specified: a step of one is to the other
\* a step of its environment, and touches nothing but the shared slots (Session.mu guards
\* DataPipeR/W and UploadPipeR/W together).
PathsCompose == Spec /\ Up!Spec
=============================================================================
