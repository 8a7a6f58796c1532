---------------------------- MODULE RelayTransfer ---------------------------
(***************************************************************************)
(* The download path of the relay (internal/relay/server.go): receivers    *)
(* GET /api/download, the sender (cmd/beam/main.go) polls for a command    *)
(* and POSTs the file to /relay/data, and an io.Pipe of the session joins  *)
(* the two handlers.  The file is the sequence of units 0 .. Size-1; a     *)
(* Read or a Write moves one unit.  A handler's steps are cut wherever it  *)
(* releases Session.mu or blocks, so every race on the session is here.    *)
(***************************************************************************)
EXTENDS RelayQueue, Integers, Sequences

CONSTANTS
    Posts,          \* /relay/data handlers: one for each POST, a bound
    Uploads,        \* upload handlers that share the session's slots (RelayUpload)
    Size,           \* units in the shared file
    LossySender,    \* whether the sender's connections may break
    SenderSeeks,    \* TRUE for the CLI, which starts at the offset it is told;
                    \* FALSE for a browser, which always sends the whole file
    Requests        \* what a receiver may ask: [start, limit], limit 0 for none

ASSUME SlotsAssumption == None \notin Uploads /\ Receivers \cap Uploads = {}
ASSUME PostsAssumption == Posts \cap {"polling", "command", "stopped"} = {}
ASSUME SizeAssumption == Size \in Nat \ {0}
ASSUME UnitsAssumption == None \notin 0..Size-1
ASSUME RequestsAssumption == Requests \subseteq [start : 0..Size-1, limit : 0..Size]

VARIABLES
    dataPipe, uploadPipe, pipe,         \* see RelayPipes
    requestedOffset, senderOffset,      \* Session.RequestedOffset, SenderOffset
    registered,     \* Server.sessions still holds the session
    phase,          \* as in RelayMailbox
    req,            \* the range each download asks for
    recv,           \* where each download handler stands
    recvGone,       \* its client has disconnected
    initDone, bytesToSkip,              \* its seekingReader
    hand,           \* the unit its first Read returned, None for an error
    out,            \* the units written to its client
    sender,         \* the sender: "polling", "command", the POST it waits for,
                    \* or "stopped": a browser serves one command only
    command,        \* the download whose command the sender took last
    post,           \* where each data handler stands
    postGone,       \* its connection is lost
    watch,          \* the goroutine that watches its contexts
    postPipe,       \* the pipe it captured
    postPos         \* the next unit of its body

downloadVars == <<req, recv, recvGone, initDone, bytesToSkip, hand, out>>
postVars == <<post, postGone, watch, postPipe, postPos>>
senderVars == <<sender, command>>
offsetVars == <<requestedOffset, senderOffset>>
sessionVars == <<registered, phase>>
slotVars == <<dataPipe, uploadPipe, pipe>>
vars == <<queueVars, slotVars, offsetVars, sessionVars, downloadVars, senderVars,
          postVars>>

Slots == INSTANCE RelayPipes
            WITH DataPipes <- Receivers, UploadPipes <- Uploads, NoPipe <- None

Streaming == {"top", "first", "reread", "reading"}

TypeOK ==
    /\ QueueTypeOK
    /\ Slots!PipesTypeOK
    /\ requestedOffset \in 0..Size-1
    /\ senderOffset \in 0..Size-1
    /\ registered \in BOOLEAN
    /\ phase \in {"live", "closing", "closed"}
    /\ req \in [Receivers -> Requests]
    /\ recv \in [Receivers -> {"found", "queued", "done"} \cup Streaming]
    /\ recvGone \in [Receivers -> BOOLEAN]
    /\ initDone \in [Receivers -> BOOLEAN]
    /\ bytesToSkip \in [Receivers -> 0..Size-1]
    /\ hand \in [Receivers -> 0..Size-1 \cup {None}]
    /\ out \in [Receivers -> Seq(0..Size-1)]
    /\ sender \in {"polling", "command", "stopped"} \cup Posts
    /\ command \in Receivers \cup {None}
    /\ post \in [Posts -> {"idle", "found", "copying", "notReady", "refused", "done"}]
    /\ postGone \in [Posts -> BOOLEAN]
    /\ watch \in [Posts -> {"armed", "firing", "fired"}]
    /\ postPipe \in [Posts -> Receivers \cup {None}]
    /\ postPos \in [Posts -> 0..Size]

Init ==
    /\ QueueInit
    /\ Slots!PipesInit
    /\ requestedOffset = 0
    /\ senderOffset = 0
    /\ registered = TRUE
    /\ phase = "live"
    /\ req \in [Receivers -> Requests]
    /\ recv = [d \in Receivers |-> "found"]
    /\ recvGone = [d \in Receivers |-> FALSE]
    /\ initDone = [d \in Receivers |-> FALSE]
    /\ bytesToSkip = [d \in Receivers |-> 0]
    /\ hand = [d \in Receivers |-> None]
    /\ out = [d \in Receivers |-> <<>>]
    /\ sender = "polling"
    /\ command = None
    /\ post = [s \in Posts |-> "idle"]
    /\ postGone = [s \in Posts |-> FALSE]
    /\ watch = [s \in Posts |-> "armed"]
    /\ postPipe = [s \in Posts |-> None]
    /\ postPos = [s \in Posts |-> 0]

-----------------------------------------------------------------------------
(* handleDownload, from the moment it holds the pointer to the session: the *)
(* lookup leaves no trace in the session, which may be swept meanwhile.     *)

At(d, label) == recv' = [recv EXCEPT ![d] = label]

\* The request is visible to the sender before there is a pipe to serve it.
Enqueue(d) ==
    /\ recv[d] = "found"
    /\ EnqueueDownload(d)
    /\ At(d, "queued")
    /\ UNCHANGED <<slotVars, offsetVars, sessionVars, senderVars, postVars,
                   req, recvGone, initDone, bytesToSkip, hand, out>>

Install(d) ==
    /\ recv[d] = "queued"
    /\ Slots!InstallDataPipe(d)
    /\ requestedOffset' = req[d].start
    /\ senderOffset' = 0
    /\ At(d, "top")
    /\ UNCHANGED <<queueVars, sessionVars, senderVars, postVars,
                   req, recvGone, initDone, bytesToSkip, hand, out>>

\* Faulty variant of Finish: the deferred ClosePipesIfMatch is missing.
FinishWithoutClosing(d) ==
    /\ At(d, "done")
    /\ UNCHANGED slotVars

\* The handler returns; its deferred ClosePipesIfMatch runs on the way out.
Finish(d) ==
    /\ At(d, "done")
    /\ Slots!ClosePipesIfMatch(d)

LimitReached(d) == req[d].limit > 0 /\ Len(out[d]) = req[d].limit

\* One turn of the loop up to the point where pr.Read blocks: the LimitReader,
\* the two contexts, then the offsets of the session if none were read yet.
NextRead(d) ==
    /\ recv[d] = "top"
    /\ IF \/ LimitReached(d)
          \/ recvGone[d]
          \/ phase # "live"
          \/ ~initDone[d] /\ requestedOffset < senderOffset
       THEN Finish(d)
       ELSE At(d, IF initDone[d] THEN "reading" ELSE "first") /\ UNCHANGED slotVars
    /\ UNCHANGED <<queueVars, offsetVars, sessionVars, senderVars, postVars,
                   req, recvGone, initDone, bytesToSkip, hand, out>>

\* pr.Read fails: the writer closed (EOF), or somebody closed the pipe.  The
\* first Read keeps the error in hand while the offsets are read again.
ReadEnds(d) ==
    /\ pipe[d] # "open"
    /\ \/ /\ recv[d] = "first"
          /\ At(d, "reread")
          /\ hand' = [hand EXCEPT ![d] = None]
          /\ UNCHANGED slotVars
       \/ /\ recv[d] = "reading"
          /\ Finish(d)
          /\ UNCHANGED hand
    /\ UNCHANGED <<queueVars, offsetVars, sessionVars, senderVars, postVars,
                   req, recvGone, initDone, bytesToSkip, out>>

\* w.Write: it can fail only once the client is gone.
Deliver(d, unit) ==
    \/ /\ out' = [out EXCEPT ![d] = Append(@, unit)]
       /\ At(d, "top")
       /\ UNCHANGED slotVars
    \/ /\ recvGone[d]
       /\ Finish(d)
       /\ UNCHANGED out

\* Faulty variant of Reread: the negative skip goes unnoticed.
RereadUnchecked(d) ==
    /\ recv[d] = "reread"
    /\ initDone' = [initDone EXCEPT ![d] = TRUE]
    /\ hand' = [hand EXCEPT ![d] = None]
    /\ IF hand[d] = None
       THEN Finish(d) /\ UNCHANGED <<bytesToSkip, out>>
       ELSE /\ bytesToSkip' = [bytesToSkip EXCEPT ![d] = requestedOffset - senderOffset - 1]
            /\ At(d, "top")
            /\ UNCHANGED <<slotVars, out>>
    /\ UNCHANGED <<queueVars, offsetVars, sessionVars, senderVars, postVars, req, recvGone>>

\* Faulty variant of Reread: the unit in hand is not counted as skipped.
RereadOffByOne(d) ==
    LET skip == requestedOffset - senderOffset
    IN  /\ recv[d] = "reread"
        /\ initDone' = [initDone EXCEPT ![d] = TRUE]
        /\ hand' = [hand EXCEPT ![d] = None]
        /\ IF skip < 0 \/ hand[d] = None
           THEN Finish(d) /\ UNCHANGED <<bytesToSkip, out>>
           ELSE IF skip > 0
           THEN /\ bytesToSkip' = [bytesToSkip EXCEPT ![d] = skip]
                /\ At(d, "top")
                /\ UNCHANGED <<slotVars, out>>
           ELSE Deliver(d, hand[d]) /\ UNCHANGED bytesToSkip
        /\ UNCHANGED <<queueVars, offsetVars, sessionVars, senderVars, postVars,
                       req, recvGone>>

\* After the first Read the reader takes the offsets from the session AGAIN,
\* and decides with these what to do with the unit it holds.
Reread(d) ==
    LET skip == requestedOffset - senderOffset
    IN  /\ recv[d] = "reread"
        /\ initDone' = [initDone EXCEPT ![d] = TRUE]
        /\ hand' = [hand EXCEPT ![d] = None]
        /\ IF skip < 0 \/ hand[d] = None
           THEN Finish(d) /\ UNCHANGED <<bytesToSkip, out>>
           ELSE IF skip > 0
           THEN /\ bytesToSkip' = [bytesToSkip EXCEPT ![d] = skip - 1]
                /\ At(d, "top")
                /\ UNCHANGED <<slotVars, out>>
           ELSE Deliver(d, hand[d]) /\ UNCHANGED bytesToSkip
        /\ UNCHANGED <<queueVars, offsetVars, sessionVars, senderVars, postVars,
                       req, recvGone>>

\* Faulty variant of WatchDownload: the client's context is not watched.
WatchSessionOnly(d) ==
    /\ recv[d] \in Streaming
    /\ phase # "live"
    /\ pipe[d] # "broken"
    /\ Slots!ClosePipesIfMatch(d)
    /\ UNCHANGED <<queueVars, offsetVars, sessionVars, downloadVars, senderVars, postVars>>

\* The watcher goroutine of the download: its client left or the session ended.
WatchDownload(d) ==
    /\ recv[d] \in Streaming
    /\ recvGone[d] \/ phase # "live"
    /\ pipe[d] # "broken"
    /\ Slots!ClosePipesIfMatch(d)
    /\ UNCHANGED <<queueVars, offsetVars, sessionVars, downloadVars, senderVars, postVars>>

LoseReceiver(d) ==
    /\ recv[d] \in Streaming
    /\ ~recvGone[d]
    /\ recvGone' = [recvGone EXCEPT ![d] = TRUE]
    /\ UNCHANGED <<queueVars, slotVars, offsetVars, sessionVars, senderVars, postVars,
                   req, recv, initDone, bytesToSkip, hand, out>>

-----------------------------------------------------------------------------
(* The sender's loop and handleData.                                       *)

\* A poll answered with "download" (RelayMailbox shows how).
TakeCommand ==
    /\ sender = "polling"
    /\ pending # None
    /\ command' = pending
    /\ sender' = "command"
    /\ DequeueDownload
    /\ UNCHANGED <<slotVars, offsetVars, sessionVars, downloadVars, postVars>>

\* Where the sender goes when a command is over, whatever became of it.
Idle == IF SenderSeeks THEN "polling" ELSE "stopped"

\* UploadDataAtOffset, or streamFileToHTTP of app.js, opens the POST; the handler looks the session up.
SendPost(s) ==
    /\ sender = "command"
    /\ post[s] = "idle"
    /\ IF registered
       THEN /\ post' = [post EXCEPT ![s] = "found"]
            /\ sender' = s
       ELSE /\ post' = [post EXCEPT ![s] = "done"]
            /\ sender' = Idle
    /\ postPos' = [postPos EXCEPT ![s] = IF SenderSeeks THEN req[command].start ELSE 0]
    /\ UNCHANGED <<queueVars, slotVars, offsetVars, sessionVars, downloadVars, command,
                   postGone, watch, postPipe>>

\* The handler returns and its locals are gone; the response reaches a sender
\* that still waits for it.
Return(s, label) ==
    /\ post' = [post EXCEPT ![s] = label]
    /\ postGone' = [postGone EXCEPT ![s] = FALSE]
    /\ postPipe' = [postPipe EXCEPT ![s] = None]
    /\ postPos' = [postPos EXCEPT ![s] = 0]
    /\ sender' = IF sender = s THEN Idle ELSE sender

\* Faulty variant of BindPipe: Session.SenderOffset is not recorded.
BindPipeForgetsOffset(s) ==
    /\ post[s] = "found"
    /\ IF dataPipe = None
       THEN Return(s, "notReady")
       ELSE /\ post' = [post EXCEPT ![s] = IF postPos[s] > requestedOffset
                                           THEN "refused" ELSE "copying"]
            /\ postPipe' = [postPipe EXCEPT ![s] = dataPipe]
            /\ UNCHANGED <<sender, postGone, postPos>>
    /\ UNCHANGED <<queueVars, slotVars, offsetVars, sessionVars, downloadVars,
                   command, watch>>

\* The critical section of handleData; 404 when no pipe is installed.
BindPipe(s) ==
    /\ post[s] = "found"
    /\ senderOffset' = postPos[s]
    /\ IF dataPipe = None
       THEN Return(s, "notReady")
       ELSE /\ post' = [post EXCEPT ![s] = IF postPos[s] > requestedOffset
                                           THEN "refused" ELSE "copying"]
            /\ postPipe' = [postPipe EXCEPT ![s] = dataPipe]
            /\ UNCHANGED <<sender, postGone, postPos>>
    /\ UNCHANGED <<queueVars, slotVars, requestedOffset, sessionVars, downloadVars,
                   command, watch>>

\* 409: the handler closes whatever pipes the session holds by now.
Refuse(s) ==
    /\ post[s] = "refused"
    /\ Slots!ClosePipes
    /\ Return(s, "done")
    /\ UNCHANGED <<queueVars, offsetVars, sessionVars, downloadVars, command, watch>>

\* io.Copy: a Write meets a Read on the captured pipe.
Copy(s, d) ==
    /\ post[s] = "copying"
    /\ postPos[s] < Size
    /\ postPipe[s] = d
    /\ pipe[d] = "open"
    /\ postPos' = [postPos EXCEPT ![s] = @ + 1]
    /\ \/ /\ recv[d] = "first"
          /\ At(d, "reread")
          /\ hand' = [hand EXCEPT ![d] = postPos[s]]
          /\ UNCHANGED <<slotVars, bytesToSkip, out>>
       \/ /\ recv[d] = "reading"
          /\ bytesToSkip[d] > 0
          /\ bytesToSkip' = [bytesToSkip EXCEPT ![d] = @ - 1]
          /\ At(d, "top")
          /\ UNCHANGED <<slotVars, hand, out>>
       \/ /\ recv[d] = "reading"
          /\ bytesToSkip[d] = 0
          /\ Deliver(d, postPos[s])
          /\ UNCHANGED <<hand, bytesToSkip>>
    /\ UNCHANGED <<queueVars, offsetVars, sessionVars, senderVars,
                   req, recvGone, initDone, post, postGone, watch, postPipe>>

\* The body ended: pw.Close().
CopyDone(s) ==
    /\ post[s] = "copying"
    /\ postPos[s] = Size
    /\ Slots!CloseWriter(postPipe[s])
    /\ Return(s, "done")
    /\ UNCHANGED <<queueVars, dataPipe, uploadPipe, offsetVars, sessionVars,
                   downloadVars, command, watch>>

\* A Write on a closed pipe, or a Read of a lost body; still answered 200.
CopyFails(s) ==
    /\ post[s] = "copying"
    /\ \/ postPos[s] < Size /\ pipe[postPipe[s]] # "open"
       \/ postGone[s]
    /\ Slots!ClosePipesIfMatch(postPipe[s])
    /\ Return(s, "done")
    /\ UNCHANGED <<queueVars, offsetVars, sessionVars, downloadVars, command, watch>>

\* The watcher goroutine of the POST finds `done` not yet closed ...
WatchPost(s) ==
    /\ post[s] = "copying"
    /\ watch[s] = "armed"
    /\ postGone[s] \/ phase # "live"
    /\ watch' = [watch EXCEPT ![s] = "firing"]
    /\ UNCHANGED <<queueVars, slotVars, offsetVars, sessionVars, downloadVars, senderVars,
                   post, postGone, postPipe, postPos>>

\* ... and then closes every pipe of the session, whoever owns it by now.
WatchPostFires(s) ==
    /\ watch[s] = "firing"
    /\ watch' = [watch EXCEPT ![s] = "fired"]
    /\ Slots!ClosePipes
    /\ UNCHANGED <<queueVars, offsetVars, sessionVars, downloadVars, senderVars,
                   post, postGone, postPipe, postPos>>

\* The sender's connection breaks and the sender goes back to polling, while
\* the handler at the relay is still there.
LosePost(s) ==
    /\ LossySender
    /\ sender = s
    /\ postGone' = [postGone EXCEPT ![s] = TRUE]
    /\ sender' = Idle
    /\ UNCHANGED <<queueVars, slotVars, offsetVars, sessionVars, downloadVars, command,
                   post, watch, postPipe, postPos>>

-----------------------------------------------------------------------------
(* Expiry: SweepExpiredSessions and Session.Close.                         *)

Sweep ==
    /\ registered
    /\ registered' = FALSE
    /\ UNCHANGED <<queueVars, slotVars, offsetVars, phase, downloadVars, senderVars, postVars>>

CloseSession ==
    /\ ~registered
    /\ phase = "live"
    /\ phase' = "closing"
    /\ Slots!ClosePipes
    /\ UNCHANGED <<queueVars, offsetVars, registered, downloadVars, senderVars, postVars>>

CloseClearsQueue ==
    /\ phase = "closing"
    /\ phase' = "closed"
    /\ ClearDownloadQueue
    /\ UNCHANGED <<slotVars, offsetVars, registered, downloadVars, senderVars, postVars>>

-----------------------------------------------------------------------------
\* What the handlers of the upload path do to the slots both paths share: they install and
\* close pipes of their own (RelayUpload; RelaySession joins the two).
UploadHandlerOnPipes(u) ==
    /\ \/ Slots!InstallUploadPipe(u)
       \/ Slots!CloseWriter(u) /\ UNCHANGED <<dataPipe, uploadPipe>>
       \/ Slots!ClosePipesIfMatch(u)
    /\ UNCHANGED <<queueVars, offsetVars, sessionVars, downloadVars, senderVars, postVars>>

-----------------------------------------------------------------------------
DownloadStep(d) ==
    \/ Enqueue(d)
    \/ Install(d)
    \/ NextRead(d)
    \/ ReadEnds(d)
    \/ Reread(d)
    \/ \E s \in Posts : Copy(s, d)

PostStep(s) ==
    \/ BindPipe(s)
    \/ Refuse(s)
    \/ CopyDone(s)
    \/ CopyFails(s)

Next ==
    \/ \E d \in Receivers :
          \/ DownloadStep(d)
          \/ WatchDownload(d)
          \/ LoseReceiver(d)
    \/ TakeCommand
    \/ \E s \in Posts :
          \/ SendPost(s)
          \/ PostStep(s)
          \/ WatchPost(s)
          \/ WatchPostFires(s)
          \/ LosePost(s)
    \/ Sweep
    \/ CloseSession
    \/ CloseClearsQueue
    \/ \E u \in Uploads : UploadHandlerOnPipes(u)

Spec == Init /\ [][Next]_vars

\* Goroutines that can run do, and a live receiver reads; nobody owes a
\* request, a disconnection or an expiry.
Fairness ==
    /\ \A d \in Receivers : WF_vars(DownloadStep(d)) /\ WF_vars(WatchDownload(d))
    /\ \A s \in Posts :
          /\ WF_vars(SendPost(s))
          /\ WF_vars(PostStep(s))
          /\ WF_vars(WatchPost(s))
          /\ WF_vars(WatchPostFires(s))
    /\ WF_vars(TakeCommand)
    /\ WF_vars(CloseSession)
    /\ WF_vars(CloseClearsQueue)

FairSpec == Spec /\ Fairness

-----------------------------------------------------------------------------
(* Properties.                                                             *)

\* What receiver d got so far is what it asked for.
InOrder(d) == \A i \in DOMAIN out[d] : out[d][i] = req[d].start + i - 1

\* No receiver is handed bytes from the wrong offset, whatever happens to the
\* session while it reads (seekingReader.Read).
NoCorruption == \A d \in Receivers : InOrder(d)

\* The units of d's pipe that are on their way to the client: sent, or in the reader's hand.
Kept(d) == Len(out[d]) + (IF hand[d] = None THEN 0 ELSE 1)

\* A receiver alone in its session gets what it asked for, and the end of its pipe is the end
\* of the file: an EOF is the sender's, and comes when the last unit was taken
\* (seekingReader.Read, handleData).  The response to a whole download has no length, so its
\* end is all the client goes by.
ServedWhole ==
    \A d \in Receivers :
        InOrder(d) /\ (pipe[d] = "eof" => Kept(d) = Size - req[d].start)

\* A receiver whose pipe still sits in the slot has only bytes it asked for, and at the end of
\* its pipe the whole rest of the file; or nothing at all, when that was a single unit and
\* another receiver's POST was bound while the reader held it (handleDownload, handleData).
CurrentInOrder ==
    \A d \in Receivers :
        dataPipe = d =>
            /\ InOrder(d)
            /\ pipe[d] = "eof" => Kept(d) \in {0, Size - req[d].start}

\* No download's pipe is left open outside the slot (handleDownload,
\* ClosePipesIfMatch), see RelayPipes.
OpenPipeInSlot == Slots!OpenPipeInSlot

\* No /relay/data handler is ever given a pipe that was closed with an error.
SlotNotBroken == Slots!SlotNotBroken

\* A data handler that writes into a pipe always ends.
PostEnds == \A s \in Posts : (post[s] = "copying") ~> (post[s] = "done")

\* A download nobody wants any more ends: its receiver left while the handler
\* was blocked on the pipe, or the session was closed, be it before the handler
\* installed its pipe (handleDownload and its watcher, Session.Close).
AbandonedDownloadEnds ==
    \A d \in Receivers :
        (\/ recv[d] \in Streaming /\ recvGone[d]
         \/ recv[d] \in {"queued"} \cup Streaming /\ phase = "closed")
            ~> (recv[d] = "done")

=============================================================================
