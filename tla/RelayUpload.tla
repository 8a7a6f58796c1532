----------------------------- MODULE RelayUpload ----------------------------
(***************************************************************************)
(* The upload path of the relay (internal/relay/server.go): a browser      *)
(* POSTs a file to /api/upload, the sender (cmd/beam/main.go) learns its   *)
(* name from a poll, GETs /relay/pull and saves what it reads.  The two    *)
(* handlers meet on the upload pipe; the name travels apart from it, over  *)
(* the channel UploadReq.                                                  *)
(***************************************************************************)
EXTENDS RelayPipes, Integers

CONSTANTS
    Pulls,          \* /relay/pull handlers: one for each GET, a bound
    Length,         \* units in every uploaded file
    LossySender     \* whether the sender's connections may break

ASSUME LengthAssumption == Length \in Nat \ {0}
ASSUME PullsAssumption == Pulls \cap {"polling", "command", "stopped"} = {}

VARIABLES
    uploadReq,      \* Session.UploadReq, the name announced, a channel of 1
    phase,          \* "live" or "closed", as in RelayMailbox
    upload,         \* where each upload handler stands
    uploadGone,     \* its client has disconnected
    sent,           \* the units of each upload that a Read took from its pipe
    pull,           \* where each pull handler stands
    pullPipe,       \* the pipe it captured
    sender,         \* the sender: "polling", "command", the pull it waits for, or
                    \* "stopped": it came back for a poll after Close
    name,           \* the upload whose name the sender took last
    got,            \* the units read by the sender's current pull
    lost,           \* pulls whose connection broke under the sender
    saved           \* files the sender reported complete: name, source, units

uploadVars == <<upload, uploadGone, sent>>
pullVars == <<pull, pullPipe>>
senderVars == <<sender, name, got, lost, saved>>
vars == <<pipeVars, uploadReq, phase, uploadVars, pullVars, senderVars>>

Files == [name : UploadPipes, from : UploadPipes, units : 0..Length]

TypeOK ==
    /\ PipesTypeOK
    /\ uploadReq \in UploadPipes \cup {NoPipe}
    /\ phase \in {"live", "closed"}
    /\ upload \in [UploadPipes -> {"found", "check", "announce", "copying",
                                   "ok", "failed", "panicked"}]
    /\ uploadGone \in [UploadPipes -> BOOLEAN]
    /\ sent \in [UploadPipes -> 0..Length]
    /\ pull \in [Pulls -> {"idle", "found", "copying", "done"}]
    /\ pullPipe \in [Pulls -> UploadPipes \cup {NoPipe}]
    /\ sender \in {"polling", "command", "stopped"} \cup Pulls
    /\ name \in UploadPipes \cup {NoPipe}
    /\ got \in 0..Length
    /\ lost \subseteq Pulls
    /\ saved \subseteq Files

Init ==
    /\ PipesInit
    /\ uploadReq = NoPipe
    /\ phase = "live"
    /\ upload = [u \in UploadPipes |-> "found"]
    /\ uploadGone = [u \in UploadPipes |-> FALSE]
    /\ sent = [u \in UploadPipes |-> 0]
    /\ pull = [g \in Pulls |-> "idle"]
    /\ pullPipe = [g \in Pulls |-> NoPipe]
    /\ sender = "polling"
    /\ name = NoPipe
    /\ got = 0
    /\ lost = {}
    /\ saved = {}

-----------------------------------------------------------------------------
(* handleUpload, from the moment it holds the pointer to the session.      *)

UploadAt(u, label) == upload' = [upload EXCEPT ![u] = label]

InstallUpload(u) ==
    /\ upload[u] = "found"
    /\ InstallUploadPipe(u)
    /\ UploadAt(u, "check")
    /\ UNCHANGED <<uploadReq, phase, uploadGone, sent, pullVars, senderVars>>

\* Session.closed is read without the lock ...
CheckOpen(u) ==
    /\ upload[u] = "check"
    /\ UploadAt(u, IF phase = "live" THEN "announce" ELSE "copying")
    /\ UNCHANGED <<pipeVars, uploadReq, phase, uploadGone, sent, pullVars, senderVars>>

\* ... so the send may find the channel closed and panic, which runs the
\* deferred ClosePipesIfMatch; a full channel drops the name.
AnnounceUpload(u) ==
    /\ upload[u] = "announce"
    /\ IF phase = "live"
       THEN /\ uploadReq' = IF uploadReq = NoPipe THEN u ELSE uploadReq
            /\ UploadAt(u, "copying")
            /\ UNCHANGED pipeVars
       ELSE /\ UploadAt(u, "panicked")
            /\ ClosePipesIfMatch(u)
            /\ UNCHANGED uploadReq
    /\ UNCHANGED <<phase, uploadGone, sent, pullVars, senderVars>>

\* Faulty variant of UploadDone: "ok" once the pipe is closed under the upload.
UploadDoneAnyway(u) ==
    /\ upload[u] = "copying"
    /\ sent[u] = Length \/ pipe[u] # "open"
    /\ CloseWriter(u)
    /\ UploadAt(u, "ok")
    /\ UNCHANGED <<dataPipe, uploadPipe, uploadReq, phase, uploadGone, sent, pullVars,
                   senderVars>>

\* Every unit was read on the other side: pw.Close(), "ok", and the deferred
\* ClosePipesIfMatch right behind it.
UploadDone(u) ==
    /\ upload[u] = "copying"
    /\ sent[u] = Length
    /\ CloseWriter(u)
    /\ UploadAt(u, "ok")
    /\ UNCHANGED <<dataPipe, uploadPipe, uploadReq, phase, uploadGone, sent, pullVars,
                   senderVars>>

\* The deferred ClosePipesIfMatch(pr, pw, nil): a reader that has not yet seen
\* the EOF finds the pipe closed under it.
UploadReturns(u) ==
    /\ upload[u] = "ok"
    /\ pipe[u] # "broken"
    /\ ClosePipesIfMatch(u)
    /\ UNCHANGED <<uploadReq, phase, uploadVars, pullVars, senderVars>>

\* io.Copy(pw, part) returns an error: a Write finds the pipe closed, or a Read of the body
\* finds its client gone, were it behind the last unit, at the closing boundary.
CopyBreaks(u) ==
    \/ sent[u] < Length /\ pipe[u] # "open"
    \/ uploadGone[u]

\* Faulty variant of UploadFails: the pipe is left open behind a dead upload.
UploadFailsSilently(u) ==
    /\ upload[u] = "copying"
    /\ CopyBreaks(u)
    /\ UploadAt(u, "failed")
    /\ UNCHANGED <<pipeVars, uploadReq, phase, uploadGone, sent, pullVars, senderVars>>

UploadFails(u) ==
    /\ upload[u] = "copying"
    /\ CopyBreaks(u)
    /\ ClosePipesIfMatch(u)
    /\ UploadAt(u, "failed")
    /\ UNCHANGED <<uploadReq, phase, uploadGone, sent, pullVars, senderVars>>

\* The watcher of an upload looks at its own client only, not at the session.
WatchUpload(u) ==
    /\ upload[u] \in {"check", "announce", "copying"}
    /\ uploadGone[u]
    /\ pipe[u] # "broken"
    /\ ClosePipesIfMatch(u)
    /\ UNCHANGED <<uploadReq, phase, uploadVars, pullVars, senderVars>>

LoseUploader(u) ==
    /\ upload[u] \in {"check", "announce", "copying"}
    /\ ~uploadGone[u]
    /\ uploadGone' = [uploadGone EXCEPT ![u] = TRUE]
    /\ UNCHANGED <<pipeVars, uploadReq, phase, upload, sent, pullVars, senderVars>>

-----------------------------------------------------------------------------
(* The sender's loop and handlePull.                                       *)

\* The sender is done with a command: it polls again, and finds no session after Close.
NextPoll == IF phase = "live" THEN "polling" ELSE "stopped"

\* A poll answered with "upload" and a file name.  One that found the session before Close
\* still receives the name buffered in the closed channel.
TakeUpload ==
    /\ sender = "polling"
    /\ uploadReq # NoPipe
    /\ name' = uploadReq
    /\ uploadReq' = NoPipe
    /\ sender' = "command"
    /\ UNCHANGED <<pipeVars, phase, uploadVars, pullVars, got, lost, saved>>

SendPull(g) ==
    /\ sender = "command"
    /\ pull[g] = "idle"
    /\ pull' = [pull EXCEPT ![g] = IF phase = "live" THEN "found" ELSE "done"]
    /\ sender' = IF phase = "live" THEN g ELSE "stopped"
    /\ got' = 0
    /\ UNCHANGED <<pipeVars, uploadReq, phase, uploadVars, pullPipe, name, lost, saved>>

\* The handler captures whatever upload pipe the session holds by now.
BindPull(g) ==
    /\ pull[g] = "found"
    /\ pullPipe' = [pullPipe EXCEPT ![g] = uploadPipe]
    /\ IF uploadPipe = NoPipe
       THEN /\ pull' = [pull EXCEPT ![g] = "done"]
            /\ sender' = IF sender = g THEN NextPoll ELSE sender
       ELSE pull' = [pull EXCEPT ![g] = "copying"] /\ UNCHANGED sender
    /\ UNCHANGED <<pipeVars, uploadReq, phase, uploadVars, name, got, lost, saved>>

\* Faulty variant of Copy: the pull counts a unit more than the file has.
CopyCountsTwice(g, u) ==
    /\ pull[g] = "copying"
    /\ pullPipe[g] = u
    /\ pipe[u] = "open"
    /\ upload[u] = "copying"
    /\ sent[u] < Length
    /\ sent' = [sent EXCEPT ![u] = @ + 1]
    /\ got' = IF sender = g THEN got + 2 ELSE got
    /\ UNCHANGED <<pipeVars, uploadReq, phase, upload, uploadGone, pullVars, sender,
                   name, lost, saved>>

\* A Read of the pull meets a Write of the upload.
Copy(g, u) ==
    /\ pull[g] = "copying"
    /\ pullPipe[g] = u
    /\ pipe[u] = "open"
    /\ upload[u] = "copying"
    /\ sent[u] < Length
    /\ sent' = [sent EXCEPT ![u] = @ + 1]
    /\ got' = IF sender = g THEN got + 1 ELSE got
    /\ UNCHANGED <<pipeVars, uploadReq, phase, upload, uploadGone, pullVars, sender,
                   name, lost, saved>>

\* The response ends, and ends the same way, at EOF and after an error: the
\* sender saves what it has under the announced name.
FinishPull(g) ==
    /\ pull' = [pull EXCEPT ![g] = "done"]
    /\ IF sender = g
       THEN /\ saved' = saved \cup
                  {[name |-> name, from |-> pullPipe[g], units |-> got]}
            /\ sender' = NextPoll
       ELSE UNCHANGED <<saved, sender>>

PullEOF(g) ==
    /\ pull[g] = "copying"
    /\ pipe[pullPipe[g]] = "eof"
    /\ FinishPull(g)
    /\ UNCHANGED <<pipeVars, uploadReq, phase, uploadVars, pullPipe, name, got, lost>>

\* Faulty variant of PullFails: the download path's pipe is closed as well.
PullFailsClosesAll(g) ==
    /\ pull[g] = "copying"
    /\ pipe[pullPipe[g]] = "broken" \/ sender # g
    /\ ClosePipes
    /\ FinishPull(g)
    /\ UNCHANGED <<uploadReq, phase, uploadVars, pullPipe, name, got, lost>>

\* pr.Read fails on a closed pipe, or w.Write on a lost connection.
PullFails(g) ==
    /\ pull[g] = "copying"
    /\ pipe[pullPipe[g]] = "broken" \/ sender # g
    /\ ClosePipesIfMatch(pullPipe[g])
    /\ FinishPull(g)
    /\ UNCHANGED <<uploadReq, phase, uploadVars, pullPipe, name, got, lost>>

\* The sender's connection breaks: an error at the sender, nothing is saved.
LosePull(g) ==
    /\ LossySender
    /\ sender = g
    /\ sender' = NextPoll
    /\ lost' = lost \cup {g}
    /\ UNCHANGED <<pipeVars, uploadReq, phase, uploadVars, pullVars, name, got, saved>>

-----------------------------------------------------------------------------
\* Session.Close.
CloseSession ==
    /\ phase = "live"
    /\ phase' = "closed"
    /\ ClosePipes
    /\ UNCHANGED <<uploadReq, uploadVars, pullVars, senderVars>>

\* A data handler of the same session closes every pipe: at an offset mismatch
\* or when its own sender is lost (Refuse and WatchPostFires of RelayTransfer).
DataHandlerClosesPipes ==
    /\ ClosePipes
    /\ UNCHANGED <<uploadReq, phase, uploadVars, pullVars, senderVars>>

\* All else the download path does to the slots both paths share: its handlers install
\* and close pipes of their own (RelayTransfer; RelaySession joins the two).
DownloadHandlerOnPipes(d) ==
    /\ \/ InstallDataPipe(d)
       \/ CloseWriter(d) /\ UNCHANGED <<dataPipe, uploadPipe>>
       \/ ClosePipesIfMatch(d)
    /\ UNCHANGED <<uploadReq, phase, uploadVars, pullVars, senderVars>>

UploadStep(u) ==
    \/ InstallUpload(u)
    \/ CheckOpen(u)
    \/ AnnounceUpload(u)
    \/ UploadDone(u)
    \/ UploadReturns(u)
    \/ UploadFails(u)

PullStep(g) ==
    \/ BindPull(g)
    \/ \E u \in UploadPipes : Copy(g, u)
    \/ PullEOF(g)
    \/ PullFails(g)

Next ==
    \/ \E u \in UploadPipes : UploadStep(u) \/ WatchUpload(u) \/ LoseUploader(u)
    \/ TakeUpload
    \/ \E g \in Pulls : SendPull(g) \/ PullStep(g) \/ LosePull(g)
    \/ CloseSession
    \/ DataHandlerClosesPipes
    \/ \E d \in DataPipes : DownloadHandlerOnPipes(d)

Spec == Init /\ [][Next]_vars

\* Goroutines that can run do; uploaders send their bodies; nobody owes a
\* disconnection, an expiry or a mismatch, nor a poll the name left behind at Close.
Fairness ==
    /\ \A u \in UploadPipes : WF_vars(UploadStep(u)) /\ WF_vars(WatchUpload(u))
    /\ \A g \in Pulls : WF_vars(SendPull(g)) /\ WF_vars(PullStep(g))
    /\ WF_vars(phase = "live" /\ TakeUpload)

FairSpec == Spec /\ Fairness

-----------------------------------------------------------------------------
(* Properties.                                                             *)

\* "ok" to the browser means that the sender has the whole file on disk, or is
\* still about to write it, unless the sender's own connection broke: no unit
\* went anywhere else (handleUpload, handlePull).
AckedUploadIsSaved ==
    \A u \in UploadPipes :
        upload[u] = "ok" =>
            \/ \E f \in saved : f.from = u /\ f.units = Length
            \/ \E g \in Pulls : /\ pull[g] = "copying"
                                /\ pullPipe[g] = u
                                /\ sender = g
                                /\ got = Length
            \/ \E g \in lost : pullPipe[g] = u

\* Not invariants of this code, kept for whoever changes it: a file saved under
\* one browser's name holds that browser's bytes ...
NameMatchesContent == \A f \in saved : f.name = f.from

\* ... and a file the sender reports complete is complete.
SavedIsWhole == \A f \in saved : f.units = Length

\* A pull always ends: its pipe is never orphaned with the writer gone.
PullEnds == \A g \in Pulls : (pull[g] = "copying") ~> (pull[g] = "done")

=============================================================================
