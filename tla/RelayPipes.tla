----------------------------- MODULE RelayPipes -----------------------------
(***************************************************************************)
(* The two pipe slots of a relay session and the methods that close them   *)
(* (internal/relay/server.go).  A download handler creates the io.Pipe     *)
(* that a /relay/data handler fills, an upload handler the one that a      *)
(* /relay/pull handler empties; a pipe is named by the handler that made   *)
(* it.  DataPipeR and DataPipeW are always set and cleared together, and   *)
(* so are the two ends for uploads: one variable stands for each pair.     *)
(***************************************************************************)

CONSTANTS
    DataPipes,      \* one pipe for each download handler
    UploadPipes,    \* one pipe for each upload handler
    NoPipe          \* a nil *io.PipeReader / *io.PipeWriter

Pipes == DataPipes \cup UploadPipes

ASSUME PipesAssumption ==
    /\ NoPipe \notin Pipes
    /\ DataPipes \cap UploadPipes = {}

VARIABLES
    dataPipe,       \* Session.DataPipeR, Session.DataPipeW
    uploadPipe,     \* Session.UploadPipeR, Session.UploadPipeW
    pipe            \* the state of each io.Pipe

pipeVars == <<dataPipe, uploadPipe, pipe>>

PipesTypeOK ==
    /\ dataPipe \in DataPipes \cup {NoPipe}
    /\ uploadPipe \in UploadPipes \cup {NoPipe}
    /\ pipe \in [Pipes -> {"none", "open", "eof", "broken"}]

PipesInit ==
    /\ dataPipe = NoPipe
    /\ uploadPipe = NoPipe
    /\ pipe = [p \in Pipes |-> "none"]

\* io.Pipe: closing the writer alone leaves EOF for the reader; closing both
\* ends (with or without an error) makes every further Read and Write fail,
\* even a Read that would have seen the EOF.
CloseWriter(p) ==
    pipe' = [pipe EXCEPT ![p] = IF @ = "open" THEN "eof" ELSE @]

\* ClosePipes, closePipesIfMatchLocked(nil, nil): both slots, whoever asks.
ClosePipes ==
    /\ pipe' = [p \in Pipes |->
                   IF p \in {dataPipe, uploadPipe} THEN "broken" ELSE pipe[p]]
    /\ dataPipe' = NoPipe
    /\ uploadPipe' = NoPipe

\* Faulty variant of ClosePipesIfMatch: the slot keeps the closed pipe.
ClosePipesKeepsSlot(p) ==
    /\ pipe' = [pipe EXCEPT ![p] = "broken"]
    /\ UNCHANGED <<dataPipe, uploadPipe>>

\* ClosePipesIfMatch(pr, pw): the given pipe is closed whether or not a slot
\* still holds it; only the slot that holds it is cleared.
ClosePipesIfMatch(p) ==
    /\ pipe' = [pipe EXCEPT ![p] = "broken"]
    /\ dataPipe' = IF dataPipe = p THEN NoPipe ELSE dataPipe
    /\ uploadPipe' = IF uploadPipe = p THEN NoPipe ELSE uploadPipe

\* Faulty variant of InstallDataPipe: the pipe that was in the slot is
\* forgotten, not closed.
InstallDataPipeForgets(p) ==
    /\ pipe' = [pipe EXCEPT ![p] = "open"]
    /\ dataPipe' = p
    /\ UNCHANGED uploadPipe

\* handleDownload puts its fresh pipe in the slot, closing the one before it.
InstallDataPipe(p) ==
    /\ pipe' = [q \in Pipes |-> CASE q = p -> "open"
                                  [] q # p /\ q = dataPipe -> "broken"
                                  [] OTHER -> pipe[q]]
    /\ dataPipe' = p
    /\ UNCHANGED uploadPipe

\* handleUpload does the same with the upload slot.
InstallUploadPipe(p) ==
    /\ pipe' = [q \in Pipes |-> CASE q = p -> "open"
                                  [] q # p /\ q = uploadPipe -> "broken"
                                  [] OTHER -> pipe[q]]
    /\ uploadPipe' = p
    /\ UNCHANGED dataPipe

\* A pipe that can still carry data sits in its slot: none is left behind
\* where neither a replacement nor the end of the session would close it.
OpenPipeInSlot ==
    \A p \in Pipes : pipe[p] = "open" => p \in {dataPipe, uploadPipe}

\* What a slot holds was not closed by a session method: a slot never offers a
\* broken pipe to the next /relay/data or /relay/pull.
SlotNotBroken ==
    \A p \in Pipes : p \in {dataPipe, uploadPipe} => pipe[p] \in {"open", "eof"}

=============================================================================
