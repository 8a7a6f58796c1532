-------------------------- MODULE BrowserDownload --------------------------
(***************************************************************************)
(* The receiving page of app.js over several attempts at the same file:    *)
(* the resume record in localStorage, the choice of a place to write to,   *)
(* the file branch of startWebRTC, the HTTP download it falls back to, the *)
(* error screen with its retry button, and reloads of the page.            *)
(*                                                                         *)
(* What outlives a page is the record, the chunk store in IndexedDB and    *)
(* the file the user picks; a writer, a pipe and every variable do not.    *)
(* Flow control within one attempt is P2PSession; here a unit of the file  *)
(* arrives, is written and is counted in one step.                         *)
(***************************************************************************)
EXTENDS Integers, Sequences

CONSTANTS Size,         \* units of the file
          SaveEvery,    \* units between two records, 1 MB in the source
          OldSize,      \* units of the file the picker may hand out for overwriting
          MaxAttempts   \* bound on page loads and retries

ASSUME SizesAreNatural == /\ Size \in Nat \ {0} /\ SaveEvery \in Nat \ {0}
                          /\ OldSize \in Nat /\ MaxAttempts \in Nat

VARIABLES record,    \* offset in beam_resume, 0 when there is none
          store,     \* object store 'chunks', in the order of its keys
          able,      \* what the browser supports
          place,     \* where the page is
          offset,    \* initialOffset
          received,  \* receivedBytes
          lastSaved, \* lastSavedOffset
          sink,      \* where this attempt writes to
          dbOpen,    \* idb is not null
          index,     \* idbChunkIndex
          out,       \* content of the sink, unless it is the store
          saved,     \* files handed to the user
          attempts

vars == <<record, store, able, place, offset, received, lastSaved, sink, dbOpen, index,
          out, saved, attempts>>

progressVars == <<record, offset, received, lastSaved>>
sinkVars     == <<store, sink, dbOpen, index, out>>

Units  == 0..(Size - 1)
Sinks  == {"disk", "opfs", "sw", "idb"}
Bytes  == Units \cup {-1, -2}

Hole == -1   \* what a file has where nobody wrote
Old  == -2   \* what the picked file had before

Positioned == {"disk", "opfs"}   \* sinks that are written at a position

TypeOK ==
    /\ record \in 0..Size /\ offset \in 0..Size /\ received \in 0..Size /\ lastSaved \in 0..Size
    /\ store \in Seq(Units) /\ out \in Seq(Bytes) /\ index \in Nat
    /\ able \subseteq {"disk", "opfs", "sw"}
    /\ place \in {"loaded", "storage", "receiving", "fallback", "ready", "http",
                  "done", "error", "stuck"}
    /\ sink \in Sinks \cup {"none"}
    /\ dbOpen \in BOOLEAN
    /\ saved \subseteq [sink : Sinks, start : 0..Size, content : Seq(Bytes)]
    /\ attempts \in 0..MaxAttempts

Init ==
    /\ record = 0 /\ store = <<>> /\ saved = {} /\ attempts = 0
    /\ able \in SUBSET {"disk", "opfs", "sw"}
    /\ place = "loaded"
    /\ offset = 0 /\ received = 0 /\ lastSaved = 0
    /\ sink = "none" /\ dbOpen = FALSE /\ index = 0 /\ out = <<>>

-----------------------------------------------------------------------------
(* Helpers of the code that several steps call. *)

\* checkResumeState: the user takes up the saved offset, or the record is dropped.
CheckResume ==
    \/ /\ record > 0
       /\ offset' = record /\ received' = record /\ lastSaved' = record
       /\ UNCHANGED record
    \/ /\ record' = 0 /\ offset' = 0 /\ lastSaved' = 0
       /\ UNCHANGED received

\* clearIDB opens the database when it has to.
ClearStore == store' = <<>> /\ index' = 0 /\ dbOpen' = TRUE

\* clearIDB rejects: the database does not open, or the transaction fails; one that initIDB
\* has just opened counts the chunks it finds, if it can.
ClearFails ==
    /\ UNCHANGED store
    /\ \/ UNCHANGED <<dbOpen, index>>
       \/ ~dbOpen /\ dbOpen' = TRUE /\ index' \in {index, Len(store)}

\* showError clears the store if the attempt wrote there.
ClearIfUsed == IF sink = "idb" THEN ClearStore ELSE UNCHANGED <<store, index, dbOpen>>

\* A write at a position, as a file system does it.
PutAt(content, p, u) ==
    [i \in 1..(IF p < Len(content) THEN Len(content) ELSE p + 1) |->
        IF i = p + 1 THEN u ELSE IF i <= Len(content) THEN content[i] ELSE Hole]

\* Faulty variant of PutChunk: the key is not advanced.
PutChunkAgain(u) ==
    /\ store' = PutAt(store, index, u)
    /\ UNCHANGED index

\* storeChunkIDB: a put under the next key.
PutChunk(u) ==
    /\ store' = PutAt(store, index, u)
    /\ index' = index + 1

\* Faulty variant of SaveProgress: the record is one unit ahead.
SaveProgressAhead(n) ==
    IF n - lastSaved >= SaveEvery
    THEN record' = n + 1 /\ lastSaved' = n
    ELSE UNCHANGED <<record, lastSaved>>

\* maybeSaveProgress, with n bytes received.
SaveProgress(n) ==
    IF n - lastSaved >= SaveEvery
    THEN record' = n /\ lastSaved' = n
    ELSE UNCHANGED <<record, lastSaved>>

-----------------------------------------------------------------------------
(* startWebRTC. *)

\* The channel is open and the size known: the page asks whether to resume.
ChannelOpens ==
    /\ place = "loaded"
    /\ CheckResume
    /\ place' = "storage"
    /\ UNCHANGED <<able, sinkVars, saved, attempts>>

\* No WebRTC, or no channel: HTTP.
ChannelFails ==
    /\ place = "loaded"
    /\ place' = "fallback"
    /\ UNCHANGED <<able, progressVars, sinkVars, saved, attempts>>

\* The user shrinks from a large file that would be held in memory.
RamAbort ==
    /\ place = "storage" /\ able = {}
    /\ ClearIfUsed
    /\ place' = "error"
    /\ UNCHANGED <<able, progressVars, sink, out, saved, attempts>>

Begin(kind, content) ==
    /\ sink' = kind
    /\ out' = content
    /\ place' = "receiving"
    /\ UNCHANGED <<able, progressVars, saved, attempts>>

\* The picked file keeps what it had (keepExistingData), the writer seeks to the offset.
ToDisk ==
    /\ place = "storage" /\ "disk" \in able
    /\ \E n \in {0, OldSize} : Begin("disk", [i \in 1..n |-> Old])
    /\ UNCHANGED <<store, dbOpen, index>>

\* A file of a fresh random name, written from the offset on.
ToOPFS ==
    /\ place = "storage" /\ "opfs" \in able
    /\ Begin("opfs", <<>>)
    /\ UNCHANGED <<store, dbOpen, index>>

DiskFull ==
    /\ place = "storage" /\ "opfs" \in able
    /\ ClearIfUsed
    /\ place' = "error"
    /\ UNCHANGED <<able, progressVars, sink, out, saved, attempts>>

ToPipe ==
    /\ place = "storage" /\ "sw" \in able
    /\ Begin("sw", <<>>)
    /\ UNCHANGED <<store, dbOpen, index>>

\* Everything else is missing or has failed: IndexedDB, cleared only for a new download.
ToStore ==
    /\ place = "storage"
    /\ Begin("idb", <<>>)
    /\ IF offset = 0 THEN ClearStore ELSE UNCHANGED <<store, dbOpen, index>>

\* The store cannot be cleared: startWebRTC rejects, and bootstrap goes on with HTTP.
StoreFails ==
    /\ place = "storage" /\ offset = 0
    /\ ClearFails
    /\ sink' = "idb" /\ out' = <<>>
    /\ place' = "fallback"
    /\ UNCHANGED <<able, progressVars, saved, attempts>>

Count ==
    /\ received' = received + 1
    /\ SaveProgress(received + 1)
    /\ UNCHANGED <<able, place, offset, sink, saved, attempts>>

\* A unit is written by the writer, which stands where the last unit ended.
WritePositioned ==
    /\ place = "receiving" /\ received < Size /\ sink \in Positioned
    /\ out' = PutAt(out, received, received)
    /\ Count
    /\ UNCHANGED <<store, dbOpen, index>>

\* ... is posted to the worker's pipe ...
WritePipe ==
    /\ place = "receiving" /\ received < Size /\ sink = "sw"
    /\ out' = Append(out, received)
    /\ Count
    /\ UNCHANGED <<store, dbOpen, index>>

\* ... or is put into a database somebody has opened.
WriteChunk ==
    /\ place = "receiving" /\ received < Size /\ sink = "idb" /\ dbOpen
    /\ PutChunk(received)
    /\ Count
    /\ UNCHANGED <<dbOpen, out>>

\* A write fails, as every write to a database that is not open does: the error screen,
\* and the rejected promise brings the HTTP fallback.
WriteFails ==
    /\ place = "receiving" /\ received < Size /\ sink # "sw"
    /\ ClearIfUsed
    /\ place' = "fallback"
    /\ UNCHANGED <<able, progressVars, sink, out, saved, attempts>>

\* onclose, which looks at the number of bytes only.
ChannelCloses ==
    /\ place = "receiving"
    /\ place' = IF received < Size THEN "fallback" ELSE "stuck"
    /\ UNCHANGED <<able, progressVars, sinkVars, saved, attempts>>

Content == IF sink = "idb" THEN store ELSE out

\* Faulty variant of Finish: the record stays.
FinishRecorded ==
    /\ place = "receiving" /\ received = Size
    /\ saved' = saved \cup {[sink |-> sink, start |-> offset, content |-> Content]}
    /\ ClearIfUsed
    /\ place' = "done"
    /\ UNCHANGED <<able, progressVars, sink, out, attempts>>

\* EOF: the file is closed or put together, and handed over; the record goes.
Finish ==
    /\ place = "receiving" /\ received = Size
    /\ saved' = saved \cup {[sink |-> sink, start |-> offset, content |-> Content]}
    /\ ClearIfUsed
    /\ record' = 0
    /\ place' = "done"
    /\ UNCHANGED <<able, offset, received, lastSaved, sink, out, attempts>>

\* Closing fails: nobody settles the promise.
FinishFails ==
    /\ place = "receiving" /\ received = Size /\ sink # "sw"
    /\ place' = "stuck"
    /\ UNCHANGED <<able, progressVars, sinkVars, saved, attempts>>

-----------------------------------------------------------------------------
(* The HTTP fallback. *)

\* fetchMetaAndShowReady.
MetaArrives ==
    /\ place = "fallback"
    /\ CheckResume
    /\ place' = "ready"
    /\ UNCHANGED <<able, sinkVars, saved, attempts>>

MetaFails ==
    /\ place = "fallback"
    /\ ClearIfUsed
    /\ place' = "error"
    /\ UNCHANGED <<able, progressVars, sink, out, saved, attempts>>

\* startHTTPDownload has no writer: the one of a failed attempt is still in its variable
\* and is used again, but a picker that is cancelled drops it.
NoWriter == "disk" \in able \/ sink \notin Positioned

\* startHTTPDownload up to the request.
HttpBegins ==
    /\ place = "ready"
    /\ received' = 0
    /\ place' = "http"
    /\ \/ "disk" \in able /\ sink' = "disk" /\ UNCHANGED <<store, dbOpen, index>>
       \/ ~NoWriter /\ UNCHANGED <<sink, store, dbOpen, index>>
       \/ /\ NoWriter
          /\ sink' \in {"opfs", "sw"} \cap able
          /\ UNCHANGED <<store, dbOpen, index>>
       \/ /\ NoWriter
          /\ sink' = "idb"
          /\ IF offset = 0 THEN ClearStore ELSE UNCHANGED <<store, dbOpen, index>>
    /\ UNCHANGED <<able, record, offset, lastSaved, out, saved, attempts>>

\* The store cannot be cleared: nobody catches that, and the page stays where it is.
HttpStoreFails ==
    /\ place = "ready" /\ NoWriter /\ offset = 0
    /\ received' = 0
    /\ sink' = "idb"
    /\ ClearFails
    /\ UNCHANGED <<able, record, place, offset, lastSaved, out, saved, attempts>>

\* The request fails, or the first chunk does: decryptionKey is not declared here.
HttpFails ==
    /\ place = "http"
    /\ ClearIfUsed
    /\ place' = "error"
    /\ UNCHANGED <<able, progressVars, sink, out, saved, attempts>>

-----------------------------------------------------------------------------
(* Retry and reload. *)

\* resetState, then bootstrap: initialOffset and lastSavedOffset stay.
Retry ==
    /\ place = "error" /\ attempts < MaxAttempts
    /\ attempts' = attempts + 1
    /\ received' = 0
    /\ sink' = "none" /\ out' = <<>>
    /\ IF dbOpen THEN ClearStore ELSE UNCHANGED <<store, index, dbOpen>>
    /\ place' = "loaded"
    /\ UNCHANGED <<record, able, offset, lastSaved, saved>>

\* The page is loaded again. A page that leaves clears the store if it can; one that
\* crashes does not.
Reload ==
    /\ attempts < MaxAttempts
    /\ attempts' = attempts + 1
    /\ \/ UNCHANGED store
       \/ sink = "idb" /\ dbOpen /\ store' = <<>>
    /\ dbOpen' = FALSE /\ index' = 0 /\ sink' = "none" /\ out' = <<>>
    /\ offset' = 0 /\ received' = 0 /\ lastSaved' = 0
    /\ place' = "loaded"
    /\ UNCHANGED <<record, able, saved>>

-----------------------------------------------------------------------------
Next ==
    \/ ChannelOpens \/ ChannelFails \/ RamAbort
    \/ ToDisk \/ ToOPFS \/ DiskFull \/ ToPipe \/ ToStore \/ StoreFails
    \/ WritePositioned \/ WritePipe \/ WriteChunk \/ WriteFails
    \/ ChannelCloses \/ Finish \/ FinishFails
    \/ MetaArrives \/ MetaFails \/ HttpBegins \/ HttpStoreFails \/ HttpFails
    \/ Retry \/ Reload

Spec == Init /\ [][Next]_vars

-----------------------------------------------------------------------------
(* Properties. *)

Whole == [i \in 1..Size |-> i - 1]

\* What a saved file owes to the attempt that saved it: every unit from its resume position
\* on, in order and, on disk and in OPFS, at its place; and when it began at the first unit
\* nothing else, whatever earlier attempts, reloads and crashes left in the chunk store, but
\* the tail of a longer picked file (keepExistingData). What is before a resume position is
\* not promised: a new OPFS file and a pipe do not have it, and the chunk store was cleared
\* with the error.
SavedAsReceived ==
    \A f \in saved :
        LET before == IF f.sink \in Positioned THEN 0 ELSE f.start
        IN  /\ \A i \in f.start + 1 .. Size :
                 /\ i - before \in DOMAIN f.content
                 /\ f.content[i - before] = Whole[i]
            /\ f.start = 0 => \/ Len(f.content) = Size
                              \/ f.sink = "disk" /\ Len(f.content) = OldSize

\* The record never names a byte that has not been written in the attempt it was made in
\* or resumed by, and a finished download leaves no record.
RecordBacked ==
    /\ place = "receiving" => record <= received /\ lastSaved <= received
    /\ place = "done" => record = 0
=============================================================================
