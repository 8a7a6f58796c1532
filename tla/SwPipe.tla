------------------------------- MODULE SwPipe -------------------------------
(***************************************************************************)
(* The download pipe through the service worker: getSWPipe of app.js, the  *)
(* page that writes into the port it returns, and sw.js, which turns what  *)
(* the port brings into the body of a synthetic response.                  *)
(*                                                                         *)
(* The page posts INIT_PORT, waits for READY, puts an iframe on the URL of *)
(* the pipe and starts to write without waiting for the request of that    *)
(* iframe.  The worker keeps the stream of the URL in streamMap until it   *)
(* is fetched, cancelled, finished or five minutes old.  Page, worker,     *)
(* request and the browser's download are four independent actors, and the *)
(* browser may stop an idle worker, which forgets all its variables.       *)
(*                                                                         *)
(* Ports and streams are first in, first out, so units are counted: the    *)
(* page has posted sent of them, the worker has enqueued taken, the        *)
(* download has read read.                                                 *)
(***************************************************************************)
EXTENDS Naturals

CONSTANTS Size,         \* units of the file
          MaxRequests,  \* bound on the requests for the URL of the pipe
          MaxLooks      \* looks of a waiting request at streamMap, 20 in the source

ASSUME SizesAreNatural ==
    Size \in Nat /\ MaxRequests \in Nat \ {0} /\ MaxLooks \in Nat \ {0}

VARIABLES page,      \* place of the page: getSWPipe, then its writer
          sent,      \* units posted to the port
          eof,       \* EOF posted to the port
          worker,    \* the pipe in the worker: handler of its port, or how it ended
          ready,     \* READY posted to the page
          entry,     \* streamMap has the URL
          timer,     \* ttlTimer is armed
          taken,     \* units enqueued in the stream
          stream,    \* state of the ReadableStream
          request,   \* requests for the URL, in the worker
          looks,     \* looks a waiting request has left
          read,      \* units the browser's download has read
          download,  \* the browser's download
          cause      \* why cleanup ran

vars == <<page, sent, eof, worker, ready, entry, timer, taken, stream,
          request, looks, read, download, cause>>

pageVars   == <<page, sent, eof>>
pipeVars   == <<worker, entry, timer, cause>>
fetchVars  == <<request, looks>>
readerVars == <<read, download>>

Requests == 1..MaxRequests

Waiting == {"asked", "looking"}
Served  == \E r \in Requests : request[r] = "served"

TypeOK ==
    /\ page \in {"asking", "confirming", "fallback", "writing", "done", "failed"}
    /\ sent \in 0..Size /\ taken \in 0..Size /\ read \in 0..Size
    /\ eof \in BOOLEAN /\ ready \in BOOLEAN /\ entry \in BOOLEAN /\ timer \in BOOLEAN
    /\ worker \in {"none", "starting", "open", "closed", "stopped"}
    /\ stream \in {"none", "readable", "closing", "errored"}
    /\ request \in [Requests -> {"none", "served", "missed", "dropped"} \cup Waiting]
    /\ looks \in [Requests -> 0..MaxLooks]
    /\ download \in {"none", "reading", "complete", "broken", "cancelled"}
    /\ cause \in {"none", "eof", "ttl", "cancel"}

Init ==
    /\ page = "asking" /\ sent = 0 /\ eof = FALSE
    /\ worker = "none" /\ ready = FALSE /\ entry = FALSE /\ timer = FALSE
    /\ taken = 0 /\ stream = "none" /\ cause = "none"
    /\ request = [r \in Requests |-> "none"]
    /\ looks = [r \in Requests |-> 0]
    /\ read = 0 /\ download = "none"

-----------------------------------------------------------------------------
(* The page. *)

\* No controller, WebKit, or the registration is not ready within ten seconds.
NoPipe ==
    /\ page = "asking"
    /\ page' = "fallback"
    /\ UNCHANGED <<sent, eof, ready, taken, stream, pipeVars, fetchVars, readerVars>>

PostInit ==
    /\ page = "asking"
    /\ page' = "confirming"
    /\ worker' = "starting"
    /\ UNCHANGED <<sent, eof, ready, entry, timer, cause, taken, stream, fetchVars, readerVars>>

\* readyPromise is rejected after ten seconds; the worker may open the pipe all the same.
ConfirmTimesOut ==
    /\ page = "confirming"
    /\ page' = "fallback"
    /\ UNCHANGED <<sent, eof, ready, taken, stream, pipeVars, fetchVars, readerVars>>

\* READY arrives: the iframe navigates to the URL and the caller gets the port.
UsePipe ==
    /\ page = "confirming" /\ ready
    /\ page' = "writing"
    /\ request' = [request EXCEPT ![1] = "asked"]
    /\ UNCHANGED <<sent, eof, ready, taken, stream, pipeVars, looks, readerVars>>

\* The timer that removes the iframe overtakes its request.
RemoveIframe ==
    /\ request[1] = "asked"
    /\ request' = [request EXCEPT ![1] = "dropped"]
    /\ UNCHANGED <<pageVars, ready, taken, stream, pipeVars, looks, readerVars>>

Post ==
    /\ page = "writing" /\ sent < Size
    /\ sent' = sent + 1
    /\ UNCHANGED <<page, eof, ready, taken, stream, pipeVars, fetchVars, readerVars>>

\* The last unit is out: EOF is posted and the page reports the transfer complete.
PostEOF ==
    /\ page = "writing" /\ sent = Size
    /\ eof' = TRUE
    /\ page' = "done"
    /\ UNCHANGED <<sent, ready, taken, stream, pipeVars, fetchVars, readerVars>>

\* Faulty variant of PageFails: the port is closed with an EOF.
PageFailsWithEOF ==
    /\ page = "writing"
    /\ page' = "failed"
    /\ eof' = TRUE
    /\ UNCHANGED <<sent, ready, taken, stream, pipeVars, fetchVars, readerVars>>

\* The transfer fails; nothing tells the worker.
PageFails ==
    /\ page = "writing"
    /\ page' = "failed"
    /\ UNCHANGED <<sent, eof, ready, taken, stream, pipeVars, fetchVars, readerVars>>

-----------------------------------------------------------------------------
(* The worker: the handler of INIT_PORT and those of the port. *)

\* cleanup: the entry and the timer go and the port is closed.
Cleanup(why) ==
    /\ worker' = "closed"
    /\ entry' = FALSE
    /\ timer' = FALSE
    /\ cause' = why

InitPort ==
    /\ worker = "starting"
    /\ worker' = "open"
    /\ stream' = "readable"
    /\ entry' = TRUE
    /\ timer' = TRUE
    /\ ready' = TRUE
    /\ UNCHANGED <<pageVars, taken, cause, fetchVars, readerVars>>

\* Faulty variant of TakeUnit: units are taken whether they were sent or not.
TakeUnitUnsent ==
    /\ worker = "open"
    /\ taken' = taken + 1
    /\ UNCHANGED <<pageVars, ready, stream, pipeVars, fetchVars, readerVars>>

\* A unit: controller.enqueue, which cannot throw, for whoever closes the stream
\* closes the port in the same step.
TakeUnit ==
    /\ worker = "open" /\ taken < sent
    /\ taken' = taken + 1
    /\ UNCHANGED <<pageVars, ready, stream, pipeVars, fetchVars, readerVars>>

\* Faulty variant of TakeEOF: the port is closed, the stream is not.
TakeEOFUnclosed ==
    /\ worker = "open" /\ eof /\ taken = sent
    /\ Cleanup("eof")
    /\ UNCHANGED <<pageVars, ready, taken, stream, fetchVars, readerVars>>

\* EOF: the stream ends behind what is queued, and cleanup forgets the URL even if
\* nobody has asked for it yet.
TakeEOF ==
    /\ worker = "open" /\ eof /\ taken = sent
    /\ stream' = "closing"
    /\ Cleanup("eof")
    /\ UNCHANGED <<pageVars, ready, taken, fetchVars, readerVars>>

Expire ==
    /\ timer
    /\ stream' = "errored"
    /\ Cleanup("ttl")
    /\ UNCHANGED <<pageVars, ready, taken, fetchVars, readerVars>>

\* The browser stops the worker: streamMap, timers, streams and waiting requests are gone.
WorkerStops ==
    /\ worker \in {"open", "closed"}
    /\ worker' = "stopped"
    /\ entry' = FALSE
    /\ timer' = FALSE
    /\ stream' = "errored"
    /\ request' = [r \in Requests |-> IF request[r] = "looking" THEN "missed" ELSE request[r]]
    /\ UNCHANGED <<pageVars, ready, taken, looks, readerVars, cause>>

-----------------------------------------------------------------------------
(* The worker: requests for the URL of the pipe. *)

\* Faulty variant of Serve: the timer keeps running.
ServeTimed(r) ==
    /\ entry
    /\ entry' = FALSE
    /\ request' = [request EXCEPT ![r] = "served"]
    /\ download' = "reading"
    /\ UNCHANGED <<pageVars, ready, taken, stream, worker, timer, cause, looks, read>>

\* The entry is taken out of the map, its timer stopped, its stream becomes the body.
Serve(r) ==
    /\ entry
    /\ entry' = FALSE
    /\ timer' = FALSE
    /\ request' = [request EXCEPT ![r] = "served"]
    /\ download' = "reading"
    /\ UNCHANGED <<pageVars, ready, taken, stream, worker, cause, looks, read>>

FetchServed(r) == request[r] = "asked" /\ Serve(r)

\* Nothing there: look again every 100 ms, MaxLooks times.  No look finds anything: the
\* iframe navigates after READY, when the entry is set, and an entry does not come back.
FetchWaits(r) ==
    /\ request[r] = "asked" /\ ~entry
    /\ request' = [request EXCEPT ![r] = "looking"]
    /\ looks' = [looks EXCEPT ![r] = MaxLooks]
    /\ UNCHANGED <<pageVars, ready, taken, stream, pipeVars, readerVars>>

LookFails(r) ==
    /\ request[r] = "looking" /\ ~entry
    /\ looks' = [looks EXCEPT ![r] = @ - 1]
    /\ request' = [request EXCEPT ![r] = IF looks[r] = 1 THEN "missed" ELSE @]
    /\ UNCHANGED <<pageVars, ready, taken, stream, pipeVars, readerVars>>

\* The browser asks for the same URL once more, a reload or a download tried again.
AskAgain(r) ==
    /\ r > 1 /\ request[r] = "none" /\ request[r - 1] \in {"served", "missed"}
    /\ request' = [request EXCEPT ![r] = "asked"]
    /\ UNCHANGED <<pageVars, ready, taken, stream, pipeVars, looks, readerVars>>

-----------------------------------------------------------------------------
(* The browser's download of the response. *)

Deliver ==
    /\ download = "reading" /\ stream # "errored" /\ read < taken
    /\ read' = read + 1
    /\ UNCHANGED <<pageVars, ready, taken, stream, pipeVars, fetchVars, download>>

Complete ==
    /\ download = "reading" /\ stream = "closing" /\ read = taken
    /\ download' = "complete"
    /\ UNCHANGED <<pageVars, ready, taken, stream, pipeVars, fetchVars, read>>

Break ==
    /\ download = "reading" /\ stream = "errored"
    /\ download' = "broken"
    /\ UNCHANGED <<pageVars, ready, taken, stream, pipeVars, fetchVars, read>>

\* The user cancels: the stream's cancel posts CANCEL, which app.js ignores, and
\* cleans up unless that has happened.
Cancel ==
    /\ download = "reading" /\ stream # "errored"
    /\ download' = "cancelled"
    /\ IF worker = "open" THEN Cleanup("cancel") ELSE UNCHANGED pipeVars
    /\ UNCHANGED <<pageVars, ready, taken, stream, fetchVars, read>>

-----------------------------------------------------------------------------
PageWrites == Post \/ PostEOF \/ PageFails
PortStep   == InitPort \/ TakeUnit \/ TakeEOF
Answer(r)  == FetchServed(r) \/ FetchWaits(r) \/ LookFails(r)
Reader     == Deliver \/ Complete \/ Break

Next ==
    \/ NoPipe \/ PostInit \/ ConfirmTimesOut \/ UsePipe \/ RemoveIframe
    \/ PageWrites \/ PortStep \/ Expire \/ WorkerStops
    \/ \E r \in Requests : Answer(r) \/ AskAgain(r)
    \/ Reader \/ Cancel

Spec == Init /\ [][Next]_vars

\* A port delivers, a timer fires, a request in the worker goes on, a page that writes
\* ends or fails, a download reads.  Nobody is owed a pipe, a request or a stopped worker.
FairSpec ==
    /\ Spec
    /\ WF_vars(PageWrites) /\ WF_vars(PortStep) /\ WF_vars(Expire) /\ WF_vars(Reader)
    /\ \A r \in Requests : WF_vars(Answer(r))

-----------------------------------------------------------------------------
(* Properties. *)

\* A download the browser shows as finished has every unit of the file: no way for a
\* pipe to end but EOF looks like an end to its reader (sw.js 47-106).
CompleteMeansWhole == download = "complete" => read = Size /\ page = "done"

\* What the browser's download has: units come out of the stream in the order they went in.
Body == [i \in 1..read |-> i - 1]

Delivery == INSTANCE FileDelivery
    WITH from <- 0, written <- Body, saved <- (download = "complete"), failed <- FALSE

\* Page, worker and requests together deliver the file to the browser's download: its units
\* one behind another, and a complete download only behind the last of them.
DeliversFile == Delivery!Spec

\* A file the page reports as complete is with the browser, or the user cancelled, or
\* the worker was stopped, or the pipe ended before its request was answered: by the
\* EOF of a file that was faster than the iframe, or by age.  A pipe whose stream was
\* handed out does not grow old any more.
LossExplained ==
    page = "done" /\ worker \notin {"starting", "open"}
      => \/ download \in {"complete", "reading"}
         \/ download = "cancelled"
         \/ worker = "stopped"
         \/ cause \in {"eof", "ttl"} /\ ~Served

\* A download that began ends, unless the page has failed without a word to the worker,
\* and streamMap keeps no entry for ever, whatever became of the page (STREAM_TTL_MS).
PipeEnds ==
    /\ download = "reading" ~> (download # "reading" \/ page = "failed")
    /\ entry ~> ~entry
=============================================================================
