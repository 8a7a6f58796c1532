------------------------------ MODULE P2PSession ------------------------------
(***************************************************************************)
(* A download over one WebRTC data channel, both ends of it: the handler   *)
(* that `beam` installs on the channel (cmd/beam/main.go, session.OnOpen)  *)
(* with its pauseController and the goroutine an OFFSET starts, and the    *)
(* browser's SequentialChunkQueue (assets/web/app.js).  The browser sends  *)
(* PAUSE and RESUME as its queue fills and empties.  The channel is        *)
(* reliable and ordered until it is lost.  The file is the units           *)
(* 0 .. Size-1; a chunk is one unit, a message one unit of BufferedAmount. *)
(***************************************************************************)
EXTENDS Integers, Sequences

CONSTANTS
    Size,           \* units in the file
    Requests,       \* OFFSET messages the peer sends, a bound
    HighWater,      \* messages buffered above which the sender waits
    LowWater,       \* ... and at which it goes on
    QHigh, QLow,    \* highWatermark and lowWatermark of the chunk queue
    None            \* no chunk in the hands of the write handler

ASSUME SizesAssumption ==
    /\ Size \in Nat
    /\ Requests \in Nat
    /\ LowWater \in Nat /\ HighWater \in Nat \ {0} /\ LowWater <= HighWater
    /\ QLow \in Nat /\ QHigh \in Nat /\ QLow < QHigh
ASSUME NoneAssumption == None \notin 0..Size

VARIABLES
    \* the channel
    up,             \* messages on their way to the sender
    buffer,         \* messages the sender's end still holds (BufferedAmount)
    wire,           \* messages that left it and the browser has not seen
    txOpen, rxOpen, \* ReadyState at the two ends
    \* the sender
    streaming,      \* isStreaming
    paused, closed, \* the pauseController
    worker,         \* where the goroutine of the last OFFSET stands
    pos,            \* its next unit
    \* the browser
    asked,          \* the OFFSETs sent, in order
    queue,          \* chunks to write
    inHand,         \* the chunk writeHandler is writing
    totalBytes,     \* as the queue counts them
    isPaused, isEOF, isDrained, error,
    written,        \* what is on the disk, in order
    outcome,        \* the promise of the transfer
    saved,          \* the file was handed to the user
    \* history
    sincePause,     \* chunks sent since the sender was last told to pause
    from,           \* the offset of the stream that may still send
    failed          \* the sender could not open or read the file

channelVars == <<up, buffer, wire, txOpen, rxOpen>>
senderVars  == <<streaming, paused, closed, worker, pos, sincePause, from, failed>>
queueVars   == <<queue, inHand, totalBytes, isPaused, isEOF, isDrained, error>>
browserVars == <<asked, queueVars, written, outcome, saved>>
vars == <<channelVars, senderVars, browserVars>>

Units    == 0..Size-1
Control  == [kind : {"OFFSET"}, at : 0..Size] \cup [kind : {"PAUSE", "RESUME"}, at : {0}]
Messages == [kind : {"META", "EOF"}, at : 0..Size] \cup [kind : {"chunk"}, at : Units]
Labels   == {"idle", "open", "meta", "pressure", "wait", "paused", "read", "flush", "eof"}
ToPause  == [kind |-> "PAUSE", at |-> 0]
ToResume == [kind |-> "RESUME", at |-> 0]

TypeOK ==
    /\ up \in Seq(Control)
    /\ buffer \in Seq(Messages) /\ wire \in Seq(Messages)
    /\ txOpen \in BOOLEAN /\ rxOpen \in BOOLEAN
    /\ streaming \in BOOLEAN /\ paused \in BOOLEAN /\ closed \in BOOLEAN
    /\ worker \in Labels
    /\ pos \in 0..Size
    /\ asked \in Seq(0..Size) /\ Len(asked) <= Requests
    /\ queue \in Seq(Units) /\ inHand \in Units \cup {None}
    /\ totalBytes \in Nat
    /\ isPaused \in BOOLEAN /\ isEOF \in BOOLEAN /\ isDrained \in BOOLEAN
    /\ error \in BOOLEAN
    /\ written \in Seq(Units)
    /\ outcome \in {"waiting", "resolved", "rejected"}
    /\ saved \in BOOLEAN
    /\ sincePause \in Nat /\ from \in 0..Size /\ failed \in BOOLEAN

Init ==
    /\ up = <<>> /\ buffer = <<>> /\ wire = <<>>
    /\ txOpen = TRUE /\ rxOpen = TRUE
    /\ streaming = FALSE /\ paused = FALSE /\ closed = FALSE
    /\ worker = "idle" /\ pos = 0
    /\ asked = <<>>
    /\ queue = <<>> /\ inHand = None /\ totalBytes = 0
    /\ isPaused = FALSE /\ isEOF = FALSE /\ isDrained = FALSE /\ error = FALSE
    /\ written = <<>> /\ outcome = "waiting" /\ saved = FALSE
    /\ sincePause = 0 /\ from = 0 /\ failed = FALSE

-----------------------------------------------------------------------------
(* The sender: one message of the peer at a time.                          *)

\* dc.OnMessage, PAUSE and RESUME.
Pause ==
    /\ Head(up) = ToPause
    /\ paused' = TRUE
    /\ sincePause' = 0
    /\ UNCHANGED <<streaming, worker, pos, closed, from, failed>>

Resume ==
    /\ Head(up) = ToResume
    /\ paused' = FALSE
    /\ sincePause' = 0
    /\ UNCHANGED <<streaming, worker, pos, closed, from, failed>>

\* dc.OnMessage, OFFSET: one stream at a time; the others are ignored.
StartStream ==
    /\ Head(up).kind = "OFFSET"
    /\ IF streaming
       THEN UNCHANGED <<streaming, worker, pos>>
       ELSE /\ streaming' = TRUE
            /\ worker' = "open"
            /\ pos' = Head(up).at
    /\ UNCHANGED <<paused, closed, sincePause, from, failed>>

OnMessage ==
    /\ txOpen /\ up # <<>>
    /\ up' = Tail(up)
    /\ Pause \/ Resume \/ StartStream
    /\ UNCHANGED <<buffer, wire, txOpen, rxOpen, browserVars>>

-----------------------------------------------------------------------------
(* The sender's goroutine.  Nothing cancels its context: the handler of    *)
(* OnClose that would is replaced by a second one that has nothing to      *)
(* cancel (pion keeps one handler), so its ctx.Done() is never ready.      *)

Goto(label) == worker' = label /\ UNCHANGED <<streaming, closed>>

\* Faulty variant of Return: the pause control stays open.
ReturnUnclosed == worker' = "idle" /\ streaming' = FALSE /\ UNCHANGED closed

\* The deferred calls: pauseCtrl.Close and isStreaming.Store(false).
Return == worker' = "idle" /\ closed' = TRUE /\ streaming' = FALSE

\* os.Open and Seek.  A file that cannot be opened leaves pauseCtrl alone.
OpenFile ==
    /\ worker = "open"
    /\ \/ /\ Goto("meta")
          /\ from' = IF closed THEN from ELSE pos
          /\ UNCHANGED failed
       \/ /\ worker' = "idle" /\ streaming' = FALSE
          /\ failed' = TRUE
          /\ UNCHANGED <<closed, from>>
    /\ UNCHANGED <<paused, pos, sincePause, channelVars, browserVars>>

\* dc.Send and dc.SendText.
Send(kind) == buffer' = Append(buffer, [kind |-> kind, at |-> pos])

SendMeta ==
    /\ worker = "meta"
    /\ IF txOpen THEN Send("META") /\ Goto("pressure")
                 ELSE Return /\ UNCHANGED buffer
    /\ UNCHANGED <<up, wire, txOpen, rxOpen, paused, pos, sincePause, from, failed, browserVars>>

Backpressure ==
    /\ worker = "pressure"
    /\ Goto(IF Len(buffer) > HighWater THEN "wait" ELSE "paused")
    /\ UNCHANGED <<channelVars, paused, pos, sincePause, from, failed, browserVars>>

\* Faulty variant of WaitLow: the state of the channel is not looked at.
WaitLowBlindly ==
    /\ worker = "wait"
    /\ Len(buffer) <= LowWater
    /\ Goto("paused")
    /\ UNCHANGED <<channelVars, paused, pos, sincePause, from, failed, browserVars>>

\* waitForBufferLow(512 KB): the low-buffer event, with a ticker behind it.
WaitLow ==
    /\ worker = "wait"
    /\ \/ Len(buffer) <= LowWater /\ Goto("paused")
       \/ ~txOpen /\ Return
    /\ UNCHANGED <<channelVars, paused, pos, sincePause, from, failed, browserVars>>

WaitIfPaused ==
    /\ worker = "paused"
    /\ ~paused \/ closed
    /\ IF closed THEN Return ELSE Goto("read")
    /\ UNCHANGED <<channelVars, paused, pos, sincePause, from, failed, browserVars>>

\* Faulty variants of SendChunk: on to the next Read past the pause control, and
\* one Read too many.
SendChunkUnpaused ==
    /\ worker = "read"
    /\ pos < Size
    /\ IF txOpen
       THEN /\ Send("chunk")
            /\ pos' = pos + 1
            /\ sincePause' = IF paused THEN sincePause + 1 ELSE 0
            /\ Goto("read")
       ELSE Return /\ UNCHANGED <<buffer, pos, sincePause>>
    /\ UNCHANGED <<up, wire, txOpen, rxOpen, paused, from, failed, browserVars>>

SendChunkPastEnd ==
    /\ worker = "read"
    /\ pos <= Size
    /\ IF txOpen
       THEN /\ Send("chunk")
            /\ pos' = pos + 1
            /\ sincePause' = IF paused THEN sincePause + 1 ELSE 0
            /\ Goto("pressure")
       ELSE Return /\ UNCHANGED <<buffer, pos, sincePause>>
    /\ UNCHANGED <<up, wire, txOpen, rxOpen, paused, from, failed, browserVars>>

\* file.Read and dc.Send.  The end of the file and an error look alike.
SendChunk ==
    /\ worker = "read"
    /\ pos < Size
    /\ IF txOpen
       THEN /\ Send("chunk")
            /\ pos' = pos + 1
            /\ sincePause' = IF paused THEN sincePause + 1 ELSE 0
            /\ Goto("pressure")
       ELSE Return /\ UNCHANGED <<buffer, pos, sincePause>>
    /\ UNCHANGED <<up, wire, txOpen, rxOpen, paused, from, failed, browserVars>>

ReadEnds ==
    /\ worker = "read"
    /\ Goto("flush")
    /\ failed' = (failed \/ pos < Size)
    /\ UNCHANGED <<channelVars, paused, pos, sincePause, from, browserVars>>

\* waitForBufferLow(0).
Flush ==
    /\ worker = "flush"
    /\ \/ buffer = <<>> /\ Goto("eof")
       \/ buffer # <<>> /\ ~txOpen /\ Return
    /\ UNCHANGED <<channelVars, paused, pos, sincePause, from, failed, browserVars>>

SendEOF ==
    /\ worker = "eof"
    /\ IF txOpen THEN Send("EOF") ELSE UNCHANGED buffer
    /\ Return
    /\ UNCHANGED <<up, wire, txOpen, rxOpen, paused, pos, sincePause, from, failed, browserVars>>

WorkerStep ==
    \/ OpenFile
    \/ SendMeta
    \/ Backpressure
    \/ WaitLow
    \/ WaitIfPaused
    \/ SendChunk
    \/ ReadEnds
    \/ Flush
    \/ SendEOF

-----------------------------------------------------------------------------
(* The browser.                                                            *)

\* startWebRTC: ask for the file.  app.js asks once on a channel; a peer that
\* asks again is a retry.
Ask(offset) ==
    /\ Len(asked) < Requests
    /\ rxOpen
    /\ asked' = Append(asked, offset)
    /\ up' = Append(up, [kind |-> "OFFSET", at |-> offset])
    /\ UNCHANGED <<buffer, wire, txOpen, rxOpen, senderVars, queueVars, written, outcome, saved>>

\* dataChannel.send of the queue, on an open channel.
Signal(message) == up' = IF rxOpen THEN Append(up, message) ELSE up

\* The part of _processLoop up to its first await: take the next chunk, or, at
\* the end of the queue, settle the drain promise.  q is the queue it finds.
ProcessLoop(q) ==
    IF q # <<>>
    THEN /\ inHand' = Head(q) /\ queue' = Tail(q)
         /\ UNCHANGED isDrained
    ELSE /\ inHand' = None /\ queue' = q
         /\ isDrained' = (isDrained \/ isEOF')

\* Faulty variant of EnqueueChunk: a paused queue takes nothing.
EnqueueChunkUnlessPaused(unit) ==
    /\ IF error \/ isEOF \/ isPaused
       THEN UNCHANGED <<up, queueVars>>
       ELSE /\ totalBytes' = totalBytes + 1
            /\ IF totalBytes' >= QHigh
               THEN isPaused' = TRUE /\ Signal(ToPause)
               ELSE UNCHANGED <<isPaused, up>>
            /\ UNCHANGED <<isEOF, error>>
            /\ IF inHand = None
               THEN ProcessLoop(Append(queue, unit))
               ELSE queue' = Append(queue, unit) /\ UNCHANGED <<inHand, isDrained>>

\* enqueue.
EnqueueChunk(unit) ==
    /\ IF error \/ isEOF
       THEN UNCHANGED <<up, queueVars>>
       ELSE /\ totalBytes' = totalBytes + 1
            /\ IF totalBytes' >= QHigh /\ ~isPaused
               THEN isPaused' = TRUE /\ Signal(ToPause)
               ELSE UNCHANGED <<isPaused, up>>
            /\ UNCHANGED <<isEOF, error>>
            /\ IF inHand = None
               THEN ProcessLoop(Append(queue, unit))
               ELSE queue' = Append(queue, unit) /\ UNCHANGED <<inHand, isDrained>>

\* Faulty variant of EnqueueEOF: an idle queue is not told.
EnqueueEOFSilently ==
    /\ isEOF' = (isEOF \/ ~error)
    /\ UNCHANGED <<up, queue, inHand, totalBytes, isPaused, isDrained, error>>

\* enqueueEOF, and the look drain takes at an idle queue.
EnqueueEOF ==
    /\ IF error
       THEN UNCHANGED queueVars
       ELSE /\ isEOF' = TRUE
            /\ UNCHANGED <<totalBytes, isPaused, error>>
            /\ IF inHand = None
               THEN ProcessLoop(queue)
               ELSE UNCHANGED <<queue, inHand, isDrained>>
    /\ UNCHANGED up

\* dc.onmessage: META is not looked at.
Receive ==
    /\ rxOpen /\ wire # <<>>
    /\ wire' = Tail(wire)
    /\ LET m == Head(wire) IN
       \/ m.kind = "META" /\ UNCHANGED <<up, queueVars>>
       \/ m.kind = "chunk" /\ EnqueueChunk(m.at)
       \/ m.kind = "EOF" /\ EnqueueEOF
    /\ UNCHANGED <<buffer, txOpen, rxOpen, senderVars, asked, written, outcome, saved>>

\* Faulty variant of WriteDone: the sender is not told.
WriteDoneSilently ==
    /\ inHand # None
    /\ written' = Append(written, inHand)
    /\ totalBytes' = totalBytes - 1
    /\ isPaused' = (isPaused /\ totalBytes' > QLow)
    /\ UNCHANGED <<isEOF, error>>
    /\ ProcessLoop(queue)
    /\ UNCHANGED <<channelVars, senderVars, asked, outcome, saved>>

\* writeHandler ends: count the chunk out, RESUME, and on to the next one.
WriteDone ==
    /\ inHand # None
    /\ written' = Append(written, inHand)
    /\ totalBytes' = totalBytes - 1
    /\ IF isPaused /\ totalBytes' <= QLow
       THEN isPaused' = FALSE /\ Signal(ToResume)
       ELSE UNCHANGED <<isPaused, up>>
    /\ UNCHANGED <<isEOF, error>>
    /\ ProcessLoop(queue)
    /\ UNCHANGED <<buffer, wire, txOpen, rxOpen, senderVars, asked, outcome, saved>>

Settle(result) == outcome' = IF outcome = "waiting" THEN result ELSE outcome

\* writeHandler throws: the queue stops and onError closes the channel.
WriteFails ==
    /\ inHand # None
    /\ error' = TRUE
    /\ inHand' = None
    /\ rxOpen' = FALSE /\ wire' = <<>>
    /\ Settle("rejected")
    /\ UNCHANGED <<up, buffer, txOpen, senderVars, asked, queue, totalBytes, isPaused,
                   isEOF, isDrained, written, saved>>

\* What waits for drain(): close the file, hand it to the user, and close the
\* connection once startWebRTC goes on.
Save ==
    /\ isDrained /\ ~saved
    /\ saved' = TRUE
    /\ Settle("resolved")
    /\ IF outcome' = "resolved" THEN rxOpen' = FALSE /\ wire' = <<>>
                                ELSE UNCHANGED <<rxOpen, wire>>
    /\ UNCHANGED <<up, buffer, txOpen, senderVars, asked, queueVars, written>>

-----------------------------------------------------------------------------
(* The channel.                                                            *)

Transmit ==
    /\ buffer # <<>> /\ txOpen
    /\ wire' = IF rxOpen THEN Append(wire, Head(buffer)) ELSE wire
    /\ buffer' = Tail(buffer)
    /\ UNCHANGED <<up, txOpen, rxOpen, senderVars, browserVars>>

\* The sender's end closes, and what it held stays where it is.  The handler
\* installed last finds no transfer to cancel.
TxCloses ==
    /\ txOpen
    /\ txOpen' = FALSE
    /\ up' = <<>>
    /\ UNCHANGED <<buffer, wire, rxOpen, senderVars, browserVars>>

\* The first request, which app.js measures its progress from.
InitialOffset == IF asked = <<>> THEN 0 ELSE asked[1]
ReceivedAll == InitialOffset + Len(written) >= Size

\* The browser's end closes, with an error event or without; dc.onclose rejects
\* only if bytes are missing.
RxCloses ==
    /\ rxOpen
    /\ rxOpen' = FALSE /\ wire' = <<>>
    /\ \/ Settle("rejected")
       \/ ReceivedAll /\ UNCHANGED outcome
    /\ UNCHANGED <<up, buffer, txOpen, senderVars, asked, queueVars, written, saved>>

Next ==
    \/ OnMessage
    \/ WorkerStep
    \/ \E offset \in 0..Size : Ask(offset)
    \/ Receive
    \/ WriteDone
    \/ WriteFails
    \/ Save
    \/ Transmit
    \/ TxCloses
    \/ RxCloses

Spec == Init /\ [][Next]_vars

\* Goroutines and event handlers run, an open channel moves its messages, a
\* disk answers, and an end notices that the other one is gone.
Fairness ==
    /\ WF_vars(OnMessage) /\ WF_vars(WorkerStep)
    /\ WF_vars(Receive) /\ WF_vars(WriteDone) /\ WF_vars(Save)
    /\ WF_vars(Transmit)
    /\ WF_vars(~rxOpen /\ TxCloses) /\ WF_vars(~txOpen /\ RxCloses)

FairSpec == Spec /\ Fairness

-----------------------------------------------------------------------------
(* Properties.                                                             *)

\* Once the sender has seen PAUSE at most one more chunk goes out, the one its
\* goroutine was about to read when the message came.
PauseTakesHold == sincePause <= 1

\* A sender held by a PAUSE is one the browser will release: the queue is still
\* over its mark, or the RESUME is on its way, or an end of the channel is gone.
NoLostResume == paused /\ txOpen /\ rxOpen =>
        isPaused \/ \E i \in DOMAIN up : up[i] = ToResume

\* The buffer passes the high-water mark by one message.
BufferBounded == Len(buffer) <= HighWater + 1

\* However often the peer asks, nothing but META follows an EOF, so that the
\* queue may ignore all that comes after one.
NothingAfterEOF ==
    LET down == wire \o buffer IN
    \A i, j \in DOMAIN down :
        /\ i < j /\ down[i].kind = "EOF" => down[j].kind = "META"
        /\ isEOF => down[j].kind = "META"

\* The file handed to the user is the whole rest of the file, in order, unless
\* the sender could not read it.
SavedIsWhole ==
    saved /\ ~failed => written = [i \in 1..(Size - from) |-> from + i - 1]

Delivery == INSTANCE FileDelivery
    WITH from <- from, written <- written, saved <- saved, failed <- failed

\* The two ends of the channel with all that lies between them deliver the file: units
\* reach the disk one behind another from the offset of the stream, and what is handed to
\* the user is whole unless the sender could not read it.
DeliversFile == Delivery!Spec

\* A download that was asked for is settled, with two exceptions: the sender
\* could not open the file, which it does not tell, or the channel was closed
\* when only the EOF was missing, which onclose does not notice.
DownloadEnds ==
    asked # <<>> ~> outcome # "waiting" \/ failed \/ (~rxOpen /\ ReceivedAll)

\* The sender's goroutine ends, except that a PAUSE outlives the channel.
WorkerEnds == streaming ~> ~streaming \/ (paused /\ ~txOpen)

=============================================================================
