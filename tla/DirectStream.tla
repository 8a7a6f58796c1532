---------------------------- MODULE DirectStream ----------------------------
(***************************************************************************)
(* Streaming a file over a WebRTC data channel with restarts: every OFFSET *)
(* of the receiver starts a new worker goroutine and cancels the one       *)
(* before it without waiting for it to end.  Two implementations differ in *)
(* where they look at their context: internal/stream (Manager, isManager)  *)
(* and internal/p2p (StreamSender).  The file is the units 0 .. Size-1, a  *)
(* message on the channel counts as one unit buffered.                     *)
(***************************************************************************)
EXTENDS Integers, Sequences, FiniteSets

CONSTANTS
    NWorkers,       \* calls of StartStream, a bound
    Size,           \* units in the file
    HighWater,      \* messages buffered above which a worker stops reading
    LowWater        \* ... and at which it goes on

ASSUME SizesAssumption ==
    /\ NWorkers \in Nat
    /\ Size \in Nat
    /\ LowWater \in Nat
    /\ HighWater \in Nat
    /\ LowWater <= HighWater

Workers == 1..NWorkers

VARIABLES
    isManager,      \* which implementation it is
    readsMayFail,   \* whether the disk may fail in the middle of the file
    current,        \* the worker started last, 0 before the first
    offset,         \* the position each worker is asked to start from
    pc,             \* where each worker stands
    cancelled,      \* its context is done
    pos,            \* the next unit it reads
    buffered,       \* dc.BufferedAmount()
    dcOpen,         \* the channel accepts messages
    wire,           \* everything the channel accepted, in order
    stale           \* messages each worker sent after its cancellation

setup == <<isManager, readsMayFail>>
vars == <<setup, current, offset, pc, cancelled, pos, buffered, dcOpen, wire, stale>>
channelVars == <<buffered, dcOpen, wire, stale>>

Labels == {"idle", "open", "meta", "check", "pressure", "wait", "check2", "read",
           "send", "flush", "eof", "complete", "ended"}

Messages == [kind : {"META", "chunk", "EOF"}, from : Workers, at : 0..Size]

TypeOK ==
    /\ isManager \in BOOLEAN /\ readsMayFail \in BOOLEAN
    /\ current \in 0..NWorkers
    /\ offset \in [Workers -> 0..Size]
    /\ pc \in [Workers -> Labels]
    /\ cancelled \in [Workers -> BOOLEAN]
    /\ pos \in [Workers -> 0..Size]
    /\ buffered \in Nat
    /\ dcOpen \in BOOLEAN
    /\ wire \in Seq(Messages)
    /\ stale \in [Workers -> Nat]

Init ==
    /\ isManager \in BOOLEAN /\ readsMayFail \in BOOLEAN
    /\ current = 0
    /\ offset \in [Workers -> 0..Size]
    /\ pc = [w \in Workers |-> "idle"]
    /\ cancelled = [w \in Workers |-> FALSE]
    /\ pos = [w \in Workers |-> 0]
    /\ buffered = 0
    /\ dcOpen = TRUE
    /\ wire = <<>>
    /\ stale = [w \in Workers |-> 0]

-----------------------------------------------------------------------------
(* The owner of the channel.                                               *)

\* Faulty variant of StartStream: the file is not positioned at the offset.
StartStreamAtZero ==
    /\ current < NWorkers
    /\ current' = current + 1
    /\ cancelled' = [w \in Workers |-> w <= current \/ cancelled[w]]
    /\ pc' = [pc EXCEPT ![current + 1] = "open"]
    /\ UNCHANGED <<setup, offset, pos, channelVars>>

\* StartStream: cancel the worker before, start the next one.
StartStream ==
    /\ current < NWorkers
    /\ current' = current + 1
    /\ cancelled' = [w \in Workers |-> w <= current \/ cancelled[w]]
    /\ pc' = [pc EXCEPT ![current + 1] = "open"]
    /\ pos' = [pos EXCEPT ![current + 1] = offset[current + 1]]
    /\ UNCHANGED <<setup, offset, channelVars>>

\* Stop, or the end of the parent context.
Stop ==
    /\ current > 0
    /\ ~cancelled[current]
    /\ cancelled' = [cancelled EXCEPT ![current] = TRUE]
    /\ UNCHANGED <<setup, current, offset, pc, pos, channelVars>>

-----------------------------------------------------------------------------
(* A worker.  Reading the context, testing BufferedAmount, reading the     *)
(* file and sending are separate steps.                                    *)

Goto(w, label) == pc' = [pc EXCEPT ![w] = label]

\* os.Open and Seek; the Manager then looks at its context once.
OpenFile(w) ==
    /\ pc[w] = "open"
    /\ \/ Goto(w, IF isManager /\ cancelled[w] THEN "ended" ELSE "meta")
       \/ Goto(w, "ended")
    /\ UNCHANGED <<setup, current, offset, cancelled, pos, channelVars>>

\* dc.Send and dc.SendText: an error ends the worker.
Send(w, kind, next) ==
    /\ IF dcOpen
       THEN /\ wire' = Append(wire, [kind |-> kind, from |-> w, at |-> pos[w]])
            /\ buffered' = buffered + 1
            /\ stale' = [stale EXCEPT ![w] = IF cancelled[w] THEN @ + 1 ELSE @]
            /\ Goto(w, next)
       ELSE /\ Goto(w, "ended")
            /\ UNCHANGED <<wire, buffered, stale>>
    /\ UNCHANGED <<setup, current, offset, cancelled, dcOpen>>

SendMeta(w) ==
    /\ pc[w] = "meta"
    /\ Send(w, "META", "check")
    /\ UNCHANGED pos

\* The select at the top of the loop.
CheckContext(w) ==
    /\ pc[w] = "check"
    /\ Goto(w, IF cancelled[w] THEN "ended" ELSE "pressure")
    /\ UNCHANGED <<setup, current, offset, cancelled, pos, channelVars>>

\* The Manager looks at its context again before it reads, the sender does not.
Unpressed == IF isManager THEN "check2" ELSE "read"

\* Faulty variant of Backpressure: a full buffer holds nobody back.
NoBackpressure(w) ==
    /\ pc[w] = "pressure"
    /\ Goto(w, Unpressed)
    /\ UNCHANGED <<setup, current, offset, cancelled, pos, channelVars>>

Backpressure(w) ==
    /\ pc[w] = "pressure"
    /\ Goto(w, IF buffered > HighWater THEN "wait" ELSE Unpressed)
    /\ UNCHANGED <<setup, current, offset, cancelled, pos, channelVars>>

\* Faulty variant of WaitLow: only the moment at LowWater is noticed.
WaitLowExactly(w) ==
    /\ pc[w] = "wait"
    /\ \/ buffered = LowWater /\ Goto(w, Unpressed)
       \/ cancelled[w] /\ Goto(w, "ended")
    /\ UNCHANGED <<setup, current, offset, cancelled, pos, channelVars>>

\* Polling, or the low-buffer event with a ticker behind it.
WaitLow(w) ==
    /\ pc[w] = "wait"
    /\ \/ buffered <= LowWater /\ Goto(w, Unpressed)
       \/ cancelled[w] /\ Goto(w, "ended")
    /\ UNCHANGED <<setup, current, offset, cancelled, pos, channelVars>>

CheckAgain(w) ==
    /\ pc[w] = "check2"
    /\ Goto(w, IF cancelled[w] THEN "ended" ELSE "read")
    /\ UNCHANGED <<setup, current, offset, cancelled, pos, channelVars>>

\* Faulty variants of ReadFile: one unit too many, one too few, and an error
\* taken for the end of the file.
ReadPastEnd(w) ==
    /\ pc[w] = "read"
    /\ Goto(w, IF pos[w] <= Size THEN "send" ELSE "flush")
    /\ UNCHANGED <<setup, current, offset, cancelled, pos, channelVars>>

ReadShort(w) ==
    /\ pc[w] = "read"
    /\ Goto(w, IF pos[w] + 1 < Size THEN "send" ELSE "flush")
    /\ UNCHANGED <<setup, current, offset, cancelled, pos, channelVars>>

ReadErrorAsEOF(w) ==
    /\ pc[w] = "read"
    /\ \/ Goto(w, IF pos[w] < Size THEN "send" ELSE "flush")
       \/ readsMayFail /\ Goto(w, "flush")
    /\ UNCHANGED <<setup, current, offset, cancelled, pos, channelVars>>

\* A failed Read ends the StreamSender's worker; the Manager reports it and
\* goes on to the EOF as if the file had ended there.
ReadFile(w) ==
    /\ pc[w] = "read"
    /\ \/ Goto(w, IF pos[w] < Size THEN "send" ELSE "flush")
       \/ readsMayFail /\ Goto(w, IF isManager THEN "flush" ELSE "ended")
    /\ UNCHANGED <<setup, current, offset, cancelled, pos, channelVars>>

\* Faulty variant of SendChunk: on to the next Read, past both checks.
SendChunkUnchecked(w) ==
    /\ pc[w] = "send"
    /\ Send(w, "chunk", "read")
    /\ pos' = [pos EXCEPT ![w] = @ + 1]

SendChunk(w) ==
    /\ pc[w] = "send"
    /\ Send(w, "chunk", "check")
    /\ pos' = [pos EXCEPT ![w] = @ + 1]

\* Wait for an empty buffer.  The Manager then looks at its context; in the
\* StreamSender an empty buffer and a cancellation compete.
Flush(w) ==
    /\ pc[w] = "flush"
    /\ \/ buffered = 0 /\ ~(isManager /\ cancelled[w]) /\ Goto(w, "eof")
       \/ cancelled[w] /\ Goto(w, "ended")
    /\ UNCHANGED <<setup, current, offset, cancelled, pos, channelVars>>

SendEOF(w) ==
    /\ pc[w] = "eof"
    /\ Send(w, "EOF", "complete")
    /\ UNCHANGED pos

-----------------------------------------------------------------------------
(* The channel.                                                            *)

\* SCTP takes one message off the buffer.
Drain ==
    /\ buffered > 0
    /\ buffered' = buffered - 1
    /\ UNCHANGED <<setup, current, offset, pc, cancelled, pos, dcOpen, wire, stale>>

\* The peer is gone: every Send fails, and what was buffered is dropped.
CloseChannel ==
    /\ dcOpen
    /\ dcOpen' = FALSE
    /\ buffered' = 0
    /\ UNCHANGED <<setup, current, offset, pc, cancelled, pos, wire, stale>>

WorkerStep(w) ==
    \/ OpenFile(w)
    \/ SendMeta(w)
    \/ CheckContext(w)
    \/ Backpressure(w)
    \/ WaitLow(w)
    \/ CheckAgain(w)
    \/ ReadFile(w)
    \/ SendChunk(w)
    \/ Flush(w)
    \/ SendEOF(w)

Next ==
    \/ StartStream
    \/ Stop
    \/ \E w \in Workers : WorkerStep(w)
    \/ Drain
    \/ CloseChannel

Spec == Init /\ [][Next]_vars

\* Goroutines that can run do, and an open channel drains; nobody owes a
\* restart, a Stop or a failure.
Fairness == WF_vars(Drain) /\ \A w \in Workers : WF_vars(WorkerStep(w))

FairSpec == Spec /\ Fairness

-----------------------------------------------------------------------------
(* Properties.                                                             *)

\* Where the chunks of a worker are among the messages the channel accepted.
Sent(w) == {i \in DOMAIN wire : wire[i].kind = "chunk" /\ wire[i].from = w}

InOrder(w) ==
    \A i \in Sent(w) : wire[i].at = offset[w] + Cardinality({j \in Sent(w) : j < i})

\* A cancelled worker gets at most one more message onto the channel: META,
\* one chunk or EOF, the one it was about to send.
AtMostOneStaleMessage == \A w \in Workers : stale[w] <= 1

\* However many restarts, the channel never holds more than HighWater messages
\* and one for each worker: the one it had decided to send before it looked.
BufferBounded == buffered <= HighWater + Cardinality({w \in Workers : pc[w] # "idle"})

\* What a worker sends is a run of the file from its offset, without a hole and
\* without a repetition.
OwnChunksInOrder == \A w \in Workers : InOrder(w)

\* A worker that reports completion has sent all the rest of the file, except
\* that the Manager sends EOF after a failed Read as well.
EOFMeansWhole ==
    ~(isManager /\ readsMayFail) =>
        \A w \in Workers : pc[w] = "complete" => Cardinality(Sent(w)) = Size - offset[w]

\* What the channel took from a worker: the units of its chunks, in the order they came.
Chunk(w, k) ==
    wire[CHOOSE i \in Sent(w) : Cardinality({j \in Sent(w) : j < i}) = k - 1].at

Chunks(w) == [k \in 1..Cardinality(Sent(w)) |-> Chunk(w, k)]

\* The Manager stopped before the end of a file it may not be able to read.
CutShort(w) ==
    /\ isManager /\ readsMayFail
    /\ pc[w] \in {"flush", "eof", "complete", "ended"}
    /\ pos[w] < Size

Delivery(w) == INSTANCE FileDelivery
    WITH from <- offset[w], written <- Chunks(w),
         saved <- (pc[w] = "complete"), failed <- CutShort(w)

\* Each worker delivers the file to the channel, whatever the other workers on it do and
\* whenever it is cancelled: its chunks are the units of the file one behind another from
\* the offset the receiver asked for, and it reports completion behind the last of them,
\* unless the Manager could not read it (it sends EOF after a failed Read as well).
\* This is Delivery(w)!Spec for every w.
DeliversFile ==
    /\ \A w \in Workers : Delivery(w)!Init
    /\ [][\A w \in Workers : [Delivery(w)!Next]_(Delivery(w)!vars)]_vars

\* Every worker ends: backpressure and flush never hold one for ever.
WorkersEnd == \A w \in Workers : (pc[w] = "open") ~> (pc[w] \in {"complete", "ended"})

=============================================================================
