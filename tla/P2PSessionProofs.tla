--------------------------- MODULE P2PSessionProofs ---------------------------
(***************************************************************************)
(* What holds of a download over a data channel for every file, all water  *)
(* marks of either end and any number of requests.                         *)
(***************************************************************************)
EXTENDS P2PSession, SequenceTheorems, TLAPS

(***************************************************************************)
(* The pause control.  A chunk sent while the sender is paused leaves its  *)
(* goroutine in front of WaitIfPaused, which a paused sender only passes   *)
(* to return.                                                              *)
(***************************************************************************)
PauseInv ==
    /\ sincePause \in {0, 1}
    /\ sincePause = 1 => paused /\ worker # "read"

\* Of all steps, only a message, WaitIfPaused and SendChunk matter to PauseInv.
LEMMA PauseStep == PauseInv /\ [Next]_vars => PauseInv'
<1> SUFFICES ASSUME PauseInv, [Next]_vars
             PROVE  PauseInv'
  OBVIOUS
<1>1. CASE OnMessage
  BY <1>1 DEF OnMessage, Pause, Resume, StartStream, PauseInv
<1>2. CASE SendChunk
  BY <1>2 DEF SendChunk, Goto, Return, PauseInv
<1>3. CASE OpenFile \/ SendMeta \/ Backpressure \/ WaitLow \/ ReadEnds \/ Flush \/ SendEOF
  BY <1>3 DEF OpenFile, SendMeta, Backpressure, WaitLow, ReadEnds, Flush, SendEOF,
              Goto, Return, PauseInv
<1>4. CASE WaitIfPaused
  BY <1>4 DEF WaitIfPaused, Goto, Return, PauseInv
<1>5. CASE \/ \E offset \in 0..Size : Ask(offset)
           \/ Receive \/ WriteDone \/ WriteFails \/ Save
           \/ Transmit \/ TxCloses \/ RxCloses \/ UNCHANGED vars
  <2>1. UNCHANGED senderVars
    BY <1>5 DEF Ask, Receive, WriteDone, WriteFails, Save, Transmit, TxCloses, RxCloses, vars
  <2> QED
    BY <2>1 DEF senderVars, PauseInv
<1> QED
  BY <1>1, <1>2, <1>3, <1>4, <1>5 DEF Next, WorkerStep

\* Whatever the peer sends and however the channel ends, a paused sender lets at
\* most one more chunk go (PauseTakesHold, the pauseController of main.go).
THEOREM PauseHolds == Spec => []PauseTakesHold
<1>1. Init => PauseInv
  BY DEF Init, PauseInv
<1>2. PauseInv => PauseTakesHold
  BY DEF PauseInv, PauseTakesHold
<1> QED
  BY <1>1, <1>2, PauseStep, PTL DEF Spec

(***************************************************************************)
(* Types.  The unit in the browser's hands comes from its queue, which the *)
(* chunks on the wire feed.                                                *)
(***************************************************************************)

\* The parts of the type invariant, by their owner.
ChannelTypes ==
    /\ up \in Seq(Control)
    /\ buffer \in Seq(Messages) /\ wire \in Seq(Messages)
    /\ txOpen \in BOOLEAN /\ rxOpen \in BOOLEAN
SenderTypes ==
    /\ streaming \in BOOLEAN /\ paused \in BOOLEAN /\ closed \in BOOLEAN
    /\ worker \in Labels /\ pos \in 0..Size
    /\ sincePause \in Nat /\ from \in 0..Size /\ failed \in BOOLEAN
QueueTypes ==
    /\ queue \in Seq(Units) /\ inHand \in Units \cup {None}
    /\ isPaused \in BOOLEAN /\ isEOF \in BOOLEAN /\ isDrained \in BOOLEAN
    /\ error \in BOOLEAN
\* The queue counts its chunks exactly until a write fails.
Counted ==
    /\ totalBytes \in Nat
    /\ ~error => totalBytes = Len(queue) + (IF inHand = None THEN 0 ELSE 1)
    /\ error => inHand = None
    /\ ~error /\ inHand = None => queue = <<>>
BrowserTypes ==
    /\ asked \in Seq(0..Size) /\ Len(asked) <= Requests
    /\ written \in Seq(Units)
    /\ outcome \in {"waiting", "resolved", "rejected"} /\ saved \in BOOLEAN

TypeInv == ChannelTypes /\ SenderTypes /\ QueueTypes /\ Counted /\ BrowserTypes
           /\ (error => ~rxOpen)

\* A channel or a queue that is empty.
LEMMA EmptySeqs == Len(<<>>) = 0 /\ \A S : <<>> \in Seq(S)
BY EmptySeq

LEMMA ControlMessages ==
    /\ ToPause \in Control /\ ToResume \in Control
    /\ \A offset \in 0..Size : [kind |-> "OFFSET", at |-> offset] \in Control
BY DEF ToPause, ToResume, Control

\* What a message carries.
LEMMA MessageFields ==
    /\ \A m \in Messages : /\ m.kind \in {"META", "chunk", "EOF"} /\ m.at \in 0..Size
                           /\ m.kind = "chunk" => m.at \in Units
    /\ \A kind \in {"META", "EOF"}, n \in 0..Size : [kind |-> kind, at |-> n] \in Messages
    /\ \A n \in Units : [kind |-> "chunk", at |-> n] \in Messages
    /\ None \notin Units
<1>1. Units \subseteq 0..Size
  BY SizesAssumption DEF Units
<1>2. ASSUME NEW m \in Messages
      PROVE  /\ m.kind \in {"META", "chunk", "EOF"} /\ m.at \in 0..Size
             /\ m.kind = "chunk" => m.at \in Units
  BY <1>1 DEF Messages
<1>3. /\ \A kind \in {"META", "EOF"}, n \in 0..Size : [kind |-> kind, at |-> n] \in Messages
      /\ \A n \in Units : [kind |-> "chunk", at |-> n] \in Messages
  BY DEF Messages
<1> QED
  BY <1>1, <1>2, <1>3, NoneAssumption

\* Taking the next chunk keeps the types and the count.
LEMMA ProcessLoopTypes ==
    ASSUME NEW q \in Seq(Units), isDrained \in BOOLEAN, isEOF' \in BOOLEAN,
           ProcessLoop(q)
    PROVE  /\ queue' \in Seq(Units)
           /\ inHand' \in Units \cup {None}
           /\ isDrained' \in BOOLEAN
           /\ Len(q) = Len(queue') + (IF inHand' = None THEN 0 ELSE 1)
           /\ inHand' = None => queue' = <<>>
<1>1. CASE q = <<>>
  BY <1>1 DEF ProcessLoop
<1>2. CASE q # <<>>
  <2>1. Head(q) \in Units /\ Tail(q) \in Seq(Units) /\ Len(q) = Len(Tail(q)) + 1
    <3>1. Len(q) \in Nat /\ Len(Tail(q)) = Len(q) - 1
      BY <1>2, HeadTailProperties
    <3>2. Head(q) \in Units /\ Tail(q) \in Seq(Units)
      BY <1>2, HeadTailProperties
    <3>3. Len(q) = Len(Tail(q)) + 1
      BY ONLY <3>1
    <3> QED
      BY <3>2, <3>3
  <2>2. queue' = Tail(q) /\ inHand' = Head(q) /\ isDrained' = isDrained
    BY <1>2 DEF ProcessLoop
  <2> QED
    BY <2>1, <2>2, MessageFields
<1> QED
  BY <1>1, <1>2

\* A signal is a message of the control protocol.
LEMMA SignalTypes ==
    ASSUME up \in Seq(Control), NEW message \in {ToPause, ToResume}, Signal(message)
    PROVE  up' \in Seq(Control)
BY ControlMessages DEF Signal

LEMMA EnqueueTypes ==
    ASSUME ChannelTypes, QueueTypes, Counted, NEW unit \in Units, EnqueueChunk(unit)
    PROVE  up' \in Seq(Control) /\ QueueTypes' /\ Counted' /\ error' = error
<1>1. CASE error \/ isEOF
  BY <1>1 DEF EnqueueChunk, queueVars, ChannelTypes, QueueTypes, Counted
<1>2. CASE ~(error \/ isEOF)
  <2>1. /\ totalBytes' = totalBytes + 1
        /\ isEOF' = isEOF /\ error' = error
        /\ totalBytes' \in Nat /\ ~error /\ isEOF' \in BOOLEAN /\ isDrained \in BOOLEAN
    BY <1>2 DEF EnqueueChunk, Counted, QueueTypes
  <2>2. up' \in Seq(Control) /\ isPaused' \in BOOLEAN
    <3>1. CASE isPaused' = TRUE /\ Signal(ToPause)
      BY <3>1, SignalTypes DEF ChannelTypes
    <3>2. CASE UNCHANGED <<isPaused, up>>
      BY <3>2 DEF ChannelTypes, QueueTypes
    <3> QED
      BY <1>2, <3>1, <3>2 DEF EnqueueChunk
  <2>3. Append(queue, unit) \in Seq(Units) /\ Len(Append(queue, unit)) = Len(queue) + 1
    BY DEF QueueTypes
  <2>4. CASE inHand = None
    <3>1. ProcessLoop(Append(queue, unit))
      BY <1>2, <2>4 DEF EnqueueChunk
    <3>2. /\ queue' \in Seq(Units)
          /\ inHand' \in Units \cup {None}
          /\ isDrained' \in BOOLEAN
          /\ Len(queue) + 1 = Len(queue') + (IF inHand' = None THEN 0 ELSE 1)
          /\ inHand' = None => queue' = <<>>
      <4> DEFINE q == Append(queue, unit)
      <4>1. q \in Seq(Units) /\ ProcessLoop(q) /\ Len(q) = Len(queue) + 1
        BY <2>3, <3>1
      <4> HIDE DEF q
      <4> QED
        BY <2>1, <4>1, ProcessLoopTypes
    <3>3. totalBytes' = Len(queue) + 1
      BY <2>1, <2>4 DEF Counted, QueueTypes
    <3> QED
      BY <2>1, <2>2, <3>2, <3>3 DEF QueueTypes, Counted
  <2>5. CASE inHand # None
    <3>1. queue' = Append(queue, unit) /\ inHand' = inHand /\ isDrained' = isDrained
      BY <1>2, <2>5 DEF EnqueueChunk
    <3>2. totalBytes' = Len(queue') + 1
      BY <2>1, <2>3, <2>5, <3>1 DEF Counted, QueueTypes
    <3> QED
      BY <2>1, <2>2, <2>3, <2>5, <3>1, <3>2 DEF QueueTypes, Counted
  <2> QED
    BY <2>4, <2>5
<1> QED
  BY <1>1, <1>2

LEMMA EnqueueEOFTypes ==
    ASSUME QueueTypes, Counted, EnqueueEOF
    PROVE  QueueTypes' /\ Counted' /\ error' = error /\ up' = up
<1>0. up' = up
  BY DEF EnqueueEOF
<1>1. CASE error
  BY <1>0, <1>1 DEF EnqueueEOF, queueVars, QueueTypes, Counted
<1>2. CASE ~error
  <2>1. isEOF' = TRUE /\ UNCHANGED <<totalBytes, isPaused, error>>
    BY <1>2 DEF EnqueueEOF
  <2>2. CASE inHand = None
    <3>1. ProcessLoop(queue) /\ queue \in Seq(Units) /\ isDrained \in BOOLEAN
      BY <1>2, <2>2 DEF EnqueueEOF, QueueTypes
    <3>2. /\ queue' \in Seq(Units)
          /\ inHand' \in Units \cup {None}
          /\ isDrained' \in BOOLEAN
          /\ Len(queue) = Len(queue') + (IF inHand' = None THEN 0 ELSE 1)
          /\ inHand' = None => queue' = <<>>
      BY <2>1, <3>1, ProcessLoopTypes
    <3> QED
      BY <1>0, <1>2, <2>1, <2>2, <3>1, <3>2 DEF QueueTypes, Counted
  <2>3. CASE inHand # None
    BY <1>0, <1>2, <2>1, <2>3 DEF EnqueueEOF, QueueTypes, Counted
  <2> QED
    BY <2>2, <2>3
<1> QED
  BY <1>1, <1>2

\* Variables that a step leaves alone keep their types.
LEMMA UntouchedSender == SenderTypes /\ UNCHANGED senderVars => SenderTypes'
BY DEF SenderTypes, senderVars

LEMMA UntouchedQueue == QueueTypes /\ Counted /\ UNCHANGED queueVars => QueueTypes' /\ Counted'
BY DEF QueueTypes, Counted, queueVars

\* The messages that can be sent from where the goroutine stands.
LEMMA MessagesNext ==
    ASSUME SenderTypes
    PROVE  /\ \A kind \in {"META", "EOF"} : [kind |-> kind, at |-> pos] \in Messages
           /\ pos < Size => [kind |-> "chunk", at |-> pos] \in Messages
<1>1. pos \in 0..Size /\ (pos < Size => pos \in Units)
  BY SizesAssumption DEF SenderTypes, Units
<1> QED
  BY <1>1, MessageFields

\* Sending and returning change only what they name.
LEMMA SendTypes ==
    ASSUME TypeInv, NEW kind \in {"META", "chunk", "EOF"}, Send(kind),
           kind = "chunk" => pos < Size
    PROVE  buffer' \in Seq(Messages)
<1>1. [kind |-> kind, at |-> pos] \in Messages /\ buffer \in Seq(Messages)
  BY MessagesNext DEF TypeInv, ChannelTypes
<1> QED
  BY <1>1 DEF Send

LEMMA MoveTypes ==
    ASSUME SenderTypes, NEW label \in Labels, Goto(label) \/ Return
    PROVE  streaming' \in BOOLEAN /\ closed' \in BOOLEAN /\ worker' \in Labels
BY DEF SenderTypes, Goto, Return, Labels

\* The sender's steps.
LEMMA OnMessageTypes == TypeInv /\ OnMessage => TypeInv'
<1> SUFFICES ASSUME TypeInv, OnMessage
             PROVE  TypeInv'
  OBVIOUS
<1>1. Head(up) \in Control /\ up' \in Seq(Control)
  BY HeadTailProperties DEF OnMessage, TypeInv, ChannelTypes
<1>2. Head(up).at \in 0..Size
  BY <1>1, SizesAssumption DEF Control
<1>3. ChannelTypes' /\ UNCHANGED browserVars /\ rxOpen' = rxOpen
  BY <1>1 DEF OnMessage, TypeInv, ChannelTypes
<1>4. SenderTypes'
  <2>1. CASE Pause \/ Resume
    <3>1. /\ UNCHANGED <<streaming, worker, pos, closed, from, failed>>
          /\ paused' \in BOOLEAN /\ sincePause' = 0
      BY <2>1, Zenon DEF Pause, Resume
    <3> QED
      BY <3>1 DEF TypeInv, SenderTypes
  <2>2. CASE StartStream
    <3>1. streaming' \in BOOLEAN /\ worker' \in Labels /\ pos' \in 0..Size
      BY <1>2, <2>2 DEF StartStream, TypeInv, SenderTypes, Labels
    <3> QED
      BY <2>2, <3>1 DEF StartStream, TypeInv, SenderTypes
  <2> QED
    BY <2>1, <2>2 DEF OnMessage
<1> QED
  BY <1>3, <1>4 DEF TypeInv, QueueTypes, Counted, BrowserTypes, browserVars, queueVars

LEMMA SilentTypes ==
    ASSUME TypeInv,
           OpenFile \/ Backpressure \/ WaitLow \/ WaitIfPaused \/ ReadEnds \/ Flush
    PROVE  TypeInv'
<1>1. UNCHANGED <<channelVars, browserVars>>
  BY DEF OpenFile, Backpressure, WaitLow, WaitIfPaused, ReadEnds, Flush
<1>2. SenderTypes'
  BY DEF OpenFile, Backpressure, WaitLow, WaitIfPaused, ReadEnds, Flush, Goto, Return,
         TypeInv, SenderTypes, Labels
<1> QED
  BY <1>1, <1>2 DEF TypeInv, ChannelTypes, channelVars, QueueTypes, Counted, BrowserTypes,
                    browserVars, queueVars

LEMMA SendingTypes ==
    ASSUME TypeInv, SendMeta \/ SendChunk \/ SendEOF
    PROVE  TypeInv'
<1>1. buffer' \in Seq(Messages)
  <2>1. CASE UNCHANGED buffer
    BY <2>1 DEF TypeInv, ChannelTypes
  <2>2. CASE Send("META") \/ (pos < Size /\ Send("chunk")) \/ Send("EOF")
    BY <2>2, SendTypes
  <2> QED
    BY <2>1, <2>2 DEF SendMeta, SendChunk, SendEOF
<1>2. UNCHANGED <<up, wire, txOpen, rxOpen, browserVars, paused, from, failed>>
  BY DEF SendMeta, SendChunk, SendEOF
<1>3. streaming' \in BOOLEAN /\ closed' \in BOOLEAN /\ worker' \in Labels
  <2>1. Goto("pressure") \/ Return
    BY DEF SendMeta, SendChunk, SendEOF
  <2> QED
    BY <2>1, MoveTypes DEF TypeInv, Labels
<1>4. pos' \in 0..Size /\ sincePause' \in Nat
  <2>1. pos \in 0..Size /\ sincePause \in Nat
    BY DEF TypeInv, SenderTypes
  <2>2. \/ UNCHANGED <<pos, sincePause>>
        \/ pos < Size /\ pos' = pos + 1 /\ sincePause' \in {0, sincePause + 1}
    BY DEF SendMeta, SendChunk, SendEOF
  <2> QED
    BY <2>1, <2>2, SizesAssumption
<1> QED
  BY <1>1, <1>2, <1>3, <1>4, UntouchedQueue
     DEF TypeInv, ChannelTypes, SenderTypes, BrowserTypes, browserVars, queueVars

\* The browser's steps.
LEMMA AskTypes ==
    ASSUME TypeInv, NEW offset \in 0..Size, Ask(offset)
    PROVE  TypeInv'
<1>1. up' \in Seq(Control)
  BY ControlMessages DEF Ask, TypeInv, ChannelTypes
<1>2. asked' \in Seq(0..Size) /\ Len(asked') <= Requests
  <2>1. asked' = Append(asked, offset) /\ asked \in Seq(0..Size) /\ Len(asked) < Requests
    BY DEF Ask, TypeInv, BrowserTypes
  <2> QED
    BY <2>1, SizesAssumption
<1>3. UNCHANGED <<buffer, wire, txOpen, rxOpen, senderVars, queueVars, written, outcome, saved>>
  BY DEF Ask
<1> QED
  BY <1>1, <1>2, <1>3 DEF TypeInv, ChannelTypes, SenderTypes, senderVars, QueueTypes, Counted,
                          BrowserTypes, queueVars

LEMMA ReceiveTypes == TypeInv /\ Receive => TypeInv'
<1> SUFFICES ASSUME TypeInv, Receive
             PROVE  TypeInv'
  OBVIOUS
<1>1. Head(wire) \in Messages /\ wire' \in Seq(Messages)
  BY HeadTailProperties DEF Receive, TypeInv, ChannelTypes
<1>2. UNCHANGED <<buffer, txOpen, rxOpen, senderVars, asked, written, outcome, saved>>
  BY DEF Receive
<1>3. ChannelTypes /\ QueueTypes /\ Counted
  BY DEF TypeInv
<1>4. up' \in Seq(Control) /\ QueueTypes' /\ Counted' /\ error' = error
  <2>1. CASE Head(wire).kind = "META" /\ UNCHANGED <<up, queueVars>>
    BY <1>3, <2>1 DEF ChannelTypes, QueueTypes, Counted, queueVars
  <2>2. CASE Head(wire).kind = "chunk" /\ EnqueueChunk(Head(wire).at)
    <3>1. Head(wire).at \in Units
      BY <1>1, <2>2, MessageFields
    <3> QED
      BY <1>3, <2>2, <3>1, EnqueueTypes
  <2>3. CASE EnqueueEOF
    <3>1. QueueTypes' /\ Counted' /\ error' = error /\ up' = up
      BY <1>3, <2>3, EnqueueEOFTypes
    <3> QED
      BY <1>3, <3>1 DEF ChannelTypes
  <2> QED
    BY <2>1, <2>2, <2>3 DEF Receive
<1> QED
  BY <1>1, <1>2, <1>4 DEF TypeInv, ChannelTypes, SenderTypes, senderVars, BrowserTypes

LEMMA WriteDoneTypes == TypeInv /\ WriteDone => TypeInv'
<1> SUFFICES ASSUME TypeInv, WriteDone
             PROVE  TypeInv'
  OBVIOUS
<1>1. /\ inHand \in Units /\ ~error /\ totalBytes = Len(queue) + 1
      /\ queue \in Seq(Units) /\ isDrained \in BOOLEAN /\ isEOF \in BOOLEAN
  BY DEF WriteDone, TypeInv, Counted, QueueTypes
<1>2. /\ totalBytes' = totalBytes - 1 /\ isEOF' = isEOF /\ error' = error
      /\ ProcessLoop(queue)
      /\ UNCHANGED <<buffer, wire, txOpen, rxOpen, senderVars, asked, outcome, saved>>
  BY DEF WriteDone
<1>3. written' \in Seq(Units)
  BY <1>1 DEF WriteDone, TypeInv, BrowserTypes
<1>4. up' \in Seq(Control) /\ isPaused' \in BOOLEAN
  <2>1. CASE isPaused' = FALSE /\ Signal(ToResume)
    BY <2>1, SignalTypes DEF TypeInv, ChannelTypes
  <2>2. CASE UNCHANGED <<isPaused, up>>
    BY <2>2 DEF TypeInv, ChannelTypes, QueueTypes
  <2> QED
    BY <2>1, <2>2 DEF WriteDone
<1>5. /\ queue' \in Seq(Units)
      /\ inHand' \in Units \cup {None}
      /\ isDrained' \in BOOLEAN
      /\ Len(queue) = Len(queue') + (IF inHand' = None THEN 0 ELSE 1)
      /\ inHand' = None => queue' = <<>>
  BY <1>1, <1>2, ProcessLoopTypes
<1>6. totalBytes' = Len(queue) /\ Len(queue) \in Nat
  BY <1>1, <1>2
<1>7. QueueTypes' /\ Counted'
  <2>1. QueueTypes'
    <3>1. isEOF' \in BOOLEAN /\ error' \in BOOLEAN
      BY <1>1, <1>2, Zenon DEF TypeInv, QueueTypes
    <3> QED
      BY <1>4, <1>5, <3>1, Zenon DEF QueueTypes
  <2>2. totalBytes' \in Nat /\ totalBytes' = Len(queue') + (IF inHand' = None THEN 0 ELSE 1)
    BY <1>5, <1>6, <1>1, <1>2
  <2> QED
    BY <1>1, <1>2, <1>5, <2>1, <2>2 DEF Counted
<1> QED
  BY <1>1, <1>2, <1>3, <1>4, <1>7 DEF TypeInv, ChannelTypes, SenderTypes, senderVars, BrowserTypes

LEMMA WriteFailsTypes == TypeInv /\ WriteFails => TypeInv'
<1> SUFFICES ASSUME TypeInv, WriteFails
             PROVE  TypeInv'
  OBVIOUS
<1>1. QueueTypes' /\ Counted' /\ rxOpen' = FALSE
  BY DEF WriteFails, TypeInv, QueueTypes, Counted
<1>2. ChannelTypes'
  BY EmptySeqs, <1>1 DEF WriteFails, TypeInv, ChannelTypes
<1>3. BrowserTypes'
  <2>1. outcome' \in {"waiting", "resolved", "rejected"}
    BY DEF WriteFails, Settle, TypeInv, BrowserTypes
  <2>2. UNCHANGED <<asked, written, saved>>
    BY DEF WriteFails
  <2> QED
    BY <2>1, <2>2 DEF TypeInv, BrowserTypes
<1>4. UNCHANGED senderVars
  BY DEF WriteFails
<1> QED
  BY <1>1, <1>2, <1>3, <1>4, UntouchedSender DEF TypeInv

LEMMA SaveTypes == TypeInv /\ Save => TypeInv'
<1> SUFFICES ASSUME TypeInv, Save
             PROVE  TypeInv'
  OBVIOUS
<1>1. UNCHANGED <<up, buffer, txOpen, senderVars, asked, queueVars, written>> /\ error' = error
  BY DEF Save, queueVars
<1>2. (rxOpen' = FALSE /\ wire' = <<>>) \/ UNCHANGED <<rxOpen, wire>>
  BY DEF Save
<1>3. ChannelTypes' /\ (error' => ~rxOpen')
  <2>1. CASE rxOpen' = FALSE /\ wire' = <<>>
    BY <1>1, <2>1, EmptySeqs DEF TypeInv, ChannelTypes
  <2>2. CASE UNCHANGED <<rxOpen, wire>>
    BY <1>1, <2>2 DEF TypeInv, ChannelTypes
  <2> QED
    BY <1>2, <2>1, <2>2
<1>4. BrowserTypes'
  <2>1. outcome' \in {"waiting", "resolved", "rejected"} /\ saved' \in BOOLEAN
    BY DEF Save, Settle, TypeInv, BrowserTypes
  <2> QED
    BY <1>1, <2>1 DEF TypeInv, BrowserTypes
<1> QED
  BY <1>1, <1>3, <1>4, UntouchedSender, UntouchedQueue DEF TypeInv

\* The channel's steps.
LEMMA TransmitTypes == TypeInv /\ Transmit => TypeInv'
<1> SUFFICES ASSUME TypeInv, Transmit
             PROVE  TypeInv'
  OBVIOUS
<1>1. Head(buffer) \in Messages /\ buffer' \in Seq(Messages)
  BY HeadTailProperties DEF Transmit, TypeInv, ChannelTypes
<1>2. wire' \in Seq(Messages)
  BY <1>1 DEF Transmit, TypeInv, ChannelTypes
<1> QED
  BY <1>1, <1>2 DEF Transmit, TypeInv, ChannelTypes, SenderTypes, senderVars, QueueTypes,
                    Counted, BrowserTypes, browserVars, queueVars

LEMMA ClosingTypes == TypeInv /\ (TxCloses \/ RxCloses) => TypeInv'
<1> SUFFICES ASSUME TypeInv, TxCloses \/ RxCloses
             PROVE  TypeInv'
  OBVIOUS
<1>1. UNCHANGED <<buffer, senderVars, asked, queueVars, written, saved>> /\ error' = error
  BY DEF TxCloses, RxCloses, browserVars, queueVars
<1>2. /\ (txOpen' = FALSE /\ up' = <<>>) \/ UNCHANGED <<txOpen, up>>
      /\ (rxOpen' = FALSE /\ wire' = <<>>) \/ UNCHANGED <<rxOpen, wire>>
  BY DEF TxCloses, RxCloses
<1>3. up' \in Seq(Control) /\ txOpen' \in BOOLEAN
  BY <1>2, EmptySeqs DEF TypeInv, ChannelTypes
<1>4. wire' \in Seq(Messages) /\ rxOpen' \in BOOLEAN /\ (error' => ~rxOpen')
  <2>1. CASE rxOpen' = FALSE /\ wire' = <<>>
    BY <2>1, EmptySeqs
  <2>2. CASE UNCHANGED <<rxOpen, wire>>
    BY <1>1, <2>2 DEF TypeInv, ChannelTypes
  <2> QED
    BY <1>2, <2>1, <2>2
<1>5. BrowserTypes'
  <2>1. outcome' \in {"waiting", "resolved", "rejected"}
    BY DEF TxCloses, RxCloses, Settle, TypeInv, BrowserTypes, browserVars
  <2> QED
    BY <1>1, <2>1 DEF TypeInv, BrowserTypes
<1>6. ChannelTypes'
  BY <1>1, <1>3, <1>4 DEF TypeInv, ChannelTypes
<1> QED
  BY <1>1, <1>4, <1>5, <1>6, UntouchedSender, UntouchedQueue DEF TypeInv

\* Every step of either end and of the channel keeps the types.
LEMMA TypeStep == TypeInv /\ [Next]_vars => TypeInv'
<1> SUFFICES ASSUME TypeInv, [Next]_vars
             PROVE  TypeInv'
  OBVIOUS
<1>1. CASE WorkerStep
  BY <1>1, SilentTypes, SendingTypes DEF WorkerStep
<1>2. CASE UNCHANGED vars
  BY <1>2 DEF vars, TypeInv, ChannelTypes, channelVars, SenderTypes, senderVars, QueueTypes,
              Counted, BrowserTypes, browserVars, queueVars
<1> QED
  BY <1>1, <1>2, OnMessageTypes, AskTypes, ReceiveTypes, WriteDoneTypes, WriteFailsTypes,
     SaveTypes, TransmitTypes, ClosingTypes DEF Next

LEMMA TypeInitially == Init => TypeInv
<1> SUFFICES ASSUME Init
             PROVE  TypeInv
  OBVIOUS
<1>1. ChannelTypes
  BY EmptySeqs DEF Init, ChannelTypes
<1>2. BrowserTypes
  <2>1. asked \in Seq(0..Size) /\ written \in Seq(Units)
    BY EmptySeqs DEF Init
  <2>2. Len(asked) <= Requests
    BY EmptySeqs, SizesAssumption DEF Init
  <2> QED
    BY <2>1, <2>2 DEF Init, BrowserTypes
<1>3. SenderTypes
  <2>1. pos \in 0..Size /\ from \in 0..Size /\ sincePause \in Nat
    BY SizesAssumption DEF Init
  <2> QED
    BY <2>1 DEF Init, SenderTypes, Labels
<1>4. QueueTypes
  BY EmptySeqs DEF Init, QueueTypes
<1>5. Counted
  <2>1. error = FALSE /\ inHand = None /\ queue = <<>> /\ totalBytes = 0
    BY DEF Init
  <2>2. totalBytes = Len(queue) + (IF inHand = None THEN 0 ELSE 1)
    BY <2>1, EmptySeqs
  <2> QED
    BY <2>1, <2>2 DEF Counted
<1> QED
  BY <1>1, <1>2, <1>3, <1>4, <1>5 DEF Init, TypeInv

\* Both ends and the channel keep every variable in its type, for any file,
\* marks and number of requests (TypeOK).
THEOREM TypeCorrect == Spec => []TypeOK
<1>1. TypeInv => TypeOK
  BY DEF TypeInv, TypeOK, ChannelTypes, SenderTypes, QueueTypes, Counted, BrowserTypes
<1>2. Spec => []TypeInv
  BY TypeInitially, TypeStep, PTL DEF Spec
<1> QED
  BY <1>1, <1>2, PTL

(***************************************************************************)
(* RESUME is not lost.  Whenever the queue of the browser is below its     *)
(* mark, every PAUSE on its way has a RESUME behind it, and a sender that  *)
(* is paused has one coming.                                               *)
(***************************************************************************)
SignalInv ==
    txOpen /\ rxOpen /\ ~isPaused =>
        /\ paused => \E j \in DOMAIN up : up[j] = ToResume
        /\ \A i \in DOMAIN up : up[i] = ToPause =>
               \E j \in DOMAIN up : i < j /\ up[j] = ToResume

\* The head of a channel is its first message, the tail its other messages.
LEMMA HeadAndTail ==
    ASSUME NEW S, NEW seq \in Seq(S), seq # <<>>
    PROVE  /\ Head(seq) = seq[1] /\ 1 \in DOMAIN seq
           /\ \A i \in DOMAIN Tail(seq) : i + 1 \in DOMAIN seq /\ Tail(seq)[i] = seq[i + 1]
           /\ \A i \in DOMAIN seq : i > 1 => i - 1 \in DOMAIN Tail(seq)
                                             /\ Tail(seq)[i - 1] = seq[i]
           /\ \A i \in DOMAIN seq : i \in Nat /\ i >= 1
OBVIOUS

\* A message put at the end leaves the others where they are.
LEMMA AtTheEnd ==
    ASSUME NEW S, NEW seq \in Seq(S), NEW e \in S
    PROVE  /\ \A i \in DOMAIN seq : i \in DOMAIN Append(seq, e) /\ Append(seq, e)[i] = seq[i]
                                    /\ i < Len(seq) + 1
           /\ Len(seq) + 1 \in DOMAIN Append(seq, e) /\ Append(seq, e)[Len(seq) + 1] = e
           /\ \A i \in DOMAIN Append(seq, e) : i \in DOMAIN seq \/ i = Len(seq) + 1
OBVIOUS

LEMMA SignalStep == TypeInv /\ SignalInv /\ [Next]_vars => SignalInv'
<1> SUFFICES ASSUME TypeInv, SignalInv, [Next]_vars, txOpen', rxOpen', ~isPaused'
             PROVE  /\ paused' => \E j \in DOMAIN up' : up'[j] = ToResume
                    /\ \A i \in DOMAIN up' : up'[i] = ToPause =>
                           \E j \in DOMAIN up' : i < j /\ up'[j] = ToResume
  BY DEF SignalInv
<1>0. up \in Seq(Control)
  BY DEF TypeInv, ChannelTypes
<1>1. CASE OnMessage
  <2>1. up # <<>> /\ up' = Tail(up) /\ txOpen /\ rxOpen /\ ~isPaused
    BY <1>1 DEF OnMessage, browserVars, queueVars
  <2>2. /\ paused => \E j \in DOMAIN up : up[j] = ToResume
        /\ \A i \in DOMAIN up : up[i] = ToPause =>
               \E j \in DOMAIN up : i < j /\ up[j] = ToResume
    BY <2>1 DEF SignalInv
  <2>3. \A i \in DOMAIN up' : up'[i] = ToPause =>
            \E j \in DOMAIN up' : i < j /\ up'[j] = ToResume
    <3> SUFFICES ASSUME NEW i \in DOMAIN up', up'[i] = ToPause
                 PROVE  \E j \in DOMAIN up' : i < j /\ up'[j] = ToResume
      OBVIOUS
    <3>1. i \in Nat /\ i >= 1 /\ i + 1 \in DOMAIN up /\ up[i + 1] = ToPause
      BY <1>0, <2>1, HeadAndTail
    <3>2. PICK j \in DOMAIN up : i + 1 < j /\ up[j] = ToResume
      BY <2>2, <3>1
    <3>3. j - 1 \in DOMAIN up' /\ i < j - 1 /\ up'[j - 1] = ToResume
      BY <1>0, <2>1, <3>1, <3>2, HeadAndTail
    <3> QED
      BY <3>3
  <2>4. ASSUME NEW j \in DOMAIN up, 1 < j, up[j] = ToResume
        PROVE  \E k \in DOMAIN up' : up'[k] = ToResume
    BY <1>0, <2>1, <2>4, HeadAndTail
  <2>5. CASE Pause
    <3>1. 1 \in DOMAIN up /\ up[1] = ToPause
      BY <1>0, <2>1, <2>5, HeadAndTail DEF Pause
    <3> QED
      BY <2>2, <2>3, <2>4, <3>1
  <2>6. CASE Resume
    BY <2>3, <2>6 DEF Resume
  <2>7. CASE StartStream
    <3>1. paused' = paused /\ up[1] # ToResume
      BY <1>0, <2>1, <2>7, HeadAndTail DEF StartStream, ToResume
    <3>2. ASSUME NEW j \in DOMAIN up, up[j] = ToResume
          PROVE  1 < j
      BY <1>0, <3>1, <3>2
    <3> QED
      BY <2>2, <2>3, <2>4, <3>1, <3>2
  <2> QED
    BY <1>1, <2>5, <2>6, <2>7 DEF OnMessage
<1>2. ASSUME UNCHANGED <<up, txOpen, rxOpen, isPaused, paused>>
      PROVE  /\ paused' => \E j \in DOMAIN up' : up'[j] = ToResume
             /\ \A i \in DOMAIN up' : up'[i] = ToPause =>
                    \E j \in DOMAIN up' : i < j /\ up'[j] = ToResume
  BY <1>2 DEF SignalInv
<1>3. CASE \E offset \in 0..Size : Ask(offset)
  <2>1. PICK offset \in 0..Size : Ask(offset)
    BY <1>3
  <2>2. /\ up' = Append(up, [kind |-> "OFFSET", at |-> offset])
        /\ txOpen /\ rxOpen /\ ~isPaused /\ paused' = paused
    BY <2>1 DEF Ask, senderVars, queueVars
  <2>3. [kind |-> "OFFSET", at |-> offset] # ToPause
    BY DEF ToPause
  <2> QED
    BY <1>0, <2>2, <2>3, AtTheEnd, ControlMessages DEF SignalInv
<1>4. CASE WriteDone
  <2>1. rxOpen /\ txOpen /\ paused' = paused
    BY <1>4 DEF WriteDone, senderVars
  <2>2. CASE Signal(ToResume)
    <3>1. up' = Append(up, ToResume)
      BY <2>1, <2>2 DEF Signal
    <3>2. ToResume # ToPause
      BY DEF ToResume, ToPause
    <3> QED
      BY <1>0, <3>1, <3>2, AtTheEnd, ControlMessages
  <2>3. CASE UNCHANGED <<isPaused, up>>
    BY <1>2, <1>4, <2>1, <2>3 DEF WriteDone
  <2> QED
    BY <1>4, <2>2, <2>3 DEF WriteDone
<1>5. CASE Receive
  <2>1. UNCHANGED <<isPaused, up>>
    BY <1>5 DEF Receive, EnqueueChunk, EnqueueEOF, queueVars
  <2> QED
    BY <1>2, <1>5, <2>1 DEF Receive, senderVars
<1>6. CASE WorkerStep
  <2>1. UNCHANGED <<up, txOpen, rxOpen, isPaused, paused>>
    BY <1>6 DEF WorkerStep, OpenFile, SendMeta, Backpressure, WaitLow, WaitIfPaused, SendChunk,
                ReadEnds, Flush, SendEOF, channelVars, browserVars, queueVars
  <2> QED
    BY <1>2, <2>1
<1>7. CASE WriteFails \/ Save \/ Transmit \/ TxCloses \/ RxCloses \/ UNCHANGED vars
  <2>1. UNCHANGED <<up, txOpen, rxOpen, isPaused, paused>>
    BY <1>7 DEF WriteFails, Save, Transmit, TxCloses, RxCloses, vars, channelVars, senderVars,
                browserVars, queueVars
  <2> QED
    BY <1>2, <2>1
<1> QED
  BY <1>1, <1>3, <1>4, <1>5, <1>6, <1>7 DEF Next

\* A paused sender is released by the browser for as long as the channel stands
\* (NoLostResume, enqueue and _processLoop of SequentialChunkQueue).
THEOREM ResumeComes == Spec => []NoLostResume
<1>1. Init => SignalInv
  BY DEF Init, SignalInv
<1>2. SignalInv => NoLostResume
  BY DEF SignalInv, NoLostResume
<1> QED
  BY <1>1, <1>2, TypeInitially, TypeStep, SignalStep, PTL DEF Spec

(***************************************************************************)
(* The sender's buffer.  Who may send without looking at the mark again    *)
(* has looked: the buffer only shrinks before the next message.            *)
(***************************************************************************)
StreamInv == streaming \/ worker = "idle"
BufferInv ==
    /\ Len(buffer) <= HighWater + 1
    /\ worker \in {"paused", "read", "flush"} => Len(buffer) <= HighWater
    /\ worker = "eof" => Len(buffer) = 0
    /\ txOpen /\ worker \in {"idle", "open", "meta"} => Len(buffer) <= HighWater

\* A stream's goroutine runs only while isStreaming is set.
LEMMA StreamStep == StreamInv /\ [Next]_vars => StreamInv'
<1> SUFFICES ASSUME StreamInv, [Next]_vars
             PROVE  StreamInv'
  OBVIOUS
<1>1. CASE OnMessage
  BY <1>1, Zenon DEF OnMessage, Pause, Resume, StartStream, StreamInv
<1>2. CASE WorkerStep
  <2>1. worker' = "idle" \/ (streaming' = streaming /\ worker # "idle")
    BY <1>2 DEF WorkerStep, OpenFile, SendMeta, Backpressure, WaitLow, WaitIfPaused, SendChunk,
                ReadEnds, Flush, SendEOF, Goto, Return
  <2> QED
    BY <2>1, Zenon DEF StreamInv
<1>3. CASE \/ \E offset \in 0..Size : Ask(offset)
           \/ Receive \/ WriteDone \/ WriteFails \/ Save
           \/ Transmit \/ TxCloses \/ RxCloses \/ UNCHANGED vars
  <2>1. UNCHANGED <<streaming, worker>>
    BY <1>3 DEF Ask, Receive, WriteDone, WriteFails, Save, Transmit, TxCloses, RxCloses, vars,
                senderVars
  <2> QED
    BY <2>1, Zenon DEF StreamInv
<1> QED
  BY <1>1, <1>2, <1>3 DEF Next

LEMMA BufferStep == TypeInv /\ StreamInv /\ BufferInv /\ [Next]_vars => BufferInv'
<1> SUFFICES ASSUME TypeInv, StreamInv, BufferInv, [Next]_vars
             PROVE  BufferInv'
  OBVIOUS
<1>0. /\ buffer \in Seq(Messages) /\ Len(buffer) \in Nat /\ pos \in 0..Size
      /\ HighWater \in Nat /\ LowWater \in Nat /\ LowWater <= HighWater /\ HighWater >= 1
  BY SizesAssumption DEF TypeInv, ChannelTypes, SenderTypes
<1>1. ASSUME NEW kind \in {"META", "chunk", "EOF"}, Send(kind)
      PROVE  Len(buffer') = Len(buffer) + 1
  BY <1>0, <1>1 DEF Send
<1>2. CASE OnMessage
  <2>1. UNCHANGED <<buffer, txOpen>> /\ txOpen
    BY <1>2, Zenon DEF OnMessage
  <2>2. worker' = worker \/ (worker' = "open" /\ worker = "idle")
    BY <1>2, Zenon DEF OnMessage, Pause, Resume, StartStream, StreamInv
  <2> QED
    BY <2>1, <2>2 DEF BufferInv
<1>3. CASE OpenFile \/ Backpressure \/ WaitIfPaused \/ ReadEnds
  <2>1. UNCHANGED <<buffer, txOpen>>
    BY <1>3 DEF OpenFile, Backpressure, WaitIfPaused, ReadEnds, channelVars
  <2>2. CASE OpenFile
    BY <2>1, <2>2 DEF OpenFile, Goto, BufferInv
  <2>3. CASE Backpressure
    <3>1. CASE Len(buffer) > HighWater
      BY <2>1, <2>3, <3>1 DEF Backpressure, Goto, BufferInv
    <3>2. CASE Len(buffer) <= HighWater
      BY <1>0, <2>1, <2>3, <3>2 DEF Backpressure, Goto, BufferInv
    <3> QED
      BY <1>0, <3>1, <3>2
  <2>4. CASE WaitIfPaused
    BY <2>1, <2>4 DEF WaitIfPaused, Goto, Return, BufferInv
  <2>5. CASE ReadEnds
    BY <2>1, <2>5 DEF ReadEnds, Goto, BufferInv
  <2> QED
    BY <1>3, <2>2, <2>3, <2>4, <2>5
<1>4. CASE WaitLow
  <2>1. UNCHANGED <<buffer, txOpen>>
    BY <1>4 DEF WaitLow, channelVars
  <2>2. CASE Len(buffer) <= LowWater /\ Goto("paused")
    <3>1. Len(buffer) <= HighWater
      BY <1>0, <2>2
    <3> QED
      BY <2>1, <2>2, <3>1 DEF Goto, BufferInv
  <2>3. CASE ~txOpen /\ Return
    BY <2>1, <2>3 DEF Return, BufferInv
  <2> QED
    BY <1>4, <2>2, <2>3 DEF WaitLow
<1>5. CASE Flush
  <2>1. UNCHANGED <<buffer, txOpen>>
    BY <1>5 DEF Flush, channelVars
  <2>2. CASE buffer = <<>> /\ Goto("eof")
    <3>1. Len(buffer) = 0
      BY <2>2, EmptySeqs
    <3> QED
      BY <2>1, <2>2, <3>1 DEF Goto, BufferInv
  <2>3. CASE ~txOpen /\ Return
    BY <2>1, <2>3 DEF Return, BufferInv
  <2> QED
    BY <1>5, <2>2, <2>3 DEF Flush
<1>6. CASE SendMeta \/ SendChunk
  <2>0. txOpen' = txOpen /\ worker \in {"meta", "read"}
    BY <1>6 DEF SendMeta, SendChunk
  <2>1. CASE txOpen
    <3>1. Len(buffer) <= HighWater /\ Goto("pressure")
      BY <1>6, <2>1 DEF SendMeta, SendChunk, BufferInv
    <3>2. Len(buffer') = Len(buffer) + 1
      BY <1>1, <1>6, <2>1 DEF SendMeta, SendChunk
    <3>3. Len(buffer') <= HighWater + 1
      BY ONLY <1>0, <3>1, <3>2
    <3> QED
      BY <3>1, <3>3 DEF Goto, BufferInv
  <2>2. CASE ~txOpen
    BY <1>6, <2>0, <2>2 DEF SendMeta, SendChunk, Return, BufferInv
  <2> QED
    BY <2>1, <2>2
<1>7. CASE SendEOF
  <2>0. txOpen' = txOpen /\ worker' = "idle" /\ Len(buffer) = 0
    BY <1>7 DEF SendEOF, Return, BufferInv
  <2>1. CASE txOpen
    <3>1. Len(buffer') = Len(buffer) + 1
      BY <1>1, <1>7, <2>1 DEF SendEOF
    <3>2. Len(buffer') <= HighWater
      BY ONLY <1>0, <2>0, <3>1
    <3>3. Len(buffer') <= HighWater + 1
      BY ONLY <1>0, <2>0, <3>1
    <3> QED
      BY <2>0, <3>2, <3>3 DEF BufferInv
  <2>2. CASE ~txOpen
    BY <1>7, <2>0, <2>2 DEF SendEOF, BufferInv
  <2> QED
    BY <2>1, <2>2
<1>8. CASE Transmit
  <2>1. worker' = worker /\ txOpen' = txOpen /\ buffer # <<>> /\ buffer' = Tail(buffer)
    BY <1>8 DEF Transmit, senderVars
  <2>2. Len(buffer') = Len(buffer) - 1 /\ Len(buffer) > 0
    BY <1>0, <2>1
  <2>3. /\ Len(buffer') <= HighWater + 1
        /\ Len(buffer) <= HighWater => Len(buffer') <= HighWater
        /\ Len(buffer) # 0
    BY <1>0, <2>2 DEF BufferInv
  <2> QED
    BY <2>1, <2>3 DEF BufferInv
<1>9. CASE \/ \E offset \in 0..Size : Ask(offset)
           \/ Receive \/ WriteDone \/ WriteFails \/ Save
           \/ TxCloses \/ RxCloses \/ UNCHANGED vars
  <2>1. UNCHANGED <<buffer, worker>> /\ (txOpen' = FALSE \/ txOpen' = txOpen)
    BY <1>9 DEF Ask, Receive, WriteDone, WriteFails, Save, TxCloses, RxCloses, vars,
                channelVars, senderVars
  <2> QED
    BY <2>1 DEF BufferInv
<1> QED
  BY <1>2, <1>3, <1>4, <1>5, <1>6, <1>7, <1>8, <1>9 DEF Next, WorkerStep

\* The sender's buffer passes the high-water mark by one message at most,
\* whatever the peer asks for (BufferBounded, the backpressure check of main.go).
THEOREM BufferStaysBounded == Spec => []BufferBounded
<1>1. Init => BufferInv
  BY EmptySeqs, SizesAssumption DEF Init, BufferInv
<1>2. Init => StreamInv
  BY DEF Init, StreamInv
<1>3. BufferInv => BufferBounded
  BY DEF BufferInv, BufferBounded
<1> QED
  BY <1>1, <1>2, <1>3, TypeInitially, TypeStep, StreamStep, BufferStep, PTL DEF Spec

(***************************************************************************)
(* What follows an EOF.  The stream that sends it has closed the pause     *)
(* control, which is not opened again, so that no later stream gets past   *)
(* WaitIfPaused to its first chunk.                                        *)
(***************************************************************************)
EOFIn(seq) == \E i \in DOMAIN seq : seq[i].kind = "EOF"
OnlyMETA(seq) == \A i \in DOMAIN seq : seq[i].kind = "META"
METAAfterEOF(seq) ==
    \A i, j \in DOMAIN seq : i < j /\ seq[i].kind = "EOF" => seq[j].kind = "META"

EOFInv ==
    /\ closed => worker \notin {"read", "flush", "eof"}
    /\ isEOF \/ EOFIn(wire) \/ EOFIn(buffer) => closed
    /\ METAAfterEOF(wire) /\ METAAfterEOF(buffer)
    /\ EOFIn(wire) => OnlyMETA(buffer)
    /\ isEOF => OnlyMETA(wire) /\ OnlyMETA(buffer)

LEMMA AppendedMessage ==
    ASSUME NEW seq \in Seq(Messages), NEW m \in Messages
    PROVE  /\ EOFIn(Append(seq, m)) <=> EOFIn(seq) \/ m.kind = "EOF"
           /\ OnlyMETA(Append(seq, m)) <=> OnlyMETA(seq) /\ m.kind = "META"
           /\ METAAfterEOF(seq) /\ (EOFIn(seq) => m.kind = "META")
                  => METAAfterEOF(Append(seq, m))
BY AtTheEnd DEF EOFIn, OnlyMETA, METAAfterEOF

LEMMA ConsumedMessage ==
    ASSUME NEW seq \in Seq(Messages), seq # <<>>
    PROVE  /\ EOFIn(Tail(seq)) => EOFIn(seq)
           /\ Head(seq).kind = "EOF" => EOFIn(seq)
           /\ OnlyMETA(seq) => OnlyMETA(Tail(seq)) /\ Head(seq).kind = "META"
           /\ METAAfterEOF(seq) =>
                  /\ METAAfterEOF(Tail(seq))
                  /\ Head(seq).kind = "EOF" => OnlyMETA(Tail(seq))
BY HeadAndTail DEF EOFIn, OnlyMETA, METAAfterEOF

LEMMA NoMessages == ~EOFIn(<<>>) /\ OnlyMETA(<<>>) /\ METAAfterEOF(<<>>)
BY DEF EOFIn, OnlyMETA, METAAfterEOF

\* The end of a stream, as the queue of the browser learns of it.
LEMMA QueueEOF ==
    /\ \A unit \in Units : EnqueueChunk(unit) => isEOF' = isEOF
    /\ EnqueueEOF => isEOF' = isEOF \/ isEOF' = TRUE
BY DEF EnqueueChunk, EnqueueEOF, queueVars

LEMMA EOFStep == TypeInv /\ EOFInv /\ [Next]_vars => EOFInv'
<1> SUFFICES ASSUME TypeInv, EOFInv, [Next]_vars
             PROVE  EOFInv'
  OBVIOUS
<1>0. /\ wire \in Seq(Messages) /\ buffer \in Seq(Messages)
      /\ \A kind \in {"META", "EOF"} : [kind |-> kind, at |-> pos] \in Messages
      /\ pos < Size => [kind |-> "chunk", at |-> pos] \in Messages
  BY MessagesNext DEF TypeInv, ChannelTypes
<1>1. CASE OnMessage
  <2>1. UNCHANGED <<wire, buffer, isEOF>> /\ closed' = closed
    BY <1>1 DEF OnMessage, Pause, Resume, StartStream, browserVars, queueVars
  <2>2. worker' \in {worker, "open"}
    BY <1>1 DEF OnMessage, Pause, Resume, StartStream
  <2> QED
    BY <2>1, <2>2, Zenon DEF EOFInv
<1>2. CASE OpenFile \/ Backpressure \/ WaitLow \/ WaitIfPaused \/ ReadEnds \/ Flush
  <2>1. UNCHANGED <<wire, buffer, isEOF>>
    BY <1>2 DEF OpenFile, Backpressure, WaitLow, WaitIfPaused, ReadEnds, Flush, channelVars,
                browserVars, queueVars
  <2>2. /\ closed => closed'
        /\ closed' => worker' \notin {"read", "flush", "eof"}
    BY <1>2 DEF OpenFile, Backpressure, WaitLow, WaitIfPaused, ReadEnds, Flush, Goto, Return, EOFInv
  <2> QED
    BY <2>1, <2>2 DEF EOFInv
<1>3. ASSUME Return \/ Goto("pressure"), UNCHANGED <<wire, buffer, isEOF>>
      PROVE  EOFInv'
  BY <1>3 DEF Return, Goto, EOFInv
<1>4. CASE SendMeta
  <2>1. UNCHANGED <<wire, isEOF>>
    BY <1>4 DEF SendMeta, browserVars, queueVars
  <2>2. CASE txOpen
    <3>1. buffer' = Append(buffer, [kind |-> "META", at |-> pos])
      BY <1>4, <2>2 DEF SendMeta, Send
    <3>2. /\ EOFIn(buffer') <=> EOFIn(buffer)
          /\ OnlyMETA(buffer') <=> OnlyMETA(buffer)
          /\ METAAfterEOF(buffer')
      BY <1>0, <3>1, AppendedMessage DEF EOFInv
    <3>3. worker' = "pressure" /\ closed' = closed
      BY <1>4, <2>2 DEF SendMeta, Goto
    <3> QED
      BY <2>1, <3>2, <3>3 DEF EOFInv
  <2>3. CASE ~txOpen
    BY <1>3, <1>4, <2>1, <2>3 DEF SendMeta
  <2> QED
    BY <2>2, <2>3
<1>5. CASE SendChunk
  <2>1. UNCHANGED <<wire, isEOF>>
    BY <1>5 DEF SendChunk, browserVars, queueVars
  <2>2. CASE txOpen
    <3>1. buffer' = Append(buffer, [kind |-> "chunk", at |-> pos])
      BY <1>5, <2>2 DEF SendChunk, Send
    <3>2. ~EOFIn(wire) /\ ~EOFIn(buffer) /\ ~isEOF
      BY <1>5 DEF SendChunk, EOFInv
    <3>3. ~EOFIn(buffer') /\ METAAfterEOF(buffer')
      <4>1. [kind |-> "chunk", at |-> pos] \in Messages
        BY <1>0, <1>5 DEF SendChunk
      <4> QED
        BY <1>0, <3>1, <3>2, <4>1, AppendedMessage DEF EOFInv
    <3>4. worker' = "pressure" /\ closed' = closed
      BY <1>5, <2>2 DEF SendChunk, Goto
    <3> QED
      BY <2>1, <3>2, <3>3, <3>4 DEF EOFInv
  <2>3. CASE ~txOpen
    BY <1>3, <1>5, <2>1, <2>3 DEF SendChunk
  <2> QED
    BY <2>2, <2>3
<1>6. CASE SendEOF
  <2>1. UNCHANGED <<wire, isEOF>> /\ Return
    BY <1>6 DEF SendEOF, browserVars, queueVars
  <2>2. CASE txOpen
    <3>1. buffer' = Append(buffer, [kind |-> "EOF", at |-> pos])
      BY <1>6, <2>2 DEF SendEOF, Send
    <3>2. ~EOFIn(wire) /\ ~EOFIn(buffer) /\ ~isEOF
      BY <1>6 DEF SendEOF, EOFInv
    <3>3. METAAfterEOF(buffer')
      BY <1>0, <3>1, <3>2, AppendedMessage DEF EOFInv
    <3> QED
      BY <2>1, <3>2, <3>3 DEF Return, EOFInv
  <2>3. CASE ~txOpen
    BY <1>3, <1>6, <2>1, <2>3 DEF SendEOF
  <2> QED
    BY <2>2, <2>3
<1>7. CASE Receive
  <2>1. wire # <<>> /\ wire' = Tail(wire) /\ UNCHANGED <<buffer, worker, closed>>
    BY <1>7 DEF Receive, senderVars
  <2>2. isEOF' = isEOF \/ Head(wire).kind = "EOF"
    <3>1. Head(wire) \in Messages
      BY <1>0, <2>1
    <3>2. Head(wire).kind = "chunk" => Head(wire).at \in Units
      BY <3>1, MessageFields
    <3> QED
      BY <1>7, <3>2, QueueEOF DEF Receive, queueVars
  <2>3. /\ EOFIn(wire') => EOFIn(wire)
        /\ METAAfterEOF(wire')
        /\ OnlyMETA(wire) => OnlyMETA(wire')
        /\ Head(wire).kind = "EOF" => EOFIn(wire) /\ OnlyMETA(wire')
    BY <1>0, <2>1, ConsumedMessage DEF EOFInv
  <2> QED
    BY <2>1, <2>2, <2>3 DEF EOFInv
<1>8. CASE Transmit
  <2>1. UNCHANGED <<worker, closed, isEOF>> /\ buffer # <<>> /\ buffer' = Tail(buffer)
    BY <1>8 DEF Transmit, senderVars, browserVars, queueVars
  <2>2. /\ EOFIn(buffer') => EOFIn(buffer)
        /\ METAAfterEOF(buffer')
        /\ OnlyMETA(buffer) => OnlyMETA(buffer') /\ Head(buffer).kind = "META"
        /\ Head(buffer).kind = "EOF" => EOFIn(buffer) /\ OnlyMETA(buffer')
    BY <1>0, <2>1, ConsumedMessage DEF EOFInv
  <2>3. CASE wire' = wire
    BY <2>1, <2>2, <2>3 DEF EOFInv
  <2>4. CASE wire' = Append(wire, Head(buffer))
    <3>1. Head(buffer) \in Messages
      BY <1>0, <2>1
    <3>2. /\ EOFIn(wire') <=> EOFIn(wire) \/ Head(buffer).kind = "EOF"
          /\ OnlyMETA(wire') <=> OnlyMETA(wire) /\ Head(buffer).kind = "META"
          /\ METAAfterEOF(wire')
      BY <1>0, <2>2, <2>4, <3>1, AppendedMessage DEF EOFInv
    <3> QED
      BY <2>1, <2>2, <3>2 DEF EOFInv
  <2> QED
    BY <1>8, <2>3, <2>4 DEF Transmit
<1>9. CASE \/ \E offset \in 0..Size : Ask(offset)
           \/ WriteDone \/ WriteFails \/ Save
           \/ TxCloses \/ RxCloses \/ UNCHANGED vars
  <2>1. UNCHANGED <<buffer, worker, closed, isEOF>> /\ (wire' = wire \/ wire' = <<>>)
    BY <1>9 DEF Ask, WriteDone, WriteFails, Save, TxCloses, RxCloses, vars,
                channelVars, senderVars, browserVars, queueVars
  <2> QED
    BY <2>1, NoMessages DEF EOFInv
<1> QED
  BY <1>1, <1>2, <1>4, <1>5, <1>6, <1>7, <1>8, <1>9 DEF Next, WorkerStep

\* However often the peer asks, no chunk and no second EOF follows an EOF
\* (NothingAfterEOF, the pause control that Return leaves closed).
THEOREM NoChunkAfterEOF == Spec => []NothingAfterEOF
<1>1. Init => EOFInv
  BY NoMessages DEF Init, EOFInv
<1>2. TypeInv /\ EOFInv => NothingAfterEOF
  <2> SUFFICES ASSUME TypeInv, EOFInv,
                      NEW i \in DOMAIN (wire \o buffer), NEW j \in DOMAIN (wire \o buffer)
               PROVE  /\ i < j /\ (wire \o buffer)[i].kind = "EOF"
                             => (wire \o buffer)[j].kind = "META"
                      /\ isEOF => (wire \o buffer)[j].kind = "META"
    BY DEF NothingAfterEOF
  <2>0. wire \in Seq(Messages) /\ buffer \in Seq(Messages)
    BY DEF TypeInv, ChannelTypes
  <2>1. \A k \in DOMAIN (wire \o buffer) :
            \/ k \in DOMAIN wire /\ (wire \o buffer)[k] = wire[k]
            \/ /\ k > Len(wire) /\ k - Len(wire) \in DOMAIN buffer
               /\ (wire \o buffer)[k] = buffer[k - Len(wire)]
    BY <2>0
  <2>2. i \in Nat /\ j \in Nat /\ Len(wire) \in Nat /\ \A k \in DOMAIN wire : k <= Len(wire)
    BY <2>0
  <2>3. CASE j \in DOMAIN wire /\ (wire \o buffer)[j] = wire[j]
    BY <2>1, <2>2, <2>3 DEF EOFInv, METAAfterEOF, OnlyMETA
  <2>4. CASE /\ j > Len(wire) /\ j - Len(wire) \in DOMAIN buffer
             /\ (wire \o buffer)[j] = buffer[j - Len(wire)]
    BY <2>1, <2>2, <2>4 DEF EOFInv, METAAfterEOF, OnlyMETA, EOFIn
  <2> QED
    BY <2>1, <2>3, <2>4
<1> QED
  BY <1>1, <1>2, TypeInitially, TypeStep, EOFStep, PTL DEF Spec

(***************************************************************************)
(* A saved file.  The units follow one another all the way from the file   *)
(* to the disk.                                                            *)
(***************************************************************************)
Down    == wire \o buffer
Held    == IF inHand = None THEN 0 ELSE 1
Arrived == Len(written) + Held + Len(queue)
Wanted  == from + Arrived                 \* the unit the queue waits for
After(m) == IF m.kind = "chunk" THEN m.at + 1 ELSE m.at

\* What has arrived is what comes behind from, in order.
ArrivedInv ==
    /\ \A i \in DOMAIN written : written[i] = from + i - 1
    /\ inHand # None => inHand = from + Len(written)
    /\ \A i \in DOMAIN queue : queue[i] = from + Len(written) + Held + i - 1

\* What is on its way goes on from there: chunks follow one another behind the first META,
\* and the EOF comes behind the last chunk.
InLine(seq, n) ==
    /\ seq # <<>> => seq[1].at = n
    /\ \A i \in DOMAIN seq : i > 1 =>
           IF seq[i].kind = "META" THEN \E j \in DOMAIN seq : j < i /\ seq[j].kind = "EOF"
           ELSE seq[i - 1].kind # "EOF" /\ seq[i].at = After(seq[i - 1])

\* The goroutine goes on from what it has sent; a stream that ended has sent its EOF.
SenderInv ==
    /\ ~closed /\ worker \notin {"idle", "open", "meta"} =>
           IF Down = <<>> THEN pos = Wanted ELSE pos = After(Down[Len(Down)])
    /\ closed /\ txOpen => EOFIn(Down)

Fresh == Arrived = 0 /\ Down = <<>> /\ ~isEOF
NotStarted ==
    /\ ~closed /\ worker \in {"idle", "open", "meta"} => Fresh
    /\ ~closed /\ worker = "meta" => from = pos

LineInv ==
    /\ NotStarted
    /\ ~error => ArrivedInv
    /\ rxOpen /\ ~isEOF => InLine(Down, Wanted) /\ SenderInv

\* The end of a file that could be read is its last unit.
EOFsAtEnd(seq) == \A i \in DOMAIN seq : seq[i].kind = "EOF" => seq[i].at = Size
EndInv ==
    ~failed =>
        /\ worker \in {"flush", "eof"} => pos = Size
        /\ EOFsAtEnd(wire) /\ EOFsAtEnd(buffer)
        /\ isEOF /\ ~error => Wanted = Size

\* Only a queue that is empty behind its EOF is drained.
DrainedInv ==
    /\ isDrained => isEOF /\ ~error /\ inHand = None /\ queue = <<>>
    /\ saved => isDrained

\* Both halves of the channel seen as one sequence.
LEMMA DownIs ==
    ASSUME wire \in Seq(Messages), buffer \in Seq(Messages)
    PROVE  /\ Down \in Seq(Messages)
           /\ EOFIn(Down) <=> EOFIn(wire) \/ EOFIn(buffer)
           /\ \A m \in Messages : wire \o Append(buffer, m) = Append(Down, m)
           /\ wire # <<>> => /\ Down # <<>> /\ Head(wire) = Down[1]
                             /\ Tail(wire) \o buffer = Tail(Down)
           /\ buffer # <<>> => Append(wire, Head(buffer)) \o Tail(buffer) = Down
<1>1. Down \in Seq(Messages) /\ Len(Down) = Len(wire) + Len(buffer)
  BY DEF Down
<1>2. \A k \in 1..Len(Down) : Down[k] = IF k <= Len(wire) THEN wire[k] ELSE buffer[k - Len(wire)]
  BY DEF Down
<1>3. EOFIn(Down) <=> EOFIn(wire) \/ EOFIn(buffer)
  <2>1. ASSUME EOFIn(Down) PROVE EOFIn(wire) \/ EOFIn(buffer)
    <3>1. PICK k \in 1..Len(Down) : Down[k].kind = "EOF"
      BY <1>1, <2>1 DEF EOFIn
    <3>2. \/ k \in DOMAIN wire /\ wire[k].kind = "EOF"
          \/ k - Len(wire) \in DOMAIN buffer /\ buffer[k - Len(wire)].kind = "EOF"
      BY <1>1, <1>2, <3>1
    <3> QED BY <3>2 DEF EOFIn
  <2>2. ASSUME EOFIn(wire) PROVE EOFIn(Down)
    <3>1. PICK k \in DOMAIN wire : wire[k].kind = "EOF"
      BY <2>2 DEF EOFIn
    <3>2. k \in DOMAIN Down /\ Down[k] = wire[k]
      BY <1>1, <1>2, <3>1
    <3> QED BY <3>1, <3>2 DEF EOFIn
  <2>3. ASSUME EOFIn(buffer) PROVE EOFIn(Down)
    <3>1. PICK k \in DOMAIN buffer : buffer[k].kind = "EOF"
      BY <2>3 DEF EOFIn
    <3>2. Len(wire) + k \in DOMAIN Down /\ Down[Len(wire) + k] = buffer[k]
      BY <1>1, <1>2, <3>1
    <3> QED BY <3>1, <3>2 DEF EOFIn
  <2> QED BY <2>1, <2>2, <2>3
<1>4. \A m \in Messages : wire \o Append(buffer, m) = Append(Down, m)
  BY DEF Down
<1>5. ASSUME wire # <<>>
      PROVE  /\ Down # <<>> /\ Head(wire) = Down[1]
             /\ Tail(wire) \o buffer = Tail(Down)
  BY <1>5 DEF Down
<1>6. ASSUME buffer # <<>> PROVE Append(wire, Head(buffer)) \o Tail(buffer) = Down
  BY <1>6 DEF Down
<1> QED BY <1>1, <1>3, <1>4, <1>5, <1>6

\* The first message leaves a line, whose rest goes on behind it.
LEMMA LineMoves ==
    ASSUME NEW seq \in Seq(Messages), NEW n, InLine(seq, n), seq # <<>>, seq[1].kind # "EOF"
    PROVE  InLine(Tail(seq), After(seq[1]))
<1> DEFINE rest == Tail(seq)
<1>1. /\ rest \in Seq(Messages)
      /\ \A i \in DOMAIN rest : i \in Nat /\ i >= 1 /\ i + 1 \in DOMAIN seq /\ rest[i] = seq[i + 1]
      /\ \A i \in DOMAIN seq : i \in Nat /\ (i > 1 => i - 1 \in DOMAIN rest /\ rest[i - 1] = seq[i])
      /\ rest # <<>> => 1 \in DOMAIN rest
  OBVIOUS
<1>2. \A i \in DOMAIN rest :
          IF rest[i].kind = "META" THEN i > 1 /\ \E j \in DOMAIN rest : j < i /\ rest[j].kind = "EOF"
          ELSE rest[i].at = After(seq[i]) /\ seq[i].kind # "EOF"
  <2> SUFFICES ASSUME NEW i \in DOMAIN rest
               PROVE  IF rest[i].kind = "META"
                      THEN i > 1 /\ \E j \in DOMAIN rest : j < i /\ rest[j].kind = "EOF"
                      ELSE rest[i].at = After(seq[i]) /\ seq[i].kind # "EOF"
    OBVIOUS
  <2>1. i + 1 \in DOMAIN seq /\ i + 1 > 1 /\ rest[i] = seq[i + 1] /\ (i + 1) - 1 = i
    BY <1>1
  <2>2. CASE rest[i].kind = "META"
    <3>1. PICK k \in DOMAIN seq : k < i + 1 /\ seq[k].kind = "EOF"
      BY <2>1, <2>2 DEF InLine
    <3>2. k > 1 /\ k - 1 \in DOMAIN rest /\ rest[k - 1].kind = "EOF" /\ k - 1 < i
      <4>1. k \in Nat /\ k >= 1 /\ k # 1 BY <3>1
      <4> QED BY <1>1, <3>1, <4>1
    <3> QED BY <1>1, <2>2, <3>2
  <2>3. CASE rest[i].kind # "META"
    BY <2>1, <2>3 DEF InLine
  <2> QED BY <2>2, <2>3
<1> HIDE DEF rest
<1>3. rest # <<>> => rest[1].at = After(seq[1])
  <2>1. ASSUME rest # <<>> PROVE 1 \in DOMAIN rest /\ rest[1].kind # "META"
    BY <1>1, <1>2, <2>1
  <2> QED BY <1>2, <2>1
<1>5. \A i \in DOMAIN rest : i > 1 => i - 1 \in DOMAIN rest /\ rest[i - 1] = seq[i]
  BY <1>1
<1>6. \A i \in DOMAIN rest : i > 1 =>
           IF rest[i].kind = "META" THEN \E j \in DOMAIN rest : j < i /\ rest[j].kind = "EOF"
           ELSE rest[i - 1].kind # "EOF" /\ rest[i].at = After(rest[i - 1])
  BY <1>2, <1>5
<1> QED BY <1>3, <1>6 DEF InLine, rest

\* A message that goes on from the last one joins a line; a META joins it behind an EOF.
LEMMA LineGrows ==
    ASSUME NEW seq \in Seq(Messages), NEW n, NEW m \in Messages, InLine(seq, n),
           seq = <<>> => m.at = n,
           seq # <<>> => IF m.kind = "META" THEN EOFIn(seq)
                         ELSE seq[Len(seq)].kind # "EOF" /\ m.at = After(seq[Len(seq)])
    PROVE  InLine(Append(seq, m), n)
<1> DEFINE new == Append(seq, m)
           last == Len(seq) + 1
<1>1. /\ \A i \in DOMAIN seq : i \in DOMAIN new /\ new[i] = seq[i] /\ i < last /\ i \in Nat /\ i >= 1
      /\ new[last] = m /\ last \in Nat
      /\ \A i \in DOMAIN new : i \in DOMAIN seq \/ i = last
      /\ seq = <<>> => last = 1
      /\ seq # <<>> => 1 \in DOMAIN seq /\ Len(seq) \in DOMAIN seq
      /\ \A i \in DOMAIN seq : i > 1 => i - 1 \in DOMAIN seq
  OBVIOUS
<1> HIDE DEF new, last
<1>2. new[1].at = n
  <2>1. CASE seq = <<>> BY <1>1, <2>1
  <2>2. CASE seq # <<>> BY <1>1, <2>2 DEF InLine
  <2> QED BY <2>1, <2>2
<1>4. ASSUME NEW i \in DOMAIN new, i > 1
      PROVE  IF new[i].kind = "META" THEN \E j \in DOMAIN new : j < i /\ new[j].kind = "EOF"
             ELSE new[i - 1].kind # "EOF" /\ new[i].at = After(new[i - 1])
  <2>1. CASE i \in DOMAIN seq
    <3>1. new[i] = seq[i] /\ i - 1 \in DOMAIN seq /\ new[i - 1] = seq[i - 1]
      BY <1>1, <1>4, <2>1
    <3>2. CASE seq[i].kind = "META"
      <4>1. PICK j \in DOMAIN seq : j < i /\ seq[j].kind = "EOF"
        BY <1>4, <2>1, <3>2 DEF InLine
      <4> QED BY <1>1, <3>1, <3>2, <4>1
    <3>3. CASE seq[i].kind # "META"
      BY <1>4, <2>1, <3>1, <3>3 DEF InLine
    <3> QED BY <3>2, <3>3
  <2>2. CASE i = last
    <3>1. seq # <<>> /\ new[i] = m
      BY <1>1, <1>4, <2>2
    <3>2. i - 1 = Len(seq) /\ new[i - 1] = seq[Len(seq)]
      BY <1>1, <2>2, <3>1 DEF last
    <3>3. CASE m.kind = "META"
      <4>1. PICK j \in DOMAIN seq : seq[j].kind = "EOF"
        BY <3>1, <3>3 DEF EOFIn
      <4> QED BY <1>1, <2>2, <3>1, <3>3, <4>1
    <3>4. CASE m.kind # "META"
      BY <3>1, <3>2, <3>4
    <3> QED BY <3>3, <3>4
  <2> QED BY <1>1, <1>4, <2>1, <2>2
<1> QED BY <1>2, <1>4 DEF InLine, new

\* A chunk that is wanted joins the queue, in the writer's hands if they are empty.
LEMMA ChunkArrives ==
    ASSUME TypeInv, ArrivedInv, ~error, ~isEOF, NEW unit \in Units, unit = Wanted,
           EnqueueChunk(unit), UNCHANGED <<written, from>>
    PROVE  ArrivedInv' /\ Wanted' = Wanted + 1
<1>1. /\ queue \in Seq(Units) /\ inHand \in Units \cup {None} /\ written \in Seq(Units)
      /\ from \in 0..Size /\ Size \in Nat /\ None \notin 0..Size
      /\ inHand = None => queue = <<>>
  BY SizesAssumption, NoneAssumption
     DEF TypeInv, QueueTypes, BrowserTypes, SenderTypes, Counted
<1>2. isEOF' = isEOF
  BY DEF EnqueueChunk
<1>3. CASE inHand = None
  <2>1. ProcessLoop(<<unit>>) /\ queue = <<>>
    BY <1>1, <1>3 DEF EnqueueChunk
  <2>2. inHand' = unit /\ queue' = <<>>
    BY <2>1 DEF ProcessLoop
  <2> QED
    BY <1>1, <1>2, <1>3, <2>1, <2>2, MessageFields DEF ArrivedInv, Wanted, Arrived, Held
<1>4. CASE inHand # None
  <2>1. queue' = Append(queue, unit) /\ inHand' = inHand
    BY <1>4 DEF EnqueueChunk
  <2>2. Held = 1 /\ Held' = 1
    BY <1>4, <2>1 DEF Held
  <2>3. unit = from + Len(written) + 1 + Len(queue)
    BY <1>1, <2>2 DEF Wanted, Arrived
  <2>4. \A i \in DOMAIN queue' : queue'[i] = from + Len(written) + 1 + i - 1
    <3>1. /\ \A i \in DOMAIN queue : queue'[i] = queue[i] /\ i \in Nat
          /\ queue'[Len(queue) + 1] = unit
          /\ \A i \in DOMAIN queue' : i \in DOMAIN queue \/ i = Len(queue) + 1
      BY <1>1, <2>1
    <3>2. Len(written) \in Nat /\ Len(queue) \in Nat
      BY <1>1
    <3>3. \A i \in DOMAIN queue : queue'[i] = from + Len(written) + 1 + i - 1
      BY <2>2, <3>1 DEF ArrivedInv
    <3>4. unit = from + Len(written) + 1 + (Len(queue) + 1) - 1
      BY <1>1, <2>3, <3>2
    <3> QED
      BY <3>1, <3>3, <3>4
  <2>5. Len(queue') = Len(queue) + 1 /\ Len(written) \in Nat /\ Len(queue) \in Nat
    BY <1>1, <2>1
  <2>6. Wanted' = Wanted + 1
    BY <1>1, <2>2, <2>5 DEF Wanted, Arrived
  <2> QED
    BY <1>2, <2>1, <2>2, <2>4, <2>6 DEF ArrivedInv
<1> QED BY <1>3, <1>4

\* The EOF changes nothing of what has arrived.
LEMMA EOFArrives ==
    ASSUME TypeInv, ArrivedInv, ~error, EnqueueEOF, UNCHANGED <<written, from>>
    PROVE  ArrivedInv' /\ Wanted' = Wanted
<1>1. inHand' = inHand /\ queue' = queue
  BY DEF EnqueueEOF, ProcessLoop, TypeInv, Counted
<1> QED
  BY <1>1 DEF ArrivedInv, Wanted, Arrived, Held

\* A write moves the unit in hand to the disk and takes the next one up.
LEMMA ChunkWritten ==
    ASSUME TypeInv, ArrivedInv, ~error, WriteDone
    PROVE  ArrivedInv' /\ Wanted' = Wanted
<1>1. /\ queue \in Seq(Units) /\ inHand \in Units /\ written \in Seq(Units)
      /\ from \in 0..Size /\ Size \in Nat /\ None \notin 0..Size
      /\ Len(queue) \in Nat /\ Len(written) \in Nat
  BY SizesAssumption, NoneAssumption
     DEF TypeInv, QueueTypes, BrowserTypes, SenderTypes, WriteDone
<1>2. /\ written' = Append(written, inHand) /\ isEOF' = isEOF /\ from' = from
      /\ Held = 1 /\ inHand = from + Len(written)
  BY DEF WriteDone, senderVars, Held, ArrivedInv
<1>3. \A i \in DOMAIN written' : written'[i] = from + i - 1
  <2>1. /\ \A i \in DOMAIN written : written'[i] = written[i] /\ i \in Nat
        /\ written'[Len(written) + 1] = inHand
        /\ \A i \in DOMAIN written' : i \in DOMAIN written \/ i = Len(written) + 1
    BY <1>1, <1>2
  <2> QED BY <1>1, <1>2, <2>1 DEF ArrivedInv
<1>4. Len(written') = Len(written) + 1
  BY <1>1, <1>2
<1>5. CASE queue = <<>>
  <2>1. inHand' = None /\ queue' = <<>>
    BY <1>5 DEF WriteDone, ProcessLoop
  <2>2. Held' = 0 /\ Len(queue') = 0 /\ Len(queue) = 0
    BY <1>5, <2>1 DEF Held
  <2>3. Wanted' = Wanted
    BY <1>1, <1>2, <1>4, <2>2 DEF Wanted, Arrived
  <2> QED
    BY <1>2, <1>3, <2>1, <2>3 DEF ArrivedInv
<1>6. CASE queue # <<>>
  <2>1. inHand' = queue[1] /\ queue' = Tail(queue) /\ queue[1] \in Units
    BY <1>1, <1>6 DEF WriteDone, ProcessLoop
  <2>2. Held' = 1
    BY <2>1, MessageFields DEF Held
  <2>3. /\ Len(queue') = Len(queue) - 1 /\ 1 \in DOMAIN queue
        /\ \A i \in DOMAIN queue' : i + 1 \in DOMAIN queue /\ queue'[i] = queue[i + 1] /\ i \in Nat
    BY <1>1, <1>6, <2>1
  <2>4. Wanted' = Wanted
    BY <1>1, <1>2, <1>4, <2>2, <2>3 DEF Wanted, Arrived
  <2>5. inHand' = from' + Len(written')
    BY <1>1, <1>2, <1>4, <2>1, <2>3 DEF ArrivedInv
  <2>6. \A i \in DOMAIN queue' : queue'[i] = from' + Len(written') + Held' + i - 1
    BY <1>1, <1>2, <1>4, <2>2, <2>3 DEF ArrivedInv
  <2> QED
    BY <1>2, <1>3, <2>4, <2>5, <2>6 DEF ArrivedInv
<1> QED BY <1>5, <1>6

\* Nothing happens to what has arrived and to what is on its way.
Quiet == UNCHANGED <<written, inHand, queue, isEOF, error, from>>

LEMMA QuietKeeps == Quiet => Wanted' = Wanted /\ Arrived' = Arrived /\ (ArrivedInv => ArrivedInv')
BY DEF Quiet, Wanted, Arrived, Held, ArrivedInv

\* A message of the peer does not touch the line.
LEMMA OnMessageLine ==
    ASSUME TypeInv, StreamInv, LineInv, OnMessage
    PROVE  LineInv'
<1>1. Quiet /\ UNCHANGED <<wire, buffer, rxOpen, txOpen, closed, failed>>
  BY DEF OnMessage, Pause, Resume, StartStream, browserVars, queueVars, Quiet
<1>2. \/ UNCHANGED <<worker, pos>>
      \/ worker = "idle" /\ worker' = "open"
  BY DEF OnMessage, Pause, Resume, StartStream, StreamInv
<1>3. Down' = Down /\ Wanted' = Wanted /\ Arrived' = Arrived
  BY <1>1, QuietKeeps DEF Down
<1>4. NotStarted'
  <2>1. NotStarted BY DEF LineInv
  <2> QED BY <1>1, <1>2, <1>3, <2>1 DEF NotStarted, Fresh, Quiet
<1>5. ~error' => ArrivedInv'
  BY <1>1, QuietKeeps DEF LineInv, Quiet
<1>6. ASSUME rxOpen', ~isEOF' PROVE InLine(Down', Wanted') /\ SenderInv'
  <2>1. InLine(Down, Wanted) /\ SenderInv
    BY <1>1, <1>6 DEF LineInv, Quiet
  <2> QED BY <1>1, <1>2, <1>3, <2>1 DEF SenderInv
<1> QED BY <1>1, <1>4, <1>5, <1>6 DEF LineInv

\* Opening the file begins the line at the unit asked for, once.
LEMMA OpenFileLine ==
    ASSUME TypeInv, LineInv, OpenFile
    PROVE  LineInv'
<1>1. /\ UNCHANGED <<wire, buffer, rxOpen, txOpen, closed, written, inHand, queue, isEOF, error, pos>>
      /\ worker = "open"
      /\ \/ worker' = "meta" /\ from' = IF closed THEN from ELSE pos
         \/ worker' = "idle" /\ from' = from
  BY DEF OpenFile, Goto, channelVars, browserVars, queueVars
<1>2. Down' = Down /\ Arrived' = Arrived /\ Held' = Held
  BY <1>1 DEF Down, Arrived, Held
<1>3. NotStarted /\ (~error => ArrivedInv)
  BY DEF LineInv
<1>4. CASE closed \/ worker' = "idle"
  <2>1. Quiet
    BY <1>1, <1>4 DEF Quiet
  <2>2. Wanted' = Wanted /\ (~error' => ArrivedInv')
    BY <1>1, <1>3, <2>1, QuietKeeps
  <2>3. NotStarted'
    BY <1>1, <1>2, <1>3, <1>4, <2>1 DEF NotStarted, Fresh, Quiet
  <2>4. ASSUME rxOpen', ~isEOF' PROVE InLine(Down', Wanted') /\ SenderInv'
    <3>1. InLine(Down, Wanted) /\ SenderInv
      BY <1>1, <2>4 DEF LineInv
    <3> QED BY <1>1, <1>2, <1>4, <2>2, <3>1 DEF SenderInv
  <2> QED BY <2>2, <2>3, <2>4 DEF LineInv
<1>5. CASE ~closed /\ worker' = "meta"
  <2>1. Fresh /\ from' = pos
    BY <1>1, <1>3, <1>5 DEF NotStarted
  <2>2. Fresh' /\ NotStarted'
    BY <1>1, <1>2, <2>1 DEF Fresh, NotStarted
  <2>3. written = <<>> /\ inHand = None /\ queue = <<>>
    <3>1. Len(written) \in Nat /\ Len(queue) \in Nat /\ Held \in {0, 1}
      BY DEF TypeInv, QueueTypes, BrowserTypes, Held
    <3>2. Len(written) = 0 /\ Len(queue) = 0 /\ Held = 0
      BY <2>1, <3>1 DEF Fresh, Arrived
    <3>3. written \in Seq(Units) /\ queue \in Seq(Units)
      BY DEF TypeInv, QueueTypes, BrowserTypes
    <3>4. inHand = None
      BY <3>2 DEF Held
    <3> QED
      BY <3>2, <3>3, <3>4
  <2>4. ArrivedInv'
    BY <1>1, <2>1, <2>3 DEF ArrivedInv, Fresh
  <2>5. InLine(Down', Wanted') /\ SenderInv'
    BY <1>1, <1>2, <1>5, <2>1 DEF InLine, Fresh, SenderInv
  <2> QED BY <2>2, <2>4, <2>5 DEF LineInv
<1> QED BY <1>1, <1>4, <1>5

\* Between two sends the goroutine keeps its place in the line.
LEMMA SilentLine ==
    ASSUME TypeInv, EOFInv, LineInv,
           Backpressure \/ WaitLow \/ WaitIfPaused \/ ReadEnds \/ Flush
    PROVE  LineInv'
<1>1. Quiet /\ UNCHANGED <<wire, buffer, rxOpen, txOpen, pos>>
  BY DEF Backpressure, WaitLow, WaitIfPaused, ReadEnds, Flush, channelVars, browserVars, queueVars, Quiet
<1>2. /\ worker \in {"pressure", "wait", "paused", "read", "flush"}
      /\ worker' \in {"pressure", "wait", "paused", "read", "flush", "eof", "idle"}
      /\ closed' => closed \/ ~txOpen
      /\ worker' = "idle" => closed'
      /\ closed => closed'
  BY DEF Backpressure, WaitLow, WaitIfPaused, ReadEnds, Flush, Goto, Return
<1>3. Down' = Down /\ Wanted' = Wanted /\ Arrived' = Arrived
  BY <1>1, QuietKeeps DEF Down
<1>4. NotStarted'
  BY <1>2 DEF NotStarted
<1>5. ~error' => ArrivedInv'
  BY <1>1, QuietKeeps DEF LineInv, Quiet
<1>6. ASSUME rxOpen', ~isEOF' PROVE InLine(Down', Wanted') /\ SenderInv'
  <2>1. InLine(Down, Wanted) /\ SenderInv
    BY <1>1, <1>6 DEF LineInv, Quiet
  <2> QED BY <1>1, <1>2, <1>3, <2>1 DEF SenderInv
<1> QED BY <1>4, <1>5, <1>6 DEF LineInv

\* The last element of a sequence that grows at one end and shrinks at the other.
LEMMA Ends ==
    ASSUME NEW S, NEW seq \in Seq(S)
    PROVE  /\ \A e \in S : /\ Append(seq, e) # <<>>
                           /\ Append(seq, e)[Len(Append(seq, e))] = e
           /\ seq # <<>> =>
                  /\ \A i \in DOMAIN seq : i # 1 => /\ i - 1 \in DOMAIN Tail(seq)
                                                  /\ Tail(seq)[i - 1] = seq[i]
                  /\ Tail(seq) = <<>> => Len(seq) = 1
                  /\ Tail(seq) # <<>> => Tail(seq)[Len(Tail(seq))] = seq[Len(seq)]
<1>1. ASSUME NEW e \in S
      PROVE  Append(seq, e) # <<>> /\ Append(seq, e)[Len(Append(seq, e))] = e
  OBVIOUS
<1>2. ASSUME seq # <<>>
      PROVE  /\ \A i \in DOMAIN seq : i # 1 => i - 1 \in DOMAIN Tail(seq) /\ Tail(seq)[i - 1] = seq[i]
             /\ Tail(seq) = <<>> => Len(seq) = 1
  <2>1. \A i \in DOMAIN seq : i # 1 => i \in Nat /\ i > 1
    OBVIOUS
  <2>2. Len(Tail(seq)) = Len(seq) - 1 /\ Len(seq) \in Nat
    BY <1>2
  <2> QED BY <1>2, <2>1, <2>2, HeadAndTail, EmptySeqs
<1>3. ASSUME seq # <<>>, Tail(seq) # <<>>
      PROVE  Tail(seq)[Len(Tail(seq))] = seq[Len(seq)]
  <2>1. Len(Tail(seq)) = Len(seq) - 1 /\ Len(seq) \in DOMAIN seq /\ Len(seq) \in Nat /\ Len(seq) # 1
    BY <1>3
  <2> QED BY <1>2, <1>3, <2>1
<1> QED BY <1>1, <1>2, <1>3

\* Sending puts a message behind what is on its way.
LEMMA SendMetaLine ==
    ASSUME TypeInv, EOFInv, LineInv, SendMeta
    PROVE  LineInv'
<1>1. Quiet /\ UNCHANGED <<wire, rxOpen, txOpen, pos, failed>> /\ worker = "meta"
  BY DEF SendMeta, browserVars, queueVars, Quiet
<1>2. Wanted' = Wanted /\ (~error' => ArrivedInv')
  BY <1>1, QuietKeeps DEF LineInv, Quiet
<1>3. NotStarted'
  BY DEF SendMeta, Goto, Return, NotStarted
<1>4. CASE ~txOpen
  <2>1. Down' = Down /\ worker' = "idle" /\ closed'
    BY <1>1, <1>4 DEF SendMeta, Return, Down
  <2>2. ASSUME rxOpen', ~isEOF' PROVE InLine(Down', Wanted') /\ SenderInv'
    <3>1. InLine(Down, Wanted)
      BY <1>1, <2>2 DEF LineInv, Quiet
    <3> QED BY <1>1, <1>2, <1>4, <2>1, <3>1 DEF SenderInv
  <2> QED BY <1>2, <1>3, <2>2 DEF LineInv
<1>5. CASE txOpen
  <2> DEFINE m == [kind |-> "META", at |-> pos]
  <2>1. m \in Messages /\ wire \in Seq(Messages) /\ buffer \in Seq(Messages)
    BY MessagesNext DEF TypeInv, ChannelTypes, SendChunk
  <2>2. /\ Down \in Seq(Messages) /\ Down' = Append(Down, m)
        /\ worker' = "pressure" /\ closed' = closed
    BY <1>1, <1>5, <2>1, DownIs DEF SendMeta, Send, Goto, Down
  <2>3. ASSUME rxOpen', ~isEOF' PROVE InLine(Down', Wanted') /\ SenderInv'
    <3>1. InLine(Down, Wanted) /\ SenderInv
      BY <1>1, <2>3 DEF LineInv, Quiet
    <3>2. CASE closed
      <4>1. EOFIn(Down) /\ Down # <<>>
        BY <1>5, <3>1, <3>2 DEF SenderInv, EOFIn
      <4>2. InLine(Append(Down, m), Wanted)
        BY <2>1, <2>2, <3>1, <4>1, LineGrows
      <4>3. EOFIn(Append(Down, m))
        BY <2>1, <2>2, <4>1, AppendedMessage
      <4> QED BY <1>2, <2>2, <3>2, <4>2, <4>3 DEF SenderInv
    <3>3. CASE ~closed
      <4>1. Down = <<>> /\ Arrived = 0 /\ from = pos
        BY <1>1, <3>3 DEF LineInv, NotStarted, Fresh
      <4>2. Wanted = pos
        BY <4>1 DEF Wanted, TypeInv, SenderTypes
      <4>3. InLine(Append(Down, m), Wanted)
        BY <2>1, <2>2, <3>1, <4>1, <4>2, LineGrows
      <4>4. Down' # <<>> /\ Down'[Len(Down')] = m
        <5> HIDE DEF m
        <5> QED BY <2>1, <2>2, Ends
      <4> QED BY <1>1, <1>2, <2>2, <3>3, <4>3, <4>4 DEF SenderInv, After
    <3> QED BY <3>2, <3>3
  <2> QED BY <1>2, <1>3, <2>3 DEF LineInv
<1> QED BY <1>4, <1>5

\* What a goroutine sends whose control is open continues the line.
LEMMA NextInLine ==
    ASSUME TypeInv, EOFInv, InLine(Down, Wanted), SenderInv, ~isEOF,
           worker \in {"read", "eof"}, NEW kind \in {"chunk", "EOF"}, kind = "chunk" => pos < Size
    PROVE  InLine(Append(Down, [kind |-> kind, at |-> pos]), Wanted)
<1> DEFINE m == [kind |-> kind, at |-> pos]
<1>1. m \in Messages /\ wire \in Seq(Messages) /\ buffer \in Seq(Messages)
  BY MessagesNext DEF TypeInv, ChannelTypes
<1>2. Down \in Seq(Messages) /\ ~EOFIn(Down)
  BY <1>1, DownIs DEF EOFInv
<1>3. ~closed
  BY DEF EOFInv
<1>4. Down = <<>> => m.at = Wanted
  BY <1>3 DEF SenderInv
<1>5. Down # <<>> => m.kind # "META" /\ Down[Len(Down)].kind # "EOF" /\ m.at = After(Down[Len(Down)])
  <2>1. ASSUME Down # <<>> PROVE Len(Down) \in DOMAIN Down
    BY <1>2, <2>1
  <2>2. ASSUME Down # <<>> PROVE m.at = After(Down[Len(Down)])
    BY <1>3, <2>2 DEF SenderInv
  <2> QED BY <1>2, <2>1, <2>2 DEF EOFIn
<1>6. InLine(Append(Down, m), Wanted)
  <2> HIDE DEF m
  <2> QED BY <1>1, <1>2, <1>4, <1>5, LineGrows
<1> QED BY <1>6

LEMMA SendChunkLine ==
    ASSUME TypeInv, EOFInv, LineInv, SendChunk
    PROVE  LineInv'
<1>1. Quiet /\ UNCHANGED <<wire, rxOpen, txOpen, failed>> /\ worker = "read"
  BY DEF SendChunk, browserVars, queueVars, Quiet
<1>2. Wanted' = Wanted /\ (~error' => ArrivedInv')
  BY <1>1, QuietKeeps DEF LineInv, Quiet
<1>3. NotStarted'
  BY DEF SendChunk, Goto, Return, NotStarted
<1>4. CASE ~txOpen
  <2>1. Down' = Down /\ worker' = "idle" /\ closed'
    BY <1>1, <1>4 DEF SendChunk, Return, Down
  <2>2. ASSUME rxOpen', ~isEOF' PROVE InLine(Down', Wanted') /\ SenderInv'
    <3>1. InLine(Down, Wanted)
      BY <1>1, <2>2 DEF LineInv, Quiet
    <3> QED BY <1>1, <1>2, <1>4, <2>1, <3>1 DEF SenderInv
  <2> QED BY <1>2, <1>3, <2>2 DEF LineInv
<1>5. CASE txOpen
  <2> DEFINE m == [kind |-> "chunk", at |-> pos]
  <2>1. m \in Messages /\ wire \in Seq(Messages) /\ buffer \in Seq(Messages)
    BY MessagesNext DEF TypeInv, ChannelTypes, SendChunk
  <2>2. /\ Down \in Seq(Messages) /\ Down' = Append(Down, m)
        /\ worker' = "pressure" /\ closed' = closed /\ pos' = pos + 1 /\ ~closed
    BY <1>1, <1>5, <2>1, DownIs DEF SendChunk, Send, Goto, Down, EOFInv
  <2>3. ASSUME rxOpen', ~isEOF' PROVE InLine(Down', Wanted') /\ SenderInv'
    <3>1. InLine(Down, Wanted) /\ SenderInv /\ ~isEOF
      BY <1>1, <2>3 DEF LineInv, Quiet
    <3>2. InLine(Append(Down, m), Wanted)
      BY <1>1, <3>1, NextInLine DEF SendChunk
    <3>3. Down' # <<>> /\ Down'[Len(Down')] = m
      <4> HIDE DEF m
      <4> QED BY <2>1, <2>2, Ends
    <3> QED BY <1>2, <2>2, <3>2, <3>3 DEF SenderInv, After
  <2> QED BY <1>2, <1>3, <2>3 DEF LineInv
<1> QED BY <1>4, <1>5

LEMMA SendEOFLine ==
    ASSUME TypeInv, EOFInv, LineInv, SendEOF
    PROVE  LineInv'
<1>1. Quiet /\ UNCHANGED <<wire, rxOpen, txOpen, failed, pos>> /\ worker = "eof"
  BY DEF SendEOF, browserVars, queueVars, Quiet
<1>2. Wanted' = Wanted /\ (~error' => ArrivedInv')
  BY <1>1, QuietKeeps DEF LineInv, Quiet
<1>3. worker' = "idle" /\ closed'
  BY DEF SendEOF, Return
<1>4. ASSUME rxOpen', ~isEOF' PROVE InLine(Down', Wanted') /\ SenderInv'
  <2>1. InLine(Down, Wanted) /\ SenderInv /\ ~isEOF
    BY <1>1, <1>4 DEF LineInv, Quiet
  <2>2. CASE ~txOpen
    BY <1>1, <1>2, <1>3, <2>1, <2>2 DEF SendEOF, Down, SenderInv
  <2>3. CASE txOpen
    <3> DEFINE m == [kind |-> "EOF", at |-> pos]
    <3>1. m \in Messages /\ wire \in Seq(Messages) /\ buffer \in Seq(Messages)
      BY MessagesNext DEF TypeInv, ChannelTypes
    <3>2. Down \in Seq(Messages) /\ Down' = Append(Down, m)
      BY <1>1, <2>3, <3>1, DownIs DEF SendEOF, Send, Down
    <3>3. InLine(Append(Down, m), Wanted)
      BY <1>1, <2>1, NextInLine DEF SenderInv
    <3>4. EOFIn(Append(Down, m))
      BY <3>1, <3>2, AppendedMessage
    <3> QED BY <1>2, <1>3, <3>2, <3>3, <3>4 DEF SenderInv
  <2> QED BY <2>2, <2>3
<1> QED BY <1>2, <1>3, <1>4 DEF LineInv, NotStarted

\* The goroutine's place when the first message has left the line.
LEMMA SenderStays ==
    ASSUME SenderInv, Down \in Seq(Messages), Down # <<>>, Down[1].kind # "EOF",
           Down' = Tail(Down), Wanted' = After(Down[1]), UNCHANGED <<closed, txOpen, worker, pos>>
    PROVE  SenderInv'
<1>1. /\ \A i \in DOMAIN Down : i # 1 => i - 1 \in DOMAIN Down' /\ Down'[i - 1] = Down[i]
      /\ Down' = <<>> => Len(Down) = 1
      /\ Down' # <<>> => Down'[Len(Down')] = Down[Len(Down)]
  BY Ends
<1>2. EOFIn(Down) => EOFIn(Down')
  BY <1>1 DEF EOFIn
<1> QED BY <1>1, <1>2 DEF SenderInv

\* A message that arrives is the one the queue waits for.
LEMMA ReceiveLine ==
    ASSUME TypeInv, EOFInv, LineInv, Receive
    PROVE  LineInv'
<1>1. /\ wire # <<>> /\ wire' = Tail(wire) /\ rxOpen
      /\ UNCHANGED <<buffer, txOpen, rxOpen, closed, worker, pos, from, failed, written>>
  BY DEF Receive, senderVars
<1>2. /\ Down \in Seq(Messages) /\ Down # <<>> /\ Head(wire) = Down[1] /\ Down' = Tail(Down)
      /\ 1 \in DOMAIN Down /\ Down[1] \in Messages
  <2>1. wire \in Seq(Messages) /\ buffer \in Seq(Messages)
    BY DEF TypeInv, ChannelTypes
  <2>2. Down \in Seq(Messages) /\ Down # <<>> /\ Head(wire) = Down[1] /\ Down' = Tail(Down)
    <3>1. Down' = Tail(wire) \o buffer
      BY <1>1 DEF Down
    <3> QED BY <1>1, <2>1, <3>1, DownIs
  <2> QED BY <2>2
<1>3. ~error /\ ArrivedInv /\ NotStarted
  BY <1>1 DEF TypeInv, LineInv
<1>4. NotStarted'
  BY <1>1, <1>2, <1>3 DEF NotStarted, Fresh
<1>5. CASE Head(wire).kind = "META"
  <2>1. Quiet
    BY <1>1, <1>5 DEF Receive, queueVars, Quiet
  <2>2. Wanted' = Wanted /\ ArrivedInv'
    BY <1>3, <2>1, QuietKeeps
  <2>3. ASSUME ~isEOF' PROVE InLine(Down', Wanted') /\ SenderInv'
    <3>1. InLine(Down, Wanted) /\ SenderInv
      BY <1>1, <2>1, <2>3 DEF LineInv, Quiet
    <3>2. After(Down[1]) = Wanted
      BY <1>2, <1>5, <3>1 DEF InLine, After
    <3>3. InLine(Down', Wanted')
      BY <1>2, <1>5, <2>2, <3>1, <3>2, LineMoves
    <3> QED BY <1>1, <1>2, <1>5, <2>2, <3>1, <3>2, <3>3, SenderStays
  <2> QED BY <1>4, <2>2, <2>3 DEF LineInv
<1>6. CASE Head(wire).kind # "META"
  <2>1. ~isEOF
    BY <1>1, <1>6, ConsumedMessage DEF EOFInv, TypeInv, ChannelTypes
  <2>2. InLine(Down, Wanted) /\ SenderInv /\ Down[1].at = Wanted
    BY <1>1, <1>2, <2>1 DEF LineInv, InLine
  <2>3. CASE Head(wire).kind = "chunk"
    <3>1. EnqueueChunk(Wanted) /\ Wanted \in Units
      BY <1>2, <2>2, <2>3, MessageFields DEF Receive
    <3>2. ArrivedInv' /\ Wanted' = Wanted + 1
      BY <1>1, <1>3, <2>1, <3>1, ChunkArrives
    <3>3. After(Down[1]) = Wanted'
      BY <1>2, <2>2, <2>3, <3>2 DEF After
    <3>4. InLine(Down', Wanted') /\ SenderInv'
      BY <1>1, <1>2, <2>2, <2>3, <3>3, LineMoves, SenderStays
    <3> QED BY <1>4, <3>2, <3>4 DEF LineInv
  <2>4. CASE Head(wire).kind = "EOF"
    <3>1. EnqueueEOF
      BY <1>2, <2>4 DEF Receive
    <3>2. ArrivedInv' /\ isEOF'
      BY <1>1, <1>3, <3>1, EOFArrives DEF EnqueueEOF
    <3> QED BY <1>4, <3>2 DEF LineInv
  <2> QED BY <1>6, <2>3, <2>4 DEF Receive
<1> QED BY <1>5, <1>6

LEMMA WriteDoneLine ==
    ASSUME TypeInv, LineInv, WriteDone
    PROVE  LineInv'
<1>1. /\ UNCHANGED <<wire, buffer, rxOpen, txOpen, closed, worker, pos, from, failed, isEOF, error>>
      /\ inHand # None /\ ~error
  BY DEF WriteDone, senderVars, TypeInv, Counted
<1>2. ArrivedInv' /\ Wanted' = Wanted /\ Down' = Down
  BY <1>1, ChunkWritten DEF LineInv, Down
<1>3. Arrived # 0
  <2>1. Len(written) \in Nat /\ Len(queue) \in Nat /\ Held = 1
    BY <1>1 DEF TypeInv, QueueTypes, BrowserTypes, Held
  <2> QED BY <2>1 DEF Arrived
<1>4. NotStarted'
  BY <1>1, <1>3 DEF LineInv, NotStarted, Fresh
<1>5. ASSUME rxOpen', ~isEOF' PROVE InLine(Down', Wanted') /\ SenderInv'
  BY <1>1, <1>2, <1>5 DEF LineInv, SenderInv
<1> QED BY <1>2, <1>4, <1>5 DEF LineInv

\* Between the two ends a message only changes its place.
LEMMA TransmitLine ==
    ASSUME TypeInv, LineInv, Transmit
    PROVE  LineInv'
<1>1. /\ Quiet /\ UNCHANGED <<rxOpen, txOpen, closed, worker, pos, failed>> /\ buffer # <<>>
      /\ wire' = (IF rxOpen THEN Append(wire, Head(buffer)) ELSE wire) /\ buffer' = Tail(buffer)
  BY DEF Transmit, senderVars, browserVars, queueVars, Quiet
<1>2. Wanted' = Wanted /\ (~error' => ArrivedInv')
  BY <1>1, QuietKeeps DEF LineInv, Quiet
<1>3. Down # <<>> /\ (rxOpen => Down' = Down)
  <2>1. wire \in Seq(Messages) /\ buffer \in Seq(Messages)
    BY DEF TypeInv, ChannelTypes
  <2>2. Down # <<>>
    BY <1>1, <2>1 DEF Down
  <2>3. ASSUME rxOpen PROVE Down' = Down
    <3>1. Down' = Append(wire, Head(buffer)) \o Tail(buffer)
      BY <1>1, <2>3 DEF Down
    <3> QED BY <1>1, <2>1, <3>1, DownIs
  <2> QED BY <2>2, <2>3
<1>4. NotStarted'
  BY <1>1, <1>3 DEF LineInv, NotStarted, Fresh, Quiet
<1>5. ASSUME rxOpen', ~isEOF' PROVE InLine(Down', Wanted') /\ SenderInv'
  <2>1. InLine(Down, Wanted) /\ SenderInv /\ Down' = Down
    BY <1>1, <1>3, <1>5 DEF LineInv, Quiet
  <2> QED BY <1>1, <1>2, <2>1 DEF SenderInv
<1> QED BY <1>2, <1>4, <1>5 DEF LineInv

\* The other steps leave the line alone or take the browser's end of it away.
LEMMA OtherLine ==
    ASSUME TypeInv, LineInv,
           \/ \E offset \in 0..Size : Ask(offset)
           \/ WriteFails \/ Save \/ TxCloses \/ RxCloses \/ UNCHANGED vars
    PROVE  LineInv'
<1>1. /\ UNCHANGED <<written, queue, isEOF, from, buffer, closed, worker, pos, failed>>
      /\ (rxOpen' = FALSE /\ wire' = <<>>) \/ UNCHANGED <<rxOpen, wire>>
      /\ txOpen' => txOpen
      /\ UNCHANGED <<inHand, error>> \/ (error' /\ inHand # None)
  <2>1. CASE WriteFails
    BY <2>1 DEF WriteFails, senderVars
  <2>2. CASE TxCloses \/ UNCHANGED vars
    BY <2>2 DEF TxCloses, vars, channelVars, senderVars, browserVars, queueVars
  <2>3. CASE \E offset \in 0..Size : Ask(offset)
    BY <2>3 DEF Ask, senderVars, queueVars
  <2>4. CASE Save
    BY <2>4, Zenon DEF Save, senderVars, queueVars
  <2>5. CASE RxCloses
    BY <2>5, Zenon DEF RxCloses, senderVars, queueVars
  <2> QED BY <2>1, <2>2, <2>3, <2>4, <2>5
<1>2. Len(written) \in Nat /\ Len(queue) \in Nat /\ buffer \in Seq(Messages) /\ wire \in Seq(Messages)
  BY DEF TypeInv, QueueTypes, BrowserTypes, ChannelTypes
<1>3. Fresh => Fresh'
  <2> SUFFICES ASSUME Fresh PROVE Fresh'
    OBVIOUS
  <2>1. UNCHANGED <<inHand, error>>
    <3>1. ASSUME inHand # None PROVE Arrived # 0
      BY <1>2, <3>1 DEF Arrived, Held
    <3> QED BY <1>1, <3>1 DEF Fresh
  <2>2. wire = <<>> /\ buffer = <<>>
    BY <1>2 DEF Fresh, Down
  <2>3. wire' = <<>> /\ buffer' = <<>>
    BY <1>1, <2>2
  <2>4. Down' = Down
    BY <2>2, <2>3 DEF Down
  <2> QED BY <1>1, <2>1, <2>4 DEF Fresh, Arrived, Held
<1>4. NotStarted'
  BY <1>1, <1>3 DEF LineInv, NotStarted
<1>5. ASSUME ~error' PROVE Quiet /\ ArrivedInv' /\ Wanted' = Wanted
  <2>1. Quiet /\ ~error
    BY <1>1, <1>5 DEF Quiet
  <2> QED BY <2>1, QuietKeeps DEF LineInv
<1>6. ASSUME rxOpen', ~isEOF' PROVE InLine(Down', Wanted') /\ SenderInv'
  <2>1. UNCHANGED <<rxOpen, wire>> /\ rxOpen
    BY <1>1, <1>6
  <2>2. ~error'
    <3>1. CASE WriteFails BY <1>6, <3>1 DEF WriteFails
    <3>2. CASE ~WriteFails
      <4>1. error' = error
        BY <3>2 DEF Ask, Save, TxCloses, RxCloses, vars, browserVars, queueVars
      <4> QED BY <2>1, <4>1 DEF TypeInv
    <3> QED BY <3>1, <3>2
  <2>3. Down' = Down /\ Wanted' = Wanted /\ InLine(Down, Wanted) /\ SenderInv
    BY <1>1, <1>5, <1>6, <2>1, <2>2 DEF Down, LineInv
  <2> QED BY <1>1, <2>3 DEF SenderInv
<1> QED BY <1>4, <1>5, <1>6 DEF LineInv

LEMMA LineStep == TypeInv /\ StreamInv /\ EOFInv /\ LineInv /\ [Next]_vars => LineInv'
BY OnMessageLine, OpenFileLine, SilentLine, SendMetaLine, SendChunkLine, SendEOFLine,
   ReceiveLine, WriteDoneLine, TransmitLine, OtherLine DEF Next, WorkerStep

\* The loop of the queue settles the drain promise only when nothing is left to write.
LEMMA DrainedStep == TypeInv /\ DrainedInv /\ [Next]_vars => DrainedInv'
<1> SUFFICES ASSUME TypeInv, DrainedInv, [Next]_vars
             PROVE  DrainedInv'
  OBVIOUS
<1>0. queue \in Seq(Units) /\ isEOF \in BOOLEAN /\ isDrained \in BOOLEAN
      /\ saved \in BOOLEAN /\ error \in BOOLEAN
  BY DEF TypeInv, QueueTypes, BrowserTypes
<1>1. CASE Receive
  <2>1. saved' = saved
    BY <1>1 DEF Receive
  <2>2. CASE UNCHANGED queueVars
    BY <2>1, <2>2 DEF DrainedInv, queueVars
  <2>3. CASE EnqueueChunk(Head(wire).at) /\ ~(UNCHANGED queueVars)
    <3>1. ~error /\ ~isEOF /\ ~isDrained
      BY <2>3 DEF EnqueueChunk, DrainedInv
    <3>2. Append(queue, Head(wire).at) # <<>>
      BY <1>0
    <3>3. isDrained' = isDrained
      BY <2>3, <3>1, <3>2 DEF EnqueueChunk, ProcessLoop
    <3> QED BY <2>1, <3>1, <3>3 DEF DrainedInv
  <2>4. CASE EnqueueEOF /\ ~error
    <3>1. isEOF' = TRUE /\ error' = error
      BY <2>4 DEF EnqueueEOF
    <3>2. CASE inHand = None /\ queue = <<>>
      BY <2>1, <2>4, <3>1, <3>2 DEF EnqueueEOF, ProcessLoop, DrainedInv
    <3>3. CASE ~(inHand = None /\ queue = <<>>)
      <4>1. isDrained' = isDrained /\ ~isDrained
        BY <2>4, <3>3 DEF EnqueueEOF, ProcessLoop, DrainedInv
      <4> QED BY <2>1, <4>1 DEF DrainedInv
    <3> QED BY <3>2, <3>3
  <2>5. EnqueueEOF /\ error => UNCHANGED queueVars
    BY DEF EnqueueEOF
  <2> QED BY <1>1, <2>2, <2>3, <2>4, <2>5 DEF Receive
<1>2. CASE WriteDone
  <2>1. saved' = saved /\ ~isDrained /\ ~error' /\ ProcessLoop(queue) /\ isEOF' = isEOF
    BY <1>2 DEF WriteDone, DrainedInv, TypeInv, Counted
  <2>2. CASE queue = <<>>
    BY <2>1, <2>2 DEF ProcessLoop, DrainedInv
  <2>3. CASE queue # <<>>
    BY <2>1, <2>3 DEF ProcessLoop, DrainedInv
  <2> QED BY <2>2, <2>3
<1>3. CASE WriteFails
  BY <1>3 DEF WriteFails, DrainedInv
<1>4. CASE Save
  BY <1>4 DEF Save, DrainedInv, queueVars
<1>5. CASE \/ OnMessage \/ WorkerStep \/ \E offset \in 0..Size : Ask(offset)
           \/ Transmit \/ TxCloses \/ RxCloses \/ UNCHANGED vars
  <2>1. UNCHANGED <<queueVars, saved>>
    BY <1>5 DEF OnMessage, WorkerStep, OpenFile, SendMeta, Backpressure, WaitLow, WaitIfPaused,
                SendChunk, ReadEnds, Flush, SendEOF, Ask, Transmit, TxCloses, RxCloses, vars,
                browserVars
  <2> QED BY <2>1 DEF DrainedInv, queueVars
<1> QED BY <1>1, <1>2, <1>3, <1>4, <1>5 DEF Next

\* An EOF keeps its place on its way.
LEMMA EndsMove ==
    ASSUME NEW seq \in Seq(Messages), EOFsAtEnd(seq)
    PROVE  /\ \A m \in Messages : (m.kind = "EOF" => m.at = Size) => EOFsAtEnd(Append(seq, m))
           /\ seq # <<>> => /\ EOFsAtEnd(Tail(seq))
                            /\ Head(seq) \in Messages
                            /\ Head(seq).kind = "EOF" => Head(seq).at = Size
<1>1. ASSUME NEW m \in Messages, m.kind = "EOF" => m.at = Size
      PROVE  EOFsAtEnd(Append(seq, m))
  BY <1>1, AtTheEnd DEF EOFsAtEnd
<1>2. ASSUME seq # <<>>
      PROVE  /\ EOFsAtEnd(Tail(seq)) /\ Head(seq) \in Messages
             /\ Head(seq).kind = "EOF" => Head(seq).at = Size
  BY <1>2, HeadAndTail DEF EOFsAtEnd
<1> QED
  BY <1>1, <1>2

\* The goroutine of a file that can be read sends its EOF from the end of the file.
LEMMA EndStep == TypeInv /\ StreamInv /\ EOFInv /\ LineInv /\ EndInv /\ [Next]_vars => EndInv'
<1> SUFFICES ASSUME TypeInv, StreamInv, EOFInv, LineInv, EndInv, [Next]_vars
             PROVE  EndInv'
  OBVIOUS
<1>0. failed => failed'
  BY DEF Next, OnMessage, Pause, Resume, StartStream, WorkerStep, OpenFile, SendMeta, Backpressure,
         WaitLow, WaitIfPaused, SendChunk, ReadEnds, Flush, SendEOF, Ask, Receive, WriteDone,
         WriteFails, Save, Transmit, TxCloses, RxCloses, vars, senderVars
<1> SUFFICES ASSUME ~failed, ~failed'
             PROVE  EndInv'
  BY <1>0 DEF EndInv
<1> DEFINE AtEnd == worker \in {"flush", "eof"} => pos = Size
<1>t. /\ wire \in Seq(Messages) /\ buffer \in Seq(Messages)
      /\ pos \in 0..Size /\ Size \in Nat
      /\ AtEnd /\ EOFsAtEnd(wire) /\ EOFsAtEnd(buffer)
      /\ isEOF /\ ~error => Wanted = Size
      /\ ~error => ArrivedInv
  BY SizesAssumption DEF TypeInv, ChannelTypes, SenderTypes, EndInv, LineInv
<1>e. EOFsAtEnd(<<>>)
  BY DEF EOFsAtEnd
<1>1. CASE OnMessage
  <2>1. Quiet /\ UNCHANGED <<wire, buffer>>
    BY <1>1 DEF OnMessage, Pause, Resume, StartStream, browserVars, queueVars, Quiet
  <2>2. AtEnd'
    BY <1>1, <1>t DEF OnMessage, Pause, Resume, StartStream
  <2> QED
    BY <1>t, <2>1, <2>2, QuietKeeps DEF EndInv, Quiet
<1>2. CASE OpenFile
  <2>1. UNCHANGED <<wire, buffer, isEOF, error, written, inHand, queue>> /\ AtEnd'
    BY <1>2, <1>t DEF OpenFile, Goto, channelVars, browserVars, queueVars
  <2>2. from' = from \/ ~isEOF
    BY <1>2 DEF OpenFile, LineInv, NotStarted, Fresh
  <2> QED
    BY <1>t, <2>1, <2>2 DEF EndInv, Wanted, Arrived, Held
<1>3. CASE Backpressure \/ WaitLow \/ WaitIfPaused \/ ReadEnds \/ Flush
  <2>1. Quiet /\ UNCHANGED <<wire, buffer, pos>>
    BY <1>3 DEF Backpressure, WaitLow, WaitIfPaused, ReadEnds, Flush, channelVars, browserVars,
                queueVars, Quiet
  <2>2. AtEnd'
    <3>1. CASE ReadEnds
      <4>1. ~(pos < Size)
        BY <3>1, Zenon DEF ReadEnds
      <4> QED
        BY <1>t, <2>1, <4>1
    <3>2. CASE Backpressure \/ WaitLow \/ WaitIfPaused \/ Flush
      BY <1>t, <2>1, <3>2 DEF Backpressure, WaitLow, WaitIfPaused, Flush, Goto, Return
    <3> QED
      BY <1>3, <3>1, <3>2
  <2> QED
    BY <1>t, <2>1, <2>2, QuietKeeps DEF EndInv, Quiet
<1>4. CASE SendMeta \/ SendChunk \/ SendEOF
  <2>1. Quiet /\ UNCHANGED wire /\ worker' \in {"pressure", "idle"}
    BY <1>4 DEF SendMeta, SendChunk, SendEOF, Goto, Return, browserVars, queueVars, Quiet
  <2>2. EOFsAtEnd(buffer')
    <3>1. \/ buffer' = buffer
          \/ \E m \in Messages : buffer' = Append(buffer, m) /\ (m.kind = "EOF" => m.at = Size)
      <4>1. CASE SendMeta
        BY <4>1, MessagesNext DEF SendMeta, Send, TypeInv
      <4>2. CASE SendChunk
        BY <4>2, MessagesNext DEF SendChunk, Send, TypeInv
      <4>3. CASE SendEOF
        BY <1>t, <4>3, MessagesNext DEF SendEOF, Send, TypeInv
      <4> QED
        BY <1>4, <4>1, <4>2, <4>3
    <3> QED
      BY <1>t, <3>1, EndsMove
  <2> QED
    BY <1>t, <2>1, <2>2, QuietKeeps DEF EndInv, Quiet
<1>5. CASE Receive
  <2>1. /\ wire # <<>> /\ wire' = Tail(wire) /\ rxOpen /\ ~error
        /\ UNCHANGED <<buffer, worker, pos, from, written>>
    BY <1>5 DEF Receive, senderVars, TypeInv
  <2>2. EOFsAtEnd(wire') /\ Head(wire) \in Messages /\ (Head(wire).kind = "EOF" => Head(wire).at = Size)
    BY <1>t, <2>1, EndsMove
  <2>3. isEOF' => Wanted' = Wanted /\ (isEOF \/ Head(wire).kind = "EOF")
    <3>1. CASE UNCHANGED queueVars
      BY <2>1, <3>1 DEF queueVars, Wanted, Arrived, Held
    <3>2. CASE Head(wire).kind = "chunk" /\ EnqueueChunk(Head(wire).at)
      <4>1. isEOF' = isEOF /\ (isEOF => UNCHANGED queueVars)
        BY <3>2 DEF EnqueueChunk, queueVars
      <4> QED
        BY <2>1, <4>1 DEF queueVars, Wanted, Arrived, Held
    <3>3. CASE Head(wire).kind = "EOF" /\ EnqueueEOF
      BY <1>t, <2>1, <3>3, EOFArrives
    <3> QED
      BY <1>5, <3>1, <3>2, <3>3 DEF Receive
  <2>4. Head(wire).kind = "EOF" /\ ~isEOF => Wanted = Size
    <3> SUFFICES ASSUME Head(wire).kind = "EOF", ~isEOF
                 PROVE  Wanted = Size
      OBVIOUS
    <3>1. InLine(Down, Wanted) /\ Down # <<>> /\ Head(wire) = Down[1]
      BY <1>t, <2>1, DownIs DEF LineInv
    <3> QED
      BY <2>2, <3>1 DEF InLine
  <2> QED
    BY <1>t, <2>1, <2>2, <2>3, <2>4 DEF EndInv
<1>6. CASE WriteDone
  <2>1. UNCHANGED <<wire, buffer, worker, pos, isEOF, error>> /\ ~error
    BY <1>6 DEF WriteDone, senderVars, TypeInv, Counted
  <2>2. Wanted' = Wanted
    BY <1>6, <1>t, <2>1, ChunkWritten
  <2> QED
    BY <1>t, <2>1, <2>2 DEF EndInv
<1>7. CASE Transmit
  <2>1. Quiet /\ UNCHANGED <<worker, pos>> /\ buffer # <<>> /\ buffer' = Tail(buffer)
        /\ wire' \in {wire, Append(wire, Head(buffer))}
    BY <1>7 DEF Transmit, senderVars, browserVars, queueVars, Quiet
  <2>2. EOFsAtEnd(buffer') /\ EOFsAtEnd(wire')
    BY <1>t, <2>1, EndsMove
  <2> QED
    BY <1>t, <2>1, <2>2, QuietKeeps DEF EndInv, Quiet
<1>8. CASE WriteFails
  BY <1>8, <1>t, <1>e DEF WriteFails, senderVars, EndInv
<1>9. CASE \/ \E offset \in 0..Size : Ask(offset)
           \/ Save \/ TxCloses \/ RxCloses \/ UNCHANGED vars
  <2>1. Quiet /\ UNCHANGED <<buffer, worker, pos>> /\ wire' \in {wire, <<>>}
    <3>1. CASE \E offset \in 0..Size : Ask(offset)
      BY <3>1 DEF Ask, senderVars, queueVars, Quiet
    <3>2. CASE Save
      BY <3>2, Zenon DEF Save, senderVars, queueVars, Quiet
    <3>3. CASE TxCloses \/ UNCHANGED vars
      BY <3>3 DEF TxCloses, vars, channelVars, senderVars, browserVars, queueVars, Quiet
    <3>4. CASE RxCloses
      BY <3>4, Zenon DEF RxCloses, senderVars, queueVars, Quiet
    <3> QED
      BY <1>9, <3>1, <3>2, <3>3, <3>4
  <2>2. EOFsAtEnd(wire')
    BY <1>t, <1>e, <2>1
  <2> QED
    BY <1>t, <2>1, <2>2, QuietKeeps DEF EndInv, Quiet
<1> QED
  BY <1>1, <1>2, <1>3, <1>4, <1>5, <1>6, <1>7, <1>8, <1>9 DEF Next, WorkerStep

LEMMA LineInitially == Init => LineInv /\ EndInv /\ DrainedInv
<1> SUFFICES ASSUME Init PROVE LineInv /\ EndInv /\ DrainedInv
  OBVIOUS
<1>1. Down = <<>> /\ Arrived = 0 /\ Wanted = 0
  BY DEF Init, Down, Arrived, Held, Wanted
<1>2. ArrivedInv /\ InLine(Down, Wanted)
  BY <1>1 DEF Init, ArrivedInv, InLine
<1>3. NotStarted /\ SenderInv
  BY <1>1 DEF Init, NotStarted, Fresh, SenderInv
<1> QED BY <1>2, <1>3 DEF Init, LineInv, EndInv, EOFsAtEnd, DrainedInv

\* Everything known of a session: what every theorem below is drawn from.
SessionInv == TypeInv /\ StreamInv /\ EOFInv /\ LineInv /\ EndInv /\ DrainedInv

LEMMA SessionInvariant == Spec => []SessionInv
<1>1. Init => SessionInv
  BY TypeInitially, LineInitially, NoMessages DEF Init, SessionInv, StreamInv, EOFInv
<1>2. SessionInv /\ [Next]_vars => SessionInv'
  BY TypeStep, StreamStep, EOFStep, LineStep, EndStep, DrainedStep DEF SessionInv
<1> QED
  BY <1>1, <1>2, PTL DEF Spec

\* The file a user is handed is the whole rest of the file behind the offset asked for, in
\* order, whatever else the peer asks, unless the sender could not read it (SavedIsWhole:
\* SequentialChunkQueue of app.js behind the stream of main.go).
THEOREM SavedWhole == Spec => []SavedIsWhole
<1>1. SessionInv => SavedIsWhole
  <2> SUFFICES ASSUME SessionInv, saved, ~failed
               PROVE  written = [i \in 1..(Size - from) |-> from + i - 1]
    BY DEF SavedIsWhole
  <2>1. isEOF /\ ~error /\ inHand = None /\ queue = <<>>
    BY DEF SessionInv, DrainedInv
  <2>2. ArrivedInv
    BY <2>1 DEF SessionInv, LineInv
  <2>3. written \in Seq(Units) /\ from \in 0..Size /\ Len(written) \in Nat /\ Size \in Nat
    BY SizesAssumption DEF SessionInv, TypeInv, BrowserTypes, SenderTypes
  <2>4. from + Len(written) = Size
    <3>1. Wanted = Size
      BY <2>1 DEF SessionInv, EndInv
    <3> QED
      BY <2>1, <2>3, <3>1 DEF Wanted, Arrived, Held
  <2>5. DOMAIN written = 1..(Size - from)
    BY <2>3, <2>4
  <2>6. \A i \in DOMAIN written : written[i] = from + i - 1
    BY <2>2 DEF ArrivedInv
  <2>7. written = [i \in DOMAIN written |-> written[i]]
    BY <2>3
  <2> QED BY <2>5, <2>6, <2>7
<1> QED
  BY <1>1, SessionInvariant, PTL

(***************************************************************************)
(* Refinement.  A write of the browser is a step of the abstract delivery, *)
(* so are the start of a stream that nothing precedes, a source that fails *)
(* and the hand-over; all else changes nothing a user could see.           *)
(***************************************************************************)

\* What the browser writes is the next unit of the file.
LEMMA WriteDelivers ==
    ASSUME SessionInv, WriteDone
    PROVE  Delivery!Write
<1>1. inHand # None /\ written' = Append(written, inHand) /\ UNCHANGED <<from, saved, failed>>
  BY DEF WriteDone, senderVars
<1>2. ~error /\ ~saved
  BY <1>1 DEF SessionInv, TypeInv, Counted, DrainedInv
<1>3. inHand = from + Len(written)
  BY <1>1, <1>2 DEF SessionInv, LineInv, ArrivedInv
<1>4. inHand < Size
  BY <1>1, SizesAssumption DEF SessionInv, TypeInv, QueueTypes, Units
<1> QED
  BY <1>1, <1>2, <1>3, <1>4 DEF Delivery!Write

\* A stream changes the offset only before anything has arrived.
LEMMA OpenFileDelivers ==
    ASSUME SessionInv, OpenFile
    PROVE  Delivery!Begin \/ Delivery!SourceFails \/ UNCHANGED Delivery!vars
<1>1. UNCHANGED <<written, saved>>
  BY DEF OpenFile, browserVars
<1>2. CASE failed' = TRUE /\ from' = from
  BY <1>1, <1>2 DEF Delivery!SourceFails
<1>3. CASE from' = (IF closed THEN from ELSE pos) /\ UNCHANGED failed
  <2>1. CASE closed
    BY <1>1, <1>3, <2>1 DEF Delivery!vars
  <2>2. CASE ~closed
    <3>1. Fresh
      BY <2>2 DEF SessionInv, LineInv, NotStarted, OpenFile
    <3>2. written \in Seq(Units) /\ Len(queue) \in Nat /\ Held \in {0, 1}
      BY DEF SessionInv, TypeInv, QueueTypes, BrowserTypes, Held
    <3>3. Len(written) = 0
      BY <3>1, <3>2 DEF Fresh, Arrived
    <3>4. written = <<>>
      BY <3>2, <3>3
    <3>5. ~saved
      BY <3>1 DEF SessionInv, DrainedInv, Fresh
    <3>6. from' \in 0..Size
      BY <1>3, <2>2 DEF SessionInv, TypeInv, SenderTypes
    <3> QED
      BY <1>1, <1>3, <3>4, <3>5, <3>6 DEF Delivery!Begin
  <2> QED
    BY <2>1, <2>2
<1> QED
  BY <1>2, <1>3 DEF OpenFile

\* A file is handed over behind its last unit, or behind the last one that could be read.
LEMMA SaveDelivers ==
    ASSUME SessionInv, Save
    PROVE  Delivery!Save
<1>1. saved' = TRUE /\ UNCHANGED <<from, written, failed>>
  BY DEF Save, senderVars
<1>2. ASSUME ~failed
      PROVE  from + Len(written) = Size
  <2>1. isEOF /\ ~error /\ inHand = None /\ queue = <<>>
    BY DEF Save, SessionInv, DrainedInv
  <2>2. Wanted = Size
    BY <1>2, <2>1 DEF SessionInv, EndInv
  <2>3. written \in Seq(Units) /\ from \in 0..Size /\ Len(written) \in Nat /\ Size \in Nat
    BY SizesAssumption DEF SessionInv, TypeInv, BrowserTypes, SenderTypes
  <2> QED
    BY <2>1, <2>2, <2>3 DEF Wanted, Arrived, Held
<1> QED
  BY <1>1, <1>2 DEF Delivery!Save

\* The two ends of a data channel, with pauses, repeated requests, failing reads and writes
\* and a channel that may close at any time, deliver the file: FileDelivery is implemented
\* (main.go's OnOpen handler, SequentialChunkQueue and startWebRTC of app.js).
THEOREM ImplementsFileDelivery == Spec => DeliversFile
<1>1. Init => Delivery!Init
  BY SizesAssumption DEF Init, Delivery!Init
<1>2. SessionInv /\ [Next]_vars => [Delivery!Next]_Delivery!vars
  <2> SUFFICES ASSUME SessionInv, [Next]_vars
               PROVE  Delivery!Next \/ UNCHANGED Delivery!vars
    BY DEF Delivery!Next
  <2>1. CASE WriteDone
    BY <2>1, WriteDelivers DEF Delivery!Next
  <2>2. CASE OpenFile
    BY <2>2, OpenFileDelivers DEF Delivery!Next
  <2>3. CASE Save
    BY <2>3, SaveDelivers DEF Delivery!Next
  <2>4. CASE ReadEnds
    <3>1. UNCHANGED <<from, written, saved>>
      BY <2>4 DEF ReadEnds, browserVars
    <3>2. failed' = TRUE \/ failed' = failed
      BY <2>4, Zenon DEF ReadEnds, SessionInv, TypeInv, SenderTypes
    <3> QED
      BY <3>1, <3>2 DEF Delivery!Next, Delivery!SourceFails, Delivery!vars
  <2>5. CASE \/ OnMessage \/ SendMeta \/ Backpressure \/ WaitLow \/ WaitIfPaused
             \/ SendChunk \/ Flush \/ SendEOF \/ \E offset \in 0..Size : Ask(offset)
             \/ Receive \/ WriteFails \/ Transmit \/ TxCloses \/ RxCloses \/ UNCHANGED vars
    BY <2>5, Zenon
       DEF OnMessage, Pause, Resume, StartStream, SendMeta, Backpressure, WaitLow, WaitIfPaused,
           SendChunk, Flush, SendEOF, Ask, Receive, WriteFails, Transmit, TxCloses, RxCloses,
           vars, senderVars, browserVars, queueVars, Delivery!vars
  <2> QED
    BY <2>1, <2>2, <2>3, <2>4, <2>5 DEF Next, WorkerStep
<1> QED
  BY <1>1, <1>2, SessionInvariant, PTL DEF Spec, DeliversFile, Delivery!Spec
=============================================================================
