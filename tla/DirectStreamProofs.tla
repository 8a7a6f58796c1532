------------------------- MODULE DirectStreamProofs --------------------------
(***************************************************************************)
(* What holds of the direct streaming workers for every number of restarts, *)
(* every file and every pair of water marks, with either implementation.   *)
(***************************************************************************)
EXTENDS DirectStream, FiniteSetTheorems, TLAPS

(***************************************************************************)
(* Type correctness needs to know that a worker which has read something   *)
(* to send has not reached the end of the file.  A worker not yet started  *)
(* is idle.                                                                *)
(***************************************************************************)
TypeInv ==
    /\ TypeOK
    /\ \A w \in Workers : pc[w] = "send" => pos[w] < Size
    /\ \A w \in Workers : w > current => pc[w] = "idle"

\* What a Send leaves behind, for any message and whatever comes next.
LEMMA SendTypes ==
    ASSUME TypeOK, NEW w \in Workers, NEW kind \in {"META", "chunk", "EOF"},
           NEW next \in Labels, Send(w, kind, next)
    PROVE  /\ wire' \in Seq(Messages)
           /\ buffered' \in Nat
           /\ stale' \in [Workers -> Nat]
           /\ pc' \in [Workers -> Labels]
           /\ pc'[w] \in {next, "ended"}
           /\ \A v \in Workers : v # w => pc'[v] = pc[v]
<1>1. [kind |-> kind, from |-> w, at |-> pos[w]] \in Messages
  BY DEF TypeOK, Messages
<1>2. wire' \in Seq(Messages)
  <2>1. wire \in Seq(Messages)
    BY DEF TypeOK
  <2>2. \/ wire' = wire
        \/ wire' = Append(wire, [kind |-> kind, from |-> w, at |-> pos[w]])
    BY DEF Send
  <2> QED
    BY <1>1, <2>1, <2>2
<1>3. buffered' \in Nat /\ stale' \in [Workers -> Nat]
  BY DEF Send, TypeOK
<1>4. \/ pc' = [pc EXCEPT ![w] = next]
      \/ pc' = [pc EXCEPT ![w] = "ended"]
  BY DEF Send, Goto
<1>5. pc \in [Workers -> Labels] /\ "ended" \in Labels
  BY DEF TypeOK, Labels
<1> QED
  BY <1>2, <1>3, <1>4, <1>5

\* Every step of the owner, the workers and the channel keeps the types.
LEMMA TypeStep == TypeInv /\ [Next]_vars => TypeInv'
<1> SUFFICES ASSUME TypeInv, [Next]_vars
             PROVE  TypeInv'
  OBVIOUS
<1>t. TypeOK
  BY DEF TypeInv
<1>1. CASE StartStream
  <2>1. current + 1 \in Workers /\ current' \in 0..NWorkers
    BY <1>1, <1>t, SizesAssumption DEF StartStream, TypeOK, Workers
  <2> QED
    BY <1>1, <2>1 DEF StartStream, TypeInv, TypeOK, Labels, setup, channelVars, Workers
<1>2. CASE Stop
  BY <1>2 DEF Stop, TypeInv, TypeOK, setup, channelVars
<1>6. CASE Drain \/ CloseChannel \/ UNCHANGED vars
  <2>1. buffered' \in Nat
    <3>1. buffered \in Nat
      BY <1>t DEF TypeOK
    <3> QED
      BY <1>6, <3>1 DEF Drain, CloseChannel, vars
  <2>3. dcOpen' \in BOOLEAN
    BY <1>6, <1>t DEF Drain, CloseChannel, vars, TypeOK
  <2>2. UNCHANGED <<setup, current, offset, pc, cancelled, pos, wire, stale>>
    BY <1>6 DEF Drain, CloseChannel, vars
  <2> QED
    BY <2>1, <2>2, <2>3 DEF TypeInv, TypeOK, setup
<1>3. ASSUME NEW w \in Workers,
             SendMeta(w) \/ SendEOF(w)
      PROVE  TypeInv'
  <2>1. PICK kind \in {"META", "EOF"}, next \in {"check", "complete"} :
           Send(w, kind, next) /\ pos' = pos /\ pc[w] # "idle"
    BY <1>3 DEF SendMeta, SendEOF
  <2>2. next \in Labels
    BY DEF Labels
  <2>3. UNCHANGED <<setup, current, offset, cancelled, dcOpen, pos>>
    BY <2>1 DEF Send
  <2> QED
    BY <1>t, <2>1, <2>2, <2>3, SendTypes DEF TypeInv, TypeOK, setup
<1>4. ASSUME NEW w \in Workers, SendChunk(w)
      PROVE  TypeInv'
  <2>1. Send(w, "chunk", "check") /\ "check" \in Labels /\ pc[w] = "send"
    BY <1>4 DEF SendChunk, Labels
  <2>2. pos[w] + 1 \in 0..Size
    BY <2>1, <1>t, SizesAssumption DEF TypeInv, TypeOK
  <2>3. pos' = [pos EXCEPT ![w] = pos[w] + 1]
    BY <1>4 DEF SendChunk
  <2>4. UNCHANGED <<setup, current, offset, cancelled, dcOpen>>
    BY <2>1 DEF Send
  <2> QED
    BY <1>t, <2>1, <2>2, <2>3, <2>4, SendTypes DEF TypeInv, TypeOK, setup
<1>5. ASSUME NEW w \in Workers,
             \/ OpenFile(w) \/ CheckContext(w) \/ Backpressure(w) \/ WaitLow(w)
             \/ CheckAgain(w) \/ ReadFile(w) \/ Flush(w)
      PROVE  TypeInv'
  <2>1. PICK label \in Labels :
           /\ Goto(w, label)
           /\ label = "send" => pos[w] < Size
    BY <1>5 DEF OpenFile, CheckContext, Backpressure, WaitLow, CheckAgain, ReadFile, Flush,
                Unpressed, Labels
  <2>2. UNCHANGED <<setup, current, offset, cancelled, pos, channelVars>> /\ pc[w] # "idle"
    BY <1>5 DEF OpenFile, CheckContext, Backpressure, WaitLow, CheckAgain, ReadFile, Flush
  <2>3. /\ pc' \in [Workers -> Labels]
        /\ pc'[w] = label
        /\ \A v \in Workers : v # w => pc'[v] = pc[v]
    BY <1>t, <2>1 DEF Goto, TypeOK
  <2>4. w <= current
    BY <1>t, <2>2 DEF TypeInv, TypeOK, Workers
  <2>5. TypeOK'
    BY <1>t, <2>2, <2>3 DEF TypeOK, setup, channelVars
  <2>6. (\A v \in Workers : pc[v] = "send" => pos[v] < Size)'
    BY <2>1, <2>2, <2>3 DEF TypeInv
  <2>7. (\A v \in Workers : v > current => pc[v] = "idle")'
    BY <1>t, <2>2, <2>3, <2>4 DEF TypeInv, TypeOK, Workers
  <2> QED
    BY <2>5, <2>6, <2>7 DEF TypeInv
<1> QED
  BY <1>1, <1>2, <1>3, <1>4, <1>5, <1>6 DEF Next, WorkerStep

\* Before the first StartStream nothing has happened.
LEMMA TypeInitially == Init => TypeInv
BY SizesAssumption DEF Init, TypeInv, TypeOK, Labels, Workers

(***************************************************************************)
(* Type correctness of StreamSender and Manager: positions stay within the *)
(* file and messages on the channel are well formed.                       *)
(***************************************************************************)
THEOREM TypeCorrect == Spec => []TypeOK
<1>1. TypeInv => TypeOK
  BY DEF TypeInv
<1> QED
  BY <1>1, TypeInitially, TypeStep, PTL DEF Spec

-----------------------------------------------------------------------------
(* A cancelled worker.                                                     *)

\* Only a cancelled worker has sent a stale message, and after it there is
\* nothing left to do but look at the context or be done.
StaleInv ==
    \A w \in Workers :
        /\ stale[w] \in {0, 1}
        /\ stale[w] = 1 => cancelled[w] /\ pc[w] \in {"check", "complete", "ended"}

\* The worker that sends had sent nothing stale, and is at a check afterwards.
LEMMA StaleStep == TypeInv /\ StaleInv /\ [Next]_vars => StaleInv'
<1> SUFFICES ASSUME TypeInv, StaleInv, [Next]_vars
             PROVE  StaleInv'
  OBVIOUS
<1>t. /\ pc \in [Workers -> Labels] /\ cancelled \in [Workers -> BOOLEAN]
      /\ stale \in [Workers -> Nat] /\ current \in 0..NWorkers
  BY DEF TypeInv, TypeOK
<1>1. CASE StartStream
  <2>1. /\ \A v \in Workers : cancelled[v] => cancelled'[v]
        /\ stale' = stale
        /\ \A v \in Workers : v # current + 1 => pc'[v] = pc[v]
    BY <1>1, <1>t DEF StartStream, channelVars
  <2>2. \A v \in Workers : v = current + 1 => pc[v] = "idle"
    BY <1>t DEF TypeInv
  <2> QED
    BY <2>1, <2>2 DEF StaleInv
<1>2. CASE Stop \/ Drain \/ CloseChannel \/ UNCHANGED vars
  <2>1. pc' = pc /\ stale' = stale /\ \A v \in Workers : cancelled[v] => cancelled'[v]
    BY <1>2, <1>t DEF Stop, Drain, CloseChannel, vars, channelVars
  <2> QED
    BY <2>1 DEF StaleInv
<1>3. ASSUME NEW w \in Workers, SendMeta(w) \/ SendChunk(w) \/ SendEOF(w)
      PROVE  StaleInv'
  <2>1. /\ stale[w] = 0
        /\ cancelled' = cancelled
        /\ pc'[w] \in {"check", "complete", "ended"}
        /\ \A v \in Workers : v # w => pc'[v] = pc[v]
        /\ \/ stale' = stale
           \/ cancelled[w] /\ stale' = [stale EXCEPT ![w] = stale[w] + 1]
    BY <1>3, <1>t DEF SendMeta, SendChunk, SendEOF, Send, Goto, StaleInv
  <2> QED
    BY <1>t, <2>1 DEF StaleInv
<1>4. ASSUME NEW w \in Workers, NEW label \in Labels, Goto(w, label),
             stale' = stale, cancelled' = cancelled,
             pc[w] = "check" /\ cancelled[w] => label = "ended",
             pc[w] \notin {"complete", "ended"}
      PROVE  StaleInv'
  <2>1. /\ pc'[w] = label
        /\ \A v \in Workers : v # w => pc'[v] = pc[v]
    BY <1>4, <1>t DEF Goto
  <2> QED
    BY <1>4, <2>1 DEF StaleInv
<1>5. ASSUME NEW w \in Workers,
             \/ OpenFile(w) \/ CheckContext(w) \/ Backpressure(w) \/ WaitLow(w)
             \/ CheckAgain(w) \/ ReadFile(w) \/ Flush(w)
      PROVE  StaleInv'
  <2>1. PICK label \in Labels :
           /\ Goto(w, label)
           /\ pc[w] = "check" /\ cancelled[w] => label = "ended"
    BY <1>5 DEF OpenFile, CheckContext, Backpressure, WaitLow, CheckAgain, ReadFile, Flush,
                Unpressed, Labels
  <2>2. pc[w] \notin {"complete", "ended"} /\ stale' = stale /\ cancelled' = cancelled
    BY <1>5 DEF OpenFile, CheckContext, Backpressure, WaitLow, CheckAgain, ReadFile, Flush,
                channelVars
  <2> QED
    BY <1>4, <2>1, <2>2
<1> QED
  BY <1>1, <1>2, <1>3, <1>5 DEF Next, WorkerStep

(***************************************************************************)
(* However often a stream is restarted, a cancelled worker sends at most   *)
(* the one message it had decided to send (StartStream, runWorker).        *)
(***************************************************************************)
THEOREM CancelledWorkerQuiet == Spec => []AtMostOneStaleMessage
<1>1. Init => StaleInv
  BY DEF Init, StaleInv
<1>2. StaleInv => AtMostOneStaleMessage
  BY DEF StaleInv, AtMostOneStaleMessage
<1> QED
  BY <1>1, <1>2, TypeInitially, TypeStep, StaleStep, PTL DEF Spec

-----------------------------------------------------------------------------
(* The buffer of the channel.                                              *)

Started == {w \in Workers : pc[w] # "idle"}

\* A worker that will send without looking at the buffer again.
Committed == {w \in Workers : pc[w] \in {"open", "meta", "check2", "read", "send", "eof"}}

\* What is in the buffer and what is sure to come.
LoadInv == buffered + Cardinality(Committed) <= HighWater + Cardinality(Started)

\* There are finitely many workers, so their sets can be counted.
LEMMA CountWorkers ==
    ASSUME NEW S \in SUBSET Workers, NEW T \in SUBSET S
    PROVE  /\ IsFiniteSet(S) /\ Cardinality(S) \in Nat
           /\ IsFiniteSet(T) /\ Cardinality(T) \in Nat
           /\ Cardinality(T) <= Cardinality(S)
<1>1. IsFiniteSet(Workers)
  BY FS_Interval, SizesAssumption DEF Workers
<1>2. IsFiniteSet(S)
  BY <1>1, FS_Subset
<1>3. IsFiniteSet(T) /\ Cardinality(T) <= Cardinality(S)
  BY <1>2, FS_Subset
<1> QED
  BY <1>2, <1>3, FS_CardinalityType

\* A step that commits nobody anew and leaves the buffer no fuller.
LEMMA NoNewLoad ==
    ASSUME LoadInv, TypeInv, TypeInv', Started' = Started, Committed' \subseteq Committed,
           buffered' <= buffered
    PROVE  LoadInv'
<1>1. Committed \in SUBSET Workers /\ Started \in SUBSET Workers
  BY DEF Committed, Started
<1>2. /\ Cardinality(Committed') <= Cardinality(Committed)
      /\ Cardinality(Committed') \in Nat /\ Cardinality(Committed) \in Nat
      /\ Cardinality(Started) \in Nat
  BY <1>1, CountWorkers
<1> QED
  BY <1>2, SizesAssumption DEF LoadInv, TypeInv, TypeOK

\* A step after which the buffer is below the high-water mark: all the workers
\* there are may be about to send.
LEMMA LowLoad ==
    ASSUME TypeInv', buffered' <= HighWater
    PROVE  LoadInv'
<1>1. Started' \in SUBSET Workers /\ Committed' \in SUBSET Started'
  BY DEF Committed, Started, Workers
<1>2. /\ Cardinality(Committed') <= Cardinality(Started')
      /\ Cardinality(Committed') \in Nat /\ Cardinality(Started') \in Nat
  BY <1>1, CountWorkers
<1>3. buffered' \in Nat
  BY DEF TypeInv, TypeOK
<1> QED
  BY <1>2, <1>3, SizesAssumption DEF LoadInv

\* The load through every step: starting a worker adds one on both sides, a
\* Send turns a commitment into a message, and nobody commits above HighWater.
LEMMA LoadStep == TypeInv /\ LoadInv /\ [Next]_vars => LoadInv'
<1> SUFFICES ASSUME TypeInv, LoadInv, [Next]_vars
             PROVE  LoadInv'
  OBVIOUS
<1>t. TypeInv'
  BY TypeStep
<1>u. /\ pc \in [Workers -> Labels] /\ buffered \in Nat /\ current \in 0..NWorkers
      /\ HighWater \in Nat /\ LowWater \in Nat /\ LowWater <= HighWater
      /\ Workers' = Workers
  BY SizesAssumption DEF TypeInv, TypeOK, Workers
<1>c. /\ IsFiniteSet(Started) /\ Cardinality(Started) \in Nat
      /\ IsFiniteSet(Committed) /\ Cardinality(Committed) \in Nat
  BY CountWorkers DEF Started, Committed
<1>1. CASE StartStream
  <2> DEFINE w == current + 1
  <2>1. w \in Workers /\ pc[w] = "idle" /\ buffered' = buffered
    <3>1. current < NWorkers /\ buffered' = buffered
      BY <1>1 DEF StartStream, channelVars
    <3>2. w \in Workers /\ w > current
      BY <1>u, <3>1, SizesAssumption DEF Workers
    <3> QED
      BY <3>1, <3>2 DEF TypeInv
  <2>2. pc' = [pc EXCEPT ![w] = "open"]
    BY <1>1 DEF StartStream
  <2>3. /\ Started' = Started \cup {w} /\ w \notin Started
        /\ Committed' = Committed \cup {w} /\ w \notin Committed
    BY <1>u, <2>1, <2>2 DEF Started, Committed
  <2>4. /\ Cardinality(Started') = Cardinality(Started) + 1
        /\ Cardinality(Committed') = Cardinality(Committed) + 1
    BY <1>c, <2>3, FS_AddElement
  <2> QED
    BY <1>c, <1>u, <2>1, <2>4 DEF LoadInv
<1>2. CASE Stop \/ Drain \/ CloseChannel \/ UNCHANGED vars
  <2>1. pc' = pc
    BY <1>2 DEF Stop, Drain, CloseChannel, vars
  <2>2. buffered' <= buffered
    <3>1. CASE Drain
      BY <1>u, <3>1 DEF Drain
    <3>2. CASE Stop \/ CloseChannel \/ UNCHANGED vars
      BY <1>u, <3>2 DEF Stop, CloseChannel, vars, channelVars
    <3> QED
      BY <1>2, <3>1, <3>2
  <2> QED
    BY <1>t, <2>1, <2>2, NoNewLoad DEF Started, Committed, Workers
<1>3. ASSUME NEW w \in Workers, SendMeta(w) \/ SendChunk(w) \/ SendEOF(w)
      PROVE  LoadInv'
  <2>1. /\ w \in Committed
        /\ pc[w] # "idle" /\ pc'[w] \in {"check", "complete", "ended"}
        /\ \A v \in Workers : v # w => pc'[v] = pc[v]
        /\ buffered' = buffered \/ buffered' = buffered + 1
    BY <1>3, <1>u DEF SendMeta, SendChunk, SendEOF, Send, Goto, Committed
  <2>2. Started' = Started /\ Committed' = Committed \ {w}
    BY <2>1 DEF Started, Committed, Workers
  <2>3. Cardinality(Committed') = Cardinality(Committed) - 1
    BY <1>c, <2>1, <2>2, FS_RemoveElement
  <2> QED
    BY <1>c, <1>u, <2>1, <2>2, <2>3 DEF LoadInv
<1>4. ASSUME NEW w \in Workers, Backpressure(w) \/ WaitLow(w) \/ Flush(w),
             buffered <= HighWater
      PROVE  LoadInv'
  <2>1. buffered' = buffered
    BY <1>4 DEF Backpressure, WaitLow, Flush, channelVars
  <2> QED
    BY <1>4, <1>t, <2>1, LowLoad
<1>5. ASSUME NEW w \in Workers,
             \/ OpenFile(w) \/ CheckContext(w) \/ CheckAgain(w) \/ ReadFile(w)
             \/ Backpressure(w) /\ buffered > HighWater
             \/ WaitLow(w) /\ buffered > HighWater
             \/ Flush(w) /\ buffered > HighWater
      PROVE  LoadInv'
  <2>1. PICK label \in Labels :
           /\ Goto(w, label)
           /\ label # "idle"
           /\ w \in Committed
              \/ label \notin {"open", "meta", "check2", "read", "send", "eof"}
    BY <1>5, <1>u DEF OpenFile, CheckContext, Backpressure, WaitLow, CheckAgain, ReadFile, Flush,
                Unpressed, Labels, Committed
  <2>2. pc[w] # "idle" /\ buffered' = buffered
    BY <1>5 DEF OpenFile, CheckContext, Backpressure, WaitLow, CheckAgain, ReadFile, Flush,
                channelVars
  <2>3. pc'[w] = label /\ \A v \in Workers : v # w => pc'[v] = pc[v]
    BY <1>u, <2>1 DEF Goto
  <2>4. Started' = Started /\ Committed' \subseteq Committed
    BY <2>1, <2>2, <2>3 DEF Started, Committed, Workers
  <2> QED
    BY <1>t, <1>u, <2>2, <2>4, NoNewLoad
<1>6. buffered <= HighWater \/ buffered > HighWater
  BY <1>u
<1> QED
  BY <1>1, <1>2, <1>3, <1>4, <1>5, <1>6 DEF Next, WorkerStep

(***************************************************************************)
(* However many workers share the channel, its buffer passes the high-water *)
(* mark by at most one message for each: testing BufferedAmount and sending *)
(* are separate steps, but a worker tests again after every message.       *)
(***************************************************************************)
THEOREM BufferNeverFloods == Spec => []BufferBounded
<1>1. Init => LoadInv
  <2> SUFFICES ASSUME Init
               PROVE  LoadInv
    OBVIOUS
  <2>1. Started = {} /\ Committed = {} /\ buffered = 0
    BY DEF Init, Started, Committed
  <2> QED
    BY <2>1, FS_EmptySet, SizesAssumption DEF LoadInv
<1>2. TypeInv /\ LoadInv => BufferBounded
  <2> SUFFICES ASSUME TypeInv, LoadInv
               PROVE  BufferBounded
    OBVIOUS
  <2>1. Cardinality(Started) \in Nat /\ Cardinality(Committed) \in Nat
    BY CountWorkers DEF Started, Committed
  <2> QED
    BY <2>1, SizesAssumption DEF LoadInv, BufferBounded, Started, TypeInv, TypeOK
<1> QED
  BY <1>1, <1>2, TypeInitially, TypeStep, LoadStep, PTL DEF Spec

-----------------------------------------------------------------------------
(* The run of the file a worker sends.                                     *)

\* Unless the disk fails under the Manager, the end of the file is the end.
EndIsReal == ~(isManager /\ readsMayFail)

\* A worker stands as far behind its offset as it has sent chunks.  A worker
\* that has ended may have read a unit that the closed channel refused.
Standing(w) ==
    /\ pc[w] = "idle" => Sent(w) = {}
    /\ pc[w] \notin {"idle", "ended"} => pos[w] = offset[w] + Cardinality(Sent(w))
    /\ EndIsReal /\ pc[w] \in {"flush", "eof", "complete"} => pos[w] = Size

RunInv == \A w \in Workers : Standing(w) /\ InOrder(w)

\* The channel holds finitely many messages, so chunks can be counted.
LEMMA CountSent ==
    ASSUME wire \in Seq(Messages), NEW w \in Workers
    PROVE  /\ IsFiniteSet(Sent(w)) /\ Cardinality(Sent(w)) \in Nat
           /\ Sent(w) \subseteq 1..Len(wire)
<1>1. Sent(w) \subseteq 1..Len(wire) /\ Len(wire) \in Nat
  BY DEF Sent
<1>2. IsFiniteSet(1..Len(wire))
  BY <1>1, FS_Interval
<1> QED
  BY <1>1, <1>2, FS_Subset, FS_CardinalityType

\* What one more message on the channel does to the chunks of a worker.
LEMMA SentAppend ==
    ASSUME wire \in Seq(Messages), NEW m \in Messages, wire' = Append(wire, m), NEW w \in Workers
    PROVE  /\ \A i \in Sent(w) : wire'[i] = wire[i] /\ i < Len(wire) + 1
           /\ wire'[Len(wire) + 1] = m
           /\ Len(wire) + 1 \notin Sent(w)
           /\ Sent(w)' = IF m.kind = "chunk" /\ m.from = w
                         THEN Sent(w) \cup {Len(wire) + 1} ELSE Sent(w)
<1>1. /\ Len(wire) \in Nat
      /\ DOMAIN wire = 1..Len(wire)
      /\ DOMAIN wire' = 1..(Len(wire) + 1)
      /\ \A i \in 1..Len(wire) : wire'[i] = wire[i]
      /\ wire'[Len(wire) + 1] = m
  OBVIOUS
<1>2. DOMAIN wire' = DOMAIN wire \cup {Len(wire) + 1} /\ Len(wire) + 1 \notin DOMAIN wire
  BY <1>1
<1>3. \A i \in Sent(w) : i \in 1..Len(wire)
  BY <1>1 DEF Sent
<1>4. Sent(w)' = {i \in DOMAIN wire' : wire'[i].kind = "chunk" /\ wire'[i].from = w}
  BY DEF Sent
<1>5. Sent(w)' = IF m.kind = "chunk" /\ m.from = w
                 THEN Sent(w) \cup {Len(wire) + 1} ELSE Sent(w)
  BY <1>1, <1>2, <1>4 DEF Sent
<1> QED
  BY <1>1, <1>3, <1>5

\* Chunks that stay where they are stay in order.
LEMMA OrderKept ==
    ASSUME NEW w \in Workers, InOrder(w), Sent(w)' = Sent(w), offset' = offset,
           \A i \in Sent(w) : wire'[i] = wire[i]
    PROVE  InOrder(w)'
<1> SUFFICES ASSUME NEW i \in Sent(w)'
             PROVE  wire'[i].at = offset'[w] + Cardinality({j \in Sent(w)' : j < i})
  BY DEF InOrder
<1>1. {j \in Sent(w)' : j < i} = {j \in Sent(w) : j < i}
  OBVIOUS
<1>2. wire[i].at = offset[w] + Cardinality({j \in Sent(w) : j < i})
  BY DEF InOrder
<1> QED
  BY <1>1, <1>2

\* A worker that no step touched stands where it stood.
LEMMA StandingKept ==
    ASSUME NEW w \in Workers, Standing(w), Sent(w)' = Sent(w), offset' = offset,
           pc'[w] = pc[w], pos'[w] = pos[w], EndIsReal' = EndIsReal
    PROVE  Standing(w)'
BY DEF Standing

\* A worker that goes from one label to another without sending keeps its run.
LEMMA RunGoesOn ==
    ASSUME TypeInv, RunInv, NEW w \in Workers, NEW label \in Labels, Goto(w, label),
           UNCHANGED <<isManager, readsMayFail, offset, pos, wire>>,
           label # "idle", pc[w] \notin {"idle", "ended"},
           EndIsReal /\ label \in {"flush", "eof", "complete"}
               => pos[w] >= Size \/ pc[w] \in {"flush", "eof", "complete"}
    PROVE  RunInv'
<1>1. /\ pc \in [Workers -> Labels] /\ pos[w] \in 0..Size
      /\ Workers' = Workers
  BY DEF TypeInv, TypeOK, Workers
<1>2. pc'[w] = label /\ \A v \in Workers : v # w => pc'[v] = pc[v]
  BY <1>1 DEF Goto
<1>3. /\ \A v \in Workers : Sent(v)' = Sent(v)
      /\ EndIsReal' = EndIsReal
  BY DEF Sent, EndIsReal
<1>4. EndIsReal /\ label \in {"flush", "eof", "complete"} => pos[w] = Size
  BY <1>1, SizesAssumption DEF RunInv, Standing
<1>5. Standing(w)'
  BY <1>2, <1>3, <1>4 DEF RunInv, Standing
<1>6. \A v \in Workers : v # w => Standing(v)'
  BY <1>2, <1>3, StandingKept DEF RunInv
<1>7. \A v \in Workers : InOrder(v)'
  BY <1>3, OrderKept DEF RunInv
<1> QED
  BY <1>1, <1>5, <1>6, <1>7 DEF RunInv

\* A worker that sends META or EOF, or fails to, has sent no other chunks.
LEMMA RunKeepsOnOther ==
    ASSUME TypeInv, RunInv, NEW w \in Workers, SendMeta(w) \/ SendEOF(w)
    PROVE  RunInv'
<1>1. PICK kind \in {"META", "EOF"}, next \in {"check", "complete"} :
        /\ Send(w, kind, next) /\ pos' = pos
        /\ pc[w] \in {"meta", "eof"}
        /\ next = "complete" => pc[w] = "eof"
  BY DEF SendMeta, SendEOF
<1>2. UNCHANGED <<isManager, readsMayFail, offset, pos>>
  BY <1>1 DEF Send, setup
<1>3. wire \in Seq(Messages) /\ pc \in [Workers -> Labels] /\ pos \in [Workers -> 0..Size]
  BY DEF TypeInv, TypeOK
<1>4. CASE dcOpen
  <2> DEFINE m == [kind |-> kind, from |-> w, at |-> pos[w]]
  <2>1. m \in Messages /\ m.kind # "chunk"
    BY <1>3 DEF Messages
  <2>2. wire' = Append(wire, m) /\ Goto(w, next)
    BY <1>1, <1>4 DEF Send
  <2> HIDE DEF m
  <2>3. \A v \in Workers : /\ Sent(v)' = Sent(v)
                           /\ \A i \in Sent(v) : wire'[i] = wire[i]
    BY <1>3, <2>1, <2>2, SentAppend
  <2>4. pc'[w] = next /\ \A v \in Workers : v # w => pc'[v] = pc[v]
    BY <1>3, <2>2 DEF Goto
  <2>5. EndIsReal' = EndIsReal /\ Workers' = Workers
    BY <1>2 DEF EndIsReal, Workers
  <2>6. Standing(w)'
    BY <1>1, <1>2, <2>3, <2>4, <2>5 DEF RunInv, Standing
  <2>7. \A v \in Workers : v # w => Standing(v)'
    BY <1>2, <2>3, <2>4, <2>5, StandingKept DEF RunInv
  <2>8. \A v \in Workers : InOrder(v)'
    BY <1>2, <2>3, OrderKept DEF RunInv
  <2> QED
    BY <2>5, <2>6, <2>7, <2>8 DEF RunInv
<1>5. CASE ~dcOpen
  <2>1. Goto(w, "ended") /\ wire' = wire /\ "ended" \in Labels
    BY <1>1, <1>5 DEF Send, Labels
  <2> QED
    BY <1>1, <1>2, <2>1, RunGoesOn
<1> QED
  BY <1>4, <1>5

\* A chunk on the channel is the next of its worker's run and of nobody else's.
LEMMA RunGrows ==
    ASSUME TypeInv, RunInv, NEW w \in Workers, SendChunk(w), dcOpen
    PROVE  RunInv'
<1> DEFINE m == [kind |-> "chunk", from |-> w, at |-> pos[w]]
           n == Len(wire) + 1
<1>1. /\ wire \in Seq(Messages) /\ pc \in [Workers -> Labels]
      /\ pos \in [Workers -> 0..Size] /\ offset \in [Workers -> 0..Size]
  BY DEF TypeInv, TypeOK
<1>2. /\ wire' = Append(wire, m)
      /\ pc' = [pc EXCEPT ![w] = "check"] /\ pc[w] = "send"
      /\ pos' = [pos EXCEPT ![w] = pos[w] + 1]
      /\ UNCHANGED <<isManager, readsMayFail, offset>>
  BY DEF SendChunk, Send, Goto, setup
<1>3. m \in Messages /\ m.kind = "chunk" /\ m.from = w /\ m.at = pos[w]
  BY <1>1 DEF Messages
<1> HIDE DEF m
<1>4. EndIsReal' = EndIsReal /\ Workers' = Workers
  BY <1>2 DEF EndIsReal, Workers
<1>5. ASSUME NEW v \in Workers, v # w
      PROVE  /\ Sent(v)' = Sent(v)
             /\ \A i \in Sent(v) : wire'[i] = wire[i]
             /\ pc'[v] = pc[v] /\ pos'[v] = pos[v]
  <2>1. m.from # v
    BY <1>3, <1>5
  <2>2. /\ Sent(v)' = Sent(v)
        /\ \A i \in Sent(v) : wire'[i] = wire[i]
    <3>1. /\ \A i \in Sent(v) : wire'[i] = wire[i] /\ i < Len(wire) + 1
          /\ Sent(v)' = IF m.kind = "chunk" /\ m.from = v
                        THEN Sent(v) \cup {Len(wire) + 1} ELSE Sent(v)
      <4> HIDE DEF n
      <4>1. wire \in Seq(Messages) /\ m \in Messages /\ wire' = Append(wire, m)
        BY <1>1, <1>2, <1>3
      <4> QED
        BY ONLY <4>1, v \in Workers, SentAppend
    <3> QED
      BY ONLY <2>1, <3>1
  <2>3. pc'[v] = pc[v] /\ pos'[v] = pos[v]
    BY <1>1, <1>2, <1>5
  <2> QED
    BY <2>2, <2>3
<1>6. /\ Sent(w)' = Sent(w) \cup {n} /\ n \notin Sent(w)
      /\ \A i \in Sent(w) : wire'[i] = wire[i] /\ i < n
      /\ wire'[n] = m
  BY <1>1, <1>2, <1>3, SentAppend
<1>7. /\ IsFiniteSet(Sent(w)) /\ Cardinality(Sent(w)) \in Nat
      /\ Sent(w) \subseteq 1..Len(wire) /\ Len(wire) \in Nat
  BY <1>1, CountSent
<1>8. Cardinality(Sent(w)') = Cardinality(Sent(w)) + 1
  BY <1>6, <1>7, FS_AddElement
<1>9. pos[w] = offset[w] + Cardinality(Sent(w))
  BY <1>2 DEF RunInv, Standing
<1>10. ASSUME NEW i \in Sent(w)'
       PROVE  wire'[i].at = offset[w] + Cardinality({j \in Sent(w)' : j < i})
  <2>1. CASE i = n
    <3>1. {j \in Sent(w)' : j < n} = Sent(w)
      BY <1>6, <1>7
    <3> QED
      BY <1>3, <1>6, <1>9, <2>1, <3>1
  <2>2. CASE i \in Sent(w)
    <3>1. {j \in Sent(w)' : j < i} = {j \in Sent(w) : j < i}
      BY <1>6, <1>7, <2>2
    <3> QED
      BY <1>6, <2>2, <3>1 DEF RunInv, InOrder
  <2> QED
    BY <1>6, <1>10, <2>1, <2>2
<1>11. /\ pc'[w] = "check"
       /\ pos'[w] = offset[w] + Cardinality(Sent(w)')
  BY <1>1, <1>2, <1>7, <1>8, <1>9
<1>12. InOrder(w)'
  BY <1>2, <1>10 DEF InOrder
<1>13. Standing(w)'
  BY <1>2, <1>11 DEF Standing
<1>14. \A v \in Workers : v # w => Standing(v)' /\ InOrder(v)'
  BY <1>2, <1>4, <1>5, StandingKept, OrderKept DEF RunInv
<1> QED
  BY <1>4, <1>12, <1>13, <1>14 DEF RunInv

\* Every step keeps every worker on its run of the file.
LEMMA RunStep == TypeInv /\ RunInv /\ [Next]_vars => RunInv'
<1> SUFFICES ASSUME TypeInv, RunInv, [Next]_vars
             PROVE  RunInv'
  OBVIOUS
<1>t. /\ pc \in [Workers -> Labels] /\ pos \in [Workers -> 0..Size]
      /\ offset \in [Workers -> 0..Size] /\ current \in 0..NWorkers
      /\ Workers' = Workers
  BY DEF TypeInv, TypeOK, Workers
<1>1. CASE StartStream
  <2>1. PICK w \in Workers : w = current + 1 /\ w > current
    BY <1>1, <1>t, SizesAssumption DEF StartStream, Workers
  <2>2. /\ pc' = [pc EXCEPT ![w] = "open"]
        /\ pos' = [pos EXCEPT ![w] = offset[w]]
        /\ UNCHANGED <<isManager, readsMayFail, offset, wire>>
    BY <1>1, <2>1 DEF StartStream, setup, channelVars
  <2>3. Sent(w) = {}
    BY <2>1 DEF RunInv, Standing, TypeInv
  <2>4. /\ pc'[w] = "open" /\ pos'[w] = offset[w]
        /\ \A v \in Workers : v # w => pc'[v] = pc[v] /\ pos'[v] = pos[v]
    BY <1>t, <2>1, <2>2
  <2>5. EndIsReal' = EndIsReal /\ \A v \in Workers : Sent(v)' = Sent(v)
    BY <2>2 DEF EndIsReal, Sent
  <2>6. offset'[w] = offset[w] /\ Cardinality(Sent(w)') = 0 /\ offset[w] \in Nat
    <3>1. Sent(w)' = {}
      BY <2>3, <2>5
    <3>2. Cardinality(Sent(w)') = 0
      BY <3>1, FS_EmptySet
    <3> QED
      BY <1>t, <2>2, <3>2
  <2>7. Standing(w)'
    BY <2>4, <2>6 DEF Standing
  <2>8. \A v \in Workers : v # w => Standing(v)'
    BY <2>2, <2>4, <2>5, StandingKept DEF RunInv
  <2>9. \A v \in Workers : InOrder(v)'
    BY <2>2, <2>5, OrderKept DEF RunInv
  <2> QED
    BY <1>t, <2>7, <2>8, <2>9 DEF RunInv
<1>2. CASE Stop \/ Drain \/ CloseChannel \/ UNCHANGED vars
  <2>1. UNCHANGED <<isManager, readsMayFail, offset, pc, pos, wire>>
    BY <1>2 DEF Stop, Drain, CloseChannel, vars, setup, channelVars
  <2>2. EndIsReal' = EndIsReal /\ \A v \in Workers : Sent(v)' = Sent(v)
    BY <2>1 DEF EndIsReal, Sent
  <2> QED
    BY <1>t, <2>1, <2>2, StandingKept, OrderKept DEF RunInv
<1>3. ASSUME NEW w \in Workers, SendChunk(w), ~dcOpen
      PROVE  RunInv'
  <2>1. /\ pc' = [pc EXCEPT ![w] = "ended"]
        /\ pos' = [pos EXCEPT ![w] = pos[w] + 1]
        /\ UNCHANGED <<isManager, readsMayFail, offset, wire>>
    BY <1>3 DEF SendChunk, Send, Goto, setup
  <2>2. /\ pc'[w] = "ended"
        /\ \A v \in Workers : v # w => pc'[v] = pc[v] /\ pos'[v] = pos[v]
    BY <1>t, <2>1
  <2>3. EndIsReal' = EndIsReal /\ \A v \in Workers : Sent(v)' = Sent(v)
    BY <2>1 DEF EndIsReal, Sent
  <2>4. Standing(w)'
    BY <2>2 DEF Standing
  <2>5. \A v \in Workers : v # w => Standing(v)'
    BY <2>1, <2>2, <2>3, StandingKept DEF RunInv
  <2>6. \A v \in Workers : InOrder(v)'
    BY <2>1, <2>3, OrderKept DEF RunInv
  <2> QED
    BY <1>t, <2>4, <2>5, <2>6 DEF RunInv
<1>4. ASSUME NEW w \in Workers,
             \/ OpenFile(w) \/ CheckContext(w) \/ Backpressure(w) \/ WaitLow(w)
             \/ CheckAgain(w) \/ ReadFile(w) \/ Flush(w)
      PROVE  RunInv'
  <2>1. PICK label \in Labels :
           /\ Goto(w, label)
           /\ label # "idle"
           /\ EndIsReal /\ label \in {"flush", "eof", "complete"}
                  => ~(pos[w] < Size) \/ pc[w] \in {"flush", "eof", "complete"}
    BY <1>4 DEF OpenFile, CheckContext, Backpressure, WaitLow, CheckAgain, ReadFile, Flush,
                Unpressed, Labels, EndIsReal
  <2>2. /\ pc[w] \notin {"idle", "ended"}
        /\ UNCHANGED <<isManager, readsMayFail, offset, pos, wire>>
    BY <1>4 DEF OpenFile, CheckContext, Backpressure, WaitLow, CheckAgain, ReadFile, Flush,
                setup, channelVars
  <2>3. ~(pos[w] < Size) => pos[w] >= Size
    BY <1>t, SizesAssumption
  <2> QED
    BY <2>1, <2>2, <2>3, RunGoesOn
<1>5. dcOpen \/ ~dcOpen
  OBVIOUS
<1> QED
  BY <1>1, <1>2, <1>3, <1>4, <1>5, RunKeepsOnOther, RunGrows DEF Next, WorkerStep

\* Before the first StartStream the channel is empty.
LEMMA RunInitially == Init => RunInv
BY DEF Init, RunInv, Standing, InOrder, Sent

(***************************************************************************)
(* What any worker sends, from whatever offset the receiver asked for and  *)
(* through any interleaving with the other workers on the same channel, is *)
(* a run of the file without a hole and without a repetition.              *)
(***************************************************************************)
THEOREM ChunksInOrder == Spec => []OwnChunksInOrder
<1>1. RunInv => OwnChunksInOrder
  BY DEF RunInv, InOrder, OwnChunksInOrder
<1> QED
  BY <1>1, RunInitially, TypeInitially, TypeStep, RunStep, PTL DEF Spec

(***************************************************************************)
(* A worker that reports completion has sent the file from its offset to   *)
(* its end; the Manager owes this only while the disk does not fail.       *)
(***************************************************************************)
THEOREM CompleteMeansWhole == Spec => []EOFMeansWhole
<1>1. TypeInv /\ RunInv => EOFMeansWhole
  <2> SUFFICES ASSUME TypeInv, RunInv, EndIsReal, NEW w \in Workers, pc[w] = "complete"
               PROVE  Cardinality(Sent(w)) = Size - offset[w]
    BY DEF EOFMeansWhole, EndIsReal
  <2>1. Size = offset[w] + Cardinality(Sent(w))
    BY DEF RunInv, Standing
  <2>2. offset[w] \in Nat /\ Cardinality(Sent(w)) \in Nat
    BY CountSent DEF TypeInv, TypeOK
  <2> QED
    BY <2>1, <2>2, SizesAssumption
<1> QED
  BY <1>1, RunInitially, TypeInitially, TypeStep, RunStep, PTL DEF Spec

-----------------------------------------------------------------------------
(* Each worker implements FileDelivery.                                    *)

\* Every rank below their number belongs to one of a worker's chunks, so that its k-th
\* chunk is there.
Ranked(w) ==
    \A k \in 1..Cardinality(Sent(w)) :
        \E i \in Sent(w) : Cardinality({j \in Sent(w) : j < i}) = k - 1

RankInv == \A w \in Workers : Ranked(w)

\* A worker behind its loop.
Late == {"flush", "eof", "complete", "ended"}

\* What a step may do to a worker: send its next chunk, complete behind an EOF, or move
\* without leaving the end of its run.
LEMMA WorkerMoves ==
    ASSUME TypeInv, [Next]_vars, NEW w \in Workers
    PROVE  /\ UNCHANGED <<isManager, readsMayFail, offset>>
           /\ pc[w] \in Late => pc'[w] \in Late /\ pos'[w] = pos[w]
           /\ pc[w] = "complete" => pc'[w] = "complete"
           /\ pc'[w] = "complete" => pc[w] \in {"complete", "eof"}
<1>1. /\ pc \in [Workers -> Labels] /\ pos \in [Workers -> 0..Size]
      /\ current \in 0..NWorkers
  BY DEF TypeInv, TypeOK
<1>2. CASE StartStream
  <2>1. PICK v \in Workers : v = current + 1 /\ v > current
    BY <1>1, <1>2, SizesAssumption DEF StartStream, Workers
  <2>2. pc[v] = "idle"
    BY <2>1 DEF TypeInv
  <2>3. /\ pc' = [pc EXCEPT ![v] = "open"]
        /\ pos' = [pos EXCEPT ![v] = offset[v]]
        /\ UNCHANGED <<isManager, readsMayFail, offset>>
    BY <1>2, <2>1 DEF StartStream, setup
  <2> QED
    BY <1>1, <2>2, <2>3 DEF Late
<1>3. CASE Stop \/ Drain \/ CloseChannel \/ UNCHANGED vars
  <2>1. UNCHANGED <<isManager, readsMayFail, offset, pc, pos>>
    BY <1>3 DEF Stop, Drain, CloseChannel, vars, setup
  <2> QED
    BY <2>1 DEF Late
<1>4. ASSUME NEW v \in Workers, SendMeta(v) \/ SendChunk(v) \/ SendEOF(v)
      PROVE  /\ UNCHANGED <<isManager, readsMayFail, offset>>
             /\ pc[w] \in Late => pc'[w] \in Late /\ pos'[w] = pos[w]
             /\ pc[w] = "complete" => pc'[w] = "complete"
             /\ pc'[w] = "complete" => pc[w] \in {"complete", "eof"}
  <2>1. UNCHANGED <<isManager, readsMayFail, offset>>
    BY <1>4 DEF SendMeta, SendChunk, SendEOF, Send, setup
  <2>2. PICK label \in Labels :
          /\ pc' = [pc EXCEPT ![v] = label]
          /\ pc[v] \in {"meta", "send", "eof"}
          /\ label = "complete" => pc[v] = "eof"
          /\ pc[v] = "eof" => label \in {"complete", "ended"}
    BY <1>4 DEF SendMeta, SendChunk, SendEOF, Send, Goto, Labels
  <2>3. \/ pos' = pos
        \/ pc[v] = "send" /\ pos' = [pos EXCEPT ![v] = pos[v] + 1]
    BY <1>4 DEF SendMeta, SendChunk, SendEOF
  <2> QED
    BY <1>1, <2>1, <2>2, <2>3 DEF Late
<1>5. ASSUME NEW v \in Workers,
             \/ OpenFile(v) \/ CheckContext(v) \/ Backpressure(v) \/ WaitLow(v)
             \/ CheckAgain(v) \/ ReadFile(v) \/ Flush(v)
      PROVE  /\ UNCHANGED <<isManager, readsMayFail, offset>>
             /\ pc[w] \in Late => pc'[w] \in Late /\ pos'[w] = pos[w]
             /\ pc[w] = "complete" => pc'[w] = "complete"
             /\ pc'[w] = "complete" => pc[w] \in {"complete", "eof"}
  <2>1. UNCHANGED <<isManager, readsMayFail, offset, pos>>
    BY <1>5 DEF OpenFile, CheckContext, Backpressure, WaitLow, CheckAgain, ReadFile, Flush, setup
  <2>2. PICK label \in Labels :
          /\ pc' = [pc EXCEPT ![v] = label]
          /\ label # "complete"
          /\ pc[v] \notin {"eof", "complete", "ended"}
          /\ pc[v] = "flush" => label \in {"eof", "ended"}
    BY <1>5 DEF OpenFile, CheckContext, Backpressure, WaitLow, CheckAgain, ReadFile, Flush,
                Unpressed, Goto, Labels
  <2> QED
    BY <1>1, <2>1, <2>2 DEF Late
<1> QED
  BY <1>2, <1>3, <1>4, <1>5 DEF Next, WorkerStep

\* What a step may do to the chunks of a worker.
LEMMA ChunkSteps ==
    ASSUME TypeInv, [Next]_vars, NEW w \in Workers
    PROVE  \/ Sent(w)' = Sent(w)
           \/ /\ SendChunk(w) /\ dcOpen
              /\ Sent(w)' = Sent(w) \cup {Len(wire) + 1}
<1>1. wire \in Seq(Messages) /\ pos \in [Workers -> 0..Size]
  BY DEF TypeInv, TypeOK
<1>2. CASE wire' = wire
  BY <1>2 DEF Sent
<1>3. ASSUME NEW v \in Workers, NEW kind \in {"META", "chunk", "EOF"}, NEW next,
             Send(v, kind, next), dcOpen,
             kind = "chunk" => SendChunk(v)
      PROVE  \/ Sent(w)' = Sent(w)
             \/ /\ SendChunk(w) /\ dcOpen
                /\ Sent(w)' = Sent(w) \cup {Len(wire) + 1}
  <2> DEFINE m == [kind |-> kind, from |-> v, at |-> pos[v]]
  <2>1. m \in Messages /\ m.kind = kind /\ m.from = v
    BY <1>1 DEF Messages
  <2>2. wire' = Append(wire, m)
    BY <1>3 DEF Send
  <2> HIDE DEF m
  <2>3. Sent(w)' = IF m.kind = "chunk" /\ m.from = w
                   THEN Sent(w) \cup {Len(wire) + 1} ELSE Sent(w)
    BY <1>1, <2>1, <2>2, SentAppend
  <2> QED
    BY <1>3, <2>1, <2>3
<1>4. ASSUME NEW v \in Workers, SendMeta(v) \/ SendChunk(v) \/ SendEOF(v), dcOpen
      PROVE  \/ Sent(w)' = Sent(w)
             \/ /\ SendChunk(w) /\ dcOpen
                /\ Sent(w)' = Sent(w) \cup {Len(wire) + 1}
  BY <1>3, <1>4 DEF SendMeta, SendChunk, SendEOF
<1>5. ASSUME NEW v \in Workers, SendMeta(v) \/ SendChunk(v) \/ SendEOF(v), ~dcOpen
      PROVE  wire' = wire
  BY <1>5 DEF SendMeta, SendChunk, SendEOF, Send
<1>6. ASSUME NEW v \in Workers,
             \/ OpenFile(v) \/ CheckContext(v) \/ Backpressure(v) \/ WaitLow(v)
             \/ CheckAgain(v) \/ ReadFile(v) \/ Flush(v)
      PROVE  wire' = wire
  BY <1>6 DEF OpenFile, CheckContext, Backpressure, WaitLow, CheckAgain, ReadFile, Flush,
              channelVars
<1>7. CASE StartStream \/ Stop \/ Drain \/ CloseChannel \/ UNCHANGED vars
  <2>1. wire' = wire
    BY <1>7 DEF StartStream, Stop, Drain, CloseChannel, vars, channelVars
  <2> QED
    BY <1>2, <2>1
<1> QED
  BY <1>2, <1>4, <1>5, <1>6, <1>7 DEF Next, WorkerStep

\* A chunk behind all others takes the next rank, and the others keep theirs.
LEMMA RankAdded ==
    ASSUME NEW S, NEW n \in Nat, S \subseteq 1..(n - 1)
    PROVE  /\ {j \in S \cup {n} : j < n} = S
           /\ \A i \in S : {j \in S \cup {n} : j < i} = {j \in S : j < i}
<1>1. \A i \in S : i \in Nat /\ i < n /\ ~(n < i)
  OBVIOUS
<1>2. ~(n < n)
  OBVIOUS
<1>3. {j \in S \cup {n} : j < n} = S
  BY <1>1, <1>2
<1>4. ASSUME NEW i \in S
      PROVE  {j \in S \cup {n} : j < i} = {j \in S : j < i}
  BY <1>1
<1> QED
  BY <1>3, <1>4

\* No step takes a chunk back or puts one between others.
LEMMA RankStep == TypeInv /\ RankInv /\ [Next]_vars => RankInv'
<1> SUFFICES ASSUME TypeInv, RankInv, [Next]_vars, NEW w \in Workers
             PROVE  Ranked(w)'
  BY DEF RankInv, Workers
<1>1. wire \in Seq(Messages)
  BY DEF TypeInv, TypeOK
<1>2. Ranked(w)
  BY DEF RankInv
<1>3. CASE Sent(w)' = Sent(w)
  BY <1>2, <1>3 DEF Ranked
<1>4. CASE Sent(w)' = Sent(w) \cup {Len(wire) + 1}
  <2> DEFINE n == Len(wire) + 1
             S == Sent(w)
  <2>1. IsFiniteSet(S) /\ Cardinality(S) \in Nat /\ S \subseteq 1..(n - 1) /\ n \in Nat
    BY <1>1, CountSent
  <2>2. Sent(w)' = S \cup {n}
    BY <1>4
  <2> HIDE DEF n, S
  <2>3. n \notin S
    BY <2>1
  <2>4. Cardinality(Sent(w)') = Cardinality(S) + 1
    BY <2>1, <2>2, <2>3, FS_AddElement
  <2>5. /\ {j \in S \cup {n} : j < n} = S
        /\ \A i \in S : {j \in S \cup {n} : j < i} = {j \in S : j < i}
    BY <2>1, RankAdded
  <2> SUFFICES ASSUME NEW k \in 1..(Cardinality(S) + 1)
               PROVE  \E i \in S \cup {n} : Cardinality({j \in S \cup {n} : j < i}) = k - 1
    BY <2>2, <2>4 DEF Ranked
  <2>6. CASE k = Cardinality(S) + 1
    <3>1. Cardinality({j \in S \cup {n} : j < n}) = Cardinality(S)
      BY <2>5
    <3>2. k - 1 = Cardinality(S)
      BY <2>1, <2>6
    <3> QED
      BY <3>1, <3>2
  <2>7. CASE k \in 1..Cardinality(S)
    <3>1. PICK i \in S : Cardinality({j \in S : j < i}) = k - 1
      BY <1>2, <2>7 DEF Ranked, S
    <3>2. Cardinality({j \in S \cup {n} : j < i}) = k - 1
      BY <2>5, <3>1
    <3> QED
      BY <3>2
  <2>8. k = Cardinality(S) + 1 \/ k \in 1..Cardinality(S)
    BY <2>1
  <2> QED
    BY <2>6, <2>7, <2>8
<1> QED
  BY <1>3, <1>4, ChunkSteps

\* What the channel took from a worker is the file from its offset on.
ChunksRun ==
    \A w \in Workers :
        Chunks(w) = [k \in 1..Cardinality(Sent(w)) |-> offset[w] + (k - 1)]

\* It is when its chunks are in order and each rank has its chunk.
LEMMA ChunksAreRun == RunInv /\ RankInv => ChunksRun
<1> SUFFICES ASSUME NEW w \in Workers, InOrder(w), Ranked(w), NEW k \in 1..Cardinality(Sent(w))
             PROVE  Chunk(w, k) = offset[w] + (k - 1)
  BY DEF Chunks, ChunksRun, RunInv, RankInv
<1> DEFINE Rank(i) == Cardinality({j \in Sent(w) : j < i})
           i == CHOOSE i \in Sent(w) : Rank(i) = k - 1
<1>1. \E x \in Sent(w) : Rank(x) = k - 1
  BY DEF Ranked
<1>2. i \in Sent(w) /\ Rank(i) = k - 1
  BY <1>1
<1>3. wire[i].at = offset[w] + (k - 1)
  BY <1>2 DEF InOrder
<1> QED
  BY <1>3 DEF Chunk

\* A run that grows by one has its next unit appended.
LEMMA RunAppend ==
    ASSUME NEW o \in Nat, NEW n \in Nat
    PROVE  /\ [k \in 1..(n + 1) |-> o + (k - 1)] = Append([k \in 1..n |-> o + (k - 1)], o + n)
           /\ Len([k \in 1..n |-> o + (k - 1)]) = n
<1> DEFINE r == [k \in 1..n |-> o + (k - 1)]
           s == [k \in 1..(n + 1) |-> o + (k - 1)]
<1>1. r \in Seq(Nat) /\ Len(r) = n
  BY Z3
<1>2. Append(r, o + n) = s
  BY <1>1, SMT
<1> QED
  BY <1>1, <1>2

\* The steps of one worker are steps of its delivery, or leave it as it is.
LEMMA DeliveryStep ==
    ASSUME TypeInv, RunInv, ChunksRun, ChunksRun', [Next]_vars, NEW w \in Workers
    PROVE  [Delivery(w)!Next]_(Delivery(w)!vars)
<1> DEFINE n == Cardinality(Sent(w))
<1>1. /\ offset[w] \in Nat /\ n \in Nat /\ pos[w] \in 0..Size /\ Size \in Nat
      /\ IsFiniteSet(Sent(w)) /\ Sent(w) \subseteq 1..Len(wire) /\ Len(wire) \in Nat
      /\ pc[w] \in Labels
  BY CountSent, SizesAssumption DEF TypeInv, TypeOK
<1>2. /\ offset' = offset /\ isManager' = isManager /\ readsMayFail' = readsMayFail
      /\ pc[w] \in Late => pc'[w] \in Late /\ pos'[w] = pos[w]
      /\ pc[w] = "complete" => pc'[w] = "complete"
      /\ pc'[w] = "complete" => pc[w] \in {"complete", "eof"}
  BY WorkerMoves
<1>3. Chunks(w) = [k \in 1..n |-> offset[w] + (k - 1)]
  BY DEF ChunksRun
<1>4. Chunks(w)' = [k \in 1..Cardinality(Sent(w)') |-> offset[w] + (k - 1)]
  BY <1>2 DEF ChunksRun, Workers
<1>5. Len(Chunks(w)) = n
  BY <1>1, <1>3, RunAppend
<1>6. CASE SendChunk(w) /\ dcOpen /\ Sent(w)' = Sent(w) \cup {Len(wire) + 1}
  <2>1. Len(wire) + 1 \notin Sent(w)
    BY <1>1
  <2>2. Cardinality(Sent(w)') = n + 1
    BY <1>1, <1>6, <2>1, FS_AddElement
  <2>3. Chunks(w)' = Append(Chunks(w), offset[w] + n)
    BY <1>1, <1>3, <1>4, <2>2, RunAppend
  <2>4. pc[w] = "send" /\ pc'[w] = "check"
    BY <1>6 DEF SendChunk, Send, Goto, TypeInv, TypeOK
  <2>5. offset[w] + n < Size
    BY <2>4 DEF TypeInv, RunInv, Standing
  <2>6. CutShort(w)' = CutShort(w)
    BY <2>4 DEF CutShort
  <2>7. Delivery(w)!Write
    BY <1>2, <1>5, <2>3, <2>4, <2>5, <2>6 DEF Delivery!Write
  <2> QED
    BY <2>7 DEF Delivery!Next
<1>7. CASE Sent(w)' = Sent(w)
  <2>1. Chunks(w)' = Chunks(w) /\ offset'[w] = offset[w]
    BY <1>2, <1>3, <1>4, <1>7
  <2>2. CASE pc'[w] = "complete" /\ pc[w] = "eof"
    <3>1. pos[w] = offset[w] + n
      BY <2>2 DEF RunInv, Standing
    <3>2. CutShort(w)' = CutShort(w)
      BY <1>2, <2>2 DEF CutShort, Late
    <3>3. CutShort(w) \/ pos[w] = Size
      BY <1>1, <2>2 DEF CutShort, RunInv, Standing, EndIsReal
    <3>4. Delivery(w)!Save
      BY <1>5, <2>1, <2>2, <3>1, <3>2, <3>3 DEF Delivery!Save
    <3> QED
      BY <3>4 DEF Delivery!Next
  <2>3. CASE (pc'[w] = "complete") = (pc[w] = "complete")
    <3>1. CutShort(w) => CutShort(w)'
      BY <1>2 DEF CutShort, Late
    <3>2. CutShort(w) \in BOOLEAN /\ CutShort(w)' \in BOOLEAN
      BY DEF CutShort
    <3>3. CASE CutShort(w)' = CutShort(w)
      BY <2>1, <2>3, <3>3 DEF Delivery!vars
    <3>4. CASE CutShort(w)' = TRUE
      <4>1. Delivery(w)!SourceFails
        BY <2>1, <2>3, <3>4 DEF Delivery!SourceFails
      <4> QED
        BY <4>1 DEF Delivery!Next
    <3> QED
      BY <3>1, <3>2, <3>3, <3>4
  <2> QED
    BY <1>2, <2>2, <2>3
<1> QED
  BY <1>6, <1>7, ChunkSteps

\* Before the first StartStream no worker has delivered anything.
LEMMA DeliveryInitially ==
    Init => RankInv /\ \A w \in Workers : Delivery(w)!Init
<1> SUFFICES ASSUME Init, NEW w \in Workers
             PROVE  Ranked(w) /\ Delivery(w)!Init
  BY DEF RankInv
<1>1. Sent(w) = {} /\ Cardinality(Sent(w)) = 0
  BY FS_EmptySet DEF Init, Sent
<1>2. Ranked(w)
  BY <1>1 DEF Ranked
<1>3. Chunks(w) = << >>
  BY <1>1 DEF Chunks
<1>4. offset[w] \in 0..Size /\ (pc[w] = "complete") = FALSE /\ CutShort(w) = FALSE
  BY DEF Init, CutShort
<1>5. Delivery(w)!Init
  BY <1>3, <1>4 DEF Delivery!Init
<1> QED
  BY <1>2, <1>5

(***************************************************************************)
(* Every worker implements FileDelivery on a channel it shares with all    *)
(* the others: for any number of restarts, at any moment, with either      *)
(* implementation, its chunks are the file from its offset on, one unit    *)
(* after another, and it completes behind the last (StartStream,           *)
(* runWorker).                                                             *)
(***************************************************************************)
THEOREM ImplementsFileDelivery == Spec => DeliversFile
<1> DEFINE Inv == TypeInv /\ RunInv /\ RankInv
           Step == \A w \in Workers : [Delivery(w)!Next]_(Delivery(w)!vars)
<1>1. Init => Inv /\ \A w \in Workers : Delivery(w)!Init
  BY TypeInitially, RunInitially, DeliveryInitially
<1>2. Inv /\ [Next]_vars => Inv'
  BY TypeStep, RunStep, RankStep
<1>3. Inv => ChunksRun
  BY ChunksAreRun
<1>4. Inv /\ ChunksRun /\ ChunksRun' /\ [Next]_vars => Step
  BY DeliveryStep
<1> HIDE DEF Inv, Step
<1>5. Spec => (\A w \in Workers : Delivery(w)!Init) /\ [][Step]_vars
  BY <1>1, <1>2, <1>3, <1>4, PTL DEF Spec
<1> QED
  BY <1>5 DEF DeliversFile, Step

=============================================================================
