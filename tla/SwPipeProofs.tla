---------------------------- MODULE SwPipeProofs ----------------------------
(***************************************************************************)
(* The pipe through the service worker, for a file of any size, any number *)
(* of requests and any patience of a waiting request.                      *)
(***************************************************************************)
EXTENDS SwPipe, Integers, Sequences, TLAPS

-----------------------------------------------------------------------------
(* The inductive invariant. *)

\* EOF is posted with the last unit behind it, and only a page that heard READY asks for the
\* URL and writes.
PageInv ==
    /\ page = "asking" => worker = "none"
    /\ eof <=> page = "done"
    /\ eof => sent = Size
    /\ page \in {"writing", "done", "failed"} => ready
    /\ page \in {"asking", "confirming", "fallback"} => \A r \in Requests : request[r] = "none"

\* The entry, its timer and the open port live and die together, before the stream is
\* handed out.
WorkerInv ==
    /\ ready => worker \notin {"none", "starting"}
    /\ timer = entry
    /\ entry => worker = "open" /\ ~Served
    /\ worker = "open" => stream = "readable"
    /\ worker \in {"none", "starting"} => stream = "none"

\* Nothing overtakes: read, enqueued, posted.  A stream that ends has everything.
FlowInv ==
    /\ read <= taken /\ taken <= sent
    /\ stream = "closing" => eof /\ taken = Size

\* Why a pipe went, and what that means for its download.
CauseInv ==
    /\ worker \in {"none", "starting", "open"} => cause = "none"
    /\ worker = "closed" => cause # "none"
    /\ worker = "closed" /\ stream = "errored" => cause = "ttl"
    /\ cause = "ttl" => ~Served
    /\ cause = "cancel" => download = "cancelled"
    /\ download = "none" <=> ~Served
    /\ download = "broken" => stream = "errored"
    /\ download = "complete" => read = Size /\ page = "done"

\* A request that waits has a look left.
LookInv == \A r \in Requests : request[r] = "looking" => looks[r] # 0

IInv == LookInv /\ TypeOK /\ PageInv /\ WorkerInv /\ FlowInv /\ CauseInv

-----------------------------------------------------------------------------
\* The module starts in the invariant.
LEMMA InitInv == Init => IInv
<1> SUFFICES ASSUME Init PROVE IInv
  OBVIOUS
<1>1. \A r \in Requests : request[r] = "none" BY DEF Init
<1>2. ~Served BY <1>1 DEF Served
<1>3. TypeOK
  <2>1. /\ request \in [Requests -> {"none", "served", "missed", "dropped"} \cup Waiting]
        /\ looks \in [Requests -> 0..MaxLooks]
    BY SizesAreNatural DEF Init
  <2>2. /\ sent \in 0..Size /\ taken \in 0..Size /\ read \in 0..Size
        /\ page = "asking" /\ worker = "none" /\ stream = "none" /\ download = "none"
        /\ cause = "none"
    BY SizesAreNatural DEF Init
  <2>3. eof \in BOOLEAN /\ ready \in BOOLEAN /\ entry \in BOOLEAN /\ timer \in BOOLEAN
    BY DEF Init
  <2> QED BY <2>1, <2>2, <2>3 DEF TypeOK
<1>4. PageInv BY <1>1 DEF Init, PageInv
<1>5. WorkerInv BY <1>2 DEF Init, WorkerInv
<1>6. FlowInv BY DEF Init, FlowInv
<1>7. CauseInv BY <1>2 DEF Init, CauseInv
<1>8. LookInv BY <1>1 DEF LookInv
<1> QED BY <1>3, <1>4, <1>5, <1>6, <1>7, <1>8 DEF IInv

\* Every step of the page, the worker, a request and the download keeps the invariant.
LEMMA StepInv == IInv /\ [Next]_vars => IInv'
<1> SUFFICES ASSUME IInv, [Next]_vars PROVE IInv'
  OBVIOUS
<1> USE SizesAreNatural DEF IInv, LookInv, TypeOK, PageInv, WorkerInv, FlowInv, CauseInv, Served, Requests,
        Waiting,
        pageVars, pipeVars, fetchVars, readerVars
<1>1. CASE NoPipe \/ PostInit \/ ConfirmTimesOut BY <1>1 DEF NoPipe, PostInit, ConfirmTimesOut
<1>2. CASE UsePipe BY <1>2 DEF UsePipe
<1>3. CASE RemoveIframe BY <1>3 DEF RemoveIframe
<1>4. CASE PageWrites
  <2>1. CASE Post BY <2>1 DEF Post
  <2>2. CASE PostEOF BY <2>2 DEF PostEOF
  <2>3. CASE PageFails BY <2>3 DEF PageFails
  <2> QED BY <1>4, <2>1, <2>2, <2>3 DEF PageWrites
<1>5. CASE InitPort BY <1>5 DEF InitPort
<1>6. CASE TakeUnit BY <1>6 DEF TakeUnit
<1>7. CASE TakeEOF BY <1>7 DEF TakeEOF, Cleanup
<1>8. CASE Expire BY <1>8 DEF Expire, Cleanup
<1>9. CASE WorkerStops BY <1>9 DEF WorkerStops
<1>10. ASSUME NEW r \in Requests, Answer(r) \/ AskAgain(r) PROVE IInv'
  <2>1. CASE FetchServed(r)
    <3>1. Serve(r) /\ request[r] # "none" BY <2>1 DEF FetchServed
    <3>2. Served' BY <3>1 DEF Serve
    <3>3. TypeOK' BY <3>1 DEF Serve
    <3>4. LookInv' /\ PageInv' /\ FlowInv' BY <3>1 DEF Serve
    <3>5. WorkerInv' /\ CauseInv' BY <3>1, <3>2 DEF Serve
    <3> QED BY <3>3, <3>4, <3>5
  <2>2. CASE FetchWaits(r) BY <2>2 DEF FetchWaits
  <2>3. CASE LookFails(r)
    <3>1. Served' <=> Served BY <2>3 DEF LookFails
    <3>2. TypeOK'
      <4>1. looks[r] \in 1..MaxLooks BY <2>3 DEF LookFails
      <4> QED BY <4>1, <2>3 DEF LookFails
    <3>3. LookInv' /\ PageInv' /\ FlowInv' BY <2>3 DEF LookFails
    <3>4. WorkerInv' /\ CauseInv' BY <2>3, <3>1 DEF LookFails
    <3> QED BY <3>2, <3>3, <3>4
  <2>4. CASE AskAgain(r) BY <2>4 DEF AskAgain
  <2> QED BY <1>10, <2>1, <2>2, <2>3, <2>4 DEF Answer
<1>11. CASE Deliver BY <1>11 DEF Deliver
<1>12. CASE Complete BY <1>12 DEF Complete
<1>13. CASE Break BY <1>13 DEF Break
<1>14. CASE Cancel BY <1>14 DEF Cancel, Cleanup
<1>15. CASE UNCHANGED vars BY <1>15 DEF vars
<1> QED
  BY <1>1, <1>2, <1>3, <1>4, <1>5, <1>6, <1>7, <1>8, <1>9, <1>10, <1>11, <1>12, <1>13, <1>14, <1>15
     DEF Next, PortStep, Reader

LEMMA Invariance == Spec => []IInv
BY InitInv, StepInv, PTL DEF Spec

-----------------------------------------------------------------------------
\* Page, worker, requests and download keep every variable in its type: no step of one
\* actor leaves a count or a place another does not know.
THEOREM TypeCorrect == Spec => []TypeOK
BY Invariance, PTL DEF IInv

\* A download the browser shows as complete has every unit of the file, whatever expires,
\* is cancelled, fails or is stopped meanwhile (sw.js, port.onmessage and its timer).
THEOREM CompleteIsWhole == Spec => []CompleteMeansWhole
<1>1. IInv => CompleteMeansWhole BY DEF IInv, CauseInv, CompleteMeansWhole
<1> QED BY <1>1, Invariance, PTL

\* A file the page reports as complete is lost only to a cancellation, to a stopped worker
\* or to a pipe that ended before any request for it was answered (app.js, getSWPipe).
THEOREM LossHasReason == Spec => []LossExplained
<1>1. IInv => LossExplained
  <2> SUFFICES ASSUME IInv, page = "done", worker \notin {"starting", "open"}
               PROVE \/ download \in {"complete", "reading"}
                     \/ download = "cancelled"
                     \/ worker = "stopped"
                     \/ cause \in {"eof", "ttl"} /\ ~Served
    BY DEF LossExplained
  <2>1. worker \in {"closed", "stopped"} BY DEF IInv, PageInv, WorkerInv, TypeOK
  <2>2. CASE worker = "closed" /\ Served
    <3>1. download # "none" BY <2>2 DEF IInv, CauseInv
    <3>2. stream # "errored" BY <2>2 DEF IInv, CauseInv
    <3> QED BY <3>1, <3>2 DEF IInv, CauseInv, TypeOK
  <2>3. CASE worker = "closed" /\ ~Served
    <3>1. cause \in {"eof", "ttl", "cancel"} BY <2>3 DEF IInv, CauseInv, TypeOK
    <3> QED BY <2>3, <3>1 DEF IInv, CauseInv
  <2> QED BY <2>1, <2>2, <2>3
<1> QED BY <1>1, Invariance, PTL

-----------------------------------------------------------------------------
(* Refinement. *)

\* The body grows by the next unit of the file.
LEMMA BodyGrows ==
    ASSUME NEW n \in Nat
    PROVE  /\ Len([i \in 1..n |-> i - 1]) = n
           /\ [i \in 1..(n + 1) |-> i - 1] = Append([i \in 1..n |-> i - 1], n)
<1> DEFINE body == [i \in 1..n |-> i - 1]
<1>1. body \in Seq(Int) /\ Len(body) = n
  OBVIOUS
<1>2. /\ Append(body, n) \in Seq(Int) /\ Len(Append(body, n)) = n + 1
      /\ \A i \in 1..n : Append(body, n)[i] = i - 1
      /\ Append(body, n)[n + 1] = n
  BY <1>1
<1> HIDE DEF body
<1>3. \A i \in 1..(n + 1) : Append(body, n)[i] = i - 1
  BY <1>2
<1>4. Append(body, n) = [i \in 1..(n + 1) |-> Append(body, n)[i]]
  <2> DEFINE longer == Append(body, n)
  <2>1. longer \in Seq(Int) /\ Len(longer) = n + 1
    BY <1>2
  <2> HIDE DEF longer
  <2>2. longer = [i \in 1..Len(longer) |-> longer[i]]
    BY <2>1
  <2> QED
    BY <2>1, <2>2 DEF longer
<1>5. Append(body, n) = [i \in 1..(n + 1) |-> i - 1]
  BY <1>3, <1>4
<1> QED
  BY <1>1, <1>5 DEF body

\* The pipe implements FileDelivery: a unit the download reads is a write, the end of the
\* body is the hand-over, and all else, expiry and a stopped worker included, changes
\* nothing the download has (sw.js with getSWPipe of app.js).
THEOREM ImplementsFileDelivery == Spec => DeliversFile
<1>1. Init => Delivery!Init
  <2> SUFFICES ASSUME Init
               PROVE  Delivery!Init
    OBVIOUS
  <2>1. read = 0 /\ download = "none"
    BY DEF Init
  <2>2. Body = <<>>
    BY <2>1 DEF Body
  <2> QED
    BY <2>1, <2>2, SizesAreNatural DEF Delivery!Init
<1>2. IInv /\ [Next]_vars => [Delivery!Next]_Delivery!vars
  <2> SUFFICES ASSUME IInv, [Next]_vars
               PROVE  Delivery!Next \/ UNCHANGED Delivery!vars
    OBVIOUS
  <2>0. read \in Nat /\ taken \in 0..Size /\ Len(Body) = read /\ Size \in Nat
    BY BodyGrows, SizesAreNatural DEF IInv, TypeOK, Body
  <2>1. CASE Deliver
    <3>1. read' = read + 1 /\ download = "reading" /\ download' = "reading" /\ read < taken
      BY <2>1 DEF Deliver
    <3>2. Body' = Append(Body, read)
      BY <2>0, <3>1, BodyGrows DEF Body
    <3>3. read < Size /\ 0 + Len(Body) = read
      BY <2>0, <3>1
    <3>4. /\ ~(download = "complete") /\ 0 + Len(Body) < Size
          /\ Body' = Append(Body, 0 + Len(Body))
          /\ (download = "complete")' = (download = "complete")
      BY <3>1, <3>2, <3>3
    <3>5. Delivery!Write
      BY <3>4 DEF Delivery!Write
    <3> QED
      BY <3>5 DEF Delivery!Next
  <2>2. CASE Complete
    <3>1. read' = read /\ download' = "complete" /\ read = taken /\ stream = "closing"
      BY <2>2 DEF Complete
    <3>2. 0 + Len(Body) = Size /\ Body' = Body
      BY <2>0, <3>1 DEF IInv, FlowInv, Body
    <3>3. Delivery!Save
      BY <3>1, <3>2 DEF Delivery!Save
    <3> QED
      BY <3>3 DEF Delivery!Next
  <2>3. CASE ~Deliver /\ ~Complete
    <3>1. read' = read /\ (download' = "complete" <=> download = "complete")
      BY <2>3, SizesAreNatural
         DEF IInv, WorkerInv, CauseInv, Served, Requests, Next, NoPipe, PostInit, ConfirmTimesOut,
             UsePipe, RemoveIframe, PageWrites, Post, PostEOF, PageFails, PortStep, InitPort,
             TakeUnit, TakeEOF, Expire, WorkerStops, Answer, FetchServed, Serve, FetchWaits,
             LookFails, AskAgain, Reader, Break, Cancel, vars, readerVars
    <3> QED
      BY <3>1 DEF Body, Delivery!vars
  <2> QED
    BY <2>1, <2>2, <2>3
<1> QED
  BY <1>1, <1>2, Invariance, PTL DEF Spec, DeliversFile, Delivery!Spec

=============================================================================
