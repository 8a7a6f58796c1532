------------------------- MODULE RelayTransferProofs -------------------------
(***************************************************************************)
(* What holds of the relay's download path for every number of receivers   *)
(* and POSTs, every file size and every range a receiver may ask for.      *)
(***************************************************************************)
EXTENDS RelaySession, TLAPS

-----------------------------------------------------------------------------
(* The pipe slots: each method of the session keeps what the slots promise. *)

\* Every open pipe is in a slot, and a slot holds no broken pipe.
PipesInv ==
    /\ Slots!PipesTypeOK
    /\ OpenPipeInSlot
    /\ SlotNotBroken

(***************************************************************************)
(* ClosePipesIfMatch and ClosePipes of Session, and the two ways a pipe    *)
(* changes outside them: a fresh pipe is installed, a writer is closed.    *)
(***************************************************************************)
LEMMA CloseIfMatchKeeps ==
    ASSUME PipesInv, NEW p, Slots!ClosePipesIfMatch(p)
    PROVE  PipesInv'
<1> USE DEF PipesInv, OpenPipeInSlot, SlotNotBroken, Slots!PipesTypeOK,
            Slots!OpenPipeInSlot, Slots!SlotNotBroken, Slots!ClosePipesIfMatch
<1>1. pipe' \in [Slots!Pipes -> {"none", "open", "eof", "broken"}]
  OBVIOUS
<1>2. \A q \in Slots!Pipes : pipe'[q] = IF q = p THEN "broken" ELSE pipe[q]
  OBVIOUS
<1>3. Slots!PipesTypeOK'
  BY <1>1 DEF Slots!Pipes
<1>4. OpenPipeInSlot' /\ SlotNotBroken'
  BY <1>2, NoneIsNoReceiver, SlotsAssumption DEF Slots!Pipes
<1> QED
  BY <1>3, <1>4

\* Session.ClosePipes.
LEMMA CloseAllKeeps ==
    ASSUME PipesInv, Slots!ClosePipes
    PROVE  PipesInv'
BY NoneIsNoReceiver, SlotsAssumption
   DEF PipesInv, OpenPipeInSlot, SlotNotBroken, Slots!PipesTypeOK, Slots!OpenPipeInSlot,
       Slots!SlotNotBroken, Slots!ClosePipes, Slots!Pipes

\* handleDownload installs its pipe and closes the one before it.
LEMMA InstallKeeps ==
    ASSUME PipesInv, NEW d \in Receivers, Slots!InstallDataPipe(d)
    PROVE  PipesInv'
BY NoneIsNoReceiver, SlotsAssumption
   DEF PipesInv, OpenPipeInSlot, SlotNotBroken, Slots!PipesTypeOK, Slots!OpenPipeInSlot,
       Slots!SlotNotBroken, Slots!InstallDataPipe, Slots!Pipes

\* handleUpload does the same in its own slot.
LEMMA InstallUploadKeeps ==
    ASSUME PipesInv, NEW u \in Uploads, Slots!InstallUploadPipe(u)
    PROVE  PipesInv'
BY NoneIsNoReceiver, SlotsAssumption
   DEF PipesInv, OpenPipeInSlot, SlotNotBroken, Slots!PipesTypeOK, Slots!OpenPipeInSlot,
       Slots!SlotNotBroken, Slots!InstallUploadPipe, Slots!Pipes

\* pw.Close() at the end of the body.
LEMMA CloseWriterKeeps ==
    ASSUME PipesInv, NEW p, Slots!CloseWriter(p), UNCHANGED <<dataPipe, uploadPipe>>
    PROVE  PipesInv'
BY DEF PipesInv, OpenPipeInSlot, SlotNotBroken, Slots!PipesTypeOK, Slots!OpenPipeInSlot,
       Slots!SlotNotBroken, Slots!CloseWriter, Slots!Pipes

\* A step that touches no pipe.
LEMMA UntouchedKeeps ==
    ASSUME PipesInv, UNCHANGED slotVars
    PROVE  PipesInv'
BY DEF PipesInv, OpenPipeInSlot, SlotNotBroken, Slots!PipesTypeOK, Slots!OpenPipeInSlot,
       Slots!SlotNotBroken, Slots!Pipes, slotVars

\* A fresh session has no pipe at all (createSession).
LEMMA PipesInitially == Init => PipesInv
BY NoneIsNoReceiver, SlotsAssumption
   DEF Init, Slots!PipesInit, PipesInv, OpenPipeInSlot, SlotNotBroken,
       Slots!PipesTypeOK, Slots!OpenPipeInSlot, Slots!SlotNotBroken, Slots!Pipes

(***************************************************************************)
(* The slots through every step of handleDownload, handleData, their       *)
(* watchers and the expiry of the session.                                 *)
(***************************************************************************)
LEMMA PipesStep == PipesInv /\ [Next]_vars => PipesInv'
<1> SUFFICES ASSUME PipesInv, [Next]_vars
             PROVE  PipesInv'
  OBVIOUS
<1>1. ASSUME NEW d \in Receivers, DownloadStep(d)
      PROVE  PipesInv'
  <2> USE DEF Finish, Deliver
  <2>1. CASE Enqueue(d)
    BY <2>1, UntouchedKeeps DEF Enqueue
  <2>2. CASE Install(d)
    BY <2>2, InstallKeeps DEF Install
  <2>3. CASE NextRead(d)
    BY <2>3, UntouchedKeeps, CloseIfMatchKeeps DEF NextRead
  <2>4. CASE ReadEnds(d)
    BY <2>4, UntouchedKeeps, CloseIfMatchKeeps DEF ReadEnds
  <2>5. CASE Reread(d)
    BY <2>5, UntouchedKeeps, CloseIfMatchKeeps DEF Reread
  <2>6. ASSUME NEW s \in Posts, Copy(s, d)
        PROVE  PipesInv'
    BY <2>6, UntouchedKeeps, CloseIfMatchKeeps DEF Copy
  <2> QED
    BY <1>1, <2>1, <2>2, <2>3, <2>4, <2>5, <2>6 DEF DownloadStep
<1>2. ASSUME NEW d \in Receivers, WatchDownload(d) \/ LoseReceiver(d)
      PROVE  PipesInv'
  BY <1>2, UntouchedKeeps, CloseIfMatchKeeps DEF WatchDownload, LoseReceiver
<1>3. ASSUME NEW s \in Posts, PostStep(s)
      PROVE  PipesInv'
  <2>1. CASE BindPipe(s)
    BY <2>1, UntouchedKeeps DEF BindPipe
  <2>2. CASE Refuse(s)
    BY <2>2, CloseAllKeeps DEF Refuse
  <2>3. CASE CopyDone(s)
    BY <2>3, CloseWriterKeeps DEF CopyDone
  <2>4. CASE CopyFails(s)
    BY <2>4, CloseIfMatchKeeps DEF CopyFails
  <2> QED
    BY <1>3, <2>1, <2>2, <2>3, <2>4 DEF PostStep
<1>4. ASSUME NEW s \in Posts,
             SendPost(s) \/ WatchPost(s) \/ WatchPostFires(s) \/ LosePost(s)
      PROVE  PipesInv'
  BY <1>4, UntouchedKeeps, CloseAllKeeps
     DEF SendPost, WatchPost, WatchPostFires, LosePost
<1>5. CASE TakeCommand \/ Sweep \/ CloseClearsQueue \/ UNCHANGED vars
  BY <1>5, UntouchedKeeps DEF TakeCommand, Sweep, CloseClearsQueue, vars
<1>6. CASE CloseSession
  BY <1>6, CloseAllKeeps DEF CloseSession
<1>7. ASSUME NEW u \in Uploads, UploadHandlerOnPipes(u)
      PROVE  PipesInv'
  BY <1>7, InstallUploadKeeps, CloseWriterKeeps, CloseIfMatchKeeps DEF UploadHandlerOnPipes
<1> QED
  BY <1>1, <1>2, <1>3, <1>4, <1>5, <1>6, <1>7 DEF Next

(***************************************************************************)
(* So the slots keep their promise in every reachable state.               *)
(***************************************************************************)
THEOREM PipesCorrect == Spec => []PipesInv
BY PipesInitially, PipesStep, PTL DEF Spec

(***************************************************************************)
(* No download's pipe is left open where neither a replacement nor the end *)
(* of the session would close it (handleDownload, Session.ClosePipes).     *)
(***************************************************************************)
THEOREM NoPipeOrphaned == Spec => []OpenPipeInSlot
BY PipesCorrect, PTL DEF PipesInv

(***************************************************************************)
(* The slot never offers a pipe closed with an error to the next           *)
(* /relay/data handler.                                                    *)
(***************************************************************************)
THEOREM NoBrokenPipeOffered == Spec => []SlotNotBroken
BY PipesCorrect, PTL DEF PipesInv
-----------------------------------------------------------------------------
(* Type correctness.  Two facts about the sender make it inductive: it     *)
(* goes to work only with a command in hand, and a POST begins with a unit *)
(* of the file still to send.                                              *)

Units == 0..Size-1

SessionTypes ==
    /\ requestedOffset \in Units
    /\ senderOffset \in Units
    /\ registered \in BOOLEAN
    /\ phase \in {"live", "closing", "closed"}

DownloadTypes ==
    /\ req \in [Receivers -> Requests]
    /\ recv \in [Receivers -> {"found", "queued", "done"} \cup Streaming]
    /\ recvGone \in [Receivers -> BOOLEAN]
    /\ initDone \in [Receivers -> BOOLEAN]
    /\ bytesToSkip \in [Receivers -> Units]
    /\ hand \in [Receivers -> Units \cup {None}]
    /\ out \in [Receivers -> Seq(Units)]

SenderTypes ==
    /\ sender \in {"polling", "command", "stopped"} \cup Posts
    /\ command \in Receivers \cup {None}
    /\ sender = "command" => command # None

PostTypes ==
    /\ post \in [Posts -> {"idle", "found", "copying", "notReady", "refused", "done"}]
    /\ postGone \in [Posts -> BOOLEAN]
    /\ watch \in [Posts -> {"armed", "firing", "fired"}]
    /\ postPipe \in [Posts -> Receivers \cup {None}]
    /\ postPos \in [Posts -> 0..Size]
    /\ \A s \in Posts : post[s] = "found" => postPos[s] < Size

TypeInv == QueueTypeOK /\ PipesInv /\ SessionTypes /\ DownloadTypes /\ SenderTypes /\ PostTypes

\* The groups of variables together are what the runs check as TypeOK.
LEMMA TypeInvImpliesTypeOK == TypeInv => TypeOK
BY DEF TypeInv, TypeOK, PipesInv, SessionTypes, DownloadTypes, SenderTypes, PostTypes, Units

(***************************************************************************)
(* A group of variables that a step leaves alone keeps its types.          *)
(***************************************************************************)
LEMMA UnchangedKeepsTypes ==
    /\ QueueTypeOK /\ UNCHANGED queueVars => QueueTypeOK'
    /\ SessionTypes /\ UNCHANGED <<offsetVars, sessionVars>> => SessionTypes'
    /\ DownloadTypes /\ UNCHANGED downloadVars => DownloadTypes'
    /\ SenderTypes /\ UNCHANGED senderVars => SenderTypes'
    /\ PostTypes /\ UNCHANGED postVars => PostTypes'
<1>1. QueueTypeOK /\ UNCHANGED queueVars => QueueTypeOK'
  BY DEF QueueTypeOK, queueVars
<1>2. SessionTypes /\ UNCHANGED <<offsetVars, sessionVars>> => SessionTypes'
  BY DEF SessionTypes, offsetVars, sessionVars
<1>3. DownloadTypes /\ UNCHANGED downloadVars => DownloadTypes'
  BY DEF DownloadTypes, downloadVars
<1>4. SenderTypes /\ UNCHANGED senderVars => SenderTypes'
  BY DEF SenderTypes, senderVars
<1>5. PostTypes /\ UNCHANGED postVars => PostTypes'
  BY DEF PostTypes, postVars
<1> QED
  BY <1>1, <1>2, <1>3, <1>4, <1>5

(***************************************************************************)
(* Delivering a unit of the file leaves a sequence of units.               *)
(***************************************************************************)
LEMMA DeliverTypes ==
    ASSUME out \in [Receivers -> Seq(Units)],
           NEW d \in Receivers, NEW unit \in Units, Deliver(d, unit)
    PROVE  out' \in [Receivers -> Seq(Units)]
<1>1. Append(out[d], unit) \in Seq(Units)
  OBVIOUS
<1> QED
  BY <1>1 DEF Deliver

(***************************************************************************)
(* The handlers keep every variable in its type: offsets and skips stay in *)
(* the file, whichever handler wrote the session's offsets last.           *)
(***************************************************************************)
LEMMA TypeStep == TypeInv /\ [Next]_vars => TypeInv'
<1> SUFFICES ASSUME TypeInv, [Next]_vars
             PROVE  TypeInv'
  OBVIOUS
<1> USE SizeAssumption, RequestsAssumption, PostsAssumption, NoneIsNoReceiver
<1>0. PipesInv'
  BY PipesStep DEF TypeInv
<1>u. QueueTypeOK /\ SessionTypes /\ DownloadTypes /\ SenderTypes /\ PostTypes
  BY DEF TypeInv
<1>1. ASSUME NEW d \in Receivers, Enqueue(d)
      PROVE  TypeInv'
  <2>1. QueueTypeOK'
    BY <1>1, <1>u DEF Enqueue, EnqueueDownload, QueueTypeOK
  <2>2. DownloadTypes'
    BY <1>1, <1>u DEF Enqueue, At, DownloadTypes
  <2> QED
    BY <1>0, <1>1, <1>u, <2>1, <2>2, UnchangedKeepsTypes DEF Enqueue, TypeInv
<1>2. ASSUME NEW d \in Receivers, Install(d)
      PROVE  TypeInv'
  <2>1. SessionTypes'
    BY <1>2, <1>u DEF Install, SessionTypes, DownloadTypes, Units, sessionVars
  <2>2. DownloadTypes'
    BY <1>2, <1>u DEF Install, At, DownloadTypes, Streaming
  <2> QED
    BY <1>0, <1>2, <1>u, <2>1, <2>2, UnchangedKeepsTypes DEF Install, TypeInv
<1>3. ASSUME NEW d \in Receivers, NextRead(d)
      PROVE  TypeInv'
  <2>1. DownloadTypes'
    BY <1>3, <1>u DEF NextRead, Finish, At, DownloadTypes, Streaming
  <2> QED
    BY <1>0, <1>3, <1>u, <2>1, UnchangedKeepsTypes DEF NextRead, TypeInv
<1>4. ASSUME NEW d \in Receivers, ReadEnds(d)
      PROVE  TypeInv'
  <2>1. DownloadTypes'
    BY <1>4, <1>u DEF ReadEnds, Finish, At, DownloadTypes, Streaming
  <2> QED
    BY <1>0, <1>4, <1>u, <2>1, UnchangedKeepsTypes DEF ReadEnds, TypeInv
<1>5. ASSUME NEW d \in Receivers, Reread(d)
      PROVE  TypeInv'
  <2> DEFINE skip == requestedOffset - senderOffset
  <2>0. skip \in Int /\ skip < Size
    BY <1>u DEF SessionTypes, Units
  <2>1. /\ initDone' \in [Receivers -> BOOLEAN]
        /\ hand' \in [Receivers -> Units \cup {None}]
        /\ req' = req /\ recvGone' = recvGone
    BY <1>5, <1>u DEF Reread, DownloadTypes
  <2>2. bytesToSkip' \in [Receivers -> Units]
    <3>1. skip > 0 => skip - 1 \in Units
      BY <2>0 DEF Units
    <3>2. \/ bytesToSkip' = bytesToSkip
          \/ skip > 0 /\ bytesToSkip' = [bytesToSkip EXCEPT ![d] = skip - 1]
      BY <1>5 DEF Reread
    <3> QED
      BY <1>u, <3>1, <3>2 DEF DownloadTypes
  <2>3. recv' \in [Receivers -> {"found", "queued", "done"} \cup Streaming]
    BY <1>5, <1>u DEF Reread, Finish, Deliver, At, DownloadTypes, Streaming
  <2>4. out' \in [Receivers -> Seq(Units)]
    <3>1. hand[d] # None => hand[d] \in Units
      BY <1>u DEF DownloadTypes
    <3>2. \/ out' = out
          \/ hand[d] # None /\ Deliver(d, hand[d])
      BY <1>5 DEF Reread
    <3> QED
      BY <1>u, <3>1, <3>2, DeliverTypes DEF DownloadTypes
  <2>5. DownloadTypes'
    BY <1>u, <2>1, <2>2, <2>3, <2>4 DEF DownloadTypes
  <2> QED
    BY <1>0, <1>5, <1>u, <2>5, UnchangedKeepsTypes DEF Reread, TypeInv
<1>6. ASSUME NEW s \in Posts, NEW d \in Receivers, Copy(s, d)
      PROVE  TypeInv'
  <2>0. postPos[s] \in Units
    BY <1>6, <1>u DEF Copy, PostTypes, Units
  <2>1. /\ hand' \in [Receivers -> Units \cup {None}]
        /\ bytesToSkip' \in [Receivers -> Units]
        /\ initDone' = initDone /\ req' = req /\ recvGone' = recvGone
    <3>1. bytesToSkip[d] > 0 => bytesToSkip[d] - 1 \in Units
      BY <1>u DEF DownloadTypes, Units
    <3>2. \/ bytesToSkip' = bytesToSkip
          \/ /\ bytesToSkip[d] > 0
             /\ bytesToSkip' = [bytesToSkip EXCEPT ![d] = bytesToSkip[d] - 1]
      BY <1>6 DEF Copy
    <3>3. bytesToSkip' \in [Receivers -> Units]
      BY <1>u, <3>1, <3>2 DEF DownloadTypes
    <3>4. \/ hand' = hand
          \/ hand' = [hand EXCEPT ![d] = postPos[s]]
      BY <1>6 DEF Copy
    <3>5. hand' \in [Receivers -> Units \cup {None}]
      BY <1>u, <2>0, <3>4 DEF DownloadTypes
    <3> QED
      BY <1>6, <3>3, <3>5 DEF Copy
  <2>2. recv' \in [Receivers -> {"found", "queued", "done"} \cup Streaming]
    BY <1>6, <1>u DEF Copy, Finish, Deliver, At, DownloadTypes, Streaming
  <2>3. out' \in [Receivers -> Seq(Units)]
    BY <1>6, <1>u, <2>0, DeliverTypes DEF Copy, DownloadTypes
  <2>4. DownloadTypes'
    BY <1>u, <2>1, <2>2, <2>3 DEF DownloadTypes
  <2>5. PostTypes'
    BY <1>6, <1>u, <2>0 DEF Copy, PostTypes, Units
  <2> QED
    BY <1>0, <1>6, <1>u, <2>4, <2>5, UnchangedKeepsTypes DEF Copy, TypeInv
<1>7. ASSUME NEW d \in Receivers, WatchDownload(d) \/ LoseReceiver(d)
      PROVE  TypeInv'
  <2>1. DownloadTypes'
    BY <1>7, <1>u DEF WatchDownload, LoseReceiver, downloadVars, DownloadTypes
  <2> QED
    BY <1>0, <1>7, <1>u, <2>1, UnchangedKeepsTypes DEF WatchDownload, LoseReceiver, TypeInv
<1>8. CASE TakeCommand
  <2>1. QueueTypeOK' /\ SenderTypes'
    BY <1>8, <1>u DEF TakeCommand, DequeueDownload, QueueTypeOK, SenderTypes
  <2> QED
    BY <1>0, <1>8, <1>u, <2>1, UnchangedKeepsTypes DEF TakeCommand, TypeInv
<1>9. ASSUME NEW s \in Posts, SendPost(s)
      PROVE  TypeInv'
  <2>1. (IF SenderSeeks THEN req[command].start ELSE 0) \in Units
    BY <1>9, <1>u DEF SendPost, SenderTypes, DownloadTypes, Units
  <2>2. PostTypes'
    BY <1>9, <1>u, <2>1 DEF SendPost, PostTypes, Units
  <2>3. SenderTypes'
    BY <1>9, <1>u DEF SendPost, SenderTypes, Idle
  <2> QED
    BY <1>0, <1>9, <1>u, <2>2, <2>3, UnchangedKeepsTypes DEF SendPost, TypeInv
<1>10. ASSUME NEW s \in Posts, NEW label \in {"notReady", "done"}, Return(s, label),
              command' = command, watch' = watch
       PROVE  SenderTypes' /\ PostTypes'
  <2>1. SenderTypes'
    BY <1>10, <1>u DEF Return, Idle, SenderTypes
  <2>2. PostTypes'
    BY <1>10, <1>u DEF Return, PostTypes
  <2> QED
    BY <2>1, <2>2
<1>11. ASSUME NEW s \in Posts, BindPipe(s)
       PROVE  TypeInv'
  <2>1. SessionTypes'
    BY <1>11, <1>u DEF BindPipe, SessionTypes, PostTypes, sessionVars, Units
  <2>2. CASE dataPipe = None
    BY <1>0, <1>10, <1>11, <1>u, <2>1, <2>2, UnchangedKeepsTypes DEF BindPipe, TypeInv
  <2>3. CASE dataPipe # None
    <3>1. dataPipe \in Receivers
      BY <2>3 DEF TypeInv, PipesInv, Slots!PipesTypeOK
    <3>2. PostTypes'
      BY <1>11, <1>u, <2>3, <3>1 DEF BindPipe, PostTypes
    <3>3. UNCHANGED senderVars
      BY <1>11, <2>3 DEF BindPipe, senderVars
    <3> QED
      BY <1>0, <1>11, <1>u, <2>1, <3>2, <3>3, UnchangedKeepsTypes DEF BindPipe, TypeInv
  <2> QED
    BY <2>2, <2>3
<1>12. ASSUME NEW s \in Posts, Refuse(s) \/ CopyDone(s) \/ CopyFails(s)
       PROVE  TypeInv'
  BY <1>0, <1>10, <1>12, <1>u, UnchangedKeepsTypes DEF Refuse, CopyDone, CopyFails, TypeInv
<1>13. ASSUME NEW s \in Posts, WatchPost(s) \/ WatchPostFires(s) \/ LosePost(s)
       PROVE  TypeInv'
  <2>1. PostTypes'
    BY <1>13, <1>u DEF WatchPost, WatchPostFires, LosePost, PostTypes
  <2>2. SenderTypes'
    BY <1>13, <1>u DEF WatchPost, WatchPostFires, LosePost, SenderTypes, senderVars, Idle
  <2> QED
    BY <1>0, <1>13, <1>u, <2>1, <2>2, UnchangedKeepsTypes
       DEF WatchPost, WatchPostFires, LosePost, TypeInv
<1>14. CASE Sweep \/ CloseSession \/ CloseClearsQueue
  <2>1. QueueTypeOK'
    BY <1>14, <1>u DEF Sweep, CloseSession, CloseClearsQueue, ClearDownloadQueue,
                       QueueTypeOK, queueVars
  <2>2. SessionTypes'
    BY <1>14, <1>u DEF Sweep, CloseSession, CloseClearsQueue, SessionTypes, offsetVars
  <2> QED
    BY <1>0, <1>14, <1>u, <2>1, <2>2, UnchangedKeepsTypes
       DEF Sweep, CloseSession, CloseClearsQueue, TypeInv
<1>15. CASE UNCHANGED vars
  BY <1>0, <1>15, <1>u, UnchangedKeepsTypes DEF vars, TypeInv
<1>16. ASSUME NEW u \in Uploads, UploadHandlerOnPipes(u)
       PROVE  TypeInv'
  BY <1>0, <1>16, <1>u, UnchangedKeepsTypes DEF UploadHandlerOnPipes, TypeInv
<1> QED
  BY <1>1, <1>2, <1>3, <1>4, <1>5, <1>6, <1>7, <1>8, <1>9, <1>11, <1>12, <1>13, <1>14, <1>15,
     <1>16
     DEF Next, DownloadStep, PostStep

\* A fresh session, and handlers that have just found it, are well typed.
LEMMA TypeInitially == Init => TypeInv
<1>1. Init => QueueTypeOK /\ SessionTypes /\ DownloadTypes /\ SenderTypes /\ PostTypes
  <2> SUFFICES ASSUME Init
               PROVE  QueueTypeOK /\ SessionTypes /\ DownloadTypes /\ SenderTypes /\ PostTypes
    OBVIOUS
  <2>0. QueueTypeOK
    BY DEF Init, QueueInit, QueueTypeOK
  <2>1. SessionTypes
    BY SizeAssumption DEF Init, SessionTypes, Units
  <2>2. DownloadTypes
    BY SizeAssumption DEF Init, DownloadTypes, Units
  <2>3. SenderTypes /\ PostTypes
    BY SizeAssumption DEF Init, SenderTypes, PostTypes
  <2> QED
    BY <2>0, <2>1, <2>2, <2>3
<1> QED
  BY <1>1, PipesInitially DEF TypeInv

(***************************************************************************)
(* Type correctness of the download path, for every number of handlers and *)
(* every file (handleDownload, seekingReader.Read, handleData).            *)
(***************************************************************************)
THEOREM TypeCorrect == Spec => []TypeOK
BY TypeInitially, TypeStep, TypeInvImpliesTypeOK, PTL DEF Spec

-----------------------------------------------------------------------------
(* What a receiver that has the relay's session to itself is given: the    *)
(* bytes it asked for, from any file, at any offset, whether the sender    *)
(* seeks or sends the whole file, and whatever connection breaks.  Two     *)
(* receivers void the argument at OwnOffsets (run transfer_corruption).    *)

\* The receiver's request is in one place at a time: asked for, in the queue,
\* with the sender, or with a single POST.
OneRequest(d) ==
    /\ recv[d] = "found" => pending = None
    /\ recv[d] = "found" \/ pending # None => sender # "command"
    /\ recv[d] = "found" \/ pending # None \/ sender = "command"
           => \A s \in Posts : post[s] = "idle"
    /\ \A s, t \in Posts : post[s] # "idle" /\ post[t] # "idle" => s = t

\* The offsets of the session are the receiver's own once its pipe is there.
OwnOffsets(d) ==
    /\ recv[d] \in {"found", "queued"} =>
          /\ dataPipe = None
          /\ \A s \in Posts : post[s] # "copying"
    /\ recv[d] \in Streaming => requestedOffset = req[d].start

\* Once a unit has come through, the POST that sent it was the only one.
Served(d) ==
    (recv[d] = "reread" /\ hand[d] # None) \/ (recv[d] \in Streaming /\ initDone[d])
        => /\ pending = None
           /\ sender # "command"
           /\ \A s \in Posts : post[s] # "found"

\* What is still to come continues what was delivered.
Aligned(d) ==
    /\ recv[d] # "done" /\ ~initDone[d] => out[d] = <<>> /\ bytesToSkip[d] = 0
    /\ recv[d] \in {"found", "queued"} => ~initDone[d]
    /\ recv[d] \in {"first", "reread"} => ~initDone[d]
    /\ recv[d] = "reading" => initDone[d]
    /\ recv[d] = "reread" /\ hand[d] # None => hand[d] = senderOffset
    /\ \A s \in Posts : post[s] = "copying" /\ recv[d] \in Streaming =>
          /\ postPipe[s] = d
          /\ initDone[d] =>
                postPos[s] + bytesToSkip[d] = req[d].start + Len(out[d])
          /\ recv[d] = "reread" /\ hand[d] # None => postPos[s] = senderOffset + 1
          /\ recv[d] \in {"top", "first"} /\ ~initDone[d] => postPos[s] = senderOffset

LoneInv(d) == OneRequest(d) /\ OwnOffsets(d) /\ Served(d) /\ Aligned(d) /\ InOrder(d)

\* The handlers of the upload path leave the pipe of a download, and its slot, alone.
LEMMA UploadLeavesDownload ==
    ASSUME PipesInv, NEW u \in Uploads, UploadHandlerOnPipes(u)
    PROVE  dataPipe' = dataPipe /\ \A d \in Receivers : pipe'[d] = pipe[d]
<1>1. u \notin Receivers /\ dataPipe # u
  BY SlotsAssumption DEF PipesInv, Slots!PipesTypeOK
<1>2. \A d \in Receivers : d \in Slots!Pipes /\ d # uploadPipe
  BY SlotsAssumption, NoneIsNoReceiver DEF PipesInv, Slots!PipesTypeOK, Slots!Pipes
<1>3. pipe \in [Slots!Pipes -> {"none", "open", "eof", "broken"}]
  BY DEF PipesInv, Slots!PipesTypeOK
<1>4. CASE Slots!InstallUploadPipe(u)
  BY <1>1, <1>2, <1>4 DEF Slots!InstallUploadPipe
<1>5. CASE Slots!CloseWriter(u) /\ UNCHANGED <<dataPipe, uploadPipe>>
  BY <1>1, <1>2, <1>3, <1>5 DEF Slots!CloseWriter
<1>6. CASE Slots!ClosePipesIfMatch(u)
  BY <1>1, <1>2, <1>3, <1>6 DEF Slots!ClosePipesIfMatch
<1> QED
  BY <1>4, <1>5, <1>6 DEF UploadHandlerOnPipes

\* A unit that continues what the receiver has leaves it in order.
LEMMA NextInOrder ==
    ASSUME NEW d \in Receivers, out \in [Receivers -> Seq(Units)], req[d].start \in Nat,
           InOrder(d), NEW unit, unit = req[d].start + Len(out[d]),
           out' = [out EXCEPT ![d] = Append(@, unit)], req' = req
    PROVE  InOrder(d)' /\ Len(out'[d]) = Len(out[d]) + 1
<1>1. out'[d] = Append(out[d], unit) /\ out[d] \in Seq(Units)
  OBVIOUS
<1>2. /\ Len(out'[d]) = Len(out[d]) + 1 /\ Len(out[d]) \in Nat
      /\ DOMAIN out'[d] = 1..Len(out[d]) + 1
      /\ \A i \in 1..Len(out[d]) : out'[d][i] = out[d][i]
      /\ out'[d][Len(out[d]) + 1] = unit
  BY <1>1
<1>3. \A i \in 1..Len(out[d]) : out[d][i] = req[d].start + i - 1
  BY <1>1 DEF InOrder
<1>4. ASSUME NEW i \in 1..Len(out[d]) + 1
      PROVE  out'[d][i] = req[d].start + i - 1
  <2>1. CASE i \in 1..Len(out[d])
    BY <1>2, <1>3, <2>1
  <2>2. CASE i = Len(out[d]) + 1
    BY <1>2, <2>2
  <2> QED
    BY <1>2, <2>1, <2>2
<1> QED
  BY <1>2, <1>4 DEF InOrder

(***************************************************************************)
(* Every step of the handlers, the sender and the sweep keeps the argument *)
(* for a receiver alone in the session.                                    *)
(***************************************************************************)
LEMMA LoneStep ==
    ASSUME NEW d, Receivers = {d}, TypeInv, LoneInv(d), [Next]_vars
    PROVE  LoneInv(d)'
<1> USE NoneIsNoReceiver, SizeAssumption
<1> d \in Receivers
  OBVIOUS
<1>0. /\ recv \in [Receivers -> {"found", "queued", "done"} \cup Streaming]
      /\ initDone \in [Receivers -> BOOLEAN]
      /\ bytesToSkip \in [Receivers -> Nat]
      /\ hand \in [Receivers -> Units \cup {None}]
      /\ out \in [Receivers -> Seq(Units)]
      /\ post \in [Posts -> {"idle", "found", "copying", "notReady", "refused", "done"}]
      /\ postPos \in [Posts -> Nat]
      /\ postPipe \in [Posts -> Receivers \cup {None}]
      /\ dataPipe \in Receivers \cup {None}
      /\ requestedOffset \in Nat /\ senderOffset \in Nat
      /\ req[d].start \in Nat
  BY RequestsAssumption
     DEF TypeInv, DownloadTypes, PostTypes, SessionTypes, Units, PipesInv, Slots!PipesTypeOK
<1>u. OneRequest(d) /\ OwnOffsets(d) /\ Served(d) /\ Aligned(d) /\ InOrder(d)
  BY DEF LoneInv
<1>1. CASE Enqueue(d)
  <2>1. recv'[d] = "queued" /\ recv[d] = "found"
    BY <1>0, <1>1 DEF Enqueue, At
  <2>2. OneRequest(d)'
    BY <1>1, <1>u, <2>1 DEF Enqueue, OneRequest, senderVars, postVars
  <2>3. OwnOffsets(d)' /\ Served(d)' /\ Aligned(d)' /\ InOrder(d)'
    BY <1>1, <1>u, <2>1
       DEF Enqueue, OwnOffsets, Served, Aligned, InOrder, Streaming, slotVars, postVars
  <2> QED
    BY <2>2, <2>3 DEF LoneInv
<1>2. CASE Install(d)
  <2>1. recv'[d] = "top" /\ recv[d] = "queued"
    BY <1>0, <1>2 DEF Install, At
  <2>2. requestedOffset' = req[d].start /\ req' = req
    BY <1>2 DEF Install
  <2>3. OneRequest(d)' /\ OwnOffsets(d)' /\ Served(d)'
    BY <1>2, <1>u, <2>1, <2>2
       DEF Install, OneRequest, OwnOffsets, Served, Aligned, Streaming, senderVars, postVars,
           queueVars
  <2>4. Aligned(d)' /\ InOrder(d)'
    BY <1>2, <1>u, <2>1, <2>2 DEF Install, OwnOffsets, Aligned, InOrder, Streaming, postVars
  <2> QED
    BY <2>3, <2>4 DEF LoneInv
(* The reader's steps that leave the queue, the sender and the POSTs alone.  *)
<1>f. ASSUME UNCHANGED <<queueVars, offsetVars, senderVars, postVars, req>>,
             recv'[d] # "found", recv'[d] # "queued",
             recv'[d] \in Streaming => recv[d] \in Streaming
      PROVE  OneRequest(d)' /\ OwnOffsets(d)'
  BY <1>f, <1>u
     DEF OneRequest, OwnOffsets, queueVars, offsetVars, senderVars, postVars
<1>g. ASSUME Finish(d), out' = out, UNCHANGED <<queueVars, offsetVars, senderVars, postVars, req>>
      PROVE  LoneInv(d)'
  <2>1. recv'[d] = "done"
    BY <1>0, <1>g DEF Finish, At
  <2>2. OneRequest(d)' /\ OwnOffsets(d)'
    BY <1>f, <1>g, <2>1 DEF Streaming
  <2>3. Served(d)' /\ Aligned(d)' /\ InOrder(d)'
    BY <1>g, <1>u, <2>1 DEF Served, Aligned, InOrder, Streaming
  <2> QED
    BY <2>2, <2>3 DEF LoneInv
<1>3. CASE NextRead(d)
  <2>1. CASE Finish(d)
    BY <1>3, <1>g, <2>1 DEF NextRead
  <2>2. CASE ~Finish(d)
    <3>1. recv[d] = "top" /\ recv'[d] = IF initDone[d] THEN "reading" ELSE "first"
      BY <1>0, <1>3, <2>2 DEF NextRead, At
    <3>2. OneRequest(d)' /\ OwnOffsets(d)'
      BY <1>3, <1>f, <3>1 DEF NextRead, Streaming
    <3>3. Served(d)' /\ Aligned(d)' /\ InOrder(d)'
      BY <1>3, <1>u, <3>1 DEF NextRead, Served, Aligned, InOrder, Streaming, queueVars,
                             offsetVars, senderVars, postVars
    <3> QED
      BY <3>2, <3>3 DEF LoneInv
  <2> QED
    BY <2>1, <2>2
<1>4. CASE ReadEnds(d)
  <2>1. CASE recv[d] = "reading"
    BY <1>4, <1>g, <2>1 DEF ReadEnds
  <2>2. CASE recv[d] = "first"
    <3>1. recv'[d] = "reread" /\ hand'[d] = None
      BY <1>0, <1>4, <2>2 DEF ReadEnds, At
    <3>2. OneRequest(d)' /\ OwnOffsets(d)'
      BY <1>4, <1>f, <2>2, <3>1 DEF ReadEnds, Streaming
    <3>3. ~initDone[d] /\ initDone' = initDone /\ out' = out /\ bytesToSkip' = bytesToSkip
      BY <1>4, <1>u, <2>2 DEF ReadEnds, Aligned
    <3>4. Served(d)' /\ Aligned(d)' /\ InOrder(d)'
      BY <1>4, <1>u, <2>2, <3>1, <3>3
         DEF ReadEnds, Served, Aligned, InOrder, Streaming, queueVars,
             offsetVars, senderVars, postVars
    <3> QED
      BY <3>2, <3>4 DEF LoneInv
  <2> QED
    BY <1>4, <2>1, <2>2 DEF ReadEnds
(* A unit is delivered that continues what the receiver has.               *)
<1>h. ASSUME NEW unit \in Nat, out' = [out EXCEPT ![d] = Append(@, unit)],
             unit = req[d].start + Len(out[d]), req' = req
      PROVE  InOrder(d)' /\ Len(out'[d]) = Len(out[d]) + 1
  BY <1>0, <1>h, <1>u, NextInOrder
<1>5. CASE Reread(d)
  <2> DEFINE skip == requestedOffset - senderOffset
  <2>0. /\ recv[d] = "reread" /\ recv[d] \in Streaming /\ ~initDone[d]
        /\ initDone'[d] /\ out[d] = <<>> /\ bytesToSkip[d] = 0
        /\ requestedOffset = req[d].start
        /\ UNCHANGED <<queueVars, offsetVars, senderVars, postVars, req>>
    BY <1>0, <1>5, <1>u DEF Reread, Aligned, OwnOffsets, Streaming
  <2>1. CASE Finish(d) /\ out' = out
    BY <1>g, <2>0, <2>1
  <2>2. CASE /\ hand[d] # None /\ skip > 0 /\ At(d, "top") /\ out' = out
             /\ bytesToSkip' = [bytesToSkip EXCEPT ![d] = skip - 1]
    <3>1. recv'[d] = "top" /\ bytesToSkip'[d] = skip - 1
      BY <1>0, <2>2 DEF At
    <3>2. OneRequest(d)' /\ OwnOffsets(d)'
      BY <1>f, <2>0, <3>1 DEF Streaming
    <3>3. Served(d)'
      BY <1>u, <2>0, <2>2 DEF Served, queueVars, senderVars, postVars
    <3>4. \A s \in Posts : post[s] = "copying" => postPipe[s] = d /\ postPos[s] = senderOffset + 1
      BY <1>u, <2>0, <2>2 DEF Aligned
    <3>5. Aligned(d)'
      <4>1. out'[d] = <<>> /\ req'[d] = req[d] /\ initDone'[d]
        BY <2>0, <2>2
      <4>2. ASSUME NEW s \in Posts, post'[s] = "copying"
            PROVE  postPipe'[s] = d /\ postPos'[s] + bytesToSkip'[d] = req[d].start + 0
        <5>1. postPipe'[s] = d /\ postPos'[s] = senderOffset + 1
          BY <2>0, <3>4, <4>2 DEF postVars
        <5>2. bytesToSkip'[d] = req[d].start - senderOffset - 1
          BY <2>0, <3>1
        <5>3. senderOffset \in Int /\ req[d].start \in Int
          BY <1>0
        <5> HIDE DEF skip
        <5> QED
          BY <5>1, <5>2, <5>3
      <4>3. Len(out'[d]) = 0
        BY <4>1
      <4> QED
        BY <3>1, <4>1, <4>2, <4>3 DEF Aligned
    <3>6. InOrder(d)'
      BY <1>u, <2>0, <2>2 DEF InOrder
    <3> QED
      BY <3>2, <3>3, <3>5, <3>6 DEF LoneInv
  <2>3. CASE /\ hand[d] # None /\ skip = 0 /\ At(d, "top") /\ bytesToSkip' = bytesToSkip
             /\ out' = [out EXCEPT ![d] = Append(@, hand[d])]
    <3>1. recv'[d] = "top" /\ hand[d] = senderOffset /\ hand[d] \in Nat
      BY <1>0, <1>u, <2>0, <2>3 DEF At, Aligned
    <3>2. hand[d] = req[d].start + Len(out[d])
      BY <1>0, <2>0, <2>3, <3>1
    <3>3. InOrder(d)' /\ Len(out'[d]) = 1
      <4>1. Len(out[d]) = 0
        BY <2>0
      <4>2. InOrder(d)' /\ Len(out'[d]) = Len(out[d]) + 1
        BY <1>h, <2>0, <2>3, <3>1, <3>2
      <4> QED
        BY <4>1, <4>2
    <3>4. OneRequest(d)' /\ OwnOffsets(d)'
      BY <1>f, <2>0, <3>1 DEF Streaming
    <3>5. Served(d)'
      BY <1>u, <2>0, <2>3 DEF Served, queueVars, senderVars, postVars
    <3>6. \A s \in Posts : post[s] = "copying" => postPipe[s] = d /\ postPos[s] = senderOffset + 1
      BY <1>u, <2>0, <2>3 DEF Aligned
    <3>7. Aligned(d)'
      <4>1. req'[d] = req[d] /\ initDone'[d] /\ bytesToSkip'[d] = 0
        BY <2>0, <2>3
      <4>2. ASSUME NEW s \in Posts, post'[s] = "copying"
            PROVE  postPipe'[s] = d /\ postPos'[s] + bytesToSkip'[d] = req[d].start + 1
        BY <1>0, <2>0, <2>3, <3>6, <4>1, <4>2 DEF postVars
      <4> QED
        BY <3>1, <3>3, <4>1, <4>2 DEF Aligned
    <3> QED
      BY <3>3, <3>4, <3>5, <3>7 DEF LoneInv
  <2>4. skip < 0 \/ skip = 0 \/ skip > 0
    BY <1>0
  <2> QED
    BY <1>5, <2>1, <2>2, <2>3, <2>4 DEF Reread, Deliver
<1>6. ASSUME NEW s \in Posts, Copy(s, d)
      PROVE  LoneInv(d)'
  <2>0. /\ post[s] = "copying" /\ post' = post /\ postPipe' = postPipe
        /\ postPos' = [postPos EXCEPT ![s] = postPos[s] + 1]
        /\ recv[d] \in {"first", "reading"} /\ recv[d] \in Streaming
        /\ initDone' = initDone
        /\ UNCHANGED <<queueVars, offsetVars, senderVars, req>>
    BY <1>6 DEF Copy, Streaming
  <2>1. /\ \A t \in Posts : post[t] = "copying" => t = s
        /\ pending = None /\ sender # "command"
        /\ \A t \in Posts : post[t] # "found"
    BY <1>u, <2>0 DEF OneRequest
  <2>2. ASSUME recv'[d] \in {"top", "reread", "done"}
        PROVE  OneRequest(d)' /\ OwnOffsets(d)' /\ Served(d)'
    BY <1>u, <2>0, <2>1, <2>2
       DEF OneRequest, OwnOffsets, Served, queueVars, offsetVars, senderVars
  <2>3. postPos'[s] = postPos[s] + 1 /\ postPos[s] \in Nat
    BY <1>0, <2>0
  <2>4. CASE Finish(d) /\ out' = out
    <3>1. recv'[d] = "done"
      BY <1>0, <2>4 DEF Finish, At
    <3>2. Aligned(d)' /\ InOrder(d)'
      BY <1>u, <2>0, <2>4, <3>1 DEF Aligned, InOrder, Streaming
    <3> QED
      BY <2>2, <3>1, <3>2 DEF LoneInv
  <2>5. CASE /\ recv[d] = "first" /\ At(d, "reread")
             /\ hand' = [hand EXCEPT ![d] = postPos[s]]
             /\ UNCHANGED <<bytesToSkip, out>>
    <3>1. recv'[d] = "reread" /\ hand'[d] = postPos[s]
      BY <1>0, <2>5 DEF At
    <3>2. ~initDone[d] /\ out[d] = <<>> /\ bytesToSkip[d] = 0
          /\ postPipe[s] = d /\ postPos[s] = senderOffset
      BY <1>u, <2>0, <2>5 DEF Aligned
    <3>3. Aligned(d)' /\ InOrder(d)'
      BY <1>u, <2>0, <2>1, <2>3, <2>5, <3>1, <3>2 DEF Aligned, InOrder, offsetVars
    <3> QED
      BY <2>2, <3>1, <3>3 DEF LoneInv
  <2>6. CASE /\ recv[d] = "reading" /\ bytesToSkip[d] > 0 /\ At(d, "top")
             /\ bytesToSkip' = [bytesToSkip EXCEPT ![d] = bytesToSkip[d] - 1]
             /\ out' = out
    <3>1. recv'[d] = "top" /\ bytesToSkip'[d] = bytesToSkip[d] - 1 /\ bytesToSkip[d] \in Nat
      BY <1>0, <2>6 DEF At
    <3>2. initDone[d] /\ postPipe[s] = d
          /\ postPos[s] + bytesToSkip[d] = req[d].start + Len(out[d])
      BY <1>u, <2>0, <2>6 DEF Aligned
    <3>3. postPos'[s] + bytesToSkip'[d] = req[d].start + Len(out[d])
      BY <2>3, <3>1, <3>2
    <3>4. Aligned(d)' /\ InOrder(d)'
      BY <1>u, <2>0, <2>1, <2>6, <3>1, <3>2, <3>3 DEF Aligned, InOrder
    <3> QED
      BY <2>2, <3>1, <3>4 DEF LoneInv
  <2>7. CASE /\ recv[d] = "reading" /\ bytesToSkip[d] = 0 /\ At(d, "top")
             /\ bytesToSkip' = bytesToSkip
             /\ out' = [out EXCEPT ![d] = Append(@, postPos[s])]
    <3>1. recv'[d] = "top"
      BY <1>0, <2>7 DEF At
    <3>2. /\ initDone[d] /\ postPipe[s] = d
          /\ postPos[s] + 0 = req[d].start + Len(out[d])
      BY <1>u, <2>0, <2>7 DEF Aligned
    <3>3. InOrder(d)' /\ Len(out'[d]) = Len(out[d]) + 1
      <4>1. postPos[s] = req[d].start + Len(out[d])
        BY <2>3, <3>2
      <4> QED
        BY <1>h, <2>0, <2>3, <2>7, <4>1
    <3>4. Len(out[d]) \in Nat /\ req[d].start \in Nat
      BY <1>0
    <3>5. postPos'[s] + bytesToSkip'[d] = req[d].start + Len(out'[d])
      <4>1. bytesToSkip'[d] = 0
        BY <2>7
      <4> QED
        BY <2>3, <3>2, <3>3, <3>4, <4>1
    <3>6. Aligned(d)'
      BY <2>0, <2>1, <3>1, <3>2, <3>5 DEF Aligned
    <3> QED
      BY <2>2, <3>1, <3>3, <3>6 DEF LoneInv
  <2> QED
    BY <1>6, <2>4, <2>5, <2>6, <2>7 DEF Copy, Deliver
<1>7. CASE WatchDownload(d) \/ LoseReceiver(d)
  <2>1. /\ UNCHANGED <<queueVars, offsetVars, senderVars, postVars, req, recv, initDone,
                       bytesToSkip, hand, out>>
        /\ recv[d] \in Streaming
    BY <1>7 DEF WatchDownload, LoseReceiver, downloadVars
  <2>2. OneRequest(d)' /\ OwnOffsets(d)'
    BY <1>f, <2>1 DEF Streaming
  <2>3. Served(d)' /\ Aligned(d)' /\ InOrder(d)'
    BY <1>u, <2>1 DEF Served, Aligned, InOrder, queueVars, offsetVars, senderVars, postVars
  <2> QED
    BY <2>2, <2>3 DEF LoneInv
(* Steps that leave the reader and the offsets alone, and start no copying. *)
<1>k. ASSUME UNCHANGED <<offsetVars, downloadVars>>,
             dataPipe' = dataPipe \/ dataPipe' = None,
             \A s \in Posts : post'[s] = "copying" =>
                 /\ post[s] = "copying"
                 /\ postPipe'[s] = postPipe[s]
                 /\ postPos'[s] = postPos[s]
      PROVE  OwnOffsets(d)' /\ Aligned(d)' /\ InOrder(d)'
  BY <1>k, <1>u DEF OwnOffsets, Aligned, InOrder, offsetVars, downloadVars
<1>8. CASE TakeCommand
  <2>1. pending # None /\ pending' = None /\ sender' = "command"
    BY <1>8 DEF TakeCommand, DequeueDownload
  <2>2. UNCHANGED <<slotVars, offsetVars, downloadVars, postVars>>
    BY <1>8 DEF TakeCommand
  <2>3. OneRequest(d)'
    BY <1>u, <2>1, <2>2 DEF OneRequest, downloadVars, postVars
  <2>4. Served(d)'
    BY <1>u, <2>1, <2>2 DEF Served, downloadVars
  <2> QED
    BY <1>k, <2>2, <2>3, <2>4 DEF LoneInv, slotVars, postVars
<1>9. ASSUME NEW s \in Posts, SendPost(s)
      PROVE  LoneInv(d)'
  <2>1. /\ sender = "command" /\ sender' # "command"
        /\ post'[s] # "copying"
        /\ \A t \in Posts : t # s => post'[t] = post[t]
        /\ UNCHANGED <<queueVars, slotVars, offsetVars, downloadVars>>
    BY <1>0, <1>9, PostsAssumption DEF SendPost, Idle
  <2>2. recv[d] # "found" /\ pending = None /\ \A t \in Posts : post[t] = "idle"
    BY <1>u, <2>1 DEF OneRequest
  <2>3. OneRequest(d)'
    BY <1>0, <2>1, <2>2 DEF OneRequest, downloadVars, queueVars
  <2>4. Served(d)'
    BY <1>u, <2>1 DEF Served, downloadVars
  <2>5. OwnOffsets(d)' /\ Aligned(d)' /\ InOrder(d)'
    BY <1>k, <2>1, <2>2 DEF slotVars
  <2> QED
    BY <2>3, <2>4, <2>5 DEF LoneInv
(* What is left of the request after a step of the one POST it led to.      *)
<1>m. ASSUME NEW s \in Posts, post[s] # "idle",
             \A t \in Posts : t # s => post'[t] = post[t],
             post[s] # "found" => post'[s] # "found",
             sender # "command" => sender' # "command",
             pending' = pending, downloadVars' = downloadVars
      PROVE  OneRequest(d)' /\ Served(d)'
  <2>1. /\ recv[d] # "found" /\ pending = None /\ sender # "command"
        /\ \A t \in Posts : t # s => post[t] = "idle"
    BY <1>m, <1>u DEF OneRequest
  <2>2. OneRequest(d)'
    BY <1>m, <2>1 DEF OneRequest, downloadVars
  <2>3. Served(d)'
    BY <1>m, <1>u, <2>1 DEF Served, downloadVars
  <2> QED
    BY <2>2, <2>3
<1>r. ASSUME NEW s \in Posts, NEW label \in {"notReady", "done"}, Return(s, label)
      PROVE  /\ post'[s] = label
             /\ \A t \in Posts : t # s => /\ post'[t] = post[t]
                                         /\ postPipe'[t] = postPipe[t]
                                         /\ postPos'[t] = postPos[t]
             /\ sender # "command" => sender' # "command"
  BY <1>0, <1>r DEF Return, Idle
<1>10. ASSUME NEW s \in Posts, Refuse(s) \/ CopyDone(s) \/ CopyFails(s)
       PROVE  LoneInv(d)'
  <2>1. /\ post[s] # "idle" /\ post[s] # "found" /\ Return(s, "done")
        /\ UNCHANGED <<queueVars, offsetVars, downloadVars>>
        /\ dataPipe' = dataPipe \/ dataPipe' = None
    BY <1>10 DEF Refuse, CopyDone, CopyFails, Slots!ClosePipes, Slots!ClosePipesIfMatch
  <2>2. OneRequest(d)' /\ Served(d)'
    BY <1>m, <1>r, <2>1 DEF queueVars
  <2>3. OwnOffsets(d)' /\ Aligned(d)' /\ InOrder(d)'
    BY <1>k, <1>r, <2>1
  <2> QED
    BY <2>2, <2>3 DEF LoneInv
<1>11. ASSUME NEW s \in Posts, BindPipe(s)
       PROVE  LoneInv(d)'
  <2>0. /\ post[s] = "found" /\ senderOffset' = postPos[s]
        /\ UNCHANGED <<queueVars, slotVars, requestedOffset, downloadVars>>
    BY <1>11 DEF BindPipe
  <2>1. \A t \in Posts : post[t] # "copying"
    BY <1>u, <2>0 DEF OneRequest
  <2>2. /\ ~(recv[d] = "reread" /\ hand[d] # None)
        /\ ~(recv[d] \in Streaming /\ initDone[d])
    BY <1>u, <2>0 DEF Served
  <2>3. \A t \in Posts : t # s => post'[t] = post[t]
    BY <1>0, <1>11, <1>r DEF BindPipe
  <2>4. /\ sender # "command" => sender' # "command"
        /\ post[s] # "idle"
    BY <1>11, <1>r, <2>0 DEF BindPipe
  <2>5. OneRequest(d)' /\ Served(d)'
    <3>1. post'[s] # "found" /\ post'[s] # "idle"
      BY <1>0, <1>11, <1>r DEF BindPipe
    <3>2. recv[d] # "found" /\ pending = None /\ sender # "command"
          /\ \A t \in Posts : t # s => post[t] = "idle"
      BY <1>u, <2>0 DEF OneRequest
    <3>3. OneRequest(d)'
      BY <2>0, <2>3, <2>4, <3>2 DEF OneRequest, downloadVars, queueVars
    <3>4. Served(d)'
      BY <2>0, <2>2 DEF Served, downloadVars
    <3> QED
      BY <3>3, <3>4
  <2>6. post'[s] = "copying" => /\ dataPipe = d /\ postPipe'[s] = d
                                /\ postPos'[s] = postPos[s]
    <3>1. CASE dataPipe = None
      BY <1>11, <1>r, <3>1 DEF BindPipe
    <3>2. CASE dataPipe # None
      BY <1>0, <1>11, <3>2 DEF BindPipe
    <3> QED
      BY <3>1, <3>2
  <2>7. OwnOffsets(d)' /\ InOrder(d)'
    BY <1>u, <2>0, <2>1, <2>3, <2>6 DEF OwnOffsets, InOrder, downloadVars, slotVars
  <2>8. Aligned(d)'
    BY <1>u, <2>0, <2>1, <2>2, <2>3, <2>6 DEF Aligned, downloadVars
  <2> QED
    BY <2>5, <2>7, <2>8 DEF LoneInv
<1>12. ASSUME NEW s \in Posts, WatchPost(s) \/ WatchPostFires(s) \/ LosePost(s)
       PROVE  LoneInv(d)'
  <2>1. /\ UNCHANGED <<queueVars, offsetVars, downloadVars, post, postPipe, postPos>>
        /\ dataPipe' = dataPipe \/ dataPipe' = None
        /\ sender # "command" => sender' # "command"
        /\ sender = "command" => sender' = "command" \/ sender \in Posts
    BY <1>12 DEF WatchPost, WatchPostFires, LosePost, Slots!ClosePipes, slotVars,
                 senderVars, Idle
  <2>2. OneRequest(d)' /\ Served(d)'
    BY <1>u, <2>1 DEF OneRequest, Served, queueVars, downloadVars
  <2>3. OwnOffsets(d)' /\ Aligned(d)' /\ InOrder(d)'
    BY <1>k, <2>1
  <2> QED
    BY <2>2, <2>3 DEF LoneInv
<1>13. CASE Sweep \/ CloseSession \/ CloseClearsQueue \/ UNCHANGED vars
  <2>1. /\ UNCHANGED <<offsetVars, downloadVars, senderVars, postVars>>
        /\ dataPipe' = dataPipe \/ dataPipe' = None
        /\ pending' = pending \/ pending' = None
    BY <1>13 DEF Sweep, CloseSession, CloseClearsQueue, ClearDownloadQueue,
                 Slots!ClosePipes, slotVars, queueVars, vars
  <2>2. OneRequest(d)' /\ Served(d)'
    BY <1>u, <2>1 DEF OneRequest, Served, downloadVars, senderVars, postVars
  <2>3. OwnOffsets(d)' /\ Aligned(d)' /\ InOrder(d)'
    BY <1>k, <2>1 DEF postVars
  <2> QED
    BY <2>2, <2>3 DEF LoneInv
<1>14. ASSUME NEW u \in Uploads, UploadHandlerOnPipes(u)
       PROVE  LoneInv(d)'
  <2>1. /\ UNCHANGED <<queueVars, offsetVars, downloadVars, senderVars, postVars>>
        /\ dataPipe' = dataPipe
    BY <1>14, UploadLeavesDownload DEF UploadHandlerOnPipes, TypeInv
  <2>2. OneRequest(d)' /\ Served(d)'
    BY <1>u, <2>1 DEF OneRequest, Served, downloadVars, senderVars, postVars, queueVars
  <2>3. OwnOffsets(d)' /\ Aligned(d)' /\ InOrder(d)'
    BY <1>k, <2>1 DEF postVars
  <2> QED
    BY <2>2, <2>3 DEF LoneInv
<1> QED
  BY <1>1, <1>2, <1>3, <1>4, <1>5, <1>6, <1>7, <1>8, <1>9, <1>10, <1>11, <1>12, <1>13, <1>14
     DEF Next, DownloadStep, PostStep

(***************************************************************************)
(* A receiver alone in its session is given only what it asked for, for    *)
(* every file, range, kind of sender and loss of connections: the skipping *)
(* of seekingReader.Read is exact.                                         *)
(***************************************************************************)
THEOREM LoneReceiverNotCorrupted ==
    ASSUME NEW d, Receivers = {d}
    PROVE  Spec => []NoCorruption
<1>1. Init => TypeInv /\ LoneInv(d)
  <2>1. Init => LoneInv(d)
    BY DEF Init, QueueInit, Slots!PipesInit, LoneInv, OneRequest, OwnOffsets, Served,
           Aligned, InOrder, Streaming
  <2> QED
    BY <2>1, TypeInitially
<1>2. TypeInv /\ LoneInv(d) /\ [Next]_vars => (TypeInv /\ LoneInv(d))'
  BY LoneStep, TypeStep
<1>3. LoneInv(d) => NoCorruption
  BY DEF LoneInv, NoCorruption
<1> QED
  BY <1>1, <1>2, <1>3, PTL DEF Spec

-----------------------------------------------------------------------------
(* What the receiver whose pipe sits in the slot is given, whatever other  *)
(* receivers come and go, while no connection of the sender breaks: then   *)
(* the sender has one POST at a time at the relay, and a POST that writes  *)
(* into the pipe of the slot was bound under the offsets it still holds.   *)

\* The sender waits for the one POST that is at work.
OneAtWork ==
    \A s \in Posts :
        /\ post[s] \in {"found", "copying", "refused"} => sender = s
        /\ ~postGone[s]

\* A download that has no pipe yet has read nothing, and nobody writes to it.
Fresh(d) ==
    recv[d] \in {"found", "queued"} =>
        /\ dataPipe # d
        /\ out[d] = <<>> /\ bytesToSkip[d] = 0 /\ ~initDone[d]
        /\ \A s \in Posts : post[s] = "copying" => postPipe[s] # d

\* POST s can still bring units to download d.
Feeds(s, d) == post[s] = "copying" /\ postPipe[s] = d /\ pipe[d] = "open"

\* The download holds its first unit while the offsets are read again.
HasUnit(d) == recv[d] = "reread" /\ hand[d] # None

\* The reader of the pipe in the slot: the offset of the session is its own, and
\* while its pipe is open a unit in hand or delivered has a POST behind it.
Reader(d) ==
    /\ recv[d] \in Streaming
    /\ requestedOffset = req[d].start
    /\ ~initDone[d] => out[d] = <<>> /\ bytesToSkip[d] = 0
    /\ recv[d] \in {"first", "reread"} => ~initDone[d]
    /\ recv[d] = "reading" => initDone[d]
    /\ HasUnit(d) /\ pipe[d] # "open" => hand[d] = req[d].start
    /\ pipe[d] = "open" /\ (HasUnit(d) \/ initDone[d]) => \E s \in Posts : Feeds(s, d)

\* What the POST sends next continues what the reader has delivered or skips.
Continues(s, d) ==
    /\ ~initDone[d] => senderOffset <= req[d].start
    /\ recv[d] \in {"top", "first"} /\ ~initDone[d] => postPos[s] = senderOffset
    /\ HasUnit(d) => postPos[s] = senderOffset + 1 /\ hand[d] = senderOffset
    /\ initDone[d] => postPos[s] + bytesToSkip[d] = req[d].start + Len(out[d])

CurrentInv(d) ==
    dataPipe = d => /\ Reader(d)
                    /\ InOrder(d)
                    /\ \A s \in Posts : Feeds(s, d) => Continues(s, d)

\* handleData returns to a sender that waits for it, and nobody else is at work.
LEMMA OneAtWorkStep ==
    ASSUME ~LossySender, TypeInv, OneAtWork, [Next]_vars
    PROVE  OneAtWork'
<1> USE PostsAssumption
<1>0. /\ post \in [Posts -> {"idle", "found", "copying", "notReady", "refused", "done"}]
      /\ postGone \in [Posts -> BOOLEAN]
      /\ sender \in {"polling", "command", "stopped"} \cup Posts
  BY DEF TypeInv, PostTypes, SenderTypes
<1>1. ASSUME UNCHANGED <<sender, post, postGone>>
      PROVE  OneAtWork'
  BY <1>1 DEF OneAtWork
<1>2. ASSUME NEW s \in Posts, NEW label \in {"notReady", "done"}, Return(s, label)
      PROVE  OneAtWork'
  <2>1. post'[s] = label /\ \A t \in Posts : t # s => post'[t] = post[t]
    BY <1>0, <1>2 DEF Return
  <2>2. \A t \in Posts : ~postGone'[t]
    BY <1>0, <1>2 DEF Return, OneAtWork
  <2>3. \A t \in Posts : t # s /\ sender = t => sender' = t
    BY <1>2 DEF Return
  <2> QED
    BY <2>1, <2>2, <2>3 DEF OneAtWork
<1>3. ASSUME NEW d \in Receivers, DownloadStep(d) \/ WatchDownload(d) \/ LoseReceiver(d)
      PROVE  OneAtWork'
  <2>1. UNCHANGED <<sender, post, postGone>>
    BY <1>3 DEF DownloadStep, Enqueue, Install, NextRead, ReadEnds, Reread, Copy, WatchDownload,
                LoseReceiver, senderVars, postVars
  <2> QED
    BY <1>1, <2>1
<1>4. CASE TakeCommand
  <2>1. sender = "polling" /\ post' = post /\ postGone' = postGone
    BY <1>4 DEF TakeCommand, postVars
  <2> QED
    BY <2>1 DEF OneAtWork
<1>5. ASSUME NEW s \in Posts, SendPost(s)
      PROVE  OneAtWork'
  <2>1. /\ sender = "command" /\ postGone' = postGone
        /\ \A t \in Posts : t # s => post'[t] = post[t]
        /\ post'[s] \in {"found", "done"} /\ (post'[s] = "found" => sender' = s)
    BY <1>0, <1>5 DEF SendPost
  <2>2. \A t \in Posts : post[t] \notin {"found", "copying", "refused"}
    BY <2>1 DEF OneAtWork
  <2> QED
    BY <2>1, <2>2 DEF OneAtWork
<1>6. ASSUME NEW s \in Posts, BindPipe(s)
      PROVE  OneAtWork'
  <2>1. CASE Return(s, "notReady")
    BY <1>2, <2>1
  <2>2. CASE ~Return(s, "notReady")
    <3>1. /\ post[s] = "found" /\ UNCHANGED <<sender, postGone>>
          /\ \A t \in Posts : t # s => post'[t] = post[t]
      BY <1>0, <1>6, <2>2 DEF BindPipe
    <3> QED
      BY <3>1 DEF OneAtWork
  <2> QED
    BY <2>1, <2>2
<1>7. ASSUME NEW s \in Posts, Refuse(s) \/ CopyDone(s) \/ CopyFails(s)
      PROVE  OneAtWork'
  BY <1>2, <1>7 DEF Refuse, CopyDone, CopyFails
<1>8. ASSUME NEW s \in Posts, WatchPost(s) \/ WatchPostFires(s) \/ LosePost(s)
      PROVE  OneAtWork'
  <2>1. UNCHANGED <<sender, post, postGone>>
    BY <1>8 DEF WatchPost, WatchPostFires, LosePost, senderVars
  <2> QED
    BY <1>1, <2>1
<1>9. CASE Sweep \/ CloseSession \/ CloseClearsQueue \/ UNCHANGED vars
  <2>1. UNCHANGED <<sender, post, postGone>>
    BY <1>9 DEF Sweep, CloseSession, CloseClearsQueue, vars, senderVars, postVars
  <2> QED
    BY <1>1, <2>1
<1>10. ASSUME NEW u \in Uploads, UploadHandlerOnPipes(u)
       PROVE  OneAtWork'
  BY <1>1, <1>10 DEF UploadHandlerOnPipes, senderVars, postVars
<1> QED
  BY <1>3, <1>4, <1>5, <1>6, <1>7, <1>8, <1>9, <1>10 DEF Next, PostStep

\* A step that leaves download d, and whatever feeds it, alone; or takes its pipe
\* out of the slot.
LEMMA CurrentKept ==
    ASSUME NEW d \in Receivers, Fresh(d), CurrentInv(d), req' = req,
           recv'[d] = recv[d], initDone'[d] = initDone[d], bytesToSkip'[d] = bytesToSkip[d],
           hand'[d] = hand[d], out'[d] = out[d],
           \A s \in Posts : post'[s] = "copying" /\ postPipe'[s] = d
                                => post[s] = "copying" /\ postPipe[s] = d,
           dataPipe' = d =>
               /\ dataPipe = d
               /\ UNCHANGED offsetVars
               /\ pipe'[d] = pipe[d]
               /\ \A s \in Posts : Feeds(s, d) => /\ post'[s] = "copying"
                                                  /\ postPipe'[s] = d
                                                  /\ postPos'[s] = postPos[s]
    PROVE  Fresh(d)' /\ CurrentInv(d)'
<1>1. Fresh(d)'
  BY DEF Fresh
<1>2. ASSUME dataPipe' = d
      PROVE  Reader(d)' /\ InOrder(d)' /\ \A s \in Posts : Feeds(s, d)' => Continues(s, d)'
  <2>1. /\ dataPipe = d /\ requestedOffset' = requestedOffset /\ senderOffset' = senderOffset
        /\ pipe'[d] = pipe[d]
        /\ Reader(d) /\ InOrder(d) /\ \A s \in Posts : Feeds(s, d) => Continues(s, d)
    BY <1>2 DEF CurrentInv, offsetVars
  <2>2. \A s \in Posts : Feeds(s, d) => Feeds(s, d)' /\ postPos'[s] = postPos[s]
    BY <1>2, <2>1 DEF Feeds
  <2>3. \A s \in Posts : Feeds(s, d)' => Feeds(s, d)
    BY <2>1 DEF Feeds
  <2>4. HasUnit(d)' <=> HasUnit(d)
    BY DEF HasUnit
  <2>5. Reader(d)'
    BY <2>1, <2>2, <2>4 DEF Reader
  <2>6. InOrder(d)'
    BY <2>1 DEF InOrder
  <2>7. ASSUME NEW s \in Posts, Feeds(s, d)'
        PROVE  Continues(s, d)'
    <3>1. Continues(s, d) /\ postPos'[s] = postPos[s]
      BY <2>1, <2>2, <2>3, <2>7
    <3> QED
      BY <2>1, <2>4, <3>1 DEF Continues
  <2> QED
    BY <2>5, <2>6, <2>7
<1> QED
  BY <1>1, <1>2 DEF CurrentInv

\* A download whose handler returns has given up its pipe.
LEMMA CurrentFinished ==
    ASSUME TypeInv, NEW d \in Receivers, Finish(d)
    PROVE  Fresh(d)' /\ CurrentInv(d)'
<1>1. recv'[d] = "done"
  BY DEF Finish, At, TypeInv, DownloadTypes
<1>2. dataPipe' # d
  BY NoneIsNoReceiver DEF Finish, Slots!ClosePipesIfMatch
<1> QED
  BY <1>1, <1>2 DEF Fresh, CurrentInv

\* A step of another download leaves what the handler of d keeps, and the POSTs, alone.
LEMMA OtherDownload ==
    ASSUME TypeInv, NEW d \in Receivers, NEW e \in Receivers, e # d,
           DownloadStep(e) \/ WatchDownload(e) \/ LoseReceiver(e)
    PROVE  /\ req' = req /\ recv'[d] = recv[d] /\ initDone'[d] = initDone[d]
           /\ bytesToSkip'[d] = bytesToSkip[d] /\ hand'[d] = hand[d] /\ out'[d] = out[d]
           /\ post' = post /\ postPipe' = postPipe
<1>0. /\ recv \in [Receivers -> {"found", "queued", "done"} \cup Streaming]
      /\ initDone \in [Receivers -> BOOLEAN]
      /\ bytesToSkip \in [Receivers -> Units]
      /\ hand \in [Receivers -> Units \cup {None}]
      /\ out \in [Receivers -> Seq(Units)]
  BY DEF TypeInv, DownloadTypes
<1> USE DEF At, Finish, Deliver, postVars
<1>1. CASE Enqueue(e)
  BY <1>0, <1>1 DEF Enqueue
<1>2. CASE Install(e)
  BY <1>0, <1>2 DEF Install
<1>3. CASE NextRead(e)
  BY <1>0, <1>3 DEF NextRead
<1>4. CASE ReadEnds(e)
  BY <1>0, <1>4 DEF ReadEnds
<1>5. CASE Reread(e)
  BY <1>0, <1>5 DEF Reread
<1>6. ASSUME NEW s \in Posts, Copy(s, e)
      PROVE  /\ req' = req /\ recv'[d] = recv[d] /\ initDone'[d] = initDone[d]
             /\ bytesToSkip'[d] = bytesToSkip[d] /\ hand'[d] = hand[d] /\ out'[d] = out[d]
             /\ post' = post /\ postPipe' = postPipe
  BY <1>0, <1>6 DEF Copy
<1>7. CASE WatchDownload(e) \/ LoseReceiver(e)
  BY <1>7 DEF WatchDownload, LoseReceiver, downloadVars
<1> QED
  BY <1>1, <1>2, <1>3, <1>4, <1>5, <1>6, <1>7 DEF DownloadStep

\* The steps of a download that is not d.
LEMMA OtherDownloadKeeps ==
    ASSUME TypeInv, NEW d \in Receivers, Fresh(d), CurrentInv(d), NEW e \in Receivers, e # d,
           DownloadStep(e) \/ WatchDownload(e) \/ LoseReceiver(e)
    PROVE  Fresh(d)' /\ CurrentInv(d)'
<1> USE NoneIsNoReceiver
<1>0. /\ recv \in [Receivers -> {"found", "queued", "done"} \cup Streaming]
      /\ initDone \in [Receivers -> BOOLEAN]
      /\ bytesToSkip \in [Receivers -> Units]
      /\ hand \in [Receivers -> Units \cup {None}]
      /\ out \in [Receivers -> Seq(Units)]
      /\ postPos \in [Posts -> 0..Size]
      /\ pipe \in [Slots!Pipes -> {"none", "open", "eof", "broken"}] /\ d \in Slots!Pipes
  BY DEF TypeInv, DownloadTypes, PostTypes, PipesInv, Slots!PipesTypeOK, Slots!Pipes
<1>1. /\ req' = req /\ recv'[d] = recv[d] /\ initDone'[d] = initDone[d]
      /\ bytesToSkip'[d] = bytesToSkip[d] /\ hand'[d] = hand[d] /\ out'[d] = out[d]
      /\ post' = post /\ postPipe' = postPipe
  BY OtherDownload
<1>2. ASSUME dataPipe' = d
      PROVE  dataPipe = d /\ UNCHANGED offsetVars /\ pipe'[d] = pipe[d]
  <2>1. \/ UNCHANGED <<slotVars, offsetVars>>
        \/ Slots!ClosePipesIfMatch(e) /\ UNCHANGED offsetVars
        \/ Slots!InstallDataPipe(e)
    BY <1>2 DEF DownloadStep, Enqueue, Install, NextRead, ReadEnds, Reread, Copy, WatchDownload,
                LoseReceiver, Finish, Deliver
  <2>2. ~Slots!InstallDataPipe(e)
    BY <1>2 DEF Slots!InstallDataPipe
  <2>3. CASE UNCHANGED <<slotVars, offsetVars>>
    BY <1>2, <2>3 DEF slotVars
  <2>4. CASE Slots!ClosePipesIfMatch(e) /\ UNCHANGED offsetVars
    BY <1>0, <1>2, <2>4 DEF Slots!ClosePipesIfMatch
  <2> QED
    BY <2>1, <2>2, <2>3, <2>4
<1>3. \A s \in Posts : postPipe[s] = d => postPos'[s] = postPos[s]
  <2>1. \/ postPos' = postPos
        \/ \E s \in Posts : postPipe[s] = e /\ postPos' = [postPos EXCEPT ![s] = @ + 1]
    BY DEF DownloadStep, Enqueue, Install, NextRead, ReadEnds, Reread, Copy, WatchDownload,
           LoseReceiver, postVars
  <2> QED
    BY <1>0, <2>1
<1> QED
  BY <1>1, <1>2, <1>3, CurrentKept DEF Feeds

\* A first download request: queued, then given a pipe nobody writes to yet.
LEMMA OwnArrivalKeeps ==
    ASSUME TypeInv, NEW d \in Receivers, Fresh(d), CurrentInv(d), Enqueue(d) \/ Install(d)
    PROVE  Fresh(d)' /\ CurrentInv(d)'
<1>0. recv \in [Receivers -> {"found", "queued", "done"} \cup Streaming]
  BY DEF TypeInv, DownloadTypes
<1>1. CASE Enqueue(d)
  <2>1. /\ recv[d] = "found" /\ dataPipe' = dataPipe
        /\ UNCHANGED <<initDone, bytesToSkip, out, post, postPipe>>
    BY <1>1 DEF Enqueue, slotVars, postVars
  <2> QED
    BY <2>1 DEF Fresh, CurrentInv
<1>2. CASE Install(d)
  <2>1. /\ recv[d] = "queued" /\ recv'[d] = "top" /\ requestedOffset' = req[d].start
        /\ UNCHANGED <<req, initDone, bytesToSkip, hand, out, post, postPipe>>
    BY <1>0, <1>2 DEF Install, At, postVars
  <2>2. /\ ~initDone[d] /\ out[d] = <<>> /\ bytesToSkip[d] = 0
        /\ \A s \in Posts : post[s] = "copying" => postPipe[s] # d
    BY <2>1 DEF Fresh
  <2>3. \A s \in Posts : ~Feeds(s, d)'
    BY <2>1, <2>2 DEF Feeds
  <2>4. ~HasUnit(d)'
    BY <2>1 DEF HasUnit
  <2>5. Reader(d)' /\ InOrder(d)'
    BY <2>1, <2>2, <2>4 DEF Reader, InOrder, Streaming
  <2>6. Fresh(d)'
    BY <2>1 DEF Fresh
  <2> QED
    BY <2>3, <2>5, <2>6 DEF CurrentInv
<1> QED
  BY <1>1, <1>2

\* One POST at most feeds a download.
LEMMA OneFeeds ==
    ASSUME OneAtWork, NEW d, NEW s \in Posts, NEW t \in Posts, Feeds(s, d), Feeds(t, d)
    PROVE  s = t
BY DEF OneAtWork, Feeds

\* A reader that goes on reading keeps its pipe, and out of the slot nothing is owed.
LEMMA ReaderGoesOn ==
    ASSUME NEW d \in Receivers, UNCHANGED slotVars, recv'[d] \in Streaming,
           dataPipe = d => /\ Reader(d)' /\ InOrder(d)'
                           /\ \A s \in Posts : Feeds(s, d)' => Continues(s, d)'
    PROVE  Fresh(d)' /\ CurrentInv(d)'
BY DEF Fresh, CurrentInv, slotVars, Streaming

\* The turn of the loop before a Read, and a Read that ends.
LEMMA OwnReadKeeps ==
    ASSUME TypeInv, NEW d \in Receivers, Fresh(d), CurrentInv(d), NextRead(d) \/ ReadEnds(d)
    PROVE  Fresh(d)' /\ CurrentInv(d)'
<1> USE NoneIsNoReceiver
<1>0. /\ recv \in [Receivers -> {"found", "queued", "done"} \cup Streaming]
      /\ hand \in [Receivers -> Units \cup {None}]
  BY DEF TypeInv, DownloadTypes
<1>1. CASE Finish(d)
  BY <1>1, CurrentFinished
<1>2. CASE ~Finish(d)
  <2>1. /\ UNCHANGED slotVars
        /\ UNCHANGED <<requestedOffset, senderOffset, post, postPipe, postPos, req, initDone,
                       bytesToSkip, out>>
        /\ \/ /\ recv[d] = "top" /\ hand'[d] = hand[d]
              /\ recv'[d] = IF initDone[d] THEN "reading" ELSE "first"
           \/ /\ recv[d] = "first" /\ recv'[d] = "reread" /\ hand'[d] = None
    BY <1>0, <1>2 DEF NextRead, ReadEnds, At, offsetVars, postVars
  <2>2. recv'[d] \in Streaming
    BY <2>1 DEF Streaming
  <2>3. ASSUME dataPipe = d
        PROVE  /\ Reader(d)' /\ InOrder(d)'
               /\ \A s \in Posts : Feeds(s, d)' => Continues(s, d)'
    <3>1. Reader(d) /\ InOrder(d) /\ \A s \in Posts : Feeds(s, d) => Continues(s, d)
      BY <2>3 DEF CurrentInv
    <3>2. \A s \in Posts : Feeds(s, d)' <=> Feeds(s, d)
      BY <2>1 DEF Feeds, slotVars
    <3>3. ~HasUnit(d) /\ ~HasUnit(d)' /\ pipe' = pipe
      BY <2>1 DEF HasUnit, slotVars
    <3>4. InOrder(d)'
      BY <2>1, <3>1 DEF InOrder
    <3>5. Reader(d)'
      BY <2>1, <2>2, <3>1, <3>2, <3>3 DEF Reader
    <3>6. \A s \in Posts : Feeds(s, d)' => Continues(s, d)'
      BY <2>1, <3>1, <3>2, <3>3 DEF Continues
    <3> QED
      BY <3>4, <3>5, <3>6
  <2> QED
    BY <2>1, <2>2, <2>3, ReaderGoesOn
<1> QED
  BY <1>1, <1>2

\* The offsets are read again: what is skipped, or delivered from the hand, is
\* what the POST that sent the unit was bound under.
LEMMA OwnRereadKeeps ==
    ASSUME TypeInv, NEW d \in Receivers, Fresh(d), CurrentInv(d), Reread(d)
    PROVE  Fresh(d)' /\ CurrentInv(d)'
<1> USE NoneIsNoReceiver
<1> DEFINE skip == requestedOffset - senderOffset
<1>0. /\ recv \in [Receivers -> {"found", "queued", "done"} \cup Streaming]
      /\ hand \in [Receivers -> Units \cup {None}]
      /\ initDone \in [Receivers -> BOOLEAN]
      /\ bytesToSkip \in [Receivers -> Units]
      /\ out \in [Receivers -> Seq(Units)]
      /\ req[d].start \in Nat /\ requestedOffset \in Nat /\ senderOffset \in Nat
  BY RequestsAssumption, SizeAssumption DEF TypeInv, DownloadTypes, SessionTypes, Units
<1>1. CASE Finish(d)
  BY <1>1, CurrentFinished
<1>2. CASE ~Finish(d)
  <2>1. /\ UNCHANGED slotVars /\ HasUnit(d)
        /\ UNCHANGED <<requestedOffset, senderOffset, post, postPipe, postPos, req>>
        /\ recv[d] = "reread" /\ recv'[d] = "top" /\ initDone'[d]
        /\ \/ /\ skip > 0 /\ out' = out
              /\ bytesToSkip'[d] = skip - 1
           \/ /\ skip = 0 /\ bytesToSkip' = bytesToSkip
              /\ out' = [out EXCEPT ![d] = Append(@, hand[d])]
    <3>1. /\ UNCHANGED <<requestedOffset, senderOffset, post, postPipe, postPos, req>>
          /\ recv[d] = "reread" /\ initDone'[d]
      BY <1>0, <1>2 DEF Reread, offsetVars, postVars
    <3>2. skip < 0 \/ skip = 0 \/ skip > 0
      BY <1>0
    <3>3. ~(skip < 0 \/ hand[d] = None)
      BY <1>2 DEF Reread
    <3>4. CASE skip > 0
      BY <1>0, <1>2, <3>1, <3>3, <3>4 DEF Reread, At, HasUnit
    <3>5. CASE skip = 0
      <4>1. Deliver(d, hand[d]) /\ bytesToSkip' = bytesToSkip
        BY <3>3, <3>5 DEF Reread
      <4>2. /\ out' = [out EXCEPT ![d] = Append(@, hand[d])]
            /\ At(d, "top") /\ UNCHANGED slotVars
        BY <1>2, <4>1 DEF Deliver
      <4> QED
        BY <1>0, <3>1, <3>3, <3>5, <4>1, <4>2 DEF At, HasUnit
    <3> QED
      BY <3>2, <3>3, <3>4, <3>5
  <2>2. ASSUME dataPipe = d
        PROVE  /\ Reader(d)' /\ InOrder(d)'
               /\ \A s \in Posts : Feeds(s, d)' => Continues(s, d)'
    <3>1. Reader(d) /\ InOrder(d) /\ \A s \in Posts : Feeds(s, d) => Continues(s, d)
      BY <2>2 DEF CurrentInv
    <3>2. \A s \in Posts : Feeds(s, d)' <=> Feeds(s, d)
      BY <2>1 DEF Feeds, slotVars
    <3>3. ~HasUnit(d)' /\ pipe' = pipe
      BY <2>1 DEF HasUnit, slotVars
    <3>4. ~initDone[d] /\ out[d] = <<>> /\ bytesToSkip[d] = 0 /\ requestedOffset = req[d].start
      BY <2>1, <3>1 DEF Reader
    <3>5. pipe[d] = "open" => \E s \in Posts : Feeds(s, d)
      BY <2>1, <3>1 DEF Reader
    <3>6. \A s \in Posts : Feeds(s, d) => postPos[s] = senderOffset + 1 /\ hand[d] = senderOffset
      BY <2>1, <3>1 DEF Continues
    <3>7. pipe[d] # "open" => hand[d] = req[d].start
      BY <2>1, <3>1 DEF Reader
    <3>8. Reader(d)'
      BY <2>1, <3>1, <3>2, <3>3, <3>4, <3>5 DEF Reader, Streaming
    <3>9. CASE skip > 0 /\ out' = out /\ bytesToSkip'[d] = skip - 1
      <4>1. InOrder(d)'
        BY <2>1, <3>1, <3>9 DEF InOrder
      <4>2. ASSUME NEW s \in Posts, Feeds(s, d)'
            PROVE  Continues(s, d)'
        <5>1. postPos'[s] = senderOffset + 1
          BY <2>1, <3>2, <3>6, <4>2
        <5>2. bytesToSkip'[d] = req[d].start - senderOffset - 1
          BY <3>4, <3>9
        <5>3. Len(out'[d]) = 0 /\ req' = req
          BY <2>1, <3>4, <3>9
        <5>4. postPos'[s] + bytesToSkip'[d] = req[d].start + 0
          <6> HIDE DEF skip
          <6>1. senderOffset \in Int /\ req[d].start \in Int
            BY <1>0
          <6> QED
            BY <5>1, <5>2, <6>1
        <5> QED
          BY <2>1, <3>3, <5>3, <5>4 DEF Continues
      <4> QED
        BY <3>8, <4>1, <4>2
    <3>10. CASE /\ skip = 0 /\ bytesToSkip' = bytesToSkip
                /\ out' = [out EXCEPT ![d] = Append(@, hand[d])]
      <4>1. hand[d] = req[d].start
        <5>1. senderOffset = req[d].start
          BY <1>0, <3>4, <3>10
        <5> QED
          BY <3>5, <3>6, <3>7, <5>1
      <4>2. hand[d] = req[d].start + Len(out[d])
        <5>1. Len(out[d]) = 0
          BY <3>4
        <5> QED
          BY <1>0, <4>1, <5>1
      <4>3. InOrder(d)' /\ Len(out'[d]) = Len(out[d]) + 1
        BY <1>0, <2>1, <3>1, <3>10, <4>2, NextInOrder
      <4>4. ASSUME NEW s \in Posts, Feeds(s, d)'
            PROVE  Continues(s, d)'
        <5>1. postPos'[s] = senderOffset + 1 /\ senderOffset = req[d].start
          BY <2>1, <3>2, <3>6, <4>1, <4>4
        <5>2. Len(out'[d]) = 1
          <6>1. Len(out[d]) = 0
            BY <3>4
          <6> QED
            BY <4>3, <6>1
        <5>3. bytesToSkip'[d] = 0
          BY <3>4, <3>10
        <5>4. postPos'[s] + bytesToSkip'[d] = req'[d].start + Len(out'[d])
          BY <1>0, <2>1, <5>1, <5>2, <5>3
        <5> QED
          BY <2>1, <3>3, <5>4 DEF Continues
      <4> QED
        BY <3>8, <4>3, <4>4
    <3> QED
      BY <2>1, <3>9, <3>10
  <2>3. recv'[d] \in Streaming
    BY <2>1 DEF Streaming
  <2> QED
    BY <2>1, <2>2, <2>3, ReaderGoesOn
<1> QED
  BY <1>1, <1>2

\* A unit of the POST reaches the reader: held, skipped or delivered.
LEMMA OwnCopyKeeps ==
    ASSUME TypeInv, OneAtWork, NEW d \in Receivers, Fresh(d), CurrentInv(d),
           NEW s \in Posts, Copy(s, d)
    PROVE  Fresh(d)' /\ CurrentInv(d)'
<1> USE NoneIsNoReceiver
<1>0. /\ recv \in [Receivers -> {"found", "queued", "done"} \cup Streaming]
      /\ hand \in [Receivers -> Units \cup {None}]
      /\ bytesToSkip \in [Receivers -> Nat]
      /\ out \in [Receivers -> Seq(Units)]
      /\ postPos \in [Posts -> Nat]
      /\ req[d].start \in Nat /\ requestedOffset \in Nat /\ senderOffset \in Nat
  BY RequestsAssumption, SizeAssumption
     DEF TypeInv, DownloadTypes, SessionTypes, PostTypes, Units
<1>1. CASE Finish(d)
  BY <1>1, CurrentFinished
<1>2. CASE ~Finish(d)
  <2>1. /\ UNCHANGED slotVars
        /\ UNCHANGED <<requestedOffset, senderOffset, post, postPipe, req, initDone>>
        /\ postPos'[s] = postPos[s] + 1
        /\ Feeds(s, d)
        /\ \/ /\ recv[d] = "first" /\ recv'[d] = "reread" /\ hand'[d] = postPos[s]
              /\ UNCHANGED <<bytesToSkip, out>>
           \/ /\ recv[d] = "reading" /\ recv'[d] = "top" /\ out' = out
              /\ bytesToSkip[d] > 0 /\ bytesToSkip'[d] = bytesToSkip[d] - 1
           \/ /\ recv[d] = "reading" /\ recv'[d] = "top"
              /\ bytesToSkip[d] = 0 /\ bytesToSkip' = bytesToSkip
              /\ out' = [out EXCEPT ![d] = Append(@, postPos[s])]
    BY <1>0, <1>2 DEF Copy, At, Deliver, Feeds, offsetVars
  <2>2. recv'[d] \in Streaming
    BY <2>1 DEF Streaming
  <2>3. ASSUME dataPipe = d
        PROVE  /\ Reader(d)' /\ InOrder(d)'
               /\ \A t \in Posts : Feeds(t, d)' => Continues(t, d)'
    <3>1. Reader(d) /\ InOrder(d) /\ Continues(s, d)
      BY <2>1, <2>3 DEF CurrentInv
    <3>2. /\ \A t \in Posts : Feeds(t, d)' <=> Feeds(t, d)
          /\ pipe' = pipe /\ pipe[d] = "open"
      BY <2>1 DEF Feeds, slotVars
    <3>3. \A t \in Posts : Feeds(t, d)' => t = s
      BY <2>1, <3>2, OneFeeds
    <3>4. CASE recv[d] = "first"
      <4>1. /\ recv'[d] = "reread" /\ hand'[d] = postPos[s]
            /\ UNCHANGED <<bytesToSkip, out>>
        BY <2>1, <3>4
      <4>2. ~initDone[d] /\ senderOffset <= req[d].start /\ postPos[s] = senderOffset
        BY <3>1, <3>4 DEF Reader, Continues
      <4>3. Reader(d)' /\ InOrder(d)'
        BY <2>1, <2>2, <3>1, <3>2, <4>1, <4>2 DEF Reader, InOrder
      <4>4. Continues(s, d)'
        BY <2>1, <4>1, <4>2 DEF Continues
      <4> QED
        BY <3>3, <4>3, <4>4
    <3>5. CASE recv[d] = "reading"
      <4>1. recv'[d] = "top" /\ initDone[d] /\ ~HasUnit(d)'
        BY <2>1, <3>1, <3>5 DEF Reader, HasUnit
      <4>2. Reader(d)'
        BY <2>1, <2>2, <3>1, <3>2, <4>1 DEF Reader
      <4>3. postPos[s] + bytesToSkip[d] = req[d].start + Len(out[d])
        BY <3>1, <4>1 DEF Continues
      <4>4. Len(out[d]) \in Nat
        BY <1>0
      <4>5. CASE /\ out' = out
                 /\ bytesToSkip[d] > 0 /\ bytesToSkip'[d] = bytesToSkip[d] - 1
        <5>1. postPos'[s] + bytesToSkip'[d] = req[d].start + Len(out[d])
          BY <1>0, <2>1, <4>3, <4>4, <4>5
        <5>2. Continues(s, d)' /\ InOrder(d)'
          BY <2>1, <3>1, <4>1, <4>5, <5>1 DEF Continues, InOrder
        <5> QED
          BY <3>3, <4>2, <5>2
      <4>6. CASE /\ bytesToSkip[d] = 0 /\ bytesToSkip' = bytesToSkip
                 /\ out' = [out EXCEPT ![d] = Append(@, postPos[s])]
        <5>1. postPos[s] = req[d].start + Len(out[d])
          BY <1>0, <4>3, <4>6
        <5>2. InOrder(d)' /\ Len(out'[d]) = Len(out[d]) + 1
          BY <1>0, <2>1, <3>1, <4>6, <5>1, NextInOrder
        <5>3. postPos'[s] + bytesToSkip'[d] = req[d].start + Len(out'[d])
          <6>1. bytesToSkip'[d] = 0 /\ postPos'[s] = postPos[s] + 1
            BY <2>1, <4>6
          <6>2. postPos'[s] + bytesToSkip'[d] = req[d].start + (Len(out[d]) + 1)
            <7>1. req[d].start \in Nat
              BY <1>0
            <7> QED
              BY ONLY <4>4, <5>1, <6>1, <7>1
          <6> QED
            BY <5>2, <6>2
        <5>4. Continues(s, d)'
          BY <2>1, <4>1, <5>3 DEF Continues
        <5> QED
          BY <3>3, <4>2, <5>2, <5>4
      <4> QED
        BY <2>1, <3>5, <4>5, <4>6
    <3> QED
      BY <2>1, <3>4, <3>5
  <2> QED
    BY <2>1, <2>2, <2>3, ReaderGoesOn
<1> QED
  BY <1>1, <1>2

\* The watcher of a download closes its pipe; a client that leaves is noticed later.
LEMMA OwnWatchKeeps ==
    ASSUME TypeInv, NEW d \in Receivers, Fresh(d), CurrentInv(d),
           WatchDownload(d) \/ LoseReceiver(d)
    PROVE  Fresh(d)' /\ CurrentInv(d)'
<1> USE NoneIsNoReceiver
<1>1. CASE WatchDownload(d)
  <2>1. recv'[d] \in Streaming /\ dataPipe' # d
    BY <1>1 DEF WatchDownload, Slots!ClosePipesIfMatch, downloadVars
  <2> QED
    BY <2>1 DEF Fresh, CurrentInv, Streaming
<1>2. CASE LoseReceiver(d)
  <2>1. /\ UNCHANGED <<slotVars, offsetVars, postVars>>
        /\ UNCHANGED <<req, recv, initDone, bytesToSkip, hand, out>>
    BY <1>2 DEF LoseReceiver
  <2>2. UNCHANGED <<dataPipe, pipe, post, postPipe, postPos>>
    BY <2>1 DEF slotVars, postVars
  <2> QED
    BY <2>1, <2>2, CurrentKept DEF Feeds
<1> QED
  BY <1>1, <1>2

\* The offset a POST is bound under is the one its first unit has.
LEMMA BindKeeps ==
    ASSUME TypeInv, OneAtWork, NEW d \in Receivers, Fresh(d), CurrentInv(d),
           NEW s \in Posts, BindPipe(s)
    PROVE  Fresh(d)' /\ CurrentInv(d)'
<1> USE NoneIsNoReceiver
<1>0. /\ post \in [Posts -> {"idle", "found", "copying", "notReady", "refused", "done"}]
      /\ postPipe \in [Posts -> Receivers \cup {None}]
      /\ postPos \in [Posts -> Nat]
      /\ requestedOffset \in Nat
  BY SizeAssumption DEF TypeInv, PostTypes, SessionTypes, Units
<1>1. /\ post[s] = "found" /\ senderOffset' = postPos[s]
      /\ UNCHANGED <<dataPipe, pipe, requestedOffset, req, recv, initDone, bytesToSkip, hand, out>>
  BY DEF BindPipe, slotVars, downloadVars
<1>2. /\ \A t \in Posts : t # s => post'[t] = post[t] /\ postPipe'[t] = postPipe[t]
      /\ post'[s] = "copying" => /\ dataPipe # None /\ postPipe'[s] = dataPipe
                                 /\ postPos' = postPos /\ postPos[s] <= requestedOffset
  BY <1>0 DEF BindPipe, Return
<1>3. \A t \in Posts : post[t] # "copying"
  BY <1>1 DEF OneAtWork
<1>4. Fresh(d)'
  BY <1>1, <1>2, <1>3 DEF Fresh
<1>5. ASSUME dataPipe = d
      PROVE  Reader(d)' /\ InOrder(d)' /\ \A t \in Posts : Feeds(t, d)' => Continues(t, d)'
  <2>1. Reader(d) /\ InOrder(d) /\ \A t \in Posts : ~Feeds(t, d)
    BY <1>3, <1>5 DEF CurrentInv, Feeds
  <2>2. ~(pipe[d] = "open" /\ (HasUnit(d) \/ initDone[d]))
    BY <2>1 DEF Reader
  <2>3. HasUnit(d)' <=> HasUnit(d)
    BY <1>1 DEF HasUnit
  <2>4. Reader(d)' /\ InOrder(d)'
    BY <1>1, <2>1, <2>2, <2>3 DEF Reader, InOrder
  <2>5. ASSUME NEW t \in Posts, Feeds(t, d)'
        PROVE  Continues(t, d)'
    <3>1. t = s /\ post'[s] = "copying" /\ pipe[d] = "open"
      BY <1>1, <1>2, <1>3, <2>5 DEF Feeds
    <3>2. postPos'[s] = senderOffset' /\ senderOffset' <= req[d].start
      BY <1>1, <1>2, <2>1, <3>1 DEF Reader
    <3>3. ~HasUnit(d)' /\ ~initDone'[d]
      BY <1>1, <2>2, <2>3, <3>1
    <3> QED
      BY <1>1, <3>1, <3>2, <3>3 DEF Continues
  <2> QED
    BY <2>4, <2>5
<1> QED
  BY <1>1, <1>4, <1>5 DEF CurrentInv

\* The body ended while the receiver still holds its only unit: it is the one asked for.
LEMMA CopyDoneKeeps ==
    ASSUME TypeInv, NEW d \in Receivers, Fresh(d), CurrentInv(d), NEW s \in Posts, CopyDone(s)
    PROVE  Fresh(d)' /\ CurrentInv(d)'
<1> USE NoneIsNoReceiver
<1>0. /\ post \in [Posts -> {"idle", "found", "copying", "notReady", "refused", "done"}]
      /\ postPipe \in [Posts -> Receivers \cup {None}]
      /\ postPos \in [Posts -> Nat]
      /\ pipe \in [Slots!Pipes -> {"none", "open", "eof", "broken"}] /\ d \in Slots!Pipes
      /\ senderOffset \in Nat /\ req[d].start \in 0..Size-1
  BY RequestsAssumption, SizeAssumption
     DEF TypeInv, PostTypes, SessionTypes, DownloadTypes, Units, PipesInv, Slots!PipesTypeOK,
         Slots!Pipes
<1>1. /\ post[s] = "copying" /\ postPos[s] = Size
      /\ Slots!CloseWriter(postPipe[s])
      /\ UNCHANGED <<dataPipe, requestedOffset, senderOffset, req, recv, initDone, bytesToSkip,
                     hand, out>>
  BY DEF CopyDone, offsetVars, downloadVars
<1>2. /\ \A t \in Posts : t # s => /\ post'[t] = post[t] /\ postPipe'[t] = postPipe[t]
                                   /\ postPos'[t] = postPos[t]
      /\ post'[s] = "done"
  BY <1>0 DEF CopyDone, Return
<1>3. CASE postPipe[s] # d \/ dataPipe # d
  <2>1. postPipe[s] # d => pipe'[d] = pipe[d]
    BY <1>0, <1>1 DEF Slots!CloseWriter
  <2> QED
    BY <1>1, <1>2, <1>3, <2>1, CurrentKept DEF Feeds, offsetVars
<1>4. CASE postPipe[s] = d /\ dataPipe = d
  <2>1. Reader(d) /\ InOrder(d) /\ \A t \in Posts : Feeds(t, d) => Continues(t, d)
    BY <1>4 DEF CurrentInv
  <2>2. pipe'[d] # "open"
    BY <1>0, <1>1, <1>4 DEF Slots!CloseWriter
  <2>3. HasUnit(d)' <=> HasUnit(d)
    BY <1>1 DEF HasUnit
  <2>4. ASSUME HasUnit(d)
        PROVE  hand[d] = req[d].start
    <3>1. CASE pipe[d] # "open"
      BY <2>1, <2>4, <3>1 DEF Reader
    <3>2. CASE pipe[d] = "open"
      <4>1. Continues(s, d)
        BY <1>1, <1>4, <2>1, <3>2 DEF Feeds
      <4>2. ~initDone[d]
        BY <2>1, <2>4 DEF Reader, HasUnit
      <4>3. Size = senderOffset + 1 /\ hand[d] = senderOffset /\ senderOffset <= req[d].start
        BY <1>1, <2>4, <4>1, <4>2 DEF Continues
      <4> QED
        BY <1>0, <4>3, SizeAssumption
    <3> QED
      BY <3>1, <3>2
  <2>5. Reader(d)' /\ InOrder(d)'
    BY <1>1, <2>1, <2>2, <2>3, <2>4 DEF Reader, InOrder
  <2>6. \A t \in Posts : ~Feeds(t, d)'
    BY <2>2 DEF Feeds
  <2>7. Fresh(d)'
    BY <1>1, <2>1 DEF Fresh, Reader, Streaming
  <2> QED
    BY <2>5, <2>6, <2>7 DEF CurrentInv
<1> QED
  BY <1>3, <1>4

\* A POST that closes pipes on its way out takes them out of the slot, or has one
\* that no slot holds.
LEMMA PostLeavesKeeps ==
    ASSUME TypeInv, NEW d \in Receivers, Fresh(d), CurrentInv(d), NEW s \in Posts,
           \/ Refuse(s) \/ CopyFails(s) \/ SendPost(s) \/ WatchPost(s) \/ WatchPostFires(s)
           \/ LosePost(s)
    PROVE  Fresh(d)' /\ CurrentInv(d)'
<1> USE NoneIsNoReceiver
<1>0. /\ post \in [Posts -> {"idle", "found", "copying", "notReady", "refused", "done"}]
      /\ postPipe \in [Posts -> Receivers \cup {None}]
      /\ postPos \in [Posts -> Nat]
      /\ pipe \in [Slots!Pipes -> {"none", "open", "eof", "broken"}] /\ d \in Slots!Pipes
  BY SizeAssumption DEF TypeInv, PostTypes, PipesInv, Slots!PipesTypeOK, Slots!Pipes
<1>1. UNCHANGED downloadVars /\ UNCHANGED offsetVars
  BY DEF Refuse, CopyFails, SendPost, WatchPost, WatchPostFires, LosePost
<1>2. CASE Refuse(s) \/ WatchPostFires(s)
  <2>1. /\ dataPipe' # d
        /\ \A t \in Posts : post'[t] = "copying" => post[t] = "copying" /\ postPipe'[t] = postPipe[t]
    BY <1>0, <1>2 DEF Refuse, WatchPostFires, Return, Slots!ClosePipes
  <2> QED
    BY <1>1, <2>1, CurrentKept DEF downloadVars
<1>3. CASE CopyFails(s)
  <2>1. /\ post[s] = "copying" /\ post'[s] = "done" /\ Slots!ClosePipesIfMatch(postPipe[s])
        /\ \A t \in Posts : t # s => /\ post'[t] = post[t] /\ postPipe'[t] = postPipe[t]
                                     /\ postPos'[t] = postPos[t]
    BY <1>0, <1>3 DEF CopyFails, Return
  <2>2. CASE postPipe[s] = d
    <3>1. dataPipe' # d
      BY <2>1, <2>2 DEF Slots!ClosePipesIfMatch
    <3> QED
      BY <1>1, <2>1, <3>1, CurrentKept DEF downloadVars
  <2>3. CASE postPipe[s] # d
    <3>1. (dataPipe' = d => dataPipe = d) /\ pipe'[d] = pipe[d]
      BY <1>0, <2>1, <2>3 DEF Slots!ClosePipesIfMatch
    <3> QED
      BY <1>1, <2>1, <2>3, <3>1, CurrentKept DEF downloadVars, Feeds
  <2> QED
    BY <2>2, <2>3
<1>4. CASE SendPost(s) \/ WatchPost(s) \/ LosePost(s)
  <2>1. /\ UNCHANGED slotVars /\ postPipe' = postPipe
        /\ \A t \in Posts : post[t] = "copying" => post'[t] = post[t] /\ postPos'[t] = postPos[t]
        /\ \A t \in Posts : post'[t] = "copying" => post[t] = "copying"
    BY <1>0, <1>4 DEF SendPost, WatchPost, LosePost
  <2> QED
    BY <1>1, <2>1, CurrentKept DEF downloadVars, slotVars, Feeds
<1> QED
  BY <1>2, <1>3, <1>4

(***************************************************************************)
(* Every step of the handlers, the sender and the sweep keeps the argument *)
(* for the receiver in the slot.                                           *)
(***************************************************************************)
LEMMA CurrentStep ==
    ASSUME TypeInv, OneAtWork, NEW d \in Receivers, Fresh(d), CurrentInv(d), [Next]_vars
    PROVE  Fresh(d)' /\ CurrentInv(d)'
<1>1. ASSUME DownloadStep(d) \/ WatchDownload(d) \/ LoseReceiver(d)
      PROVE  Fresh(d)' /\ CurrentInv(d)'
  BY <1>1, OwnArrivalKeeps, OwnReadKeeps, OwnRereadKeeps, OwnCopyKeeps, OwnWatchKeeps
     DEF DownloadStep
<1>2. ASSUME NEW e \in Receivers, e # d, DownloadStep(e) \/ WatchDownload(e) \/ LoseReceiver(e)
      PROVE  Fresh(d)' /\ CurrentInv(d)'
  BY <1>2, OtherDownloadKeeps
<1>3. ASSUME NEW s \in Posts,
             \/ SendPost(s) \/ PostStep(s) \/ WatchPost(s) \/ WatchPostFires(s) \/ LosePost(s)
      PROVE  Fresh(d)' /\ CurrentInv(d)'
  BY <1>3, BindKeeps, CopyDoneKeeps, PostLeavesKeeps DEF PostStep
<1>4. CASE TakeCommand \/ Sweep \/ CloseClearsQueue \/ UNCHANGED vars
  <2>1. UNCHANGED <<slotVars, offsetVars, downloadVars, postVars>>
    BY <1>4 DEF TakeCommand, Sweep, CloseClearsQueue, vars
  <2> QED
    BY <2>1, CurrentKept DEF slotVars, downloadVars, postVars, Feeds
<1>5. CASE CloseSession
  <2>1. dataPipe' # d /\ UNCHANGED <<downloadVars, postVars>>
    BY <1>5, NoneIsNoReceiver DEF CloseSession, Slots!ClosePipes
  <2> QED
    BY <2>1, CurrentKept DEF downloadVars, postVars
<1>6. ASSUME NEW u \in Uploads, UploadHandlerOnPipes(u)
      PROVE  Fresh(d)' /\ CurrentInv(d)'
  <2>1. dataPipe' = dataPipe /\ pipe'[d] = pipe[d]
    BY <1>6, UploadLeavesDownload DEF TypeInv
  <2>2. UNCHANGED <<offsetVars, downloadVars, postVars>>
    BY <1>6 DEF UploadHandlerOnPipes
  <2> QED
    BY <2>1, <2>2, CurrentKept DEF downloadVars, postVars, Feeds
<1> QED
  BY <1>1, <1>2, <1>3, <1>4, <1>5, <1>6 DEF Next

-----------------------------------------------------------------------------
(* The end of a pipe.  A download's pipe comes to EOF when the POST that   *)
(* fills it has handed over its last unit; what the reader has then sent   *)
(* or holds is the whole rest of the file.                                 *)

\* The reader has a unit in its hand only between its first Read and the second look at
\* the offsets; a first Read that returned none found its pipe closed; and a pipe that is
\* open or at its end has a handler that reads it.
Holding(d) ==
    /\ hand[d] # None => recv[d] = "reread"
    /\ recv[d] = "reread" /\ hand[d] = None => pipe[d] # "open"
    /\ pipe[d] \in {"open", "eof"} => recv[d] \in Streaming

\* How a step changes the pipe of a download, and who can put it in the slot.
LEMMA PipeOfDownload ==
    ASSUME TypeInv, NEW d \in Receivers, [Next]_vars, ~Install(d)
    PROVE  /\ dataPipe' = d => dataPipe = d
           /\ \/ pipe'[d] = pipe[d]
              \/ pipe'[d] = "broken"
              \/ /\ pipe[d] = "open" /\ pipe'[d] = "eof"
                 /\ \E s \in Posts : CopyDone(s) /\ postPipe[s] = d
<1> USE NoneIsNoReceiver
<1> DEFINE Goal == /\ dataPipe' = d => dataPipe = d
                   /\ \/ pipe'[d] = pipe[d]
                      \/ pipe'[d] = "broken"
                      \/ /\ pipe[d] = "open" /\ pipe'[d] = "eof"
                         /\ \E s \in Posts : CopyDone(s) /\ postPipe[s] = d
<1>0. pipe \in [Slots!Pipes -> {"none", "open", "eof", "broken"}] /\ d \in Slots!Pipes
  BY DEF TypeInv, PipesInv, Slots!PipesTypeOK, Slots!Pipes
<1>a. UNCHANGED slotVars => Goal
  BY DEF slotVars
<1>b. ASSUME NEW p, Slots!ClosePipesIfMatch(p)
      PROVE  Goal
  BY <1>0, <1>b DEF Slots!ClosePipesIfMatch
<1>c. Slots!ClosePipes => Goal
  BY <1>0 DEF Slots!ClosePipes
<1>1. ASSUME NEW e \in Receivers, DownloadStep(e) \/ WatchDownload(e) \/ LoseReceiver(e)
      PROVE  Goal
  <2>1. CASE Install(e)
    <3>1. e # d
      BY <2>1
    <3> QED
      BY <1>0, <2>1, <3>1 DEF Install, Slots!InstallDataPipe
  <2>2. CASE ~Install(e)
    <3>1. UNCHANGED slotVars \/ Slots!ClosePipesIfMatch(e)
      BY <1>1, <2>2 DEF DownloadStep, Enqueue, NextRead, ReadEnds, Reread, Copy, Finish, Deliver,
                        WatchDownload, LoseReceiver
    <3> QED
      BY <1>a, <1>b, <3>1
  <2> QED
    BY <2>1, <2>2
<1>2. ASSUME NEW s \in Posts,
             SendPost(s) \/ PostStep(s) \/ WatchPost(s) \/ WatchPostFires(s) \/ LosePost(s)
      PROVE  Goal
  <2>1. CASE CopyDone(s)
    BY <1>0, <2>1 DEF CopyDone, Slots!CloseWriter
  <2>2. CASE ~CopyDone(s)
    <3>1. \/ UNCHANGED slotVars
          \/ Slots!ClosePipes
          \/ \E p : Slots!ClosePipesIfMatch(p)
      BY <1>2, <2>2 DEF SendPost, PostStep, BindPipe, Refuse, CopyFails, WatchPost,
                        WatchPostFires, LosePost
    <3> QED
      BY <1>a, <1>b, <1>c, <3>1
  <2> QED
    BY <2>1, <2>2
<1>3. CASE TakeCommand \/ Sweep \/ CloseSession \/ CloseClearsQueue \/ UNCHANGED vars
  BY <1>3, <1>a, <1>c DEF TakeCommand, Sweep, CloseSession, CloseClearsQueue, vars
<1>4. ASSUME NEW u \in Uploads, UploadHandlerOnPipes(u)
      PROVE  Goal
  BY <1>4, UploadLeavesDownload DEF TypeInv
<1> QED
  BY <1>1, <1>2, <1>3, <1>4 DEF Next

\* What the handler of d keeps changes in the handler's own steps only.
LEMMA ReaderLeftAlone ==
    ASSUME TypeInv, NEW d \in Receivers, [Next]_vars, ~DownloadStep(d)
    PROVE  /\ req' = req /\ recv'[d] = recv[d] /\ initDone'[d] = initDone[d]
           /\ hand'[d] = hand[d] /\ out'[d] = out[d]
<1>1. ASSUME NEW e \in Receivers, e # d, DownloadStep(e) \/ WatchDownload(e) \/ LoseReceiver(e)
      PROVE  /\ req' = req /\ recv'[d] = recv[d] /\ initDone'[d] = initDone[d]
             /\ hand'[d] = hand[d] /\ out'[d] = out[d]
  BY <1>1, OtherDownload
<1>2. CASE WatchDownload(d) \/ LoseReceiver(d)
  BY <1>2 DEF WatchDownload, LoseReceiver, downloadVars
<1>3. ASSUME NEW s \in Posts,
             SendPost(s) \/ PostStep(s) \/ WatchPost(s) \/ WatchPostFires(s) \/ LosePost(s)
      PROVE  UNCHANGED downloadVars
  BY <1>3 DEF SendPost, PostStep, BindPipe, Refuse, CopyDone, CopyFails, WatchPost,
              WatchPostFires, LosePost
<1>4. CASE TakeCommand \/ Sweep \/ CloseSession \/ CloseClearsQueue \/ UNCHANGED vars
  BY <1>4 DEF TakeCommand, Sweep, CloseSession, CloseClearsQueue, vars, downloadVars
<1>5. ASSUME NEW u \in Uploads, UploadHandlerOnPipes(u)
      PROVE  UNCHANGED downloadVars
  BY <1>5 DEF UploadHandlerOnPipes
<1> QED
  BY <1>1, <1>2, <1>3, <1>4, <1>5 DEF Next, downloadVars

LEMMA HoldingStep ==
    ASSUME TypeInv, NEW d \in Receivers, Holding(d), [Next]_vars
    PROVE  Holding(d)'
<1> USE NoneIsNoReceiver
<1>0. /\ recv \in [Receivers -> {"found", "queued", "done"} \cup Streaming]
      /\ hand \in [Receivers -> Units \cup {None}]
      /\ postPos \in [Posts -> 0..Size]
      /\ pipe \in [Slots!Pipes -> {"none", "open", "eof", "broken"}] /\ d \in Slots!Pipes
  BY DEF TypeInv, DownloadTypes, PostTypes, PipesInv, Slots!PipesTypeOK, Slots!Pipes
<1>1. CASE ~DownloadStep(d)
  <2>1. ~Install(d)
    BY <1>1 DEF DownloadStep
  <2>2. recv'[d] = recv[d] /\ hand'[d] = hand[d]
    BY <1>1, ReaderLeftAlone
  <2>3. \/ pipe'[d] = pipe[d] \/ pipe'[d] = "broken"
        \/ pipe[d] = "open" /\ pipe'[d] = "eof"
    BY <2>1, PipeOfDownload
  <2> QED
    BY <2>2, <2>3 DEF Holding
<1>f. ASSUME Finish(d), hand'[d] = None
      PROVE  Holding(d)'
  <2>1. recv'[d] = "done" /\ pipe'[d] = "broken"
    BY <1>0, <1>f DEF Finish, At, Slots!ClosePipesIfMatch
  <2> QED
    BY <1>f, <2>1 DEF Holding
<1>2. CASE Enqueue(d)
  <2>1. recv[d] = "found" /\ recv'[d] = "queued" /\ hand' = hand /\ pipe' = pipe
    BY <1>0, <1>2 DEF Enqueue, At, slotVars
  <2> QED
    BY <2>1 DEF Holding, Streaming
<1>3. CASE Install(d)
  <2>1. recv[d] = "queued" /\ recv'[d] = "top" /\ hand' = hand
    BY <1>0, <1>3 DEF Install, At
  <2> QED
    BY <2>1 DEF Holding, Streaming
<1>4. CASE NextRead(d) \/ ReadEnds(d)
  <2>1. recv[d] # "reread" /\ hand[d] = None /\ hand'[d] = None
    BY <1>0, <1>4 DEF NextRead, ReadEnds, Holding
  <2>2. CASE Finish(d)
    BY <1>f, <2>1, <2>2
  <2>3. CASE ~Finish(d)
    <3>1. /\ pipe' = pipe
          /\ recv'[d] \in Streaming
          /\ recv'[d] = "reread" => pipe[d] # "open"
      BY <1>0, <1>4, <2>3 DEF NextRead, ReadEnds, At, slotVars, Streaming
    <3> QED
      BY <2>1, <3>1 DEF Holding
  <2> QED
    BY <2>2, <2>3
<1>5. CASE Reread(d)
  <2>1. hand'[d] = None
    BY <1>0, <1>5 DEF Reread
  <2>2. CASE Finish(d)
    BY <1>f, <2>1, <2>2
  <2>3. CASE ~Finish(d)
    <3>1. At(d, "top")
      BY <1>5, <2>3 DEF Reread, Deliver
    <3>2. recv'[d] = "top"
      BY <1>0, <3>1 DEF At
    <3> QED
      BY <2>1, <3>2 DEF Holding, Streaming
  <2> QED
    BY <2>2, <2>3
<1>6. ASSUME NEW s \in Posts, Copy(s, d)
      PROVE  Holding(d)'
  <2>1. recv[d] # "reread" /\ hand[d] = None
    BY <1>6 DEF Copy, Holding
  <2>2. postPos[s] # None
    BY <1>0, <1>6, SizeAssumption, UnitsAssumption DEF Copy
  <2>3. CASE recv[d] = "first"
    <3>1. recv'[d] = "reread" /\ hand'[d] = postPos[s]
      BY <1>0, <1>6, <2>3 DEF Copy, At
    <3> QED
      BY <2>2, <3>1 DEF Holding, Streaming
  <2>4. CASE recv[d] # "first"
    <3>1. hand'[d] = None
      BY <1>6, <2>1, <2>4 DEF Copy
    <3>2. CASE Finish(d)
      BY <1>f, <3>1, <3>2
    <3>3. CASE ~Finish(d)
      <4>1. At(d, "top")
        BY <1>6, <2>4, <3>3 DEF Copy, Deliver
      <4>2. recv'[d] = "top"
        BY <1>0, <4>1 DEF At
      <4> QED
        BY <3>1, <4>2 DEF Holding, Streaming
    <3> QED
      BY <3>2, <3>3
  <2> QED
    BY <2>3, <2>4
<1> QED
  BY <1>1, <1>2, <1>3, <1>4, <1>5, <1>6 DEF DownloadStep

\* A receiver in order has no more than the rest of the file.
LEMMA InOrderFits ==
    ASSUME TypeInv, NEW d \in Receivers, InOrder(d)
    PROVE  Len(out[d]) \in Nat /\ req[d].start + Len(out[d]) <= Size
<1>0. out[d] \in Seq(Units) /\ req[d].start \in 0..Size-1
  BY RequestsAssumption DEF TypeInv, DownloadTypes
<1>1. Len(out[d]) \in Nat /\ DOMAIN out[d] = 1..Len(out[d])
  BY <1>0
<1>2. CASE Len(out[d]) = 0
  BY <1>0, <1>2, SizeAssumption
<1>3. CASE Len(out[d]) > 0
  <2>1. Len(out[d]) \in DOMAIN out[d]
    BY <1>1, <1>3
  <2>2. out[d][Len(out[d])] = req[d].start + Len(out[d]) - 1
    BY <2>1 DEF InOrder
  <2>3. out[d][Len(out[d])] \in Units
    BY <1>0, <2>1
  <2> QED
    BY <1>0, <1>1, <2>2, <2>3, SizeAssumption DEF Units
<1> QED
  BY <1>1, <1>2, <1>3

\* When the body of the POST that feeds a reader ends, the reader has the rest of the file,
\* and a unit in its hand is the one asked for.
LEMMA WholeWhenDone ==
    ASSUME TypeInv, NEW d \in Receivers, Holding(d), InOrder(d),
           recv[d] \in Streaming, pipe[d] = "open",
           ~initDone[d] => out[d] = <<>>,
           recv[d] \in {"first", "reread"} => ~initDone[d],
           recv[d] = "reading" => initDone[d],
           NEW s \in Posts, postPos[s] = Size, Continues(s, d)
    PROVE  /\ Kept(d) = Size - req[d].start
           /\ HasUnit(d) => senderOffset = req[d].start
<1>0. /\ senderOffset \in 0..Size-1 /\ req[d].start \in 0..Size-1
      /\ bytesToSkip[d] \in Nat /\ Size \in Nat
  BY SizeAssumption, RequestsAssumption DEF TypeInv, SessionTypes, DownloadTypes, Units
<1>1. Len(out[d]) \in Nat /\ req[d].start + Len(out[d]) <= Size
  BY InOrderFits
<1>2. CASE initDone[d]
  <2>1. hand[d] = None /\ ~HasUnit(d)
    BY <1>2 DEF Holding, HasUnit
  <2>2. Size + bytesToSkip[d] = req[d].start + Len(out[d])
    BY <1>2 DEF Continues
  <2>3. Len(out[d]) = Size - req[d].start
    BY ONLY <1>0, <1>1, <2>2
  <2> QED
    BY <1>1, <2>1, <2>3 DEF Kept
<1>3. CASE ~initDone[d]
  <2>1. recv[d] = "reread"
    <3>1. recv[d] \notin {"top", "first"}
      BY <1>0, <1>3 DEF Continues
    <3> QED
      BY <1>3, <3>1 DEF Streaming
  <2>2. hand[d] # None /\ HasUnit(d)
    BY <2>1 DEF Holding, HasUnit
  <2>3. Size = senderOffset + 1 /\ senderOffset <= req[d].start
    BY <1>3, <2>2 DEF Continues
  <2>4. senderOffset = req[d].start /\ 1 = Size - req[d].start
    BY ONLY <1>0, <2>3
  <2>5. Len(out[d]) = 0
    BY <1>3
  <2> QED
    BY <2>2, <2>4, <2>5 DEF Kept
<1> QED
  BY <1>2, <1>3

\* At the end of its pipe a reader keeps what it has, but for a unit in its hand that the
\* offsets tell it to skip.
LEMMA KeptAtEOF ==
    ASSUME TypeInv, NEW d \in Receivers, Holding(d), [Next]_vars,
           pipe[d] = "eof", pipe'[d] = "eof"
    PROVE  /\ req' = req
           /\ HasUnit(d)' => HasUnit(d)
           /\ \/ Kept(d)' = Kept(d)
              \/ /\ Reread(d) /\ HasUnit(d) /\ senderOffset < requestedOffset
                 /\ out' = out /\ hand'[d] = None
<1> USE NoneIsNoReceiver
<1>0. /\ recv \in [Receivers -> {"found", "queued", "done"} \cup Streaming]
      /\ hand \in [Receivers -> Units \cup {None}]
      /\ out \in [Receivers -> Seq(Units)]
      /\ requestedOffset \in Nat /\ senderOffset \in Nat
      /\ pipe \in [Slots!Pipes -> {"none", "open", "eof", "broken"}] /\ d \in Slots!Pipes
  BY SizeAssumption
     DEF TypeInv, DownloadTypes, SessionTypes, Units, PipesInv, Slots!PipesTypeOK, Slots!Pipes
<1>1. recv[d] \in Streaming /\ ~Finish(d)
  BY <1>0 DEF Holding, Finish, Slots!ClosePipesIfMatch
<1>2. CASE ~DownloadStep(d)
  BY <1>2, ReaderLeftAlone DEF Kept, HasUnit
<1>3. CASE NextRead(d) \/ ReadEnds(d)
  <2>1. hand[d] = None /\ hand'[d] = None /\ out' = out /\ req' = req
    BY <1>0, <1>1, <1>3 DEF NextRead, ReadEnds, Holding
  <2> QED
    BY <2>1 DEF Kept, HasUnit
<1>4. CASE Reread(d)
  <2>1. /\ HasUnit(d) /\ hand[d] \in Units /\ hand'[d] = None /\ req' = req
        /\ ~(requestedOffset - senderOffset < 0)
    BY <1>0, <1>1, <1>4 DEF Reread, HasUnit
  <2>2. CASE requestedOffset - senderOffset > 0
    <3>1. senderOffset < requestedOffset
      BY <1>0, <2>2
    <3> QED
      BY <1>4, <2>1, <2>2, <3>1 DEF Reread, HasUnit
  <2>3. CASE ~(requestedOffset - senderOffset > 0)
    <3>1. out' = [out EXCEPT ![d] = Append(@, hand[d])]
      BY <1>1, <1>4, <2>1, <2>3 DEF Reread, Deliver, HasUnit
    <3>2. Len(out'[d]) = Len(out[d]) + 1 /\ Len(out[d]) \in Nat
      <4>1. out'[d] = Append(out[d], hand[d]) /\ out[d] \in Seq(Units)
        BY <1>0, <3>1
      <4> QED
        BY <2>1, <4>1
    <3> QED
      BY <2>1, <3>2 DEF Kept, HasUnit
  <2> QED
    BY <2>2, <2>3
<1>5. ~(Enqueue(d) \/ Install(d))
  BY <1>1 DEF Enqueue, Install, Streaming
<1>6. \A s \in Posts : ~Copy(s, d)
  BY DEF Copy
<1> QED
  BY <1>2, <1>3, <1>4, <1>5, <1>6 DEF DownloadStep

\* Who writes the offsets of the session, with one receiver: its own install, and a bind.
LEMMA OffsetsChange ==
    ASSUME NEW d, Receivers = {d}, [Next]_vars, ~Install(d), \A s \in Posts : ~BindPipe(s)
    PROVE  UNCHANGED offsetVars
<1>1. ASSUME NEW e \in Receivers, DownloadStep(e) \/ WatchDownload(e) \/ LoseReceiver(e)
      PROVE  UNCHANGED offsetVars
  <2>1. ~Install(e)
    OBVIOUS
  <2> QED
    BY <1>1, <2>1 DEF DownloadStep, Enqueue, NextRead, ReadEnds, Reread, Copy, WatchDownload,
                      LoseReceiver
<1>2. ASSUME NEW s \in Posts,
             SendPost(s) \/ PostStep(s) \/ WatchPost(s) \/ WatchPostFires(s) \/ LosePost(s)
      PROVE  UNCHANGED offsetVars
  BY <1>2 DEF SendPost, PostStep, Refuse, CopyDone, CopyFails, WatchPost, WatchPostFires,
              LosePost
<1>3. CASE TakeCommand \/ Sweep \/ CloseSession \/ CloseClearsQueue \/ UNCHANGED vars
  BY <1>3 DEF TakeCommand, Sweep, CloseSession, CloseClearsQueue, vars, offsetVars
<1>4. ASSUME NEW u \in Uploads, UploadHandlerOnPipes(u)
      PROVE  UNCHANGED offsetVars
  BY <1>4 DEF UploadHandlerOnPipes
<1> QED
  BY <1>1, <1>2, <1>3, <1>4 DEF Next

\* A receiver alone in its session: the POST that writes into its pipe was bound at or
\* before the offset it asked for, and at the end of the pipe nothing is left to skip.
LoneEnd(d) ==
    /\ \A s \in Posts : post[s] = "copying" /\ recv[d] \in Streaming /\ ~initDone[d]
                            => senderOffset <= req[d].start
    /\ pipe[d] = "eof" => /\ Kept(d) = Size - req[d].start
                          /\ HasUnit(d) => senderOffset = req[d].start

\* handleData binds a POST to the lone receiver under its own offset, and only once.
LEMMA LoneBound ==
    ASSUME NEW d, Receivers = {d}, TypeInv, LoneInv(d), LoneEnd(d), [Next]_vars,
           NEW s \in Posts, post'[s] = "copying", recv'[d] \in Streaming, ~initDone'[d]
    PROVE  senderOffset' <= req'[d].start
<1> d \in Receivers
  OBVIOUS
<1>0. /\ post \in [Posts -> {"idle", "found", "copying", "notReady", "refused", "done"}]
      /\ recv \in [Receivers -> {"found", "queued", "done"} \cup Streaming]
      /\ initDone \in [Receivers -> BOOLEAN]
      /\ OneRequest(d) /\ OwnOffsets(d)
  BY DEF TypeInv, PostTypes, DownloadTypes, LoneInv
<1>1. ASSUME NEW t \in Posts, BindPipe(t)
      PROVE  senderOffset' <= req'[d].start
  <2>1. /\ post[t] = "found" /\ UNCHANGED downloadVars /\ senderOffset' = postPos[t]
        /\ \A r \in Posts : r # t => post'[r] = post[r]
        /\ post'[t] = "copying" => postPos[t] <= requestedOffset
    <3>1. postPos \in [Posts -> Nat] /\ requestedOffset \in Nat
      BY SizeAssumption DEF TypeInv, PostTypes, SessionTypes, Units
    <3> QED
      BY <1>0, <1>1, <3>1 DEF BindPipe, Return
  <2>2. s = t
    BY <1>0, <2>1 DEF OneRequest
  <2>3. requestedOffset = req[d].start
    BY <1>0, <2>1 DEF OwnOffsets, downloadVars
  <2> QED
    BY <2>1, <2>2, <2>3 DEF downloadVars
<1>2. CASE \A t \in Posts : ~BindPipe(t)
  <2>1. post[s] = "copying"
    <3>1. ASSUME NEW t \in Posts,
                 SendPost(t) \/ PostStep(t) \/ WatchPost(t) \/ WatchPostFires(t) \/ LosePost(t)
          PROVE  post[s] = "copying"
      BY <1>0, <1>2, <3>1 DEF SendPost, PostStep, Refuse, CopyDone, CopyFails, WatchPost,
                              WatchPostFires, LosePost, Return
    <3>2. ASSUME NEW e \in Receivers, DownloadStep(e) \/ WatchDownload(e) \/ LoseReceiver(e)
          PROVE  post' = post
      BY <3>2 DEF DownloadStep, Enqueue, Install, NextRead, ReadEnds, Reread, Copy,
                  WatchDownload, LoseReceiver, postVars
    <3>3. CASE TakeCommand \/ Sweep \/ CloseSession \/ CloseClearsQueue \/ UNCHANGED vars
      BY <3>3 DEF TakeCommand, Sweep, CloseSession, CloseClearsQueue, vars, postVars
    <3>4. ASSUME NEW u \in Uploads, UploadHandlerOnPipes(u)
          PROVE  post' = post
      BY <3>4 DEF UploadHandlerOnPipes, postVars
    <3> QED
      BY <3>1, <3>2, <3>3, <3>4 DEF Next
  <2>2. ~Install(d) /\ ~Enqueue(d)
    BY <1>0, <2>1 DEF Install, Enqueue, OwnOffsets
  <2>3. senderOffset' = senderOffset
    BY <1>2, <2>2, OffsetsChange DEF offsetVars
  <2>4. req' = req /\ recv[d] \in Streaming /\ ~initDone[d]
    <3>1. CASE ~DownloadStep(d)
      BY <3>1, ReaderLeftAlone
    <3>2. CASE DownloadStep(d)
      BY <1>0, <2>2, <3>2 DEF DownloadStep, NextRead, ReadEnds, Reread, Copy, Streaming
    <3> QED
      BY <3>1, <3>2
  <2> QED
    BY <2>1, <2>3, <2>4 DEF LoneEnd
<1> QED
  BY <1>1, <1>2

LEMMA LoneEndStep ==
    ASSUME NEW d, Receivers = {d}, TypeInv, Holding(d), LoneInv(d), LoneEnd(d), [Next]_vars
    PROVE  LoneEnd(d)'
<1> d \in Receivers
  OBVIOUS
<1>u. OneRequest(d) /\ OwnOffsets(d) /\ Served(d) /\ Aligned(d) /\ InOrder(d)
  BY DEF LoneInv
<1>1. ASSUME NEW s \in Posts, post'[s] = "copying", recv'[d] \in Streaming, ~initDone'[d]
      PROVE  senderOffset' <= req'[d].start
  BY <1>1, LoneBound
<1>2. ASSUME pipe'[d] = "eof"
      PROVE  /\ Kept(d)' = Size - req'[d].start
             /\ HasUnit(d)' => senderOffset' = req'[d].start
  <2>0. ~Install(d)
    BY <1>2 DEF Install, Slots!InstallDataPipe, Slots!Pipes
  <2>1. CASE pipe[d] = "eof"
    <3>1. /\ req' = req
          /\ HasUnit(d)' => HasUnit(d)
          /\ \/ Kept(d)' = Kept(d)
             \/ HasUnit(d) /\ senderOffset < requestedOffset
      BY <1>2, <2>1, KeptAtEOF
    <3>2. recv[d] \in Streaming /\ requestedOffset = req[d].start
      BY <1>u, <2>1 DEF Holding, OwnOffsets
    <3>3. HasUnit(d) => senderOffset = req[d].start
      BY <2>1 DEF LoneEnd
    <3>4. requestedOffset \in Nat
      BY SizeAssumption DEF TypeInv, SessionTypes, Units
    <3>5. Kept(d)' = Kept(d)
      BY <3>1, <3>2, <3>3, <3>4
    <3>6. HasUnit(d) => senderOffset' = senderOffset
      <4> SUFFICES ASSUME HasUnit(d)
                   PROVE  senderOffset' = senderOffset
        OBVIOUS
      <4>1. \A s \in Posts : ~BindPipe(s)
        BY <1>u DEF Served, HasUnit, BindPipe
      <4> QED
        BY <2>0, <4>1, OffsetsChange DEF offsetVars
    <3> QED
      BY <2>1, <3>1, <3>3, <3>5, <3>6 DEF LoneEnd
  <2>2. CASE pipe[d] # "eof"
    <3>1. pipe[d] = "open"
      BY <1>2, <2>0, <2>2, PipeOfDownload
    <3>2. PICK s \in Posts : CopyDone(s) /\ postPipe[s] = d
      BY <1>2, <2>0, <2>2, PipeOfDownload
    <3>3. /\ post[s] = "copying" /\ postPos[s] = Size
          /\ UNCHANGED <<offsetVars, downloadVars>>
      BY <3>2 DEF CopyDone
    <3>4. recv[d] \in Streaming
      BY <3>1 DEF Holding
    <3>5. Continues(s, d)
      BY <1>u, <3>3, <3>4 DEF Aligned, Continues, HasUnit, LoneEnd
    <3>6. Kept(d) = Size - req[d].start /\ (HasUnit(d) => senderOffset = req[d].start)
      <4>1. recv[d] # "done"
        BY <3>4 DEF Streaming
      <4> QED
        BY <1>u, <3>1, <3>3, <3>4, <3>5, <4>1, WholeWhenDone DEF Aligned
    <3> QED
      BY <3>3, <3>6 DEF Kept, HasUnit, offsetVars, downloadVars
  <2> QED
    BY <2>1, <2>2
<1> QED
  BY <1>1, <1>2 DEF LoneEnd

(***************************************************************************)
(* A receiver alone in its session is given what it asked for, and the end *)
(* of its pipe is the end of the file: for every file, range, kind of      *)
(* sender and loss of connections (seekingReader.Read, handleData).        *)
(***************************************************************************)
THEOREM LoneReceiverServedWhole ==
    ASSUME NEW d, Receivers = {d}
    PROVE  Spec => []ServedWhole
<1> DEFINE Inv == TypeInv /\ LoneInv(d) /\ Holding(d) /\ LoneEnd(d)
<1>1. Init => Inv
  <2> SUFFICES ASSUME Init
               PROVE  Inv
    OBVIOUS
  <2>1. LoneInv(d)
    BY DEF Init, QueueInit, Slots!PipesInit, LoneInv, OneRequest, OwnOffsets, Served,
           Aligned, InOrder, Streaming
  <2>2. pipe[d] = "none" /\ hand[d] = None /\ recv[d] = "found"
    BY DEF Init, Slots!PipesInit, Slots!Pipes
  <2>3. Holding(d) /\ LoneEnd(d)
    BY <2>2 DEF Holding, LoneEnd, Streaming
  <2> QED
    BY <2>1, <2>3, TypeInitially
<1>2. Inv /\ [Next]_vars => Inv'
  <2> d \in Receivers
    OBVIOUS
  <2> QED
    BY TypeStep, LoneStep, HoldingStep, LoneEndStep
<1>3. Inv => ServedWhole
  BY DEF LoneInv, LoneEnd, ServedWhole
<1> QED
  BY <1>1, <1>2, <1>3, PTL DEF Spec

-----------------------------------------------------------------------------
\* The receiver in the slot has, at the end of its pipe, all the rest or nothing.
CurrentEnd(d) ==
    dataPipe = d /\ pipe[d] = "eof" => Kept(d) \in {0, Size - req[d].start}

\* No step takes that from it.
LEMMA CurrentEndStep ==
    ASSUME TypeInv, NEW d \in Receivers, Holding(d), CurrentInv(d), CurrentEnd(d), [Next]_vars
    PROVE  CurrentEnd(d)'
<1> SUFFICES ASSUME dataPipe' = d, pipe'[d] = "eof"
             PROVE  Kept(d)' \in {0, Size - req'[d].start}
  BY DEF CurrentEnd
<1>0. ~Install(d)
  BY DEF Install, Slots!InstallDataPipe, Slots!Pipes
<1>1. dataPipe = d
  BY <1>0, PipeOfDownload
<1>2. Reader(d) /\ InOrder(d) /\ \A s \in Posts : Feeds(s, d) => Continues(s, d)
  BY <1>1 DEF CurrentInv
<1>3. CASE pipe[d] = "eof"
  <2>1. /\ req' = req
        /\ \/ Kept(d)' = Kept(d)
           \/ HasUnit(d) /\ out' = out /\ hand'[d] = None
    BY <1>3, KeptAtEOF
  <2>2. CASE HasUnit(d) /\ out' = out /\ hand'[d] = None
    <3>1. out[d] = <<>>
      BY <1>2, <2>2 DEF Reader, HasUnit
    <3>2. Len(out'[d]) = 0
      BY <2>2, <3>1
    <3> QED
      BY <2>2, <3>2 DEF Kept
  <2> QED
    BY <1>1, <1>3, <2>1, <2>2 DEF CurrentEnd
<1>4. CASE pipe[d] # "eof"
  <2>1. pipe[d] = "open"
    BY <1>0, <1>4, PipeOfDownload
  <2>2. PICK s \in Posts : CopyDone(s) /\ postPipe[s] = d
    BY <1>0, <1>4, PipeOfDownload
  <2>3. post[s] = "copying" /\ postPos[s] = Size /\ UNCHANGED downloadVars
    BY <2>2 DEF CopyDone
  <2>4. Continues(s, d)
    BY <1>2, <2>1, <2>2, <2>3 DEF Feeds
  <2>5. Kept(d) = Size - req[d].start
    BY <1>2, <2>1, <2>3, <2>4, WholeWhenDone DEF Reader
  <2> QED
    BY <2>3, <2>5 DEF Kept, downloadVars
<1> QED
  BY <1>3, <1>4

(***************************************************************************)
(* While the sender's connections hold, the receiver whose pipe sits in    *)
(* the slot is given only what it asked for, and at the end of its pipe    *)
(* all the rest of it or nothing: for every number of receivers that       *)
(* replace each other, POSTs, ranges and files, with either sender, the    *)
(* offsets that seekingReader.Read takes twice from the session fit the    *)
(* bytes that io.Copy puts into its pipe.                                  *)
(***************************************************************************)
THEOREM CurrentReceiverNotCorrupted ==
    ASSUME ~LossySender
    PROVE  Spec => []CurrentInOrder
<1> DEFINE Inv == /\ TypeInv /\ OneAtWork
                  /\ \A d \in Receivers :
                        Fresh(d) /\ CurrentInv(d) /\ Holding(d) /\ CurrentEnd(d)
<1>1. Init => Inv
  <2> SUFFICES ASSUME Init
               PROVE  Inv
    OBVIOUS
  <2>1. OneAtWork
    BY DEF Init, OneAtWork
  <2>2. \A d \in Receivers : Fresh(d) /\ CurrentInv(d) /\ CurrentEnd(d)
    BY NoneIsNoReceiver DEF Init, Slots!PipesInit, Fresh, CurrentInv, CurrentEnd
  <2>3. ASSUME NEW d \in Receivers
        PROVE  Holding(d)
    <3>1. pipe[d] = "none" /\ hand[d] = None /\ recv[d] = "found"
      BY DEF Init, Slots!PipesInit, Slots!Pipes
    <3> QED
      BY <3>1 DEF Holding
  <2> QED
    BY <2>1, <2>2, <2>3, TypeInitially
<1>2. Inv /\ [Next]_vars => Inv'
  BY TypeStep, OneAtWorkStep, CurrentStep, HoldingStep, CurrentEndStep
<1>3. Inv => CurrentInOrder
  BY DEF CurrentInv, CurrentEnd, CurrentInOrder
<1> QED
  BY <1>1, <1>2, <1>3, PTL DEF Spec

-----------------------------------------------------------------------------
(* The two paths of one session.  Each was specified with the other as its *)
(* environment; that a step of either is to the other a step it was        *)
(* specified with makes what is proved of each path alone hold of both     *)
(* together.  It needs the types of the captured pipes: a data handler     *)
(* closes pipes of downloads only, a pull handler pipes of uploads only.   *)

UploadTypes ==
    /\ uploadPipe \in Uploads \cup {None}
    /\ pullPipe \in [Pulls -> Uploads \cup {None}]

\* Closing the nil pipe is no step at all.
LEMMA CloseNothing ==
    ASSUME PipesInv, Slots!ClosePipesIfMatch(None) \/
                     (Slots!CloseWriter(None) /\ UNCHANGED <<dataPipe, uploadPipe>>)
    PROVE  UNCHANGED slotVars
<1>1. None \notin Slots!Pipes /\ pipe \in [Slots!Pipes -> {"none", "open", "eof", "broken"}]
  BY NoneIsNoReceiver, SlotsAssumption DEF PipesInv, Slots!PipesTypeOK, Slots!Pipes
<1> QED
  BY <1>1 DEF Slots!ClosePipesIfMatch, Slots!CloseWriter, slotVars

\* What a step of the download path does to the slots.
DownloadOnSlots ==
    \/ UNCHANGED slotVars
    \/ Slots!ClosePipes
    \/ \E d \in Receivers :
          \/ Slots!InstallDataPipe(d)
          \/ Slots!CloseWriter(d) /\ UNCHANGED <<dataPipe, uploadPipe>>
          \/ Slots!ClosePipesIfMatch(d)

LEMMA DownloadPathOnSlots ==
    ASSUME TypeInv, DownloadPathStep
    PROVE  DownloadOnSlots /\ UNCHANGED sessionVars
<1>1. ASSUME NEW d \in Receivers, DownloadStep(d) \/ WatchDownload(d) \/ LoseReceiver(d)
      PROVE  DownloadOnSlots /\ UNCHANGED sessionVars
  <2>1. UNCHANGED slotVars \/ Slots!InstallDataPipe(d) \/ Slots!ClosePipesIfMatch(d)
    BY <1>1 DEF DownloadStep, Enqueue, Install, NextRead, ReadEnds, Reread, Copy, Finish, Deliver,
                WatchDownload, LoseReceiver
  <2>2. UNCHANGED sessionVars
    BY <1>1 DEF DownloadStep, Enqueue, Install, NextRead, ReadEnds, Reread, Copy,
                WatchDownload, LoseReceiver
  <2> QED
    BY <2>1, <2>2 DEF DownloadOnSlots
<1>2. CASE TakeCommand
  BY <1>2 DEF TakeCommand, DownloadOnSlots
<1>3. ASSUME NEW s \in Posts,
             SendPost(s) \/ PostStep(s) \/ WatchPost(s) \/ WatchPostFires(s) \/ LosePost(s)
      PROVE  DownloadOnSlots /\ UNCHANGED sessionVars
  <2>1. UNCHANGED sessionVars
    BY <1>3 DEF SendPost, PostStep, BindPipe, Refuse, CopyDone, CopyFails, WatchPost,
                WatchPostFires, LosePost
  <2>2. CASE CopyDone(s) \/ CopyFails(s)
    <3>1. postPipe[s] \in Receivers \cup {None}
      BY DEF TypeInv, PostTypes
    <3>2. \/ Slots!CloseWriter(postPipe[s]) /\ UNCHANGED <<dataPipe, uploadPipe>>
          \/ Slots!ClosePipesIfMatch(postPipe[s])
      BY <2>2 DEF CopyDone, CopyFails
    <3> QED
      BY <2>1, <3>1, <3>2, CloseNothing DEF DownloadOnSlots, TypeInv
  <2>3. CASE ~(CopyDone(s) \/ CopyFails(s))
    BY <1>3, <2>1, <2>3 DEF SendPost, PostStep, BindPipe, Refuse, WatchPost, WatchPostFires,
                            LosePost, DownloadOnSlots
  <2> QED
    BY <2>2, <2>3
<1> QED
  BY <1>1, <1>2, <1>3 DEF DownloadPathStep

\* What a step of the upload path does to them.
LEMMA UploadPathOnSlots ==
    ASSUME PipesInv, UploadTypes, UploadPathStep
    PROVE  UNCHANGED slotVars \/ \E u \in Uploads : UploadHandlerOnPipes(u)
<1>0. UNCHANGED <<queueVars, offsetVars, sessionVars, downloadVars, senderVars, postVars>>
  BY DEF UploadPathStep
<1> USE DEF Up!InstallUploadPipe, Up!CloseWriter, Up!ClosePipesIfMatch, Up!Pipes, Up!pipeVars,
            Slots!InstallUploadPipe, Slots!CloseWriter, Slots!ClosePipesIfMatch, Slots!Pipes,
            slotVars
<1>1. ASSUME NEW u \in Uploads, Up!UploadStep(u) \/ Up!WatchUpload(u) \/ Up!LoseUploader(u)
      PROVE  UNCHANGED slotVars \/ UploadHandlerOnPipes(u)
  BY <1>0, <1>1
     DEF Up!UploadStep, Up!InstallUpload, Up!CheckOpen, Up!AnnounceUpload, Up!UploadDone,
         Up!UploadReturns, Up!UploadFails, Up!WatchUpload, Up!LoseUploader, UploadHandlerOnPipes
<1>2. CASE Up!TakeUpload
  BY <1>2 DEF Up!TakeUpload
<1>3. ASSUME NEW g \in Pulls, Up!SendPull(g) \/ Up!PullStep(g) \/ Up!LosePull(g)
      PROVE  UNCHANGED slotVars \/ \E u \in Uploads : UploadHandlerOnPipes(u)
  <2>1. CASE Up!PullFails(g)
    <3>1. Slots!ClosePipesIfMatch(pullPipe[g]) /\ pullPipe[g] \in Uploads \cup {None}
      BY <2>1 DEF Up!PullFails, UploadTypes
    <3> QED
      BY <1>0, <3>1, CloseNothing DEF UploadHandlerOnPipes
  <2>2. CASE ~Up!PullFails(g)
    BY <1>3, <2>2 DEF Up!SendPull, Up!PullStep, Up!BindPull, Up!Copy, Up!PullEOF, Up!LosePull
  <2> QED
    BY <2>1, <2>2
<1> QED
  BY <1>1, <1>2, <1>3 DEF UploadPathStep

\* To the download path every step of the session is a step it was specified with.
LEMMA SessionStepsDownload ==
    ASSUME PipesInv, UploadTypes, [SessionNext]_sessionVarsAll
    PROVE  [Next]_vars
<1>1. CASE DownloadPathStep
  BY <1>1 DEF DownloadPathStep, Next
<1>2. CASE UploadPathStep
  <2>1. UNCHANGED slotVars \/ \E u \in Uploads : UploadHandlerOnPipes(u)
    BY <1>2, UploadPathOnSlots
  <2> QED
    BY <1>2, <2>1 DEF UploadPathStep, Next, vars
<1>3. CASE Expiry
  BY <1>3 DEF Expiry, Next
<1>4. CASE UNCHANGED sessionVarsAll
  BY <1>4 DEF sessionVarsAll
<1> QED
  BY <1>1, <1>2, <1>3, <1>4 DEF SessionNext

\* And so it is to the upload path.
LEMMA SessionStepsUpload ==
    ASSUME TypeInv, [SessionNext]_sessionVarsAll
    PROVE  [Up!Next]_(Up!vars)
<1> USE DEF Up!vars, Up!uploadVars, Up!pullVars, Up!senderVars, Up!pipeVars
<1>1. CASE DownloadPathStep
  <2>1. DownloadOnSlots /\ UNCHANGED <<uploadPathVars, UploadPhase>>
    BY <1>1, DownloadPathOnSlots DEF DownloadPathStep, UploadPhase, sessionVars
  <2>2. UNCHANGED <<uploadReq, UploadPhase, Up!uploadVars, Up!pullVars, Up!senderVars>>
    BY <2>1 DEF uploadPathVars
  <2>3. CASE UNCHANGED slotVars
    BY <2>2, <2>3 DEF slotVars
  <2>4. CASE Slots!ClosePipes
    <3>1. Up!DataHandlerClosesPipes
      BY <2>2, <2>4 DEF Up!DataHandlerClosesPipes, Up!ClosePipes, Slots!ClosePipes, Up!Pipes,
                        Slots!Pipes
    <3> QED
      BY <3>1 DEF Up!Next
  <2>5. ASSUME NEW d \in Receivers,
               \/ Slots!InstallDataPipe(d)
               \/ Slots!CloseWriter(d) /\ UNCHANGED <<dataPipe, uploadPipe>>
               \/ Slots!ClosePipesIfMatch(d)
        PROVE  Up!Next
    <3>1. Up!DownloadHandlerOnPipes(d)
      BY <2>2, <2>5 DEF Up!DownloadHandlerOnPipes, Up!InstallDataPipe, Up!CloseWriter,
                        Up!ClosePipesIfMatch, Slots!InstallDataPipe, Slots!CloseWriter,
                        Slots!ClosePipesIfMatch, Up!Pipes, Slots!Pipes
    <3> QED
      BY <3>1 DEF Up!Next
  <2> QED
    BY <2>1, <2>3, <2>4, <2>5 DEF DownloadOnSlots
<1>2. CASE UploadPathStep
  BY <1>2 DEF UploadPathStep, Up!Next
<1>3. CASE Sweep /\ UNCHANGED uploadPathVars
  BY <1>3 DEF Sweep, uploadPathVars, UploadPhase, slotVars
<1>4. CASE CloseSession /\ UNCHANGED uploadPathVars
  <2>1. Up!CloseSession
    BY <1>4 DEF CloseSession, Up!CloseSession, Up!ClosePipes, Slots!ClosePipes, Up!Pipes,
                Slots!Pipes, uploadPathVars, UploadPhase
  <2> QED
    BY <2>1 DEF Up!Next
<1>5. CASE CloseClearsQueue /\ UNCHANGED uploadPathVars
  BY <1>5 DEF CloseClearsQueue, uploadPathVars, UploadPhase, slotVars
<1>6. CASE UNCHANGED sessionVarsAll
  BY <1>6 DEF sessionVarsAll, vars, slotVars, sessionVars, UploadPhase, uploadPathVars
<1> QED
  BY <1>1, <1>2, <1>3, <1>4, <1>5, <1>6 DEF SessionNext, Expiry

\* The upload path keeps the types its handlers need.
LEMMA UploadTypesStep ==
    ASSUME TypeInv, UploadTypes, [SessionNext]_sessionVarsAll
    PROVE  UploadTypes'
<1>1. TypeInv'
  BY SessionStepsDownload, TypeStep DEF TypeInv
<1>2. uploadPipe' \in Uploads \cup {None}
  BY <1>1 DEF TypeInv, PipesInv, Slots!PipesTypeOK
<1>3. pullPipe' \in [Pulls -> Uploads \cup {None}]
  <2>1. CASE UNCHANGED pullPipe
    BY <2>1 DEF UploadTypes
  <2>2. ASSUME NEW g \in Pulls, Up!BindPull(g)
        PROVE  pullPipe' \in [Pulls -> Uploads \cup {None}]
    BY <2>2 DEF Up!BindPull, UploadTypes
  <2>3. UNCHANGED pullPipe \/ \E g \in Pulls : Up!BindPull(g)
    BY DEF SessionNext, DownloadPathStep, UploadPathStep, Expiry, sessionVarsAll,
           uploadPathVars, Up!UploadStep, Up!InstallUpload, Up!CheckOpen, Up!AnnounceUpload,
           Up!UploadDone, Up!UploadReturns, Up!UploadFails, Up!WatchUpload, Up!LoseUploader,
           Up!TakeUpload, Up!SendPull, Up!PullStep, Up!Copy, Up!PullEOF, Up!PullFails,
           Up!LosePull, Up!pullVars
  <2> QED
    BY <2>1, <2>2, <2>3
<1> QED
  BY <1>2, <1>3 DEF UploadTypes

(***************************************************************************)
(* In a session with both of its paths each path runs as it was specified  *)
(* alone: for every number of handlers of either kind, files and requests  *)
(* (the pipe slots under Session.mu, the relay loop of the sender).        *)
(***************************************************************************)
THEOREM SessionComposes == SessionSpec => PathsCompose
<1> DEFINE Inv == TypeInv /\ UploadTypes
<1>1. SessionInit => Init /\ Up!Init /\ Inv
  <2> SUFFICES ASSUME SessionInit
               PROVE  Init /\ Up!Init /\ Inv
    OBVIOUS
  <2>1. Init /\ Up!Init /\ TypeInv
    BY TypeInitially DEF SessionInit
  <2>2. UploadTypes
    BY <2>1 DEF UploadTypes, Init, Slots!PipesInit, Up!Init
  <2> QED
    BY <2>1, <2>2
<1>2. Inv /\ [SessionNext]_sessionVarsAll => Inv' /\ [Next]_vars /\ [Up!Next]_(Up!vars)
  <2> SUFFICES ASSUME Inv, [SessionNext]_sessionVarsAll
               PROVE  Inv' /\ [Next]_vars /\ [Up!Next]_(Up!vars)
    OBVIOUS
  <2>1. [Next]_vars /\ [Up!Next]_(Up!vars)
    BY SessionStepsDownload, SessionStepsUpload DEF TypeInv
  <2> QED
    BY <2>1, TypeStep, UploadTypesStep
<1> QED
  BY <1>1, <1>2, PTL DEF SessionSpec, PathsCompose, Spec, Up!Spec

\* What is proved of the upload path, with the session's values.
UP == INSTANCE RelayUploadProofs
        WITH DataPipes <- Receivers, UploadPipes <- Uploads, NoPipe <- None,
             phase <- UploadPhase, sender <- puller

\* The assumptions of the upload path hold of the session.
LEMMA UploadAssumptions ==
    /\ UP!LengthAssumption /\ UP!PullsAssumption /\ UP!PipesAssumption
BY NoneIsNoReceiver, SlotsAssumption, UploadAssumption
   DEF UP!LengthAssumption, UP!PullsAssumption, UP!PipesAssumption, UP!Pipes

LEMMA SessionSavesUploads == SessionSpec => []Up!AckedUploadIsSaved
<1>1. UP!Spec => []UP!AckedUploadIsSaved
  BY UP!AcknowledgedIsSaved, UploadAssumptions
<1>2. Up!Spec => UP!Spec
  <2>1. Up!Init => UP!Init
    BY DEF Up!Init, UP!Init, Up!PipesInit, UP!PipesInit, Up!Pipes, UP!Pipes
  <2>2. [Up!Next]_(Up!vars) => [UP!Next]_(UP!vars)
    BY DEF Up!Next, UP!Next, Up!UploadStep, UP!UploadStep, Up!InstallUpload, UP!InstallUpload,
           Up!CheckOpen, UP!CheckOpen, Up!AnnounceUpload, UP!AnnounceUpload, Up!UploadDone,
           UP!UploadDone, Up!UploadReturns, UP!UploadReturns, Up!UploadFails, UP!UploadFails,
           Up!WatchUpload, UP!WatchUpload, Up!LoseUploader, UP!LoseUploader, Up!TakeUpload,
           UP!TakeUpload, Up!SendPull, UP!SendPull, Up!PullStep, UP!PullStep, Up!BindPull,
           UP!BindPull, Up!Copy, UP!Copy, Up!PullEOF, UP!PullEOF, Up!PullFails, UP!PullFails,
           Up!FinishPull, UP!FinishPull, Up!LosePull, UP!LosePull, Up!NextPoll, UP!NextPoll,
           Up!CopyBreaks, UP!CopyBreaks, Up!CloseSession,
           UP!CloseSession, Up!DataHandlerClosesPipes, UP!DataHandlerClosesPipes,
           Up!DownloadHandlerOnPipes, UP!DownloadHandlerOnPipes, Up!UploadAt, UP!UploadAt,
           Up!InstallUploadPipe, UP!InstallUploadPipe, Up!InstallDataPipe, UP!InstallDataPipe,
           Up!CloseWriter, UP!CloseWriter, Up!ClosePipes, UP!ClosePipes, Up!ClosePipesIfMatch,
           UP!ClosePipesIfMatch, Up!Pipes, UP!Pipes, Up!vars, UP!vars, Up!uploadVars,
           UP!uploadVars, Up!pullVars, UP!pullVars, Up!senderVars, UP!senderVars, Up!pipeVars,
           UP!pipeVars
  <2> QED
    BY <2>1, <2>2, PTL DEF Up!Spec, UP!Spec
<1>3. UP!AckedUploadIsSaved => Up!AckedUploadIsSaved
  BY DEF Up!AckedUploadIsSaved, UP!AckedUploadIsSaved
<1> QED
  BY <1>1, <1>2, <1>3, SessionComposes, PTL DEF PathsCompose

(***************************************************************************)
(* One session serves both ways at once: a receiver alone in it is given   *)
(* what it asked for, to the end, and every upload answered "ok" was read  *)
(* whole by the sender or lost with its connection, whatever the other     *)
(* path does meanwhile (handleDownload, handleData, handleUpload,          *)
(* handlePull).                                                            *)
(***************************************************************************)
THEOREM SessionServesBothWays ==
    ASSUME NEW d, Receivers = {d}
    PROVE  SessionSpec => [](ServedWhole /\ Up!AckedUploadIsSaved)
<1>1. Spec => []ServedWhole
  BY LoneReceiverServedWhole
<1> QED
  BY <1>1, SessionComposes, SessionSavesUploads, PTL DEF PathsCompose

=============================================================================
