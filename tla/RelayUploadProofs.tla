-------------------------- MODULE RelayUploadProofs --------------------------
(***************************************************************************)
(* What holds of the relay's upload path for every number of uploads and   *)
(* pulls and every length.                                                 *)
(***************************************************************************)
EXTENDS RelayUpload, TLAPS

-----------------------------------------------------------------------------
(* The pipe slots.                                                         *)

\* Every open pipe is in a slot, and a slot holds no broken pipe.
PipesInv == PipesTypeOK /\ OpenPipeInSlot /\ SlotNotBroken

\* Session.ClosePipesIfMatch, with the pipe of any handler.
LEMMA CloseIfMatchKeeps ==
    ASSUME PipesInv, NEW p, ClosePipesIfMatch(p)
    PROVE  PipesInv'
<1> USE DEF PipesInv, PipesTypeOK, OpenPipeInSlot, SlotNotBroken, ClosePipesIfMatch
<1>1. pipe' \in [Pipes -> {"none", "open", "eof", "broken"}]
  OBVIOUS
<1>2. \A q \in Pipes : pipe'[q] = IF q = p THEN "broken" ELSE pipe[q]
  OBVIOUS
<1>3. PipesTypeOK'
  BY <1>1 DEF Pipes
<1>4. OpenPipeInSlot' /\ SlotNotBroken'
  BY <1>2, PipesAssumption DEF Pipes
<1> QED
  BY <1>3, <1>4

\* Session.ClosePipes.
LEMMA CloseAllKeeps ==
    ASSUME PipesInv, ClosePipes
    PROVE  PipesInv'
BY PipesAssumption
   DEF PipesInv, PipesTypeOK, OpenPipeInSlot, SlotNotBroken, ClosePipes, Pipes

\* handleUpload installs its pipe and closes the one before it.
LEMMA InstallKeeps ==
    ASSUME PipesInv, NEW u \in UploadPipes, InstallUploadPipe(u)
    PROVE  PipesInv'
BY PipesAssumption
   DEF PipesInv, PipesTypeOK, OpenPipeInSlot, SlotNotBroken, InstallUploadPipe, Pipes

\* handleDownload does the same in its own slot.
LEMMA InstallDataKeeps ==
    ASSUME PipesInv, NEW d \in DataPipes, InstallDataPipe(d)
    PROVE  PipesInv'
BY PipesAssumption
   DEF PipesInv, PipesTypeOK, OpenPipeInSlot, SlotNotBroken, InstallDataPipe, Pipes

\* pw.Close() at the end of an upload.
LEMMA CloseWriterKeeps ==
    ASSUME PipesInv, NEW p, CloseWriter(p), UNCHANGED <<dataPipe, uploadPipe>>
    PROVE  PipesInv'
BY DEF PipesInv, PipesTypeOK, OpenPipeInSlot, SlotNotBroken, CloseWriter, Pipes

\* A step that touches no pipe.
LEMMA UntouchedKeeps ==
    ASSUME PipesInv, UNCHANGED pipeVars
    PROVE  PipesInv'
BY DEF PipesInv, PipesTypeOK, OpenPipeInSlot, SlotNotBroken, pipeVars, Pipes

\* The slots through every step of handleUpload, handlePull and the expiry.
LEMMA PipesStep == PipesInv /\ [Next]_vars => PipesInv'
<1> SUFFICES ASSUME PipesInv, [Next]_vars
             PROVE  PipesInv'
  OBVIOUS
<1>1. ASSUME NEW u \in UploadPipes, UploadStep(u) \/ WatchUpload(u) \/ LoseUploader(u)
      PROVE  PipesInv'
  <2>1. CASE InstallUpload(u)
    BY <2>1, InstallKeeps DEF InstallUpload
  <2>2. CASE UploadDone(u)
    BY <2>2, CloseWriterKeeps DEF UploadDone
  <2>3. CASE UploadReturns(u) \/ UploadFails(u) \/ WatchUpload(u)
    BY <2>3, CloseIfMatchKeeps DEF UploadReturns, UploadFails, WatchUpload
  <2>4. CASE CheckOpen(u) \/ AnnounceUpload(u) \/ LoseUploader(u)
    BY <2>4, CloseIfMatchKeeps, UntouchedKeeps DEF CheckOpen, AnnounceUpload, LoseUploader
  <2> QED
    BY <1>1, <2>1, <2>2, <2>3, <2>4 DEF UploadStep
<1>2. ASSUME NEW g \in Pulls, SendPull(g) \/ PullStep(g) \/ LosePull(g)
      PROVE  PipesInv'
  <2>1. CASE SendPull(g) \/ BindPull(g) \/ PullEOF(g) \/ LosePull(g)
    BY <2>1, UntouchedKeeps DEF SendPull, BindPull, PullEOF, LosePull
  <2>2. ASSUME NEW u \in UploadPipes, Copy(g, u)
        PROVE  PipesInv'
    BY <2>2, UntouchedKeeps DEF Copy
  <2>3. CASE PullFails(g)
    BY <2>3, CloseIfMatchKeeps DEF PullFails
  <2> QED
    BY <1>2, <2>1, <2>2, <2>3 DEF PullStep
<1>3. CASE TakeUpload \/ UNCHANGED vars
  BY <1>3, UntouchedKeeps DEF TakeUpload, vars
<1>4. CASE CloseSession \/ DataHandlerClosesPipes
  BY <1>4, CloseAllKeeps DEF CloseSession, DataHandlerClosesPipes
<1>5. ASSUME NEW d \in DataPipes, DownloadHandlerOnPipes(d)
      PROVE  PipesInv'
  BY <1>5, InstallDataKeeps, CloseWriterKeeps, CloseIfMatchKeeps DEF DownloadHandlerOnPipes
<1> QED
  BY <1>1, <1>2, <1>3, <1>4, <1>5 DEF Next

\* A fresh session has no pipe at all.
LEMMA PipesInitially == Init => PipesInv
BY PipesAssumption
   DEF Init, PipesInit, PipesInv, PipesTypeOK, OpenPipeInSlot, SlotNotBroken, Pipes

(***************************************************************************)
(* No upload's pipe is left open where neither a replacement nor the end   *)
(* of the session would close it (handleUpload, Session.ClosePipes).       *)
(***************************************************************************)
THEOREM NoPipeOrphaned == Spec => []OpenPipeInSlot
<1>1. PipesInv => OpenPipeInSlot
  BY DEF PipesInv
<1> QED
  BY <1>1, PipesInitially, PipesStep, PTL DEF Spec

(***************************************************************************)
(* The slot never offers a pipe closed with an error to the next           *)
(* /relay/pull handler.                                                    *)
(***************************************************************************)
THEOREM NoBrokenPipeOffered == Spec => []SlotNotBroken
<1>1. PipesInv => SlotNotBroken
  BY DEF PipesInv
<1> QED
  BY <1>1, PipesInitially, PipesStep, PTL DEF Spec

-----------------------------------------------------------------------------
(* Where the bytes of an upload go.                                        *)

\* What a pull handler knows, and what the sender knows of its pull.
PullInv ==
    /\ \A g \in Pulls : pull[g] \in {"idle", "found"} => pullPipe[g] = NoPipe
    /\ \A g \in Pulls : pull[g] = "copying" => pullPipe[g] \in UploadPipes
    /\ \A g \in Pulls : pull[g] \in {"found", "copying"} /\ sender # g => g \in lost
    /\ \A g \in Pulls : sender = g => pull[g] \in {"found", "copying"}
    /\ \A g \in Pulls : sender = g /\ pull[g] = "found" => got = 0
    /\ \A g \in Pulls : sender = g /\ pull[g] = "copying" => got <= sent[pullPipe[g]]

\* How many units of an upload were read, at its two ends.
SentInv ==
    /\ \A u \in UploadPipes : upload[u] = "found" => sent[u] = 0
    /\ \A u \in UploadPipes : upload[u] = "ok" => sent[u] = Length

Reading(g, u) == pull[g] = "copying" /\ pullPipe[g] = u /\ sender = g

\* Where the units that an upload got rid of are: nowhere yet, with a pull the
\* sender lost, with the pull the sender waits for, or on the sender's disk,
\* and then no more can follow.
Accounted(u) ==
    \/ sent[u] = 0
    \/ \E g \in lost : pullPipe[g] = u
    \/ \E g \in Pulls : Reading(g, u) /\ got = sent[u]
    \/ /\ pipe[u] # "open"
       /\ \E f \in saved : f.from = u /\ f.units = sent[u]

AckInv == PullInv /\ SentInv /\ \A u \in UploadPipes : Accounted(u)

SessionTypes == uploadReq \in UploadPipes \cup {NoPipe} /\ phase \in {"live", "closed"}

UploadTypes ==
    /\ upload \in [UploadPipes -> {"found", "check", "announce", "copying",
                                   "ok", "failed", "panicked"}]
    /\ uploadGone \in [UploadPipes -> BOOLEAN]
    /\ sent \in [UploadPipes -> 0..Length]

PullTypes ==
    /\ pull \in [Pulls -> {"idle", "found", "copying", "done"}]
    /\ pullPipe \in [Pulls -> UploadPipes \cup {NoPipe}]

SenderTypes ==
    /\ sender \in {"polling", "command", "stopped"} \cup Pulls
    /\ sender = "command" => name # NoPipe
    /\ name \in UploadPipes \cup {NoPipe}
    /\ got \in 0..Length
    /\ lost \subseteq Pulls
    /\ saved \subseteq Files
    /\ sender \in Pulls => name # NoPipe

TypeInv ==
    /\ PipesInv
    /\ SessionTypes
    /\ UploadTypes
    /\ PullTypes
    /\ SenderTypes

\* The groups of variables together are what the runs check as TypeOK.
LEMMA TypeInvImpliesTypeOK == TypeInv => TypeOK
BY DEF TypeInv, TypeOK, PipesInv, SessionTypes, UploadTypes, PullTypes, SenderTypes

\* A group of variables that a step leaves alone keeps its types.
LEMMA UnchangedKeepsTypes ==
    /\ SessionTypes /\ UNCHANGED <<uploadReq, phase>> => SessionTypes'
    /\ UploadTypes /\ UNCHANGED uploadVars => UploadTypes'
    /\ PullTypes /\ UNCHANGED pullVars => PullTypes'
    /\ SenderTypes /\ UNCHANGED senderVars => SenderTypes'
<1>1. SessionTypes /\ UNCHANGED <<uploadReq, phase>> => SessionTypes'
  BY DEF SessionTypes
<1>2. UploadTypes /\ UNCHANGED uploadVars => UploadTypes'
  BY DEF UploadTypes, uploadVars
<1>3. PullTypes /\ UNCHANGED pullVars => PullTypes'
  BY DEF PullTypes, pullVars
<1>4. SenderTypes /\ UNCHANGED senderVars => SenderTypes'
  BY DEF SenderTypes, senderVars, Files
<1> QED
  BY <1>1, <1>2, <1>3, <1>4

\* Every handler keeps the types; the sender reads no more than was sent.
LEMMA TypeStep == TypeInv /\ PullInv /\ [Next]_vars => TypeInv'
<1> SUFFICES ASSUME TypeInv, PullInv, [Next]_vars
             PROVE  TypeInv'
  OBVIOUS
<1> USE LengthAssumption, PullsAssumption, PipesAssumption
<1>0. PipesInv'
  BY PipesStep DEF TypeInv
<1>u. SessionTypes /\ UploadTypes /\ PullTypes /\ SenderTypes
  BY DEF TypeInv
<1>1. ASSUME NEW u \in UploadPipes, UploadStep(u) \/ WatchUpload(u) \/ LoseUploader(u)
      PROVE  TypeInv'
  <2>1. UploadTypes'
    BY <1>1, <1>u DEF UploadStep, InstallUpload, CheckOpen, AnnounceUpload, UploadDone,
       UploadReturns, UploadFails, WatchUpload, LoseUploader, UploadAt, UploadTypes, uploadVars
  <2>2. SessionTypes'
    BY <1>1, <1>u DEF UploadStep, InstallUpload, CheckOpen, AnnounceUpload, UploadDone,
       UploadReturns, UploadFails, WatchUpload, LoseUploader, SessionTypes
  <2>3. UNCHANGED <<pullVars, senderVars>>
    BY <1>1 DEF UploadStep, InstallUpload, CheckOpen, AnnounceUpload, UploadDone,
       UploadReturns, UploadFails, WatchUpload, LoseUploader
  <2> QED
    BY <1>0, <1>u, <2>1, <2>2, <2>3, UnchangedKeepsTypes DEF TypeInv
<1>2. CASE TakeUpload
  <2>1. SenderTypes' /\ SessionTypes'
    BY <1>2, <1>u DEF TakeUpload, SenderTypes, SessionTypes
  <2> QED
    BY <1>0, <1>2, <1>u, <2>1, UnchangedKeepsTypes DEF TakeUpload, TypeInv
<1>3. ASSUME NEW g \in Pulls, SendPull(g)
      PROVE  TypeInv'
  <2>1. SenderTypes'
    BY <1>3, <1>u DEF SendPull, SenderTypes
  <2>2. PullTypes'
    BY <1>3, <1>u DEF SendPull, PullTypes
  <2> QED
    BY <1>0, <1>3, <1>u, <2>1, <2>2, UnchangedKeepsTypes DEF SendPull, TypeInv
<1>4. ASSUME NEW g \in Pulls, BindPull(g)
      PROVE  TypeInv'
  <2>1. SenderTypes'
    BY <1>4, <1>u DEF BindPull, SenderTypes, NextPoll
  <2>2. PullTypes'
    BY <1>4, <1>u DEF BindPull, PullTypes, TypeInv, PipesInv, PipesTypeOK
  <2> QED
    BY <1>0, <1>4, <1>u, <2>1, <2>2, UnchangedKeepsTypes DEF BindPull, TypeInv
<1>5. ASSUME NEW g \in Pulls, NEW u \in UploadPipes, Copy(g, u)
      PROVE  TypeInv'
  <2>1. sent[u] + 1 \in 0..Length /\ (sender = g => got + 1 \in 0..Length)
    BY <1>5, <1>u DEF Copy, UploadTypes, SenderTypes, PullInv
  <2>2. UploadTypes'
    BY <1>5, <1>u, <2>1 DEF Copy, UploadTypes
  <2>3. SenderTypes'
    BY <1>5, <1>u, <2>1 DEF Copy, SenderTypes
  <2> QED
    BY <1>0, <1>5, <1>u, <2>2, <2>3, UnchangedKeepsTypes DEF Copy, TypeInv
<1>6. ASSUME NEW g \in Pulls, PullEOF(g) \/ PullFails(g)
      PROVE  TypeInv'
  <2>1. pull[g] = "copying" /\ FinishPull(g)
        /\ UNCHANGED <<uploadReq, phase, uploadVars, pullPipe, name, got, lost>>
    BY <1>6 DEF PullEOF, PullFails
  <2>2. pullPipe[g] \in UploadPipes
    BY <2>1 DEF PullInv
  <2>3. PullTypes'
    BY <1>u, <2>1 DEF FinishPull, PullTypes
  <2>4. SenderTypes'
    <3>1. CASE sender = g
      <4>1. [name |-> name, from |-> pullPipe[g], units |-> got] \in Files
        BY <1>u, <2>2, <3>1 DEF SenderTypes, Files
      <4> QED
        BY <1>u, <2>1, <3>1, <4>1 DEF FinishPull, SenderTypes, Files, NextPoll
    <3>2. CASE sender # g
      BY <1>u, <2>1, <3>2 DEF FinishPull, SenderTypes, Files, NextPoll
    <3> QED
      BY <3>1, <3>2
  <2> QED
    BY <1>0, <1>u, <2>1, <2>3, <2>4, UnchangedKeepsTypes DEF TypeInv
<1>7. ASSUME NEW g \in Pulls, LosePull(g)
      PROVE  TypeInv'
  <2>1. SenderTypes'
    BY <1>7, <1>u DEF LosePull, SenderTypes, Files, NextPoll
  <2> QED
    BY <1>0, <1>7, <1>u, <2>1, UnchangedKeepsTypes DEF LosePull, TypeInv
<1>8. CASE CloseSession \/ DataHandlerClosesPipes \/ UNCHANGED vars
  <2>1. SessionTypes' /\ UNCHANGED <<uploadVars, pullVars, senderVars>>
    BY <1>8, <1>u DEF CloseSession, DataHandlerClosesPipes, vars, SessionTypes
  <2> QED
    BY <1>0, <1>u, <2>1, UnchangedKeepsTypes DEF TypeInv
<1>9. ASSUME NEW d \in DataPipes, DownloadHandlerOnPipes(d)
      PROVE  TypeInv'
  <2>1. UNCHANGED <<uploadReq, phase, uploadVars, pullVars, senderVars>>
    BY <1>9 DEF DownloadHandlerOnPipes
  <2> QED
    BY <1>0, <1>u, <2>1, UnchangedKeepsTypes DEF TypeInv
<1> QED
  BY <1>1, <1>2, <1>3, <1>4, <1>5, <1>6, <1>7, <1>8, <1>9 DEF Next, PullStep

\* A pipe that is not open never becomes so, but by the install of its upload.
LEMMA ClosedStays ==
    ASSUME NEW u \in UploadPipes, PipesTypeOK, pipe[u] # "open",
           \/ UNCHANGED pipe
           \/ ClosePipes
           \/ \E p : ClosePipesIfMatch(p) \/ CloseWriter(p)
           \/ \E d \in DataPipes : InstallDataPipe(d)
    PROVE  pipe'[u] # "open"
<1>1. u \in Pipes
  BY DEF Pipes
<1>2. CASE UNCHANGED pipe
  BY <1>2
<1>3. CASE ClosePipes
  BY <1>1, <1>3 DEF ClosePipes
<1>4. ASSUME NEW p, ClosePipesIfMatch(p)
      PROVE  pipe'[u] # "open"
  BY <1>1, <1>4 DEF ClosePipesIfMatch, PipesTypeOK
<1>5. ASSUME NEW p, CloseWriter(p)
      PROVE  pipe'[u] # "open"
  BY <1>1, <1>5 DEF CloseWriter, PipesTypeOK
<1>6. ASSUME NEW d \in DataPipes, InstallDataPipe(d)
      PROVE  pipe'[u] # "open"
  <2>1. u # d
    BY PipesAssumption
  <2> QED
    BY <1>1, <1>6, <2>1 DEF InstallDataPipe
<1> QED
  BY <1>2, <1>3, <1>4, <1>5, <1>6

\* Every handler keeps the account of the units.
LEMMA AckStep == TypeInv /\ AckInv /\ [Next]_vars => AckInv'
<1> SUFFICES ASSUME TypeInv, AckInv, [Next]_vars
             PROVE  AckInv'
  OBVIOUS
<1> USE LengthAssumption, PullsAssumption, PipesAssumption
<1>0. /\ PullInv /\ SentInv /\ \A u \in UploadPipes : Accounted(u)
      /\ UploadTypes /\ PullTypes /\ SenderTypes /\ PipesTypeOK
  BY DEF AckInv, TypeInv, PipesInv
(* Steps that move no unit and leave the pulls and the sender alone.        *)
<1>k. ASSUME UNCHANGED <<sent, pullVars, senderVars>>, SentInv',
             \A u \in UploadPipes : pipe[u] # "open" /\ sent[u] # 0 => pipe'[u] # "open"
      PROVE  AckInv'
  <2>1. PullInv'
    BY <1>0, <1>k DEF PullInv, pullVars, senderVars
  <2>2. ASSUME NEW u \in UploadPipes
        PROVE  Accounted(u)'
    <3>1. Accounted(u)
      BY <1>0
    <3> QED
      BY <1>k, <2>2, <3>1 DEF Accounted, Reading, pullVars, senderVars
  <2> QED
    BY <1>k, <2>1, <2>2 DEF AckInv
<1>1. ASSUME NEW u \in UploadPipes, UploadStep(u) \/ WatchUpload(u) \/ LoseUploader(u)
      PROVE  AckInv'
  <2>1. UNCHANGED <<sent, pullVars, senderVars>>
    BY <1>1 DEF UploadStep, InstallUpload, CheckOpen, AnnounceUpload, UploadDone,
       UploadReturns, UploadFails, WatchUpload, LoseUploader, uploadVars
  <2>2. SentInv'
    BY <1>0, <1>1, <2>1 DEF UploadStep, InstallUpload, CheckOpen, AnnounceUpload, UploadDone,
       UploadReturns, UploadFails, WatchUpload, LoseUploader, uploadVars, UploadAt,
       UploadTypes, SentInv
  <2>3. ASSUME NEW v \in UploadPipes, pipe[v] # "open", sent[v] # 0
        PROVE  pipe'[v] # "open"
    <3>1. CASE InstallUpload(u)
      <4>1. v # u /\ v \in Pipes
        BY <1>0, <2>3, <3>1 DEF InstallUpload, SentInv, Pipes
      <4> QED
        BY <2>3, <3>1, <4>1 DEF InstallUpload, InstallUploadPipe
    <3>2. CASE ~InstallUpload(u)
      <4>1. \/ UNCHANGED pipe
            \/ \E p : ClosePipesIfMatch(p) \/ CloseWriter(p)
        BY <1>1, <3>2 DEF UploadStep, CheckOpen, AnnounceUpload, UploadDone,
           UploadReturns, UploadFails, WatchUpload, LoseUploader, pipeVars
      <4> QED
        BY <1>0, <2>3, <4>1, ClosedStays
    <3> QED
      BY <3>1, <3>2
  <2> QED
    BY <1>k, <2>1, <2>2, <2>3
<1>2. CASE CloseSession \/ DataHandlerClosesPipes \/ UNCHANGED vars
  <2>1. UNCHANGED <<uploadVars, pullVars, senderVars>>
    BY <1>2 DEF CloseSession, DataHandlerClosesPipes, vars
  <2>2. SentInv' /\ UNCHANGED sent
    BY <1>0, <2>1 DEF SentInv, uploadVars
  <2>3. ClosePipes \/ UNCHANGED pipe
    BY <1>2 DEF CloseSession, DataHandlerClosesPipes, vars, pipeVars
  <2>4. \A u \in UploadPipes : pipe[u] # "open" => pipe'[u] # "open"
    BY <1>0, <2>3, ClosedStays
  <2> QED
    BY <1>k, <2>1, <2>2, <2>4
<1>9. ASSUME NEW d \in DataPipes, DownloadHandlerOnPipes(d)
      PROVE  AckInv'
  <2>1. UNCHANGED <<uploadVars, pullVars, senderVars>>
    BY <1>9 DEF DownloadHandlerOnPipes
  <2>2. SentInv' /\ UNCHANGED sent
    BY <1>0, <2>1 DEF SentInv, uploadVars
  <2>3. \/ InstallDataPipe(d)
        \/ \E p : ClosePipesIfMatch(p) \/ CloseWriter(p)
    BY <1>9 DEF DownloadHandlerOnPipes
  <2>4. \A u \in UploadPipes : pipe[u] # "open" => pipe'[u] # "open"
    BY <1>0, <2>3, ClosedStays
  <2> QED
    BY <1>k, <2>1, <2>2, <2>4
(* Steps of the sender and its pulls that move no unit.                     *)
<1>s. ASSUME UNCHANGED uploadVars
      PROVE  SentInv'
  BY <1>0, <1>s DEF SentInv, uploadVars
<1>3. CASE TakeUpload
  <2>1. /\ UNCHANGED <<pipeVars, uploadVars, pullVars, got, lost, saved>>
        /\ sender = "polling" /\ sender' = "command"
    BY <1>3 DEF TakeUpload
  <2>2. PullInv'
    BY <1>0, <2>1 DEF PullInv, uploadVars, pullVars
  <2>3. ASSUME NEW u \in UploadPipes
        PROVE  Accounted(u)'
    <3>1. Accounted(u)
      BY <1>0
    <3> QED
      BY <2>1, <3>1 DEF Accounted, Reading, uploadVars, pullVars, pipeVars
  <2> QED
    BY <1>s, <2>1, <2>2, <2>3 DEF AckInv
<1>4. ASSUME NEW g \in Pulls, SendPull(g)
      PROVE  AckInv'
  <2>1. /\ UNCHANGED <<pipeVars, uploadVars, pullPipe, lost, saved>>
        /\ sender = "command" /\ pull[g] = "idle" /\ got' = 0
        /\ \/ sender' = g /\ pull'[g] = "found"
           \/ sender' = "stopped" /\ pull'[g] = "done"
        /\ \A h \in Pulls : h # g => pull'[h] = pull[h]
    BY <1>0, <1>4 DEF SendPull, PullTypes
  <2>2. \A h \in Pulls : sender # h
    BY <2>1
  <2>3. PullInv'
    BY <1>0, <2>1, <2>2 DEF PullInv, uploadVars
  <2>4. ASSUME NEW u \in UploadPipes
        PROVE  Accounted(u)'
    <3>1. Accounted(u) /\ \A h \in Pulls : ~Reading(h, u)
      BY <1>0, <2>2 DEF Reading
    <3> QED
      BY <2>1, <3>1 DEF Accounted, uploadVars, pipeVars
  <2> QED
    BY <1>s, <2>1, <2>3, <2>4 DEF AckInv
<1>5. ASSUME NEW g \in Pulls, BindPull(g)
      PROVE  AckInv'
  <2>1. /\ UNCHANGED <<pipeVars, uploadVars, got, lost, saved>>
        /\ pull[g] = "found"
        /\ \A h \in Pulls : h # g => pull'[h] = pull[h] /\ pullPipe'[h] = pullPipe[h]
        /\ pullPipe'[g] = uploadPipe
    BY <1>0, <1>5 DEF BindPull, PullTypes
  <2>2. \/ uploadPipe = NoPipe /\ pull'[g] = "done"
           /\ sender' = (IF sender = g THEN NextPoll ELSE sender)
        \/ uploadPipe # NoPipe /\ pull'[g] = "copying" /\ sender' = sender
    BY <1>0, <1>5 DEF BindPull, PullTypes
  <2>3. PullInv'
    <3>1. uploadPipe \in UploadPipes \cup {NoPipe}
      BY <1>0 DEF PipesTypeOK
    <3>2. \A u \in UploadPipes : sent[u] \in Nat
      BY <1>0 DEF UploadTypes
    <3>3. sender = g => got = 0
      BY <1>0, <2>1 DEF PullInv
    <3>4. \A h \in Pulls : h # g /\ sender = h => sender' = h
      BY <2>2
    <3>5. \A h \in Pulls : sender' = h => sender = h
      BY <2>2 DEF NextPoll
    <3> QED
      BY <1>0, <2>1, <2>2, <3>1, <3>2, <3>3, <3>4, <3>5 DEF PullInv, uploadVars, NextPoll
  <2>4. ASSUME NEW u \in UploadPipes
        PROVE  Accounted(u)'
    <3>1. Accounted(u) /\ ~Reading(g, u) /\ pullPipe[g] # u
      BY <1>0, <2>1 DEF Reading, PullInv, Pipes
    <3>2. \A h \in Pulls : Reading(h, u) => Reading(h, u)'
      BY <2>1, <2>2, <3>1 DEF Reading
    <3>3. \A h \in lost : pullPipe[h] = u => pullPipe'[h] = u
      BY <1>0, <2>1, <3>1 DEF SenderTypes
    <3> QED
      BY <2>1, <3>1, <3>2, <3>3 DEF Accounted, uploadVars, pipeVars
  <2> QED
    BY <1>s, <2>1, <2>3, <2>4 DEF AckInv
<1>6. ASSUME NEW g \in Pulls, NEW v \in UploadPipes, Copy(g, v)
      PROVE  AckInv'
  <2>1. /\ UNCHANGED <<pipeVars, upload, pullVars, sender, lost, saved>>
        /\ pull[g] = "copying" /\ pullPipe[g] = v /\ pipe[v] = "open"
        /\ upload[v] = "copying" /\ sent[v] < Length
        /\ sent'[v] = sent[v] + 1
        /\ \A u \in UploadPipes : u # v => sent'[u] = sent[u]
        /\ got' = IF sender = g THEN got + 1 ELSE got
    BY <1>0, <1>6 DEF Copy, UploadTypes
  <2>2. SentInv'
    BY <1>0, <2>1 DEF SentInv
  <2>3. got \in Nat /\ \A u \in UploadPipes : sent[u] \in Nat
    BY <1>0 DEF UploadTypes, SenderTypes
  <2>4. PullInv'
    <3>1. ASSUME NEW h \in Pulls, sender = h, pull[h] = "copying"
          PROVE  got' <= sent'[pullPipe[h]]
      <4>1. got <= sent[pullPipe[h]] /\ pullPipe[h] \in UploadPipes
        BY <1>0, <3>1 DEF PullInv
      <4> QED
        BY <2>1, <2>3, <3>1, <4>1
    <3>2. ASSUME NEW h \in Pulls, sender = h, pull[h] = "found"
          PROVE  got' = 0
      BY <1>0, <2>1, <3>2 DEF PullInv
    <3> QED
      BY <1>0, <2>1, <3>1, <3>2 DEF PullInv, pullVars
  <2>5. ASSUME NEW u \in UploadPipes
        PROVE  Accounted(u)'
    <3>1. Accounted(u)
      BY <1>0
    <3>2. CASE u # v
      <4>1. \A h \in Pulls : Reading(h, u) => h # g /\ sender # g
        BY <2>1, <3>2 DEF Reading
      <4> QED
        BY <2>1, <3>1, <3>2, <4>1 DEF Accounted, Reading, pullVars, pipeVars
    <3>3. CASE u = v /\ sender # g
      <4>1. g \in lost
        BY <1>0, <2>1, <3>3 DEF PullInv
      <4> QED
        BY <2>1, <3>3, <4>1 DEF Accounted, pullVars
    <3>4. CASE u = v /\ sender = g
      <4>1. CASE sent[v] = 0
        <5>1. got = 0
          BY <1>0, <2>1, <2>3, <3>4, <4>1 DEF PullInv
        <5>2. Reading(g, u)' /\ got' = sent'[u]
          BY <2>1, <3>4, <4>1, <5>1 DEF Reading, pullVars
        <5> QED
          BY <5>2 DEF Accounted
      <4>2. CASE \E h \in lost : pullPipe[h] = u
        BY <2>1, <4>2 DEF Accounted, pullVars
      <4>3. ASSUME NEW h \in Pulls, Reading(h, u), got = sent[u]
            PROVE  Accounted(u)'
        <5>1. h = g
          BY <3>4, <4>3 DEF Reading
        <5>2. Reading(g, u)' /\ got' = sent'[u]
          BY <2>1, <2>3, <3>4, <4>3, <5>1 DEF Reading, pullVars
        <5> QED
          BY <5>2 DEF Accounted
      <4> QED
        BY <2>1, <3>1, <3>4, <4>1, <4>2, <4>3 DEF Accounted
    <3> QED
      BY <3>2, <3>3, <3>4
  <2> QED
    BY <2>2, <2>4, <2>5 DEF AckInv
<1>7. ASSUME NEW g \in Pulls, PullEOF(g) \/ PullFails(g)
      PROVE  AckInv'
  <2>1. /\ pull[g] = "copying" /\ FinishPull(g)
        /\ UNCHANGED <<uploadVars, pullPipe, name, got, lost>>
    BY <1>7 DEF PullEOF, PullFails
  <2>2. pullPipe[g] \in UploadPipes
    BY <1>0, <2>1 DEF PullInv
  <2>3. pipe'[pullPipe[g]] # "open"
    BY <1>0, <1>7, <2>2 DEF PullEOF, PullFails, ClosePipesIfMatch, pipeVars, PipesTypeOK, Pipes
  <2>4. \A u \in UploadPipes : pipe[u] # "open" => pipe'[u] # "open"
    <3>1. UNCHANGED pipe \/ \E p : ClosePipesIfMatch(p) \/ CloseWriter(p)
      BY <1>7 DEF PullEOF, PullFails, pipeVars
    <3> QED
      BY <1>0, <3>1, ClosedStays
  <2>5. /\ pull'[g] = "done"
        /\ \A h \in Pulls : h # g => pull'[h] = pull[h]
        /\ sender' = IF sender = g THEN NextPoll ELSE sender
        /\ saved \subseteq saved'
        /\ sender = g => [name |-> name, from |-> pullPipe[g], units |-> got] \in saved'
    BY <1>0, <2>1 DEF FinishPull, PullTypes
  <2>6. PullInv'
    BY <1>0, <2>1, <2>5 DEF PullInv, uploadVars, NextPoll
  <2>7. ASSUME NEW u \in UploadPipes
        PROVE  Accounted(u)'
    <3>1. Accounted(u)
      BY <1>0
    <3>2. ASSUME NEW h \in Pulls, Reading(h, u), got = sent[u]
          PROVE  Accounted(u)'
      <4>1. CASE h = g
        <5> DEFINE f == [name |-> name, from |-> pullPipe[g], units |-> got]
        <5>1. f \in saved' /\ f.from = u /\ f.units = sent'[u]
          BY <2>1, <2>5, <3>2, <4>1 DEF Reading, uploadVars
        <5>2. pipe'[u] # "open"
          BY <2>3, <3>2, <4>1 DEF Reading
        <5> QED
          BY <5>1, <5>2 DEF Accounted
      <4>2. CASE h # g
        BY <2>1, <2>5, <3>2, <4>2 DEF Accounted, Reading, uploadVars
      <4> QED
        BY <4>1, <4>2
    <3>3. CASE \/ sent[u] = 0
               \/ \E h \in lost : pullPipe[h] = u
               \/ /\ pipe[u] # "open"
                  /\ \E f \in saved : f.from = u /\ f.units = sent[u]
      BY <2>1, <2>4, <2>5, <3>3 DEF Accounted, uploadVars
    <3> QED
      BY <3>1, <3>2, <3>3 DEF Accounted
  <2> QED
    BY <1>s, <2>1, <2>6, <2>7 DEF AckInv
<1>8. ASSUME NEW g \in Pulls, LosePull(g)
      PROVE  AckInv'
  <2>1. /\ sender = g /\ sender' = NextPoll /\ lost' = lost \cup {g}
        /\ UNCHANGED <<pipeVars, uploadVars, pullVars, got, saved>>
    BY <1>8 DEF LosePull
  <2>2. PullInv'
    BY <1>0, <2>1 DEF PullInv, uploadVars, pullVars, NextPoll
  <2>3. ASSUME NEW u \in UploadPipes
        PROVE  Accounted(u)'
    <3>1. Accounted(u) /\ \A h \in Pulls : Reading(h, u) => h = g /\ pullPipe[g] = u
      BY <1>0, <2>1 DEF Reading
    <3> QED
      BY <2>1, <3>1 DEF Accounted, uploadVars, pullVars, pipeVars
  <2> QED
    BY <1>s, <2>1, <2>2, <2>3 DEF AckInv
<1> QED
  BY <1>1, <1>2, <1>3, <1>4, <1>5, <1>6, <1>7, <1>8, <1>9 DEF Next, PullStep

\* Nothing was read before the first upload.
LEMMA Initially == Init => TypeInv /\ AckInv
<1> SUFFICES ASSUME Init
             PROVE  TypeInv /\ AckInv
  OBVIOUS
<1>1. PipesInv
  BY PipesInitially
<1>2. SessionTypes /\ UploadTypes /\ PullTypes /\ SenderTypes
  BY LengthAssumption, PullsAssumption
     DEF Init, SessionTypes, UploadTypes, PullTypes, SenderTypes
<1>3. AckInv
  BY PullsAssumption DEF Init, AckInv, PullInv, SentInv, Accounted
<1> QED
  BY <1>1, <1>2, <1>3 DEF TypeInv

(***************************************************************************)
(* Type correctness of the upload path; the sender never has more units    *)
(* than the upload it pulls has sent.                                      *)
(***************************************************************************)
THEOREM TypeCorrect == Spec => []TypeOK
<1>1. TypeInv /\ AckInv /\ [Next]_vars => (TypeInv /\ AckInv)'
  BY TypeStep, AckStep DEF AckInv
<1> QED
  BY <1>1, Initially, TypeInvImpliesTypeOK, PTL DEF Spec

(***************************************************************************)
(* An upload answered "ok" is whole on the sender's disk or about to be,   *)
(* unless the sender's own connection broke: for every number of uploads   *)
(* that replace each other and of pulls (handleUpload, handlePull).        *)
(***************************************************************************)
THEOREM AcknowledgedIsSaved == Spec => []AckedUploadIsSaved
<1>1. TypeInv /\ AckInv /\ [Next]_vars => (TypeInv /\ AckInv)'
  BY TypeStep, AckStep DEF AckInv
<1>2. AckInv => AckedUploadIsSaved
  <2> SUFFICES ASSUME AckInv, NEW u \in UploadPipes, upload[u] = "ok"
               PROVE  \/ \E f \in saved : f.from = u /\ f.units = Length
                      \/ \E g \in Pulls : /\ pull[g] = "copying"
                                          /\ pullPipe[g] = u
                                          /\ sender = g
                                          /\ got = Length
                      \/ \E g \in lost : pullPipe[g] = u
    BY DEF AckedUploadIsSaved
  <2>1. sent[u] = Length /\ Length # 0 /\ Accounted(u)
    BY LengthAssumption DEF AckInv, SentInv
  <2> QED
    BY <2>1 DEF Accounted, Reading
<1> QED
  BY <1>1, <1>2, Initially, PTL DEF Spec

=============================================================================
