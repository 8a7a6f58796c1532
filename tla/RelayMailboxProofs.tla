-------------------------- MODULE RelayMailboxProofs -------------------------
(* What holds of the mailbox for every number of polls and receivers.      *)
EXTENDS RelayMailbox, TLAPS

(***************************************************************************)
(* Type correctness: the handlers of one session (handlePoll, handleAnswer, *)
(* handleUpload, handleDownload) and its expiry keep every variable in its *)
(* type.                                                                   *)
(***************************************************************************)
THEOREM TypeCorrect == Spec => []TypeOK
<1> USE DEF TypeOK, QueueTypeOK, queueVars, sessionVars, pollVars
<1>1. Init => TypeOK
  BY DEF Init, QueueInit
<1>2. TypeOK /\ [Next]_vars => TypeOK'
  <2> SUFFICES ASSUME TypeOK, [Next]_vars
               PROVE  TypeOK'
    OBVIOUS
  <2>1. ASSUME NEW r \in Receivers, FindSession(r) \/ ReceiverStep(r)
        PROVE  TypeOK'
    <3>1. CASE FindSession(r)
      BY <3>1 DEF FindSession
    <3>2. CASE RequestDownload(r)
      BY <3>2 DEF RequestDownload, EnqueueDownload
    <3>3. CASE PostAnswer(r)
      BY <3>3 DEF PostAnswer
    <3>4. CASE CheckOpen(r)
      BY <3>4 DEF CheckOpen
    <3>5. CASE AnnounceUpload(r)
      BY <3>5 DEF AnnounceUpload
    <3> QED
      BY <2>1, <3>1, <3>2, <3>3, <3>4, <3>5 DEF ReceiverStep
  <2>2. ASSUME NEW p \in Pollers, PollStep(p) \/ LosePoller(p)
        PROVE  TypeOK'
    <3> USE DEF Respond
    <3>1. CASE StartPoll(p)
      BY <3>1 DEF StartPoll
    <3>2. CASE TakeDownload(p)
      BY <3>2 DEF TakeDownload, DequeueDownload
    <3>3. CASE SelectAnswer(p)
      BY <3>3 DEF SelectAnswer
    <3>4. CASE SelectUpload(p)
      BY <3>4 DEF SelectUpload
    <3>5. CASE SelectNotify(p)
      BY <3>5 DEF SelectNotify
    <3>6. CASE SelectExpired(p)
      BY <3>6 DEF SelectExpired
    <3>7. CASE SelectClientGone(p)
      BY <3>7 DEF SelectClientGone
    <3>8. CASE LosePoller(p)
      BY <3>8 DEF LosePoller
    <3> QED
      BY <2>2, <3>1, <3>2, <3>3, <3>4, <3>5, <3>6, <3>7, <3>8 DEF PollStep, Select
  <2>3. CASE Sweep
    BY <2>3 DEF Sweep
  <2>4. CASE CloseSession
    BY <2>4 DEF CloseSession
  <2>5. CASE CloseClearsQueue
    BY <2>5 DEF CloseClearsQueue, ClearDownloadQueue
  <2>6. CASE UNCHANGED vars
    BY <2>6 DEF vars
  <2> QED
    BY <2>1, <2>2, <2>3, <2>4, <2>5, <2>6 DEF Next
<1> QED
  BY <1>1, <1>2, PTL DEF Spec

-----------------------------------------------------------------------------
(***************************************************************************)
(* A step that fills the slot also puts the token in the channel.          *)
(***************************************************************************)
LEMMA EnqueueWakes ==
    ASSUME NEW r \in Receivers, EnqueueDownload(r)
    PROVE  NoLostWakeup'
BY DEF EnqueueDownload, NoLostWakeup

(***************************************************************************)
(* A poll that did not just dequeue keeps the token it took.               *)
(***************************************************************************)
LEMMA OthersStayWoken ==
    ASSUME TypeOK, NoLostWakeup,
           UNCHANGED queueVars,
           \A p \in Pollers : poll[p] = "woken" => poll'[p] = "woken"
    PROVE  NoLostWakeup'
BY DEF NoLostWakeup, queueVars

(***************************************************************************)
(* No lost wake-up, for every number of polls and receivers: a request     *)
(* waits in the slot only with its token in the channel or with a poll     *)
(* that took the token and has yet to dequeue (Session.EnqueueDownload,    *)
(* Session.DequeueDownload and the select of handlePoll).                  *)
(***************************************************************************)
THEOREM WakeUpNeverLost == Spec => []NoLostWakeup
<1>1. Init => NoLostWakeup
  BY DEF Init, QueueInit, NoLostWakeup
<1>2. TypeOK /\ NoLostWakeup /\ [Next]_vars => NoLostWakeup'
  <2> SUFFICES ASSUME TypeOK, NoLostWakeup, [Next]_vars
               PROVE  NoLostWakeup'
    OBVIOUS
  <2>1. ASSUME NEW r \in Receivers, FindSession(r) \/ ReceiverStep(r)
        PROVE  NoLostWakeup'
    <3>1. CASE RequestDownload(r)
      BY <3>1, EnqueueWakes DEF RequestDownload
    <3>2. CASE ~RequestDownload(r)
      <4>1. UNCHANGED <<pending, downloadNotify, poll>>
        BY <2>1, <3>2 DEF ReceiverStep, FindSession, PostAnswer, CheckOpen,
                          AnnounceUpload, queueVars, pollVars
      <4> QED
        BY <4>1, OthersStayWoken DEF queueVars
    <3> QED
      BY <3>1, <3>2
  <2>2. ASSUME NEW p \in Pollers, PollStep(p) \/ LosePoller(p)
        PROVE  NoLostWakeup'
    <3>1. CASE TakeDownload(p)
      BY <3>1 DEF TakeDownload, DequeueDownload, NoLostWakeup
    <3>2. CASE SelectNotify(p)
      BY <3>2 DEF SelectNotify, NoLostWakeup, TypeOK
    <3>3. CASE \/ StartPoll(p) \/ SelectAnswer(p) \/ SelectUpload(p)
               \/ SelectExpired(p) \/ SelectClientGone(p) \/ LosePoller(p)
      <4>1. UNCHANGED queueVars
        BY <3>3 DEF StartPoll, SelectAnswer, SelectUpload, SelectExpired,
                    SelectClientGone, LosePoller
      <4>2. \A q \in Pollers : poll[q] = "woken" => poll'[q] = "woken"
        BY <3>3 DEF StartPoll, SelectAnswer, SelectUpload, SelectExpired,
                    SelectClientGone, LosePoller, Respond, TypeOK
      <4> QED
        BY <4>1, <4>2, OthersStayWoken
    <3> QED
      BY <2>2, <3>1, <3>2, <3>3 DEF PollStep, Select
  <2>3. CASE Sweep \/ CloseSession
    BY <2>3, OthersStayWoken DEF Sweep, CloseSession, pollVars
  <2>4. CASE CloseClearsQueue
    BY <2>4 DEF CloseClearsQueue, ClearDownloadQueue, NoLostWakeup
  <2>5. CASE UNCHANGED vars
    BY <2>5, OthersStayWoken DEF vars, queueVars
  <2> QED
    BY <2>1, <2>2, <2>3, <2>4, <2>5 DEF Next
<1>3. Spec => []TypeOK
  BY TypeCorrect
<1> QED
  BY <1>1, <1>2, <1>3, PTL DEF Spec

=============================================================================
