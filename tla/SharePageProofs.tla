--------------------------- MODULE SharePageProofs ---------------------------
(***************************************************************************)
(* The sending page, for any number of shares.                             *)
(***************************************************************************)
EXTENDS SharePage, TLAPS

-----------------------------------------------------------------------------
(* The inductive invariant: what always holds ... *)

Begun == {"offering", "gathering", "publishing", "keying"}   \* awaits after registration

\* A setup that has not got its session owns nothing; a loop belongs to a finished setup
\* and polls for a session.
PlaceAt(s) ==
    /\ setup[s] \in {"none", "registering"} => s \notin isOpen /\ s \notin timer
    /\ setup[s] # "over" => loop[s] = "none"
    /\ setup[s] \in Begun \cup {"over"} => session \in Starts
    /\ loop[s] \in Polls => polled[s] \in Starts
PlaceInv == \A s \in Starts : PlaceAt(s)

\* ... and what holds as long as no setup has begun while an earlier one was alive: only
\* one share is, its session and its connection are those of the variables, and it is the
\* one on the screen.
OneAlive   == \A s, t \in Starts : Alive(s) /\ Alive(t) => s = t
OwnSession == \A s \in Starts : Alive(s) /\ setup[s] # "registering" => session = s
OwnConn    == conn # 0 => conn \in isOpen

OwnSetup ==
    \A s \in Starts :
        /\ setup[s] \in Awaits => ui # "sharing" /\ ~aborted
        /\ setup[s] \in Begun => conn = s
        /\ setup[s] \in {"publishing", "keying"} => offer[s] = s
        /\ setup[s] = "keying" => url[s] = s
        /\ loop[s] \in Polls => polled[s] = s

OnScreen ==
    ui = "sharing" /\ link \notin excused =>
        /\ link \in Starts /\ conn = link /\ offer[link] = link
        /\ loop[link] \in Polls
        /\ polling /\ ~aborted

OwnOffer ==
    \A s \in Starts : /\ offer[s] # 0 => offer[s] = s /\ candidates[s] = s
                      /\ remote[s] \in {0, s}

Untangled == OneAlive /\ OwnSession /\ OwnConn /\ OwnSetup /\ OnScreen /\ OwnOffer

IInv == TypeOK /\ PlaceInv /\ FlagHasLoop /\ (~tangled => Untangled)
-----------------------------------------------------------------------------
(* Types, by kind of variable. *)

TypeFlags == /\ ui \in {"home", "ready", "loading", "sharing", "error"}
             /\ file \in BOOLEAN /\ aborted \in BOOLEAN /\ polling \in BOOLEAN /\ tangled \in BOOLEAN
TypeNames == session \in OrNone /\ conn \in OrNone /\ link \in OrNone
TypePlace == setup \in [Starts -> SetupPlaces] /\ loop \in [Starts -> LoopPlaces]
TypeMaps  == /\ url \in [Starts -> OrNone] /\ polled \in [Starts -> OrNone]
             /\ offer \in [Starts -> OrNone] /\ candidates \in [Starts -> OrNone]
             /\ remote \in [Starts -> OrNone]
TypeSets  == /\ isOpen \subseteq Starts /\ described \subseteq Starts
             /\ timer \subseteq Starts /\ excused \subseteq Starts

\* A place a setup or a loop moves to is a place.
LEMMA PlacesAre == /\ Awaits \cup {"none", "over", "failed"} \subseteq SetupPlaces
                   /\ Polls \cup {"none", "ended"} \subseteq LoopPlaces
  BY DEF SetupPlaces, LoopPlaces

\* A share's number, or none.
LEMMA NumbersAre == 0 \in OrNone /\ Starts \subseteq OrNone
  BY StartsAreNatural DEF Starts, OrNone

\* Every step keeps the types: what a setup or a loop writes is the number of a share.
LEMMA TypeStep == TypeOK /\ PlaceInv /\ [Next]_vars => TypeOK'
<1> SUFFICES ASSUME TypeOK, PlaceInv, [Next]_vars PROVE TypeOK'
  OBVIOUS
<1> USE NumbersAre, PlacesAre DEF TypeOK, Awaits, Polls,
        TypeFlags, TypeNames, TypePlace, TypeMaps, TypeSets,
        screenVars, flagVars, connVars, relayVars, loopVars, setupVars
<1>1. CASE UserStep
  <2>1. CASE SwitchTab BY <2>1 DEF SwitchTab
  <2>2. CASE SelectFile BY <2>2 DEF SelectFile
  <2>3. CASE CancelShare BY <2>3 DEF CancelShare
  <2>4. CASE StopSharing
    <3>1. TypeFlags' BY <2>4 DEF StopSharing
    <3>2. TypeNames' BY <2>4 DEF StopSharing
    <3>3. TypePlace' BY <2>4 DEF StopSharing
    <3>4. TypeMaps' BY <2>4 DEF StopSharing
    <3>5. TypeSets' BY <2>4 DEF StopSharing
    <3> QED BY <3>1, <3>2, <3>3, <3>4, <3>5
  <2>5. ASSUME NEW s \in Starts, StartSharing(s) PROVE TypeOK' BY <2>5 DEF StartSharing
  <2> QED BY <1>1, <2>1, <2>2, <2>3, <2>4, <2>5 DEF UserStep
<1>2. ASSUME NEW s \in Starts, SetupStep(s) PROVE TypeOK'
  <2>1. CASE Registered(s)
    <3>1. TypeFlags' BY <2>1 DEF Registered
    <3>2. TypeNames' BY <2>1 DEF Registered
    <3>3. TypePlace' BY <2>1 DEF Registered
    <3>4. TypeMaps' BY <2>1 DEF Registered
    <3>5. TypeSets' BY <2>1 DEF Registered
    <3> QED BY <3>1, <3>2, <3>3, <3>4, <3>5
  <2>2. CASE OfferCreated(s) BY <2>2 DEF OfferCreated, Fails
  <2>3. CASE Publish(s)
    <3>1. TypeFlags' BY <2>3 DEF Publish, Fails
    <3>2. TypeNames' BY <2>3 DEF Publish, Fails
    <3>3. TypePlace' BY <2>3 DEF Publish, Fails
    <3>4. TypeMaps' BY <2>3 DEF Publish, Fails
    <3>5. TypeSets' BY <2>3 DEF Publish, Fails
    <3> QED BY <3>1, <3>2, <3>3, <3>4, <3>5
  <2>4. CASE Published(s) BY <2>4 DEF Published
  <2>5. CASE Keyed(s)
    <3>1. TypeFlags' BY <2>5 DEF Keyed
    <3>2. TypeNames' BY <2>5 DEF Keyed
    <3>3. TypePlace' BY <2>5 DEF Keyed
    <3>4. TypeMaps' BY <2>5 DEF Keyed
    <3>5. TypeSets' BY <2>5 DEF Keyed
    <3> QED BY <3>1, <3>2, <3>3, <3>4, <3>5
  <2>6. CASE SetupFails(s) BY <2>6 DEF SetupFails, Fails
  <2> QED BY <1>2, <2>1, <2>2, <2>3, <2>4, <2>5, <2>6 DEF SetupStep
<1>3. ASSUME NEW s \in Starts, LoopStep(s) PROVE TypeOK'
  <2>1. CASE PollEmpty(s) BY <2>1 DEF PollEmpty, GoOn
  <2>2. CASE PollFails(s) BY <2>2 DEF PollFails
  <2>3. CASE Wake(s) BY <2>3 DEF Wake, GoOn
  <2>4. CASE SessionGone(s)
    <3>0. polled[s] \in Starts BY <2>4 DEF SessionGone, PlaceInv, PlaceAt
    <3>1. TypeFlags' BY <2>4 DEF SessionGone
    <3>2. TypeNames' BY <2>4 DEF SessionGone
    <3>3. TypePlace' BY <2>4 DEF SessionGone
    <3>4. TypeMaps' BY <2>4 DEF SessionGone
    <3>5. TypeSets' BY <2>4, <3>0 DEF SessionGone
    <3> QED BY <3>1, <3>2, <3>3, <3>4, <3>5
  <2>5. CASE AnswerSet(s)
    <3>0. polled[s] \in Starts BY <2>5 DEF AnswerSet, PlaceInv, PlaceAt
    <3>6. offer[polled[s]] \in OrNone BY <3>0
    <3>1. TypeFlags' BY <2>5 DEF AnswerSet, GoOn, TakesAnswer
    <3>2. TypeNames' BY <2>5 DEF AnswerSet, GoOn, TakesAnswer
    <3>3. TypePlace' BY <2>5 DEF AnswerSet, GoOn, TakesAnswer
    <3>4. TypeMaps' BY <2>5, <3>6 DEF AnswerSet, GoOn, TakesAnswer
    <3>5. TypeSets' BY <2>5 DEF AnswerSet, GoOn, TakesAnswer
    <3> QED BY <3>1, <3>2, <3>3, <3>4, <3>5
  <2>6. CASE AnswerRefused(s) BY <2>6 DEF AnswerRefused
  <2>7. CASE TransferAsked(s) BY <2>7 DEF TransferAsked
  <2>8. CASE Pull(s) BY <2>8 DEF Pull
  <2>9. CASE TransferOver(s)
    <3>0. polled[s] \in Starts BY <2>9 DEF TransferOver, PlaceInv, PlaceAt
    <3>1. TypeFlags' BY <2>9 DEF TransferOver
    <3>2. TypeNames' BY <2>9 DEF TransferOver
    <3>3. TypePlace' BY <2>9 DEF TransferOver
    <3>4. TypeMaps' BY <2>9 DEF TransferOver
    <3>5. TypeSets' BY <2>9, <3>0 DEF TransferOver
    <3> QED BY <3>1, <3>2, <3>3, <3>4, <3>5
  <2> QED BY <1>3, <2>1, <2>2, <2>3, <2>4, <2>5, <2>6, <2>7, <2>8, <2>9 DEF LoopStep
<1>4. ASSUME NEW s \in Starts, CandidateFound(s) PROVE TypeOK' BY <1>4 DEF CandidateFound
<1>5. ASSUME NEW s \in Starts, UpdateCandidates(s) PROVE TypeOK'
    <3>1. TypeFlags' BY <1>5 DEF UpdateCandidates
    <3>2. TypeNames' BY <1>5 DEF UpdateCandidates
    <3>3. TypePlace' BY <1>5 DEF UpdateCandidates
    <3>4. TypeMaps' BY <1>5 DEF UpdateCandidates
    <3>5. TypeSets' BY <1>5 DEF UpdateCandidates
    <3> QED BY <3>1, <3>2, <3>3, <3>4, <3>5
<1>6. CASE UNCHANGED vars BY <1>6 DEF vars
<1> QED BY <1>1, <1>2, <1>3, <1>4, <1>5, <1>6 DEF Next

\* Every step keeps what a setup and its loop own.
LEMMA PlaceStep == TypeOK /\ PlaceInv /\ [Next]_vars => PlaceInv'
<1> SUFFICES ASSUME TypeOK, PlaceInv, [Next]_vars, NEW t \in Starts PROVE PlaceAt(t)'
  BY DEF PlaceInv
<1>p. PlaceAt(t)
  BY DEF PlaceInv
<1> USE <1>p DEF TypeOK, PlaceAt, Awaits, Polls, Begun,
        screenVars, flagVars, connVars, relayVars, loopVars, setupVars
<1>1. CASE UserStep
  <2>1. CASE SwitchTab BY <2>1 DEF SwitchTab
  <2>2. CASE SelectFile BY <2>2 DEF SelectFile
  <2>3. CASE CancelShare BY <2>3 DEF CancelShare
  <2>4. CASE StopSharing BY <2>4 DEF StopSharing
  <2>5. ASSUME NEW s \in Starts, StartSharing(s) PROVE PlaceAt(t)' BY <2>5 DEF StartSharing
  <2> QED BY <1>1, <2>1, <2>2, <2>3, <2>4, <2>5 DEF UserStep
<1>2. ASSUME NEW s \in Starts, SetupStep(s) PROVE PlaceAt(t)'
  <2>1. CASE Registered(s) BY <2>1 DEF Registered
  <2>2. CASE OfferCreated(s) BY <2>2 DEF OfferCreated, Fails
  <2>3. CASE Publish(s) BY <2>3 DEF Publish, Fails
  <2>4. CASE Published(s) BY <2>4 DEF Published
  <2>5. CASE Keyed(s) BY <2>5 DEF Keyed
  <2>6. CASE SetupFails(s) BY <2>6 DEF SetupFails, Fails
  <2> QED BY <1>2, <2>1, <2>2, <2>3, <2>4, <2>5, <2>6 DEF SetupStep
<1>3. ASSUME NEW s \in Starts, LoopStep(s) PROVE PlaceAt(t)'
  <2>1. CASE PollEmpty(s) BY <2>1 DEF PollEmpty, GoOn
  <2>2. CASE PollFails(s) BY <2>2 DEF PollFails
  <2>3. CASE Wake(s) BY <2>3 DEF Wake, GoOn
  <2>4. CASE SessionGone(s) BY <2>4 DEF SessionGone
  <2>5. CASE AnswerSet(s) BY <2>5 DEF AnswerSet, GoOn, TakesAnswer
  <2>6. CASE AnswerRefused(s) BY <2>6 DEF AnswerRefused
  <2>7. CASE TransferAsked(s) BY <2>7 DEF TransferAsked
  <2>8. CASE Pull(s) BY <2>8 DEF Pull
  <2>9. CASE TransferOver(s) BY <2>9 DEF TransferOver
  <2> QED BY <1>3, <2>1, <2>2, <2>3, <2>4, <2>5, <2>6, <2>7, <2>8, <2>9 DEF LoopStep
<1>4. ASSUME NEW s \in Starts, CandidateFound(s) PROVE PlaceAt(t)' BY <1>4 DEF CandidateFound
<1>5. ASSUME NEW s \in Starts, UpdateCandidates(s) PROVE PlaceAt(t)' BY <1>5 DEF UpdateCandidates
<1>6. CASE UNCHANGED vars BY <1>6 DEF vars
<1> QED BY <1>1, <1>2, <1>3, <1>4, <1>5, <1>6 DEF Next

\* Every step keeps a loop behind the polling flag: whoever ends one clears the flag.
LEMMA FlagStep == TypeOK /\ PlaceInv /\ FlagHasLoop /\ [Next]_vars => FlagHasLoop'
<1> SUFFICES ASSUME TypeOK, PlaceInv, FlagHasLoop, [Next]_vars PROVE FlagHasLoop'
  OBVIOUS
<1> USE DEF TypeOK, FlagHasLoop, Awaits, Polls, Begun,
        screenVars, flagVars, connVars, relayVars, loopVars, setupVars
<1>1. CASE UserStep
  <2>1. CASE SwitchTab BY <2>1 DEF SwitchTab
  <2>2. CASE SelectFile BY <2>2 DEF SelectFile
  <2>3. CASE CancelShare BY <2>3 DEF CancelShare
  <2>4. CASE StopSharing BY <2>4 DEF StopSharing
  <2>5. ASSUME NEW s \in Starts, StartSharing(s) PROVE FlagHasLoop' BY <2>5 DEF StartSharing
  <2> QED BY <1>1, <2>1, <2>2, <2>3, <2>4, <2>5 DEF UserStep
<1>2. ASSUME NEW s \in Starts, SetupStep(s) PROVE FlagHasLoop'
  <2>1. CASE Registered(s) BY <2>1 DEF Registered
  <2>2. CASE OfferCreated(s) BY <2>2 DEF OfferCreated, Fails
  <2>3. CASE Publish(s) BY <2>3 DEF Publish, Fails
  <2>4. CASE Published(s) BY <2>4 DEF Published
  <2>5. CASE Keyed(s) BY <2>5 DEF Keyed
  <2>6. CASE SetupFails(s) BY <2>6 DEF SetupFails, Fails
  <2> QED BY <1>2, <2>1, <2>2, <2>3, <2>4, <2>5, <2>6 DEF SetupStep
<1>3. ASSUME NEW s \in Starts, LoopStep(s) PROVE FlagHasLoop'
  <2>1. CASE PollEmpty(s) BY <2>1 DEF PollEmpty, GoOn
  <2>2. CASE PollFails(s) BY <2>2 DEF PollFails
  <2>3. CASE Wake(s) BY <2>3 DEF Wake, GoOn
  <2>4. CASE SessionGone(s) BY <2>4 DEF SessionGone
  <2>5. CASE AnswerSet(s) BY <2>5 DEF AnswerSet, GoOn, TakesAnswer
  <2>6. CASE AnswerRefused(s) BY <2>6 DEF AnswerRefused
  <2>7. CASE TransferAsked(s) BY <2>7 DEF TransferAsked
  <2>8. CASE Pull(s) BY <2>8 DEF Pull
  <2>9. CASE TransferOver(s) BY <2>9 DEF TransferOver
  <2> QED BY <1>3, <2>1, <2>2, <2>3, <2>4, <2>5, <2>6, <2>7, <2>8, <2>9 DEF LoopStep
<1>4. ASSUME NEW s \in Starts, CandidateFound(s) PROVE FlagHasLoop' BY <1>4 DEF CandidateFound
<1>5. ASSUME NEW s \in Starts, UpdateCandidates(s) PROVE FlagHasLoop' BY <1>5 DEF UpdateCandidates
<1>6. CASE UNCHANGED vars BY <1>6 DEF vars
<1> QED BY <1>1, <1>2, <1>3, <1>4, <1>5, <1>6 DEF Next

\* As long as no share begins while another one is alive, every step leaves the one share
\* with its own session, connection, offer and link.
LEMMA UntangledStep ==
  TypeOK /\ PlaceInv /\ FlagHasLoop /\ Untangled /\ ~tangled' /\ [Next]_vars => Untangled'
<1> SUFFICES ASSUME TypeOK, PlaceInv, FlagHasLoop, Untangled, ~tangled', [Next]_vars PROVE Untangled'
  OBVIOUS
<1> USE NumbersAre
    DEF TypeOK, PlaceInv, PlaceAt, FlagHasLoop, Untangled,
        OneAlive, OwnSession, OwnConn, OwnSetup, OnScreen, OwnOffer, Alive, Awaits, Polls, Begun,
        screenVars, flagVars, connVars, relayVars, loopVars, setupVars
<1>1. CASE UserStep
  <2>1. CASE SwitchTab BY <2>1 DEF SwitchTab
  <2>2. CASE SelectFile BY <2>2 DEF SelectFile
  <2>3. CASE CancelShare BY <2>3 DEF CancelShare
  <2>4. CASE StopSharing BY <2>4 DEF StopSharing
  <2>5. ASSUME NEW s \in Starts, StartSharing(s) PROVE Untangled'
    <3>1. ~tangled /\ \A t \in Starts : ~Alive(t)
      BY <2>5 DEF StartSharing
    <3>2. OneAlive' BY <2>5, <3>1 DEF StartSharing
    <3>3. OwnSession' BY <2>5, <3>1 DEF StartSharing
    <3>4. OwnConn' BY <2>5, <3>1 DEF StartSharing
    <3>5. OwnSetup' BY <2>5, <3>1 DEF StartSharing
    <3>6. OnScreen' BY <2>5, <3>1 DEF StartSharing
    <3>7. OwnOffer' BY <2>5, <3>1 DEF StartSharing
    <3> QED BY <3>2, <3>3, <3>4, <3>5, <3>6, <3>7
  <2> QED BY <1>1, <2>1, <2>2, <2>3, <2>4, <2>5 DEF UserStep
<1>2. ASSUME NEW s \in Starts, SetupStep(s) PROVE Untangled'
  <2>1. CASE Registered(s) BY <2>1 DEF Registered
  <2>2. CASE OfferCreated(s) BY <2>2 DEF OfferCreated, Fails
  <2>3. CASE Publish(s) BY <2>3 DEF Publish, Fails
  <2>4. CASE Published(s) BY <2>4 DEF Published
  <2>5. CASE Keyed(s)
    <3>1. Alive(s) /\ loop[s] = "none" /\ session = s /\ conn = s /\ url[s] = s /\ offer[s] = s /\ ~aborted
      BY <2>5 DEF Keyed
    <3>2. ~polling
      BY <3>1
    <3>3. OneAlive' BY <2>5, <3>1, <3>2 DEF Keyed
    <3>4. OwnSession' BY <2>5, <3>1, <3>2 DEF Keyed
    <3>5. OwnConn' BY <2>5, <3>1, <3>2 DEF Keyed
    <3>6. OwnSetup' BY <2>5, <3>1, <3>2 DEF Keyed
    <3>7. OnScreen'
      <4>1. link' = s /\ conn' = s /\ offer'[s] = s /\ s \in Starts BY <2>5, <3>1 DEF Keyed
      <4>2. polling' = TRUE /\ aborted' = FALSE BY <2>5, <3>1, <3>2 DEF Keyed
      <4>3. loop'[s] = "polling" BY <2>5, <3>1, <3>2 DEF Keyed
      <4> QED BY <4>1, <4>2, <4>3
    <3>8. OwnOffer' BY <2>5, <3>1, <3>2 DEF Keyed
    <3> QED BY <3>3, <3>4, <3>5, <3>6, <3>7, <3>8
  <2>6. CASE SetupFails(s) BY <2>6 DEF SetupFails, Fails
  <2> QED BY <1>2, <2>1, <2>2, <2>3, <2>4, <2>5, <2>6 DEF SetupStep
<1>3. ASSUME NEW s \in Starts, LoopStep(s) PROVE Untangled'
  <2>1. CASE PollEmpty(s) BY <2>1 DEF PollEmpty, GoOn
  <2>2. CASE PollFails(s) BY <2>2 DEF PollFails
  <2>3. CASE Wake(s) BY <2>3 DEF Wake, GoOn
  <2>4. CASE SessionGone(s) BY <2>4 DEF SessionGone
  <2>5. CASE AnswerSet(s) BY <2>5 DEF AnswerSet, GoOn, TakesAnswer
  <2>6. CASE AnswerRefused(s) BY <2>6 DEF AnswerRefused
  <2>7. CASE TransferAsked(s) BY <2>7 DEF TransferAsked
  <2>8. CASE Pull(s) BY <2>8 DEF Pull
  <2>9. CASE TransferOver(s) BY <2>9 DEF TransferOver
  <2> QED BY <1>3, <2>1, <2>2, <2>3, <2>4, <2>5, <2>6, <2>7, <2>8, <2>9 DEF LoopStep
<1>4. ASSUME NEW s \in Starts, CandidateFound(s) PROVE Untangled' BY <1>4 DEF CandidateFound
<1>5. ASSUME NEW s \in Starts, UpdateCandidates(s) PROVE Untangled' BY <1>5 DEF UpdateCandidates
<1>6. CASE UNCHANGED vars BY <1>6 DEF vars
<1> QED BY <1>1, <1>2, <1>3, <1>4, <1>5, <1>6 DEF Next

-----------------------------------------------------------------------------
\* The page starts in the invariant.
LEMMA InitInv == Init => IInv
<1> SUFFICES ASSUME Init PROVE IInv
  OBVIOUS
<1>1. TypeOK BY NumbersAre, PlacesAre DEF Init, TypeOK
<1>2. \A s \in Starts : ~Alive(s) BY DEF Init, Alive, Awaits, Polls
<1>3. PlaceInv BY DEF Init, PlaceInv, PlaceAt, Begun, Polls
<1>4. FlagHasLoop BY DEF Init, FlagHasLoop
<1>5. OneAlive /\ OwnSession BY <1>2 DEF OneAlive, OwnSession
<1>6. OwnConn /\ OwnSetup /\ OnScreen /\ OwnOffer
  BY DEF Init, OwnConn, OwnSetup, OnScreen, OwnOffer, Awaits, Begun, Polls
<1> QED BY <1>1, <1>3, <1>4, <1>5, <1>6 DEF IInv, Untangled

\* A share once tangled stays so.
LEMMA TangledStays == [Next]_vars /\ ~tangled' => ~tangled
<1> USE DEF screenVars, flagVars, connVars, relayVars, loopVars, setupVars
<1> SUFFICES ASSUME [Next]_vars, tangled PROVE tangled'
  OBVIOUS
<1>1. CASE UserStep BY <1>1 DEF UserStep, SwitchTab, SelectFile, CancelShare, StopSharing, StartSharing
<1>2. ASSUME NEW s \in Starts, SetupStep(s) PROVE tangled'
  BY <1>2 DEF SetupStep, Registered, OfferCreated, Publish, Published, Keyed, SetupFails, Fails
<1>3. ASSUME NEW s \in Starts, LoopStep(s) PROVE tangled'
  BY <1>3 DEF LoopStep, PollEmpty, PollFails, Wake, SessionGone, AnswerSet, AnswerRefused,
              TransferAsked, Pull, TransferOver
<1>4. ASSUME NEW s \in Starts, CandidateFound(s) \/ UpdateCandidates(s) PROVE tangled'
  BY <1>4 DEF CandidateFound, UpdateCandidates
<1>5. CASE UNCHANGED vars BY <1>5 DEF vars
<1> QED BY <1>1, <1>2, <1>3, <1>4, <1>5 DEF Next

\* The invariant holds in every state the page can be in.
LEMMA Invariance == Spec => []IInv
<1>1. IInv /\ [Next]_vars => IInv'
  BY TypeStep, PlaceStep, FlagStep, UntangledStep, TangledStays DEF IInv
<1> QED BY InitInv, <1>1, PTL DEF Spec

\* Type correctness of the sending page, whatever the number of shares.
THEOREM TypeCorrect == Spec => []TypeOK
<1>1. IInv => TypeOK BY DEF IInv
<1> QED BY <1>1, Invariance, PTL

\* The polling flag is never left set by a loop that is over (4105): no share can find it
\* set and go without a loop of its own while nobody polls.
THEOREM FlagStandsForLoop == Spec => []FlagHasLoop
<1>1. IInv => FlagHasLoop BY DEF IInv
<1> QED BY <1>1, Invariance, PTL

\* The link on the screen is served as long as shares do not overlap, and a session never
\* holds another share's offer, candidates or answer.
THEOREM LinkServed == Spec => []LinkIsServed
<1>1. IInv => LinkIsServed
  <2> SUFFICES ASSUME IInv, ~tangled PROVE LinkIsServed
    BY DEF LinkIsServed
  <2>1. Untangled BY DEF IInv
  <2>2. ASSUME ui = "sharing", link \notin excused
        PROVE /\ link = session /\ offer[link] = conn
              /\ loop[link] \in Polls /\ polled[link] = link
              /\ polling /\ ~aborted
    <3>1. /\ link \in Starts /\ conn = link /\ offer[link] = link
          /\ loop[link] \in Polls /\ polling /\ ~aborted
      BY <2>1, <2>2 DEF Untangled, OnScreen
    <3>2. polled[link] = link BY <2>1, <3>1 DEF Untangled, OwnSetup
    <3>3. PlaceAt(link) BY <3>1 DEF IInv, PlaceInv
    <3>4. setup[link] = "over" BY <3>1, <3>3 DEF PlaceAt, Polls
    <3>5. session = link BY <2>1, <3>1, <3>4 DEF Untangled, OwnSession, Alive
    <3> QED BY <3>1, <3>2, <3>5
  <2>3. OwnOffer BY <2>1 DEF Untangled
  <2> QED BY <2>2, <2>3 DEF LinkIsServed, OwnOffer
<1> QED BY <1>1, Invariance, PTL
=============================================================================
