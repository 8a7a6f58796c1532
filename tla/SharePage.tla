----------------------------- MODULE SharePage -----------------------------
(***************************************************************************)
(* The sending page of app.js: startSenderSharing, its candidate updates,  *)
(* startSenderPolling with the two HTTP transfers, stopSenderSharing and   *)
(* the buttons that lead to them.                                          *)
(*                                                                         *)
(* Everything here is asynchronous and shares module variables: a setup    *)
(* that awaits, a poll that waits at the relay and a timer that will fire  *)
(* all go on with whatever senderSessionID, senderPeerConnection, polling  *)
(* flag and file they find when they wake up.  The tabs stay usable, so a  *)
(* second setup may begin while the first one or its poll loop is alive.   *)
(*                                                                         *)
(* A setup s is one call of startSenderSharing; its session, its           *)
(* connection, its key and its poll loop carry its number.                 *)
(***************************************************************************)
EXTENDS Naturals

CONSTANT MaxStarts   \* bound on the setups

ASSUME StartsAreNatural == MaxStarts \in Nat \ {0}

VARIABLES ui,         \* setState: the screen
          file,       \* senderFile is not null
          aborted,    \* senderAborted
          polling,    \* isSenderPolling
          session,    \* senderSessionID
          conn,       \* senderPeerConnection, 0 when null
          link,       \* session in the link on the screen
          setup,      \* place of a setup
          url,        \* session a setup has put in its link
          isOpen,     \* connections that are not closed
          described,  \* connections with a local description
          timer,      \* setups whose candidatePublishTimer is armed
          offer,      \* at the relay: connection whose offer a session holds
          candidates, \* at the relay: setup whose candidates a session holds
          remote,     \* connection whose offer the answer set on a connection is for
          loop,       \* place of a poll loop
          polled,     \* session a loop's poll is waiting at
          excused,    \* sessions whose loop had reason to end: unknown to the relay, or served
          tangled     \* a setup began while an earlier one was not over

vars == <<ui, file, aborted, polling, session, conn, link, setup, url, isOpen, described,
          timer, offer, candidates, remote, loop, polled, excused, tangled>>

screenVars == <<ui, file, link>>
flagVars   == <<aborted, polling>>
connVars   == <<conn, isOpen, described, remote>>
relayVars  == <<offer, candidates>>
loopVars   == <<loop, polled, excused>>
setupVars  == <<setup, url, timer, tangled>>

Starts  == 1..MaxStarts
OrNone  == 0..MaxStarts
Awaits  == {"registering", "offering", "gathering", "publishing", "keying"}
Polls   == {"polling", "sleeping", "streaming", "picking", "pulling"}

SetupPlaces == {"none", "over", "failed"} \cup Awaits
LoopPlaces  == {"none", "ended"} \cup Polls

TypeOK ==
    /\ ui \in {"home", "ready", "loading", "sharing", "error"}
    /\ file \in BOOLEAN /\ aborted \in BOOLEAN /\ polling \in BOOLEAN /\ tangled \in BOOLEAN
    /\ session \in OrNone /\ conn \in OrNone /\ link \in OrNone
    /\ setup \in [Starts -> SetupPlaces]
    /\ url \in [Starts -> OrNone] /\ polled \in [Starts -> OrNone]
    /\ isOpen \subseteq Starts /\ described \subseteq Starts
    /\ timer \subseteq Starts /\ excused \subseteq Starts
    /\ offer \in [Starts -> OrNone] /\ candidates \in [Starts -> OrNone]
    /\ remote \in [Starts -> OrNone]
    /\ loop \in [Starts -> LoopPlaces]

Init ==
    /\ ui = "home" /\ file = FALSE
    /\ aborted = FALSE /\ polling = FALSE /\ tangled = FALSE
    /\ session = 0 /\ conn = 0 /\ link = 0
    /\ setup = [s \in Starts |-> "none"]
    /\ loop = [s \in Starts |-> "none"]
    /\ url = [s \in Starts |-> 0] /\ polled = [s \in Starts |-> 0]
    /\ isOpen = {} /\ described = {} /\ timer = {} /\ excused = {}
    /\ offer = [s \in Starts |-> 0] /\ candidates = [s \in Starts |-> 0]
    /\ remote = [s \in Starts |-> 0]

-----------------------------------------------------------------------------
(* The user. *)

\* Faulty variant of SwitchTab: the state takes the name of the tab.
SwitchTabByName ==
    /\ ui \in {"loading", "sharing", "error"}
    /\ ui' = "send"
    /\ UNCHANGED <<file, link, flagVars, session, connVars, relayVars, loopVars, setupVars>>

\* The send tab brings the first screen back and leaves everything else running.
SwitchTab ==
    /\ ui \in {"loading", "sharing", "error"}
    /\ ui' = "home"
    /\ UNCHANGED <<file, link, flagVars, session, connVars, relayVars, loopVars, setupVars>>

SelectFile ==
    /\ ui = "home"
    /\ file' = TRUE
    /\ ui' = "ready"
    /\ UNCHANGED <<link, flagVars, session, connVars, relayVars, loopVars, setupVars>>

CancelShare ==
    /\ ui = "ready"
    /\ file' = FALSE
    /\ ui' = "home"
    /\ UNCHANGED <<link, flagVars, session, connVars, relayVars, loopVars, setupVars>>

Alive(s) == setup[s] \in Awaits \/ loop[s] \in Polls \/ s \in isOpen \/ s \in timer

\* Faulty variant of StartSharing: senderAborted is not reset.
StartSharingAborted(s) ==
    /\ ui = "ready" /\ setup[s] = "none"
    /\ \A t \in 1..(s - 1) : setup[t] # "none"
    /\ ui' = "loading"
    /\ setup' = [setup EXCEPT ![s] = "registering"]
    /\ tangled' = (tangled \/ \E t \in Starts : Alive(t))
    /\ UNCHANGED <<file, link, flagVars, session, connVars, relayVars, loopVars, url, timer>>

StartSharing(s) ==
    /\ ui = "ready" /\ setup[s] = "none"
    /\ \A t \in 1..(s - 1) : setup[t] # "none"
    /\ aborted' = FALSE
    /\ ui' = "loading"
    /\ setup' = [setup EXCEPT ![s] = "registering"]
    /\ tangled' = (tangled \/ \E t \in Starts : Alive(t))
    /\ UNCHANGED <<file, link, polling, session, connVars, relayVars, loopVars, url, timer>>

\* The data channel and the connection are closed and forgotten; a poll in flight and
\* an HTTP transfer are not cut off.
StopSharing ==
    /\ ui = "sharing"
    /\ aborted' = TRUE
    /\ polling' = FALSE
    /\ isOpen' = isOpen \ {conn}
    /\ conn' = 0
    /\ ui' = "home"
    /\ UNCHANGED <<file, link, session, described, remote, relayVars, loopVars, setupVars>>

-----------------------------------------------------------------------------
(* startSenderSharing, one step from each await to the next. *)

\* catch: the error screen; nothing is undone.
Fails(s) ==
    /\ setup' = [setup EXCEPT ![s] = "failed"]
    /\ ui' = "error"
    /\ UNCHANGED <<file, link, flagVars, session, connVars, relayVars, loopVars, url, timer, tangled>>

\* The relay, the browser or the QR code fails at any await.
SetupFails(s) == setup[s] \in Awaits /\ Fails(s)

\* The session and the connection replace whatever the variables held.
Registered(s) ==
    /\ setup[s] = "registering"
    /\ session' = s
    /\ conn' = s
    /\ isOpen' = isOpen \cup {s}
    /\ setup' = [setup EXCEPT ![s] = "offering"]
    /\ UNCHANGED <<screenVars, flagVars, described, remote, relayVars, loopVars, url, timer, tangled>>

\* createOffer was called on the setup's own connection, setLocalDescription goes to the
\* one in the variable, which accepts no offer but its own and none at all when closed.
OfferCreated(s) ==
    /\ setup[s] = "offering"
    /\ IF conn = s
       THEN /\ described' = described \cup {s}
            /\ setup' = [setup EXCEPT ![s] = "gathering"]
            /\ UNCHANGED <<screenVars, flagVars, session, conn, isOpen, remote, relayVars, loopVars,
                           url, timer, tangled>>
       ELSE Fails(s)

\* The first candidate, the end of gathering or 750 ms: description, candidates and
\* the file of the moment go to the session of the moment.
Publish(s) ==
    /\ setup[s] = "gathering"
    /\ IF conn \in described /\ file
       THEN /\ offer' = [offer EXCEPT ![session] = conn]
            /\ candidates' = [candidates EXCEPT ![session] = s]
            /\ setup' = [setup EXCEPT ![s] = "publishing"]
            /\ UNCHANGED <<screenVars, flagVars, session, connVars, loopVars, url, timer, tangled>>
       ELSE Fails(s)

\* senderStatePublished: one update at once; the link takes the session of the moment.
Published(s) ==
    /\ setup[s] = "publishing"
    /\ timer' = timer \cup {s}
    /\ url' = [url EXCEPT ![s] = session]
    /\ setup' = [setup EXCEPT ![s] = "keying"]
    /\ UNCHANGED <<screenVars, flagVars, session, connVars, relayVars, loopVars, tangled>>

\* The link is shown and startSenderPolling is called: nothing when the flag is set, a
\* loop that ends at once when the share has been stopped meanwhile.
Keyed(s) ==
    /\ setup[s] = "keying"
    /\ setup' = [setup EXCEPT ![s] = "over"]
    /\ ui' = "sharing"
    /\ link' = url[s]
    /\ IF polling
       THEN UNCHANGED <<polling, loop, polled>>
       ELSE /\ polling' = ~aborted
            /\ loop' = [loop EXCEPT ![s] = IF aborted THEN "ended" ELSE "polling"]
            /\ polled' = [polled EXCEPT ![s] = IF aborted THEN 0 ELSE session]
    /\ UNCHANGED <<file, aborted, session, connVars, relayVars, url, timer, excused, tangled>>

\* onicecandidate after the state was published arms the timer, also when the setup has
\* failed since.
CandidateFound(s) ==
    /\ s \in isOpen /\ url[s] # 0
    /\ timer' = timer \cup {s}
    /\ UNCHANGED <<screenVars, flagVars, session, connVars, relayVars, loopVars, setup, url, tangled>>

\* The setup's own candidates go to the session of the moment.
UpdateCandidates(s) ==
    /\ s \in timer
    /\ timer' = timer \ {s}
    /\ candidates' = [candidates EXCEPT ![session] = s]
    /\ UNCHANGED <<screenVars, flagVars, session, connVars, offer, loopVars, setup, url, tangled>>

-----------------------------------------------------------------------------
(* startSenderPolling. *)

\* The head of the loop, and its end, which clears the flag for everybody.
GoOn(s) ==
    IF polling /\ ~aborted
    THEN /\ loop' = [loop EXCEPT ![s] = "polling"]
         /\ polled' = [polled EXCEPT ![s] = session]
         /\ UNCHANGED polling
    ELSE /\ loop' = [loop EXCEPT ![s] = "ended"]
         /\ polling' = FALSE
         /\ UNCHANGED polled

\* The long poll ends empty.
PollEmpty(s) ==
    /\ loop[s] = "polling"
    /\ GoOn(s)
    /\ UNCHANGED <<screenVars, aborted, session, connVars, relayVars, excused, setupVars>>

\* A refused or broken poll: two seconds.
PollFails(s) ==
    /\ loop[s] = "polling"
    /\ loop' = [loop EXCEPT ![s] = "sleeping"]
    /\ UNCHANGED <<screenVars, flagVars, session, connVars, relayVars, polled, excused, setupVars>>

\* Faulty variant of Wake: the loop polls again without a look at the flags.
WakeUnchecked(s) ==
    /\ loop[s] = "sleeping"
    /\ loop' = [loop EXCEPT ![s] = "polling"]
    /\ UNCHANGED <<screenVars, flagVars, session, connVars, relayVars, polled, excused, setupVars>>

Wake(s) ==
    /\ loop[s] = "sleeping"
    /\ GoOn(s)
    /\ UNCHANGED <<screenVars, aborted, session, connVars, relayVars, excused, setupVars>>

\* Faulty variant of SessionGone: the flag stays set.
SessionGoneFlagged(s) ==
    /\ loop[s] = "polling"
    /\ loop' = [loop EXCEPT ![s] = "ended"]
    /\ excused' = excused \cup {polled[s]}
    /\ UNCHANGED <<screenVars, flagVars, session, connVars, relayVars, polled, setupVars>>

\* 404 or 410: the loop ends, the screen stays.
SessionGone(s) ==
    /\ loop[s] = "polling"
    /\ loop' = [loop EXCEPT ![s] = "ended"]
    /\ polling' = FALSE
    /\ excused' = excused \cup {polled[s]}
    /\ UNCHANGED <<screenVars, aborted, session, connVars, relayVars, polled, setupVars>>

\* The connection of the moment waits for an answer: it has an offer and no answer yet.
TakesAnswer == conn \in isOpen /\ conn \in described /\ remote[conn] = 0

\* The answer to the offer of the polled session is set on the connection of the moment;
\* one that refuses it, or no connection, is an error like any other.
AnswerSet(s) ==
    /\ loop[s] = "polling" /\ offer[polled[s]] # 0
    /\ TakesAnswer
    /\ remote' = [remote EXCEPT ![conn] = offer[polled[s]]]
    /\ GoOn(s)
    /\ UNCHANGED <<screenVars, aborted, session, conn, isOpen, described, relayVars, excused, setupVars>>

AnswerRefused(s) ==
    /\ loop[s] = "polling" /\ offer[polled[s]] # 0
    /\ ~TakesAnswer
    /\ loop' = [loop EXCEPT ![s] = "sleeping"]
    /\ UNCHANGED <<screenVars, flagVars, session, connVars, relayVars, polled, excused, setupVars>>

\* A download or an upload is announced: the loop leaves polling for the transfer,
\* without another look at the flags.
TransferAsked(s) ==
    /\ loop[s] = "polling" /\ offer[polled[s]] # 0
    /\ \E place \in {"streaming", "picking"} : loop' = [loop EXCEPT ![s] = place]
    /\ UNCHANGED <<screenVars, flagVars, session, connVars, relayVars, polled, excused, setupVars>>

\* receiveFileFromHTTP with a file of the picker; without one the browser downloads by
\* itself and the loop is over at once (TransferOver).
Pull(s) ==
    /\ loop[s] = "picking"
    /\ loop' = [loop EXCEPT ![s] = "pulling"]
    /\ UNCHANGED <<screenVars, flagVars, session, connVars, relayVars, polled, excused, setupVars>>

\* The transfer ends well, or with the error screen; then the loop breaks.
TransferOver(s) ==
    /\ loop[s] \in {"streaming", "picking", "pulling"}
    /\ ui' \in {ui, "error"}
    /\ loop' = [loop EXCEPT ![s] = "ended"]
    /\ polling' = FALSE
    /\ excused' = excused \cup {polled[s]}
    /\ UNCHANGED <<file, link, aborted, session, connVars, relayVars, polled, setupVars>>

-----------------------------------------------------------------------------
SetupStep(s) ==
    \/ Registered(s) \/ OfferCreated(s) \/ Publish(s) \/ Published(s) \/ Keyed(s)
    \/ SetupFails(s)

LoopStep(s) ==
    \/ PollEmpty(s) \/ PollFails(s) \/ Wake(s) \/ SessionGone(s)
    \/ AnswerSet(s) \/ AnswerRefused(s) \/ TransferAsked(s) \/ Pull(s) \/ TransferOver(s)

UserStep ==
    \/ SwitchTab \/ SelectFile \/ CancelShare \/ StopSharing
    \/ \E s \in Starts : StartSharing(s)

Next ==
    \/ UserStep
    \/ \E s \in Starts : SetupStep(s) \/ LoopStep(s) \/ CandidateFound(s) \/ UpdateCandidates(s)

Spec == Init /\ [][Next]_vars

\* Awaited calls return, timers fire, transfers end; the user owes nothing.
FairSpec ==
    /\ Spec
    /\ \A s \in Starts : WF_vars(SetupStep(s)) /\ WF_vars(LoopStep(s)) /\ WF_vars(UpdateCandidates(s))
-----------------------------------------------------------------------------
(* Properties. *)

\* As long as no setup begins while an earlier one is alive: the screen that shows a link
\* stands for a session somebody polls, with the offer of the connection in hand, unless
\* the relay dropped the session or the one HTTP transfer a loop makes is over; and a
\* session never holds candidates or gets an answer of another share's connection.  Stop
\* has to clear flags, connection and polling for the next share (4253-4266).
LinkIsServed ==
    ~tangled =>
        /\ ui = "sharing" /\ link \notin excused
             => /\ link = session /\ offer[link] = conn
                /\ loop[link] \in Polls /\ polled[link] = link
                /\ polling /\ ~aborted
        /\ \A s \in Starts : /\ offer[s] # 0 => offer[s] = s /\ candidates[s] = s
                            /\ remote[s] \in {0, s}

\* The polling flag is never left behind by a loop that ended: a new share could not
\* start its own loop (4105).  This holds for overlapping shares as well.
FlagHasLoop == polling => \E s \in Starts : loop[s] \in Polls

\* Every loop ends after Stop, unless sharing is started again (4108, 4254).
StopEndsLoops == aborted ~> (~aborted \/ \A s \in Starts : loop[s] \notin Polls)
=============================================================================
