---------------------------- MODULE BlackboxPage ----------------------------
(***************************************************************************)
(* The Blackbox tab (ui/src/pages/BlackboxPage.tsx): the download of       *)
(* SdDownload beside the onboard recorder's poller (blackbox/onboard.ts),  *)
(* the SD card check (sd-card.ts) and the USB bench recorder (recorder.ts).*)
(* The tab is hidden, never unmounted: each controller is told to go idle  *)
(* and must not believe an answer it asked for before.                     *)
(***************************************************************************)
EXTENDS SdDownload

VARIABLES
    shown,      \* the tab is visible and no post-flash check is due
    \* OnboardController
    obOn, obPending,
    snap,       \* the last good snapshot: "none", "active" or "inactive"
    obOut,      \* its commands on the wire: [cmd, now], now: token = epoch
    snapNow,    \* history: snap answers a command of this enable
    \* SdCardController
    ckOn, ckCmd, ckNow, ckPolling,
    \* Recorder
    recOn, recPending

obVars  == <<obOn, obPending, snap, obOut, snapNow>>
ckVars  == <<ckOn, ckCmd, ckNow, ckPolling>>
recVars == <<recOn, recPending>>
vars    == <<sdVars, obVars, ckVars, recVars, shown>>

Init ==
    /\ SdInit
    /\ shown = TRUE
    /\ obOn = FALSE /\ obPending = FALSE /\ snap = "none"
    /\ obOut = {} /\ snapNow = TRUE
    /\ ckOn = FALSE /\ ckCmd = None /\ ckNow = FALSE /\ ckPolling = FALSE
    /\ recOn = FALSE /\ recPending = FALSE

obActive == snap = "active"
ckBusy   == ckCmd # None \/ ckPolling

-----------------------------------------------------------------------------
(* Effects: each follows the state it depends on before the next event.    *)

\* onboardEnabled and sdEnabled
OnboardWanted == shown /\ conn
CheckWanted   == shown /\ conn /\ ~recOn /\ ~obActive

\* setEnabled() of the recorder's poller forgets all it knew.
OnboardEffect ==
    /\ obOn # OnboardWanted
    /\ obOn' = OnboardWanted
    /\ obPending' = FALSE /\ snap' = "none" /\ snapNow' = TRUE
    /\ obOut' = {[o EXCEPT !.now = FALSE] : o \in obOut}
    /\ UNCHANGED <<sdVars, ckVars, recVars, shown>>

\* setEnabled() of the card check leaves the command on the wire pending.
CheckEffect ==
    /\ ckOn # CheckWanted
    /\ ckOn' = CheckWanted /\ ckNow' = FALSE /\ ckPolling' = FALSE
    /\ UNCHANGED <<ckCmd, sdVars, obVars, recVars, shown>>

\* The bench recorder stops when the tab is hidden or the link is gone.
RecorderEffect ==
    /\ recOn /\ ~(shown /\ conn)
    /\ recOn' = FALSE
    /\ UNCHANGED <<recPending, sdVars, obVars, ckVars, shown>>

\* A running download is cancelled when the tab is hidden.
DownloadEffect ==
    /\ busy /\ ~cancelReason /\ ~shown
    /\ Cancel
    /\ UNCHANGED <<obVars, ckVars, recVars, shown>>

Settled == /\ obOn = OnboardWanted /\ ckOn = CheckWanted
           /\ recOn => shown /\ conn
           /\ busy /\ ~cancelReason => shown

Effects == OnboardEffect \/ CheckEffect \/ RecorderEffect \/ DownloadEffect

-----------------------------------------------------------------------------
(* The recorder's poller: command() and its answer.                        *)

\* startDisabled; backupAck is the user's, and the polled arm state, which may
\* be old, only disables the button.
MayStart == obOn /\ ~obPending /\ ~obActive /\ ~ckBusy /\ ~busy /\ ~recOn
MayStop  == obOn /\ ~obPending /\ obActive
\* The poll timer, paused during a download, and the Refresh button.
MayPoll  == obOn /\ ~obPending

OnboardCommand(c) ==
    /\ conn /\ Cardinality(obOut) < 2
    /\ CASE c = "start" -> MayStart [] c = "stop" -> MayStop [] OTHER -> MayPoll
    /\ obPending' = TRUE
    /\ obOut' = obOut \cup {[cmd |-> c, now |-> TRUE]}
    /\ UNCHANGED <<obOn, snap, snapNow, sdVars, ckVars, recVars, shown>>

\* The firmware's recorder: a start takes the card from the probe.
FwBlackbox(c) ==
    LET starts == c = "start" /\ ~armed /\ ~recording /\ ~fwRead
                  /\ fwPhase # "initializing" /\ card # None
    IN /\ recording' = ((recording /\ c # "stop") \/ starts)
       /\ fwStale' = (fwStale \/ starts)
       /\ UNCHANGED <<linkVars, events, card, fwPhase, fwRead, armed, bufVars, opVars, outVars>>

\* parseOnboardReply(): what the page needs of a good answer.
Snapshot(rec) == IF rec THEN "active" ELSE "inactive"

\* Mutant: the token is not compared.
OwnAnswerBlind(o) == obOn

\* What command() asks before it believes an answer.
OwnAnswer(o) == obOn /\ o.now

\* The answer; good: it parses.  A bad one keeps the snapshot, so that a
\* recording known to be active keeps its locks.
OnboardReply(o, good) ==
    /\ o \in obOut /\ conn
    /\ obOut' = obOut \ {o}
    /\ FwBlackbox(o.cmd)
    /\ obPending' = (obPending /\ ~o.now)
    /\ IF OwnAnswer(o) /\ good
         THEN /\ snap' = Snapshot(recording')
              /\ snapNow' = o.now
         ELSE UNCHANGED <<snap, snapNow>>
    /\ UNCHANGED <<obOn, ckVars, recVars, shown>>

-----------------------------------------------------------------------------
(* The card check.                                                         *)

\* The buttons: a probe waits for the last one and for the recorder.
CheckOffered(c) == ckOn /\ ckCmd = None /\ ~busy /\ (c = "probe" => ~ckPolling /\ ~obActive)

CheckCommand(c) ==
    /\ CheckOffered(c) /\ conn
    /\ ckCmd' = c /\ ckNow' = TRUE
    /\ UNCHANGED <<ckOn, ckPolling, sdVars, obVars, recVars, shown>>

\* Its commands in the firmware, and what the answer shows.
CheckReply ==
    /\ ckCmd # None /\ conn
    /\ LET starts == ckCmd = "probe" /\ ~SdRefuses /\ ~armed /\ fwPhase # "initializing"
           stops  == ckCmd = "cancel" /\ ~recording /\ (fwRead \/ fwPhase = "initializing")
           refused == recording \/ (ckCmd = "probe" /\ ~starts) \/ (fwRead /\ ckCmd # "cancel")
       IN /\ fwPhase' = IF starts THEN "initializing" ELSE IF stops THEN "cancelled" ELSE fwPhase
          /\ fwStale' = (fwStale /\ ~starts)
          /\ fwRead' = (fwRead /\ ~(ckCmd = "cancel" /\ ~recording))
          /\ ckPolling' = IF ~ckNow THEN ckPolling
                          ELSE ~refused /\ fwPhase' = "initializing"
    /\ ckCmd' = None /\ ckNow' = FALSE
    /\ UNCHANGED <<linkVars, events, card, armed, recording, bufVars, opVars, outVars>>
    /\ UNCHANGED <<ckOn, obVars, recVars, shown>>

\* The 15 s cap of its polling.
CheckDeadline ==
    /\ ckOn /\ ckPolling /\ ckCmd = None /\ ~busy
    /\ ckPolling' = FALSE
    /\ UNCHANGED <<ckOn, ckCmd, ckNow, sdVars, obVars, recVars, shown>>

-----------------------------------------------------------------------------
(* The bench recorder; its samples are left out.                           *)

\* The button; sources and the replacement of an old recording are the user's.
RecorderOffered == shown /\ conn /\ ~ckBusy /\ ~busy /\ ~obActive /\ ~recOn

RecorderStart ==
    /\ RecorderOffered /\ ~recPending
    /\ recOn' = TRUE
    /\ UNCHANGED <<recPending, sdVars, obVars, ckVars, shown>>

\* Stop, the ten-minute, sample and memory limits, a failed request.
RecorderStop ==
    /\ recOn /\ recOn' = FALSE
    /\ UNCHANGED <<recPending, sdVars, obVars, ckVars, shown>>

\* tick() sends one query; the answer frees the recorder for the next.
RecorderTick ==
    /\ recPending \/ (recOn /\ conn)
    /\ recPending' = ~recPending
    /\ UNCHANGED <<recOn, sdVars, obVars, ckVars, shown>>

-----------------------------------------------------------------------------
(* The tab.                                                                *)

\* Mutant: the storage lock forgets the card check.
NotBlockedByCheck == conn /\ ~obActive /\ ~recOn

\* downloadBlockedReason() and storageBlock(); a settings storage action and
\* the polled arm state only disable the button.
NotBlocked == conn /\ ~obActive /\ ~ckBusy /\ ~recOn

StartDownload ==
    /\ shown /\ NotBlocked
    /\ List \/ (files # None /\ \E f \in files : Download(f))
    /\ UNCHANGED <<obVars, ckVars, recVars, shown>>

ClickCancel == shown /\ Cancel /\ UNCHANGED <<obVars, ckVars, recVars, shown>>

\* Leaving the tab and coming back; a post-flash lock is the same to the page.
SwitchTab == /\ Event /\ shown' = ~shown
             /\ UNCHANGED <<linkVars, fwVars, bufVars, opVars, outVars,
                            obVars, ckVars, recVars>>

\* A lost port rejects what the others had on the wire too.
Lost == /\ obOut' = {} /\ obPending' = FALSE /\ ckCmd' = None
        /\ recPending' = FALSE /\ recOn' = FALSE
        /\ UNCHANGED <<obOn, snap, snapNow, ckOn, ckNow, ckPolling>>

Others == UNCHANGED <<obVars, ckVars, recVars>>

Machine == SdNext /\ (IF conn' THEN Others ELSE Lost) /\ UNCHANGED shown

Page == \/ \E c \in {"start", "stop", "status"} : OnboardCommand(c)
        \/ \E o \in obOut, good \in BOOLEAN : OnboardReply(o, good)
        \/ \E c \in {"probe", "status", "cancel"} : CheckCommand(c)
        \/ CheckReply \/ CheckDeadline
        \/ RecorderStart \/ RecorderStop \/ RecorderTick
        \/ StartDownload \/ ClickCancel \/ SwitchTab

Next == \/ Settled /\ (Machine \/ Page)
        \/ Effects

Spec == Init /\ [][Next]_vars

\* Effects run, timers fire (no answer is taken for granted) and a port being
\* closed closes.
Fairness == /\ WF_vars(Effects)
            /\ WF_vars(Settled /\ Timers /\ Others /\ UNCHANGED shown)
            /\ WF_vars(Settled /\ PortDropped /\ Lost /\ UNCHANGED shown)

FairSpec == Spec /\ Fairness

-----------------------------------------------------------------------------
(* Properties.                                                             *)

\* The card check and the download never use the card at the same time: a
\* second probe under a download would make a changed card look current.
OneSdUser == ~(ckBusy /\ busy)

\* What the page shows of the recorder was asked for on this connection and
\* this visit; an answer from before a reconnect is dropped.
SnapshotFresh == snap # "none" => snapNow
=============================================================================
