----------------------------- MODULE DebugLink -----------------------------
(***************************************************************************)
(* The debug link of the 3DS port (platform/3ds/source/debug_link_3ds.c),  *)
(* composed with the FTP server whose SITE commands it answers.            *)
(*                                                                         *)
(* A request goes from the server's thread to the logic thread through one *)
(* slot (sOp) and comes back through one event (sDone) and one line        *)
(* (sResult); the thread waits for at most 20 s and only while the server  *)
(* runs.  Requests are numbered; a line is the number of the request that  *)
(* made it.  A request on a save state queues a job (port_save_state.c,    *)
(* modelled by SaveStates; here only its slot and its message) and is      *)
(* answered once no job is queued.  KEYS goes another way: three variables *)
(* the server's thread writes and the logic thread looks at.               *)
(***************************************************************************)
EXTENDS FtpServer

CONSTANTS
  MaxWaited,      \* frames a request waits for its job (600)
  Buttons,
  MaxFrames,      \* bound: frames KEYS may ask for
  LinkTimesOut    \* the 20 s of RunOnLogicThread may pass

ASSUME DebugLinkAssumption ==
  /\ MaxWaited \in Nat \ {0} /\ MaxFrames \in Nat \ {0} /\ LinkTimesOut \in BOOLEAN
  /\ None \notin 0 .. MaxCommands + 1
  /\ None \notin [n : 1 .. MaxCommands, op : {"line", "touch", "state"}]

VARIABLES
  link,           \* where the server's thread is inside a SITE command
  request,        \* the number of that command
  sOp, sActive,   \* requests not taken, and taken but not finished
  sActiveWaited, sDone, sResult,
  sJob, sMsg,     \* the save-state queue: whose job, whose message
  sKeysMask, sKeysFrames, sKeysNew,
  sKeysUntil,     \* frames left to hold them (sKeysUntil - sFrame)
  sKeysNow,
  polled,         \* DebugLink_Poll in this frame: "no", "signal" (its event is due), "yes"
  gaveUp, misled, \* history: requests answered 451, and with the line of another
  ignored, ran    \* history: state requests that found a job queued; whose job ran

handover == <<link, request, sOp, sActive, sActiveWaited, sDone, sResult>>
queue == <<sJob, sMsg>>
keys == <<sKeysMask, sKeysFrames, sKeysNew, sKeysUntil, sKeysNow>>
history == <<gaveUp, misled, ignored, ran>>
linkVars == <<handover, queue, keys, polled, history>>
vars == <<ftpVars, linkVars>>

\* "line": answered in the frame it is taken in (SHOT, DUMP, STATE, STATES, SWITCH, POKE).
LinkOps == {"line", "touch", "state"}
Command == 1 .. MaxCommands
Request == [n : Command, op : LinkOps]
Player == 0                      \* in sJob and sMsg: not a request of the link
Thumb == MaxCommands + 1         \* in sJob: a screenshot for the STATE tab

LinkInit ==
  /\ link = "idle" /\ request = 0 /\ sOp = None /\ sActive = None /\ sActiveWaited = 0
  /\ sDone = FALSE /\ sResult = 0 /\ sJob = None /\ sMsg = Player
  /\ sKeysMask = {} /\ sKeysFrames = 1 /\ sKeysNew = FALSE /\ sKeysUntil = 0 /\ sKeysNow = {}
  /\ polled = "no"
  /\ gaveUp = {} /\ misled = {} /\ ignored = {} /\ ran = {}

Init == FtpInit /\ LinkInit

-----------------------------------------------------------------------------
(* The server's thread: SITE commands of the link. *)

InCommand(t) == On /\ at[t] = "other" /\ UNCHANGED ftpVars

\* RunOnLogicThread: the event and the line are cleared, ...
LinkBegins(t) ==
  /\ Other(t)
  /\ link' = "clear" /\ request' = commands' /\ sDone' = FALSE /\ sResult' = 0
  /\ UNCHANGED <<sOp, sActive, sActiveWaited, queue, keys, polled, history>>

\* ... the request is put in the slot, ...
LinkStores(t) ==
  /\ InCommand(t) /\ link = "clear"
  /\ \E op \in LinkOps : sOp' = [n |-> request, op |-> op]
  /\ link' = "wait"
  /\ UNCHANGED <<request, sActive, sActiveWaited, sDone, sResult, queue, keys, polled, history>>

\* ... and the event waited for, which resets it.
LinkWakes(t) ==
  /\ InCommand(t) /\ link = "wait" /\ sDone
  /\ sDone' = FALSE /\ link' = "done"
  /\ UNCHANGED <<request, sOp, sActive, sActiveWaited, sResult, queue, keys, polled, history>>

\* Seeded defect: the wait does not look at the server.
DefectWaitsOn == FALSE

\* What the wait looks at between two slices, apart from its 20 s.
ServerStopped == ~ sRun

LinkGivesUp(t) ==
  /\ InCommand(t) /\ link = "wait" /\ (ServerStopped \/ LinkTimesOut)
  /\ link' = "gaveUp"
  /\ UNCHANGED <<request, sOp, sActive, sActiveWaited, sDone, sResult, queue, keys, polled, history>>

\* "451 The game did not take the request": the slot is emptied, whoever emptied it before.
LinkRetracts(t) ==
  /\ OtherEnds(t) /\ link = "gaveUp"
  /\ sOp' = None
  /\ gaveUp' = gaveUp \cup {request}
  /\ link' = "idle"
  /\ UNCHANGED <<request, sActive, sActiveWaited, sDone, sResult, queue, keys, polled, misled, ignored, ran>>

LinkReplies(t) ==
  /\ OtherEnds(t) /\ link = "done"
  /\ misled' = IF sResult = request THEN misled ELSE misled \cup {request}
  /\ link' = "idle"
  /\ UNCHANGED <<request, sOp, sActive, sActiveWaited, sDone, sResult, queue, keys, polled, gaveUp, ignored, ran>>

\* KEYS: the mask, the frames, and that there is something new.
KeysMask(t) ==
  /\ Other(t)
  /\ sKeysMask' \in SUBSET Buttons
  /\ link' = "mask"
  /\ UNCHANGED <<request, sOp, sActive, sActiveWaited, sDone, sResult, queue>>
  /\ UNCHANGED <<sKeysFrames, sKeysNew, sKeysUntil, sKeysNow, polled, history>>
KeysFrames(t) ==
  /\ InCommand(t) /\ link = "mask"
  /\ sKeysFrames' \in 1 .. MaxFrames
  /\ link' = "frames"
  /\ UNCHANGED <<request, sOp, sActive, sActiveWaited, sDone, sResult, queue>>
  /\ UNCHANGED <<sKeysMask, sKeysNew, sKeysUntil, sKeysNow, polled, history>>
KeysNew(t) ==
  /\ OtherEnds(t) /\ link = "frames"
  /\ sKeysNew' = TRUE
  /\ link' = "idle"
  /\ UNCHANGED <<request, sOp, sActive, sActiveWaited, sDone, sResult, queue>>
  /\ UNCHANGED <<sKeysMask, sKeysFrames, sKeysUntil, sKeysNow, polled, history>>

-----------------------------------------------------------------------------
(* The logic thread: DebugLink_Poll at the top of its frame. *)

\* Seeded defect: the frames are counted from the one before.
DefectHeldTooShort ==
  IF sKeysNew /\ sKeysNow # {}
  THEN sKeysNow' = {} /\ UNCHANGED <<sKeysNew, sKeysUntil>>
  ELSE LET left == IF sKeysNew THEN sKeysFrames - 1 ELSE sKeysUntil IN
         /\ sKeysNew' = FALSE
         /\ sKeysUntil' = IF left > 0 THEN left - 1 ELSE 0
         /\ sKeysNow' = IF left > 0 THEN sKeysMask ELSE {}

\* Injected buttons: a new KEYS first releases what is held, for one frame.
PollKeys ==
  IF sKeysNew /\ sKeysNow # {}
  THEN /\ sKeysNow' = {}
       /\ sKeysUntil' = IF sKeysUntil > 0 THEN sKeysUntil - 1 ELSE 0
       /\ UNCHANGED sKeysNew
  ELSE LET left == IF sKeysNew THEN sKeysFrames ELSE sKeysUntil IN
         /\ sKeysNew' = FALSE
         /\ sKeysUntil' = IF left > 0 THEN left - 1 ELSE 0
         /\ sKeysNow' = IF left > 0 THEN sKeysMask ELSE {}

NoTouch == UNCHANGED <<at, server, DebugFtpOn, frame>>
Finish(n) == sResult' = n /\ polled' = "signal"

\* Seeded defect: the frames a request has waited are not counted.
DefectNoLimit ==
  IF sActive.op = "state" /\ sJob # None
  THEN UNCHANGED <<sActive, sActiveWaited, sResult>> /\ polled' = "yes"
  ELSE sActive' = None /\ Finish(sActive.n) /\ UNCHANGED sActiveWaited

\* Seeded defect: a state request is answered in the next frame, whatever is queued.
DefectNoWait == sActive' = None /\ Finish(sActive.n) /\ UNCHANGED sActiveWaited

\* Continue: a touch is let go; a state request waits until no job is queued, or too long.
Continue ==
  IF sActive.op = "state" /\ sJob # None /\ sActiveWaited + 1 < MaxWaited
  THEN sActiveWaited' = sActiveWaited + 1 /\ polled' = "yes" /\ UNCHANGED <<sActive, sResult>>
  ELSE /\ sActive' = None /\ Finish(sActive.n)
       /\ sActiveWaited' = IF sActive.op = "state" /\ sJob # None THEN sActiveWaited + 1 ELSE sActiveWaited

\* "While the SD card is being read or written the "wait" message is up and nothing else
\* can be touched (a thumbnail read is too short to matter)" (Port_BottomUI_HandleTouchDrag).
TouchesCount == sJob \in {None, Thumb}

\* A line is made at once.  (A state request ends like one when the list was not scanned,
\* which queues a scan, or has no such entry.)
StartLine ==
  /\ Finish(sOp.n) /\ NoTouch
  /\ sJob' \in {sJob} \cup (IF sJob = None THEN {Player} ELSE {})
  /\ UNCHANGED <<sActive, ignored>>

\* Seeded defect: a touch is answered before it is let go.
DefectTouchIsDone ==
  /\ sOp.op = "touch" /\ sActive' = sOp
  /\ \/ TouchesCount /\ FtpButton
     \/ NoTouch
  /\ polled' = "signal" /\ UNCHANGED <<sResult, sJob, ignored>>

\* A touch, which may be on the FTP button itself.
StartTouch ==
  /\ sOp.op = "touch" /\ sActive' = sOp
  /\ \/ TouchesCount /\ FtpButton
     \/ NoTouch
  /\ polled' = "yes" /\ UNCHANGED <<sResult, sJob, ignored>>

\* SsRequest: ignored while another job is queued.
StartState ==
  /\ sOp.op = "state" /\ sActive' = sOp /\ NoTouch
  /\ IF sJob = None THEN sJob' = sOp.n /\ UNCHANGED ignored
                    ELSE ignored' = ignored \cup {sOp.n} /\ UNCHANGED sJob
  /\ polled' = "yes" /\ UNCHANGED sResult

Poll ==
  /\ frame = "tick" /\ polled = "no"
  /\ PollKeys
  /\ \/ /\ sActive # None /\ Continue
        /\ NoTouch /\ UNCHANGED <<sOp, sJob, ignored>>
     \/ /\ sActive = None /\ sOp = None
        /\ polled' = "yes" /\ NoTouch
        /\ UNCHANGED <<sOp, sActive, sActiveWaited, sResult, sJob, ignored>>
     \/ /\ sActive = None /\ sOp # None
        /\ sOp' = None /\ sActiveWaited' = 0
        /\ \/ sOp.op # "touch" /\ StartLine
           \/ StartTouch
           \/ StartState
  /\ UNCHANGED <<install, commands, link, request, sDone, sMsg, sKeysMask, sKeysFrames, gaveUp, misled, ran>>

\* The line is there; now the event says so.
Signal ==
  /\ polled = "signal" /\ frame # "gone"
  /\ polled' = "yes" /\ sDone' = TRUE
  /\ UNCHANGED <<ftpVars, link, request, sOp, sActive, sActiveWaited, sResult, queue, keys, history>>

-----------------------------------------------------------------------------
(* The rest of the frame. *)

NewFrame == polled' = "no" /\ UNCHANGED <<handover, keys, history>>
Polled == polled = "yes" /\ UNCHANGED linkVars

\* The STATE tab queues a job of its own.
PlayerJob ==
  /\ frame = "game" /\ sJob = None /\ sJob' \in {Player, Thumb}
  /\ UNCHANGED <<ftpVars, handover, sMsg, keys, polled, history>>

\* Port_SaveState_ServicePending serves the job.  A screenshot or a scan leaves no message.
JobEnds ==
  /\ frame = "game" /\ sJob # None /\ sJob' = None
  /\ \/ sJob # Thumb /\ sMsg' = sJob
     \/ sJob \in {Player, Thumb} /\ UNCHANGED sMsg
  /\ ran' = ran \cup ({sJob} \cap Command)
  /\ UNCHANGED <<ftpVars, handover, keys, polled, gaveUp, misled, ignored>>

\* A thread in a SITE command ends in time if its wait does.
StopTakesTooLong ==
  /\ sThread \in Thread
  /\ at[sThread] \in Transfers \/ (at[sThread] = "other" /\ link = "wait" /\ ~ ServerStopped)

Frame ==
  \/ Poll \/ Signal
  \/ TakeRelaunch /\ Polled
  \/ Tick /\ Polled
  \/ GameFrame /\ NewFrame /\ UNCHANGED queue
  \/ StopJoins /\ UNCHANGED linkVars
  \/ StopGivesUp(StopTakesTooLong) /\ UNCHANGED linkVars

Game ==
  \/ PlayerJob \/ JobEnds
  \/ frame = "game" /\ Touch /\ TouchesCount /\ NewFrame /\ UNCHANGED queue

\* What the server's thread does of itself, and what a client makes it do.
ThreadGoesOn(t) ==
  \/ LinkStores(t) \/ LinkWakes(t) \/ LinkGivesUp(t) \/ LinkRetracts(t) \/ LinkReplies(t)
  \/ KeysFrames(t) \/ KeysNew(t)
  \/ /\ \/ StorEnds(t) \/ RetrEnds(t) \/ NoData(t) \/ ThreadEnds(t)
        \/ InstallFails(t) \/ InstallEnds(t) \/ StartCountdown(t) \/ AskRelaunch(t)
        \/ ~ sRun /\ ClientLeaves(t)
     /\ UNCHANGED linkVars
Client(t) ==
  \/ LinkBegins(t) \/ KeysMask(t)
  \/ /\ ClientComes(t) \/ (sRun /\ ClientLeaves(t)) \/ StorCia(t) \/ Stor(t) \/ Retr(t) \/ Install(t)
     /\ UNCHANGED linkVars

Next ==
  \/ Frame \/ Game
  \/ TenSecondsPass /\ UNCHANGED linkVars
  \/ \E t \in Thread : ThreadGoesOn(t) \/ Client(t)

Spec == Init /\ [][Next]_vars

\* The main loop goes on to its next frame, time passes, and the server's thread gets to
\* run: it naps 10 ms between polls and is on another core or shares the logic thread's,
\* which sleeps once a frame; its transfers have limits of their own.
FairSpec ==
  /\ Spec /\ WF_vars(Frame) /\ WF_vars(TenSecondsPass /\ UNCHANGED linkVars)
  /\ \A t \in Thread : WF_vars(ThreadGoesOn(t))

-----------------------------------------------------------------------------
(* Properties. *)

\* Every variable keeps to its type.
LinkTypes ==
  /\ link \in {"idle", "clear", "wait", "done", "gaveUp", "mask", "frames"}
  /\ sOp \in Request \cup {None} /\ sActive \in Request \cup {None}
  /\ polled \in {"no", "signal", "yes"}
CountTypes ==
  request \in 0 .. MaxCommands /\ sResult \in 0 .. MaxCommands /\ sActiveWaited \in 0 .. MaxWaited
QueueTypes == sJob \in 0 .. MaxCommands + 1 \cup {None} /\ sMsg \in 0 .. MaxCommands
KeysTypes ==
  /\ sKeysMask \subseteq Buttons /\ sKeysNow \subseteq Buttons
  /\ sKeysFrames \in 1 .. MaxFrames /\ sKeysUntil \in 0 .. MaxFrames
HistoryTypes == gaveUp \cup misled \cup ignored \cup ran \subseteq Command
TypeOK ==
  /\ FtpTypeOK /\ LinkTypes /\ CountTypes /\ QueueTypes /\ KeysTypes /\ HistoryTypes
  /\ sDone \in BOOLEAN /\ sKeysNew \in BOOLEAN

\* "Hands the request to the logic thread and waits for its result line": the line a client
\* gets is of its own request, or of one that was answered before its time (0: what such a
\* one wrote and this one cleared); the wrong lines all go back to a request that gave up
\* while the logic thread had it.  And "The game did not take the request" stays true: what
\* was answered so is not taken later.
AnswersAreTrue ==
  /\ link = "done" => sResult \in {request} \cup (IF gaveUp = {} THEN {} ELSE gaveUp \cup misled \cup {0})
  /\ sOp # None => sOp.n \notin gaveUp

\* "states ... run on the logic thread, once per frame; the reply waits for them"
\* (docs/3ds-debug-tools.md): a state request is answered after its job, unless another job
\* was in the way when it was taken, or with the message that the job did not finish.
StateAnswers == sActive # None /\ sActive.op = "state" /\ sActive' = None /\ sActiveWaited' < MaxWaited
AnsweredAfterItsJob == [][StateAnswers => sActive.n \in ran \cup ignored]_vars

\* The link never jams: what the logic thread took it finishes, even when the job of a
\* state request never ends.
LinkNeverJams == sActive # None ~> sActive = None \/ ~ On

\* KEYS reaches the game: the buttons go down, however few frames they are held.
KeysArePressed == sKeysNew /\ sKeysMask # {} ~> sKeysNow # {} \/ sKeysMask = {} \/ ~ On

\* The link never keeps a stop waiting, so the composed system is a server in the sense of
\* FtpServer: a thread is left running only inside a transfer or an installation.
ImplementsFtpServer == FtpSpec
=============================================================================
