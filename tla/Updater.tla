------------------------------ MODULE Updater ------------------------------
(***************************************************************************)
(* The in-app updater (platform/3ds/source/port_updater_3ds.c): a worker   *)
(* thread that checks for, downloads and installs a new build, and the     *)
(* prompt the bottom screen shows over every tab.                          *)
(*                                                                         *)
(* Touches are handled on the logic thread, which runs on the worker's core*)
(* at a higher priority (platform_3ds_minimal.c): a touch is one step, and *)
(* it can come between any two steps of the worker.  Whether an answer of  *)
(* the server offers a newer build is open; texts, the notes and the       *)
(* progress bar are left out.                                              *)
(***************************************************************************)
EXTENDS FiniteSets

CONSTANTS
  Thread,          \* workers that StartJob could create
  None,
  ThreadMayFail,   \* threadCreate can fail
  CloseMayFail,    \* the last buffered bytes of the download can be lost (fclose)
  GameMayClose     \* the player can close the game, or lose power, at any time

Jobs == {"CHECK", "AUTO_CHECK", "INSTALL"}
States == {"IDLE", "CHECKING", "UP_TO_DATE", "AVAILABLE", "DOWNLOADING", "INSTALLED", "ERROR"}
Prompts == {"NONE", "ASK_INSTALL", "PROGRESS", "ASK_RESTART", "ERROR"}
CheckPlaces == {"check", "checkNet", "checkAnswer", "raise"}
InstallPlaces == {"install", "getNet", "download", "close", "discard", "am", "overwrite", "delete",
                  "fresh", "keep", "installed", "askRestart"}
LastPlaces == {"report", "down", "end"}
Places == CheckPlaces \cup InstallPlaces \cup LastPlaces
Work == {w \in [job : Jobs, at : Places] :
           /\ w.at \in CheckPlaces => w.job \in {"CHECK", "AUTO_CHECK"}
           /\ w.at \in InstallPlaces => w.job = "INSTALL"}

ASSUME UpdaterAssumption ==
  /\ None \notin Work /\ ThreadMayFail \in BOOLEAN
  /\ CloseMayFail \in BOOLEAN /\ GameMayClose \in BOOLEAN

VARIABLES
  sState, sPrompt, sBusy, sKeptCia, sNetUp,
  worker,   \* what each thread is doing: its job and where in it, or None
  quit,     \* Platform3DS_RequestQuit was called
  cia,      \* mzm-update.cia on the SD card
  title     \* the title the console would start: this build, the new one, or none

ui == <<sPrompt, quit>>
disk == <<cia, title>>
vars == <<sState, sPrompt, sBusy, sKeptCia, sNetUp, worker, quit, cia, title>>

-----------------------------------------------------------------------------
Running(job, at) == [job |-> job, at |-> at]

First(job) == IF job = "INSTALL" THEN "install" ELSE "check"

\* StartJob: nothing while a job runs; else a thread, which may not come to be.
StartJob(job) ==
  \/ sBusy /\ UNCHANGED <<sState, sBusy, worker>>
  \/ /\ ~ sBusy
     /\ \E t \in Thread :
          worker[t] = None /\ worker' = [worker EXCEPT ![t] = Running(job, First(job))]
     /\ sBusy' = TRUE /\ UNCHANGED sState
  \/ ~ sBusy /\ ThreadMayFail /\ sState' = "ERROR" /\ UNCHANGED <<sBusy, worker>>

\* Port_Updater_Init, once the configuration is loaded: the automatic check, if the player
\* (Port_Updater_SetAuto) left it on.
FirstJob ==
  {[t \in Thread |-> IF sAuto /\ t = first THEN Running("AUTO_CHECK", "check") ELSE None] :
     first \in Thread, sAuto \in BOOLEAN}

Init ==
  /\ sState = "IDLE" /\ sPrompt = "NONE" /\ sKeptCia = FALSE /\ sNetUp = FALSE /\ quit = FALSE
  /\ worker \in FirstJob /\ sBusy = (\E t \in Thread : worker[t] # None)
  /\ cia = "none" /\ title = "this"

-----------------------------------------------------------------------------
(* Touches. *)

\* Port_Updater_Install.
Port_Updater_Install ==
  IF sState = "AVAILABLE" THEN StartJob("INSTALL") ELSE UNCHANGED <<sState, sBusy, worker>>

\* Port_Updater_AnswerPrompt; there are no buttons during an install.
AnswerPrompt(yes) ==
  /\ ~ quit
  /\ \/ sPrompt = "ASK_INSTALL" /\ yes /\ sPrompt' = "PROGRESS" /\ Port_Updater_Install /\ UNCHANGED quit
     \/ /\ sPrompt = "ASK_INSTALL" /\ ~ yes /\ sPrompt' = "NONE"
        /\ UNCHANGED <<sState, sBusy, worker, quit>>
     \/ /\ sPrompt = "ASK_RESTART" /\ yes /\ quit' = TRUE
        /\ UNCHANGED <<sState, sPrompt, sBusy, worker>>
     \/ /\ sPrompt = "ASK_RESTART" /\ ~ yes /\ sPrompt' = "NONE"
        /\ UNCHANGED <<sState, sBusy, worker, quit>>
     \/ sPrompt = "ERROR" /\ sPrompt' = "NONE" /\ UNCHANGED <<sState, sBusy, worker, quit>>
  /\ UNCHANGED <<sKeptCia, sNetUp, disk>>

\* The button of the UPDATES modal, out of reach while a prompt is up.
UpdateButton ==
  /\ ~ quit /\ sPrompt = "NONE"
  /\ \/ sState = "AVAILABLE" /\ Port_Updater_Install /\ UNCHANGED quit
     \/ sState = "INSTALLED" /\ quit' = TRUE /\ UNCHANGED <<sState, sBusy, worker>>
     \/ /\ sState \notin {"AVAILABLE", "INSTALLED", "CHECKING", "DOWNLOADING"}
        /\ StartJob("CHECK") /\ UNCHANGED quit
  /\ UNCHANGED <<sPrompt, sKeptCia, sNetUp, disk>>

-----------------------------------------------------------------------------
(* The worker.  t is at a place, does what is there and goes on to the next. *)

At(t, place) == worker[t] # None /\ worker[t].at = place
Goes(t, place) == worker' = [worker EXCEPT ![t].at = place]

\* DoCheck up to the request; the buffer for the answer may not be there.
DoCheck(t) ==
  /\ At(t, "check")
  /\ \/ sState' = "CHECKING" /\ Goes(t, "checkNet")
     \/ sState' = "ERROR" /\ Goes(t, "report")
  /\ UNCHANGED <<ui, sBusy, sKeptCia, sNetUp, disk>>

\* SocketsUp at the head of HttpGet.
SocketsUp(t, next, failed) ==
  \/ sNetUp' = TRUE /\ UNCHANGED sState /\ Goes(t, next)
  \/ ~ sNetUp /\ sState' = "ERROR" /\ UNCHANGED sNetUp /\ Goes(t, failed)

CheckConnects(t) ==
  /\ At(t, "checkNet") /\ SocketsUp(t, "checkAnswer", "report")
  /\ UNCHANGED <<ui, sBusy, sKeptCia, disk>>

\* Seeded defect: the automatic check asks whatever the answer was.
DefectAlwaysAsks(t) ==
  /\ At(t, "checkAnswer")
  /\ sState' \in {"ERROR", "UP_TO_DATE", "AVAILABLE"}
  /\ Goes(t, IF worker[t].job = "AUTO_CHECK" THEN "raise" ELSE "report")
  /\ UNCHANGED <<ui, sBusy, sKeptCia, sNetUp, disk>>

\* The release list arrived or not, and offers a newer build or not.
CheckAnswered(t) ==
  /\ At(t, "checkAnswer")
  /\ \/ sState' \in {"ERROR", "UP_TO_DATE"} /\ Goes(t, "report")
     \/ sState' = "AVAILABLE" /\ Goes(t, IF worker[t].job = "AUTO_CHECK" THEN "raise" ELSE "report")
  /\ UNCHANGED <<ui, sBusy, sKeptCia, sNetUp, disk>>

RaisePrompt(t) ==
  /\ At(t, "raise")
  /\ sPrompt' = "ASK_INSTALL" /\ Goes(t, "report")
  /\ UNCHANGED <<sState, quit, sBusy, sKeptCia, sNetUp, disk>>

DoInstall(t) ==
  /\ At(t, "install")
  /\ sKeptCia' = FALSE /\ sState' = "DOWNLOADING" /\ Goes(t, "getNet")
  /\ UNCHANGED <<ui, sBusy, sNetUp, disk>>

InstallConnects(t) ==
  /\ At(t, "getNet") /\ SocketsUp(t, "download", "discard")
  /\ UNCHANGED <<ui, sBusy, sKeptCia, disk>>

\* FileBegin opens, and empties, the file once the answer is known to be good.
DownloadBegins(t) ==
  /\ At(t, "download")
  /\ \/ cia' = "partial" /\ UNCHANGED sState /\ Goes(t, "close")
     \/ sState' = "ERROR" /\ UNCHANGED cia /\ Goes(t, "discard")
  /\ UNCHANGED <<ui, sBusy, sKeptCia, sNetUp, title>>

\* Seeded defect: a download that broke off is installed all the same.
DefectInstallsWhatCame(t) ==
  /\ At(t, "close")
  /\ cia' \in {"partial", "whole"} /\ UNCHANGED sState /\ Goes(t, "am")
  /\ UNCHANGED <<ui, sBusy, sKeptCia, sNetUp, title>>

\* The rest arrives, or the connection or the SD card gives out.
DownloadEnds(t) ==
  /\ At(t, "close")
  /\ \/ cia' = "whole" /\ UNCHANGED sState /\ Goes(t, "am")
     \/ CloseMayFail /\ UNCHANGED <<cia, sState>> /\ Goes(t, "am")
     \/ sState' = "ERROR" /\ UNCHANGED cia /\ Goes(t, "discard")
  /\ UNCHANGED <<ui, sBusy, sKeptCia, sNetUp, title>>

\* Seeded defect: a failed download ends the worker past the report.
DefectNotReported(t) ==
  /\ At(t, "discard")
  /\ cia' \in {"none", cia} /\ sState' = "ERROR" /\ Goes(t, "down")
  /\ UNCHANGED <<ui, sBusy, sKeptCia, sNetUp, title>>

\* HttpGet failed, at whatever point: the file goes, unless the card refuses it.
DiscardDownload(t) ==
  /\ At(t, "discard")
  /\ cia' \in {"none", cia} /\ sState' = "ERROR" /\ Goes(t, "report")
  /\ UNCHANGED <<ui, sBusy, sKeptCia, sNetUp, title>>

AmInit(t) ==
  /\ At(t, "am")
  /\ \/ UNCHANGED sState /\ Goes(t, "overwrite")
     \/ sState' = "ERROR" /\ Goes(t, "report")
  /\ UNCHANGED <<ui, sBusy, sKeptCia, sNetUp, disk>>

\* InstallFromFile, over the running title or where it was deleted: an error, or
\* the system installs what is a whole CIA.
InstallFromFile(t, failed) ==
  \/ cia = "whole" /\ title' = "new" /\ UNCHANGED sState /\ Goes(t, "installed")
  \/ sState' = "ERROR" /\ UNCHANGED title /\ Goes(t, failed)

InstallOverwrite(t) ==
  /\ At(t, "overwrite") /\ InstallFromFile(t, "delete")
  /\ UNCHANGED <<ui, sBusy, sKeptCia, sNetUp, cia>>

\* Replacing was refused: delete the old title, unless its id is not known (pid 0)
\* or the system refuses that too.
DeleteTitle(t) ==
  /\ At(t, "delete") /\ sState' = "DOWNLOADING"
  /\ \/ title' = "none" /\ Goes(t, "fresh")
     \/ UNCHANGED title /\ Goes(t, "keep")
  /\ UNCHANGED <<ui, sBusy, sKeptCia, sNetUp, cia>>

InstallFresh(t) ==
  /\ At(t, "fresh") /\ InstallFromFile(t, "keep")
  /\ UNCHANGED <<ui, sBusy, sKeptCia, sNetUp, cia>>

KeepCia(t) ==
  /\ At(t, "keep")
  /\ sKeptCia' = TRUE /\ sState' = "ERROR" /\ Goes(t, "report")
  /\ UNCHANGED <<ui, sBusy, sNetUp, disk>>

InstallDone(t) ==
  /\ At(t, "installed")
  /\ cia' \in {"none", cia} /\ sState' = "INSTALLED" /\ Goes(t, "askRestart")
  /\ UNCHANGED <<ui, sBusy, sKeptCia, sNetUp, title>>

AskRestart(t) ==
  /\ At(t, "askRestart")
  /\ sPrompt' = "ASK_RESTART" /\ Goes(t, "report")
  /\ UNCHANGED <<sState, quit, sBusy, sKeptCia, sNetUp, disk>>

\* "Only an install the player is watching reports its failure in the prompt."
Report(t) ==
  /\ At(t, "report")
  /\ sPrompt' = IF sState = "ERROR" /\ sPrompt = "PROGRESS" THEN "ERROR" ELSE sPrompt
  /\ Goes(t, "down")
  /\ UNCHANGED <<sState, quit, sBusy, sKeptCia, sNetUp, disk>>

SocketsDown(t) ==
  /\ At(t, "down")
  /\ sNetUp' = FALSE /\ Goes(t, "end")
  /\ UNCHANGED <<sState, ui, sBusy, sKeptCia, disk>>

WorkerEnds(t) ==
  /\ At(t, "end")
  /\ sBusy' = FALSE
  /\ worker' = [worker EXCEPT ![t] = None]
  /\ UNCHANGED <<sState, ui, sKeptCia, sNetUp, disk>>

WorkerMain(t) ==
  \/ DoCheck(t) \/ CheckConnects(t) \/ CheckAnswered(t) \/ RaisePrompt(t)
  \/ DoInstall(t) \/ InstallConnects(t) \/ DownloadBegins(t) \/ DownloadEnds(t) \/ DiscardDownload(t)
  \/ AmInit(t) \/ InstallOverwrite(t) \/ DeleteTitle(t) \/ InstallFresh(t) \/ KeepCia(t)
  \/ InstallDone(t) \/ AskRestart(t)
  \/ Report(t) \/ SocketsDown(t) \/ WorkerEnds(t)

\* The game starts again: from the installed title, which must be there.
Restart ==
  /\ quit \/ GameMayClose
  /\ title # "none" /\ title' = "this"
  /\ sState' = "IDLE" /\ sPrompt' = "NONE" /\ sKeptCia' = FALSE /\ sNetUp' = FALSE /\ quit' = FALSE
  /\ worker' \in FirstJob /\ sBusy' = (\E t \in Thread : worker'[t] # None)
  /\ UNCHANGED cia

Touch == UpdateButton \/ \E yes \in BOOLEAN : AnswerPrompt(yes)

Next == Touch \/ Restart \/ \E t \in Thread : WorkerMain(t)

Spec == Init /\ [][Next]_vars

\* The worker is scheduled whenever the logic thread sleeps, once per frame at
\* least, and libcurl gives up a transfer that stalls.
FairSpec == Spec /\ \A t \in Thread : WF_vars(WorkerMain(t))

-----------------------------------------------------------------------------
(* Properties. *)

\* Every variable keeps to its type.
TypeOK ==
  /\ sState \in States /\ sPrompt \in Prompts
  /\ sBusy \in BOOLEAN /\ sKeptCia \in BOOLEAN /\ sNetUp \in BOOLEAN /\ quit \in BOOLEAN
  /\ worker \in [Thread -> Work \cup {None}]
  /\ cia \in {"none", "partial", "whole"} /\ title \in {"this", "new", "none"}

Installing == \E t \in Thread : worker[t] # None /\ worker[t].job = "INSTALL"

\* sBusy, which only the touches set and only the worker clears, keeps a second
\* worker from the shared state, the sockets and the file: there is a worker
\* exactly while it is set, there is one, and the sockets are held only then.
OneJobAtATime ==
  /\ \A t, u \in Thread : worker[t] # None /\ worker[u] # None => t = u
  /\ sBusy <=> \E t \in Thread : worker[t] # None
  /\ sNetUp => sBusy

\* The question that is on the screen is still the state's: YES finds what
\* Port_Updater_Install asks for, however late it is given.
AskMeansAvailable == sPrompt = "ASK_INSTALL" => sState = "AVAILABLE"

\* StartJob refuses YES while sBusy, and the progress prompt then stays.  Nothing but the
\* check that asked can be in its way, and that only in what is left of WorkerMain.
AskIsRefusedByItsCheckOnly ==
  sPrompt = "ASK_INSTALL" =>
    \A t \in Thread : worker[t] # None => worker[t].job = "AUTO_CHECK" /\ worker[t].at \in LastPlaces

\* The prompt names the CIA on the SD card only when it is there, whole.
KeptCiaIsThere == sKeptCia => cia = "whole"

\* What the prompt offers can be done, but for an install asked for between RaisePrompt and
\* WorkerEnds, and what it says of the card is so.
PromptIsTrue == AskMeansAvailable /\ AskIsRefusedByItsCheckOnly /\ KeptCiaIsThere

\* The installed title is deleted only when the CIA to replace it is whole on the
\* SD card (DoInstall).
TitleDeletedOnlyWithCia == [][title # "none" /\ title' = "none" => cia = "whole"]_vars

\* An install under the progress prompt comes to an end the player sees: the prompt
\* without buttons goes away (Report, AskRestart), unless the game is closed first.
InstallIsReported == sPrompt = "PROGRESS" /\ Installing ~> sPrompt # "PROGRESS"
=============================================================================
