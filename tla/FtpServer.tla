----------------------------- MODULE FtpServer -----------------------------
(***************************************************************************)
(* The FTP server of the 3DS port (platform/3ds/source/ftp_server_3ds.c):  *)
(* its thread, what the thread uses (the listening socket, the transfer    *)
(* buffer, the network service), and the installation of a new build with  *)
(* the restart that follows it.                                            *)
(*                                                                         *)
(* The server is started and stopped by the logic thread, from the frame's *)
(* housekeeping (Platform3DS_PollKeysIntoGba) or from a touch, and its     *)
(* thread serves one client, one command at a time.  Stopping waits for    *)
(* the thread for three seconds and then leaves it running.  What commands *)
(* say, files, the log ring and the install-only mode are left out; a      *)
(* command that neither moves a file nor installs is "other", and DebugLink*)
(* says what it does.                                                      *)
(***************************************************************************)
EXTENDS Naturals, FiniteSets

CONSTANTS
  Thread,        \* threads StartServer may create, one after the other
  None,
  MaxCommands    \* bound: commands clients send in all

ASSUME FtpServerAssumption == None \notin Thread /\ MaxCommands \in Nat

VARIABLES
  at,            \* where each server thread is; "none" when it does not exist
  sThread,       \* the handle FtpServer_Stop joins
  sRun, sThreadStuck,
  sIo,           \* the transfer buffer and the listening socket are there
  sNetHeld,
  sPhase,        \* 1 a .cia comes in, 2 it installs, 3 the restart is counted down
  sRelaunch,
  sRelaunchAt,   \* "unset", "ahead" or "passed": osGetTime() against it
  DebugFtpOn,    \* Port_Config_DebugFtpOn(): the server was left on
  frame,         \* the logic thread: "tick" (top of a frame), "game", "stop", "gone"
  commands       \* how many commands have been read

server == <<sThread, sRun, sThreadStuck, sIo, sNetHeld>>
install == <<sPhase, sRelaunch, sRelaunchAt>>
ftpVars == <<at, server, install, DebugFtpOn, frame, commands>>

\* A transfer can sit in a send, an fwrite or the installer for longer than a stop waits.
Transfers == {"stor", "storCia", "retr", "install"}
Places == Transfers \cup {"none", "client", "command", "other", "installed", "counting", "ended"}
Alive(t) == at[t] \notin {"none", "ended"}
On == frame # "gone"
Stopping == frame = "stop"

FtpInit ==
  /\ at = [t \in Thread |-> "none"] /\ sThread = None
  /\ sRun = FALSE /\ sThreadStuck = FALSE /\ sIo = FALSE /\ sNetHeld = FALSE
  /\ sPhase = 0 /\ sRelaunch = FALSE /\ sRelaunchAt = "unset"
  /\ DebugFtpOn \in BOOLEAN          \* as mzm3ds.ini says
  /\ frame = "tick" /\ commands = 0

-----------------------------------------------------------------------------
(* Starting and stopping, on the logic thread. *)

\* StartServer: the network, a socket on the port, the buffer, a thread.
StartServer ==
  /\ ~ sRun /\ ~ sThreadStuck
  /\ \E t \in Thread : at[t] = "none" /\ sThread' = t /\ at' = [at EXCEPT ![t] = "client"]
  /\ sRun' = TRUE /\ sIo' = TRUE /\ sNetHeld' = TRUE /\ UNCHANGED sThreadStuck

\* No network, no Wi-Fi, the port is busy, no thread: what was taken is given back.
StartFails == UNCHANGED <<at, server>>

Release == sIo' = FALSE /\ sNetHeld' = FALSE

\* Seeded defect: a second stop does what the first one left undone.
DefectStopFreesAgain ==
  /\ sRun' = FALSE
  /\ IF sThread = None THEN Release /\ frame' = "tick"
                       ELSE frame' = "stop" /\ UNCHANGED <<sIo, sNetHeld>>
  /\ UNCHANGED <<at, sThread, sThreadStuck>>

\* FtpServer_Stop up to its wait for the thread; nothing after a stop that gave up.
StopBegins ==
  /\ IF sThreadStuck THEN frame' = "tick" /\ UNCHANGED <<sRun, sIo, sNetHeld>>
     ELSE /\ sRun' = FALSE
          /\ IF sThread = None THEN Release /\ frame' = "tick"
                               ELSE frame' = "stop" /\ UNCHANGED <<sIo, sNetHeld>>
  /\ UNCHANGED <<at, sThread, sThreadStuck>>

\* The button of the FTP cell: what was on goes off, and the other way round.
FtpButton ==
  IF sRun \/ DebugFtpOn
  THEN DebugFtpOn' = FALSE /\ StopBegins
  ELSE DebugFtpOn' = TRUE /\ (StartServer \/ StartFails) /\ frame' = "tick"

\* threadJoin returns; what the thread used is freed.
StopJoins ==
  /\ Stopping /\ at[sThread] = "ended"
  /\ at' = [at EXCEPT ![sThread] = "none"] /\ sThread' = None
  /\ Release
  /\ frame' = "tick"
  /\ UNCHANGED <<sRun, sThreadStuck, install, DebugFtpOn, commands>>

\* Three seconds are over: the thread keeps what it uses.  Where `stays` says the thread
\* cannot be counted on to end.
StopGivesUp(stays) ==
  /\ Stopping /\ stays
  /\ sThreadStuck' = TRUE /\ sThread' = None
  /\ frame' = "tick"
  /\ UNCHANGED <<at, sRun, sIo, sNetHeld, install, DebugFtpOn, commands>>

RelaunchDue == sRelaunch /\ sRelaunchAt # "ahead"

\* FtpServer_TakeRelaunch, then RequestQuit: the game closes with the end of this frame.
TakeRelaunch ==
  /\ frame = "tick" /\ RelaunchDue
  /\ sRelaunch' = FALSE /\ sPhase' = 0
  /\ frame' = "gone"
  /\ UNCHANGED <<at, server, sRelaunchAt, DebugFtpOn, commands>>

\* The rest of the housekeeping: a server that was left on is tried again every so often.
Tick ==
  /\ frame = "tick" /\ ~ RelaunchDue
  /\ \/ DebugFtpOn /\ StartServer
     \/ StartFails
  /\ frame' = "game"
  /\ UNCHANGED <<install, DebugFtpOn, commands>>

\* The button is touched: by the player in the game's frame, or by the debug link at the top
\* of one.
Touch ==
  /\ frame \in {"tick", "game"} /\ FtpButton
  /\ UNCHANGED <<install, commands>>

GameFrame ==
  /\ frame = "game" /\ frame' = "tick"
  /\ UNCHANGED <<at, server, install, DebugFtpOn, commands>>

TenSecondsPass ==
  /\ On /\ sRelaunchAt = "ahead" /\ sRelaunchAt' = "passed"
  /\ UNCHANGED <<at, server, sPhase, sRelaunch, DebugFtpOn, frame, commands>>

-----------------------------------------------------------------------------
(* The server thread: FtpMain, HandleSession and the commands. *)

Goes(t, from, to) == On /\ at[t] = from /\ at' = [at EXCEPT ![t] = to]
Quiet == UNCHANGED <<server, install, DebugFtpOn, frame, commands>>
Phase(p) == sPhase' = p /\ UNCHANGED <<sRelaunch, sRelaunchAt>>
Serves == UNCHANGED <<server, DebugFtpOn, frame, commands>>

ClientComes(t) == sRun /\ Goes(t, "client", "command") /\ Quiet
ClientLeaves(t) == Goes(t, "command", "client") /\ Quiet
ThreadEnds(t) == ~ sRun /\ Goes(t, "client", "ended") /\ Quiet

\* A command is read while the server runs; a stop may come right after.
Reads(t, to) ==
  /\ sRun /\ commands < MaxCommands /\ Goes(t, "command", to)
  /\ commands' = commands + 1
  /\ UNCHANGED <<server, DebugFtpOn, frame>>

Other(t) == Reads(t, "other") /\ UNCHANGED install
OtherEnds(t) == Goes(t, "other", "command") /\ Quiet

StorCia(t) == Reads(t, "storCia") /\ Phase(1)
Stor(t) == Reads(t, "stor") /\ UNCHANGED install
Retr(t) == Reads(t, "retr") /\ UNCHANGED install

\* Seeded defect: a transfer that was cut off leaves the bar on the screen.
DefectBarStays(t) ==
  /\ \/ Goes(t, "storCia", "command") /\ (IF sRun THEN Phase(0) ELSE UNCHANGED install)
     \/ Goes(t, "stor", "command") /\ UNCHANGED install
  /\ Serves

\* The file is whole, or the connection or the server went; a .cia takes its bar with it.
StorEnds(t) ==
  /\ \/ Goes(t, "storCia", "command") /\ Phase(0)
     \/ Goes(t, "stor", "command") /\ UNCHANGED install
  /\ Serves
RetrEnds(t) == Goes(t, "retr", "command") /\ Quiet

\* No data connection: STOR and RETR both take the bar away, whoever's it was.
NoData(t) ==
  /\ \E p \in {"stor", "storCia", "retr"} : Goes(t, p, "command")
  /\ Phase(0) /\ Serves

Install(t) == Reads(t, "install") /\ Phase(2)
InstallFails(t) == Goes(t, "install", "command") /\ Phase(0) /\ Serves
InstallEnds(t) == Goes(t, "install", "installed") /\ Quiet

\* Seeded defect: the restart is asked for before its time is set.
DefectAsksFirst(t) ==
  /\ Goes(t, "installed", "counting")
  /\ sRelaunch' = TRUE /\ sPhase' = 3
  /\ UNCHANGED sRelaunchAt /\ Serves

\* sRelaunchAt and the phase first; sRelaunch is what the logic thread looks at.
StartCountdown(t) ==
  /\ Goes(t, "installed", "counting")
  /\ sRelaunchAt' = "ahead" /\ sPhase' = 3
  /\ UNCHANGED sRelaunch /\ Serves
AskRelaunch(t) ==
  /\ Goes(t, "counting", "command")
  /\ sRelaunch' = TRUE
  /\ UNCHANGED <<sRelaunchAt, sPhase>> /\ Serves

ServerThread(t) ==
  \/ ClientComes(t) \/ ClientLeaves(t) \/ ThreadEnds(t)
  \/ Other(t) \/ OtherEnds(t)
  \/ StorCia(t) \/ Stor(t) \/ Retr(t) \/ StorEnds(t) \/ RetrEnds(t) \/ NoData(t)
  \/ Install(t) \/ InstallFails(t) \/ InstallEnds(t) \/ StartCountdown(t) \/ AskRelaunch(t)

Logic ==
  \/ TakeRelaunch \/ Tick \/ Touch \/ GameFrame
  \/ StopJoins \/ StopGivesUp(sThread \in Thread /\ at[sThread] \in Transfers)

FtpNext == Logic \/ TenSecondsPass \/ \E t \in Thread : ServerThread(t)

FtpSpec == FtpInit /\ [][FtpNext]_ftpVars

-----------------------------------------------------------------------------
(* Properties. *)

\* Every variable keeps to its type.
ServerTypes ==
  /\ at \in [Thread -> Places] /\ sThread \in Thread \cup {None}
  /\ sRun \in BOOLEAN /\ sThreadStuck \in BOOLEAN /\ sIo \in BOOLEAN /\ sNetHeld \in BOOLEAN
InstallTypes ==
  /\ sPhase \in {0, 1, 2, 3} /\ sRelaunch \in BOOLEAN /\ sRelaunchAt \in {"unset", "ahead", "passed"}
FrameTypes ==
  /\ DebugFtpOn \in BOOLEAN /\ frame \in {"tick", "game", "stop", "gone"}
  /\ commands \in 0 .. MaxCommands
FtpTypeOK == ServerTypes /\ InstallTypes /\ FrameTypes

\* "freeing a thread that still runs, or the network service under its call, froze the game"
\* (FtpServer_Stop): whatever stops and starts came before, a running thread has its buffer,
\* its listening socket and the network, and has them for itself: sListen, sCtrl, sData and
\* sIo are one set, which two server threads would share.
NothingFreedUnderTheThread ==
  \A t \in Thread : Alive(t) => sIo /\ sNetHeld /\ \A u \in Thread : Alive(u) => t = u

\* "it relaunches 10 s later\": jumping at once had the loader run out of memory
\* (platform_3ds_minimal.c).  The game closes by itself only when the ten seconds that
\* follow an installation are over.
RestartsAfterTheCountdown == [][frame # "gone" /\ frame' = "gone" => sRelaunchAt = "passed"]_ftpVars

\* The bar of a transfer or an installation goes away, also when the server is stopped in
\* the middle or the thread is left running; and once installed, the new build is started.
InstallIsFinished ==
  /\ sPhase \in {1, 2} ~> sPhase \notin {1, 2} \/ ~ On
  /\ sRelaunch ~> ~ On
=============================================================================
