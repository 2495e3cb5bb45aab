-------------------------- MODULE DebugLinkProofs --------------------------
(***************************************************************************)
(* What holds of the FTP server and of the debug link within it, for every *)
(* number of threads, commands, frames and buttons: FtpServer on its own   *)
(* first; then that DebugLink is a server in that sense, and whose line a  *)
(* client gets.                                                            *)
(***************************************************************************)
EXTENDS DebugLink, TLAPS

-----------------------------------------------------------------------------
(* FtpServer on its own. *)

\* The inductive invariant.  At most one thread exists, and what it uses is there; it is the
\* one FtpServer_Stop would join, or the one that a stop has given up.
Sole == \A t, u \in Thread : at[t] # "none" /\ at[u] # "none" => t = u
Held ==
  /\ sThread \in Thread => at[sThread] # "none"
  /\ sThread \in Thread \/ sThreadStuck => sIo /\ sNetHeld
  /\ \A t \in Thread : at[t] # "none" => t = sThread \/ sThreadStuck
Known ==
  /\ sThreadStuck => sThread = None /\ ~ sRun
  /\ frame = "stop" => sThread \in Thread /\ ~ sRun
  /\ frame # "stop" => (sRun <=> sThread # None)

\* A restart that was asked for, or is about to be, has its time.
Timed == sRelaunch \/ (\E t \in Thread : at[t] = "counting") => sRelaunchAt # "unset"

Types == ServerTypes /\ InstallTypes /\ FrameTypes
FInv == Types /\ Sole /\ Held /\ Known /\ Timed

LEMMA FtpFirst == FtpInit => FInv
  <1> SUFFICES ASSUME FtpInit PROVE FInv
    OBVIOUS
  <1> USE FtpServerAssumption DEF FtpInit
  <1>1. ServerTypes
    BY DEF ServerTypes, Places
  <1>2. InstallTypes
    BY DEF InstallTypes
  <1>4. FrameTypes
    BY DEF FrameTypes
  <1>3. Sole /\ Held /\ Known /\ Timed
    BY DEF Sole, Held, Known, Timed
  <1> QED BY <1>1, <1>2, <1>3 DEF FInv, Types, ServerTypes, InstallTypes, FrameTypes

-----------------------------------------------------------------------------
(* The logic thread. *)

LEMMA StartKeeps ==
  ASSUME FInv, StartServer, frame # "stop", frame' \in {"tick", "game"},
         UNCHANGED <<install, commands>>, DebugFtpOn' \in BOOLEAN
  PROVE  FInv'
  <1> USE FtpServerAssumption DEF FInv
  <1>1. PICK t \in Thread : at[t] = "none" /\ sThread' = t /\ at' = [at EXCEPT ![t] = "client"]
    BY DEF StartServer
  <1>2. /\ sRun' = TRUE /\ sIo' = TRUE /\ sNetHeld' = TRUE
        /\ ~ sThreadStuck /\ sThreadStuck' = sThreadStuck /\ sThread = None
    BY DEF StartServer, Known
  <1>3. \A u \in Thread : at[u] = "none" /\ at'[u] = IF u = t THEN "client" ELSE "none"
    BY <1>1, <1>2 DEF Held, Types, ServerTypes
  <1>4. Types'
    <2>1. ServerTypes'
      BY <1>1, <1>2 DEF Types, ServerTypes, Places
    <2>2. InstallTypes' /\ FrameTypes'
      BY DEF Types, InstallTypes, FrameTypes, install
    <2> QED BY <2>1, <2>2 DEF Types
  <1>5. Sole' /\ Held' /\ Known'
    BY <1>1, <1>2, <1>3 DEF Sole, Held, Known
  <1>6. Timed'
    BY <1>3 DEF Timed, install
  <1> QED BY <1>4, <1>5, <1>6

LEMMA StopKeeps ==
  ASSUME FInv, StopBegins, frame # "stop", UNCHANGED <<install, commands>>, DebugFtpOn' \in BOOLEAN
  PROVE  FInv'
  <1> USE FtpServerAssumption DEF FInv, Types, StopBegins, Release
  <1>1. ServerTypes'
    BY DEF ServerTypes
  <1>2. InstallTypes' /\ frame' \in {"tick", "stop"}
    BY DEF InstallTypes, install
  <1>3. FrameTypes'
    BY <1>2 DEF FrameTypes
  <1>4. Sole' /\ Timed'
    BY DEF Sole, Timed, install
  <1>5. Held' /\ Known'
    BY DEF Held, Known, ServerTypes
  <1> QED BY <1>1, <1>2, <1>3, <1>4, <1>5

LEMMA RestsKeeps ==
  ASSUME FInv, UNCHANGED <<at, server, install, commands>>, DebugFtpOn' \in BOOLEAN,
         frame # "stop", frame' \in {"tick", "game"}
  PROVE  FInv'
  BY DEF FInv, Types, ServerTypes, InstallTypes, FrameTypes, Sole, Held, Known, Timed, server, install

LEMMA TouchKeeps ==
  ASSUME FInv, Touch
  PROVE  FInv'
  <1>1. frame # "stop" /\ UNCHANGED <<install, commands>> /\ DebugFtpOn' \in BOOLEAN
    BY DEF Touch, FtpButton
  <1>2. CASE StopBegins
    BY <1>1, <1>2, StopKeeps
  <1>3. CASE StartServer /\ frame' = "tick"
    BY <1>1, <1>3, StartKeeps
  <1>4. CASE StartFails /\ frame' = "tick"
    BY <1>1, <1>4, RestsKeeps DEF StartFails
  <1> QED BY <1>2, <1>3, <1>4 DEF Touch, FtpButton

LEMMA LogicKeeps ==
  ASSUME FInv, Logic
  PROVE  FInv'
  <1>1. CASE TakeRelaunch
    <2> USE <1>1 DEF TakeRelaunch, RelaunchDue, FInv, Types, server
    <2>1. ServerTypes' /\ Sole' /\ Held' /\ Known'
      BY DEF ServerTypes, Sole, Held, Known
    <2>2. InstallTypes'
      BY DEF InstallTypes
    <2>3. FrameTypes'
      BY DEF FrameTypes
    <2>4. Timed'
      BY DEF Timed
    <2> QED BY <2>1, <2>2, <2>3, <2>4
  <1>2. CASE Tick
    <2>1. frame # "stop" /\ frame' = "game" /\ UNCHANGED <<install, DebugFtpOn, commands>>
          /\ DebugFtpOn' \in BOOLEAN
      BY <1>2 DEF Tick, FInv, Types, ServerTypes, InstallTypes, FrameTypes
    <2>2. CASE StartServer
      BY <2>1, <2>2, StartKeeps
    <2>3. CASE StartFails
      BY <2>1, <2>3, RestsKeeps DEF StartFails
    <2> QED BY <1>2, <2>2, <2>3 DEF Tick
  <1>3. CASE Touch
    BY <1>3, TouchKeeps
  <1>4. CASE GameFrame
    BY <1>4, RestsKeeps DEF GameFrame, FInv, Types, ServerTypes, InstallTypes, FrameTypes
  <1>5. CASE StopJoins
    <2>1. sThread \in Thread /\ ~ sThreadStuck /\ ~ sRun
      BY <1>5, FtpServerAssumption DEF StopJoins, Stopping, FInv, Known
    <2>2. \A t \in Thread : at'[t] = "none"
      BY <1>5, <2>1 DEF StopJoins, FInv, Types, ServerTypes, InstallTypes, FrameTypes, Held
    <2>3. Types'
      BY <1>5, <2>1 DEF StopJoins, Release, FInv, Types, ServerTypes, InstallTypes, FrameTypes, Places, install
    <2> QED
      BY <1>5, <2>1, <2>2, <2>3, FtpServerAssumption
      DEF StopJoins, Release, FInv, Sole, Held, Known, Timed, install
  <1>6. CASE StopGivesUp(sThread \in Thread /\ at[sThread] \in Transfers)
    BY <1>6, FtpServerAssumption
    DEF StopGivesUp, Stopping, FInv, Types, ServerTypes, InstallTypes, FrameTypes, Sole, Held, Known, Timed, install
  <1> QED BY <1>1, <1>2, <1>3, <1>4, <1>5, <1>6 DEF Logic

-----------------------------------------------------------------------------
(* The server's thread. *)

\* A thread that goes on is still the only one; it asks for a restart only from "counting".
LEMMA GoesKeeps ==
  ASSUME FInv, NEW t \in Thread, NEW from \in Places \ {"none"}, NEW to \in Places \ {"none"},
         Goes(t, from, to), UNCHANGED <<server, DebugFtpOn, frame>>,
         FrameTypes', sPhase' \in {0, 1, 2, 3},
         \/ UNCHANGED <<sRelaunch, sRelaunchAt>> /\ to # "counting"
         \/ UNCHANGED sRelaunch /\ sRelaunchAt' = "ahead"
         \/ UNCHANGED sRelaunchAt /\ sRelaunch' = TRUE /\ from = "counting" /\ to # "counting"
  PROVE  FInv'
  <1> USE FtpServerAssumption DEF FInv
  <1>1. \A u \in Thread : at'[u] = IF u = t THEN to ELSE at[u]
    BY DEF Goes, Types, ServerTypes, InstallTypes, FrameTypes
  <1>2. at[t] = from /\ from # "none" /\ to # "none"
    BY DEF Goes
  <1>3. Types'
    BY DEF Goes, Types, ServerTypes, InstallTypes, FrameTypes, server
  <1>4. Sole' /\ Held' /\ Known'
    BY <1>1, <1>2 DEF Sole, Held, Known, server
  <1>5. Timed'
    BY <1>1, <1>2 DEF Timed
  <1> QED BY <1>3, <1>4, <1>5

LEMMA ThreadKeeps ==
  ASSUME FInv, NEW t \in Thread, ServerThread(t)
  PROVE  FInv'
  <1> USE DEF Places, Transfers
  <1>0. FrameTypes /\ sPhase \in {0, 1, 2, 3} /\ MaxCommands \in Nat
    BY FtpServerAssumption DEF FInv, Types, InstallTypes
  <1>1. FrameTypes'
    <2>1. ASSUME UNCHANGED <<DebugFtpOn, frame, commands>> PROVE FrameTypes'
      BY <1>0, <2>1 DEF FrameTypes
    <2>2. ASSUME NEW to, Reads(t, to) PROVE FrameTypes'
      BY <1>0, <2>2 DEF FrameTypes, Reads
    <2> QED
      BY <2>1, <2>2
      DEF ServerThread, ClientComes, ClientLeaves, ThreadEnds, Other, OtherEnds, StorCia, Stor, Retr,
          StorEnds, RetrEnds, NoData, Install, InstallFails, InstallEnds, StartCountdown,
          AskRelaunch, Quiet, Serves
  <1>2. CASE ClientComes(t)
    BY <1>0, <1>1, <1>2, GoesKeeps DEF ClientComes, Quiet, install
  <1>3. CASE ClientLeaves(t)
    BY <1>0, <1>1, <1>3, GoesKeeps DEF ClientLeaves, Quiet, install
  <1>4. CASE ThreadEnds(t)
    BY <1>0, <1>1, <1>4, GoesKeeps DEF ThreadEnds, Quiet, install
  <1>5. CASE Other(t)
    BY <1>0, <1>1, <1>5, GoesKeeps DEF Other, Reads, install
  <1>6. CASE OtherEnds(t)
    BY <1>0, <1>1, <1>6, GoesKeeps DEF OtherEnds, Quiet, install
  <1>7. CASE StorCia(t)
    BY <1>0, <1>1, <1>7, GoesKeeps DEF StorCia, Reads, Phase, install
  <1>8. CASE Stor(t)
    BY <1>0, <1>1, <1>8, GoesKeeps DEF Stor, Reads, install
  <1>9. CASE Retr(t)
    BY <1>0, <1>1, <1>9, GoesKeeps DEF Retr, Reads, install
  <1>10. CASE StorEnds(t)
    BY <1>0, <1>1, <1>10, GoesKeeps DEF StorEnds, Phase, Serves, install
  <1>11. CASE RetrEnds(t)
    BY <1>0, <1>1, <1>11, GoesKeeps DEF RetrEnds, Quiet, install
  <1>12. CASE NoData(t)
    BY <1>0, <1>1, <1>12, GoesKeeps DEF NoData, Phase, Serves, install
  <1>13. CASE Install(t)
    BY <1>0, <1>1, <1>13, GoesKeeps DEF Install, Reads, Phase, install
  <1>14. CASE InstallFails(t)
    BY <1>0, <1>1, <1>14, GoesKeeps DEF InstallFails, Phase, Serves, install
  <1>15. CASE InstallEnds(t)
    BY <1>0, <1>1, <1>15, GoesKeeps DEF InstallEnds, Quiet, install
  <1>16. CASE StartCountdown(t)
    BY <1>0, <1>1, <1>16, GoesKeeps DEF StartCountdown, Serves, install
  <1>17. CASE AskRelaunch(t)
    BY <1>0, <1>1, <1>17, GoesKeeps DEF AskRelaunch, Serves, install
  <1> QED
    BY <1>2, <1>3, <1>4, <1>5, <1>6, <1>7, <1>8, <1>9, <1>10, <1>11, <1>12, <1>13, <1>14, <1>15, <1>16, <1>17
    DEF ServerThread

LEMMA FtpStep == FInv /\ [FtpNext]_ftpVars => FInv'
  <1> SUFFICES ASSUME FInv, [FtpNext]_ftpVars PROVE FInv'
    OBVIOUS
  <1>1. CASE Logic
    BY <1>1, LogicKeeps
  <1>2. CASE TenSecondsPass
    BY <1>2 DEF TenSecondsPass, FInv, Types, ServerTypes, InstallTypes, FrameTypes, Sole, Held, Known, Timed, server
  <1>3. ASSUME NEW t \in Thread, ServerThread(t) PROVE FInv'
    BY <1>3, ThreadKeeps
  <1>4. CASE UNCHANGED ftpVars
    BY <1>4 DEF ftpVars, server, install, FInv, Types, ServerTypes, InstallTypes, FrameTypes, Sole, Held, Known, Timed
  <1> QED BY <1>1, <1>2, <1>3, <1>4 DEF FtpNext

-----------------------------------------------------------------------------
(* The theorems. *)

LEMMA FtpInvariant == FtpSpec => []FInv
  BY FtpFirst, FtpStep, PTL DEF FtpSpec

\* The types.
THEOREM FtpTyped == FtpSpec => []FtpTypeOK
  BY FtpInvariant, PTL DEF FInv, Types, FtpTypeOK

\* Whatever starts and stops came before, and however many stops gave up, a thread that runs
\* has its buffer, its socket and the network, and there is no second one.
THEOREM NothingFreed == FtpSpec => []NothingFreedUnderTheThread
  <1>1. FInv => NothingFreedUnderTheThread
    BY FtpServerAssumption DEF FInv, Held, Sole, NothingFreedUnderTheThread, Alive
  <1> QED BY <1>1, FtpInvariant, PTL

\* The game closes by itself only once the countdown is over.
THEOREM Restarts == FtpSpec => RestartsAfterTheCountdown
  <1>1. ASSUME FInv, FtpNext, frame # "gone", frame' = "gone" PROVE sRelaunchAt = "passed"
    <2>1. TakeRelaunch
      BY <1>1 DEF FtpNext, Logic, Tick, Touch, FtpButton, StopBegins, GameFrame, StopJoins,
                  StopGivesUp, TenSecondsPass, ServerThread, ClientComes, ClientLeaves, ThreadEnds,
                  Other, OtherEnds, StorCia, Stor, Retr, StorEnds, RetrEnds, NoData, Install,
                  InstallFails, InstallEnds, StartCountdown, AskRelaunch, Reads, Quiet, Serves
    <2> QED BY <1>1, <2>1 DEF TakeRelaunch, RelaunchDue, FInv, Types, ServerTypes, InstallTypes, FrameTypes, Timed
  <1>2. FInv /\ [FtpNext]_ftpVars => [frame # "gone" /\ frame' = "gone" => sRelaunchAt = "passed"]_ftpVars
    BY <1>1 DEF ftpVars
  <1> QED BY <1>2, FtpInvariant, PTL DEF FtpSpec, RestartsAfterTheCountdown

-----------------------------------------------------------------------------
(* The server within. *)

\* A stop never gives up on a thread inside a command of the link: the server no longer runs,
\* so the wait of the command is over.
LEMMA StepOfServer ==
  ASSUME FInv, [Next]_vars
  PROVE  [FtpNext]_ftpVars
  <1>1. CASE Poll
    <2>1. CASE NoTouch
      BY <1>1, <2>1 DEF Poll, NoTouch, ftpVars, server, install
    <2>2. CASE FtpButton
      BY <1>1, <2>2 DEF Poll, Touch, FtpNext, Logic
    <2> QED BY <1>1, <2>1, <2>2 DEF Poll, StartLine, StartTouch, StartState
  <1>2. CASE StopGivesUp(StopTakesTooLong)
    <2>1. sThread \in Thread /\ at[sThread] \in Transfers
      BY <1>2 DEF StopGivesUp, StopTakesTooLong, ServerStopped, Stopping, FInv, Known
    <2>2. StopGivesUp(sThread \in Thread /\ at[sThread] \in Transfers)
      BY <1>2, <2>1 DEF StopGivesUp
    <2> QED BY <2>2 DEF FtpNext, Logic
  <1>3. CASE Frame
    BY <1>1, <1>2, <1>3 DEF Frame, Signal, FtpNext, Logic
  <1>4. CASE Game
    BY <1>4 DEF Game, PlayerJob, JobEnds, FtpNext, Logic
  <1>5. ASSUME NEW t \in Thread, ThreadGoesOn(t) PROVE [FtpNext]_ftpVars
    <2>1. ServerThread(t) \/ UNCHANGED ftpVars
      BY <1>5 DEF ThreadGoesOn, ServerThread, LinkStores, LinkWakes, LinkGivesUp, LinkRetracts,
                  LinkReplies, KeysFrames, KeysNew, InCommand
    <2> QED BY <2>1 DEF FtpNext
  <1>6. ASSUME NEW t \in Thread, Client(t) PROVE [FtpNext]_ftpVars
    <2>1. ServerThread(t)
      BY <1>6 DEF Client, ServerThread, LinkBegins, KeysMask
    <2> QED BY <2>1 DEF FtpNext
  <1>7. CASE UNCHANGED vars
    BY <1>7 DEF vars
  <1> QED BY <1>3, <1>4, <1>5, <1>6, <1>7 DEF Next, FtpNext

\* The link never keeps a stop waiting: with it the server is still the one of FtpServer, and
\* what is proved there holds here.
THEOREM Implements == Spec => ImplementsFtpServer
  <1>1. Init => FtpInit /\ FInv
    BY FtpFirst DEF Init
  <1>2. FInv /\ [Next]_vars => FInv' /\ [FtpNext]_ftpVars
    BY StepOfServer, FtpStep
  <1> QED BY <1>1, <1>2, PTL DEF Spec, ImplementsFtpServer, FtpSpec

LEMMA ServerInvariant == Spec => []FInv
  <1>1. Init => FInv
    BY FtpFirst DEF Init
  <1>2. FInv /\ [Next]_vars => FInv'
    BY StepOfServer, FtpStep
  <1> QED BY <1>1, <1>2, PTL DEF Spec

-----------------------------------------------------------------------------
(* The steps, as the hand-over sees them. *)

others == <<link, request, sDone, gaveUp, misled, commands>>

\* The frame looks at the link and leaves it, ends a request it had, ends one it finds in the
\* slot, or takes that.
PollWaits == UNCHANGED <<sOp, sActive, sResult>> /\ polled' = "yes"
PollEnds == sActive # None /\ sActive' = None /\ Finish(sActive.n) /\ UNCHANGED sOp
PollAnswers == sActive = None /\ sOp # None /\ sOp' = None /\ Finish(sOp.n) /\ UNCHANGED sActive
PollTakes ==
  sActive = None /\ sOp # None /\ sActive' = sOp /\ sOp' = None /\ polled' = "yes" /\ UNCHANGED sResult

LEMMA PollIs ==
  ASSUME Poll
  PROVE  UNCHANGED others /\ (PollWaits \/ PollEnds \/ PollAnswers \/ PollTakes)
  BY DEF Poll, others, Continue, StartLine, StartTouch, StartState, PollWaits, PollEnds,
         PollAnswers, PollTakes, NoTouch, Finish

\* Steps that leave the hand-over alone.  (commands counts those of a client.)
Aside ==
  /\ UNCHANGED <<handover, gaveUp, misled>> /\ polled' \in {polled, "no"}
  /\ commands' \in {commands, commands + 1}

LEMMA Counted ==
  ASSUME NEW t \in Thread, ServerThread(t)
  PROVE  commands' \in {commands, commands + 1}
  BY DEF ServerThread, ClientComes, ClientLeaves, ThreadEnds, Other, OtherEnds, StorCia, Stor, Retr,
         StorEnds, RetrEnds, NoData, Install, InstallFails, InstallEnds, StartCountdown,
         AskRelaunch, Quiet, Serves, Reads

LEMMA NextIs ==
  ASSUME [Next]_vars
  PROVE  \/ Aside \/ Poll \/ Signal
         \/ \E t \in Thread :
              \/ LinkBegins(t) \/ LinkStores(t) \/ LinkWakes(t) \/ LinkGivesUp(t)
              \/ LinkRetracts(t) \/ LinkReplies(t)
              \/ KeysMask(t) \/ KeysFrames(t) \/ KeysNew(t)
  <1> USE DEF Aside
  <1>1. CASE Frame
    BY <1>1 DEF Frame, TakeRelaunch, Tick, GameFrame, StopJoins, StopGivesUp, Polled, NewFrame,
                linkVars, handover, history
  <1>2. CASE Game
    BY <1>2 DEF Game, PlayerJob, JobEnds, Touch, NewFrame, ftpVars, handover, history
  <1>3. CASE TenSecondsPass /\ UNCHANGED linkVars
    BY <1>3 DEF TenSecondsPass, linkVars, handover, history
  <1>4. ASSUME NEW t \in Thread, ThreadGoesOn(t) \/ Client(t),
               ServerThread(t) /\ UNCHANGED linkVars
        PROVE  Aside
    BY <1>4, Counted DEF linkVars, handover, history
  <1>5. CASE UNCHANGED vars
    BY <1>5 DEF vars, ftpVars, linkVars, handover, history
  <1> QED
    BY <1>1, <1>2, <1>3, <1>4, <1>5 DEF Next, ThreadGoesOn, Client, ServerThread

-----------------------------------------------------------------------------
(* Where the thread is. *)

\* What the thread does outside the link.
Elsewhere(t) ==
  \/ ClientComes(t) \/ ClientLeaves(t) \/ ThreadEnds(t)
  \/ StorCia(t) \/ Stor(t) \/ Retr(t) \/ StorEnds(t) \/ RetrEnds(t) \/ NoData(t)
  \/ Install(t) \/ InstallFails(t) \/ InstallEnds(t) \/ StartCountdown(t) \/ AskRelaunch(t)

\* Between commands the thread is not inside the link.
InSite == link = "idle" \/ \E t \in Thread : at[t] = "other"

LEMMA OnlyThere ==
  ASSUME FInv, InSite, NEW t \in Thread, at[t] # "none", at[t] # "other"
  PROVE  link = "idle"
  BY DEF InSite, FInv, Sole

LEMMA StaysThere ==
  ASSUME FInv, InSite, [Next]_vars
  PROVE  InSite'
  <1> DEFINE Stays == link' = link /\ \A t \in Thread : at[t] = "other" => at'[t] = "other"
  <1>0. at \in [Thread -> Places]
    BY DEF FInv, Types, ServerTypes
  <1>1. ASSUME Stays PROVE InSite'
    BY <1>1 DEF InSite
  <1>2. ASSUME FtpButton PROVE \A t \in Thread : at[t] = "other" => at'[t] = "other"
    BY <1>0, <1>2 DEF FtpButton, StopBegins, StartServer, StartFails
  <1>3. CASE Frame
    <2>1. CASE Poll
      BY <1>2, <2>1 DEF Poll, StartLine, StartTouch, StartState, NoTouch, InSite
    <2>2. CASE StopJoins /\ UNCHANGED linkVars
      <3>1. sThread \in Thread
        BY <2>2, FtpServerAssumption DEF StopJoins, Stopping, FInv, Known
      <3>2. Stays
        BY <1>0, <2>2, <3>1 DEF StopJoins, linkVars, handover
      <3> QED BY <1>1, <3>2
    <2>3. CASE Tick /\ Polled
      BY <1>0, <2>3 DEF Tick, StartServer, StartFails, Polled, linkVars, handover, InSite
    <2> QED
      BY <1>3, <2>1, <2>2, <2>3
      DEF Frame, Signal, TakeRelaunch, GameFrame, StopGivesUp, Polled, NewFrame, ftpVars, linkVars,
          handover, InSite
  <1>4. CASE Game
    BY <1>2, <1>4 DEF Game, PlayerJob, JobEnds, Touch, NewFrame, ftpVars, handover, InSite
  <1>5. ASSUME NEW t \in Thread, Elsewhere(t), UNCHANGED linkVars
        PROVE  InSite'
    <2>1. at[t] # "other" /\ \A u \in Thread : u # t => at'[u] = at[u]
      BY <1>0, <1>5
      DEF Elsewhere, ClientComes, ClientLeaves, ThreadEnds, StorCia, Stor, Retr, StorEnds,
          RetrEnds, NoData, Install, InstallFails, InstallEnds, StartCountdown, AskRelaunch,
          Reads, Goes
    <2> QED BY <1>5, <2>1 DEF linkVars, handover, InSite
  <1>6. ASSUME NEW t \in Thread, LinkBegins(t) \/ KeysMask(t) PROVE at'[t] = "other"
    BY <1>0, <1>6 DEF LinkBegins, KeysMask, Other, Reads, Goes
  <1>7. ASSUME NEW t \in Thread,
               LinkStores(t) \/ LinkWakes(t) \/ LinkGivesUp(t) \/ KeysFrames(t)
        PROVE  at'[t] = "other"
    BY <1>7 DEF LinkStores, LinkWakes, LinkGivesUp, KeysFrames, InCommand, ftpVars
  <1>8. ASSUME NEW t \in Thread, LinkRetracts(t) \/ LinkReplies(t) \/ KeysNew(t)
        PROVE  link' = "idle"
    BY <1>8 DEF LinkRetracts, LinkReplies, KeysNew
  <1>9. ASSUME NEW t \in Thread, ThreadGoesOn(t) \/ Client(t) PROVE InSite'
    BY <1>5, <1>6, <1>7, <1>8, <1>9 DEF ThreadGoesOn, Client, Elsewhere, InSite
  <1>10. CASE (TenSecondsPass /\ UNCHANGED linkVars) \/ UNCHANGED vars
    BY <1>10 DEF TenSecondsPass, vars, ftpVars, linkVars, handover, InSite
  <1> QED BY <1>3, <1>4, <1>9, <1>10 DEF Next

-----------------------------------------------------------------------------
(* Whose line it is. *)

\* Requests that were answered with something else than their line.
Told == gaveUp \cup misled
AtClient == link \in {"idle", "mask", "frames", "clear"}

Numbered ==
  /\ commands \in Nat /\ request \in Nat /\ request <= commands
  /\ \A n \in Told : n \in Nat /\ n <= commands
  /\ link = "clear" => request \notin Told
  /\ link \in {"clear", "wait", "done", "gaveUp"} => request # 0

\* What is between the threads is of the request that waits, or of one that was told something
\* else; and it is of the first only once.
Between ==
  /\ sOp # None => sOp.n \in Told \cup {request} /\ sOp.n \notin gaveUp
  /\ sActive # None => sActive.n \in Told \cup {request}
  /\ sResult \in Told \cup {0, request}
Apart ==
  /\ AtClient => /\ sOp # None => sOp.n \in Told
                 /\ sActive # None => sActive.n \in Told
  /\ link = "clear" => sResult \in Told \cup {0}
  /\ ~ AtClient =>
       /\ sOp # None /\ sOp.n = request =>
            sResult # request /\ (sActive # None => sActive.n # request)
       /\ sActive # None /\ sActive.n = request => sResult # request

\* As long as nobody gave up there is one thing under way at a time.
Calm ==
  gaveUp = {} =>
    /\ misled = {}
    /\ AtClient \/ link = "done" => sOp = None /\ sActive = None /\ polled # "signal" /\ ~ sDone
    /\ link = "done" => sResult = request
    /\ sOp # None => sActive = None /\ polled # "signal" /\ ~ sDone
    /\ sActive # None => polled # "signal" /\ ~ sDone
    /\ polled = "signal" => sResult = request /\ ~ sDone
    /\ sDone => sResult = request

LInv ==
  /\ link \in {"idle", "clear", "wait", "done", "gaveUp", "mask", "frames"}
  /\ Numbered /\ Between /\ Apart /\ Calm

LEMMA LinkFirst == Init => InSite /\ LInv
  BY DEF Init, FtpInit, LinkInit, InSite, LInv, Numbered, Between, Apart, Calm, Told, AtClient

LEMMA FrameKeepsLink ==
  ASSUME LInv, Aside \/ Poll \/ Signal
  PROVE  LInv'
  <1> USE DEF LInv
  <1>1. CASE Aside
    BY <1>1 DEF Aside, handover, Numbered, Between, Apart, Calm, Told, AtClient
  <1>2. CASE Signal
    BY <1>2 DEF Signal, ftpVars, history, Numbered, Between, Apart, Calm, Told, AtClient
  <1>3. CASE Poll
    <2>1. UNCHANGED others /\ polled = "no"
      BY <1>3, PollIs DEF Poll
    <2>2. Numbered' /\ link' = link
      BY <2>1 DEF others, Numbered, Told
    <2>3. Between'
      BY <1>3, <2>1, PollIs
      DEF others, PollWaits, PollEnds, PollAnswers, PollTakes, Finish, Between, Told
    <2>4. Apart'
      BY <1>3, <2>1, PollIs
      DEF others, PollWaits, PollEnds, PollAnswers, PollTakes, Finish, Between, Apart, Told, AtClient
    <2>5. Calm'
      BY <1>3, <2>1, PollIs
      DEF others, PollWaits, PollEnds, PollAnswers, PollTakes, Finish, Between, Calm, Told, AtClient
    <2> QED BY <2>2, <2>3, <2>4, <2>5
  <1> QED BY <1>1, <1>2, <1>3

LEMMA CommandKeepsLink ==
  ASSUME FInv, InSite, LInv, NEW t \in Thread, LinkBegins(t) \/ KeysMask(t)
  PROVE  LInv'
  <1> USE DEF LInv, Numbered, Between, Apart, Calm, Told, AtClient
  <1>1. link = "idle" /\ commands' = commands + 1
    BY OnlyThere DEF LinkBegins, KeysMask, Other, Reads, Goes
  <1>2. CASE LinkBegins(t)
    BY <1>1, <1>2 DEF LinkBegins, history
  <1>3. CASE KeysMask(t)
    BY <1>1, <1>3 DEF KeysMask, history
  <1> QED BY <1>2, <1>3

LEMMA WaitKeepsLink ==
  ASSUME LInv, NEW t \in Thread,
         LinkStores(t) \/ LinkWakes(t) \/ LinkGivesUp(t) \/ LinkRetracts(t) \/ LinkReplies(t)
         \/ KeysFrames(t) \/ KeysNew(t)
  PROVE  LInv'
  <1> USE DEF LInv, Numbered, Between, Apart, Calm, Told, AtClient
  <1>1. CASE LinkStores(t)
    <2>1. PICK op \in LinkOps : sOp' = [n |-> request, op |-> op]
      BY <1>1 DEF LinkStores
    <2>2. sOp'.n = request
      BY <2>1
    <2> QED BY <1>1, <2>2 DEF LinkStores, InCommand, ftpVars, history
  <1>2. CASE LinkWakes(t)
    BY <1>2 DEF LinkWakes, InCommand, ftpVars, history
  <1>3. CASE LinkGivesUp(t)
    BY <1>3 DEF LinkGivesUp, InCommand, ftpVars, history
  <1>4. CASE LinkRetracts(t)
    BY <1>4 DEF LinkRetracts, OtherEnds, Quiet
  <1>5. CASE LinkReplies(t)
    BY <1>5 DEF LinkReplies, OtherEnds, Quiet
  <1>6. CASE KeysFrames(t) \/ KeysNew(t)
    BY <1>6 DEF KeysFrames, KeysNew, InCommand, OtherEnds, Quiet, ftpVars, history
  <1> QED BY <1>1, <1>2, <1>3, <1>4, <1>5, <1>6

LEMMA LinkInvariant == Spec => [](FInv /\ InSite /\ LInv)
  <1>1. FInv /\ InSite /\ LInv /\ [Next]_vars => InSite' /\ LInv'
    BY NextIs, StaysThere, FrameKeepsLink, CommandKeepsLink, WaitKeepsLink
  <1> QED BY <1>1, LinkFirst, ServerInvariant, PTL DEF Spec

\* A client gets the line of its own request, unless an earlier one gave up while the logic
\* thread had it; and what was answered with "did not take" is not taken.
THEOREM TrueAnswers == Spec => []AnswersAreTrue
  <1>1. LInv => AnswersAreTrue
    BY DEF LInv, Between, Calm, Told, AnswersAreTrue
  <1> QED BY <1>1, LinkInvariant, PTL

-----------------------------------------------------------------------------
(* Types, and the save-state requests. *)

\* What is in the slots is a request, and a request that waits for its job has it queued, or
\* it ran, or another was in the way.
Slots == sOp \in Request \cup {None} /\ sActive \in Request \cup {None}
JobIsQueued ==
  sActive # None /\ sActive.op = "state" => sActive.n \in ran \cup ignored \cup {sJob}
Flags == polled \in {"no", "signal", "yes"} /\ sDone \in BOOLEAN /\ sKeysNew \in BOOLEAN
Waited ==
  sActiveWaited \in 0 .. MaxWaited /\ (sActive # None => sActiveWaited < MaxWaited)
Past == Told \cup ignored \cup ran \subseteq Command /\ request \in 0 .. MaxCommands
JInv == Slots /\ JobIsQueued /\ QueueTypes /\ Flags /\ Waited /\ Past /\ KeysTypes

LEMMA JobsFirst == Init => JInv
  <1> SUFFICES ASSUME Init PROVE JInv
    OBVIOUS
  <1> USE FtpServerAssumption, DebugLinkAssumption DEF Init, LinkInit
  <1>1. Slots /\ JobIsQueued /\ Past
    BY DEF Slots, JobIsQueued, Past, Told
  <1>2. QueueTypes
    BY DEF QueueTypes, Player
  <1>3. Flags
    BY DEF Flags
  <1>4. Waited /\ KeysTypes
    BY DEF Waited, KeysTypes
  <1> QED BY <1>1, <1>2, <1>3, <1>4 DEF JInv

LEMMA NoneIsNoNumber == \A n \in Command : n # None /\ n \in Nat /\ n # 0 /\ n <= MaxCommands
  BY FtpServerAssumption, DebugLinkAssumption DEF Command

LEMMA PollKeepsSlots ==
  ASSUME JInv, Poll
  PROVE  Slots' /\ JobIsQueued' /\ QueueTypes' /\ Past'
  <1> USE NoneIsNoNumber DEF JInv
  <1>1. Slots'
    BY PollIs DEF PollWaits, PollEnds, PollAnswers, PollTakes, Slots
  <1>2. sOp # None => sOp.n \in Command
    BY DEF Slots, Request
  <1>3. JobIsQueued'
    BY DEF Poll, Continue, StartLine, StartTouch, StartState, Finish, NoTouch, JobIsQueued
  <1>4. sJob' \in {sJob, Player} \cup Command /\ sMsg' = sMsg
    BY <1>2 DEF Poll, StartLine, StartTouch, StartState, NoTouch
  <1>5. QueueTypes'
    BY <1>4, FtpServerAssumption DEF QueueTypes, Player
  <1>6. ignored' \subseteq ignored \cup Command /\ UNCHANGED <<gaveUp, misled, ran, request>>
    BY <1>2 DEF Poll, Continue, StartLine, StartTouch, StartState
  <1> QED BY <1>1, <1>3, <1>5, <1>6 DEF Past, Told

LEMMA PollKeepsRest ==
  ASSUME JInv, Poll
  PROVE  Flags' /\ Waited' /\ KeysTypes'
  <1> USE FtpServerAssumption, DebugLinkAssumption DEF JInv
  <1>1. polled' \in {"signal", "yes"} /\ sDone' = sDone
    BY PollIs DEF PollWaits, PollEnds, PollAnswers, PollTakes, Finish, others
  <1>2. sKeysNew' \in {sKeysNew, FALSE}
    BY DEF Poll, PollKeys
  <1>3. Flags'
    BY <1>1, <1>2 DEF Flags
  <1>4. \/ sActiveWaited' = 0
        \/ UNCHANGED <<sActive, sActiveWaited>>
        \/ sActive # None /\ Continue
    BY DEF Poll
  <1>5. ASSUME sActive # None, Continue PROVE Waited'
    BY <1>5 DEF Continue, Waited
  <1>6. Waited'
    BY <1>4, <1>5 DEF Waited
  <1>7. KeysTypes'
    <2>1. sKeysMask' = sKeysMask /\ sKeysFrames' = sKeysFrames /\ sKeysNow' \in {{}, sKeysMask}
      BY DEF Poll, PollKeys
    <2>2. \E n \in {sKeysUntil, sKeysFrames} : sKeysUntil' = IF n > 0 THEN n - 1 ELSE 0
      BY DEF Poll, PollKeys
    <2> QED BY <2>1, <2>2 DEF KeysTypes
  <1> QED BY <1>3, <1>6, <1>7

LEMMA JobsStep ==
  ASSUME FInv, FInv', LInv, JInv, [Next]_vars
  PROVE  JInv'
  <1> USE FtpServerAssumption, DebugLinkAssumption, NoneIsNoNumber
  <1> DEFINE Same == UNCHANGED <<sOp, sActive, sActiveWaited, queue, keys, ignored, ran>>
  <1>0. /\ MaxCommands \in Nat /\ commands' \in 0 .. MaxCommands
        /\ link = "clear" => request \in Command
    BY DEF FInv, Types, FrameTypes, LInv, Numbered, Command
  <1>1. CASE Poll
    BY <1>1, PollKeepsSlots, PollKeepsRest DEF JInv
  <1>2. ASSUME Same, UNCHANGED <<gaveUp, misled, request>>, Flags' PROVE JInv'
    BY <1>2 DEF JInv, Slots, JobIsQueued, QueueTypes, Waited, Past, KeysTypes, Told, queue, keys
  <1>3. CASE PlayerJob
    BY <1>3 DEF PlayerJob, ftpVars, handover, keys, history, JInv, Slots, JobIsQueued, QueueTypes,
                Flags, Waited, Past, KeysTypes, Told, Player, Thumb, Request
  <1>4. CASE JobEnds
    <2>1. UNCHANGED <<handover, keys, polled, gaveUp, misled, ignored>> /\ sJob' = None
      BY <1>4 DEF JobEnds
    <2>2. ran \subseteq ran' /\ ran' \subseteq ran \cup Command
          /\ (sJob \in Command => sJob \in ran')
      BY <1>4 DEF JobEnds
    <2>3. JobIsQueued'
      BY <2>1, <2>2 DEF JInv, Slots, JobIsQueued, Request, handover
    <2>4. QueueTypes'
      BY <1>4 DEF JobEnds, JInv, QueueTypes, Thumb
    <2> QED
      BY <2>1, <2>2, <2>3, <2>4
      DEF JInv, Slots, Flags, Waited, Past, KeysTypes, Told, handover, keys
  <1>6. CASE Signal
    BY <1>2, <1>6 DEF Signal, handover, keys, queue, history, JInv, Flags
  <1>7. ASSUME NEW t \in Thread, LinkBegins(t) PROVE JInv'
    <2>1. commands' = commands + 1 /\ request' = commands' /\ sDone' = FALSE
      BY <1>7 DEF LinkBegins, Other, Reads
    <2>2. request' \in 0 .. MaxCommands
      BY <1>0, <2>1
    <2> QED
      BY <1>7, <2>1, <2>2
      DEF LinkBegins, JInv, Slots, JobIsQueued, QueueTypes, Flags, Waited, Past, KeysTypes, Told,
          queue, keys, history
  <1>8. ASSUME NEW t \in Thread, LinkStores(t) PROVE JInv'
    <2>1. sOp' \in Request
      BY <1>0, <1>8 DEF LinkStores, Request
    <2> QED
      BY <1>8, <2>1
      DEF LinkStores, JInv, Slots, JobIsQueued, QueueTypes, Flags, Waited, Past, KeysTypes, Told,
          queue, keys, history
  <1>9. ASSUME NEW t \in Thread, LinkWakes(t) \/ LinkGivesUp(t) PROVE JInv'
    BY <1>2, <1>9 DEF LinkWakes, LinkGivesUp, queue, keys, history, JInv, Flags
  <1>10. ASSUME NEW t \in Thread, LinkRetracts(t) \/ LinkReplies(t) PROVE JInv'
    <2>1. request \in Command
      BY <1>0, <1>10 DEF LinkRetracts, LinkReplies, LInv, Numbered, Command, Past, JInv
    <2> QED
      BY <1>10, <2>1
      DEF LinkRetracts, LinkReplies, JInv, Slots, JobIsQueued, QueueTypes, Flags, Waited, Past,
          KeysTypes, Told, queue, keys
  <1>11. ASSUME NEW t \in Thread, KeysMask(t) \/ KeysFrames(t) \/ KeysNew(t) PROVE JInv'
    BY <1>11
    DEF KeysMask, KeysFrames, KeysNew, JInv, Slots, JobIsQueued, QueueTypes, Flags, Waited, Past,
        KeysTypes, Told, queue, history
  <1>12. CASE UNCHANGED linkVars \/ (NewFrame /\ UNCHANGED queue)
    BY <1>2, <1>12 DEF linkVars, NewFrame, handover, keys, history, JInv, Flags
  <1>13. CASE Frame
    BY <1>1, <1>6, <1>12, <1>13 DEF Frame, Polled
  <1>14. CASE Game
    BY <1>3, <1>4, <1>12, <1>14 DEF Game
  <1>15. ASSUME NEW t \in Thread, ThreadGoesOn(t) \/ Client(t) PROVE JInv'
    BY <1>7, <1>8, <1>9, <1>10, <1>11, <1>12, <1>15 DEF ThreadGoesOn, Client
  <1> QED BY <1>12, <1>13, <1>14, <1>15 DEF Next, vars

LEMMA JobsInvariant == Spec => [](FInv /\ LInv /\ JInv)
  <1>1. FInv /\ FInv' /\ LInv /\ JInv /\ [Next]_vars => JInv'
    BY JobsStep
  <1> QED BY <1>1, JobsFirst, LinkInvariant, PTL DEF Spec

\* The types.
THEOREM LinkTyped == Spec => []TypeOK
  <1> SUFFICES ASSUME FInv, LInv, JInv PROVE TypeOK
    BY JobsInvariant, PTL
  <1>1. FtpTypeOK /\ LinkTypes /\ QueueTypes /\ KeysTypes /\ sDone \in BOOLEAN /\ sKeysNew \in BOOLEAN
    BY DEF FInv, Types, FtpTypeOK, LInv, JInv, Slots, Flags, LinkTypes
  <1>2. HistoryTypes
    BY DEF JInv, Past, Told, HistoryTypes
  <1>3. CountTypes
    BY FtpServerAssumption, NoneIsNoNumber DEF JInv, Past, Waited, LInv, Between, Told, CountTypes
  <1> QED BY <1>1, <1>2, <1>3 DEF TypeOK

\* A state request is answered after its job, or because it waited too long, or because
\* another job was in the way.
THEOREM AfterItsJob == Spec => AnsweredAfterItsJob
  <1>1. ASSUME JInv, [Next]_vars, StateAnswers PROVE sActive.n \in ran \cup ignored
    <2>1. Poll
      BY <1>1 DEF StateAnswers, Next, vars, linkVars, handover, Frame, Game, ThreadGoesOn, Client,
                  Signal, Polled, NewFrame, PlayerJob, JobEnds, LinkBegins, LinkStores, LinkWakes,
                  LinkGivesUp, LinkRetracts, LinkReplies, KeysMask, KeysFrames, KeysNew
    <2>2. Continue
      BY <1>1, <2>1 DEF Poll, StateAnswers
    <2>3. sJob = None
      BY <1>1, <2>2, DebugLinkAssumption DEF Continue, StateAnswers, JInv, Waited
    <2> QED BY <1>1, <2>3, NoneIsNoNumber DEF StateAnswers, JInv, JobIsQueued, Slots, Request
  <1>2. JInv /\ [Next]_vars => [StateAnswers => sActive.n \in ran \cup ignored]_vars
    BY <1>1
  <1> QED BY <1>2, JobsInvariant, PTL DEF Spec, AnsweredAfterItsJob
=============================================================================
